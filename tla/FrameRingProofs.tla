--------------------------- MODULE FrameRingProofs ---------------------------
(***************************************************************************)
(* Proofs about FrameRing, for any number of writers and any sizes that    *)
(* RingAssumption allows: no record is ever cut, the totals count what the *)
(* ring holds whenever they wrap and however often the ring is emptied,    *)
(* and the reader gets whole frames.                                       *)
(***************************************************************************)
EXTENDS FrameRing, FiniteSetTheorems, TLAPS

\* The longest frame with its header.
Whole == Header + Longest

\* The numbers of RingAssumption.
LEMMA Sizes ==
  /\ Header \in Nat /\ Header >= 1 /\ Longest \in Nat /\ Longest >= 1
  /\ Whole \in Nat /\ Size \in Nat /\ Slack \in Nat /\ Slack <= Size
  /\ MaxTotal \in Nat /\ 0 < MaxTotal
  <1>1. /\ Header \in Nat /\ Header >= 1 /\ Longest \in Nat /\ Longest >= 1
        /\ Size \in Nat /\ Slack \in Nat /\ Slack <= Size /\ MaxTotal \in Nat
    BY RingAssumption
  <1>2. 0 \in 0 .. Size /\ 0 * (Header + 1) <= Size BY <1>1
  <1>3. 2 * 0 + 1 < MaxTotal BY <1>2, RingAssumption
  <1> QED BY <1>1, <1>3 DEF Whole
-----------------------------------------------------------------------------
(* The bytes of a sequence of records.                                     *)

\* As many numbers as the last one says.
LEMMA RangeSize ==
  ASSUME NEW n \in Nat
  PROVE  IsFiniteSet(1 .. n) /\ Cardinality(1 .. n) = n
  <1>1. 1 \in Int /\ n \in Int OBVIOUS
  <1>2. IsFiniteSet(1 .. n) /\ Cardinality(1 .. n) = IF 1 > n THEN 0 ELSE n - 1 + 1
    BY <1>1, FS_Interval
  <1> QED BY <1>2

\* A new element is one more.
LEMMA ElementMore ==
  ASSUME NEW S, IsFiniteSet(S), NEW x, x \notin S
  PROVE  IsFiniteSet(S \cup {x}) /\ Cardinality(S \cup {x}) = Cardinality(S) + 1
  BY FS_AddElement, Zenon

\* The bytes of as many records as S has, all of length n.
LEMMA BlockSize ==
  ASSUME NEW S, IsFiniteSet(S), NEW n \in Nat
  PROVE  IsFiniteSet(S \X (1 .. n)) /\ Cardinality(S \X (1 .. n)) = Cardinality(S) * n
  <1>1. IsFiniteSet(1 .. n) /\ Cardinality(1 .. n) = n BY RangeSize
  <1>2. /\ IsFiniteSet(S \X (1 .. n))
        /\ Cardinality(S \X (1 .. n)) = Cardinality(S) * Cardinality(1 .. n)
    BY <1>1, FS_Product
  <1> QED BY <1>1, <1>2

\* A sequence has finitely many bytes, and one or more in each record.
LEMMA StoredSize ==
  ASSUME NEW q \in Seq(Records)
  PROVE  /\ IsFiniteSet(Stored(q)) /\ Cardinality(Stored(q)) \in Nat
         /\ Len(q) \in Nat /\ Len(q) <= Cardinality(Stored(q))
  <1>0. Len(q) \in Nat /\ Whole \in Nat BY Sizes
  <1>1. IsFiniteSet((1 .. Len(q)) \X (1 .. Whole)) BY <1>0, RangeSize, BlockSize
  <1>2. IsFiniteSet(Stored(q)) BY <1>1, FS_Subset DEF Stored, Whole
  <1>3. (1 .. Len(q)) \X (1 .. 1) \subseteq Stored(q)
    <2>1. ASSUME NEW i \in 1 .. Len(q) PROVE <<i, 1>> \in Stored(q)
      <3>1. q[i] \in Records BY <2>1
      <3>2. q[i].len \in 1 .. Header + Longest BY <3>1 DEF Records
      <3> QED BY <3>2, Sizes DEF Stored, Whole
    <2>2. \A d \in (1 .. Len(q)) \X (1 .. 1) : \E i \in 1 .. Len(q) : d = <<i, 1>> OBVIOUS
    <2> QED BY <2>1, <2>2
  <1>4. Cardinality((1 .. Len(q)) \X (1 .. 1)) = Len(q)
    <2>1. Cardinality((1 .. Len(q)) \X (1 .. 1)) = Cardinality(1 .. Len(q)) * 1
      BY <1>0, RangeSize, BlockSize
    <2> QED BY <1>0, <2>1, RangeSize
  <1>5. Cardinality((1 .. Len(q)) \X (1 .. 1)) <= Cardinality(Stored(q))
    BY <1>2, <1>3, FS_Subset
  <1>6. Cardinality(Stored(q)) \in Nat BY <1>2, FS_CardinalityType
  <1> QED BY <1>0, <1>2, <1>4, <1>5, <1>6

\* An empty ring holds nothing.
LEMMA StoredEmpty == Cardinality(Stored(<<>>)) = 0
  <1>1. Stored(<<>>) = {} BY DEF Stored
  <1> QED BY <1>1, FS_EmptySet

\* Two sequences whose bytes are D together with what one record more has.
LEMMA OneMore ==
  ASSUME NEW D, IsFiniteSet(D), NEW n, NEW l \in Nat, D \cap ({n} \X (1 .. l)) = {}
  PROVE  Cardinality(D \cup ({n} \X (1 .. l))) = Cardinality(D) + l
  <1>1. PICK E : E = {n} \X (1 .. l) OBVIOUS
  <1>2. IsFiniteSet(E) /\ Cardinality(E) = l
    <2>1. IsFiniteSet({n}) /\ Cardinality({n}) = 1 BY FS_Singleton
    <2>2. IsFiniteSet({n} \X (1 .. l)) /\ Cardinality({n} \X (1 .. l)) = 1 * l
      BY <2>1, BlockSize
    <2> QED BY <1>1, <2>2
  <1>3. Cardinality(D \cup E) = Cardinality(D) + Cardinality(E) - Cardinality(D \cap E)
    BY <1>2, FS_Union
  <1>4. Cardinality(D \cap E) = 0 BY <1>1, FS_EmptySet
  <1>5. Cardinality(D) \in Nat BY FS_CardinalityType
  <1>6. ASSUME NEW a \in Nat, NEW b \in Nat, NEW c, c = 0 PROVE a + b - c = a + b
    BY <1>6
  <1> QED BY <1>1, <1>2, <1>3, <1>4, <1>5, <1>6

\* Appending a record adds its length.
LEMMA StoredAppend ==
  ASSUME NEW q \in Seq(Records), NEW r \in Records
  PROVE  Cardinality(Stored(Append(q, r))) = Cardinality(Stored(q)) + r.len
  <1>0. PICK p : p = Append(q, r) OBVIOUS
  <1>1. /\ p \in Seq(Records) /\ Len(p) = Len(q) + 1 /\ Len(q) \in Nat
        /\ \A i \in 1 .. Len(q) : p[i] = q[i]
        /\ p[Len(q) + 1] = r
    BY <1>0
  <1>2. PICK n, l : n = Len(q) + 1 /\ l = r.len OBVIOUS
  <1>3. l \in 1 .. Whole /\ l \in Nat BY <1>2, Sizes DEF Records, Whole
  <1>4. Stored(p) = Stored(q) \cup ({n} \X (1 .. l))
    <2>1. ASSUME NEW d \in Stored(p) PROVE d \in Stored(q) \cup ({n} \X (1 .. l))
      <3>1. PICK i \in 1 .. Len(p), b \in 1 .. Whole : d = <<i, b>> /\ b <= p[i].len
        BY <2>1 DEF Stored, Whole
      <3>2. CASE i = n
        <4>1. b \in 1 .. l BY <1>1, <1>2, <1>3, <3>1, <3>2
        <4> QED BY <3>1, <3>2, <4>1
      <3>3. CASE i # n
        <4>1. i \in 1 .. Len(q) /\ b <= q[i].len BY <1>1, <1>2, <3>1, <3>3
        <4> QED BY <3>1, <4>1 DEF Stored, Whole
      <3> QED BY <3>2, <3>3
    <2>2. ASSUME NEW d \in Stored(q) PROVE d \in Stored(p)
      <3>1. PICK i \in 1 .. Len(q), b \in 1 .. Whole : d = <<i, b>> /\ b <= q[i].len
        BY <2>2 DEF Stored, Whole
      <3>2. i \in 1 .. Len(p) /\ b <= p[i].len BY <1>1, <3>1
      <3> QED BY <3>1, <3>2 DEF Stored, Whole
    <2>3. ASSUME NEW d \in {n} \X (1 .. l) PROVE d \in Stored(p)
      <3>1. PICK b \in 1 .. l : d = <<n, b>> BY <2>3
      <3>2. b \in 1 .. Whole /\ n \in 1 .. Len(p) /\ b <= p[n].len
        BY <1>1, <1>2, <1>3, <3>1, Sizes
      <3> QED BY <3>1, <3>2 DEF Stored, Whole
    <2> QED BY <2>1, <2>2, <2>3
  <1>5. Stored(q) \cap ({n} \X (1 .. l)) = {}
    <2>1. n \notin 1 .. Len(q) BY <1>1, <1>2
    <2> QED BY <2>1 DEF Stored
  <1>6. Cardinality(Stored(q) \cup ({n} \X (1 .. l))) = Cardinality(Stored(q)) + l
    BY <1>3, <1>5, StoredSize, OneMore
  <1> QED BY <1>0, <1>2, <1>4, <1>6

\* Taking the first record off takes off its length.
LEMMA StoredTail ==
  ASSUME NEW q \in Seq(Records), q # <<>>, NEW t, t = Tail(q)
  PROVE  /\ t \in Seq(Records) /\ Len(t) = Len(q) - 1 /\ Len(q) >= 1
         /\ \A i \in 1 .. Len(t) : t[i] = q[i + 1]
         /\ q[1] \in Records
         /\ Cardinality(Stored(q)) = Cardinality(Stored(t)) + q[1].len
  <1>1. /\ t \in Seq(Records) /\ Len(t) = Len(q) - 1 /\ Len(q) >= 1 /\ Len(q) \in Nat
        /\ \A i \in 1 .. Len(t) : t[i] = q[i + 1]
        /\ q[1] \in Records
    OBVIOUS
  <1>2. PICK l : l = q[1].len OBVIOUS
  <1>3. l \in 1 .. Whole /\ l \in Nat BY <1>1, <1>2, Sizes DEF Records, Whole
  <1>4. PICK D : D = {d \in Stored(q) : d[1] # 1} OBVIOUS
  <1>5. Stored(q) = D \cup ({1} \X (1 .. l))
    <2>1. ASSUME NEW d \in Stored(q) PROVE d \in D \cup ({1} \X (1 .. l))
      <3>1. PICK i \in 1 .. Len(q), b \in 1 .. Whole : d = <<i, b>> /\ b <= q[i].len
        BY <2>1 DEF Stored, Whole
      <3>2. CASE i = 1
        <4>1. b \in 1 .. l BY <1>2, <1>3, <3>1, <3>2
        <4> QED BY <3>1, <3>2, <4>1
      <3>3. CASE i # 1 BY <1>4, <2>1, <3>1, <3>3
      <3> QED BY <3>2, <3>3
    <2>2. ASSUME NEW d \in {1} \X (1 .. l) PROVE d \in Stored(q)
      <3>1. PICK b \in 1 .. l : d = <<1, b>> BY <2>2
      <3>2. b \in 1 .. Whole /\ 1 \in 1 .. Len(q) /\ b <= q[1].len
        BY <1>1, <1>2, <1>3, <3>1, Sizes
      <3> QED BY <3>1, <3>2 DEF Stored, Whole
    <2> QED BY <1>4, <2>1, <2>2
  <1>6. IsFiniteSet(D) /\ D \cap ({1} \X (1 .. l)) = {}
    <2>1. D \in SUBSET Stored(q) BY <1>4
    <2>2. IsFiniteSet(D) BY <2>1, StoredSize, FS_Subset
    <2> QED BY <1>4, <2>2
  <1>7. Cardinality(Stored(q)) = Cardinality(D) + l 
    <2>1. Cardinality(D \cup ({1} \X (1 .. l))) = Cardinality(D) + l
      BY <1>3, <1>6, OneMore
    <2> QED BY <1>5, <2>1
  <1>8. Cardinality(Stored(t)) = Cardinality(D)
    <2>1. PICK f : f = [d \in D |-> <<d[1] - 1, d[2]>>] OBVIOUS
    <2>2. ASSUME NEW d \in D
          PROVE  /\ f[d] \in Stored(t) /\ f[d] = <<d[1] - 1, d[2]>>
                 /\ d = <<d[1], d[2]>> /\ d[1] \in Int
      <3>1. PICK i \in 1 .. Len(q), b \in 1 .. Whole : d = <<i, b>> /\ b <= q[i].len
        BY <1>4, <2>2 DEF Stored, Whole
      <3>2. i # 1 /\ d[1] = i /\ d[2] = b BY <1>4, <2>2, <3>1
      <3>3. i - 1 \in 1 .. Len(t) /\ b <= t[i - 1].len
        <4>1. i - 1 \in 1 .. Len(t) BY <1>1, <3>2
        <4>2. t[i - 1] = q[i - 1 + 1] BY <1>1, <4>1
        <4> QED BY <1>1, <3>1, <4>1, <4>2
      <3>4. <<i - 1, b>> \in Stored(t) BY <3>3 DEF Stored, Whole
      <3>5. f[d] = <<d[1] - 1, d[2]>> BY <2>1, <2>2
      <3>6. f[d] = <<i - 1, b>> BY <3>2, <3>5
      <3> QED BY <3>1, <3>2, <3>4, <3>5, <3>6
    <2>3. ASSUME NEW e \in Stored(t) PROVE \E d \in D : f[d] = e
      <3>1. PICK i \in 1 .. Len(t), b \in 1 .. Whole : e = <<i, b>> /\ b <= t[i].len
        BY <2>3 DEF Stored, Whole
      <3>2. i + 1 \in 1 .. Len(q) /\ b <= q[i + 1].len BY <1>1, <3>1
      <3>3. PICK d : d = <<i + 1, b>> OBVIOUS
      <3>4. d \in Stored(q) /\ d[1] = i + 1 /\ d[2] = b /\ i + 1 # 1
        BY <3>1, <3>2, <3>3 DEF Stored, Whole
      <3>5. d \in D BY <1>4, <3>4
      <3>6. f[d] = <<d[1] - 1, d[2]>> BY <2>1, <3>5
      <3>7. d[1] - 1 = i BY <3>1, <3>4
      <3>8. f[d] = <<i, b>> BY <3>4, <3>6, <3>7
      <3> QED BY <3>1, <3>5, <3>8
    <2>4. f \in Surjection(D, Stored(t)) BY <2>1, <2>2, <2>3 DEF Surjection
    <2>5. f \in Injection(D, Stored(t))
      <3>1. ASSUME NEW d \in D, NEW e \in D, f[d] = f[e] PROVE d = e
        <4>1. d[1] - 1 = e[1] - 1 /\ d[2] = e[2] BY <2>2, <3>1
        <4>2. d[1] = e[1] BY <2>2, <4>1
        <4> QED BY <2>2, <4>1, <4>2
      <3> QED BY <2>1, <2>2, <3>1 DEF Injection, IsInjective
    <2> QED BY <1>6, <2>4, <2>5, FS_Surjection
  <1>9. Cardinality(Stored(q)) = Cardinality(Stored(t)) + l BY <1>7, <1>8
  <1> QED BY <1>1, <1>2, <1>9
-----------------------------------------------------------------------------
(* The room that the writers claim.                                        *)

\* The longest frame of a writer, with its header.
Frame(w) == Header + MaxLen[w]

LEMMA FrameSize ==
  ASSUME NEW w \in Writers
  PROVE  Frame(w) \in Nat /\ Frame(w) <= Whole
  <1>1. MaxLen[w] \in 1 .. Longest BY RingAssumption
  <1> QED BY <1>1, Sizes DEF Frame, Whole

\* Finitely many bytes, the fewer writers the fewer.
LEMMA ClaimSize ==
  ASSUME NEW T \in SUBSET Writers, NEW S \in SUBSET T
  PROVE  /\ IsFiniteSet(Claim(S)) /\ Cardinality(Claim(S)) \in Nat
         /\ Cardinality(Claim(S)) <= Cardinality(Claim(T))
  <1>1. IsFiniteSet(T) BY RingAssumption, FS_Subset
  <1>2. IsFiniteSet(T \X (1 .. Whole)) BY <1>1, BlockSize, Sizes
  <1>3. IsFiniteSet(Claim(T))
    <2>1. Claim(T) \subseteq T \X (1 .. Whole) BY DEF Claim, Whole
    <2> QED BY <1>2, <2>1, FS_Subset
  <1>4. Claim(S) \subseteq Claim(T) BY DEF Claim
  <1>5. IsFiniteSet(Claim(S)) /\ Cardinality(Claim(S)) <= Cardinality(Claim(T))
    BY <1>3, <1>4, FS_Subset
  <1> QED BY <1>5, FS_CardinalityType

\* What a writer claims with the others: a frame of its own length more.
LEMMA ClaimMore ==
  ASSUME NEW S \in SUBSET Writers, NEW w \in Writers \ S
  PROVE  Cardinality(Claim(S \cup {w})) = Cardinality(Claim(S)) + Frame(w)
  <1>1. PICK l : l = Frame(w) OBVIOUS
  <1>2. l \in Nat /\ l <= Whole BY <1>1, FrameSize
  <1>3. IsFiniteSet(Claim(S)) BY ClaimSize
  <1>4. Claim(S \cup {w}) = Claim(S) \cup ({w} \X (1 .. l))
    <2>1. ASSUME NEW d \in Claim(S \cup {w}) PROVE d \in Claim(S) \cup ({w} \X (1 .. l))
      <3>1. PICK v \in S \cup {w}, b \in 1 .. Whole : d = <<v, b>> /\ b <= Frame(v)
        BY <2>1 DEF Claim, Whole, Frame
      <3>2. CASE v = w
        <4>1. b \in 1 .. l BY <1>1, <1>2, <3>1, <3>2
        <4> QED BY <3>1, <3>2, <4>1
      <3>3. CASE v # w BY <3>1, <3>3 DEF Claim, Whole, Frame
      <3> QED BY <3>2, <3>3
    <2>2. ASSUME NEW d \in Claim(S) PROVE d \in Claim(S \cup {w})
      BY <2>2 DEF Claim
    <2>3. ASSUME NEW d \in {w} \X (1 .. l) PROVE d \in Claim(S \cup {w})
      <3>1. PICK b \in 1 .. l : d = <<w, b>> BY <2>3
      <3>2. b \in 1 .. Whole /\ b <= Frame(w) BY <1>1, <1>2, <3>1, Sizes
      <3> QED BY <3>1, <3>2 DEF Claim, Whole, Frame
    <2> QED BY <2>1, <2>2, <2>3
  <1>5. Claim(S) \cap ({w} \X (1 .. l)) = {} BY DEF Claim
  <1>6. Cardinality(Claim(S) \cup ({w} \X (1 .. l))) = Cardinality(Claim(S)) + l
    BY <1>2, <1>3, <1>5, OneMore
  <1> QED BY <1>1, <1>4, <1>6
-----------------------------------------------------------------------------
(* The invariant.                                                          *)

\* The steps after a record has moved in, or out, until item_num is stored.
Moved == {"total", "wrap", "test", "sub", "addsub", "count"}

\* Where a writer can stand.
Places == {"idle", "lock", "put", "in", "short"} \cup Moved

\* Only the writer that holds the mutex is in fifo_put, and the others start
\* with a header.
Locks == \A w \in Writers :
  /\ lock = w <=> wpc[w] \in {"put", "in"} \cup Moved
  /\ lock # w => part[w] = "header"
  /\ wpc[w] # "short"

\* The writers that have seen room.
Busy == {w \in Writers : wpc[w] # "idle"}

\* What the writer w has put of its frame.
PutBytes(w) ==
  IF part[w] = "header"
    THEN IF wpc[w] \in Moved THEN Header ELSE 0
    ELSE IF wpc[w] \in Moved THEN Header + wlen[w] ELSE Header

\* What the ring can hold when every writer has seen room.
Limit == Size - Slack + Cardinality(Claim(Writers))

\* Each writer that has seen room has a whole frame of it left, except what it
\* has put already.
RoomKept ==
  /\ lock = NULL => Bytes + Cardinality(Claim(Busy)) <= Limit
  /\ \A w \in Writers :
       lock = w => Bytes + Cardinality(Claim(Busy)) <= Limit + PutBytes(w)

\* The part of the first record of the ring.
Comes == IF rpc \in Moved THEN IF want = "header" THEN "data" ELSE "header" ELSE want

\* The writer w has put a header, and not yet its data.
Half(w) == lock = w /\ \/ part[w] = "header" /\ wpc[w] \in Moved
                       \/ part[w] = "data" /\ wpc[w] \notin Moved

\* Headers and data take turns, each header followed by its own data.
Turns ==
  /\ \A i \in 1 .. Len(ring) : /\ ring[i].part = "header" => ring[i].len = Header
                               /\ ring[i].part = "data" => ring[i].len <= Longest
  /\ \A i \in 1 .. Len(ring) - 1 :
       /\ ring[i].part # ring[i + 1].part
       /\ ring[i].part = "header" => ring[i + 1].by = ring[i].by

\* The reader is at the start of a frame, or after the header it remembers.
ReaderAt ==
  /\ ring # <<>> => ring[1].part = Comes
  /\ Comes = "data" => /\ head \in Records
                       /\ ring # <<>> => ring[1].by = head.by
  /\ rpc = "idle" => want = "header"
  /\ rpc = "out" => ring # <<>> /\ (want = "header" => head = ring[1])

\* The last record is a header only while its writer has the data to put.
WriterAt ==
  /\ \A w \in Writers : Half(w) =>
       IF ring # <<>> THEN ring[Len(ring)].part = "header" /\ ring[Len(ring)].by = w
                      ELSE Comes = "data" /\ head.by = w
  /\ (\A w \in Writers : ~Half(w)) =>
       IF ring # <<>> THEN ring[Len(ring)].part = "data" ELSE Comes = "header"

\* A total is at MaxTotal only until it starts again from 0.
Wraps ==
  /\ (\A w \in Writers : wpc[w] # "wrap") => totalWrite < MaxTotal
  /\ (\E w \in Writers : wpc[w] = "wrap") => totalWrite = MaxTotal
  /\ rpc # "wrap" => totalRead < MaxTotal
  /\ rpc = "wrap" => totalRead = MaxTotal

RInv == TypeOK /\ Locks /\ RoomKept /\ Turns /\ ReaderAt /\ WriterAt /\ Wraps /\ TotalsCount
-----------------------------------------------------------------------------
(* Room.                                                                   *)

\* Bytes by the ring, now and after the step.
LEMMA BytesNow == Bytes = Cardinality(Stored(ring))
  BY DEF Bytes

LEMMA BytesNext == Bytes' = Cardinality(Stored(ring'))
  BY DEF Bytes, Stored

\* The numbers that RoomKept compares.
LEMMA RoomTypes ==
  ASSUME TypeOK
  PROVE  /\ Bytes \in Nat /\ Len(ring) \in Nat /\ Len(ring) <= Bytes
         /\ Cardinality(Claim(Busy)) \in Nat
         /\ \A w \in Busy : Cardinality(Claim(Busy)) >= Frame(w)
         /\ Limit \in Int /\ Limit <= Size
         /\ \A w \in Writers : /\ PutBytes(w) \in 0 .. Frame(w) /\ PutLen(w) \in 1 .. Whole
                               /\ Frame(w) \in Nat
  <1>1. ring \in Seq(Records) BY DEF TypeOK
  <1>2. Bytes \in Nat /\ Len(ring) \in Nat /\ Len(ring) <= Bytes
    BY <1>1, StoredSize, BytesNow
  <1>3. Cardinality(Claim(Busy)) \in Nat
    <2>1. Busy \in SUBSET Writers BY DEF Busy
    <2> QED BY <2>1, ClaimSize
  <1>4. ASSUME NEW w \in Busy PROVE Cardinality(Claim(Busy)) >= Frame(w)
    <2>1. PICK S : S = Busy \ {w} OBVIOUS
    <2>2. S \in SUBSET Writers /\ w \in Writers \ S /\ Busy = S \cup {w} BY <2>1 DEF Busy
    <2>3. Cardinality(Claim(S \cup {w})) = Cardinality(Claim(S)) + Frame(w) BY <2>2, ClaimMore
    <2>4. Cardinality(Claim(S)) \in Nat BY <2>2, ClaimSize
    <2>5. Frame(w) \in Nat BY <2>2, FrameSize
    <2> QED BY <2>2, <2>3, <2>4, <2>5
  <1>5. Limit \in Int /\ Limit <= Size
    <2>1. PICK n : n = Cardinality(Claim(Writers)) OBVIOUS
    <2>2. n \in Nat BY <2>1, ClaimSize
    <2>3. n <= Slack BY <2>1, RingAssumption
    <2> QED BY <2>1, <2>2, <2>3, Sizes DEF Limit
  <1>6. ASSUME NEW w \in Writers
        PROVE  /\ PutBytes(w) \in 0 .. Frame(w) /\ PutLen(w) \in 1 .. Whole
               /\ Frame(w) \in Nat
    <2>1. /\ wlen[w] \in 1 .. Longest /\ wlen[w] <= MaxLen[w] /\ MaxLen[w] \in Nat
          /\ MaxLen[w] \in 1 .. Longest
      BY RingAssumption DEF TypeOK
    <2> QED BY <2>1, Sizes DEF PutBytes, PutLen, Whole, Frame
  <1> QED BY <1>2, <1>3, <1>4, <1>5, <1>6

\* The room that was seen is there when the record is put.
LEMMA Fits ==
  ASSUME TypeOK, Locks, RoomKept, NEW w \in Writers, wpc[w] \in {"put", "in"}
  PROVE  PutLen(w) <= Size - Bytes
  <1>1. lock = w /\ w \in Busy BY DEF Locks, Busy
  <1>2. PICK k : k = Cardinality(Claim(Busy)) OBVIOUS
  <1>3. Bytes + k <= Limit + PutBytes(w) BY <1>1, <1>2 DEF RoomKept
  <1>4. k >= Frame(w) /\ k \in Nat /\ Frame(w) \in Nat BY <1>1, <1>2, RoomTypes
  <1>5. PutBytes(w) + PutLen(w) <= Frame(w)
    <2>1. /\ wlen[w] \in 1 .. Longest /\ wlen[w] <= MaxLen[w] /\ MaxLen[w] \in 1 .. Longest
          /\ part[w] \in {"header", "data"} /\ wpc[w] \notin Moved
      BY RingAssumption DEF TypeOK, Parts, Moved
    <2>2. CASE part[w] = "header" BY <2>1, <2>2, Sizes DEF PutBytes, PutLen, Frame
    <2>3. CASE part[w] = "data" BY <2>1, <2>3, Sizes DEF PutBytes, PutLen, Frame
    <2> QED BY <2>1, <2>2, <2>3
  <1>6. /\ Bytes \in Nat /\ Limit \in Int /\ Limit <= Size /\ PutBytes(w) \in Int
        /\ PutLen(w) \in Int
    BY RoomTypes
  <1> QED BY <1>3, <1>4, <1>5, <1>6, Sizes

\* The ring never holds more than it has room for.
LEMMA RingBounded ==
  ASSUME TypeOK, Locks, RoomKept
  PROVE  Bytes <= Size /\ Len(ring) <= Size
  <1>1. PICK k : k = Cardinality(Claim(Busy)) OBVIOUS
  <1>2. k \in Nat BY <1>1, RoomTypes
  <1>3. /\ Bytes \in Nat /\ Len(ring) \in Nat /\ Len(ring) <= Bytes
        /\ Limit \in Int /\ Limit <= Size
    BY RoomTypes
  <1>4. CASE lock = NULL
    <2>1. Bytes + k <= Limit BY <1>1, <1>4 DEF RoomKept
    <2> QED BY <1>2, <1>3, <2>1, Sizes
  <1>5. ASSUME NEW w \in Writers, lock = w
        PROVE  Bytes <= Size /\ Len(ring) <= Size
    <2>1. Bytes + k <= Limit + PutBytes(w) BY <1>1, <1>5 DEF RoomKept
    <2>2. w \in Busy BY <1>5 DEF Locks, Busy, Moved
    <2>3. k >= Frame(w) BY <1>1, <2>2, RoomTypes
    <2>4. PutBytes(w) \in Int /\ PutBytes(w) <= Frame(w) /\ Frame(w) \in Nat BY RoomTypes
    <2> QED BY <1>2, <1>3, <2>1, <2>3, <2>4, Sizes
  <1> QED BY <1>4, <1>5 DEF TypeOK

\* Where headers and data take turns, k pairs of records are k headers and at
\* least k bytes of data.
LEMMA PairBytes ==
  ASSUME NEW q \in Seq(Records), NEW k \in Nat, 2 * k <= Len(q),
         \A i \in 1 .. Len(q) : q[i].part = "header" => q[i].len = Header,
         \A i \in 1 .. Len(q) - 1 : q[i].part # q[i + 1].part
  PROVE  k * (Header + 1) <= Cardinality(Stored(q))
  <1>0. /\ Header \in Nat /\ Header >= 1 /\ Len(q) \in Nat
        /\ \A i \in 1 .. Len(q) : /\ q[i].part \in {"header", "data"}
                                  /\ q[i].len \in 1 .. Whole
    <2>1. /\ Header \in Nat /\ Header >= 1 /\ Len(q) \in Nat
          /\ \A i \in 1 .. Len(q) : q[i] \in Records
      BY Sizes
    <2> QED BY <2>1 DEF Records, Parts, Whole
  <1>1. PICK h, g : /\ h = [j \in 1 .. k |->
                             IF q[2 * j - 1].part = "header" THEN 2 * j - 1 ELSE 2 * j]
                    /\ g = [j \in 1 .. k |->
                             IF q[2 * j - 1].part = "header" THEN 2 * j ELSE 2 * j - 1]
    OBVIOUS
  <1>2. ASSUME NEW j \in 1 .. k
        PROVE  /\ h[j] \in 1 .. Len(q) /\ q[h[j]].len = Header /\ g[j] \in 1 .. Len(q)
               /\ \/ h[j] = 2 * j - 1 /\ g[j] = 2 * j
                  \/ h[j] = 2 * j /\ g[j] = 2 * j - 1
    <2>1. /\ 2 * j - 1 \in 1 .. Len(q) /\ 2 * j \in 1 .. Len(q)
          /\ 2 * j - 1 \in 1 .. Len(q) - 1 /\ (2 * j - 1) + 1 = 2 * j
      BY <1>0
    <2>2. q[2 * j - 1].part # q[2 * j].part BY <2>1
    <2>3. CASE q[2 * j - 1].part = "header"
      <3>1. h[j] = 2 * j - 1 /\ g[j] = 2 * j BY <1>1, <2>3
      <3> QED BY <2>1, <2>3, <3>1
    <2>4. CASE q[2 * j - 1].part # "header"
      <3>1. h[j] = 2 * j /\ g[j] = 2 * j - 1 BY <1>1, <2>4
      <3>2. q[2 * j].part = "header" BY <1>0, <2>1, <2>2, <2>4
      <3> QED BY <2>1, <3>1, <3>2
    <2> QED BY <2>3, <2>4
  <1>3. \A i, j \in 1 .. k : (h[i] = h[j] => i = j) /\ (g[i] = g[j] => i = j) /\ h[i] # g[j]
    <2>1. SUFFICES ASSUME NEW i \in 1 .. k, NEW j \in 1 .. k
                   PROVE  (h[i] = h[j] => i = j) /\ (g[i] = g[j] => i = j) /\ h[i] # g[j]
      OBVIOUS
    <2>2. \/ h[i] = 2 * i - 1 /\ g[i] = 2 * i
          \/ h[i] = 2 * i /\ g[i] = 2 * i - 1
      BY <1>2
    <2>3. \/ h[j] = 2 * j - 1 /\ g[j] = 2 * j
          \/ h[j] = 2 * j /\ g[j] = 2 * j - 1
      BY <1>2
    <2> QED BY <2>2, <2>3
  <1>4. PICK K, f : /\ K = (1 .. k) \X (1 .. Header + 1)
                    /\ f = [d \in K |-> IF d[2] \in 1 .. Header THEN <<h[d[1]], d[2]>>
                                                                ELSE <<g[d[1]], 1>>]
    OBVIOUS
  <1>5. ASSUME NEW d \in K
        PROVE  \E j \in 1 .. k, b \in 1 .. Header + 1 :
                 /\ d = <<j, b>> /\ f[d] \in Stored(q)
                 /\ \/ f[d][1] = h[j] /\ f[d][2] = b
                    \/ f[d][1] = g[j] /\ b = Header + 1
    <2>1. PICK j \in 1 .. k, b \in 1 .. Header + 1 : d = <<j, b>> BY <1>4
    <2>2. f[d] = IF b \in 1 .. Header THEN <<h[j], b>> ELSE <<g[j], 1>> BY <1>4, <2>1
    <2>3. 1 \in 1 .. Whole /\ \A c \in 1 .. Header : c \in 1 .. Whole
      BY <1>0, Sizes DEF Whole
    <2>4. CASE b \in 1 .. Header
      <3>1. b <= q[h[j]].len BY <1>2, <2>4
      <3>2. <<h[j], b>> \in Stored(q) BY <1>2, <2>3, <2>4, <3>1 DEF Stored, Whole
      <3>3. f[d][1] = h[j] /\ f[d][2] = b BY <2>2, <2>4
      <3> QED BY <2>1, <2>2, <2>4, <3>2, <3>3
    <2>5. CASE b \notin 1 .. Header
      <3>1. b = Header + 1 BY <1>0, <2>5
      <3>2. g[j] \in 1 .. Len(q) BY <1>2
      <3>3. 1 <= q[g[j]].len BY <1>0, <3>2
      <3>4. <<g[j], 1>> \in Stored(q) BY <2>3, <3>2, <3>3 DEF Stored, Whole
      <3>5. f[d][1] = g[j] BY <2>2, <2>5
      <3> QED BY <2>1, <2>2, <2>5, <3>1, <3>4, <3>5
    <2> QED BY <2>4, <2>5
  <1>6. ASSUME NEW d \in K, NEW e \in K, f[d] = f[e] PROVE d = e
    <2>1. PICK i \in 1 .. k, b \in 1 .. Header + 1 :
            /\ d = <<i, b>>
            /\ \/ f[d][1] = h[i] /\ f[d][2] = b
               \/ f[d][1] = g[i] /\ b = Header + 1
      BY <1>5
    <2>2. PICK j \in 1 .. k, c \in 1 .. Header + 1 :
            /\ e = <<j, c>>
            /\ \/ f[e][1] = h[j] /\ f[e][2] = c
               \/ f[e][1] = g[j] /\ c = Header + 1
      BY <1>5
    <2>3. /\ h[i] = h[j] => i = j
          /\ g[i] = g[j] => i = j
          /\ h[i] # g[j] /\ h[j] # g[i]
      BY <1>3
    <2>4. f[d][1] = f[e][1] /\ f[d][2] = f[e][2] BY <1>6
    <2>5. i = j /\ b = c BY <2>1, <2>2, <2>3, <2>4
    <2> QED BY <2>1, <2>2, <2>5
  <1>7. f \in Injection(K, Stored(q))
    <2>1. DOMAIN f = K /\ f \in [K -> Stored(q)]
      <3>1. \A d \in K : f[d] \in Stored(q) BY <1>5
      <3> QED BY <1>4, <3>1
    <2>2. IsInjective(f)
      <3>1. \A d, e \in K : f[d] = f[e] => d = e BY <1>6
      <3> QED BY <2>1, <3>1 DEF IsInjective
    <2> QED BY <2>1, <2>2 DEF Injection
  <1>8. IsFiniteSet(K) /\ Cardinality(K) = k * (Header + 1)
    <2>1. Header + 1 \in Nat BY <1>0
    <2>2. /\ IsFiniteSet(1 .. k) /\ Cardinality(1 .. k) = k
          /\ IsFiniteSet(1 .. Header + 1) /\ Cardinality(1 .. Header + 1) = Header + 1
      BY <2>1, RangeSize
    <2>3. PICK S, T : S = 1 .. k /\ T = 1 .. Header + 1 OBVIOUS
    <2>4. /\ IsFiniteSet(S \X T)
          /\ Cardinality(S \X T) = Cardinality(S) * Cardinality(T)
      BY <2>2, <2>3, FS_Product
    <2>5. K = S \X T BY <1>4, <2>3
    <2>6. Cardinality(S) = k /\ Cardinality(T) = Header + 1 BY <2>2, <2>3
    <2> QED BY <2>4, <2>5, <2>6
  <1>9. Cardinality(K) <= Cardinality(Stored(q)) BY <1>7, StoredSize, FS_Injection
  <1> QED BY <1>8, <1>9

\* The ring never holds as many records as a total counts.
LEMMA FewRecords ==
  ASSUME TypeOK, Locks, RoomKept, Turns
  PROVE  Len(ring) < MaxTotal
  <1>1. /\ ring \in Seq(Records) /\ Len(ring) \in Nat /\ Bytes \in Nat
        /\ Bytes <= Size /\ Len(ring) <= Size
    BY RoomTypes, RingBounded DEF TypeOK
  <1>2. PICK k \in Nat : Len(ring) = 2 * k \/ Len(ring) = 2 * k + 1
    <2>1. Len(ring) \div 2 \in Nat BY <1>1
    <2>2. Len(ring) = 2 * (Len(ring) \div 2) \/ Len(ring) = 2 * (Len(ring) \div 2) + 1
      BY <1>1
    <2> QED BY <2>1, <2>2
  <1>3. 2 * k <= Len(ring) BY <1>1, <1>2
  <1>4. k * (Header + 1) <= Bytes BY <1>1, <1>3, BytesNow, PairBytes DEF Turns
  <1>5. k \in 0 .. Size BY <1>1, <1>2, Sizes
  <1>6. k * (Header + 1) \in Nat BY Sizes
  <1>7. k * (Header + 1) <= Size BY <1>1, <1>4, <1>6, Sizes
  <1>8. 2 * k + 1 < MaxTotal BY <1>5, <1>7, RingAssumption
  <1> QED BY <1>1, <1>2, <1>8, Sizes
-----------------------------------------------------------------------------
(* The records that come and go.                                           *)

\* fifo_put moves in behind a record that is there as a whole.
LEMMA Appended ==
  ASSUME RInv, NEW w \in Writers, MoveIn(w)
  PROVE  /\ ring' \in Seq(Records) /\ Len(ring) \in Nat /\ Len(ring') = Len(ring) + 1
         /\ ring' # <<>>
         /\ \A i \in 1 .. Len(ring) : ring'[i] = ring[i]
         /\ ring'[Len(ring')] = [by |-> w, part |-> part[w], len |-> PutLen(w)]
         /\ Bytes' = Bytes + PutLen(w)
  <1>0. TypeOK /\ Locks /\ RoomKept BY DEF RInv
  <1>1. PICK r : r = [by |-> w, part |-> part[w], len |-> PutLen(w)] OBVIOUS
  <1>2. r \in Records /\ r.len = PutLen(w)
    <2>1. part[w] \in Parts BY <1>0 DEF TypeOK
    <2>2. PutLen(w) \in 1 .. Header + Longest BY <1>0, RoomTypes DEF Whole
    <2> QED BY <1>1, <2>1, <2>2 DEF Records
  <1>3. ring \in Seq(Records) /\ ring' = Append(ring, r) BY <1>0, <1>1 DEF TypeOK, MoveIn
  <1>4. /\ ring' \in Seq(Records) /\ Len(ring') = Len(ring) + 1
        /\ \A i \in 1 .. Len(ring) : ring'[i] = ring[i]
        /\ ring'[Len(ring) + 1] = r
        /\ Cardinality(Stored(ring')) = Cardinality(Stored(ring)) + r.len
    <2>1. r \in Records /\ ring \in Seq(Records) BY <1>2, <1>3
    <2>2. PICK p : p = Append(ring, r) OBVIOUS
    <2>3. Cardinality(Stored(Append(ring, r))) = Cardinality(Stored(ring)) + r.len
      BY <2>1, StoredAppend
    <2>4. /\ p \in Seq(Records) /\ Len(p) = Len(ring) + 1
          /\ \A i \in 1 .. Len(ring) : p[i] = ring[i]
          /\ p[Len(ring) + 1] = r
      BY <2>1, <2>2
    <2>5. ring' = p BY <1>3, <2>2
    <2> QED BY <2>2, <2>3, <2>4, <2>5
  <1>5. Len(ring) \in Nat BY <1>0, RoomTypes
  <1>6. Bytes' = Bytes + PutLen(w) BY <1>2, <1>4, BytesNow, BytesNext
  <1>7. ring' # <<>>
    <2>1. Len(ring') >= 1 BY <1>4, <1>5
    <2> QED BY <2>1
  <1> QED BY <1>1, <1>4, <1>5, <1>6, <1>7

\* fifo_get moves out past the first record.
LEMMA Removed ==
  ASSUME RInv, MoveOut
  PROVE  /\ ring # <<>> /\ ring' \in Seq(Records) /\ Len(ring) \in Nat /\ Len(ring) >= 1
         /\ Len(ring') = Len(ring) - 1
         /\ \A i \in 1 .. Len(ring') : ring'[i] = ring[i + 1]
         /\ (ring' = <<>> <=> Len(ring) = 1)
         /\ ring[1] \in Records
         /\ Bytes' \in Nat /\ Bytes' <= Bytes
  <1>0. TypeOK /\ ring \in Seq(Records) BY DEF RInv, TypeOK
  <1>1. Len(ring) \in Nat /\ Bytes \in Nat BY <1>0, RoomTypes
  <1>2. ring # <<>> BY DEF RInv, ReaderAt, MoveOut
  <1>3. ring' = Tail(ring) BY DEF MoveOut
  <1>4. /\ ring' \in Seq(Records) /\ Len(ring') = Len(ring) - 1 /\ Len(ring) >= 1
        /\ \A i \in 1 .. Len(ring') : ring'[i] = ring[i + 1]
        /\ ring[1] \in Records
        /\ Cardinality(Stored(ring)) = Cardinality(Stored(ring')) + ring[1].len
    BY <1>0, <1>2, <1>3, StoredTail
  <1>5. Bytes' \in Nat BY <1>4, StoredSize, BytesNext
  <1>6. Bytes' <= Bytes
    <2>1. ring[1].len \in Nat BY <1>4, Sizes DEF Records
    <2> QED BY <1>4, <1>5, <2>1, BytesNow, BytesNext
  <1>7. ring' = <<>> <=> Len(ring) = 1
    <2>1. ring' = <<>> => Len(ring') = 0 OBVIOUS
    <2>2. Len(ring') = 0 => ring' = <<>> BY <1>4
    <2> QED BY <1>1, <1>4, <2>1, <2>2
  <1> QED BY <1>1, <1>2, <1>4, <1>5, <1>6, <1>7
-----------------------------------------------------------------------------
(* Each step keeps the invariant.                                          *)

\* What an encoder thread does.
Writes(w) == Source(w) \/ Insert(w)

\* The step of a writer that leaves the ring and what it has put alone.
Passes(w) == \/ Put(w) \/ CountIn(w) \/ WrapIn(w) \/ TestIn(w) \/ SubIn(w)

\* What such a step of a writer does not change, and where it leads.
LEMMA PassesTo ==
  ASSUME RInv, NEW w \in Writers, Passes(w)
  PROVE  /\ UNCHANGED <<ring, itemNum, saveNum, lock, wlen, part, reader, totalRead>>
         /\ \E p \in {"in"} \cup Moved :
              /\ wpc' = [wpc EXCEPT ![w] = p] /\ (p \in Moved <=> wpc[w] \in Moved)
         /\ wpc[w] \in {"put"} \cup Moved
  <1>1. CASE Put(w)
    <2>1. PutLen(w) <= Size - Bytes BY <1>1, Fits DEF Put, RInv
    <2> QED BY <1>1, <2>1 DEF Put, Moved, totals
  <1>2. CASE CountIn(w) BY <1>2 DEF CountIn, Moved
  <1>3. CASE WrapIn(w) BY <1>3 DEF WrapIn, Moved
  <1>4. CASE TestIn(w) BY <1>4 DEF TestIn, Moved, totals
  <1>5. CASE SubIn(w) BY <1>5 DEF SubIn, Moved, totals
  <1> QED BY <1>1, <1>2, <1>3, <1>4, <1>5 DEF Passes

\* Types.
LEMMA WriteTypes ==
  ASSUME RInv, NEW w \in Writers, Writes(w)
  PROVE  TypeOK'
  <1> USE DEF writer, reader, totals
  <1>0. /\ TypeOK /\ Locks /\ Wraps
        /\ totalWrite \in 0 .. MaxTotal /\ totalRead \in 0 .. MaxTotal /\ MaxTotal \in Nat
        /\ itemNum \in -MaxTotal .. 2 * MaxTotal /\ rnum \in -MaxTotal .. 2 * MaxTotal
        /\ wnum \in -MaxTotal .. 2 * MaxTotal
    BY Sizes DEF RInv, TypeOK
  <1>1. ASSUME NEW l \in 1 .. MaxLen[w], Offer(w, l) PROVE TypeOK'
    <2>1. l \in 1 .. Longest /\ l <= MaxLen[w]
      <3>1. MaxLen[w] \in 1 .. Longest BY RingAssumption
      <3> QED BY <3>1, Sizes
    <2>2. wlen' \in [Writers -> 1 .. Longest] /\ \A v \in Writers : wlen'[v] <= MaxLen[v]
      BY <1>0, <1>1, <2>1 DEF Offer, TypeOK
    <2> QED BY <1>0, <1>1, <2>2 DEF Offer, TypeOK
  <1>2. CASE Lock(w) BY <1>0, <1>2 DEF Lock, TypeOK
  <1>3. CASE Passes(w)
    <2>1. /\ UNCHANGED <<ring, itemNum, saveNum, lock, wlen, part, reader, totalRead>>
          /\ \E p \in {"in"} \cup Moved : wpc' = [wpc EXCEPT ![w] = p]
      BY <1>3, PassesTo
    <2>2. wpc' \in [Writers -> {"idle", "lock", "put", "in", "total", "wrap", "test", "sub",
                                "addsub", "count", "short"}]
      BY <1>0, <2>1 DEF TypeOK, Moved
    <2>3. totalWrite' \in 0 .. MaxTotal
      <3>1. CASE CountIn(w)
        <4>1. \A v \in Writers : wpc[v] # "wrap"
          BY <1>0, <3>1, RingAssumption DEF CountIn, Locks, Moved
        <4>2. totalWrite < MaxTotal BY <1>0, <4>1 DEF Wraps
        <4> QED BY <1>0, <3>1, <4>2 DEF CountIn
      <3>2. CASE WrapIn(w) BY <1>0, <3>2 DEF WrapIn
      <3>3. CASE Put(w) \/ TestIn(w) \/ SubIn(w) BY <1>0, <3>3 DEF Put, TestIn, SubIn
      <3> QED BY <1>3, <3>1, <3>2, <3>3 DEF Passes
    <2>4. wnum' \in -MaxTotal .. 2 * MaxTotal
      <3>1. CASE SubIn(w)
        <4>1. /\ totalWrite - totalRead \in -MaxTotal .. 2 * MaxTotal
              /\ totalWrite + MaxTotal - totalRead \in -MaxTotal .. 2 * MaxTotal
          BY <1>0
        <4> QED BY <3>1, <4>1 DEF SubIn
      <3>2. CASE ~SubIn(w)
        <4>1. wnum' = wnum BY <1>3, <3>2 DEF Passes, Put, CountIn, WrapIn, TestIn
        <4> QED BY <1>0, <4>1
      <3> QED BY <3>1, <3>2
    <2> QED BY <1>0, <2>1, <2>2, <2>3, <2>4 DEF TypeOK
  <1>4. CASE MoveIn(w)
    <2>1. ring' \in Seq(Records) BY <1>4, Appended
    <2>2. /\ UNCHANGED <<totals, itemNum, saveNum, lock, wlen, part, wnum, reader>>
          /\ wpc' = [wpc EXCEPT ![w] = "total"]
      BY <1>4 DEF MoveIn
    <2> QED BY <1>0, <2>1, <2>2 DEF TypeOK
  <1>5. CASE PutDone(w)
    <2>1. 0 \in -MaxTotal .. 2 * MaxTotal /\ 1 \in 1 .. Longest BY <1>0, Sizes
    <2>2. {itemNum', wnum', rnum'} \subseteq -MaxTotal .. 2 * MaxTotal
      BY <1>0, <1>5, <2>1 DEF PutDone
    <2>3. UNCHANGED <<ring, totals, saveNum, reader>> BY <1>5 DEF PutDone
    <2>4. lock' \in Writers \cup {NULL} BY <1>0, <1>5 DEF PutDone, TypeOK
    <2>5. /\ part' \in [Writers -> Parts] /\ wlen' \in [Writers -> 1 .. Longest]
          /\ wpc' \in [Writers -> {"idle", "lock", "put", "in", "total", "wrap", "test", "sub",
                                   "addsub", "count", "short"}]
      BY <1>0, <1>5, <2>1 DEF PutDone, TypeOK, Parts
    <2>6. \A v \in Writers : wlen'[v] <= MaxLen[v]
      <3>1. ASSUME NEW v \in Writers PROVE wlen'[v] <= MaxLen[v]
        <4>1. wlen'[v] = wlen[v] \/ wlen'[v] = 1 BY <1>0, <1>5 DEF PutDone, TypeOK
        <4>2. 1 <= MaxLen[v]
          <5>1. MaxLen[v] \in 1 .. Longest BY RingAssumption
          <5> QED BY <5>1, Sizes
        <4> QED BY <1>0, <4>1, <4>2 DEF TypeOK
      <3> QED BY <3>1
    <2> QED BY <1>0, <2>2, <2>3, <2>4, <2>5, <2>6 DEF TypeOK
  <1> QED BY <1>1, <1>2, <1>3, <1>4, <1>5 DEF Writes, Source, Insert, Passes

LEMMA ReadTypes ==
  ASSUME RInv, Record
  PROVE  TypeOK'
  <1> USE DEF writer, reader, totals
  <1>0. /\ TypeOK /\ Wraps
        /\ totalWrite \in 0 .. MaxTotal /\ totalRead \in 0 .. MaxTotal /\ MaxTotal \in Nat
        /\ itemNum \in -MaxTotal .. 2 * MaxTotal /\ rnum \in -MaxTotal .. 2 * MaxTotal
    BY Sizes DEF RInv, TypeOK
  <1>1. CASE Ask BY <1>0, <1>1 DEF Ask, TypeOK
  <1>2. CASE Get
    <2>1. head' \in Records \cup {NULL}
      <3>1. ring # <<>> => Head(ring) \in Records BY <1>0 DEF TypeOK
      <3> QED BY <1>0, <1>2, <3>1 DEF Get, TypeOK
    <2>2. rpc' \in {"out", "error"} BY <1>2 DEF Get
    <2>3. UNCHANGED <<ring, totals, itemNum, saveNum, writer, want, rnum>> BY <1>2 DEF Get
    <2> QED BY <1>0, <2>1, <2>2, <2>3 DEF TypeOK
  <1>3. CASE MoveOut
    <2>1. ring' \in Seq(Records) BY <1>3, Removed
    <2>2. rpc' = "total" /\ UNCHANGED <<totals, itemNum, saveNum, writer, want, head, rnum>>
      BY <1>3 DEF MoveOut
    <2> QED BY <1>0, <2>1, <2>2 DEF TypeOK
  <1>4. CASE CountOut
    <2>1. totalRead < MaxTotal BY <1>0, <1>4 DEF Wraps, CountOut
    <2>2. totalRead' \in 0 .. MaxTotal BY <1>0, <1>4, <2>1 DEF CountOut
    <2>3. /\ UNCHANGED <<ring, totalWrite, itemNum, saveNum, writer, want, head, rnum>>
          /\ rpc' \in {"wrap", "test"}
      BY <1>4 DEF CountOut
    <2> QED BY <1>0, <2>2, <2>3 DEF TypeOK
  <1>5. CASE WrapOut
    <2>1. totalRead' \in 0 .. MaxTotal BY <1>0, <1>5 DEF WrapOut
    <2> QED BY <1>0, <1>5, <2>1 DEF WrapOut, TypeOK
  <1>6. CASE TestOut BY <1>0, <1>6 DEF TestOut, TypeOK
  <1>7. CASE SubOut
    <2>1. /\ totalWrite - totalRead \in -MaxTotal .. 2 * MaxTotal
          /\ totalWrite + MaxTotal - totalRead \in -MaxTotal .. 2 * MaxTotal
      BY <1>0
    <2>2. rnum' \in -MaxTotal .. 2 * MaxTotal BY <1>7, <2>1 DEF SubOut
    <2>3. /\ UNCHANGED <<ring, totals, itemNum, saveNum, writer, want, head>>
          /\ rpc' = "count"
      BY <1>7 DEF SubOut
    <2> QED BY <1>0, <2>2, <2>3 DEF TypeOK
  <1>8. CASE GetDone
    <2>1. 0 \in -MaxTotal .. 2 * MaxTotal BY <1>0
    <2>2. /\ UNCHANGED <<ring, totals, saveNum, writer>>
          /\ itemNum' = rnum /\ rnum' = 0 /\ want' \in Parts
          /\ head' \in Records \cup {NULL} /\ rpc' \in {"get", "idle"}
      BY <1>0, <1>8 DEF GetDone, TypeOK, Parts
    <2> QED BY <1>0, <2>1, <2>2 DEF TypeOK
  <1>9. CASE Reset
    <2>1. 0 \in -MaxTotal .. 2 * MaxTotal /\ 0 \in 0 .. MaxTotal /\ <<>> \in Seq(Records)
      BY <1>0
    <2> QED BY <1>0, <1>9, <2>1 DEF Reset, TypeOK, Parts
  <1> QED BY <1>1, <1>2, <1>3, <1>4, <1>5, <1>6, <1>7, <1>8, <1>9 DEF Record

\* The mutex, and no record cut.
LEMMA LocksStep ==
  ASSUME RInv, NEW w \in Writers, Writes(w)
  PROVE  Locks'
  <1> USE DEF writer, reader
  <1>0. /\ TypeOK /\ Locks /\ wpc \in [Writers -> Places]
        /\ part \in [Writers -> Parts] /\ NULL \notin Writers
    BY RingAssumption DEF RInv, TypeOK, Places, Moved
  <1>1. ASSUME NEW l \in 1 .. MaxLen[w], Offer(w, l) PROVE Locks'
    BY <1>0, <1>1 DEF Offer, Locks, Moved
  <1>2. CASE Lock(w) BY <1>0, <1>2 DEF Lock, Locks, Moved
  <1>3. CASE Passes(w)
    <2>1. UNCHANGED <<lock, part>> /\ wpc[w] \in {"put"} \cup Moved BY <1>3, PassesTo
    <2>2. PICK p \in {"in"} \cup Moved : wpc' = [wpc EXCEPT ![w] = p] BY <1>3, PassesTo
    <2> QED BY <1>0, <2>1, <2>2 DEF Locks, Moved
  <1>4. CASE MoveIn(w) BY <1>0, <1>4 DEF MoveIn, Locks, Moved
  <1>5. CASE PutDone(w) BY <1>0, <1>5 DEF PutDone, Locks, Parts, Moved
  <1> QED BY <1>1, <1>2, <1>3, <1>4, <1>5 DEF Writes, Source, Insert, Passes

\* The room that was seen stays.
LEMMA RoomStep ==
  ASSUME RInv, NEW w \in Writers, Writes(w)
  PROVE  RoomKept'
  <1> USE DEF writer, reader
  <1>0. /\ TypeOK /\ Locks /\ RoomKept /\ wpc \in [Writers -> Places]
        /\ part \in [Writers -> Parts] /\ wlen \in [Writers -> 1 .. Longest]
        /\ NULL \notin Writers /\ Limit' = Limit
    BY RingAssumption DEF RInv, TypeOK, Limit, Places, Moved
  <1>1. /\ Bytes \in Nat /\ Limit \in Int /\ Busy \in SUBSET Writers
        /\ Frame(w) \in Nat /\ PutBytes(w) \in Int /\ PutBytes(w) <= Frame(w)
        /\ PutLen(w) \in Int
    BY <1>0, RoomTypes DEF Busy
  <1>2. PICK k : k = Cardinality(Claim(Busy)) OBVIOUS
  <1>3. k \in Nat BY <1>0, <1>2, RoomTypes
  <1>4. ASSUME NEW l \in 1 .. MaxLen[w], Offer(w, l) PROVE RoomKept'
    <2>1. Busy' = Busy \cup {w} /\ w \notin Busy BY <1>0, <1>4 DEF Offer, Busy
    <2>2. PICK j : j = Cardinality(Claim(Busy \cup {w})) OBVIOUS
    <2>3. j = k + Frame(w) BY <1>1, <1>2, <2>1, <2>2, ClaimMore
    <2>4. Bytes' = Bytes /\ Bytes <= Size - Slack
      <3>1. ring' = ring BY <1>4 DEF Offer
      <3> QED BY <1>4, <3>1, BytesNow, BytesNext DEF Offer, EnableInsert
    <2>5. j \in Nat /\ Bytes + j <= Limit
      <3>1. PICK n : n = Cardinality(Claim(Writers)) OBVIOUS
      <3>2. Busy \cup {w} \in SUBSET Writers BY <1>1
      <3>3. n \in Nat /\ j \in Nat /\ j <= n BY <2>2, <3>1, <3>2, ClaimSize
      <3> QED BY <1>1, <2>4, <3>1, <3>3, Sizes DEF Limit
    <2>6. ASSUME NEW v \in Writers, lock' = v PROVE Bytes' + j <= Limit' + PutBytes(v)'
      <3>1. PICK p : p = PutBytes(v)' OBVIOUS
      <3>2. p \in Int /\ p >= 0
        <4>1. lock = v /\ v # w BY <1>0, <1>4, <2>6 DEF Offer, Locks, Moved
        <4>2. PutBytes(v)' = PutBytes(v) BY <1>0, <1>4, <4>1 DEF Offer, PutBytes
        <4>3. PutBytes(v) \in 0 .. Frame(v) /\ Frame(v) \in Nat BY <1>0, RoomTypes
        <4> QED BY <3>1, <4>2, <4>3
      <3> QED BY <1>0, <1>1, <2>4, <2>5, <3>1, <3>2
    <2>7. Claim(Busy)' = Claim(Busy \cup {w}) BY <2>1 DEF Claim
    <2>8. Cardinality(Claim(Busy))' = j BY <2>2, <2>7
    <2> QED BY <1>0, <2>4, <2>5, <2>6, <2>8 DEF RoomKept
  <1>5. ASSUME Busy' = Busy PROVE Cardinality(Claim(Busy))' = k
    <2>1. Claim(Busy)' = Claim(Busy) BY <1>5 DEF Claim
    <2> QED BY <1>2, <2>1
  <1>6. CASE Lock(w)
    <2>1. Busy' = Busy BY <1>0, <1>6 DEF Lock, Busy
    <2>2. Bytes' = Bytes /\ lock = NULL /\ lock' = w
      <3>1. ring' = ring BY <1>6 DEF Lock
      <3> QED BY <1>6, <3>1, BytesNow, BytesNext DEF Lock
    <2>3. PutBytes(w)' = 0
      <3>1. part[w] = "header" BY <1>0, <2>2 DEF Locks
      <3>2. part'[w] = "header" /\ wpc'[w] = "put" BY <1>0, <1>6, <3>1 DEF Lock
      <3> QED BY <3>2 DEF PutBytes, Moved
    <2>4. Bytes + k <= Limit BY <1>0, <1>2, <2>2 DEF RoomKept
    <2>5. Bytes' + k <= Limit' + PutBytes(w)' BY <1>0, <1>1, <1>3, <2>2, <2>3, <2>4
    <2> QED BY <1>0, <1>5, <2>1, <2>2, <2>5 DEF RoomKept
  <1>7. CASE Passes(w)
    <2>1. UNCHANGED <<ring, lock, wlen, part>> /\ wpc[w] \in {"put"} \cup Moved
      BY <1>7, PassesTo
    <2>2. PICK p \in {"in"} \cup Moved :
            wpc' = [wpc EXCEPT ![w] = p] /\ (p \in Moved <=> wpc[w] \in Moved)
      BY <1>7, PassesTo
    <2>3. Busy' = Busy BY <1>0, <2>1, <2>2 DEF Busy, Moved
    <2>4. Bytes' = Bytes BY <2>1, BytesNow, BytesNext
    <2>5. \A v \in Writers : wpc'[v] \in Moved <=> wpc[v] \in Moved BY <1>0, <2>2
    <2>6. \A v \in Writers : PutBytes(v)' = PutBytes(v) BY <2>1, <2>5 DEF PutBytes
    <2> QED BY <1>0, <1>2, <1>5, <2>1, <2>3, <2>4, <2>6 DEF RoomKept
  <1>8. CASE MoveIn(w)
    <2>1. Busy' = Busy BY <1>0, <1>8 DEF MoveIn, Busy
    <2>2. lock' = lock /\ lock = w BY <1>0, <1>8 DEF MoveIn, Locks
    <2>3. Bytes' = Bytes + PutLen(w) BY <1>8, Appended
    <2>4. PutBytes(w)' = PutBytes(w) + PutLen(w)
      <3>1. /\ wpc[w] \notin Moved /\ wpc'[w] \in Moved /\ part' = part /\ wlen' = wlen
            /\ wlen[w] \in Nat
        BY <1>0, <1>8, Sizes DEF MoveIn, Moved
      <3> QED BY <3>1, Sizes DEF PutBytes, PutLen
    <2>5. Bytes + k <= Limit + PutBytes(w) BY <1>0, <1>2, <2>2 DEF RoomKept
    <2>6. Bytes' + k <= Limit' + PutBytes(w)'
      BY <1>0, <1>1, <1>3, <2>3, <2>4, <2>5
    <2> QED BY <1>0, <1>5, <2>1, <2>2, <2>6 DEF RoomKept
  <1>9. CASE PutDone(w)
    <2>1. Bytes' = Bytes /\ lock = w /\ w \in Busy
      <3>1. ring' = ring BY <1>9 DEF PutDone
      <3> QED BY <1>0, <1>9, <3>1, BytesNow, BytesNext DEF PutDone, Locks, Busy, Moved
    <2>2. Bytes + k <= Limit + PutBytes(w) BY <1>0, <1>2, <2>1 DEF RoomKept
    <2>3. CASE part[w] = "header"
      <3>1. lock' = lock /\ wpc'[w] = "put" /\ part'[w] = "data" /\ wpc[w] \in Moved
        BY <1>0, <1>9, <2>3 DEF PutDone, Moved
      <3>2. Busy' = Busy BY <1>0, <1>9, <2>3 DEF PutDone, Busy
      <3>3. PutBytes(w)' = PutBytes(w) BY <2>3, <3>1 DEF PutBytes, Moved
      <3> QED BY <1>0, <1>5, <2>1, <2>2, <3>1, <3>2, <3>3 DEF RoomKept
    <2>4. CASE part[w] = "data"
      <3>1. lock' = NULL BY <1>9, <2>4 DEF PutDone
      <3>2. PICK S : S = Busy \ {w} OBVIOUS
      <3>3. Busy' = S BY <1>0, <1>9, <2>4, <3>2 DEF PutDone, Busy
      <3>4. /\ S \in SUBSET Writers /\ w \in Writers \ S /\ Busy = S \cup {w}
        BY <1>1, <2>1, <3>2
      <3>5. PICK j : j = Cardinality(Claim(S)) OBVIOUS
      <3>6. k = j + Frame(w) BY <1>2, <3>4, <3>5, ClaimMore
      <3>7. j \in Nat BY <3>4, <3>5, ClaimSize
      <3>8. Bytes' + j <= Limit' BY <1>0, <1>1, <2>1, <2>2, <3>6, <3>7
      <3>9. Cardinality(Claim(Busy))' = j
        <4>1. Claim(Busy)' = Claim(S) BY <3>3 DEF Claim
        <4> QED BY <3>5, <4>1
      <3> QED BY <1>0, <3>1, <3>8, <3>9 DEF RoomKept
    <2> QED BY <1>0, <2>3, <2>4 DEF Parts
  <1> QED BY <1>4, <1>6, <1>7, <1>8, <1>9 DEF Writes, Source, Insert, Passes

\* The reader only makes room.
LEMMA RoomRead ==
  ASSUME RInv, Record
  PROVE  RoomKept' /\ Locks'
  <1> USE DEF writer, reader
  <1>1. TypeOK /\ RoomKept /\ Locks BY DEF RInv
  <1>2. UNCHANGED writer
    BY DEF Record, Ask, Get, MoveOut, CountOut, WrapOut, TestOut, SubOut, GetDone, Reset
  <1>3. Locks' BY <1>1, <1>2 DEF Locks
  <1>4. Bytes' \in Nat /\ Bytes' <= Bytes /\ Bytes \in Nat
    <2>1. Bytes \in Nat BY <1>1, RoomTypes
    <2>2. CASE ring' = ring BY <2>1, <2>2, BytesNow, BytesNext
    <2>3. CASE MoveOut BY <2>1, <2>3, Removed
    <2>4. CASE ring' = <<>>
      <3>1. Bytes' = 0 BY <2>4, StoredEmpty, BytesNext
      <3> QED BY <2>1, <3>1
    <2> QED BY <2>2, <2>3, <2>4
            DEF Record, Ask, Get, CountOut, WrapOut, TestOut, SubOut, GetDone, Reset
  <1>5. /\ Claim(Busy)' = Claim(Busy) /\ Limit' = Limit
        /\ \A v \in Writers : PutBytes(v)' = PutBytes(v)
    BY <1>2 DEF Busy, Limit, PutBytes, Claim
  <1>6. PICK k : k = Cardinality(Claim(Busy)) OBVIOUS
  <1>7. k \in Nat /\ Limit \in Int /\ \A v \in Writers : PutBytes(v) \in Int
    BY <1>1, <1>6, RoomTypes
  <1>8. ASSUME NEW c \in Int, Bytes + k <= c PROVE Bytes' + k <= c
    <2>1. PICK a, b : a = Bytes /\ b = Bytes' OBVIOUS
    <2>2. a \in Nat /\ b \in Nat /\ b <= a /\ k \in Nat BY <1>4, <1>7, <2>1
    <2>3. a + k <= c BY <1>8, <2>1
    <2>4. b + k <= c BY <2>2, <2>3
    <2> QED BY <2>1, <2>4
  <1>9. ASSUME lock = NULL PROVE Bytes' + k <= Limit
    <2>1. Bytes + k <= Limit BY <1>1, <1>6, <1>9 DEF RoomKept
    <2> QED BY <1>7, <1>8, <2>1
  <1>a. ASSUME NEW v \in Writers, lock = v PROVE Bytes' + k <= Limit + PutBytes(v)
    <2>1. Bytes + k <= Limit + PutBytes(v) BY <1>1, <1>6, <1>a DEF RoomKept
    <2>2. Limit + PutBytes(v) \in Int BY <1>7
    <2> QED BY <1>8, <2>1, <2>2
  <1>b. RoomKept'
    <2>1. lock' = lock BY <1>2
    <2> QED BY <1>5, <1>6, <1>9, <1>a, <2>1 DEF RoomKept
  <1> QED BY <1>3, <1>b

\* A record r behind the others, if it is the one that comes after them.
LEMMA NewLast ==
  ASSUME TypeOK, Turns, ReaderAt, UNCHANGED reader,
         NEW n \in Nat, n = Len(ring), Len(ring') = n + 1, ring' # <<>>,
         \A i \in 1 .. n : ring'[i] = ring[i],
         NEW r, r = ring'[n + 1],
         r.part = "header" => r.len = Header,
         r.part = "data" => r.len <= Longest,
         ring # <<>> => /\ n >= 1 /\ ring[n].part # r.part
                        /\ ring[n].part = "header" => r.by = ring[n].by,
         ring = <<>> => Comes = r.part /\ (Comes = "data" => r.by = head.by)
  PROVE  Turns' /\ ReaderAt'
  <1>0. ring \in Seq(Records) /\ (ring = <<>> <=> n = 0) BY DEF TypeOK
  <1>1. Turns'
    <2>1. ASSUME NEW i \in 1 .. n + 1
          PROVE  /\ ring'[i].part = "header" => ring'[i].len = Header
                 /\ ring'[i].part = "data" => ring'[i].len <= Longest
      <3>1. CASE i \in 1 .. n BY <3>1 DEF Turns
      <3>2. CASE i = n + 1 BY <3>2
      <3> QED BY <2>1, <3>1, <3>2
    <2>2. ASSUME NEW i \in 1 .. n
          PROVE  /\ ring'[i].part # ring'[i + 1].part
                 /\ ring'[i].part = "header" => ring'[i + 1].by = ring'[i].by
      <3>1. CASE i = n BY <1>0, <2>2, <3>1
      <3>2. CASE i \in 1 .. n - 1
        <4>1. i \in 1 .. n /\ i + 1 \in 1 .. n BY <3>2
        <4>2. /\ ring[i].part # ring[i + 1].part
              /\ ring[i].part = "header" => ring[i + 1].by = ring[i].by
          BY <3>2 DEF Turns
        <4> QED BY <4>1, <4>2
      <3> QED BY <2>2, <3>1, <3>2
    <2>3. n + 1 - 1 = n OBVIOUS
    <2> QED BY <2>1, <2>2, <2>3 DEF Turns
  <1>2. ReaderAt'
    <2>1. Comes' = Comes BY DEF Comes, reader
    <2>2. CASE ring = <<>>
      <3>1. ring'[1] = r BY <1>0, <2>2
      <3> QED BY <2>1, <2>2, <3>1 DEF ReaderAt, reader
    <2>3. CASE ring # <<>>
      <3>1. ring'[1] = ring[1] BY <1>0, <2>3
      <3> QED BY <2>1, <2>3, <3>1 DEF ReaderAt, reader
    <2> QED BY <2>2, <2>3
  <1> QED BY <1>1, <1>2

\* The order of the records, when a writer adds one.
LEMMA TurnsWrite ==
  ASSUME RInv, NEW w \in Writers, Writes(w)
  PROVE  Turns' /\ ReaderAt' /\ WriterAt'
  <1> USE DEF writer, reader
  <1>0. /\ TypeOK /\ Locks /\ Turns /\ ReaderAt /\ WriterAt
        /\ wpc \in [Writers -> Places]
        /\ part \in [Writers -> Parts] /\ wlen \in [Writers -> 1 .. Longest]
        /\ NULL \notin Writers
    BY RingAssumption DEF RInv, TypeOK, Places, Moved
  <1>1. UNCHANGED reader
    BY DEF Writes, Source, Insert, Offer, Lock, Put, MoveIn, CountIn, WrapIn, TestIn,
           SubIn, PutDone
  <1>2. ASSUME UNCHANGED ring, \A v \in Writers : (Half(v)' <=> Half(v))
        PROVE  Turns' /\ ReaderAt' /\ WriterAt'
    <2>1. Turns' BY <1>0, <1>2 DEF Turns
    <2>2. ReaderAt' BY <1>0, <1>1, <1>2 DEF ReaderAt, Comes
    <2>3. WriterAt' BY <1>0, <1>1, <1>2 DEF WriterAt, Comes
    <2> QED BY <2>1, <2>2, <2>3
  <1>3. ASSUME NEW l \in 1 .. MaxLen[w], Offer(w, l)
        PROVE  UNCHANGED ring /\ \A v \in Writers : (Half(v)' <=> Half(v))
    BY <1>0, <1>3 DEF Offer, Half, Locks, Moved
  <1>4. CASE Lock(w)
    <2>1. \A v \in Writers : ~Half(v) BY <1>0, <1>4 DEF Lock, Half, Moved
    <2>2. \A v \in Writers : ~Half(v)'
      <3>1. part[w] = "header" BY <1>0, <1>4 DEF Lock, Locks
      <3>2. /\ lock' = w /\ part'[w] = "header" /\ wpc'[w] = "put" BY <1>0, <1>4, <3>1 DEF Lock
      <3>3. ASSUME NEW v \in Writers PROVE ~Half(v)'
        <4>1. CASE v = w BY <3>2, <4>1 DEF Half, Moved
        <4>2. CASE v # w BY <3>2, <4>2 DEF Half
        <4> QED BY <4>1, <4>2
      <3> QED BY <3>3
    <2> QED BY <1>2, <1>4, <2>1, <2>2 DEF Lock
  <1>5. CASE Passes(w)
    <2>1. UNCHANGED <<ring, lock, part>> BY <1>5, PassesTo
    <2>2. PICK p \in {"in"} \cup Moved :
            wpc' = [wpc EXCEPT ![w] = p] /\ (p \in Moved <=> wpc[w] \in Moved)
      BY <1>5, PassesTo
    <2>3. \A v \in Writers : wpc'[v] \in Moved <=> wpc[v] \in Moved BY <1>0, <2>2
    <2> QED BY <1>2, <2>1, <2>3 DEF Half
  <1>6. CASE PutDone(w)
    <2>1. lock = w /\ wpc[w] \in Moved BY <1>0, <1>6 DEF PutDone, Locks, Moved
    <2>2. CASE part[w] = "header"
      <3>1. UNCHANGED <<ring, lock>> /\ part'[w] = "data" /\ wpc'[w] = "put"
        BY <1>0, <1>6, <2>2 DEF PutDone
      <3> QED BY <1>2, <2>1, <2>2, <3>1 DEF Half, Moved
    <2>3. CASE part[w] = "data"
      <3>1. UNCHANGED ring /\ lock' = NULL BY <1>6, <2>3 DEF PutDone
      <3> QED BY <1>0, <1>2, <2>1, <2>3, <3>1 DEF Half
    <2> QED BY <1>0, <2>2, <2>3 DEF Parts
  <1>7. CASE MoveIn(w)
    <2>1. /\ Len(ring) \in Nat /\ Len(ring') = Len(ring) + 1 /\ ring' # <<>>
          /\ \A i \in 1 .. Len(ring) : ring'[i] = ring[i]
          /\ ring'[Len(ring')] = [by |-> w, part |-> part[w], len |-> PutLen(w)]
      BY <1>7, Appended
    <2>2. PICK n, r : n = Len(ring) /\ r = ring'[n + 1] OBVIOUS
    <2>3. /\ n \in Nat /\ Len(ring') = n + 1 /\ r = ring'[Len(ring')]
          /\ r.by = w /\ r.part = part[w] /\ r.len = PutLen(w)
          /\ part[w] \in {"header", "data"} /\ wlen[w] \in 1 .. Longest
      BY <1>0, <2>1, <2>2 DEF Parts
    <2>4. /\ lock = w /\ lock' = w /\ part' = part /\ wpc[w] \notin Moved /\ wpc'[w] \in Moved
      BY <1>0, <1>7 DEF MoveIn, Locks, Moved
    <2>5. \A v \in Writers : v # w => ~Half(v) /\ ~Half(v)' BY <2>4 DEF Half
    <2>6. CASE part[w] = "header"
      <3>1. ~Half(w) /\ Half(w)' BY <2>4, <2>6 DEF Half
      <3>2. IF ring # <<>> THEN ring[n].part = "data" ELSE Comes = "header"
        BY <1>0, <2>2, <2>5, <3>1 DEF WriterAt
      <3>3. WriterAt' BY <2>1, <2>3, <2>5, <2>6, <3>1 DEF WriterAt
      <3>4. r.part = "header" /\ r.len = Header BY <2>3, <2>6, Sizes DEF PutLen
      <3>5. ring # <<>> => n >= 1 /\ ring[n].part # r.part /\ ring[n].part # "header"
        BY <1>0, <2>2, <2>3, <3>2, <3>4 DEF TypeOK
      <3>6. ring = <<>> => Comes = r.part BY <3>2, <3>4
      <3>7. r.part = "data" => r.len <= Longest BY <3>4
      <3>8. Comes = "data" /\ ring = <<>> => r.by = head.by BY <3>2
      <3> QED BY <1>0, <1>1, <2>1, <2>2, <2>3, <3>3, <3>4, <3>5, <3>6, <3>7, <3>8, NewLast
    <2>7. CASE part[w] = "data"
      <3>1. Half(w) /\ ~Half(w)' BY <2>4, <2>7 DEF Half
      <3>2. IF ring # <<>> THEN ring[n].part = "header" /\ ring[n].by = w
                           ELSE Comes = "data" /\ head.by = w
        BY <1>0, <2>2, <3>1 DEF WriterAt
      <3>3. WriterAt' BY <2>1, <2>3, <2>5, <2>7, <3>1 DEF WriterAt
      <3>4. r.part = "data" /\ r.len <= Longest BY <2>3, <2>7, Sizes DEF PutLen
      <3>5. ring # <<>> => n >= 1 /\ ring[n].part # r.part /\ ring[n].by = r.by
        BY <1>0, <2>2, <2>3, <3>2, <3>4 DEF TypeOK
      <3>6. ring = <<>> => Comes = r.part /\ r.by = head.by BY <2>3, <3>2, <3>4
      <3> QED BY <1>0, <1>1, <2>1, <2>2, <2>3, <3>3, <3>4, <3>5, <3>6, NewLast
    <2> QED BY <2>3, <2>6, <2>7
  <1> QED BY <1>2, <1>3, <1>4, <1>5, <1>6, <1>7 DEF Writes, Source, Insert, Passes

\* The order of the records, when the reader takes one.
LEMMA TurnsRead ==
  ASSUME RInv, Record
  PROVE  Turns' /\ ReaderAt' /\ WriterAt'
  <1> USE DEF writer, reader
  <1>0. /\ TypeOK /\ Turns /\ ReaderAt /\ WriterAt /\ Locks
        /\ ring \in Seq(Records) /\ want \in {"header", "data"} /\ Len(ring) \in Nat
    <2>1. TypeOK BY DEF RInv
    <2> QED BY <2>1 DEF RInv, TypeOK, Parts
  <1>1. \A v \in Writers : Half(v)' <=> Half(v)
    BY DEF Record, Ask, Get, MoveOut, CountOut, WrapOut, TestOut, SubOut, GetDone, Reset, Half
  <1>2. ASSUME UNCHANGED ring, Comes' = Comes, Comes = "data" => head' = head
        PROVE  Turns' /\ WriterAt'
    <2>1. Turns' BY <1>0, <1>2 DEF Turns
    <2>2. WriterAt'
      <3>1. ASSUME NEW v \in Writers, Half(v)'
            PROVE  IF ring' # <<>>
                     THEN ring'[Len(ring')].part = "header" /\ ring'[Len(ring')].by = v
                     ELSE Comes' = "data" /\ head'.by = v
        <4>1. Half(v) BY <1>1, <3>1
        <4> QED BY <1>0, <1>2, <4>1 DEF WriterAt
      <3>2. ASSUME \A v \in Writers : ~Half(v)'
            PROVE  IF ring' # <<>> THEN ring'[Len(ring')].part = "data" ELSE Comes' = "header"
        <4>1. \A v \in Writers : ~Half(v) BY <1>1, <3>2
        <4> QED BY <1>0, <1>2, <4>1 DEF WriterAt
      <3> QED BY <3>1, <3>2 DEF WriterAt
    <2> QED BY <2>1, <2>2
  <1>3. CASE Ask \/ CountOut \/ WrapOut \/ TestOut \/ SubOut
    <2>1. UNCHANGED <<ring, want, head>> /\ Comes' = Comes
      BY <1>3 DEF Ask, CountOut, WrapOut, TestOut, SubOut, Comes, Moved
    <2>2. rpc' \in {"get"} \cup Moved
      BY <1>3 DEF Ask, CountOut, WrapOut, TestOut, SubOut, Moved
    <2>3. ReaderAt' BY <1>0, <2>1, <2>2 DEF ReaderAt, Moved
    <2> QED BY <1>2, <2>1, <2>3
  <1>4. CASE Get
    <2>1. UNCHANGED ring /\ Comes' = Comes /\ Comes = want BY <1>4 DEF Get, Comes, Moved
    <2>2. Comes = "data" => head' = head BY <1>4, <2>1 DEF Get
    <2>3. /\ rpc' = "out" => ring # <<>> /\ (want' = "header" => head' = ring[1])
          /\ rpc' # "idle"
      BY <1>4 DEF Get
    <2>4. ReaderAt' BY <1>0, <2>1, <2>2, <2>3 DEF ReaderAt
    <2> QED BY <1>2, <2>1, <2>2, <2>4
  <1>5. CASE MoveOut
    <2>1. /\ ring # <<>> /\ Len(ring) >= 1 /\ Len(ring') = Len(ring) - 1
          /\ \A i \in 1 .. Len(ring') : ring'[i] = ring[i + 1]
          /\ (ring' = <<>> <=> Len(ring) = 1)
          /\ ring[1] \in Records
      BY <1>5, Removed
    <2>2. /\ rpc = "out" /\ rpc' = "total" /\ head' = head /\ want' = want /\ Comes = want
          /\ Comes' = IF want = "header" THEN "data" ELSE "header"
      BY <1>5 DEF MoveOut, Comes, Moved
    <2>3. ring[1].part = want BY <1>0, <2>1, <2>2 DEF ReaderAt
    <2>4. want = "header" => head = ring[1] BY <1>0, <2>2 DEF ReaderAt
    <2>5. ring' # <<>> => /\ Len(ring) >= 2 /\ ring'[1] = ring[2] /\ ring[2] \in Records
                          /\ ring'[Len(ring')] = ring[Len(ring)]
      <3>1. SUFFICES ASSUME ring' # <<>>
                     PROVE  /\ Len(ring) >= 2 /\ ring'[1] = ring[2] /\ ring[2] \in Records
                            /\ ring'[Len(ring')] = ring[Len(ring)]
        OBVIOUS
      <3>2. Len(ring) >= 2 BY <1>0, <2>1, <3>1
      <3>3. 1 \in 1 .. Len(ring') /\ Len(ring') \in 1 .. Len(ring') BY <1>0, <2>1, <3>2
      <3>4. ring'[1] = ring[1 + 1] /\ ring'[Len(ring')] = ring[Len(ring) - 1 + 1]
        BY <2>1, <3>3
      <3> QED BY <1>0, <3>2, <3>4
    <2>6. Turns'
      <3>1. ASSUME NEW i \in 1 .. Len(ring')
            PROVE  /\ ring'[i].part = "header" => ring'[i].len = Header
                   /\ ring'[i].part = "data" => ring'[i].len <= Longest
        <4>1. ring'[i] = ring[i + 1] /\ i + 1 \in 1 .. Len(ring) BY <1>0, <2>1, <3>1
        <4> QED BY <1>0, <4>1 DEF Turns
      <3>2. ASSUME NEW i \in 1 .. Len(ring') - 1
            PROVE  /\ ring'[i].part # ring'[i + 1].part
                   /\ ring'[i].part = "header" => ring'[i + 1].by = ring'[i].by
        <4>1. PICK j : j = i + 1 OBVIOUS
        <4>2. /\ i \in 1 .. Len(ring') /\ j \in 1 .. Len(ring') /\ j \in 1 .. Len(ring) - 1
          BY <1>0, <2>1, <3>2, <4>1
        <4>3. ring'[i] = ring[j] /\ ring'[j] = ring[j + 1] BY <2>1, <4>1, <4>2
        <4>4. /\ ring[j].part # ring[j + 1].part
              /\ ring[j].part = "header" => ring[j + 1].by = ring[j].by
          BY <1>0, <4>2 DEF Turns
        <4> QED BY <4>1, <4>3, <4>4
      <3> QED BY <3>1, <3>2 DEF Turns
    <2>7. ReaderAt'
      <3>1. ASSUME ring' # <<>>
            PROVE  ring'[1].part = Comes' /\ (Comes' = "data" => ring'[1].by = head.by)
        <4>1. /\ ring[1].part # ring[2].part
              /\ ring[1].part = "header" => ring[2].by = ring[1].by
          <5>1. 1 \in 1 .. Len(ring) - 1 BY <1>0, <2>5, <3>1
          <5>2. ring[1].part # ring[1 + 1].part
                /\ (ring[1].part = "header" => ring[1 + 1].by = ring[1].by)
            BY <1>0, <5>1 DEF Turns
          <5> QED BY <5>2
        <4>2. ring[2].part \in {"header", "data"} BY <2>5, <3>1 DEF Records, Parts
        <4> QED BY <1>0, <2>2, <2>3, <2>4, <2>5, <3>1, <4>1, <4>2
      <3>2. Comes' = "data" => head' \in Records BY <2>1, <2>2, <2>4
      <3> QED BY <2>2, <3>1, <3>2 DEF ReaderAt
    <2>8. WriterAt'
      <3>1. ring' = <<>> => ring[Len(ring)] = ring[1] BY <2>1
      <3>2. ASSUME NEW v \in Writers, Half(v)'
            PROVE  IF ring' # <<>>
                     THEN ring'[Len(ring')].part = "header" /\ ring'[Len(ring')].by = v
                     ELSE Comes' = "data" /\ head'.by = v
        <4>1. Half(v) BY <1>1, <3>2
        <4>2. ring[Len(ring)].part = "header" /\ ring[Len(ring)].by = v
          BY <1>0, <2>1, <4>1 DEF WriterAt
        <4> QED BY <2>2, <2>3, <2>4, <2>5, <3>1, <4>2
      <3>3. ASSUME \A v \in Writers : ~Half(v)'
            PROVE  IF ring' # <<>> THEN ring'[Len(ring')].part = "data" ELSE Comes' = "header"
        <4>1. \A v \in Writers : ~Half(v) BY <1>1, <3>3
        <4>2. ring[Len(ring)].part = "data" BY <1>0, <2>1, <4>1 DEF WriterAt
        <4> QED BY <2>2, <2>3, <2>5, <3>1, <4>2
      <3> QED BY <3>2, <3>3 DEF WriterAt
    <2> QED BY <2>6, <2>7, <2>8
  <1>6. CASE GetDone
    <2>1. UNCHANGED ring /\ Comes' = Comes BY <1>0, <1>6 DEF GetDone, Comes, Moved
    <2>2. Comes = "data" => head' = head BY <1>0, <1>6 DEF GetDone, Comes, Moved
    <2>3. (rpc' = "idle" => want' = "header") /\ rpc' # "out" BY <1>6 DEF GetDone
    <2>4. ReaderAt' BY <1>0, <2>1, <2>2, <2>3 DEF ReaderAt
    <2> QED BY <1>2, <2>1, <2>2, <2>4
  <1>7. CASE Reset
    <2>1. lock = NULL /\ ring' = <<>> /\ Len(ring') = 0 /\ rpc' = "idle" /\ want' = "header"
      BY <1>7 DEF Reset
    <2>2. Comes' = "header" BY <2>1 DEF Comes, Moved
    <2>3. \A v \in Writers : ~Half(v) BY <2>1, RingAssumption DEF Half
    <2>4. Turns' BY <2>1 DEF Turns
    <2>5. ReaderAt' BY <2>1, <2>2 DEF ReaderAt
    <2>6. WriterAt' BY <1>1, <2>1, <2>2, <2>3 DEF WriterAt
    <2> QED BY <2>4, <2>5, <2>6
  <1> QED BY <1>3, <1>4, <1>5, <1>6, <1>7 DEF Record
-----------------------------------------------------------------------------
(* The totals.                                                             *)

\* What TotalsCount compares.
LEMMA TotalTypes ==
  ASSUME RInv
  PROVE  /\ totalWrite \in Int /\ totalRead \in Int /\ Len(ring) \in Nat
         /\ Len(ring) < MaxTotal /\ MaxTotal \in Nat
         /\ totalWrite >= 0 /\ totalWrite <= MaxTotal
         /\ totalRead >= 0 /\ totalRead <= MaxTotal
         /\ UncountedIn \in {0, 1} /\ UncountedOut \in {0, 1}
  <1>1. TypeOK /\ Locks /\ RoomKept /\ Turns BY DEF RInv
  <1>2. Len(ring) \in Nat /\ Len(ring) < MaxTotal BY <1>1, RoomTypes, FewRecords
  <1>3. /\ totalWrite \in 0 .. MaxTotal /\ totalRead \in 0 .. MaxTotal /\ MaxTotal \in Nat
    BY <1>1, Sizes DEF TypeOK
  <1> QED BY <1>2, <1>3 DEF UncountedIn, UncountedOut

\* The totals, when a writer has put a record.
LEMMA TotalsWrite ==
  ASSUME RInv, NEW w \in Writers, Writes(w)
  PROVE  Wraps' /\ TotalsCount'
  <1> USE DEF writer, reader, totals
  <1>0. /\ TypeOK /\ Locks /\ Wraps /\ wpc \in [Writers -> Places] /\ NULL \notin Writers
    BY RingAssumption DEF RInv, TypeOK, Places, Moved
  <1>1. UNCHANGED <<totalRead, rpc>> /\ UncountedOut' = UncountedOut
    BY DEF Writes, Source, Insert, Offer, Lock, Put, MoveIn, CountIn, WrapIn, TestIn,
           SubIn, PutDone, UncountedOut
  <1>2. PICK m : m = totalWrite + UncountedIn - totalRead - UncountedOut - Len(ring) OBVIOUS
  <1>3. m \in {-MaxTotal, 0, MaxTotal} BY <1>2 DEF RInv, TotalsCount
  <1>4. wpc[w] \in {"put", "in"} \cup Moved => \A v \in Writers \ {w} : wpc[v] \notin {"wrap", "total"}
    BY <1>0 DEF Locks, Moved
  <1>5. /\ totalWrite \in Int /\ totalRead \in Int /\ Len(ring) \in Nat
        /\ Len(ring) < MaxTotal /\ MaxTotal \in Nat
        /\ totalWrite >= 0 /\ totalWrite <= MaxTotal
        /\ totalRead >= 0 /\ totalRead <= MaxTotal
        /\ UncountedIn \in {0, 1} /\ UncountedOut \in {0, 1}
    BY TotalTypes
  <1>6. ASSUME UNCHANGED <<ring, totalWrite>>,
               \A v \in Writers : /\ wpc'[v] = "total" <=> wpc[v] = "total"
                                  /\ wpc'[v] = "wrap" <=> wpc[v] = "wrap"
        PROVE  Wraps' /\ TotalsCount'
    <2>1. Wraps' BY <1>0, <1>1, <1>6 DEF Wraps
    <2>2. UncountedIn' = UncountedIn BY <1>6 DEF UncountedIn
    <2> QED BY <1>1, <1>2, <1>3, <1>6, <2>1, <2>2 DEF TotalsCount
  <1>7. CASE (\E l \in 1 .. MaxLen[w] : Offer(w, l)) \/ Lock(w) \/ Put(w) \/ TestIn(w)
             \/ SubIn(w) \/ PutDone(w)
    <2>1. UNCHANGED <<ring, totalWrite>> BY <1>7 DEF Offer, Lock, Put, TestIn, SubIn, PutDone
    <2>2. \A v \in Writers : /\ wpc'[v] = "total" <=> wpc[v] = "total"
                             /\ wpc'[v] = "wrap" <=> wpc[v] = "wrap"
      BY <1>0, <1>7 DEF Offer, Lock, Put, TestIn, SubIn, PutDone
    <2> QED BY <1>6, <2>1, <2>2
  <1>8. CASE MoveIn(w)
    <2>1. /\ wpc[w] = "in" /\ wpc' = [wpc EXCEPT ![w] = "total"] /\ totalWrite' = totalWrite
      BY <1>8 DEF MoveIn
    <2>2. \A v \in Writers : wpc[v] \notin {"wrap", "total"} /\ wpc'[v] # "wrap"
      BY <1>0, <1>4, <2>1
    <2>3. wpc'[w] = "total" BY <1>0, <2>1
    <2>4. UncountedIn = 0 /\ UncountedIn' = 1 BY <2>2, <2>3 DEF UncountedIn
    <2>5. Len(ring') = Len(ring) + 1 BY <1>8, Appended
    <2>6. totalWrite + 1 - totalRead - UncountedOut - (Len(ring) + 1) = m
      BY <1>2, <1>5, <2>4
    <2>7. TotalsCount' BY <1>1, <1>3, <2>1, <2>4, <2>5, <2>6 DEF TotalsCount
    <2>8. Wraps' BY <1>0, <1>1, <2>1, <2>2 DEF Wraps
    <2> QED BY <2>7, <2>8
  <1>9. CASE CountIn(w)
    <2>1. /\ wpc[w] = "total" /\ ring' = ring /\ totalWrite' = totalWrite + 1
          /\ wpc' = [wpc EXCEPT ![w] = IF totalWrite + 1 >= MaxTotal THEN "wrap" ELSE "test"]
      BY <1>9 DEF CountIn
    <2>2. \A v \in Writers : wpc[v] # "wrap" BY <1>0, <1>4, <2>1 DEF Moved
    <2>3. totalWrite < MaxTotal BY <1>0, <2>2 DEF Wraps
    <2>4. \A v \in Writers : wpc'[v] # "total" /\ (v # w => wpc'[v] # "wrap")
      BY <1>0, <1>4, <2>1 DEF Moved
    <2>5. UncountedIn = 1 /\ UncountedIn' = 0 BY <2>1, <2>4 DEF UncountedIn
    <2>6. totalWrite + 1 + 0 - totalRead - UncountedOut - Len(ring) = m
      BY <1>2, <1>5, <2>5
    <2>7. TotalsCount' BY <1>1, <1>3, <2>1, <2>5, <2>6 DEF TotalsCount
    <2>8. Wraps'
      <3>1. PICK t : t = totalWrite + 1 OBVIOUS
      <3>2. t \in Int /\ t <= MaxTotal BY <1>5, <2>3, <3>1
      <3>3. wpc'[w] = "wrap" <=> t >= MaxTotal BY <1>0, <2>1, <3>1
      <3>4. CASE t >= MaxTotal
        <4>1. t = MaxTotal BY <1>5, <3>2, <3>4
        <4> QED BY <1>0, <1>1, <2>1, <3>1, <3>3, <3>4, <4>1 DEF Wraps
      <3>5. CASE ~(t >= MaxTotal)
        <4>1. t < MaxTotal BY <1>5, <3>2, <3>5
        <4>2. \A v \in Writers : wpc'[v] # "wrap" BY <2>4, <3>3, <3>5
        <4> QED BY <1>0, <1>1, <2>1, <3>1, <4>1, <4>2 DEF Wraps
      <3> QED BY <3>4, <3>5
    <2> QED BY <2>7, <2>8
  <1>a. CASE WrapIn(w)
    <2>1. /\ wpc[w] = "wrap" /\ ring' = ring /\ totalWrite' = 0
          /\ wpc' = [wpc EXCEPT ![w] = "test"]
      BY <1>a DEF WrapIn
    <2>2. totalWrite = MaxTotal BY <1>0, <2>1 DEF Wraps
    <2>3. \A v \in Writers : wpc[v] # "total" /\ wpc'[v] \notin {"total", "wrap"}
      BY <1>0, <1>4, <2>1 DEF Moved
    <2>4. UncountedIn = 0 /\ UncountedIn' = 0 BY <2>3 DEF UncountedIn
    <2>5. totalRead + UncountedOut <= MaxTotal
      BY <1>0, <1>5 DEF Wraps, UncountedOut
    <2>6. m # -MaxTotal BY <1>2, <1>5, <2>2, <2>4, <2>5
    <2>7. 0 + 0 - totalRead - UncountedOut - Len(ring) = m - MaxTotal
      BY <1>2, <1>5, <2>2, <2>4
    <2>8. m - MaxTotal \in {-MaxTotal, 0, MaxTotal} BY <1>3, <1>5, <2>6
    <2>9. TotalsCount' BY <1>1, <2>1, <2>4, <2>7, <2>8 DEF TotalsCount
    <2>a. Wraps'
      <3>1. 0 < MaxTotal BY Sizes
      <3> QED BY <1>0, <1>1, <2>1, <2>3, <3>1 DEF Wraps
    <2> QED BY <2>9, <2>a
  <1> QED BY <1>7, <1>8, <1>9, <1>a DEF Writes, Source, Insert

\* The totals, when the reader has got one or has emptied the ring.
LEMMA TotalsRead ==
  ASSUME RInv, Record
  PROVE  Wraps' /\ TotalsCount'
  <1> USE DEF writer, reader, totals
  <1>0. TypeOK /\ Locks /\ Wraps BY DEF RInv
  <1>1. UNCHANGED wpc /\ UncountedIn' = UncountedIn
    BY DEF Record, Ask, Get, MoveOut, CountOut, WrapOut, TestOut, SubOut, GetDone, Reset,
           UncountedIn
  <1>2. PICK m : m = totalWrite + UncountedIn - totalRead - UncountedOut - Len(ring) OBVIOUS
  <1>3. m \in {-MaxTotal, 0, MaxTotal} BY <1>2 DEF RInv, TotalsCount
  <1>5. /\ totalWrite \in Int /\ totalRead \in Int /\ Len(ring) \in Nat
        /\ Len(ring) < MaxTotal /\ MaxTotal \in Nat
        /\ totalWrite >= 0 /\ totalWrite <= MaxTotal
        /\ totalRead >= 0 /\ totalRead <= MaxTotal
        /\ UncountedIn \in {0, 1} /\ UncountedOut \in {0, 1}
    BY TotalTypes
  <1>6. CASE Ask \/ Get \/ TestOut \/ SubOut \/ GetDone
    <2>1. UNCHANGED <<ring, totalWrite, totalRead>> /\ rpc' \notin {"total", "wrap"}
          /\ rpc \notin {"total", "wrap"}
      BY <1>6 DEF Ask, Get, TestOut, SubOut, GetDone
    <2>2. UncountedOut' = UncountedOut BY <2>1 DEF UncountedOut
    <2>3. Wraps' BY <1>0, <1>1, <2>1 DEF Wraps
    <2> QED BY <1>1, <1>2, <1>3, <2>1, <2>2, <2>3 DEF TotalsCount
  <1>7. CASE MoveOut
    <2>1. /\ rpc = "out" /\ rpc' = "total" /\ UNCHANGED <<totalWrite, totalRead>>
          /\ Len(ring') = Len(ring) - 1
      BY <1>7, Removed DEF MoveOut
    <2>2. UncountedOut = 0 /\ UncountedOut' = 1 BY <2>1 DEF UncountedOut
    <2>3. totalWrite + UncountedIn - totalRead - 1 - (Len(ring) - 1) = m
      BY <1>2, <1>5, <2>2
    <2>4. TotalsCount' BY <1>1, <1>3, <2>1, <2>2, <2>3 DEF TotalsCount
    <2>5. Wraps' BY <1>0, <1>1, <2>1 DEF Wraps
    <2> QED BY <2>4, <2>5
  <1>8. CASE CountOut
    <2>1. /\ rpc = "total" /\ UNCHANGED <<ring, totalWrite>> /\ totalRead' = totalRead + 1
          /\ rpc' = IF totalRead + 1 >= MaxTotal THEN "wrap" ELSE "test"
      BY <1>8 DEF CountOut
    <2>2. UncountedOut = 1 /\ UncountedOut' = 0 BY <2>1 DEF UncountedOut
    <2>3. totalWrite + UncountedIn - (totalRead + 1) - 0 - Len(ring) = m
      BY <1>2, <1>5, <2>2
    <2>4. TotalsCount' BY <1>1, <1>3, <2>1, <2>2, <2>3 DEF TotalsCount
    <2>5. totalRead < MaxTotal BY <1>0, <2>1 DEF Wraps
    <2>6. PICK t : t = totalRead + 1 OBVIOUS
    <2>7. t \in Int /\ t <= MaxTotal BY <1>5, <2>5, <2>6
    <2>8. CASE t >= MaxTotal
      <3>1. t = MaxTotal BY <1>5, <2>7, <2>8
      <3> QED BY <1>0, <1>1, <2>1, <2>4, <2>6, <2>8, <3>1 DEF Wraps
    <2>9. CASE ~(t >= MaxTotal)
      <3>1. t < MaxTotal BY <1>5, <2>7, <2>9
      <3> QED BY <1>0, <1>1, <2>1, <2>4, <2>6, <2>9, <3>1 DEF Wraps
    <2> QED BY <2>8, <2>9
  <1>9. CASE WrapOut
    <2>1. rpc = "wrap" /\ rpc' = "test" /\ UNCHANGED <<ring, totalWrite>> /\ totalRead' = 0
      BY <1>9 DEF WrapOut
    <2>2. UncountedOut = 0 /\ UncountedOut' = 0 /\ totalRead = MaxTotal
      BY <1>0, <2>1 DEF UncountedOut, Wraps
    <2>3. totalWrite + UncountedIn <= MaxTotal
      <3>1. CASE \E v \in Writers : wpc[v] = "total"
        <4>1. \A v \in Writers : wpc[v] # "wrap" BY <1>0, <3>1 DEF Locks, Moved
        <4>2. totalWrite < MaxTotal BY <1>0, <4>1 DEF Wraps
        <4> QED BY <1>5, <4>2
      <3>2. CASE ~\E v \in Writers : wpc[v] = "total"
        <4>1. UncountedIn = 0 BY <3>2 DEF UncountedIn
        <4> QED BY <1>5, <4>1
      <3> QED BY <3>1, <3>2
    <2>4. m # MaxTotal \/ MaxTotal = 0 BY <1>2, <1>5, <2>2, <2>3
    <2>5. totalWrite + UncountedIn - 0 - 0 - Len(ring) = m + MaxTotal
      BY <1>2, <1>5, <2>2
    <2>6. m + MaxTotal \in {-MaxTotal, 0, MaxTotal} BY <1>3, <1>5, <2>4
    <2>7. TotalsCount' BY <1>1, <2>1, <2>2, <2>5, <2>6 DEF TotalsCount
    <2>8. Wraps'
      <3>1. 0 < MaxTotal BY Sizes
      <3> QED BY <1>0, <1>1, <2>1, <3>1 DEF Wraps
    <2> QED BY <2>7, <2>8
  <1>a. CASE Reset
    <2>1. /\ lock = NULL /\ Len(ring') = 0 /\ totalWrite' = 0 /\ totalRead' = 0
          /\ rpc' = "idle"
      BY <1>a DEF Reset
    <2>2. \A v \in Writers : wpc[v] \notin {"total", "wrap"}
      BY <1>0, <2>1, RingAssumption DEF Locks, Moved
    <2>3. UncountedIn' = 0 /\ UncountedOut' = 0 BY <1>1, <2>1, <2>2 DEF UncountedIn, UncountedOut
    <2>4. 0 + 0 - 0 - 0 - 0 = 0 OBVIOUS
    <2>5. TotalsCount' BY <2>1, <2>3, <2>4 DEF TotalsCount
    <2>6. 0 < MaxTotal BY Sizes
    <2>7. Wraps' BY <1>1, <2>1, <2>2, <2>6 DEF Wraps
    <2> QED BY <2>5, <2>7
  <1> QED BY <1>6, <1>7, <1>8, <1>9, <1>a DEF Record
-----------------------------------------------------------------------------
(* The theorems.                                                           *)

\* A new ring.
LEMMA First == Init => RInv
  <1> SUFFICES ASSUME Init PROVE RInv OBVIOUS
  <1> USE DEF totals
  <1>0. /\ MaxTotal \in Nat /\ 0 < MaxTotal /\ 1 \in 1 .. Longest /\ NULL \notin Writers
        /\ ring \in Seq(Records) /\ Len(ring) = 0
    BY Sizes, RingAssumption DEF Init
  <1>1. TypeOK
    <2>1. {itemNum, wnum, rnum} \subseteq -MaxTotal .. 2 * MaxTotal BY <1>0 DEF Init
    <2>2. {totalWrite, totalRead} \subseteq 0 .. MaxTotal BY <1>0 DEF Init
    <2>3. \A w \in Writers : wlen[w] <= MaxLen[w]
      <3>1. ASSUME NEW w \in Writers PROVE wlen[w] <= MaxLen[w]
        <4>1. MaxLen[w] \in 1 .. Longest /\ wlen[w] = 1 BY RingAssumption DEF Init
        <4> QED BY <4>1, Sizes
      <3> QED BY <3>1
    <2> QED BY <1>0, <2>1, <2>2, <2>3 DEF Init, TypeOK, Parts
  <1>2. Locks BY <1>0 DEF Init, Locks, Moved
  <1>3. RoomKept
    <2>1. Bytes = 0 BY StoredEmpty, BytesNow DEF Init
    <2>2. Cardinality(Claim(Busy)) = 0
      <3>1. Busy = {} BY DEF Init, Busy
      <3>2. Claim(Busy) = {} BY <3>1 DEF Claim
      <3> QED BY <3>2, FS_EmptySet
    <2>3. Limit >= 0
      <3>1. PICK n : n = Cardinality(Claim(Writers)) OBVIOUS
      <3>2. n \in Nat BY <3>1, ClaimSize
      <3> QED BY <3>1, <3>2, Sizes DEF Limit
    <2> QED BY <1>0, <2>1, <2>2, <2>3 DEF Init, RoomKept
  <1>4. Turns BY <1>0 DEF Turns
  <1>5. ReaderAt BY DEF Init, ReaderAt, Comes, Moved
  <1>6. WriterAt BY DEF Init, WriterAt, Comes, Half, Moved
  <1>7. Wraps BY <1>0 DEF Init, Wraps
  <1>8. TotalsCount
    <2>1. UncountedIn = 0 /\ UncountedOut = 0 BY DEF Init, UncountedIn, UncountedOut
    <2>2. 0 + 0 - 0 - 0 - 0 = 0 OBVIOUS
    <2> QED BY <1>0, <2>1, <2>2 DEF Init, TotalsCount
  <1> QED BY <1>1, <1>2, <1>3, <1>4, <1>5, <1>6, <1>7, <1>8 DEF RInv

\* Every step.
LEMMA Steps == RInv /\ [Next]_vars => RInv'
  <1> SUFFICES ASSUME RInv, [Next]_vars PROVE RInv' OBVIOUS
  <1>1. ASSUME NEW w \in Writers, Source(w) \/ Insert(w) PROVE RInv'
    <2>1. Writes(w) BY <1>1 DEF Writes
    <2> QED BY <2>1, WriteTypes, LocksStep, RoomStep, TurnsWrite, TotalsWrite DEF RInv
  <1>2. CASE Record
    BY <1>2, ReadTypes, RoomRead, TurnsRead, TotalsRead DEF RInv
  <1>3. CASE (\E n \in SaveNums : SetSaveNum(n)) \/ UNCHANGED vars
    <2>1. UNCHANGED <<ring, totals, itemNum, writer, reader>> /\ saveNum' \in SaveNums
      BY <1>3 DEF SetSaveNum, vars, RInv, TypeOK
    <2> USE DEF writer, reader, totals
    <2>2. TypeOK' BY <2>1 DEF RInv, TypeOK
    <2>3. Locks' BY <2>1 DEF RInv, Locks
    <2>4. RoomKept'
      <3>1. Bytes' = Bytes /\ Claim(Busy)' = Claim(Busy) /\ Limit' = Limit
            /\ \A v \in Writers : PutBytes(v)' = PutBytes(v)
        BY <2>1, BytesNow, BytesNext DEF Busy, Claim, Limit, PutBytes
      <3> QED BY <2>1, <3>1 DEF RInv, RoomKept
    <2>5. Turns' BY <2>1 DEF RInv, Turns
    <2>6. ReaderAt' BY <2>1 DEF RInv, ReaderAt, Comes
    <2>7. WriterAt' BY <2>1 DEF RInv, WriterAt, Comes, Half
    <2>8. Wraps' BY <2>1 DEF RInv, Wraps
    <2>9. TotalsCount' BY <2>1 DEF RInv, TotalsCount, UncountedIn, UncountedOut
    <2> QED BY <2>2, <2>3, <2>4, <2>5, <2>6, <2>7, <2>8, <2>9 DEF RInv
  <1> QED BY <1>1, <1>2, <1>3 DEF Next

\* The invariant of the ring: the room that each writer has seen stays its own,
\* records come in whole frames, and the totals count what is there.
THEOREM Inductive == Spec => []RInv
  BY First, Steps, PTL DEF Spec

\* Every variable of the ring has its type: item_num is at most one MaxTotal
\* below or two above 0, however the totals wrap.
THEOREM TypeCorrect == Spec => []TypeOK
  <1>1. RInv => TypeOK BY DEF RInv
  <1> QED BY <1>1, Inductive, PTL

\* fifo_put never cuts a record, however many writers saw the same room.
THEOREM NeverCut == Spec => []NeverShort
  <1>1. RInv => NeverShort BY DEF RInv, Locks, NeverShort
  <1> QED BY <1>1, Inductive, PTL

\* The two totals always count what is in the ring, modulo MaxTotal.
THEOREM TotalsRight == Spec => []TotalsCount
  <1>1. RInv => TotalsCount BY DEF RInv
  <1> QED BY <1>1, Inductive, PTL

\* The reader gets a header and then the data of the same frame, also after the
\* ring was emptied under it.
THEOREM FramesWhole == Spec => []WholeFrames
  <1>1. RInv => WholeFrames
    <2>1. SUFFICES ASSUME RInv, rpc = "out"
                   PROVE  Head(ring).part = want /\ (want = "data" => Head(ring).by = head.by)
      BY DEF WholeFrames
    <2>2. ring \in Seq(Records) /\ ring # <<>> BY <2>1 DEF RInv, TypeOK, ReaderAt
    <2>3. Head(ring) = ring[1] BY <2>2
    <2>4. Comes = want BY <2>1 DEF Comes, Moved
    <2> QED BY <2>1, <2>2, <2>3, <2>4 DEF RInv, ReaderAt
  <1> QED BY <1>1, Inductive, PTL
=============================================================================
