-------------------------- MODULE FrameListProofs --------------------------
(***************************************************************************)
(* The shared frame list keeps what its readers are using and accounts for *)
(* it, for any number of readers and any limits that leave room for what   *)
(* they hold (RoomForReaders).  Without that room the list may run empty,  *)
(* and then none of this holds.                                            *)
(***************************************************************************)
EXTENDS FrameList, FiniteSetTheorems, TLAPS

\* The list is the run of ids from tail_id on, and all of it is allocated;
\* nothing else is but nodes older than that.
Shape ==
  /\ ListWhole
  /\ seqNo <= 1 => pListHead = NULL
  /\ Live \subseteq 0 .. seqNo - 1
  /\ tailId .. seqNo - 1 \subseteq Live

\* user_num counts the readers inside a node, who are all in nodes that are
\* allocated.
Users ==
  /\ \A n \in Live : node[n].users = Cardinality(Held(n))
  /\ \A r \in Readers : rpc[r] \in Using => get[r] \in Live

\* What the calls of the list keep as long as it is not empty.
LInv == TypeOK /\ Shape /\ Users

-----------------------------------------------------------------------------
(* The list.                                                               *)

\* The nodes on the list are the ids tail_id to seq_no - 1.
LEMMA LinkedRange ==
  ASSUME TypeOK, ListWhole
  PROVE  Linked = tailId .. seqNo - 1
  <1>1. Len(list) \in Nat /\ tailId \in Nat /\ seqNo = tailId + Len(list)
    BY DEF TypeOK, ListWhole
  <1>2. ASSUME NEW n \in Linked PROVE n \in tailId .. seqNo - 1
    BY <1>1, <1>2 DEF Linked, ListWhole
  <1>3. ASSUME NEW n \in tailId .. seqNo - 1 PROVE n \in Linked
    <2>1. n - tailId + 1 \in 1 .. Len(list) /\ list[n - tailId + 1] = n
      BY <1>1, <1>3 DEF ListWhole
    <2> QED BY <2>1 DEF Linked
  <1> QED BY <1>2, <1>3

\* The readers inside a node are a finite set.
LEMMA HeldFinite ==
  ASSUME NEW n
  PROVE  IsFiniteSet(Held(n)) /\ Cardinality(Held(n)) \in Nat
  <1>1. IsFiniteSet(Readers) BY ListAssumption
  <1>2. Held(n) \subseteq Readers BY DEF Held
  <1> QED BY <1>1, <1>2, FS_Subset, FS_CardinalityType

\* A set that gains a member has one more.
LEMMA OneMore ==
  ASSUME NEW S, NEW r, IsFiniteSet(S), r \notin S
  PROVE  Cardinality(S \cup {r}) = Cardinality(S) + 1
  BY FS_AddElement

\* One that loses a member has one less.
LEMMA OneLess ==
  ASSUME NEW S, NEW r \in S, IsFiniteSet(S)
  PROVE  Cardinality(S \ {r}) = Cardinality(S) - 1
  BY FS_RemoveElement

-----------------------------------------------------------------------------
(* Types.                                                                  *)

\* What happens to a node keeps the nodes nodes.
LEMMA UseType ==
  ASSUME TypeOK, NEW n \in Live, NEW k \in Int
  PROVE  Use(n, k) \in [Live -> Nodes]
  <1>1. node \in [Live -> Nodes] BY DEF TypeOK
  <1>2. node[n] \in Nodes BY <1>1
  <1>3. [node[n] EXCEPT !.users = @ + k] \in Nodes BY <1>2 DEF Nodes
  <1>4. Use(n, k) = [node EXCEPT ![n] = [node[n] EXCEPT !.users = @ + k]]
    BY <1>1, <1>2 DEF Use
  <1> QED BY <1>1, <1>3, <1>4

\* Freeing one leaves the others as they are.
LEMMA FreeType ==
  ASSUME TypeOK, NEW n \in Live
  PROVE  Free(n) \in [Live \ {n} -> Nodes]
  BY DEF TypeOK, Free

\* A new one is a node nobody uses.
LEMMA MakeType ==
  ASSUME TypeOK
  PROVE  Make(frame) \in [Live \cup {seqNo} -> Nodes]
  BY DEF TypeOK, Make, Nodes, Frames

\* The nodes and the list.
Heap == Live \subseteq Nat /\ node \in [Live -> Nodes] /\ list \in Seq(Live)

\* The rest of the types.
Rest ==
  /\ pListHead \in Nat \cup {NULL}
  /\ itemNum \in Int /\ tailId \in Nat /\ seqNo \in Nat
  /\ allSize \in Int /\ notFree \in Int
  /\ wpc \in {"idle", "room", "del", "add"} /\ frame \in Frames
  /\ rpc \in [Readers -> {"lock", "missed", "newest"} \cup Using]
  /\ recv \in [Readers -> Nat] /\ get \in [Readers -> Nat \cup {NULL}]
Flow == lost \in BOOLEAN /\ sent \in Int /\ cleared \in BOOLEAN

\* Looking at a frame and sending it change nothing but where the reader stands.
LEMMA Passes ==
  ASSUME NEW r \in Readers, Drop(r) \/ Look(r) \/ Test(r) \/ Send(r)
  PROVE  /\ UNCHANGED <<info, writer, recv, get>> /\ rpc[r] \in Using
         /\ \E x \in Using : rpc' = [rpc EXCEPT ![r] = x]
  BY DEF Drop, Look, Test, Send, Using

\* The flag and the observations keep their types.
LEMMA FlowTypes ==
  ASSUME LInv, Next
  PROVE  Flow'
  <1> USE DEF SetLost, flow, Flow
  <1>0. lost \in BOOLEAN /\ sent \in Int /\ cleared \in BOOLEAN BY DEF LInv, TypeOK
  <1>1. CASE UNCHANGED flow BY <1>0, <1>1
  <1>2. CASE SetLost /\ UNCHANGED sent BY <1>0, <1>2
  <1>3. ASSUME NEW r \in Readers, Look(r), ~UNCHANGED flow PROVE Flow'
    <2>1. lost' = FALSE /\ cleared' = (r # Net /\ (cleared \/ lost)) /\ sent' = sent
      BY <1>3 DEF Look
    <2> QED BY <1>0, <2>1
  <1>4. ASSUME NEW r \in Readers, Send(r), sent' # sent PROVE Flow'
    <2>1. sent' = get[r] /\ UNCHANGED <<lost, cleared>> /\ rpc[r] \in Using
      BY <1>4 DEF Send, Using
    <2>2. get[r] \in Int BY <2>1 DEF LInv, Users, TypeOK
    <2> QED BY <1>0, <2>1, <2>2
  <1>5. CASE Source \/ Encoder
    BY <1>1, <1>5 DEF Source, Encode, Encoder, Room, DelTail, Add, reader
  <1>6. ASSUME NEW r \in Readers, Read(r) PROVE Flow'
    <2>1. CASE Lock(r) \/ Miss(r) \/ Wait(r) \/ Test(r) \/ Unlock(r)
      BY <1>1, <2>1 DEF Lock, Miss, Wait, Test, Unlock
    <2>2. CASE Skip(r) \/ Newest(r) \/ Drop(r)
      BY <1>1, <1>2, <2>2 DEF Skip, Newest, Drop
    <2>3. CASE Look(r) BY <1>1, <1>3, <2>3
    <2>4. CASE Send(r)
      <3>1. sent' # sent \/ (SetLost /\ UNCHANGED sent) \/ UNCHANGED flow BY <2>4 DEF Send
      <3> QED BY <1>1, <1>2, <1>4, <2>4, <3>1
    <2> QED BY <1>6, <2>1, <2>2, <2>3, <2>4 DEF Read
  <1> QED BY <1>5, <1>6 DEF Next

\* A sequence is one of any set its members are in.
LEMMA SeqOf ==
  ASSUME NEW S, NEW T, NEW q \in Seq(S), \A i \in 1 .. Len(q) : q[i] \in T
  PROVE  q \in Seq(T)
  OBVIOUS

\* The first frame of a list that is whole is in it once, and its length is a
\* number.
LEMMA FirstOff ==
  ASSUME TypeOK, ListWhole, list # <<>>
  PROVE  /\ Head1 = tailId /\ Head1 \in Live /\ node[Head1] \in Nodes
         /\ node[Head1].len \in Int
         /\ Len(Tail(list)) = Len(list) - 1
         /\ \A i \in 1 .. Len(Tail(list)) : Tail(list)[i] = tailId + i
         /\ Tail(list) \in Seq(Live \ {Head1}) /\ Tail(list) \in Seq(Live)
  <1>1. list \in Seq(Live) /\ tailId \in Nat /\ Len(list) \in Nat \ {0}
    BY DEF TypeOK
  <1>2. Head1 = tailId /\ Head1 \in Live BY <1>1 DEF Head1, ListWhole
  <1>3. node[Head1] \in Nodes BY <1>2 DEF TypeOK
  <1>4. node[Head1].len \in Int BY <1>3, ListAssumption DEF Nodes
  <1>5. Tail(list) \in Seq(Live) /\ Len(Tail(list)) = Len(list) - 1 BY <1>1
  <1>6. \A i \in 1 .. Len(Tail(list)) : Tail(list)[i] = tailId + i
    <2> SUFFICES ASSUME NEW i \in 1 .. Len(Tail(list)) PROVE Tail(list)[i] = tailId + i
      OBVIOUS
    <2>1. Tail(list)[i] = list[i + 1] BY <1>1, <1>5
    <2>2. i + 1 \in 1 .. Len(list) BY <1>1, <1>5
    <2> QED BY <1>1, <2>1, <2>2 DEF ListWhole
  <1>7. \A i \in 1 .. Len(Tail(list)) : Tail(list)[i] \in Live \ {Head1}
    <2> SUFFICES ASSUME NEW i \in 1 .. Len(Tail(list)) PROVE Tail(list)[i] \in Live \ {Head1}
      OBVIOUS
    <2>1. Tail(list)[i] \in Live BY <1>5
    <2>2. Tail(list)[i] # tailId BY <1>1, <1>5, <1>6
    <2> QED BY <1>2, <2>1, <2>2
  <1>8. Tail(list) \in Seq(Live \ {Head1}) BY <1>5, <1>7, SeqOf
  <1> QED BY <1>2, <1>3, <1>4, <1>5, <1>6, <1>8

\* The steps of the encoder keep the types.
LEMMA EncoderTypes ==
  ASSUME LInv, NeverEmpty, Source \/ Encoder
  PROVE  TypeOK'
  <1> USE DEF info, writer, reader, flow
  <1>0. ListAssumption /\ TypeOK /\ ListWhole BY ListAssumption DEF LInv, Shape
  <1>h. Heap /\ Rest BY <1>0 DEF TypeOK, Heap, Rest
  <1>f. Flow' BY FlowTypes DEF Next
  <1>q. Heap' /\ Rest' => TypeOK' BY <1>f DEF TypeOK, Heap, Rest, Flow
  <1>1. CASE Source BY <1>0, <1>1 DEF Source, Encode, TypeOK, Live
  <1>2. CASE Room BY <1>0, <1>2 DEF Room, TypeOK, Live
  <1>3. CASE DelTail
    <2>1. list # <<>> BY <1>3 DEF DelTail, NeverEmpty
    <2>a. node[Head1].len \in Int BY <1>0, <2>1, FirstOff
    <2>b. allSize \in Int /\ notFree \in Int BY <1>h DEF Rest
    <2>c. allSize' \in Int /\ notFree' \in Int
      <3>1. \/ UNCHANGED allSize /\ notFree' = notFree + node[Head1].len
            \/ allSize' = allSize - node[Head1].len /\ UNCHANGED notFree
        BY <1>3, <2>1 DEF DelTail
      <3> QED BY <2>a, <2>b, <3>1
    <2>d. /\ tailId' = tailId + 1 /\ itemNum' = itemNum - 1 /\ wpc' = "room"
          /\ UNCHANGED <<pListHead, seqNo, frame, rpc, recv, get>>
      BY <1>3 DEF DelTail
    <2>2. Rest' BY <1>h, <2>c, <2>d DEF Rest
    <2>3. list' = Tail(list) /\ (node' = Free(Head1) \/ node' = node)
      BY <1>3, <2>1 DEF DelTail
    <2>4. CASE node' = Free(Head1)
      <3>1. Live' = Live \ {Head1} BY <2>4 DEF Free, Live
      <3>2. node' \in [Live' -> Nodes] BY <1>0, <2>1, <2>4, <3>1, FreeType, FirstOff
      <3>3. Heap' BY <1>0, <1>h, <2>1, <2>3, <3>1, <3>2, FirstOff DEF Heap
      <3> QED BY <1>q, <2>2, <3>3
    <2>5. CASE node' = node
      <3>1. Live' = Live BY <2>5 DEF Live
      <3>2. Heap' BY <1>0, <1>h, <2>1, <2>3, <2>5, <3>1, FirstOff DEF Heap
      <3> QED BY <1>q, <2>2, <3>2
    <2> QED BY <2>3, <2>4, <2>5
  <1>4. CASE Add
    <2>1. Live' = Live \cup {seqNo} BY <1>4 DEF Add, Make, Live
    <2>2. node' \in [Live' -> Nodes] BY <1>0, <1>4, <2>1, MakeType DEF Add
    <2>3. list' \in {<<seqNo>>, list, Append(list, seqNo)} BY <1>4 DEF Add
    <2>4. list \in Seq(Live') /\ seqNo \in Live' BY <1>h, <2>1 DEF Heap
    <2>5. list' \in Seq(Live')
      <3>1. CASE list' = <<seqNo>> BY <2>4, <3>1
      <3>2. CASE list' = list BY <2>4, <3>2
      <3>3. CASE list' = Append(list, seqNo) BY <2>4, <3>3
      <3> QED BY <2>3, <3>1, <3>2, <3>3
    <2>6. frame.len \in Int BY <1>0 DEF TypeOK, Frames, ListAssumption
    <2>7. Rest' BY <1>h, <1>4, <2>6 DEF Add, Rest
    <2>8. Heap' BY <1>h, <2>1, <2>2, <2>5 DEF Heap, Rest
    <2> QED BY <1>q, <2>7, <2>8
  <1> QED BY <1>1, <1>2, <1>3, <1>4 DEF Encoder

\* The steps of a reader keep the types.
LEMMA ReadTypes ==
  ASSUME LInv, NEW r \in Readers, Read(r)
  PROVE  TypeOK'
  <1> USE DEF info, writer, reader, flow
  <1>0. ListAssumption /\ TypeOK BY ListAssumption DEF LInv
  <1>h. Heap /\ Rest /\ headId \in Nat BY <1>0 DEF TypeOK, Heap, Rest, headId
  <1>f. Flow' BY FlowTypes DEF Next
  <1>q. Heap' /\ Rest' => TypeOK' BY <1>f DEF TypeOK, Heap, Rest, Flow
  <1>s. UNCHANGED <<node, list>> => Heap' BY <1>h DEF Heap, Live
  <1>1. CASE Lock(r)
    <2>1. recv[r] \in Live BY <1>0, <1>1 DEF Lock, Linked, TypeOK
    <2>2. node' \in [Live -> Nodes] /\ Live' = Live
      BY <1>0, <1>1, <2>1, UseType DEF Lock, Live
    <2>3. Heap' BY <1>h, <1>1, <2>2 DEF Lock, Heap
    <2>4. Rest' BY <1>h, <1>1 DEF Lock, Rest, Using
    <2> QED BY <1>q, <2>3, <2>4
  <1>2. CASE Miss(r) BY <1>h, <1>q, <1>s, <1>2 DEF Miss, Rest
  <1>3. CASE Wait(r) BY <1>h, <1>q, <1>s, <1>3 DEF Wait, Rest
  <1>4. CASE Skip(r)
    <2>0. list \in Seq(Live) /\ Live \subseteq Nat BY <1>h DEF Heap
    <2>1. \A i \in 2 .. Len(list) : list[i] \in Nat
      <3>1. \A i \in 1 .. Len(list) : list[i] \in Live BY <2>0
      <3>2. Len(list) \in Nat BY <2>0
      <3>3. 2 .. Len(list) \subseteq 1 .. Len(list) BY <3>2
      <3>4. Live \subseteq Nat BY <2>0
      <3> QED BY <3>1, <3>3, <3>4, Zenon
    <2>2. recv' \in [Readers -> Nat]
      <3>1. CASE UNCHANGED recv BY <1>h, <3>1 DEF Rest
      <3>2. ASSUME NEW i \in 2 .. Len(list), recv' = [recv EXCEPT ![r] = list[i]]
            PROVE  recv' \in [Readers -> Nat]
        BY <1>h, <2>1, <3>2 DEF Rest
      <3> QED BY <1>4, <3>1, <3>2 DEF Skip
    <2>3. Rest' BY <1>h, <2>2, <1>4 DEF Skip, Rest
    <2> QED BY <1>q, <1>s, <1>4, <2>3 DEF Skip
  <1>5. CASE Newest(r) BY <1>h, <1>q, <1>s, <1>5 DEF Newest, Rest
  <1>6. CASE Unlock(r)
    <2>1. get[r] \in Live BY <1>0, <1>6 DEF Unlock, LInv, Users, Using
    <2>0. node[get[r]] \in Nodes BY <1>h, <2>1 DEF Heap
    <2>2. node[get[r]].len \in Int BY <1>0, <2>0 DEF Nodes, ListAssumption
    <2>a. allSize' \in Int /\ notFree' \in Int
      <3>1. allSize \in Int /\ notFree \in Int BY <1>h DEF Rest
      <3>2. \/ UNCHANGED <<allSize, notFree>>
            \/ /\ allSize' = allSize - node[get[r]].len
               /\ notFree' = notFree - node[get[r]].len
        BY <1>6 DEF Unlock
      <3> QED BY <2>2, <3>1, <3>2
    <2>b. /\ rpc' = [rpc EXCEPT ![r] = "lock"]
          /\ (get' = get \/ get' = [get EXCEPT ![r] = NULL])
          /\ UNCHANGED <<pListHead, itemNum, tailId, seqNo, wpc, frame, recv>>
      BY <1>6 DEF Unlock
    <2>c. rpc' \in [Readers -> {"lock", "missed", "newest"} \cup Using]
          /\ get' \in [Readers -> Nat \cup {NULL}]
      BY <1>h, <2>b DEF Rest
    <2>3. Rest' BY <1>h, <2>a, <2>b, <2>c DEF Rest
    <2>4. CASE UNCHANGED node BY <1>q, <1>s, <1>6, <2>3, <2>4 DEF Unlock
    <2>5. CASE node' = Use(get[r], -1)
      <3>1. -1 \in Int OBVIOUS
      <3>2. node' \in [Live -> Nodes] BY <1>0, <2>1, <2>5, <3>1, UseType
      <3>3. Live' = Live BY <2>5 DEF Live, Use
      <3>4. Heap' BY <1>h, <1>6, <3>2, <3>3 DEF Unlock, Heap
      <3> QED BY <1>q, <2>3, <3>4
    <2>6. CASE get[r] \notin tailId .. headId /\ node' = Free(get[r])
      <3>1. Live' = Live \ {get[r]} BY <2>6 DEF Live, Free
      <3>2. node' \in [Live' -> Nodes] BY <1>0, <2>1, <2>6, <3>1, FreeType
      <3>3. list \in Seq(Live')
        <4>1. get[r] \notin Linked
          <5>1. Linked = tailId .. seqNo - 1 BY <1>0, LinkedRange DEF LInv, Shape
          <5>2. tailId \in Nat /\ seqNo \in Nat BY <1>h DEF Rest
          <5> QED BY <2>6, <5>1, <5>2 DEF headId
        <4>2. \A i \in 1 .. Len(list) : list[i] \in Live \ {get[r]}
          BY <1>0, <4>1 DEF Linked, TypeOK
        <4> QED BY <1>h, <3>1, <4>2, SeqOf DEF Heap
      <3>4. Heap' BY <1>h, <1>6, <3>1, <3>2, <3>3 DEF Unlock, Heap
      <3> QED BY <1>q, <2>3, <3>4
    <2> QED BY <1>6, <2>4, <2>5, <2>6 DEF Unlock
  <1>7. CASE Drop(r) \/ Look(r) \/ Test(r) \/ Send(r)
    <2>1. Rest' BY <1>h, <1>7, Passes DEF Rest
    <2> QED BY <1>q, <1>s, <1>7, <2>1, Passes
  <1> QED BY <1>1, <1>2, <1>3, <1>4, <1>5, <1>6, <1>7 DEF Read

-----------------------------------------------------------------------------
(* The shape of the list.                                                  *)

\* Dropping the oldest frame, or adding one, leaves the list whole.
LEMMA EncoderShape ==
  ASSUME LInv, NeverEmpty, Source \/ Encoder
  PROVE  Shape'
  <1> USE DEF info, writer, reader, flow
  <1>0. /\ TypeOK /\ ListWhole /\ Len(list) \in Nat /\ tailId \in Nat /\ seqNo \in Nat
        /\ itemNum = Len(list) /\ tailId + Len(list) = seqNo
        /\ Live \subseteq 0 .. seqNo - 1 /\ tailId .. seqNo - 1 \subseteq Live
        /\ (seqNo <= 1 => pListHead = NULL) /\ (seqNo > 1 => pListHead = seqNo - 1)
    BY DEF LInv, TypeOK, Shape, ListWhole, headId
  <1>1. CASE Source
    BY <1>1 DEF Source, Encode, LInv, Shape, ListWhole, Live, headId
  <1>2. CASE Room
    BY <1>2 DEF Room, LInv, Shape, ListWhole, Live, headId
  <1>3. CASE DelTail
    <2>1. list # <<>> BY <1>3 DEF DelTail, NeverEmpty
    <2>2. /\ list' = Tail(list) /\ tailId' = tailId + 1 /\ itemNum' = itemNum - 1
          /\ UNCHANGED <<seqNo, pListHead>>
      BY <1>3, <2>1 DEF DelTail
    <2>3. /\ Head1 = tailId /\ Len(list') = Len(list) - 1
          /\ \A i \in 1 .. Len(list') : list'[i] = tailId + i
      BY <1>0, <2>1, <2>2, FirstOff
    <2>4. Live' = Live \/ Live' = Live \ {Head1}
      BY <1>3, <2>1 DEF DelTail, Live, Free
    <2>5. ListWhole'
      <3>1. \A i \in 1 .. Len(list') : list'[i] = tailId' + i - 1
        BY <1>0, <2>2, <2>3
      <3>2. itemNum' = Len(list') /\ tailId' + itemNum' = seqNo' BY <1>0, <2>2, <2>3
      <3>3. (seqNo > 1 => pListHead = headId)' BY <1>0, <2>2 DEF headId
      <3> QED BY <3>1, <3>2, <3>3 DEF ListWhole
    <2>6. Live' \subseteq 0 .. seqNo' - 1 BY <1>0, <2>2, <2>4
    <2>7. tailId' .. seqNo' - 1 \subseteq Live' BY <1>0, <2>2, <2>3, <2>4
    <2> QED BY <1>0, <2>2, <2>5, <2>6, <2>7 DEF Shape
  <1>4. CASE Add
    <2>1. /\ Live' = Live \cup {seqNo} /\ seqNo' = seqNo + 1
          /\ itemNum' = itemNum + 1 /\ tailId' = tailId
      BY <1>4 DEF Add, Make, Live
    <2>2. Live' \subseteq 0 .. seqNo' - 1 /\ tailId' .. seqNo' - 1 \subseteq Live'
      BY <1>0, <2>1
    <2>3. CASE list = <<>>
      <3>1. seqNo = 0 /\ tailId = 0 /\ itemNum = 0 BY <1>0, <2>3 DEF NeverEmpty
      <3>2. list' = <<seqNo>> /\ pListHead' = pListHead BY <1>4, <2>3 DEF Add
      <3>3. ListWhole' BY <2>1, <3>1, <3>2 DEF ListWhole
      <3> QED BY <1>0, <2>1, <2>2, <3>1, <3>2, <3>3 DEF Shape
    <2>4. CASE list # <<>>
      <3>0. list \in Seq(Live) BY <1>0 DEF TypeOK
      <3>1. Len(list) > 0 /\ seqNo > 0 BY <1>0, <2>4, <3>0
      <3>2. list[Len(list)] = seqNo - 1 BY <1>0, <3>1 DEF ListWhole
      <3>3. list' = Append(list, seqNo) /\ pListHead' = seqNo
        BY <1>0, <1>4, <2>4, <3>1, <3>2 DEF Add
      <3>4. Len(list') = Len(list) + 1 BY <3>0, <3>3
      <3>5. \A i \in 1 .. Len(list') : list'[i] = tailId' + i - 1
        <4> SUFFICES ASSUME NEW i \in 1 .. Len(list') PROVE list'[i] = tailId' + i - 1
          OBVIOUS
        <4>1. CASE i = Len(list) + 1
          <5>1. list'[i] = seqNo BY <3>0, <3>3, <4>1
          <5> QED BY <1>0, <2>1, <4>1, <5>1
        <4>2. CASE i \in 1 .. Len(list)
          <5>1. list'[i] = list[i] BY <3>0, <3>3, <4>2
          <5> QED BY <2>1, <4>2, <5>1, <1>0 DEF ListWhole
        <4> QED BY <1>0, <3>4, <4>1, <4>2
      <3>6. itemNum' = Len(list') /\ tailId' + itemNum' = seqNo' BY <1>0, <2>1, <3>4
      <3>7. (seqNo > 1 => pListHead = headId)' BY <1>0, <2>1, <3>3 DEF headId
      <3>8. ListWhole' BY <3>5, <3>6, <3>7 DEF ListWhole
      <3>9. seqNo' > 1 BY <1>0, <2>1, <3>1
      <3> QED BY <1>0, <2>1, <2>2, <3>8, <3>9 DEF Shape
    <2> QED BY <2>3, <2>4
  <1> QED BY <1>1, <1>2, <1>3, <1>4 DEF Encoder

\* A reader frees only a node that has left the list.
LEMMA ReadShape ==
  ASSUME LInv, NEW r \in Readers, Read(r)
  PROVE  Shape'
  <1> USE DEF info, writer, reader, flow
  <1>0. TypeOK /\ Shape BY DEF LInv
  <1>1. UNCHANGED <<list, pListHead, itemNum, tailId, seqNo>>
    BY Passes DEF Read, Lock, Miss, Wait, Skip, Newest, Unlock
  <1>2. ListWhole' BY <1>0, <1>1 DEF Shape, ListWhole, headId
  <1>3. Live' = Live \/ (\E g : g \notin tailId .. headId /\ Live' = Live \ {g})
    BY Passes DEF Read, Lock, Miss, Wait, Skip, Newest, Unlock, Live, Use, Free
  <1>4. seqNo \in Nat /\ tailId \in Nat BY <1>0 DEF TypeOK
  <1>5. tailId .. seqNo - 1 \subseteq tailId .. headId BY <1>4 DEF headId
  <1> QED BY <1>0, <1>1, <1>2, <1>3, <1>4, <1>5 DEF Shape

-----------------------------------------------------------------------------
(* The readers.                                                            *)

\* The encoder frees no node a reader is in.
LEMMA EncoderUsers ==
  ASSUME LInv, NeverEmpty, Source \/ Encoder
  PROVE  Users'
  <1> USE DEF info, writer, reader, flow
  <1>0. /\ TypeOK /\ ListWhole /\ Users /\ Live \subseteq 0 .. seqNo - 1 /\ seqNo \in Nat
    BY DEF LInv, TypeOK, Shape
  <1>1. UNCHANGED <<rpc, get>>
    BY DEF Source, Encode, Encoder, Room, DelTail, Add
  <1>2. \A n : Held(n)' = Held(n) BY <1>1 DEF Held
  <1>3. CASE UNCHANGED node BY <1>0, <1>1, <1>2, <1>3 DEF Users, Live
  <1>4. CASE DelTail /\ node' = Free(Head1)
    <2>1. list # <<>> /\ node[Head1].users <= 0
      <3>1. list # <<>> BY <1>4 DEF DelTail, NeverEmpty
      <3>2. node # Free(Head1)
        <4>1. Head1 \in Live BY <1>0, <3>1, FirstOff
        <4>2. DOMAIN Free(Head1) = Live \ {Head1} BY DEF Free
        <4> QED BY <4>1, <4>2 DEF Live
      <3> QED BY <1>4, <3>1, <3>2 DEF DelTail
    <2>2. Head1 \in Live /\ node[Head1] \in Nodes BY <1>0, <2>1, FirstOff
    <2>3. Held(Head1) = {}
      <3>1. Cardinality(Held(Head1)) = node[Head1].users
        BY <1>0, <2>2 DEF Users
      <3>2. Cardinality(Held(Head1)) \in Nat /\ IsFiniteSet(Held(Head1)) BY HeldFinite
      <3>3. node[Head1].users \in Int BY <2>2 DEF Nodes
      <3>4. Cardinality(Held(Head1)) = 0 BY <2>1, <3>1, <3>2, <3>3
      <3> QED BY <3>2, <3>4, FS_EmptySet
    <2>4. Live' = Live \ {Head1} /\ \A n \in Live' : node'[n] = node[n]
      BY <1>4 DEF Live, Free
    <2>5. ASSUME NEW r \in Readers, rpc[r] \in Using PROVE get[r] \in Live'
      <3>1. get[r] \in Live BY <1>0, <2>5 DEF Users
      <3>2. get[r] # Head1 BY <2>3, <2>5 DEF Held
      <3> QED BY <2>4, <3>1, <3>2
    <2>6. \A n \in Live' : node'[n].users = Cardinality(Held(n))
      BY <1>0, <2>4 DEF Users
    <2> QED BY <1>1, <1>2, <2>5, <2>6 DEF Users
  <1>5. CASE Add
    <2>1. Live' = Live \cup {seqNo} /\ \A n \in Live : node'[n] = node[n]
      BY <1>0, <1>5 DEF Add, Make, Live
    <2>2. node'[seqNo].users = 0 BY <1>5 DEF Add, Make
    <2>3. Held(seqNo) = {} BY <1>0 DEF Held, Users
    <2>4. Cardinality(Held(seqNo)) = 0 BY <2>3, FS_EmptySet
    <2>5. \A n \in Live' : node'[n].users = Cardinality(Held(n))
      BY <1>0, <2>1, <2>2, <2>4 DEF Users
    <2> QED BY <1>0, <1>1, <1>2, <2>1, <2>5 DEF Users
  <1> QED BY <1>3, <1>4, <1>5 DEF Source, Encode, Encoder, Room, DelTail, Add

\* A reader counts itself in, and frees a node only if it is the last in it.
LEMMA ReadUsers ==
  ASSUME LInv, NeverEmpty, NEW r \in Readers, Read(r)
  PROVE  Users'
  <1> USE DEF info, writer, reader, flow
  <1>0. /\ TypeOK /\ Users /\ Shape
        /\ rpc \in [Readers -> {"lock", "missed", "newest"} \cup Using]
    BY DEF LInv, TypeOK
  <1>g. get \in [Readers -> Nat \cup {NULL}] BY <1>0 DEF TypeOK
  <1>u. \A n \in Live : node[n].users \in Int BY <1>0 DEF TypeOK, Nodes
  <1>c. \A n : IsFiniteSet(Held(n)) /\ Cardinality(Held(n)) \in Nat BY HeldFinite
  <1>1. CASE Lock(r)
    <2>0. PICK k : k = recv[r] OBVIOUS
    <2>1. k \in Live BY <1>0, <1>1, <2>0 DEF Lock, Linked, TypeOK
    <2>2. Live' = Live /\ (\A n \in Live \ {k} : node'[n].users = node[n].users)
          /\ node'[k].users = node[k].users + 1
      <3>1. node \in [Live -> Nodes] /\ node' = Use(k, 1) BY <1>0, <1>1, <2>0 DEF TypeOK, Lock
      <3>2. node[k] \in Nodes BY <2>1, <3>1
      <3>3. [node[k] EXCEPT !.users = @ + 1].users = node[k].users + 1 BY <3>2 DEF Nodes
      <3>4. node' = [node EXCEPT ![k] = [node[k] EXCEPT !.users = @ + 1]] BY <3>1, <3>2 DEF Use
      <3> QED BY <2>1, <3>1, <3>3, <3>4 DEF Live
    <2>3. rpc' = [rpc EXCEPT ![r] = "held"] /\ get' = [get EXCEPT ![r] = k] /\ rpc[r] = "lock"
      BY <1>1, <2>0 DEF Lock
    <2>4. Held(k)' = Held(k) \cup {r} /\ r \notin Held(k) /\ \A n : n # k => Held(n)' = Held(n)
      BY <1>0, <1>g, <2>3 DEF Held, Using
    <2>5. Cardinality(Held(k)') = Cardinality(Held(k)) + 1 BY <1>c, <2>4, OneMore
    <2>6. \A n \in Live' : (node[n].users = Cardinality(Held(n)))'
      <3>1. \A n \in Live \ {k} : (node[n].users = Cardinality(Held(n)))'
        BY <1>0, <2>2, <2>4 DEF Users
      <3>2. node[k].users = Cardinality(Held(k)) BY <1>0, <2>1 DEF Users
      <3>3. (node[k].users)' = Cardinality(Held(k)') BY <2>2, <2>5, <3>2
      <3> QED BY <2>2, <3>1, <3>3
    <2>7. \A q \in Readers : rpc'[q] \in Using => get'[q] \in Live'
      BY <1>0, <1>g, <2>1, <2>2, <2>3 DEF Users, Using
    <2> QED BY <2>6, <2>7 DEF Users
  <1>2. CASE Miss(r) \/ Wait(r) \/ Skip(r) \/ Newest(r)
    <2>1. UNCHANGED <<node, get>> /\ rpc[r] \notin Using /\ (\A q \in Readers \ {r} : rpc'[q] = rpc[q])
          /\ rpc'[r] \notin Using
      BY <1>0, <1>2 DEF Miss, Wait, Skip, Newest, Using
    <2>2. \A n : Held(n)' = Held(n) BY <2>1 DEF Held
    <2> QED BY <1>0, <2>1, <2>2 DEF Users, Live
  <1>3. CASE Unlock(r)
    <2>0. PICK g : g = get[r] OBVIOUS
    <2>1. g \in Live /\ list # <<>>
      <3>1. g \in Live BY <1>0, <1>3, <2>0 DEF Unlock, Users, Using
      <3>2. seqNo > 0 BY <1>0, <3>1 DEF Shape, TypeOK
      <3> QED BY <3>1, <3>2 DEF NeverEmpty
    <2>2. rpc' = [rpc EXCEPT ![r] = "lock"] /\ rpc[r] \in Using BY <1>3 DEF Unlock, Using
    <2>3. (\A q \in Readers \ {r} : rpc'[q] = rpc[q]) /\ rpc'[r] = "lock" BY <1>0, <2>2
    <2>4. r \in Held(g) BY <2>0, <2>2 DEF Held
    <2>5. Cardinality(Held(g) \ {r}) = Cardinality(Held(g)) - 1 BY <1>c, <2>4, OneLess
    <2>6. node[g].users \in Int /\ node[g].users = Cardinality(Held(g))
      BY <1>0, <1>u, <2>1 DEF Users
    <2>7. CASE node' = Use(g, -1) /\ UNCHANGED get
      <3>1. Held(g)' = Held(g) \ {r} /\ \A n : n # g => Held(n)' = Held(n)
        BY <2>0, <2>3, <2>7 DEF Held, Using
      <3>2. Live' = Live /\ (\A n \in Live \ {g} : node'[n].users = node[n].users)
            /\ node'[g].users = node[g].users - 1
        <4>1. node \in [Live -> Nodes] BY <1>0 DEF TypeOK
        <4>2. node[g] \in Nodes BY <2>1, <4>1
        <4>3. [node[g] EXCEPT !.users = @ + (-1)].users = node[g].users - 1 BY <4>2 DEF Nodes
        <4>4. node' = [node EXCEPT ![g] = [node[g] EXCEPT !.users = @ + (-1)]]
          BY <2>7, <4>1, <4>2 DEF Use
        <4> QED BY <2>1, <4>1, <4>3, <4>4 DEF Live
      <3>3. \A n \in Live' : (node[n].users = Cardinality(Held(n)))'
        <4>1. \A n \in Live \ {g} : (node[n].users = Cardinality(Held(n)))'
          BY <1>0, <3>1, <3>2 DEF Users
        <4>2. (node[g].users)' = Cardinality(Held(g)')
          BY <1>c, <2>5, <2>6, <3>1, <3>2
        <4> QED BY <3>2, <4>1, <4>2, <2>7
      <3>4. \A q \in Readers : rpc'[q] \in Using => get'[q] \in Live'
        BY <1>0, <2>3, <2>7, <3>2 DEF Users, Using
      <3> QED BY <3>3, <3>4 DEF Users
    <2>8. CASE node[g].users <= 1 /\ node' = Free(g) /\ get' = [get EXCEPT ![r] = NULL]
      <3>1. Held(g) \ {r} = {}
        <4>1. Cardinality(Held(g) \ {r}) <= 0 BY <1>c, <2>5, <2>6, <2>8
        <4>2. IsFiniteSet(Held(g) \ {r}) BY <1>c, FS_Subset
        <4>3. Cardinality(Held(g) \ {r}) = 0 BY <4>1, <4>2, FS_CardinalityType
        <4> QED BY <4>2, <4>3, FS_EmptySet
      <3>2. Live' = Live \ {g} /\ \A n \in Live' : node'[n] = node[n]
        BY <2>8 DEF Live, Free
      <3>3. \A n : n # g => Held(n)' = Held(n)
        <4>1. \A q \in Readers \ {r} : get'[q] = get[q] BY <1>g, <2>8
        <4> QED BY <2>0, <2>3, <4>1 DEF Held, Using
      <3>4. \A n \in Live' : (node[n].users = Cardinality(Held(n)))'
        BY <1>0, <3>2, <3>3 DEF Users
      <3>5. ASSUME NEW q \in Readers, rpc'[q] \in Using PROVE get'[q] \in Live'
        <4>1. q # r /\ rpc[q] \in Using /\ get'[q] = get[q]
          BY <1>g, <2>3, <2>8, <3>5 DEF Using
        <4>2. get[q] # g BY <3>1, <4>1 DEF Held
        <4>3. get[q] \in Live BY <1>0, <4>1 DEF Users
        <4> QED BY <3>2, <4>1, <4>2, <4>3
      <3> QED BY <3>4, <3>5 DEF Users
    <2> QED BY <1>3, <2>0, <2>1, <2>7, <2>8 DEF Unlock
  <1>4. CASE Drop(r) \/ Look(r) \/ Test(r) \/ Send(r)
    <2>1. PICK x \in Using : rpc' = [rpc EXCEPT ![r] = x] BY <1>4, Passes
    <2>2. UNCHANGED <<node, get>> /\ rpc[r] \in Using BY <1>4, Passes
    <2>3. \A q \in Readers : rpc'[q] \in Using <=> rpc[q] \in Using BY <1>0, <2>1, <2>2
    <2>4. \A n : Held(n)' = Held(n) BY <2>2, <2>3 DEF Held
    <2> QED BY <1>0, <2>2, <2>3, <2>4 DEF Users, Live
  <1> QED BY <1>1, <1>2, <1>3, <1>4 DEF Read

-----------------------------------------------------------------------------
(* What the nodes hold.                                                    *)

\* The data of the nodes of S in the list g.
Bytes(g, S) == {d \in S \X (1 .. MaxLen) : d[2] <= g[d[1]].len}

\* It is a finite set, and only the lengths matter.
LEMMA BytesFinite ==
  ASSUME NEW g, NEW S, IsFiniteSet(S)
  PROVE  /\ IsFiniteSet(Bytes(g, S)) /\ Cardinality(Bytes(g, S)) \in Nat
         /\ Cardinality(Bytes(g, S)) <= Cardinality(S) * MaxLen
  <1>1. /\ IsFiniteSet(1 .. MaxLen) /\ Cardinality(1 .. MaxLen) = MaxLen
    BY FS_Interval, ListAssumption
  <1>2. IsFiniteSet(S \X (1 .. MaxLen))
        /\ Cardinality(S \X (1 .. MaxLen)) = Cardinality(S) * MaxLen
    BY <1>1, FS_Product
  <1>3. Bytes(g, S) \subseteq S \X (1 .. MaxLen) BY DEF Bytes
  <1>4. IsFiniteSet(Bytes(g, S))
        /\ Cardinality(Bytes(g, S)) <= Cardinality(S \X (1 .. MaxLen))
    BY <1>2, <1>3, FS_Subset
  <1> QED BY <1>2, <1>4, FS_CardinalityType

LEMMA BytesSame ==
  ASSUME NEW g, NEW h, NEW S, \A n \in S : g[n].len = h[n].len
  PROVE  Bytes(g, S) = Bytes(h, S)
  BY DEF Bytes

\* The data of one node.
LEMMA BytesOfOne ==
  ASSUME NEW n, NEW l \in Nat
  PROVE  IsFiniteSet({n} \X (1 .. l)) /\ Cardinality({n} \X (1 .. l)) = l
  <1>1. IsFiniteSet({n}) /\ Cardinality({n}) = 1 BY FS_Singleton
  <1>2. IsFiniteSet(1 .. l) /\ Cardinality(1 .. l) = l
    <2>1. 1 \in Int /\ l \in Int OBVIOUS
    <2>2. IsFiniteSet(1 .. l) /\ Cardinality(1 .. l) = IF 1 > l THEN 0 ELSE l - 1 + 1
      BY <2>1, FS_Interval
    <2> QED BY <2>2
  <1>3. IsFiniteSet({n} \X (1 .. l))
        /\ Cardinality({n} \X (1 .. l)) = Cardinality({n}) * Cardinality(1 .. l)
    BY <1>1, <1>2, FS_Product
  <1> QED BY <1>1, <1>2, <1>3

\* A node more is its length more.
LEMMA BytesMore ==
  ASSUME NEW g, NEW S, NEW n, IsFiniteSet(S), n \notin S, g[n].len \in 1 .. MaxLen
  PROVE  Cardinality(Bytes(g, S \cup {n})) = Cardinality(Bytes(g, S)) + g[n].len
  <1>l. PICK l : l = g[n].len OBVIOUS
  <1>0. l \in Nat /\ l <= MaxLen /\ MaxLen \in Nat BY <1>l, ListAssumption
  <1>d. PICK D : D = {n} \X (1 .. l) OBVIOUS
  <1>3. IsFiniteSet(D) /\ Cardinality(D) = l BY <1>0, <1>d, BytesOfOne
  <1>4. Bytes(g, S \cup {n}) = Bytes(g, S) \cup D
    <2>1. ASSUME NEW d \in Bytes(g, S \cup {n}) PROVE d \in Bytes(g, S) \cup D
      <3>1. PICK m \in S \cup {n}, b \in 1 .. MaxLen : d = <<m, b>> /\ b <= g[m].len
        BY <2>1 DEF Bytes
      <3>2. CASE m \in S BY <3>1, <3>2 DEF Bytes
      <3>3. CASE m = n
        <4>1. b \in 1 .. l BY <1>0, <1>l, <3>1, <3>3
        <4> QED BY <1>d, <3>1, <3>3, <4>1
      <3> QED BY <3>1, <3>2, <3>3
    <2>2. ASSUME NEW d \in D PROVE d \in Bytes(g, S \cup {n})
      <3>1. PICK b \in 1 .. l : d = <<n, b>> BY <1>d, <2>2
      <3>2. b \in 1 .. MaxLen /\ b <= g[n].len BY <1>0, <1>l, <3>1
      <3> QED BY <3>1, <3>2 DEF Bytes
    <2>3. Bytes(g, S) \subseteq Bytes(g, S \cup {n}) BY DEF Bytes
    <2> QED BY <2>1, <2>2, <2>3
  <1>5. Bytes(g, S) \cap D = {} BY <1>d DEF Bytes
  <1>6. IsFiniteSet(Bytes(g, S)) /\ Cardinality(Bytes(g, S)) \in Nat BY BytesFinite
  <1>7. Cardinality(Bytes(g, S) \cup D)
          = Cardinality(Bytes(g, S)) + Cardinality(D) - Cardinality(Bytes(g, S) \cap D)
    BY <1>3, <1>6, FS_Union
  <1>8. Cardinality(Bytes(g, S) \cap D) = 0 BY <1>5, FS_EmptySet
  <1>9. ASSUME NEW a \in Nat, NEW b \in Nat, NEW c, c = 0 PROVE a + b - c = a + b
    BY <1>9
  <1>x. Cardinality(Bytes(g, S) \cup D) = Cardinality(Bytes(g, S)) + l
    BY <1>0, <1>3, <1>6, <1>7, <1>8, <1>9
  <1> QED BY <1>l, <1>4, <1>x

\* A node less is its length less.
LEMMA BytesLess ==
  ASSUME NEW g, NEW S, NEW n \in S, IsFiniteSet(S), g[n].len \in 1 .. MaxLen
  PROVE  Cardinality(Bytes(g, S \ {n})) = Cardinality(Bytes(g, S)) - g[n].len
  <1>1. IsFiniteSet(S \ {n}) BY FS_RemoveElement
  <1>2. (S \ {n}) \cup {n} = S OBVIOUS
  <1>3. Cardinality(Bytes(g, S)) = Cardinality(Bytes(g, S \ {n})) + g[n].len
    BY <1>1, <1>2, BytesMore
  <1>4. Cardinality(Bytes(g, S \ {n})) \in Nat /\ g[n].len \in Nat
    BY <1>1, BytesFinite, ListAssumption
  <1> QED BY <1>3, <1>4

\* The nodes that are allocated are finitely many, and have lengths.
LEMMA LiveFinite ==
  ASSUME TypeOK, Shape
  PROVE  /\ IsFiniteSet(Live) /\ IsFiniteSet(Live \ Linked)
         /\ \A n \in Live : node[n].len \in 1 .. MaxLen
  <1>1. seqNo - 1 \in Int /\ 0 \in Int BY DEF TypeOK
  <1>2. IsFiniteSet(0 .. seqNo - 1) BY <1>1, FS_Interval
  <1>3. IsFiniteSet(Live) BY <1>2, FS_Subset DEF Shape
  <1>4. \A n \in Live : node[n].len \in 1 .. MaxLen BY DEF TypeOK, Nodes
  <1> QED BY <1>3, <1>4, FS_Difference

\* The state after a step, too.
LEMMA LinkedNext == (TypeOK /\ ListWhole => Linked = tailId .. seqNo - 1)'
  <1>1. TypeOK /\ ListWhole => Linked = tailId .. seqNo - 1 BY LinkedRange
  <1> QED BY <1>1, PTL

\* Both sizes in terms of Bytes.
LEMMA SizesNow ==
  SizesAccounted <=> /\ allSize = Cardinality(Bytes(node, Live))
                     /\ notFree = Cardinality(Bytes(node, Live \ Linked))
  BY DEF SizesAccounted, Data, Bytes

LEMMA SizesNext ==
  SizesAccounted' <=> /\ allSize' = Cardinality(Bytes(node', Live'))
                      /\ notFree' = Cardinality(Bytes(node', Live' \ Linked'))
  BY DEF SizesAccounted, Data, Bytes

\* Dropping a node takes its length off the size, or moves it to what is not
\* free; adding one adds its length.
LEMMA EncoderSizes ==
  ASSUME LInv, NeverEmpty, SizesAccounted, Source \/ Encoder
  PROVE  SizesAccounted'
  <1> USE DEF info, writer, reader, flow
  <1>0. /\ TypeOK /\ ListWhole /\ Shape /\ Linked = tailId .. seqNo - 1
        /\ tailId \in Nat /\ seqNo \in Nat
    BY LinkedRange DEF LInv, Shape, TypeOK
  <1>n. TypeOK' /\ Shape' BY EncoderTypes, EncoderShape
  <1>l. Linked' = tailId' .. seqNo' - 1 BY <1>n, LinkedNext DEF Shape
  <1>f. /\ IsFiniteSet(Live) /\ IsFiniteSet(Live \ Linked)
        /\ \A n \in Live : node[n].len \in 1 .. MaxLen
    BY <1>0, LiveFinite
  <1>1. CASE Source \/ Room
    BY <1>1, SizesNow, SizesNext DEF Source, Encode, Room, Live, Linked
  <1>2. CASE DelTail
    <2>1. list # <<>> BY <1>2 DEF DelTail, NeverEmpty
    <2>2. PICK h : h = Head1 OBVIOUS
    <2>3. h = tailId /\ h \in Live BY <1>0, <2>1, <2>2, FirstOff
    <2>4. tailId' = tailId + 1 /\ seqNo' = seqNo BY <1>2 DEF DelTail
    <2>5. h \in Linked /\ Linked' = Linked \ {h}
      <3>1. Len(list) \in Nat \ {0} BY <1>0, <2>1 DEF TypeOK
      <3>2. tailId < seqNo BY <1>0, <3>1 DEF ListWhole
      <3> QED BY <1>0, <1>l, <2>3, <2>4, <3>2
    <2>6. CASE /\ node' = Free(h) /\ allSize' = allSize - node[h].len
               /\ UNCHANGED notFree
      <3>1. Live' = Live \ {h} /\ \A n \in Live' : node'[n].len = node[n].len
        BY <2>6 DEF Live, Free
      <3>2. Live' \ Linked' = Live \ Linked BY <2>5, <3>1
      <3>3. /\ Bytes(node', Live') = Bytes(node, Live \ {h})
            /\ Bytes(node', Live' \ Linked') = Bytes(node, Live \ Linked)
        <4>1. \A n \in Live \ Linked : node'[n].len = node[n].len BY <3>1, <3>2
        <4> QED BY <3>1, <3>2, <4>1, BytesSame
      <3>4. Cardinality(Bytes(node, Live \ {h})) = Cardinality(Bytes(node, Live)) - node[h].len
        BY <1>f, <2>3, BytesLess
      <3> QED BY <2>6, <3>3, <3>4, SizesNow, SizesNext
    <2>7. CASE /\ UNCHANGED <<node, allSize>> /\ notFree' = notFree + node[h].len
      <3>1. Live' = Live BY <2>7 DEF Live
      <3>2. Live' \ Linked' = (Live \ Linked) \cup {h} /\ h \notin Live \ Linked
        BY <2>3, <2>5, <3>1
      <3>3. Cardinality(Bytes(node, (Live \ Linked) \cup {h}))
              = Cardinality(Bytes(node, Live \ Linked)) + node[h].len
        BY <1>f, <2>3, <3>2, BytesMore
      <3> QED BY <2>7, <3>1, <3>2, <3>3, SizesNow, SizesNext
    <2> QED BY <1>2, <2>1, <2>2, <2>6, <2>7 DEF DelTail
  <1>3. CASE Add
    <2>1. /\ Live' = Live \cup {seqNo} /\ seqNo' = seqNo + 1 /\ tailId' = tailId
          /\ node'[seqNo].len = frame.len /\ frame.len \in 1 .. MaxLen
          /\ allSize' = allSize + frame.len /\ notFree' = notFree
      BY <1>0, <1>3 DEF Add, Make, Live, TypeOK, Frames
    <2>2. seqNo \notin Live BY <1>0 DEF Shape
    <2>3. \A n \in Live : node'[n].len = node[n].len
      BY <1>3, <2>2 DEF Add, Make, Live
    <2>4. Live' \ Linked' = Live \ Linked
      <3>1. tailId <= seqNo
        <4>1. Len(list) \in Nat BY <1>0 DEF TypeOK
        <4> QED BY <1>0, <4>1 DEF ListWhole
      <3>2. Linked' = Linked \cup {seqNo} BY <1>0, <1>l, <2>1, <3>1
      <3> QED BY <2>1, <2>2, <3>2
    <2>5. /\ Bytes(node', Live) = Bytes(node, Live)
          /\ Bytes(node', Live' \ Linked') = Bytes(node, Live \ Linked)
      BY <2>3, <2>4, BytesSame
    <2>6. Cardinality(Bytes(node', Live \cup {seqNo}))
            = Cardinality(Bytes(node', Live)) + frame.len
      <3>1. node'[seqNo].len \in 1 .. MaxLen BY <2>1
      <3>2. Cardinality(Bytes(node', Live \cup {seqNo}))
              = Cardinality(Bytes(node', Live)) + node'[seqNo].len
        BY <1>f, <2>2, <3>1, BytesMore
      <3> QED BY <2>1, <3>2
    <2> QED BY <2>1, <2>5, <2>6, SizesNow, SizesNext
  <1> QED BY <1>1, <1>2, <1>3 DEF Encoder

\* Only the last reader of a node off the list changes the sizes, by freeing it.
LEMMA ReadSizes ==
  ASSUME LInv, NeverEmpty, SizesAccounted, NEW r \in Readers, Read(r)
  PROVE  SizesAccounted'
  <1> USE DEF info, writer, reader, flow
  <1>0. /\ TypeOK /\ ListWhole /\ Shape /\ Linked = tailId .. seqNo - 1 /\ seqNo \in Nat
    BY LinkedRange DEF LInv, Shape, TypeOK
  <1>f. /\ IsFiniteSet(Live) /\ IsFiniteSet(Live \ Linked)
        /\ \A n \in Live : node[n].len \in 1 .. MaxLen
    BY <1>0, LiveFinite
  <1>l. Linked' = Linked BY Passes DEF Read, Lock, Miss, Wait, Skip, Newest, Unlock, Linked
  <1>1. ASSUME NEW n, NEW k, node' = Use(n, k), UNCHANGED <<allSize, notFree>>
        PROVE  SizesAccounted'
    <2>1. Live' = Live /\ \A m \in Live : node'[m].len = node[m].len
      BY <1>0, <1>1 DEF Use, Live, TypeOK, Nodes
    <2>2. /\ Bytes(node', Live') = Bytes(node, Live)
          /\ Bytes(node', Live' \ Linked') = Bytes(node, Live \ Linked)
      BY <1>l, <2>1, BytesSame
    <2> QED BY <1>1, <2>2, SizesNow, SizesNext
  <1>2. CASE Lock(r) BY <1>1, <1>2 DEF Lock
  <1>3. CASE Miss(r) \/ Wait(r) \/ Skip(r) \/ Newest(r)
    BY <1>3, <1>l, SizesNow, SizesNext DEF Miss, Wait, Skip, Newest, Live
  <1>4. CASE Unlock(r)
    <2>1. PICK g : g = get[r] OBVIOUS
    <2>2. g \in Live BY <1>4, <2>1 DEF Unlock, LInv, Users, Using
    <2>3. CASE UNCHANGED <<node, allSize, notFree>>
      BY <1>l, <2>3, SizesNow, SizesNext DEF Live
    <2>4. CASE node' = Use(g, -1) /\ UNCHANGED <<allSize, notFree>> BY <1>1, <2>4
    <2>5. CASE /\ g \notin tailId .. headId /\ node' = Free(g)
               /\ allSize' = allSize - node[g].len /\ notFree' = notFree - node[g].len
      <3>1. Live' = Live \ {g} /\ \A n \in Live' : node'[n].len = node[n].len
        BY <2>5 DEF Live, Free
      <3>2. g \notin Linked BY <1>0, <2>5 DEF headId
      <3>3. g \in Live \ Linked /\ Live' \ Linked' = (Live \ Linked) \ {g}
        BY <1>l, <2>2, <3>1, <3>2
      <3>4. /\ Bytes(node', Live') = Bytes(node, Live \ {g})
            /\ Bytes(node', Live' \ Linked') = Bytes(node, (Live \ Linked) \ {g})
        BY <3>1, <3>3, BytesSame
      <3>5. Cardinality(Bytes(node, Live \ {g})) = Cardinality(Bytes(node, Live)) - node[g].len
        BY <1>f, <2>2, BytesLess
      <3>6. Cardinality(Bytes(node, (Live \ Linked) \ {g}))
              = Cardinality(Bytes(node, Live \ Linked)) - node[g].len
        BY <1>f, <3>3, BytesLess
      <3> QED BY <2>5, <3>4, <3>5, <3>6, SizesNow, SizesNext
    <2> QED BY <1>4, <2>1, <2>3, <2>4, <2>5 DEF Unlock
  <1>5. CASE Drop(r) \/ Look(r) \/ Test(r) \/ Send(r)
    BY <1>5, <1>l, Passes, SizesNow, SizesNext DEF Live
  <1> QED BY <1>2, <1>3, <1>4, <1>5 DEF Read

-----------------------------------------------------------------------------
(* What readers hold.                                                      *)

\* A node that has left the list is allocated only for a reader inside it.
OffUsed == \A n \in Live \ Linked : Held(n) # {}

\* The encoder takes a node off the list that nobody is in only by freeing it.
LEMMA EncoderOff ==
  ASSUME LInv, NeverEmpty, OffUsed, Source \/ Encoder
  PROVE  OffUsed'
  <1> USE DEF info, writer, reader, flow
  <1>0. /\ TypeOK /\ ListWhole /\ Users /\ Shape /\ Linked = tailId .. seqNo - 1
        /\ tailId \in Nat /\ seqNo \in Nat /\ seqNo = tailId + Len(list) /\ Len(list) \in Nat
    BY LinkedRange DEF LInv, Shape, TypeOK, ListWhole
  <1>n. TypeOK' /\ Shape' BY EncoderTypes, EncoderShape
  <1>l. Linked' = tailId' .. seqNo' - 1 BY <1>n, LinkedNext DEF Shape
  <1>h. \A n : Held(n)' = Held(n)
    BY DEF Source, Encode, Encoder, Room, DelTail, Add, Held
  <1>1. CASE Source \/ Room
    BY <1>1, <1>h DEF Source, Encode, Room, OffUsed, Live, Linked
  <1>2. CASE DelTail
    <2>1. list # <<>> BY <1>2 DEF DelTail, NeverEmpty
    <2>2. PICK h : h = Head1 OBVIOUS
    <2>3. h = tailId /\ h \in Live BY <1>0, <2>1, <2>2, FirstOff
    <2>4. tailId' = tailId + 1 /\ seqNo' = seqNo BY <1>2 DEF DelTail
    <2>5. Linked' = Linked \ {h} BY <1>0, <1>l, <2>3, <2>4
    <2>6. CASE node' = Free(h)
      <3>1. Live' = Live \ {h} BY <2>6 DEF Live, Free
      <3>2. Live' \ Linked' \subseteq Live \ Linked BY <2>5, <3>1
      <3> QED BY <1>h, <3>2 DEF OffUsed
    <2>7. CASE UNCHANGED node /\ node[h].users > 0
      <3>1. Live' \ Linked' \subseteq (Live \ Linked) \cup {h} BY <2>5, <2>7 DEF Live
      <3>2. Cardinality(Held(h)) > 0 BY <1>0, <2>3, <2>7 DEF Users
      <3>3. Held(h) # {} BY <3>2, FS_EmptySet
      <3> QED BY <1>h, <3>1, <3>3 DEF OffUsed
    <2> QED BY <1>2, <2>1, <2>2, <2>6, <2>7 DEF DelTail
  <1>3. CASE Add
    <2>1. Live' = Live \cup {seqNo} /\ seqNo' = seqNo + 1 /\ tailId' = tailId
      BY <1>3 DEF Add, Make, Live
    <2>2. Linked' = Linked \cup {seqNo} BY <1>0, <1>l, <2>1
    <2>3. Live' \ Linked' \subseteq Live \ Linked BY <2>1, <2>2
    <2> QED BY <1>h, <2>3 DEF OffUsed
  <1> QED BY <1>1, <1>2, <1>3 DEF Encoder

\* The last reader of a node off the list frees it.
LEMMA ReadOff ==
  ASSUME LInv, NeverEmpty, OffUsed, NEW r \in Readers, Read(r)
  PROVE  OffUsed'
  <1> USE DEF info, writer, reader, flow
  <1>0. /\ TypeOK /\ ListWhole /\ Users /\ Linked = tailId .. seqNo - 1 /\ seqNo \in Nat
        /\ rpc \in [Readers -> {"lock", "missed", "newest"} \cup Using]
        /\ get \in [Readers -> Nat \cup {NULL}]
    BY LinkedRange DEF LInv, Shape, TypeOK
  <1>l. Linked' = Linked BY Passes DEF Read, Lock, Miss, Wait, Skip, Newest, Unlock, Linked
  <1>1. CASE Lock(r)
    <2>1. Live' = Live BY <1>1 DEF Lock, Live, Use
    <2>2. \A n : Held(n) \subseteq Held(n)'
      BY <1>0, <1>1 DEF Lock, Held, Using
    <2> QED BY <1>l, <2>1, <2>2 DEF OffUsed
  <1>2. CASE Miss(r) \/ Wait(r) \/ Skip(r) \/ Newest(r)
    <2>1. UNCHANGED <<node, get>> /\ rpc[r] \notin Using /\ (\A q \in Readers \ {r} : rpc'[q] = rpc[q])
          /\ rpc'[r] \notin Using
      BY <1>0, <1>2 DEF Miss, Wait, Skip, Newest, Using
    <2>2. \A n : Held(n)' = Held(n) BY <2>1 DEF Held
    <2> QED BY <1>l, <2>1, <2>2 DEF OffUsed, Live
  <1>3. CASE Unlock(r)
    <2>0. PICK g : g = get[r] OBVIOUS
    <2>1. g \in Live /\ list # <<>> /\ seqNo > 0
      <3>1. g \in Live BY <1>0, <1>3, <2>0 DEF Unlock, Users, Using
      <3>2. seqNo > 0 BY <1>0, <3>1 DEF LInv, Shape, TypeOK
      <3> QED BY <3>1, <3>2 DEF NeverEmpty
    <2>2. rpc' = [rpc EXCEPT ![r] = "lock"] /\ rpc[r] \in Using BY <1>3 DEF Unlock, Using
    <2>3. (\A q \in Readers \ {r} : rpc'[q] = rpc[q]) /\ rpc'[r] = "lock" BY <1>0, <2>2
    <2>4. r \in Held(g) BY <2>0, <2>2 DEF Held
    <2>5. \A q \in Readers \ {r} : get'[q] = get[q] BY <1>0, <1>3 DEF Unlock
    <2>6. \A n : n # g => Held(n)' = Held(n) BY <2>0, <2>3, <2>5 DEF Held, Using
    <2>7. Held(g)' = Held(g) \ {r} BY <2>0, <2>3, <2>5 DEF Held, Using
    <2>8. CASE node' = Use(g, -1) /\ g \in tailId .. headId
      <3>1. Live' = Live BY <2>8 DEF Live, Use
      <3>2. g \in Linked BY <1>0, <2>1, <2>8 DEF headId
      <3> QED BY <1>l, <2>6, <3>1, <3>2 DEF OffUsed
    <2>9. CASE node' = Use(g, -1) /\ node[g].users > 1
      <3>1. Live' = Live BY <2>9 DEF Live, Use
      <3>2. Cardinality(Held(g)) > 1 /\ Cardinality(Held(g)) \in Nat
        BY <1>0, <2>1, <2>9, HeldFinite DEF Users
      <3>3. Cardinality(Held(g)') = Cardinality(Held(g)) - 1
        BY <2>4, <2>7, HeldFinite, OneLess
      <3>4. Held(g)' # {} BY <3>2, <3>3, FS_EmptySet
      <3> QED BY <1>l, <2>6, <3>1, <3>4 DEF OffUsed
    <2>10. CASE node' = Free(g)
      <3>1. Live' = Live \ {g} BY <2>10 DEF Live, Free
      <3> QED BY <1>l, <2>6, <3>1 DEF OffUsed
    <2> QED BY <1>3, <2>0, <2>1, <2>8, <2>9, <2>10 DEF Unlock
  <1>4. CASE Drop(r) \/ Look(r) \/ Test(r) \/ Send(r)
    <2>1. PICK x \in Using : rpc' = [rpc EXCEPT ![r] = x] BY <1>4, Passes
    <2>2. UNCHANGED <<node, get>> /\ rpc[r] \in Using BY <1>4, Passes
    <2>3. \A q \in Readers : rpc'[q] \in Using <=> rpc[q] \in Using BY <1>0, <2>1, <2>2
    <2>4. \A n : Held(n)' = Held(n) BY <2>2, <2>3 DEF Held
    <2> QED BY <1>l, <2>2, <2>4 DEF OffUsed, Live
  <1> QED BY <1>1, <1>2, <1>3, <1>4 DEF Read

-----------------------------------------------------------------------------
(* What readers ask for.                                                   *)

\* No reader is more than one frame ahead of head_id, and one that is about to
\* go to the newest frame is behind it.
Behind ==
  \A r \in Readers : recv[r] <= seqNo /\ (rpc[r] = "newest" => recv[r] < headId)

LEMMA BehindStep ==
  ASSUME LInv, Behind, Next
  PROVE  Behind'
  <1> USE DEF info, writer, reader, flow
  <1>0. /\ TypeOK /\ ListWhole /\ Shape /\ seqNo \in Nat /\ headId \in Nat /\ headId <= seqNo
        /\ recv \in [Readers -> Nat]
        /\ rpc \in [Readers -> {"lock", "missed", "newest"} \cup Using]
        /\ Linked = tailId .. seqNo - 1
    BY LinkedRange DEF LInv, Shape, TypeOK, headId
  <1>1. CASE Source \/ Encoder
    <2>1. (seqNo' = seqNo \/ seqNo' = seqNo + 1) /\ UNCHANGED <<recv, rpc>>
      BY <1>1 DEF Source, Encode, Encoder, Room, DelTail, Add
    <2>2. headId' >= headId /\ headId' \in Nat BY <1>0, <2>1 DEF headId
    <2> QED BY <1>0, <2>1, <2>2 DEF Behind
  <1>2. ASSUME NEW r \in Readers, Read(r) PROVE Behind'
    <2>1. seqNo' = seqNo /\ headId' = headId
      BY <1>2, Passes DEF Read, Lock, Miss, Wait, Skip, Newest, Unlock, headId
    <2>2. \A q \in Readers \ {r} : recv'[q] = recv[q] /\ rpc'[q] = rpc[q]
      BY <1>0, <1>2, Passes DEF Read, Lock, Miss, Wait, Skip, Newest, Unlock
    <2>3. recv'[r] <= seqNo /\ (rpc'[r] = "newest" => recv'[r] < headId)
      <3>1. CASE Lock(r)
        <4>1. recv[r] \in Linked /\ recv' = [recv EXCEPT ![r] = recv[r] + 1] /\ rpc'[r] = "held"
          BY <1>0, <3>1 DEF Lock
        <4> QED BY <1>0, <4>1
      <3>2. CASE Miss(r)
        <4>1. recv' = recv /\ rpc'[r] = "missed" BY <1>0, <3>2 DEF Miss
        <4> QED BY <4>1 DEF Behind
      <3>3. CASE Wait(r)
        <4>1. recv'[r] \in {recv[r], headId} /\ rpc'[r] = "lock" BY <1>0, <3>3 DEF Wait
        <4> QED BY <1>0, <4>1 DEF Behind
      <3>4. CASE Skip(r) /\ UNCHANGED recv
        <4>1. recv[r] < headId BY <3>4 DEF Skip
        <4> QED BY <3>4, <4>1 DEF Behind
      <3>5. ASSUME Skip(r), NEW i \in 2 .. Len(list), recv' = [recv EXCEPT ![r] = list[i]],
                   rpc'[r] = "lock"
            PROVE  recv'[r] <= seqNo /\ (rpc'[r] = "newest" => recv'[r] < headId)
        <4>1. list[i] \in Linked
          <5>1. Len(list) \in Nat BY <1>0 DEF TypeOK
          <5>2. i \in 1 .. Len(list) BY <5>1
          <5> QED BY <5>2 DEF Linked
        <4> QED BY <1>0, <3>5, <4>1
      <3>6. CASE Newest(r)
        <4>1. recv'[r] = headId /\ rpc'[r] = "lock" BY <1>0, <3>6 DEF Newest
        <4> QED BY <1>0, <4>1
      <3>7. CASE Unlock(r)
        <4>1. recv' = recv /\ rpc'[r] = "lock" BY <1>0, <3>7 DEF Unlock
        <4> QED BY <4>1 DEF Behind
      <3>8. CASE Skip(r)
        <4>1. ASSUME rpc' = [rpc EXCEPT ![r] = "lock"] PROVE rpc'[r] = "lock" BY <1>0, <4>1
        <4> QED BY <3>4, <3>5, <3>8, <4>1 DEF Skip
      <3>9. CASE Drop(r) \/ Look(r) \/ Test(r) \/ Send(r)
        <4>1. recv' = recv /\ rpc'[r] \in Using BY <1>0, <3>9, Passes
        <4> QED BY <4>1 DEF Behind, Using
      <3> QED BY <1>2, <3>1, <3>2, <3>3, <3>6, <3>7, <3>8, <3>9 DEF Read
    <2> QED BY <2>1, <2>2, <2>3 DEF Behind
  <1> QED BY <1>1, <1>2 DEF Next

-----------------------------------------------------------------------------
(* Room.                                                                   *)

\* The limits of the list leave room for one frame besides those the readers
\* hold, and for two nodes.
RoomForReaders == (Cardinality(Readers) + 1) * MaxLen < MaxSize /\ MaxNum > 3

\* The encoder does not empty the list.
Kept ==
  /\ seqNo > 0 => list # <<>>
  /\ wpc = "del" => Len(list) >= 2

\* The nodes off the list are not more than the readers.
LEMMA OffBound ==
  ASSUME LInv, OffUsed
  PROVE  \E G : /\ Live \ Linked \subseteq G /\ IsFiniteSet(G)
                /\ Cardinality(G) <= Cardinality(Readers)
  <1>1. get \in [Readers -> Nat \cup {NULL}] BY DEF LInv, TypeOK
  <1>2. PICK G : G = {get[r] : r \in Readers} OBVIOUS
  <1>3. get \in Surjection(Readers, G) BY <1>1, <1>2 DEF Surjection
  <1>4. IsFiniteSet(G) /\ Cardinality(G) <= Cardinality(Readers)
    BY <1>3, ListAssumption, FS_Surjection
  <1>5. Live \ Linked \subseteq G BY <1>2 DEF OffUsed, Held
  <1> QED BY <1>4, <1>5

\* With at most one frame on the list there is room for another.
LEMMA RoomWhenShort ==
  ASSUME LInv, OffUsed, SizesAccounted, RoomForReaders, Len(list) < 2
  PROVE  EnableAdd
  <1>0. /\ TypeOK /\ ListWhole /\ Shape /\ Linked = tailId .. seqNo - 1 /\ tailId \in Nat
        /\ seqNo = tailId + Len(list) /\ Len(list) \in Nat /\ itemNum = Len(list)
    BY LinkedRange DEF LInv, Shape, TypeOK, ListWhole
  <1>1. PICK G : /\ Live \ Linked \subseteq G /\ IsFiniteSet(G)
                 /\ Cardinality(G) <= Cardinality(Readers)
    BY OffBound
  <1>2. Live \subseteq G \cup {tailId} BY <1>0, <1>1
  <1>3. IsFiniteSet(G \cup {tailId}) /\ Cardinality(G \cup {tailId}) <= Cardinality(G) + 1
        /\ Cardinality(G) \in Nat
    <2>1. Cardinality(G) \in Nat BY <1>1, FS_CardinalityType
    <2>2. IsFiniteSet(G \cup {tailId}) BY <1>1, FS_AddElement
    <2>3. \/ Cardinality(G \cup {tailId}) = Cardinality(G)
          \/ Cardinality(G \cup {tailId}) = Cardinality(G) + 1
      BY <1>1, FS_AddElement, Zenon
    <2> QED BY <2>1, <2>2, <2>3
  <1>4. IsFiniteSet(Live) /\ Cardinality(Live) <= Cardinality(G \cup {tailId})
    BY <1>2, <1>3, FS_Subset
  <1>5. Cardinality(Live) \in Nat /\ Cardinality(Readers) \in Nat
        /\ Cardinality(G \cup {tailId}) \in Nat
    BY <1>3, <1>4, ListAssumption, FS_CardinalityType
  <1>6. Cardinality(Live) <= Cardinality(Readers) + 1 BY <1>1, <1>3, <1>4, <1>5
  <1>7. allSize < MaxSize
    <2>1. PICK c, d : c = Cardinality(Live) /\ d = Cardinality(Readers) + 1 OBVIOUS
    <2>2. c \in Nat /\ d \in Nat /\ c <= d /\ MaxLen \in Nat /\ MaxSize \in Nat
      BY <1>5, <1>6, <2>1, ListAssumption
    <2>3. allSize \in Nat /\ allSize <= c * MaxLen BY <1>4, <2>1, SizesNow, BytesFinite
    <2>4. c * MaxLen <= d * MaxLen BY <2>2
    <2>5. d * MaxLen < MaxSize BY <2>1 DEF RoomForReaders
    <2>6. c * MaxLen \in Nat /\ d * MaxLen \in Nat BY <2>2
    <2>7. ASSUME NEW x \in Nat, NEW y \in Nat, x <= y, y < MaxSize, allSize <= x
          PROVE  allSize < MaxSize
      BY <2>2, <2>3, <2>7
    <2> QED BY <2>3, <2>4, <2>5, <2>6, <2>7
  <1>8. (itemNum + 2) % UInt < MaxNum
    <2>1. UInt \in Nat \ {0} /\ MaxNum \in Nat BY ListAssumption
    <2>2. itemNum + 2 \in Nat /\ itemNum + 2 <= 3 BY <1>0
    <2>3. (itemNum + 2) % UInt <= itemNum + 2 /\ (itemNum + 2) % UInt \in Nat BY <2>1, <2>2
    <2> QED BY <2>1, <2>2, <2>3 DEF RoomForReaders
  <1> QED BY <1>7, <1>8 DEF EnableAdd

\* So the encoder drops a frame only if another is left.
LEMMA KeptStep ==
  ASSUME LInv, OffUsed, SizesAccounted, RoomForReaders, Kept, Next
  PROVE  Kept'
  <1> USE DEF info, writer, reader, flow
  <1>0. list \in Seq(Live) /\ Len(list) \in Nat /\ seqNo \in Nat BY DEF LInv, TypeOK
  <1>1. CASE Source BY <1>1 DEF Source, Encode, Kept
  <1>2. CASE Room
    <2>1. wpc' = "del" => Len(list) >= 2 BY <1>0, <1>2, RoomWhenShort DEF Room
    <2> QED BY <1>2, <2>1 DEF Room, Kept
  <1>3. CASE DelTail
    <2>1. Len(list) >= 2 BY <1>3 DEF DelTail, Kept
    <2>2. list # <<>> BY <2>1
    <2>3. list' = Tail(list) /\ wpc' = "room" BY <1>3, <2>2 DEF DelTail
    <2>4. Len(list') = Len(list) - 1 BY <1>0, <2>2, <2>3
    <2>5. list' # <<>>
      <3>1. Len(list') >= 1 BY <1>0, <2>1, <2>4
      <3> QED BY <3>1
    <2> QED BY <2>3, <2>5 DEF Kept
  <1>4. CASE Add
    <2>1. wpc' = "idle" BY <1>4 DEF Add
    <2>2. list' # <<>>
      <3>1. list' = <<seqNo>> \/ list' = Append(list, seqNo) \/ (list' = list /\ list # <<>>)
        BY <1>4 DEF Add
      <3>2. <<seqNo>> # <<>> OBVIOUS
      <3>3. PICK q : q = Append(list, seqNo) OBVIOUS
      <3>4. q # <<>>
        <4>1. PICK S : S = Live \cup {seqNo} OBVIOUS
        <4>2. list \in Seq(S) /\ seqNo \in S BY <1>0, <4>1
        <4>3. Len(q) = Len(list) + 1 BY <3>3, <4>2
        <4>4. Len(q) > 0 BY <1>0, <4>3
        <4> QED BY <4>4
      <3> QED BY <3>1, <3>2, <3>3, <3>4
    <2> QED BY <2>1, <2>2 DEF Kept
  <1>5. ASSUME NEW r \in Readers, Read(r) PROVE Kept'
    <2>1. UNCHANGED <<list, seqNo, wpc>>
      BY <1>5, Passes DEF Read, Lock, Miss, Wait, Skip, Newest, Unlock
    <2> QED BY <2>1 DEF Kept
  <1> QED BY <1>1, <1>2, <1>3, <1>4, <1>5 DEF Next, Encoder

-----------------------------------------------------------------------------
(* The theorems.                                                           *)

\* A call of the list keeps its shape, its users and its sizes.
LEMMA Step ==
  ASSUME LInv, NeverEmpty, [Next]_vars
  PROVE  LInv'
  <1>1. CASE Source \/ Encoder BY <1>1, EncoderTypes, EncoderShape, EncoderUsers DEF LInv
  <1>2. ASSUME NEW r \in Readers, Read(r) PROVE LInv'
    BY <1>2, ReadTypes, ReadShape, ReadUsers DEF LInv
  <1>3. CASE UNCHANGED vars
    <2> USE DEF vars, info, writer, reader, flow
    <2>1. TypeOK' BY <1>3 DEF LInv, TypeOK, Live
    <2>2. Shape' BY <1>3 DEF LInv, Shape, ListWhole, headId, Live
    <2>3. Users' BY <1>3 DEF LInv, Users, Held, Live
    <2> QED BY <2>1, <2>2, <2>3 DEF LInv
  <1> QED BY <1>1, <1>2, <1>3 DEF Next

LEMMA Steps ==
  ASSUME LInv, OffUsed, SizesAccounted, Behind, Kept, RoomForReaders, [Next]_vars
  PROVE  LInv' /\ OffUsed' /\ SizesAccounted' /\ Behind' /\ Kept'
  <1>0. NeverEmpty BY DEF NeverEmpty, Kept, LInv, TypeOK
  <1>1. LInv' BY <1>0, Step
  <1>2. CASE Source \/ Encoder
    BY <1>0, <1>1, <1>2, EncoderSizes, EncoderOff, BehindStep, KeptStep DEF Next
  <1>3. ASSUME NEW r \in Readers, Read(r)
        PROVE  OffUsed' /\ SizesAccounted' /\ Behind' /\ Kept'
    BY <1>0, <1>3, ReadSizes, ReadOff, BehindStep, KeptStep DEF Next
  <1>4. CASE UNCHANGED vars
    <2> USE DEF vars, info, writer, reader, flow
    <2>1. OffUsed' BY <1>4 DEF OffUsed, Held, Live, Linked
    <2>2. SizesAccounted' BY <1>4, SizesNow, SizesNext DEF Live, Linked
    <2>3. Behind' BY <1>4 DEF Behind, headId
    <2>4. Kept' BY <1>4 DEF Kept
    <2> QED BY <1>1, <2>1, <2>2, <2>3, <2>4
  <1> QED BY <1>1, <1>2, <1>3, <1>4 DEF Next

\* A new list.
LEMMA First ==
  ASSUME Init
  PROVE  LInv /\ OffUsed /\ SizesAccounted /\ Behind /\ Kept
  <1>1. Live = {} /\ node \in [Live -> Nodes] /\ list \in Seq(Live)
    BY DEF Init, Live
  <1>2. TypeOK
    <2>1. Heap /\ Rest BY <1>1, ListAssumption DEF Init, Heap, Rest, Frames, Using
    <2>2. Flow
      <3>1. sent \in Int BY DEF Init
      <3>2. lost \in BOOLEAN /\ cleared \in BOOLEAN BY Zenon DEF Init
      <3> QED BY <3>1, <3>2 DEF Flow
    <2> QED BY <2>1, <2>2 DEF TypeOK, Heap, Rest, Flow
  <1>3. Shape BY <1>1 DEF Init, Shape, ListWhole
  <1>4. Users BY <1>1 DEF Init, Users, Using
  <1>5. SizesAccounted
    <2>1. Bytes(node, Live) = {} /\ Bytes(node, Live \ Linked) = {} BY <1>1 DEF Bytes
    <2> QED BY <2>1, FS_EmptySet, SizesNow DEF Init
  <1>6. OffUsed BY <1>1 DEF OffUsed
  <1>7. Behind BY DEF Init, Behind
  <1>8. Kept BY DEF Init, Kept
  <1> QED BY <1>2, <1>3, <1>4, <1>5, <1>6, <1>7, <1>8 DEF LInv

\* The inductive invariant, for limits that leave room for what readers hold.
THEOREM Inductive ==
  ASSUME RoomForReaders
  PROVE  Spec => [](LInv /\ OffUsed /\ SizesAccounted /\ Behind /\ Kept)
  <1>1. Init => LInv /\ OffUsed /\ SizesAccounted /\ Behind /\ Kept BY First
  <1>2. LInv /\ OffUsed /\ SizesAccounted /\ Behind /\ Kept /\ [Next]_vars
          => (LInv /\ OffUsed /\ SizesAccounted /\ Behind /\ Kept)'
    BY Steps
  <1> QED BY <1>1, <1>2, PTL DEF Spec

\* The list does not run empty once it has had a frame, and the encoder does not
\* delete from an empty list: HisiInsertVideoData ends its deleting.
THEOREM NeverRunsEmpty == RoomForReaders => (Spec => []NeverEmpty)
  <1> SUFFICES ASSUME RoomForReaders PROVE Spec => []NeverEmpty OBVIOUS
  <1>1. LInv /\ Kept => NeverEmpty BY DEF NeverEmpty, Kept, LInv, TypeOK
  <1> QED BY <1>1, Inductive, PTL

\* The variables have their types.
THEOREM TypeCorrect == RoomForReaders => (Spec => []TypeOK)
  <1> SUFFICES ASSUME RoomForReaders PROVE Spec => []TypeOK OBVIOUS
  <1>1. LInv => TypeOK BY DEF LInv
  <1> QED BY <1>1, Inductive, PTL

\* The list holds tail_id to head_id, item_num counts them and pListHead is the
\* last: what sll_add_list_item_no_malloc appends is on the list.
THEOREM ListIsWhole == RoomForReaders => (Spec => []ListWhole)
  <1> SUFFICES ASSUME RoomForReaders PROVE Spec => []ListWhole OBVIOUS
  <1>1. LInv => ListWhole BY DEF LInv, Shape
  <1> QED BY <1>1, Inductive, PTL

\* However many readers there are and whatever the encoder drops, a reader is
\* only ever in a node that is allocated, and user_num counts its readers.
THEOREM HeldStaysLive == RoomForReaders => (Spec => []HeldIsLive)
  <1> SUFFICES ASSUME RoomForReaders PROVE Spec => []HeldIsLive OBVIOUS
  <1>1. LInv => HeldIsLive BY DEF LInv, Users, HeldIsLive
  <1> QED BY <1>1, Inductive, PTL

\* The pointer a reader keeps from its last call is followed only to a node that
\* is still there.
THEOREM ShortcutIsSafe == RoomForReaders => (Spec => []Shortcut)
  <1> SUFFICES ASSUME RoomForReaders PROVE Spec => []Shortcut OBVIOUS
  <1>1. ASSUME LInv PROVE Shortcut
    <2>1. TypeOK /\ ListWhole /\ tailId .. seqNo - 1 \subseteq Live
      BY <1>1 DEF LInv, Shape
    <2>2. Linked = tailId .. seqNo - 1 BY <2>1, LinkedRange
    <2>3. ASSUME NEW r \in Readers, get[r] # NULL, tailId <= get[r], get[r] < headId
          PROVE  get[r] \in tailId .. seqNo - 1
      BY <2>1, <2>3 DEF TypeOK, headId
    <2> QED BY <2>1, <2>2, <2>3 DEF Shortcut
  <1> QED BY <1>1, Inductive, PTL

\* all_data_size and all_not_free_data_size are what the nodes hold: whatever
\* order drops and returns come in, no node is lost and none given back twice.
THEOREM SizesStayTrue == RoomForReaders => (Spec => []SizesAccounted)
  <1> SUFFICES ASSUME RoomForReaders PROVE Spec => []SizesAccounted OBVIOUS
  <1> QED BY Inductive, PTL

-----------------------------------------------------------------------------
(* The network thread and its key frames.                                  *)

\* A frame that is still allocated is what it was.
LEMMA KeyStays ==
  ASSUME LInv, NeverEmpty, Next, NEW n \in Live, n \in Live'
  PROVE  node'[n].key = node[n].key
  <1> USE DEF info, writer, reader, flow
  <1>0. node \in [Live -> Nodes] /\ seqNo \notin Live BY DEF LInv, TypeOK, Shape
  <1>n. node[n] \in Nodes BY <1>0
  <1>1. CASE UNCHANGED node BY <1>1
  <1>2. ASSUME NEW m \in Live, node' = Free(m) PROVE node'[n].key = node[n].key
    <2>1. n \in Live \ {m} BY <1>2 DEF Free, Live
    <2> QED BY <1>2, <2>1 DEF Free
  <1>3. ASSUME NEW m, NEW k, node' = Use(m, k) PROVE node'[n].key = node[n].key
    <2>1. CASE n # m BY <1>0, <1>3, <2>1 DEF Use, Live
    <2>2. CASE n = m
      <3>1. node'[n] = [node[n] EXCEPT !.users = @ + k] BY <1>0, <1>3, <2>2 DEF Use, Live
      <3> QED BY <1>n, <3>1 DEF Nodes
    <2> QED BY <2>1, <2>2
  <1>4. CASE node' = Make(frame) BY <1>0, <1>4 DEF Make
  <1>5. CASE Source \/ Encoder
    <2>1. CASE DelTail
      <3>1. list # <<>> BY <2>1 DEF DelTail, NeverEmpty
      <3>2. Head1 \in Live BY <3>1, FirstOff DEF LInv, Shape
      <3> QED BY <1>1, <1>2, <2>1, <3>1, <3>2 DEF DelTail
    <2> QED BY <1>1, <1>4, <1>5, <2>1 DEF Source, Encode, Encoder, Room, Add
  <1>6. ASSUME NEW r \in Readers, Read(r) PROVE node'[n].key = node[n].key
    <2>1. CASE Lock(r) BY <1>3, <2>1 DEF Lock
    <2>2. CASE Unlock(r)
      <3>1. get[r] \in Live BY <2>2 DEF Unlock, LInv, Users, Using
      <3> QED BY <1>1, <1>2, <1>3, <2>2, <3>1 DEF Unlock
    <2> QED BY <1>1, <1>6, <2>1, <2>2, Passes DEF Read, Miss, Wait, Skip, Newest
  <1> QED BY <1>5, <1>6 DEF Next

\* The frame Net is at is the one after the last it sent, unless it waits for a
\* key frame, or waited until another reader ended that.
Gap ==
  /\ rpc[Net] \in {"lock", "missed", "newest", "done"} => lost \/ cleared \/ recv[Net] = sent + 1
  /\ rpc[Net] = "held" => lost \/ cleared \/ get[Net] = sent + 1
  /\ rpc[Net] = "test" => lost \/ cleared \/ get[Net] = sent + 1 \/ node[get[Net]].key
  /\ rpc[Net] = "send" => cleared \/ get[Net] = sent + 1 \/ node[get[Net]].key
  /\ rpc[Net] \in {"held", "test", "send"} => recv[Net] = get[Net] + 1

\* What any step of another thread does to Net's wait for a key frame.
LEMMA GapOther ==
  ASSUME LInv, NeverEmpty, Gap, Next,
         rpc'[Net] = rpc[Net], recv'[Net] = recv[Net], get'[Net] = get[Net], sent' = sent,
         cleared => cleared', lost \/ cleared => lost' \/ cleared'
  PROVE  Gap'
  <1>1. rpc[Net] \in Using => node'[get[Net]].key = node[get[Net]].key
    <2> SUFFICES ASSUME rpc[Net] \in Using PROVE node'[get[Net]].key = node[get[Net]].key
      OBVIOUS
    <2>1. get[Net] \in Live BY ListAssumption DEF LInv, Users
    <2>2. Users' BY EncoderUsers, ReadUsers DEF Next
    <2>3. get[Net] \in Live' BY <2>2, ListAssumption DEF Users
    <2> QED BY <2>1, <2>3, KeyStays
  <1>2. ("test" \in Using /\ "send" \in Using) BY DEF Using
  <1> QED BY <1>1, <1>2 DEF Gap

LEMMA GapStep ==
  ASSUME LInv, NeverEmpty, Behind, Gap, [Next]_vars
  PROVE  Gap'
  <1> USE DEF info, writer, reader, flow
  <1>0. /\ rpc \in [Readers -> {"lock", "missed", "newest"} \cup Using] /\ Net \in Readers
        /\ recv \in [Readers -> Nat] /\ get \in [Readers -> Nat \cup {NULL}]
        /\ headId \in Nat /\ seqNo \in Nat /\ seqNo <= headId + 1 /\ sent \in Int
    BY ListAssumption DEF LInv, TypeOK, headId
  <1>1. CASE UNCHANGED vars BY <1>1 DEF vars, Gap
  <1>2. CASE Source \/ Encoder
    <2>1. UNCHANGED <<rpc, recv, get, sent, lost, cleared>>
      BY <1>2 DEF Source, Encode, Encoder, Room, DelTail, Add
    <2> QED BY <1>2, <2>1, GapOther DEF Next
  <1>3. ASSUME NEW r \in Readers, r # Net, Read(r) PROVE Gap'
    <2>1. rpc'[Net] = rpc[Net] /\ recv'[Net] = recv[Net] /\ get'[Net] = get[Net]
      BY <1>0, <1>3, Passes DEF Read, Lock, Miss, Wait, Skip, Newest, Unlock
    <2>2. sent' = sent /\ (cleared => cleared') /\ (lost \/ cleared => lost' \/ cleared')
      <3>1. CASE Look(r)
        <4>1. /\ sent' = sent
              /\ (UNCHANGED <<lost, cleared>> \/ cleared' = (r # Net /\ (cleared \/ lost)))
          BY <3>1 DEF Look
        <4>2. CASE UNCHANGED <<lost, cleared>> BY <4>1, <4>2
        <4>3. CASE cleared' = (r # Net /\ (cleared \/ lost)) BY <1>3, <4>1, <4>3, Zenon
        <4> QED BY <4>1, <4>2, <4>3
      <3>2. CASE ~Look(r)
        <4>1. UNCHANGED flow
          BY <1>3, <3>2 DEF Read, Lock, Miss, Wait, Skip, Newest, Drop, Test, Send, Unlock
        <4> QED BY <4>1
      <3> QED BY <3>1, <3>2
    <2> QED BY <1>3, <2>1, <2>2, GapOther DEF Next
  <1>4. ASSUME Read(Net) PROVE Gap'
    <2> USE DEF Gap
    <2>1. CASE Lock(Net)
      <3>1. /\ rpc[Net] = "lock" /\ rpc'[Net] = "held" /\ get'[Net] = recv[Net]
            /\ recv'[Net] = recv[Net] + 1 /\ UNCHANGED <<lost, sent, cleared>>
        BY <1>0, <2>1 DEF Lock
      <3> QED BY <3>1
    <2>2. CASE Miss(Net)
      <3>1. /\ rpc[Net] = "lock" /\ rpc'[Net] = "missed"
            /\ UNCHANGED <<recv, lost, sent, cleared>>
        BY <1>0, <2>2 DEF Miss
      <3> QED BY <3>1
    <2>3. CASE Wait(Net)
      <3>1. /\ rpc[Net] = "missed" /\ rpc'[Net] = "lock" /\ UNCHANGED <<lost, sent, cleared>>
            /\ recv' = [recv EXCEPT ![Net] = IF @ - headId > 2 THEN headId ELSE @]
        BY <1>0, <2>3 DEF Wait
      <3>2. ~(recv[Net] - headId > 2) BY <1>0 DEF Behind
      <3>3. recv'[Net] = recv[Net] BY <1>0, <3>1, <3>2
      <3> QED BY <3>1, <3>3
    <2>4. CASE Skip(Net)
      <3>1. rpc'[Net] \in {"newest", "lock"} /\ rpc[Net] = "missed" BY <1>0, <2>4 DEF Skip
      <3>2. (lost' = TRUE) \/ UNCHANGED <<recv, lost, sent, cleared>> BY <2>4 DEF Skip, SetLost
      <3> QED BY <3>1, <3>2
    <2>5. CASE Newest(Net)
      <3>1. rpc'[Net] = "lock" /\ lost' = TRUE BY <1>0, <2>5 DEF Newest, SetLost
      <3> QED BY <3>1
    <2>6. CASE Drop(Net)
      <3>1. rpc'[Net] = "done" /\ lost' = TRUE BY <1>0, <2>6 DEF Drop, SetLost
      <3> QED BY <3>1
    <2>7. CASE Look(Net)
      <3>1. /\ rpc[Net] = "held" /\ rpc'[Net] = "test" /\ UNCHANGED <<node, recv, get, sent>>
            /\ (node[get[Net]].key \/ UNCHANGED <<lost, cleared>>)
        BY <1>0, <2>7 DEF Look
      <3> QED BY <3>1
    <2>8. CASE Test(Net)
      <3>1. /\ rpc[Net] = "test" /\ UNCHANGED <<node, recv, get, lost, sent, cleared>>
        BY <2>8 DEF Test
      <3>2. rpc'[Net] = IF lost THEN "done" ELSE "send" BY <1>0, <2>8 DEF Test
      <3> QED BY <3>1, <3>2
    <2>9. CASE Send(Net)
      <3>1. /\ rpc[Net] = "send" /\ rpc'[Net] = "done" /\ UNCHANGED <<recv, get>>
            /\ (lost' = TRUE \/ sent' = get[Net])
        BY <1>0, <2>9 DEF Send, SetLost
      <3> QED BY <3>1
    <2>10. CASE Unlock(Net)
      <3>1. /\ rpc[Net] = "done" /\ rpc'[Net] = "lock" /\ UNCHANGED <<recv, lost, sent, cleared>>
        BY <1>0, <2>10 DEF Unlock
      <3> QED BY <3>1
    <2> QED BY <1>4, <2>1, <2>2, <2>3, <2>4, <2>5, <2>6, <2>7, <2>8, <2>9, <2>10 DEF Read
  <1> QED BY <1>1, <1>2, <1>3, <1>4 DEF Next

\* After a frame that it dropped, that could not be sent or that was deleted
\* before it came to it, the network thread sends a key frame first, unless
\* another reader cleared lost_frame at a key frame of its own.
THEOREM KeyComesFirst == RoomForReaders => (Spec => []KeyAfterGap)
  <1> SUFFICES ASSUME RoomForReaders PROVE Spec => []KeyAfterGap OBVIOUS
  <1>1. Init => Gap BY ListAssumption DEF Init, Gap
  <1>2. LInv /\ Behind /\ Kept /\ Gap /\ [Next]_vars => Gap'
    <2>1. LInv /\ Kept => NeverEmpty BY DEF NeverEmpty, Kept, LInv, TypeOK
    <2> QED BY <2>1, GapStep
  <1>3. Gap => KeyAfterGap BY DEF Gap, KeyAfterGap
  <1> QED BY <1>1, <1>2, <1>3, Inductive, PTL DEF Spec
=============================================================================
