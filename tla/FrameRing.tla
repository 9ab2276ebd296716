----------------------------- MODULE FrameRing -----------------------------
(***************************************************************************)
(* The ring buffer between the encoder threads and the record thread       *)
(* (CYCLE_BUFFER, buf_array.c, as insert_enc_buf, get_enc_buf and          *)
(* get_enc_buf_info use it).                                               *)
(*                                                                         *)
(* Writers exclude one another by one mutex, readers by another: nothing   *)
(* orders a writer and the reader.  Each counts its records in a total of  *)
(* its own, modulo 1000000, and computes item_num from its own total and   *)
(* the other's, which it reads twice, for the test and for the             *)
(* subtraction.  The other total may wrap in between, and item_num come    *)
(* out negative or far too large; it may also be old when it is stored.    *)
(* When fifo_get then finds less than it was promised, get_enc_buf empties *)
(* the ring.                                                               *)
(*                                                                         *)
(* A writer asks whether there is room before it takes the mutex, the      *)
(* reader whether there is enough to read without one.  A frame is two     *)
(* records, its header and its data.  The ring is the sequence of the      *)
(* records between out and in.                                             *)
(***************************************************************************)
EXTENDS Integers, Sequences, FiniteSets

CONSTANTS Writers,   \* the threads that call insert_enc_buf
          Size,      \* size
          Slack,     \* 600 * 1024
          Header,    \* sizeof(BUF_FRAMEHEADER)
          Longest,   \* the longest frame that insert_enc_buf takes
          MaxLen,    \* the longest frame of each writer
          MaxTotal,  \* 1000000, where a total starts again from 0
          SaveNums,  \* what save_num may be set to
          NULL

\* The bytes of a frame of each writer of S with its header, one by one.
Claim(S) == {d \in S \X (1 .. Header + Longest) : d[2] <= Header + MaxLen[d[1]]}

\* Slack takes a frame of every writer: one of video, to 502 KB, and one of
\* audio, to 8 KB.  A total does not come round to itself within one ring, which
\* holds n frames of a header and a byte, and half a frame.
ASSUME RingAssumption ==
  /\ NULL \notin Writers /\ IsFiniteSet(Writers)
  /\ Size \in Nat /\ Slack \in 0 .. Size /\ Header \in Nat \ {0} /\ Longest \in Nat \ {0}
  /\ MaxLen \in [Writers -> 1 .. Longest]
  /\ Cardinality(Claim(Writers)) <= Slack
  /\ MaxTotal \in Nat
  /\ \A n \in 0 .. Size : n * (Header + 1) <= Size => 2 * n + 1 < MaxTotal
  /\ SaveNums \subseteq Nat

VARIABLES
  ring,       \* the records from out to in
  totalWrite, \* total_write
  totalRead,  \* total_read
  itemNum,    \* item_num
  saveNum,    \* save_num
  lock,       \* the thread that holds lock
  wpc,        \* where each writer stands
  wlen,       \* the length of the frame each writer has
  part,       \* the record each writer is putting
  wnum,       \* the number it is about to store in item_num
  rpc,        \* where the reader stands
  want,       \* the record it is getting
  head,       \* the header it has read
  rnum        \* the number it is about to store in item_num

totals == <<totalWrite, totalRead>>
writer == <<lock, wpc, wlen, part, wnum>>
reader == <<rpc, want, head, rnum>>
vars   == <<ring, totals, itemNum, saveNum, writer, reader>>

Parts   == {"header", "data"}
Records == [by : Writers, part : Parts, len : 1 .. Header + Longest]

\* The bytes of the records of q: byte b of the record at i.
Stored(q) == {d \in (1 .. Len(q)) \X (1 .. Header + Longest) : d[2] <= q[d[1]].len}

\* fifo_len
Bytes == Cardinality(Stored(ring))

Init ==
  /\ ring = <<>> /\ totalWrite = 0 /\ totalRead = 0 /\ itemNum = 0
  /\ saveNum \in SaveNums
  /\ lock = NULL /\ wpc = [w \in Writers |-> "idle"] /\ wlen = [w \in Writers |-> 1]
  /\ part = [w \in Writers |-> "header"] /\ wnum = 0
  /\ rpc = "idle" /\ want = "header" /\ head = NULL /\ rnum = 0

\* filo_set_save_num
SetSaveNum(n) ==
  /\ saveNum' = n
  /\ UNCHANGED <<ring, totals, itemNum, writer, reader>>
-----------------------------------------------------------------------------
(* insert_enc_buf.                                                         *)

\* Mutant: room for the writer's own frame is enough.
EnableInsertMutant == Bytes <= Size - Header - Longest

\* fifo_enable_insert
EnableInsert == Bytes <= Size - Slack

\* A writer has a frame of length l, and sees that there is room.
Offer(w, l) ==
  /\ wpc[w] = "idle" /\ EnableInsert
  /\ wpc' = [wpc EXCEPT ![w] = "lock"] /\ wlen' = [wlen EXCEPT ![w] = l]
  /\ UNCHANGED <<ring, totals, itemNum, saveNum, lock, part, wnum, reader>>

\* Mutant: insert_enc_buf does not take the mutex.
LockMutant(w) ==
  /\ wpc[w] = "lock"
  /\ lock' = w /\ wpc' = [wpc EXCEPT ![w] = "put"]
  /\ UNCHANGED <<ring, totals, itemNum, saveNum, wlen, part, wnum, reader>>

Lock(w) ==
  /\ wpc[w] = "lock" /\ lock = NULL
  /\ lock' = w /\ wpc' = [wpc EXCEPT ![w] = "put"]
  /\ UNCHANGED <<ring, totals, itemNum, saveNum, wlen, part, wnum, reader>>

PutLen(w) == IF part[w] = "header" THEN Header ELSE wlen[w]

\* fifo_put copies what there is room for, before it moves in.
Put(w) ==
  /\ wpc[w] = "put"
  /\ wpc' = [wpc EXCEPT ![w] = IF PutLen(w) <= Size - Bytes THEN "in" ELSE "short"]
  /\ UNCHANGED <<ring, totals, itemNum, saveNum, lock, wlen, part, wnum, reader>>

MoveIn(w) ==
  /\ wpc[w] = "in" /\ wpc' = [wpc EXCEPT ![w] = "total"]
  /\ ring' = Append(ring, [by |-> w, part |-> part[w], len |-> PutLen(w)])
  /\ UNCHANGED <<totals, itemNum, saveNum, lock, wlen, part, wnum, reader>>

CountIn(w) ==
  /\ wpc[w] = "total" /\ totalWrite' = totalWrite + 1
  /\ wpc' = [wpc EXCEPT ![w] = IF totalWrite + 1 >= MaxTotal THEN "wrap" ELSE "test"]
  /\ UNCHANGED <<ring, totalRead, itemNum, saveNum, lock, wlen, part, wnum, reader>>

WrapIn(w) ==
  /\ wpc[w] = "wrap" /\ totalWrite' = 0
  /\ wpc' = [wpc EXCEPT ![w] = "test"]
  /\ UNCHANGED <<ring, totalRead, itemNum, saveNum, lock, wlen, part, wnum, reader>>

\* The two reads of total_read.
TestIn(w) ==
  /\ wpc[w] = "test"
  /\ wpc' = [wpc EXCEPT ![w] = IF totalWrite >= totalRead THEN "sub" ELSE "addsub"]
  /\ UNCHANGED <<ring, totals, itemNum, saveNum, lock, wlen, part, wnum, reader>>

SubIn(w) ==
  /\ \/ wpc[w] = "sub" /\ wnum' = totalWrite - totalRead
     \/ wpc[w] = "addsub" /\ wnum' = totalWrite + MaxTotal - totalRead
  /\ wpc' = [wpc EXCEPT ![w] = "count"]
  /\ UNCHANGED <<ring, totals, itemNum, saveNum, lock, wlen, part, reader>>

\* The store of item_num; after the header the data, after the data unlock.
PutDone(w) ==
  /\ wpc[w] = "count" /\ itemNum' = wnum /\ wnum' = 0
  /\ \/ /\ part[w] = "header" /\ part' = [part EXCEPT ![w] = "data"]
        /\ wpc' = [wpc EXCEPT ![w] = "put"] /\ UNCHANGED <<lock, wlen>>
     \/ /\ part[w] = "data" /\ part' = [part EXCEPT ![w] = "header"] /\ lock' = NULL
        /\ wpc' = [wpc EXCEPT ![w] = "idle"] /\ wlen' = [wlen EXCEPT ![w] = 1]
  /\ UNCHANGED <<ring, totals, saveNum, reader>>
-----------------------------------------------------------------------------
(* get_enc_buf_info and get_enc_buf.                                       *)

\* Mutant: the reader waits for save_num records whatever room they leave.
EnableGetMutant == itemNum >= 2 /\ itemNum > saveNum

\* fifo_enable_get
EnableGet == itemNum >= 2 /\ (itemNum > saveNum \/ ~EnableInsert)

Ask ==
  /\ rpc = "idle" /\ EnableGet
  /\ rpc' = "get"
  /\ UNCHANGED <<ring, totals, itemNum, saveNum, writer, want, head, rnum>>

\* fifo_get copies what there is, before it moves out.
Get ==
  /\ rpc = "get"
  /\ IF itemNum < 1 \/ ring = <<>>
       THEN rpc' = "error" /\ UNCHANGED head
       ELSE rpc' = "out" /\ head' = IF want = "header" THEN Head(ring) ELSE head
  /\ UNCHANGED <<ring, totals, itemNum, saveNum, writer, want, rnum>>

MoveOut ==
  /\ rpc = "out" /\ rpc' = "total"
  /\ ring' = Tail(ring)
  /\ UNCHANGED <<totals, itemNum, saveNum, writer, want, head, rnum>>

\* Mutant: the total is one too large when it starts again from 0.
CountOutMutant ==
  /\ rpc = "total" /\ totalRead' = totalRead + 1
  /\ rpc' = IF totalRead + 1 > MaxTotal THEN "wrap" ELSE "test"
  /\ UNCHANGED <<ring, totalWrite, itemNum, saveNum, writer, want, head, rnum>>

CountOut ==
  /\ rpc = "total" /\ totalRead' = totalRead + 1
  /\ rpc' = IF totalRead + 1 >= MaxTotal THEN "wrap" ELSE "test"
  /\ UNCHANGED <<ring, totalWrite, itemNum, saveNum, writer, want, head, rnum>>

WrapOut ==
  /\ rpc = "wrap" /\ totalRead' = 0 /\ rpc' = "test"
  /\ UNCHANGED <<ring, totalWrite, itemNum, saveNum, writer, want, head, rnum>>

\* The two reads of total_write.
TestOut ==
  /\ rpc = "test"
  /\ rpc' = IF totalWrite >= totalRead THEN "sub" ELSE "addsub"
  /\ UNCHANGED <<ring, totals, itemNum, saveNum, writer, want, head, rnum>>

SubOut ==
  /\ \/ rpc = "sub" /\ rnum' = totalWrite - totalRead
     \/ rpc = "addsub" /\ rnum' = totalWrite + MaxTotal - totalRead
  /\ rpc' = "count"
  /\ UNCHANGED <<ring, totals, itemNum, saveNum, writer, want, head>>

\* The store of item_num; after the header the data.
GetDone ==
  /\ rpc = "count" /\ itemNum' = rnum /\ rnum' = 0
  /\ \/ want = "header" /\ want' = "data" /\ rpc' = "get" /\ UNCHANGED head
     \/ want = "data" /\ want' = "header" /\ rpc' = "idle" /\ head' = NULL
  /\ UNCHANGED <<ring, totals, saveNum, writer>>

\* Mutant: fifo_reset leaves the totals.
ResetMutant ==
  /\ rpc = "error" /\ lock = NULL
  /\ ring' = <<>> /\ itemNum' = 0
  /\ rpc' = "idle" /\ want' = "header" /\ head' = NULL
  /\ UNCHANGED <<totals, saveNum, writer, rnum>>

\* get_enc_buf empties the ring (fifo_reset), between two frames of the writers.
Reset ==
  /\ rpc = "error" /\ lock = NULL
  /\ ring' = <<>> /\ totalWrite' = 0 /\ totalRead' = 0 /\ itemNum' = 0
  /\ rpc' = "idle" /\ want' = "header" /\ head' = NULL
  /\ UNCHANGED <<saveNum, writer, rnum>>
-----------------------------------------------------------------------------
Source(w) == \E l \in 1 .. MaxLen[w] : Offer(w, l)
Insert(w) == \/ Lock(w) \/ Put(w) \/ MoveIn(w) \/ CountIn(w) \/ WrapIn(w)
             \/ TestIn(w) \/ SubIn(w) \/ PutDone(w)
Record    == \/ Ask \/ Get \/ MoveOut \/ CountOut \/ WrapOut \/ TestOut \/ SubOut
             \/ GetDone \/ Reset
Next == \/ \E w \in Writers : Source(w) \/ Insert(w)
        \/ Record
        \/ \E n \in SaveNums : SetSaveNum(n)
Spec     == Init /\ [][Next]_vars
FairSpec == /\ Spec /\ WF_vars(Record)
            /\ \A w \in Writers : WF_vars(Source(w)) /\ WF_vars(Insert(w))
-----------------------------------------------------------------------------
(* Properties.                                                             *)

\* The values the variables take.
TypeOK ==
  /\ ring \in Seq(Records)
  /\ {totalWrite, totalRead} \subseteq 0 .. MaxTotal
  /\ {itemNum, wnum, rnum} \subseteq -MaxTotal .. 2 * MaxTotal /\ saveNum \in SaveNums
  /\ lock \in Writers \cup {NULL} /\ part \in [Writers -> Parts] /\ want \in Parts
  /\ wpc \in [Writers -> {"idle", "lock", "put", "in", "total", "wrap", "test", "sub",
                          "addsub", "count", "short"}]
  /\ wlen \in [Writers -> 1 .. Longest] /\ \A w \in Writers : wlen[w] <= MaxLen[w]
  /\ rpc \in {"idle", "get", "out", "total", "wrap", "test", "sub", "addsub", "count",
              "error"}
  /\ head \in Records \cup {NULL}

\* Room seen before the mutex is taken is still there when the frame is put,
\* however many writers saw it: fifo_put never cuts a record, and
\* insert_enc_buf never empties the ring.
NeverShort == \A w \in Writers : wpc[w] # "short"

\* The records in the ring that total_write does not count yet, and those out
\* of it that total_read does not.
UncountedIn  == IF \E w \in Writers : wpc[w] = "total" THEN 1 ELSE 0
UncountedOut == IF rpc = "total" THEN 1 ELSE 0

\* What the totals count, modulo MaxTotal, is what is in the ring, over wraps
\* and resets: an item_num that came out wrong is put right by the next put or
\* get.
TotalsCount ==
  totalWrite + UncountedIn - totalRead - UncountedOut - Len(ring)
    \in {-MaxTotal, 0, MaxTotal}

\* The reader reads a header, and then the data of the same frame.
WholeFrames ==
  rpc = "out" => /\ Head(ring).part = want
                 /\ want = "data" => Head(ring).by = head.by

\* The ring is full, and item_num says that it holds no frame.
Stuck == ~EnableInsert /\ itemNum < 2

\* The recorder goes on getting frames, or writers and reader wait for one
\* another over a full ring with too small an item_num: a number from before
\* the last frames came, or from a wrap.  Nothing else stops them.
Flows == []<>(rpc = "out") \/ <>[]Stuck
=============================================================================
