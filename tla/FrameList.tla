----------------------------- MODULE FrameList -----------------------------
(***************************************************************************)
(* The shared list of encoded frames (singly_linked_list.c), the encoder   *)
(* thread that adds to it (HisiInsertVideoData) and the threads that send  *)
(* what it holds to the network and to the recorder (encode_thread and the *)
(* two Hisi_Net_cam_..._send_video_data functions of Hisi_dev.c).          *)
(*                                                                         *)
(* A frame is not copied: a reader takes a node under the list's mutex     *)
(* (user_num + 1), uses its data with the mutex released, and gives it     *)
(* back.  The encoder drops the oldest node when the list is full; a node  *)
(* in use is taken off the list but freed by its last reader.  The encoder *)
(* tests for room, and a reader that missed its frame looks at head_id,    *)
(* without the mutex.                                                      *)
(*                                                                         *)
(* A reader that was overtaken goes on where the list says that its last   *)
(* key frame is.  The list looks for it 36 bytes into the data, where no   *)
(* frame begins and whatever was there before can match: any node but the  *)
(* first may be taken for it, or none.  lost_frame then keeps the network  *)
(* thread, Net, from sending until it reads a real key frame.  That flag   *)
(* belongs to the connection (client_pst[0]) and every reader clears and   *)
(* tests it, but only Net sets it: the others set one that nobody tests.   *)
(*                                                                         *)
(* A node is its id: ids are given in order and never again.  Each call of *)
(* the list is one action.                                                 *)
(***************************************************************************)
EXTENDS Integers, Sequences, FiniteSets

CONSTANTS Readers,  \* the threads that lock nodes of this list
          Net,      \* the one that sends to the network and to the recorder
          MaxNum,   \* max_item_num
          MaxSize,  \* max_item_size
          MaxLen,   \* the longest frame of the encoder
          SendMax,  \* the longest frame that is sent
          UInt,     \* unsigned arithmetic is modulo UInt
          Last,     \* bound: the frames the encoder makes
          NULL

ASSUME ListAssumption ==
  /\ IsFiniteSet(Readers) /\ Net \in Readers
  /\ {MaxNum, MaxSize, MaxLen, SendMax, UInt, Last} \subseteq Nat \ {0}
  /\ NULL \notin Nat

VARIABLES
  node,      \* the nodes that are allocated, by id
  list,      \* the ids from the pointer list along next
  pListHead, \* the last node of the list, for appending
  itemNum,   \* item_num, before the reduction to unsigned
  tailId,    \* tail_id
  seqNo,     \* seq_no: the id of the next frame
  allSize,   \* all_data_size
  notFree,   \* all_not_free_data_size
  wpc,       \* where the encoder thread stands
  frame,     \* the frame it is adding
  rpc,       \* where each reader stands
  recv,      \* recv_packet_no: the id each reader wants next
  get,       \* the node of each reader's SINGLY_LINKED_GET_DATA_ST
  lost,      \* lost_frame of client_pst[0]
  sent,      \* observation: the last frame that Net sent
  cleared    \* observation: lost was cleared by another reader than Net

info   == <<node, list, pListHead, itemNum, tailId, seqNo, allSize, notFree>>
writer == <<wpc, frame>>
reader == <<rpc, recv, get>>
flow   == <<lost, sent, cleared>>
vars   == <<info, writer, reader, flow>>

Frames == [len : 1 .. MaxLen, key : BOOLEAN]
Nodes  == [len : 1 .. MaxLen, key : BOOLEAN, users : Int]

\* head_id: the id of the newest frame, 0 when there is none.
headId == IF seqNo = 0 THEN 0 ELSE seqNo - 1

Linked  == {list[i] : i \in 1 .. Len(list)}
Live    == DOMAIN node
Head1   == list[1]
Using   == {"held", "test", "send", "done"}
Held(n) == {r \in Readers : rpc[r] \in Using /\ get[r] = n}

Use(n, k) == [node EXCEPT ![n].users = @ + k]
Free(n)   == [m \in Live \ {n} |-> node[m]]
Make(f)   == [m \in Live \cup {seqNo} |->
                IF m = seqNo THEN [len |-> f.len, key |-> f.key, users |-> 0]
                             ELSE node[m]]

Init ==
  /\ node = <<>> /\ list = <<>> /\ pListHead = NULL
  /\ itemNum = 0 /\ tailId = 0 /\ seqNo = 0 /\ allSize = 0 /\ notFree = 0
  /\ wpc = "idle" /\ frame = [len |-> 1, key |-> TRUE]
  /\ rpc = [r \in Readers |-> "lock"] /\ recv = [r \in Readers |-> 0]
  /\ get = [r \in Readers |-> NULL]
  /\ lost = FALSE /\ sent = -1 /\ cleared = FALSE
-----------------------------------------------------------------------------
(* The encoder thread.                                                     *)

\* A frame arrives from the encoder; sequences start with a key frame.
Encode(f) ==
  /\ wpc = "idle" /\ seqNo < Last /\ (seqNo = 0 => f.key)
  /\ wpc' = "room" /\ frame' = f
  /\ UNCHANGED <<info, reader, flow>>

\* Mutant: what is not free is counted twice.
EnableAddMutant == allSize + notFree < MaxSize /\ (itemNum + 2) % UInt < MaxNum

\* sll_list_enable_add_item
EnableAdd == allSize < MaxSize /\ (itemNum + 2) % UInt < MaxNum

Room ==
  /\ wpc = "room"
  /\ wpc' = IF EnableAdd THEN "add" ELSE "del"
  /\ UNCHANGED <<info, frame, reader, flow>>

\* Mutant: a node in use is freed as well.
DelTailUsedMutant ==
  /\ wpc = "del" /\ wpc' = "room"
  /\ IF list = <<>>
       THEN UNCHANGED <<node, list, allSize, notFree>>
       ELSE /\ list' = Tail(list)
            /\ node' = Free(Head1) /\ allSize' = allSize - node[Head1].len
            /\ UNCHANGED notFree
  /\ tailId' = tailId + 1 /\ itemNum' = itemNum - 1
  /\ UNCHANGED <<pListHead, seqNo, frame, reader, flow>>

\* Mutant: the size of a node in use is given back when it leaves the list.
DelTailSizeMutant ==
  /\ wpc = "del" /\ wpc' = "room"
  /\ IF list = <<>>
       THEN UNCHANGED <<node, list, allSize, notFree>>
       ELSE /\ list' = Tail(list) /\ allSize' = allSize - node[Head1].len
            /\ \/ /\ node[Head1].users <= 0
                  /\ node' = Free(Head1) /\ UNCHANGED notFree
               \/ /\ node[Head1].users > 0
                  /\ notFree' = notFree + node[Head1].len /\ UNCHANGED node
  /\ tailId' = tailId + 1 /\ itemNum' = itemNum - 1
  /\ UNCHANGED <<pListHead, seqNo, frame, reader, flow>>

\* Mutant: tail_id stays behind the list.
DelTailIdMutant ==
  /\ wpc = "del" /\ wpc' = "room"
  /\ IF list = <<>>
       THEN UNCHANGED <<node, list, allSize, notFree>>
       ELSE /\ list' = Tail(list)
            /\ \/ /\ node[Head1].users <= 0
                  /\ node' = Free(Head1) /\ allSize' = allSize - node[Head1].len
                  /\ UNCHANGED notFree
               \/ /\ node[Head1].users > 0
                  /\ notFree' = notFree + node[Head1].len
                  /\ UNCHANGED <<node, allSize>>
  /\ itemNum' = itemNum - 1
  /\ UNCHANGED <<pListHead, tailId, seqNo, frame, reader, flow>>

\* sll_del_list_tail_item.  Its guard, item_num - 1 < 0, is never true of an
\* unsigned number: an empty list is counted down like any other.
DelTail ==
  /\ wpc = "del" /\ wpc' = "room"
  /\ IF list = <<>>
       THEN UNCHANGED <<node, list, allSize, notFree>>
       ELSE /\ list' = Tail(list)
            /\ \/ /\ node[Head1].users <= 0
                  /\ node' = Free(Head1) /\ allSize' = allSize - node[Head1].len
                  /\ UNCHANGED notFree
               \/ /\ node[Head1].users > 0
                  /\ notFree' = notFree + node[Head1].len
                  /\ UNCHANGED <<node, allSize>>
  /\ tailId' = tailId + 1 /\ itemNum' = itemNum - 1
  /\ UNCHANGED <<pListHead, seqNo, frame, reader, flow>>

\* Mutant: a node appended to the list is not remembered as its last.
AddMutant ==
  /\ wpc = "add" /\ wpc' = "idle"
  /\ node' = Make(frame)
  /\ \/ list = <<>> /\ list' = <<seqNo>> /\ UNCHANGED pListHead
     \/ /\ list # <<>>
        /\ pListHead' = IF pListHead = NULL THEN seqNo ELSE pListHead
        /\ list' = IF pListHead \in {NULL, list[Len(list)]}
                     THEN Append(list, seqNo) ELSE list
  /\ seqNo' = seqNo + 1 /\ itemNum' = itemNum + 1 /\ allSize' = allSize + frame.len
  /\ UNCHANGED <<tailId, notFree, frame, reader, flow>>

\* sll_add_list_item_no_malloc.  Its own delete (item_num + 1 > max_item_num)
\* cannot happen: room was just made for two.  pListHead is not reset when the
\* list runs empty; what is then appended to it is not on the list.
Add ==
  /\ wpc = "add" /\ wpc' = "idle"
  /\ node' = Make(frame)
  /\ \/ list = <<>> /\ list' = <<seqNo>> /\ UNCHANGED pListHead
     \/ /\ list # <<>> /\ pListHead' = seqNo
        /\ list' = IF pListHead \in {NULL, list[Len(list)]}
                     THEN Append(list, seqNo) ELSE list
  /\ seqNo' = seqNo + 1 /\ itemNum' = itemNum + 1 /\ allSize' = allSize + frame.len
  /\ UNCHANGED <<tailId, notFree, frame, reader, flow>>
-----------------------------------------------------------------------------
(* The readers.                                                            *)

\* sll_get_list_item_lock.  The shortcut through the node of the last call
\* finds the node the walk along the list would find (see Shortcut).
Lock(r) ==
  /\ rpc[r] = "lock" /\ itemNum % UInt # 0
  /\ recv[r] \in tailId .. headId /\ recv[r] \in Linked
  /\ node' = Use(recv[r], 1)
  /\ get' = [get EXCEPT ![r] = recv[r]]
  /\ recv' = [recv EXCEPT ![r] = @ + 1]
  /\ rpc' = [rpc EXCEPT ![r] = "held"]
  /\ UNCHANGED <<list, pListHead, itemNum, tailId, seqNo, allSize, notFree, writer, flow>>

Miss(r) ==
  /\ rpc[r] = "lock" /\ itemNum % UInt # 0
  /\ ~(recv[r] \in tailId .. headId /\ recv[r] \in Linked)
  /\ rpc' = [rpc EXCEPT ![r] = "missed"]
  /\ UNCHANGED <<info, writer, recv, get, flow>>

\* The reader has every frame there is: it tries again.
Wait(r) ==
  /\ rpc[r] = "missed" /\ recv[r] >= headId
  /\ recv' = [recv EXCEPT ![r] = IF @ - headId > 2 THEN headId ELSE @]
  /\ rpc' = [rpc EXCEPT ![r] = "lock"]
  /\ UNCHANGED <<info, writer, get, flow>>

\* Mutant: a reader that was overtaken stays where it is.
SkipMutant(r) ==
  /\ rpc[r] = "missed" /\ recv[r] < headId
  /\ rpc' = [rpc EXCEPT ![r] = "lock"]
  /\ UNCHANGED <<info, writer, recv, get, flow>>

\* Mutant: it goes on without waiting for a key frame.
SkipLostMutant(r) ==
  /\ rpc[r] = "missed" /\ recv[r] < headId
  /\ \/ rpc' = [rpc EXCEPT ![r] = "newest"] /\ UNCHANGED recv
     \/ /\ rpc' = [rpc EXCEPT ![r] = "lock"]
        /\ \E i \in 2 .. Len(list) : recv' = [recv EXCEPT ![r] = list[i]]
  /\ UNCHANGED <<info, writer, get, flow>>

\* Net sets lost_frame.
SetLost ==
  lost' = TRUE /\ cleared' = FALSE

\* The reader takes it that its frame was dropped, and goes to what
\* sll_get_last_key_frame_list_item_no takes for the last key frame; to the
\* newest frame if it finds none.
Skip(r) ==
  /\ rpc[r] = "missed" /\ recv[r] < headId
  /\ \/ rpc' = [rpc EXCEPT ![r] = "newest"] /\ UNCHANGED <<recv, lost, cleared>>
     \/ /\ rpc' = [rpc EXCEPT ![r] = "lock"]
        /\ \E i \in 2 .. Len(list) : recv' = [recv EXCEPT ![r] = list[i]]
        /\ IF r = Net THEN SetLost ELSE UNCHANGED <<lost, cleared>>
  /\ UNCHANGED <<info, writer, get, sent>>

Newest(r) ==
  /\ rpc[r] = "newest"
  /\ recv' = [recv EXCEPT ![r] = headId]
  /\ rpc' = [rpc EXCEPT ![r] = "lock"]
  /\ IF r = Net THEN SetLost ELSE UNCHANGED <<lost, cleared>>
  /\ UNCHANGED <<info, writer, get, sent>>

\* A frame too long to send is dropped, before its type is looked at.
Drop(r) ==
  /\ rpc[r] = "held" /\ node[get[r]].len > SendMax
  /\ rpc' = [rpc EXCEPT ![r] = "done"]
  /\ IF r = Net THEN SetLost ELSE UNCHANGED <<lost, cleared>>
  /\ UNCHANGED <<info, writer, recv, get, sent>>

\* A key frame ends the waiting, of every reader.
Look(r) ==
  /\ rpc[r] = "held" /\ node[get[r]].len <= SendMax
  /\ rpc' = [rpc EXCEPT ![r] = "test"]
  /\ IF node[get[r]].key
       THEN lost' = FALSE /\ cleared' = (r # Net /\ (cleared \/ lost))
       ELSE UNCHANGED <<lost, cleared>>
  /\ UNCHANGED <<info, writer, recv, get, sent>>

Test(r) ==
  /\ rpc[r] = "test"
  /\ rpc' = [rpc EXCEPT ![r] = IF lost THEN "done" ELSE "send"]
  /\ UNCHANGED <<info, writer, recv, get, flow>>

\* Only Net minds that a frame could not be sent.
Send(r) ==
  /\ rpc[r] = "send"
  /\ rpc' = [rpc EXCEPT ![r] = "done"]
  /\ \/ r = Net /\ sent' = get[r] /\ UNCHANGED <<lost, cleared>>
     \/ r = Net /\ SetLost /\ UNCHANGED sent
     \/ r # Net /\ UNCHANGED flow
  /\ UNCHANGED <<info, writer, recv, get>>

\* Mutant: the last user of a node frees it, whether it is on the list or not.
UnlockOnListMutant(r) ==
  /\ rpc[r] = "done" /\ list # <<>>
  /\ rpc' = [rpc EXCEPT ![r] = "lock"]
  /\ \/ node[get[r]].users > 1 /\ node' = Use(get[r], -1) /\ UNCHANGED <<get, allSize, notFree>>
     \/ /\ node[get[r]].users <= 1
        /\ node' = Free(get[r]) /\ get' = [get EXCEPT ![r] = NULL]
        /\ allSize' = allSize - node[get[r]].len
        /\ notFree' = notFree - node[get[r]].len
  /\ UNCHANGED <<list, pListHead, itemNum, tailId, seqNo, writer, recv, flow>>

\* sll_get_list_item_unlock.  Nothing is given back while the list is empty.
Unlock(r) ==
  /\ rpc[r] = "done"
  /\ rpc' = [rpc EXCEPT ![r] = "lock"]
  /\ \/ list = <<>> /\ UNCHANGED <<node, get, allSize, notFree>>
     \/ /\ list # <<>> /\ (get[r] \in tailId .. headId \/ node[get[r]].users > 1)
        /\ node' = Use(get[r], -1) /\ UNCHANGED <<get, allSize, notFree>>
     \/ /\ list # <<>> /\ get[r] \notin tailId .. headId /\ node[get[r]].users <= 1
        /\ node' = Free(get[r]) /\ get' = [get EXCEPT ![r] = NULL]
        /\ allSize' = allSize - node[get[r]].len
        /\ notFree' = notFree - node[get[r]].len
  /\ UNCHANGED <<list, pListHead, itemNum, tailId, seqNo, writer, recv, flow>>
-----------------------------------------------------------------------------
Encoder  == Room \/ DelTail \/ Add
Source   == \E f \in Frames : Encode(f)
Read(r)  == \/ Lock(r) \/ Miss(r) \/ Wait(r) \/ Skip(r) \/ Newest(r)
            \/ Drop(r) \/ Look(r) \/ Test(r) \/ Send(r) \/ Unlock(r)
Next     == Source \/ Encoder \/ \E r \in Readers : Read(r)
Spec     == Init /\ [][Next]_vars
FairSpec == /\ Spec /\ WF_vars(Source) /\ WF_vars(Encoder)
            /\ \A r \in Readers : WF_vars(Read(r))
-----------------------------------------------------------------------------
(* Properties.                                                             *)

\* The values the variables take.
TypeOK ==
  /\ Live \subseteq Nat /\ node \in [Live -> Nodes]
  /\ list \in Seq(Live) /\ pListHead \in Nat \cup {NULL}
  /\ itemNum \in Int /\ tailId \in Nat /\ seqNo \in Nat
  /\ allSize \in Int /\ notFree \in Int
  /\ wpc \in {"idle", "room", "del", "add"} /\ frame \in Frames
  /\ rpc \in [Readers -> {"lock", "missed", "newest"} \cup Using]
  /\ recv \in [Readers -> Nat] /\ get \in [Readers -> Nat \cup {NULL}]
  /\ lost \in BOOLEAN /\ sent \in Int /\ cleared \in BOOLEAN

\* The list does not run empty once it has had a frame, and nothing is deleted
\* from an empty list: the encoder never drops the frame it added last, so
\* HisiInsertVideoData ends its deleting.  (pListHead is not reset, and a node
\* is not given back, when the list does run empty.)
NeverEmpty == seqNo > 0 \/ wpc = "del" => list # <<>>

\* The list holds the frames tail_id to head_id, in order, item_num counts
\* them, and pListHead is the last of them.
ListWhole ==
  /\ itemNum = Len(list) /\ tailId + itemNum = seqNo
  /\ \A i \in 1 .. Len(list) : list[i] = tailId + i - 1
  /\ seqNo > 1 => pListHead = headId

\* No reader is in the data of a node that was freed, whatever the encoder
\* dropped in the meantime, and user_num is the number of readers in a node.
HeldIsLive ==
  \A r \in Readers : rpc[r] \in Using =>
     get[r] \in Live /\ node[get[r]].users = Cardinality(Held(get[r]))

\* The node sll_get_list_item_lock looks through for its successor is still
\* allocated and on the list.
Shortcut ==
  \A r \in Readers :
     get[r] # NULL /\ tailId <= get[r] /\ get[r] < headId => get[r] \in Live \cap Linked

\* The data of the nodes of S, byte by byte: byte b of node n.
Data(S) == {d \in S \X (1 .. MaxLen) : d[2] <= node[d[1]].len}

\* all_data_size is what the nodes still allocated hold, and
\* all_not_free_data_size the part of it that has left the list: no node is
\* lost, and none is counted twice.
SizesAccounted ==
  /\ allSize = Cardinality(Data(Live))
  /\ notFree = Cardinality(Data(Live \ Linked))

\* After a frame that it did not send, Net sends a key frame before anything
\* else: what the network and the recorder get can be decoded.  The exception is
\* the flag that another reader cleared, at a key frame of its own.
KeyAfterGap ==
  rpc[Net] = "send" => node[get[Net]].key \/ get[Net] = sent + 1 \/ cleared

\* Every reader comes to have read the newest frame, and to have given it back,
\* when the encoder pauses.  Whether it sent it is up to lost_frame.
CatchesUp == \A r \in Readers : seqNo = Last ~> recv[r] = Last /\ rpc[r] \notin Using
=============================================================================
