---------------------------- MODULE FootageProofs ----------------------------
(***************************************************************************)
(* RecordFiles implements FootageStore: every step of the recorder, the    *)
(* player, boot or a crash is a step of the store, or leaves it as it is.  *)
(***************************************************************************)
EXTENDS FillOrderProofs

\* The refinement mapping, and what a step may do to it.
StoreMap == [f \in File |-> StoreState(f)]

\* Writing one file of the store.
LEMMA OneFile ==
  ASSUME NEW g \in File, NEW s,
         \A f \in File : f # g => StoreState(f)' = StoreState(f),
         StoreState(g)' = s
  PROVE  StoreMap' = [StoreMap EXCEPT ![g] = s]
BY DEF StoreMap

\* A step changes states only between WRITEOVER and PLAYING.
OnlyMarks ==
  \A f \in File :
    \/ info'[f].states = info[f].states
    \/ /\ info[f].states  \in {"WRITEOVER", "PLAYING"}
       /\ info'[f].states \in {"WRITEOVER", "PLAYING"}

\* Such a step, if it changes neither the open file nor the files never used,
\* leaves the store as it is.
LEMMA Stutter ==
  ASSUME OnlyMarks, Current' = Current, virgin' = virgin
  PROVE  UNCHANGED Store!vars
<1>1. ASSUME NEW f \in File PROVE StoreState(f)' = StoreState(f)
  <2>1. CASE info'[f].states = info[f].states
    BY <2>1 DEF StoreState
  <2>2. CASE /\ info[f].states  \in {"WRITEOVER", "PLAYING"}
             /\ info'[f].states \in {"WRITEOVER", "PLAYING"}
    BY <2>2 DEF StoreState
  <2> QED
    BY <2>1, <2>2 DEF OnlyMarks
<1>2. StoreMap' = StoreMap
  BY <1>1 DEF StoreMap
<1> QED
  BY <1>2 DEF Store!vars, StoreMap

\* The steps of the search, and those that move only cursors.
LEMMA MovesStutter ==
  ASSUME \/ StartOpen
         \/ \E d \in Disk : StartDisk(d) \/ SelectFile(d) \/ SelectFails(d)
         \/ SkipWrong \/ Advance \/ WrapCursor \/ NextPartition \/ LeaveDisk
         \/ CoverDisabled \/ ChooseAppend \/ ChooseNew \/ StartCover
         \/ CoverDisk \/ EndCover
         \/ Located \/ OpenFails \/ Opened
         \/ CloseFails \/ FinishCursor \/ FinishPartition
         \/ EndOfFile \/ RepairDone
         \/ (\E flag \in BOOLEAN : EnableDiskReCover(flag))
         \/ UNCHANGED vars
  PROVE  UNCHANGED Store!vars
<1>1. UNCHANGED <<info, virgin>>
  BY DEF StartOpen, StartDisk, SelectFile, SelectFails, SkipWrong, Advance,
         WrapCursor, NextPartition, LeaveDisk, CoverDisabled, ChooseAppend,
         ChooseNew, StartCover, CoverDisk, EndCover, Located, OpenFails,
         Opened, CloseFails, FinishCursor, FinishPartition, EndOfFile,
         RepairDone, EnableDiskReCover, vars, index, ghosts
<1>2. \/ UNCHANGED <<rpc, recFile, reason>>
      \/ /\ rpc \notin {"marked", "rec", "closing"}
         /\ rpc' \notin {"marked", "rec", "closing"}
      \/ rpc = "marked" /\ rpc' = "rec" /\ recFile' = recFile
      \/ /\ rpc = "closing" /\ reason = "FILEWRITEERROR"
         /\ rpc' = "rec" /\ recFile' = recFile
      \/ rpc = "closing" /\ reason # "FILEWRITEERROR" /\ rpc' = "idle"
  BY DEF StartOpen, StartDisk, SelectFile, SelectFails, SkipWrong, Advance,
         WrapCursor, NextPartition, LeaveDisk, CoverDisabled, ChooseAppend,
         ChooseNew, StartCover, CoverDisk, EndCover, Located, OpenFails,
         Opened, CloseFails, FinishCursor, FinishPartition, EndOfFile,
         RepairDone, EnableDiskReCover, vars, recVars, NoDisk, Return
<1>3. Current' = Current
  BY <1>2 DEF Current
<1> QED
  BY <1>1, <1>3, Stutter DEF OnlyMarks

\* The steps that set or clear the mark of a player.
LEMMA MarksStutter ==
  ASSUME IInv,
         \/ SkipPlaying \/ SkipStale \/ StopPlay \/ ReleaseFile
         \/ \E f \in File : OpenPlay(f)
  PROVE  UNCHANGED Store!vars
<1>i. /\ info \in [File -> FileInfo] /\ recFile \in File /\ playFile \in File
      /\ recCopy \in FileInfo /\ playCopy \in FileInfo
      /\ RecFileState /\ PlayHold
  BY DEF IInv, TypeOK
<1>1. OnlyMarks
  <2>1. ASSUME NEW f \in File, OpenPlay(f) PROVE OnlyMarks
    BY <1>i, <2>1 DEF OpenPlay, FileInfo, OnlyMarks
  <2>2. CASE StopPlay
    BY <1>i, <2>2 DEF StopPlay, FileInfo, OnlyMarks
  <2>3. CASE ReleaseFile
    BY <1>i, <2>3 DEF ReleaseFile, PlayHold, FileInfo, OnlyMarks
  <2>4. CASE SkipPlaying
    BY <1>i, <2>4 DEF SkipPlaying, RecFileState, OnlyMarks
  <2>5. CASE SkipStale
    BY <1>i, <2>5 DEF SkipStale, Appendable, RecFileState, FileInfo, OnlyMarks
  <2> QED
    BY <2>1, <2>2, <2>3, <2>4, <2>5
<1>2. Current' = Current /\ virgin' = virgin
  BY DEF SkipPlaying, SkipStale, StopPlay, ReleaseFile, OpenPlay, recVars,
         ghosts, Current
<1> QED
  BY <1>1, <1>2, Stutter
-----------------------------------------------------------------------------
(* The steps the store sees.                                               *)

\* MarkWriting takes a free or kept file of the store.
LEMMA MarkTakes ==
  ASSUME IInv, MarkWriting, NEW g \in File, g = recFile
  PROVE  Store!Take(g)
<1>i. info \in [File -> FileInfo] /\ virgin \subseteq File
  BY DEF IInv, TypeOK
<1>1. Current = {} /\ Current' = {g}
  BY DEF MarkWriting, Current
<1>2. StoreState(g) \in {"free", "kept"}
  BY <1>1 DEF MarkWriting, StoreState
<1>3. StoreMap' = [StoreMap EXCEPT ![g] = "open"]
  <2>1. \A f \in File : f # g => StoreState(f)' = StoreState(f)
    BY <1>i, <1>1 DEF MarkWriting, StoreState
  <2>2. StoreState(g)' = "open"
    BY <1>1 DEF StoreState
  <2> QED
    BY <2>1, <2>2, OneFile
<1>4. File \ virgin' = (File \ virgin) \cup {g}
  BY <1>i DEF MarkWriting
<1> QED
  BY <1>1, <1>2, <1>3, <1>4 DEF Store!Take, StoreMap

\* The open file stops being open in state s of the store.
LEMMA Ends ==
  ASSUME NEW g \in File, Current = {g}, Current' = {}, virgin' = virgin,
         NEW s \in {"kept", "bad", "free", "open"}, StoreState(g)' = s,
         \A f \in File : f # g => info'[f].states = info[f].states
  PROVE  Store!End(g)
<1>1. \A f \in File : f # g => StoreState(f)' = StoreState(f)
  BY DEF StoreState
<1>2. StoreMap' = [StoreMap EXCEPT ![g] = s]
  BY <1>1, OneFile
<1> QED
  BY <1>2 DEF Store!End, StoreMap

\* An open fails after the file was marked, or finds the file too short.
LEMMA OpenFailureEnds ==
  ASSUME IInv, MarkedFails \/ TooShort, NEW g \in File, g = recFile
  PROVE  Store!End(g)
<1>i. /\ info \in [File -> FileInfo]
      /\ info[g].states = "WRITING" /\ Current = {g}
  BY DEF IInv, TypeOK, RecFileState, MarkedFails, TooShort, Current
<1>1. Current' = {} /\ virgin' = virgin
  BY DEF MarkedFails, TooShort, Return, ghosts, Current
<1>2. CASE MarkedFails
  <2>1. info' = info
    BY <1>2 DEF MarkedFails, index
  <2>2. StoreState(g)' = "open"
    BY <1>i, <1>1, <2>1 DEF StoreState
  <2> QED
    BY <1>i, <1>1, <2>1, <2>2, Ends
<1>3. CASE TooShort
  <2>1. /\ info'[g].states = "NOWRITE"
        /\ \A f \in File : f # g => info'[f].states = info[f].states
    BY <1>i, <1>3 DEF TooShort
  <2>2. StoreState(g)' = "free"
    BY <1>1, <2>1 DEF StoreState
  <2> QED
    BY <1>i, <1>1, <2>1, <2>2, Ends
<1> QED
  BY <1>2, <1>3

\* A close for want of space, time or recording ends it; one after a write
\* error leaves the file open until its header is closed.
LEMMA CloseEnds ==
  ASSUME IInv, NEW r \in Reason, CloseFile(r), NEW g \in File, g = recFile
  PROVE  Store!End(g) \/ UNCHANGED Store!vars
<1>i. info \in [File -> FileInfo] /\ Current = {g} /\ virgin' = virgin
  BY DEF IInv, TypeOK, CloseFile, ghosts, Current
<1>1. /\ info'[g].states = ClosedStates(r)
      /\ \A f \in File : f # g => info'[f].states = info[f].states
  BY <1>i DEF CloseFile
<1>2. CASE r = "FILEWRITEERROR"
  <2>1. Current' = Current
    BY <1>i, <1>2 DEF CloseFile, Current
  <2>2. \A f \in File : StoreState(f)' = StoreState(f)
    BY <1>i, <1>1, <2>1 DEF StoreState
  <2> QED
    BY <1>i, <2>1, <2>2 DEF Store!vars
<1>3. CASE r # "FILEWRITEERROR"
  <2>1. Current' = {}
    BY <1>3 DEF CloseFile, Current
  <2>2. StoreState(g)' = "kept"
    BY <1>1, <1>3, <2>1 DEF StoreState, ClosedStates
  <2> QED
    BY <1>i, <1>1, <2>1, <2>2, Ends
<1> QED
  BY <1>2, <1>3

\* The end of a close ends the recording of the store, or stutters.
LEMMA HeaderEnds ==
  ASSUME IInv, CloseHeader, NEW g \in File, g = recFile
  PROVE  Store!End(g) \/ UNCHANGED Store!vars
<1>i. info' = info /\ virgin' = virgin /\ Current' = {}
  BY DEF CloseHeader, Return, index, ghosts, Current
<1>1. CASE reason = "FILEWRITEERROR"
  <2>1. Current = {g} /\ info[g].states = "BADFILE"
    BY <1>1 DEF CloseHeader, Current, IInv, RecFileState, ClosedStates
  <2>2. StoreState(g)' = "bad"
    BY <1>i, <2>1 DEF StoreState
  <2> QED
    BY <1>i, <2>1, <2>2, Ends
<1>2. CASE reason # "FILEWRITEERROR"
  <2>1. Current = {}
    BY <1>2 DEF CloseHeader, Current
  <2> QED
    BY <1>i, <2>1, Stutter DEF OnlyMarks
<1> QED
  BY <1>1, <1>2

\* A crash cuts the recording off; after a write error the file is bad.
LEMMA CrashEnds ==
  ASSUME IInv, Crash, NEW g \in File, g = recFile
  PROVE  Store!End(g) \/ UNCHANGED Store!vars
<1>i. info' = info /\ virgin' = virgin /\ Current' = {}
  BY DEF Crash, index, Current
<1>1. CASE Current = {g}
  <2>1. info[g].states \in {"WRITING", "BADFILE"}
    BY <1>1 DEF Current, IInv, RecFileState, ClosedStates
  <2>2. StoreState(g)' \in {"open", "bad"}
    BY <1>i, <2>1 DEF StoreState
  <2> QED
    BY <1>i, <1>1, <2>2, Ends
<1>2. CASE Current # {g}
  <2>1. Current = {}
    BY <1>2 DEF Current
  <2> QED
    BY <1>i, <2>1, Stutter DEF OnlyMarks
<1> QED
  BY <1>1, <1>2

\* Space is reclaimed when the store is full.
LEMMA ReclaimGivesUp ==
  ASSUME FullInv, Reclaim, NEW g \in File, g = recFile
  PROVE  Store!Reclaim(g)
<1>i. /\ info \in [File -> FileInfo] /\ virgin' = virgin
      /\ Current = {} /\ Current' = {}
  BY DEF FullInv, IInv, TypeOK, Reclaim, ghosts, Current
<1>1. info[g].states = "WRITEOVER"
  BY DEF Reclaim, FullInv, IInv, RecFileState
<1>2. StoreMap' = [StoreMap EXCEPT ![g] = "free"]
  <2>1. /\ info'[g].states = "NOWRITE"
        /\ \A f \in File : f # g => info'[f].states = info[f].states
    BY <1>i DEF Reclaim
  <2>2. /\ StoreState(g)' = "free"
        /\ \A f \in File : f # g => StoreState(f)' = StoreState(f)
    BY <1>i, <2>1 DEF StoreState
  <2> QED
    BY <2>2, OneFile
<1>3. virgin = {}
  BY FileParts DEF Reclaim, Covering, FullInv, CoverOnlyWhenFull
<1>4. StoreState(g) = "kept"
  BY <1>i, <1>1 DEF StoreState
<1> QED
  BY <1>i, <1>2, <1>3, <1>4 DEF Store!Reclaim, StoreMap

\* Boot settles what was cut off.
LEMMA RepairSettles ==
  ASSUME IInv, NEW g \in File, RepairFile(g)
  PROVE  Store!Settle(g) \/ UNCHANGED Store!vars
<1>i. /\ info \in [File -> FileInfo] /\ virgin' = virgin
      /\ Current = {} /\ Current' = {}
  BY DEF IInv, TypeOK, RepairFile, recVars, Current
<1>1. ASSUME info[g].states = "WRITING", NEW s \in FixedStates,
             info' = [info EXCEPT ![g].states = s]
      PROVE  Store!Settle(g)
  <2>1. /\ info'[g].states = s
        /\ \A f \in File : f # g => info'[f].states = info[f].states
    BY <1>i, <1>1
  <2>2. /\ StoreState(g)' \in {"kept", "bad", "free"}
        /\ \A f \in File : f # g => StoreState(f)' = StoreState(f)
    BY <1>i, <2>1 DEF StoreState, FixedStates
  <2>3. StoreMap' = [StoreMap EXCEPT ![g] = StoreState(g)']
    BY <2>2, OneFile
  <2>4. StoreState(g) = "open"
    BY <1>i, <1>1 DEF StoreState
  <2> QED
    BY <1>i, <2>2, <2>3, <2>4 DEF Store!Settle, StoreMap
<1>2. ASSUME info[g].states = "PLAYING",
             info' = [info EXCEPT ![g].states = "WRITEOVER"]
      PROVE  UNCHANGED Store!vars
  <2>1. OnlyMarks
    BY <1>i, <1>2 DEF OnlyMarks, FileInfo
  <2> QED
    BY <1>i, <2>1, Stutter
<1> QED
  BY <1>1, <1>2 DEF RepairFile
-----------------------------------------------------------------------------
(* The theorem.                                                            *)

\* The index starts as an empty store.
LEMMA StoreInit == Init => Store!Init
<1> SUFFICES ASSUME Init PROVE Store!Init
  OBVIOUS
<1>1. Current = {} /\ virgin = File
  BY DEF Init, Current
<1>2. ASSUME NEW f \in File PROVE StoreState(f) = "free"
  BY <1>1 DEF Init, NewInfo, StoreState
<1> QED
  BY <1>1, <1>2 DEF Store!Init

\* Every step of the index is a step of the store or leaves it as it is.
LEMMA StoreStep ==
  ASSUME FullInv, [Next]_vars
  PROVE  [Store!Next]_(Store!vars)
<1>i. IInv /\ recFile \in File
  BY DEF FullInv, IInv, TypeOK
<1>1. CASE MarkWriting
  BY <1>i, <1>1, MarkTakes DEF Store!Next
<1>2. CASE MarkedFails \/ TooShort
  BY <1>i, <1>2, OpenFailureEnds DEF Store!Next
<1>3. ASSUME NEW r \in Reason, CloseFile(r) PROVE [Store!Next]_(Store!vars)
  BY <1>i, <1>3, CloseEnds DEF Store!Next
<1>4. CASE CloseHeader
  BY <1>i, <1>4, HeaderEnds DEF Store!Next
<1>5. CASE Crash
  BY <1>i, <1>5, CrashEnds DEF Store!Next
<1>6. CASE Reclaim
  BY <1>i, <1>6, ReclaimGivesUp DEF Store!Next
<1>7. ASSUME NEW f \in File, RepairFile(f) PROVE [Store!Next]_(Store!vars)
  BY <1>i, <1>7, RepairSettles DEF Store!Next
<1>8. CASE \/ SkipPlaying \/ SkipStale \/ StopPlay \/ ReleaseFile
           \/ \E f \in File : OpenPlay(f)
  BY <1>i, <1>8, MarksStutter
<1>9. CASE \/ StartOpen
           \/ \E d \in Disk : StartDisk(d) \/ SelectFile(d) \/ SelectFails(d)
           \/ SkipWrong \/ Advance \/ WrapCursor \/ NextPartition \/ LeaveDisk
           \/ CoverDisabled \/ ChooseAppend \/ ChooseNew \/ StartCover
           \/ CoverDisk \/ EndCover
           \/ Located \/ OpenFails \/ Opened
           \/ CloseFails \/ FinishCursor \/ FinishPartition
           \/ EndOfFile \/ RepairDone
           \/ (\E flag \in BOOLEAN : EnableDiskReCover(flag))
           \/ UNCHANGED vars
  BY <1>9, MovesStutter
<1> QED
  BY <1>1, <1>2, <1>3, <1>4, <1>5, <1>6, <1>7, <1>8, <1>9
     DEF Next, SearchStep, OpenStep, CloseStep, PlayStep, BootStep

\* The index keeps its promise, whatever the number of disks, partitions and
\* files and wherever the process dies.
THEOREM IndexKeepsFootage == Spec => KeepsFootage
<1>1. FullInv /\ [Next]_vars => [Store!Next]_(Store!vars)
  BY StoreStep
<1> QED
  BY StoreInit, <1>1, FullInvariance, PTL DEF Spec, KeepsFootage, Store!Spec
=============================================================================
