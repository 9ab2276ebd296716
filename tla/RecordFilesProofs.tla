-------------------------- MODULE RecordFilesProofs --------------------------
(***************************************************************************)
(* Proofs about RecordFiles, for any number of disks, partitions and files.*)
(***************************************************************************)
EXTENDS RecordFiles, TLAPS

\* The coordinates of a file.
LEMMA FileParts ==
  ASSUME NEW f \in File
  PROVE  /\ f[1] \in Disk /\ f[2] \in Part /\ f[3] \in Pos
         /\ <<f[1], f[2]>> \in Disk \X Part
         /\ f = <<f[1], f[2], f[3]>>
BY DEF File

\* A file is where its coordinates say.
LEMMA PartsFile ==
  ASSUME NEW d \in Disk, NEW p \in Part, NEW n \in Pos
  PROVE  <<d, p, n>> \in File
BY DEF File

\* There is a file.
LEMMA AnyFileOK == AnyFile \in File
BY SizesAssumption DEF AnyFile, File, Disk, Part, Pos

\* The FILEINFO of a new file has its type.
LEMMA NewInfoOK == NewInfo \in FileInfo
BY DEF NewInfo, FileInfo, FileState

\* Initially every variable has its type.
LEMMA TypeInit == Init => TypeOK
<1> SUFFICES ASSUME Init PROVE TypeOK
  OBVIOUS
<1>1. info \in [File -> FileInfo]
  BY NewInfoOK DEF Init
<1>2. curFilePos \in [Disk \X Part -> 0 .. NumFiles]
  BY SizesAssumption DEF Init
<1>3. disk \in [Disk -> DiskState]
  BY SizesAssumption DEF Init, DiskState
<1>4. /\ rpc \in RecPc /\ goal \in {"open", "locate"} /\ reason \in Reason
      /\ firstSkip \in BOOLEAN
  BY DEF Init, RecPc, Searching, Reason
<1>6. recFile \in File /\ recCopy \in FileInfo /\ scan \in 1 .. NumDisks + 1
  BY SizesAssumption, AnyFileOK, NewInfoOK DEF Init
<1>5. /\ ppc \in {"idle", "hold", "follow", "release"}
      /\ playFile \in File /\ playCopy \in FileInfo
      /\ virgin \subseteq File /\ cutOff \subseteq File
  BY AnyFileOK, NewInfoOK DEF Init
<1> QED
  BY <1>1, <1>2, <1>3, <1>4, <1>5, <1>6 DEF TypeOK
-----------------------------------------------------------------------------
(* Which steps write which part of the state.                              *)

\* fileinfo.log: the steps that write a FILEINFO.
LEMMA InfoWriters ==
  ASSUME [Next]_vars
  PROVE  \/ UNCHANGED info
         \/ SkipPlaying \/ Reclaim \/ SkipStale \/ MarkWriting \/ TooShort
         \/ \E r \in Reason : CloseFile(r)
         \/ \E f \in File : OpenPlay(f) \/ RepairFile(f)
         \/ StopPlay \/ ReleaseFile
BY DEF Next, SearchStep, OpenStep, CloseStep, PlayStep, BootStep, vars, index,
       StartOpen, StartDisk, SelectFile, SelectFails, SkipWrong, Advance,
       WrapCursor, NextPartition, LeaveDisk, CoverDisabled, ChooseAppend,
       ChooseNew, StartCover, CoverDisk, EndCover, Located, OpenFails,
       MarkedFails, Opened, CloseFails, CloseHeader, FinishCursor,
       FinishPartition, EndOfFile, Crash, RepairDone, EnableDiskReCover

\* fileinfo.log: the steps that write a cursor.
LEMMA CursorWriters ==
  ASSUME [Next]_vars
  PROVE  UNCHANGED curFilePos \/ Advance \/ WrapCursor \/ FinishCursor
BY DEF Next, SearchStep, OpenStep, CloseStep, PlayStep, BootStep, vars, index,
       StartOpen, StartDisk, SelectFile, SelectFails, SkipWrong, SkipPlaying,
       NextPartition, LeaveDisk, CoverDisabled, Reclaim, SkipStale,
       ChooseAppend, ChooseNew, StartCover, CoverDisk, EndCover, Located,
       OpenFails, MarkWriting, MarkedFails, TooShort, Opened, CloseFile,
       CloseFails, CloseHeader, FinishPartition, OpenPlay, StopPlay,
       EndOfFile, ReleaseFile, Crash, RepairFile, RepairDone,
       EnableDiskReCover

\* diskinfo.log.
LEMMA DiskWriters ==
  ASSUME [Next]_vars
  PROVE  \/ UNCHANGED disk
         \/ \E d \in Disk : StartDisk(d)
         \/ NextPartition \/ LeaveDisk \/ CoverDisk \/ FinishPartition
         \/ \E flag \in BOOLEAN : EnableDiskReCover(flag)
BY DEF Next, SearchStep, OpenStep, CloseStep, PlayStep, BootStep, vars, index,
       StartOpen, SelectFile, SelectFails, SkipWrong, SkipPlaying, Advance,
       WrapCursor, CoverDisabled, Reclaim, SkipStale, ChooseAppend,
       ChooseNew, StartCover, EndCover, Located, OpenFails, MarkWriting,
       MarkedFails, TooShort, Opened, CloseFile, CloseFails, CloseHeader,
       FinishCursor, OpenPlay, StopPlay, EndOfFile, ReleaseFile, Crash,
       RepairFile, RepairDone

\* The play thread.
LEMMA PlayWriters ==
  ASSUME [Next]_vars
  PROVE  \/ UNCHANGED playVars
         \/ \E f \in File : OpenPlay(f)
         \/ StopPlay \/ EndOfFile \/ ReleaseFile \/ Crash
BY DEF Next, SearchStep, OpenStep, CloseStep, PlayStep, BootStep, vars,
       StartOpen, StartDisk, SelectFile, SelectFails, SkipWrong, SkipPlaying,
       Advance, WrapCursor, NextPartition, LeaveDisk, CoverDisabled, Reclaim,
       SkipStale, ChooseAppend, ChooseNew, StartCover, CoverDisk, EndCover,
       Located, OpenFails, MarkWriting, MarkedFails, TooShort, Opened,
       CloseFile, CloseFails, CloseHeader, FinishCursor, FinishPartition,
       RepairFile, RepairDone, EnableDiskReCover

\* The ghosts.
LEMMA GhostWriters ==
  ASSUME [Next]_vars
  PROVE  \/ UNCHANGED ghosts
         \/ MarkWriting \/ MarkedFails \/ Crash
         \/ \E f \in File : RepairFile(f)
BY DEF Next, SearchStep, OpenStep, CloseStep, PlayStep, BootStep, vars,
       StartOpen, StartDisk, SelectFile, SelectFails, SkipWrong, SkipPlaying,
       Advance, WrapCursor, NextPartition, LeaveDisk, CoverDisabled, Reclaim,
       SkipStale, ChooseAppend, ChooseNew, StartCover, CoverDisk, EndCover,
       Located, OpenFails, TooShort, Opened, CloseFile, CloseFails,
       CloseHeader, FinishCursor, FinishPartition, OpenPlay, StopPlay,
       EndOfFile, ReleaseFile, RepairDone, EnableDiskReCover
-----------------------------------------------------------------------------
(* Every step keeps the types.                                             *)

\* Each step keeps the type of the file records.
LEMMA InfoType ==
  ASSUME TypeOK, [Next]_vars
  PROVE  info' \in [File -> FileInfo]
<1> USE DEF TypeOK
<1>1. CASE UNCHANGED info
  BY <1>1
<1>2. CASE SkipPlaying
  BY <1>2 DEF SkipPlaying
<1>3. CASE Reclaim
  BY <1>3 DEF Reclaim, FileInfo, FileState
<1>4. CASE SkipStale
  BY <1>4 DEF SkipStale, FileInfo
<1>5. CASE MarkWriting
  BY <1>5 DEF MarkWriting, FileInfo, FileState
<1>6. CASE TooShort
  BY <1>6 DEF TooShort, FileInfo, FileState
<1>7. ASSUME NEW r \in Reason, CloseFile(r) PROVE info' \in [File -> FileInfo]
  BY <1>7 DEF CloseFile, ClosedStates, FileInfo, FileState
<1>8. ASSUME NEW f \in File, OpenPlay(f) PROVE info' \in [File -> FileInfo]
  BY <1>8 DEF OpenPlay, FileInfo, FileState
<1>9. ASSUME NEW f \in File, RepairFile(f) PROVE info' \in [File -> FileInfo]
  BY <1>9 DEF RepairFile, FixedStates, FileInfo, FileState
<1>10. CASE StopPlay
  BY <1>10 DEF StopPlay, FileInfo, FileState
<1>11. CASE ReleaseFile
  BY <1>11 DEF ReleaseFile, FileInfo, FileState
<1> QED
  BY <1>1, <1>2, <1>3, <1>4, <1>5, <1>6, <1>7, <1>8, <1>9, <1>10, <1>11,
     InfoWriters

\* Each step keeps the type of the cursors.
LEMMA CursorType ==
  ASSUME TypeOK, RecordingAtCursor, [Next]_vars
  PROVE  curFilePos' \in [Disk \X Part -> 0 .. NumFiles]
<1> USE SizesAssumption, FileParts DEF TypeOK
<1>1. CASE UNCHANGED curFilePos
  BY <1>1
<1>2. CASE Advance
  <2>1. curFilePos[<<recFile[1], recFile[2]>>] \in Pos
    BY <1>2 DEF Advance, RecordingAtCursor
  <2> QED
    BY <1>2, <2>1 DEF Advance, Pos
<1>3. CASE WrapCursor
  BY <1>3 DEF WrapCursor
<1>4. CASE FinishCursor
  <2>1. recFile[3] \in 0 .. NumFiles - 1
    BY DEF Pos
  <2> QED
    BY <1>4, <2>1 DEF FinishCursor
<1> QED
  BY <1>1, <1>2, <1>3, <1>4, CursorWriters

\* A disk's partition number and its recording flag can be written.
LEMMA DiskWrite ==
  ASSUME NEW g \in [Disk -> DiskState], NEW d \in Disk,
         NEW p \in 1 .. NumParts + 1, NEW b \in BOOLEAN
  PROVE  /\ [g EXCEPT ![d].iPartitionId = p] \in [Disk -> DiskState]
         /\ [g EXCEPT ![d].iPartitionId = p, ![d].IsRecording = b]
              \in [Disk -> DiskState]
BY DEF DiskState

\* Each step keeps the type of the disk records.
LEMMA DiskType ==
  ASSUME TypeOK, PartitionStands, [Next]_vars
  PROVE  disk' \in [Disk -> DiskState]
<1>0. /\ recFile[1] \in Disk /\ recFile[2] \in Part
      /\ disk \in [Disk -> DiskState]
  BY FileParts DEF TypeOK
<1>1. CASE UNCHANGED disk
  BY <1>0, <1>1
<1>2. ASSUME NEW d \in Disk, StartDisk(d) PROVE disk' \in [Disk -> DiskState]
  BY <1>0, <1>2 DEF StartDisk, DiskState
<1>3. CASE NextPartition
  <2>1. disk[recFile[1]].iPartitionId + 1 \in 1 .. NumParts + 1
    BY <1>0, <1>3, SizesAssumption DEF NextPartition, PartitionStands, Part
  <2> QED
    BY <1>0, <1>3, <2>1, DiskWrite DEF NextPartition
<1>4. CASE LeaveDisk
  <2>1. 1 \in 1 .. NumParts + 1
    BY SizesAssumption
  <2> QED
    BY <1>0, <1>4, <2>1, DiskWrite DEF LeaveDisk
<1>5. CASE CoverDisk
  BY <1>0, <1>5 DEF CoverDisk, DiskState
<1>6. CASE FinishPartition
  <2>1. /\ 1 \in 1 .. NumParts + 1
        /\ ~LastPartition(recFile[1]) =>
             disk[recFile[1]].iPartitionId + 1 \in 1 .. NumParts + 1
    BY <1>0, <1>6, SizesAssumption
       DEF FinishPartition, PartitionStands, Part, LastPartition
  <2> QED
    BY <1>0, <1>6, <2>1, DiskWrite DEF FinishPartition
<1>7. ASSUME NEW flag \in BOOLEAN, EnableDiskReCover(flag)
      PROVE disk' \in [Disk -> DiskState]
  BY <1>0, <1>7 DEF EnableDiskReCover, DiskState
<1> QED
  BY <1>1, <1>2, <1>3, <1>4, <1>5, <1>6, <1>7, DiskWriters

\* Each step keeps the type of the play thread's variables.
LEMMA PlayType ==
  ASSUME TypeOK, [Next]_vars
  PROVE  /\ ppc' \in {"idle", "hold", "follow", "release"}
         /\ playFile' \in File /\ playCopy' \in FileInfo
<1> USE AnyFileOK, NewInfoOK DEF TypeOK, PlayReturn
<1>1. CASE UNCHANGED playVars
  BY <1>1 DEF playVars
<1>2. ASSUME NEW f \in File, OpenPlay(f)
      PROVE  ppc' \in {"hold", "follow"} /\ playFile' = f
             /\ playCopy' = playCopy
  BY <1>2 DEF OpenPlay
<1>3. CASE StopPlay
  BY <1>3 DEF StopPlay
<1>4. CASE EndOfFile
  BY <1>4 DEF EndOfFile
<1>5. CASE ReleaseFile
  BY <1>5 DEF ReleaseFile
<1>6. CASE Crash
  BY <1>6 DEF Crash
<1> QED
  BY <1>1, <1>2, <1>3, <1>4, <1>5, <1>6, PlayWriters

\* Every program counter a step of the record thread goes to is one.
LEMMA PcOK ==
  /\ \A pc \in {"idle", "rec", "exit", "repair", "chosen", "marked",
               "closing", "finish", "finishPart", "search", "decide", "skip",
               "advance", "wrap", "nextPart", "lastPart", "cover"} :
       pc \in RecPc
  /\ "open" \in {"open", "locate"} /\ "locate" \in {"open", "locate"}
  /\ "STOPRECORD" \in Reason
BY DEF RecPc, Searching, Opening, Closing, Reason

\* Each step keeps the type of the record thread's variables.
LEMMA RecType ==
  ASSUME TypeOK, [Next]_vars
  PROVE  /\ rpc' \in RecPc /\ goal' \in {"open", "locate"}
         /\ recFile' \in File /\ recCopy' \in FileInfo
         /\ reason' \in Reason /\ scan' \in 1 .. NumDisks + 1
         /\ firstSkip' \in BOOLEAN
<1> DEFINE RecTyped == /\ rpc \in RecPc /\ goal \in {"open", "locate"}
                       /\ recFile \in File /\ recCopy \in FileInfo
                       /\ reason \in Reason /\ scan \in 1 .. NumDisks + 1
                       /\ firstSkip \in BOOLEAN
<1>t. RecTyped
  BY DEF TypeOK
<1>c. 1 \in 1 .. NumDisks + 1 /\ AnyFile \in File /\ NewInfo \in FileInfo
  BY SizesAssumption, AnyFileOK, NewInfoOK
<1>1. CASE UNCHANGED recVars
  BY <1>t, <1>1 DEF recVars
<1>2. CASE \/ \E d \in Disk : SelectFails(d)
           \/ CoverDisabled \/ Located \/ OpenFails \/ MarkedFails
           \/ FinishPartition
  BY <1>t, <1>2, <1>c, PcOK
     DEF SelectFails, CoverDisabled, Located, OpenFails, MarkedFails,
         FinishPartition, NoDisk, Return
<1>3. CASE EndCover \/ CloseFails \/ CloseHeader \/ FinishCursor
  BY <1>t, <1>3, <1>c, PcOK
     DEF EndCover, CloseFails, CloseHeader, FinishCursor, NoDisk, Return
<1>4. ASSUME NEW d \in Disk, SelectFile(d) PROVE RecTyped'
  <2>1. /\ recFile' \in File /\ recCopy' \in FileInfo
    BY <1>4, PartsFile DEF SelectFile, TypeOK
  <2> QED
    BY <1>t, <1>4, <2>1, PcOK DEF SelectFile
<1>5. CASE StartOpen \/ SkipWrong \/ SkipPlaying \/ Advance \/ WrapCursor
           \/ NextPartition \/ LeaveDisk \/ Reclaim \/ SkipStale
           \/ ChooseAppend \/ ChooseNew
  BY <1>t, <1>5, <1>c, PcOK
     DEF StartOpen, SkipWrong, SkipPlaying, Advance, WrapCursor,
         NextPartition, LeaveDisk, Reclaim, SkipStale, ChooseAppend,
         ChooseNew
<1>6. CASE StartCover
  BY <1>t, <1>6, <1>c, PcOK DEF StartCover
<1>7. CASE CoverDisk
  <2>1. scan' \in 1 .. NumDisks + 1
    BY <1>7, SizesAssumption DEF CoverDisk, Disk
  <2> QED
    BY <1>t, <1>7, <2>1 DEF CoverDisk
<1>8. CASE MarkWriting
  <2>1. recCopy' \in FileInfo
    BY <1>8 DEF MarkWriting, TypeOK
  <2> QED
    BY <1>t, <1>8, <2>1, PcOK DEF MarkWriting
<1>9. CASE TooShort \/ Opened
  BY <1>t, <1>9, <1>c, PcOK DEF TooShort, Opened
<1>10. ASSUME NEW r \in Reason, CloseFile(r) PROVE RecTyped'
  BY <1>t, <1>10, PcOK DEF CloseFile
<1>11. CASE Crash
  BY <1>t, <1>11, <1>c, PcOK DEF Crash
<1>12. CASE RepairDone
  BY <1>t, <1>12, PcOK DEF RepairDone
<1>13. CASE \/ \E d \in Disk : StartDisk(d)
            \/ \E f \in File : OpenPlay(f) \/ RepairFile(f)
            \/ StopPlay \/ EndOfFile \/ ReleaseFile
            \/ \E flag \in BOOLEAN : EnableDiskReCover(flag)
  <2>1. UNCHANGED recVars
    BY <1>13 DEF StartDisk, OpenPlay, RepairFile, StopPlay, EndOfFile,
                 ReleaseFile, EnableDiskReCover
  <2> QED
    BY <1>1, <2>1
<1> QED
  BY <1>t, <1>1, <1>2, <1>3, <1>4, <1>5, <1>6, <1>7, <1>8, <1>9, <1>10,
     <1>11, <1>12, <1>13
     DEF Next, SearchStep, OpenStep, CloseStep, PlayStep, BootStep, vars

\* The ghosts.
LEMMA GhostType ==
  ASSUME TypeOK, [Next]_vars
  PROVE  virgin' \subseteq File /\ cutOff' \subseteq File
<1>1. CASE UNCHANGED ghosts
  BY <1>1 DEF TypeOK, ghosts
<1>2. CASE MarkWriting
  BY <1>2 DEF MarkWriting, TypeOK
<1>3. CASE MarkedFails
  BY <1>3 DEF MarkedFails, TypeOK
<1>4. CASE Crash
  BY <1>4 DEF Crash, TypeOK
<1>5. ASSUME NEW f \in File, RepairFile(f)
      PROVE  virgin' \subseteq File /\ cutOff' \subseteq File
  BY <1>5 DEF RepairFile, TypeOK
<1> QED
  BY <1>1, <1>2, <1>3, <1>4, <1>5, GhostWriters

\* Each step keeps the type invariant.
LEMMA TypeStep ==
  ASSUME TypeOK, RecordingAtCursor, PartitionStands, [Next]_vars
  PROVE  TypeOK'
BY InfoType, CursorType, DiskType, PlayType, RecType, GhostType DEF TypeOK
-----------------------------------------------------------------------------
(* Every step keeps the cursors under the file the record thread handles.  *)

\* Where RecordingAtCursor says something, and where PartitionStands does.
LEMMA NoFileAtHand ==
  ASSUME rpc' \in {"idle", "exit", "repair", "search", "cover", "lastPart"}
  PROVE  RecordingAtCursor' /\ PartitionStands'
BY DEF RecordingAtCursor, PartitionStands, Opening

\* Each step keeps cursor, partition and disk at the file in hand.
LEMMA CursorStep ==
  ASSUME TypeOK, RecordingAtCursor, PartitionStands, [Next]_vars
  PROVE  RecordingAtCursor' /\ PartitionStands'
<1> DEFINE AtCursor == RecordingAtCursor /\ PartitionStands
<1>1. CASE UNCHANGED <<curFilePos, disk, rpc, recFile>>
  BY <1>1 DEF RecordingAtCursor, PartitionStands
<1>2. CASE \/ StartOpen
           \/ \E d \in Disk : StartDisk(d) \/ SelectFails(d)
           \/ NextPartition \/ LeaveDisk \/ CoverDisabled \/ StartCover
           \/ CoverDisk \/ EndCover
           \/ Located \/ OpenFails \/ MarkedFails \/ TooShort
           \/ FinishPartition \/ Crash \/ RepairDone
           \/ \E flag \in BOOLEAN : EnableDiskReCover(flag)
  <2>1. rpc' \in {"idle", "exit", "repair", "search", "cover", "lastPart"}
    BY <1>2 DEF StartOpen, StartDisk, SelectFails, NextPartition, LeaveDisk,
                CoverDisabled, StartCover, CoverDisk, EndCover, Located,
                OpenFails, MarkedFails, TooShort, FinishPartition, Crash,
                RepairDone, EnableDiskReCover, NoDisk, Return, recVars
  <2> QED
    BY <2>1, NoFileAtHand
<1>3. ASSUME NEW d \in Disk, SelectFile(d) PROVE AtCursor'
  BY <1>3 DEF SelectFile, index, RecordingAtCursor, PartitionStands
<1>4. CASE \/ SkipWrong \/ SkipPlaying \/ Reclaim \/ SkipStale
           \/ ChooseAppend \/ ChooseNew \/ MarkWriting \/ Opened
           \/ \E r \in Reason : CloseFile(r)
           \/ CloseFails \/ CloseHeader
  <2>1. /\ rpc \in {"decide", "skip"} \cup Opening \cup {"rec", "closing"}
        /\ UNCHANGED <<curFilePos, disk>>
        /\ \/ rpc' = "idle"
           \/ /\ UNCHANGED recFile
              /\ rpc' \in {"skip", "advance"} \cup Opening \cup
                          {"rec", "closing", "finish"}
    BY <1>4 DEF SkipWrong, SkipPlaying, Reclaim, SkipStale, ChooseAppend,
                ChooseNew, MarkWriting, Opened, CloseFile, CloseFails,
                CloseHeader, Return, index, Opening
  <2> QED
    BY <2>1, NoFileAtHand DEF RecordingAtCursor, PartitionStands, Opening
<1>5. CASE Advance
  BY <1>5 DEF Advance, RecordingAtCursor, PartitionStands, Opening
<1>6. CASE WrapCursor
  BY <1>6 DEF WrapCursor, RecordingAtCursor, PartitionStands, Opening
<1>7. CASE FinishCursor
  BY <1>7, NoFileAtHand
     DEF FinishCursor, Return, RecordingAtCursor, PartitionStands, Opening
<1>8. CASE PlayStep \/ (\E f \in File : RepairFile(f)) \/ UNCHANGED vars
  <2>1. UNCHANGED <<curFilePos, disk, rpc, recFile>>
    BY <1>8 DEF PlayStep, OpenPlay, StopPlay, EndOfFile, ReleaseFile,
                RepairFile, vars, index, recVars
  <2> QED
    BY <1>1, <2>1
<1> QED
  BY <1>2, <1>3, <1>4, <1>5, <1>6, <1>7, <1>8
     DEF Next, SearchStep, OpenStep, CloseStep, BootStep
-----------------------------------------------------------------------------
(* Boot and the play thread.                                               *)

\* Each step keeps the player out while boot is under way.
LEMMA BootStepAlone ==
  ASSUME BootAlone, [Next]_vars
  PROVE  BootAlone'
<1>1. \/ UNCHANGED <<rpc, goal>>
      \/ rpc' # "repair" /\ (goal' = goal \/ goal' = "open")
      \/ Crash
  BY DEF Next, SearchStep, OpenStep, CloseStep, PlayStep, BootStep, vars,
         index, recVars, StartOpen, StartDisk, SelectFile, SelectFails,
         SkipWrong, SkipPlaying, Advance, WrapCursor, NextPartition,
         LeaveDisk, CoverDisabled, Reclaim, SkipStale, ChooseAppend,
         ChooseNew, StartCover, CoverDisk, EndCover, Located, OpenFails,
         MarkWriting, MarkedFails, TooShort, Opened, CloseFile, CloseFails,
         CloseHeader, FinishCursor, FinishPartition, OpenPlay, StopPlay,
         EndOfFile, ReleaseFile, RepairFile, RepairDone, EnableDiskReCover,
         NoDisk, Return
<1>2. CASE UNCHANGED playVars
  BY <1>1, <1>2 DEF BootAlone, Booting, playVars, Crash, PlayReturn
<1>3. ASSUME NEW f \in File, OpenPlay(f) PROVE BootAlone'
  BY <1>3 DEF OpenPlay, BootAlone, Booting, recVars
<1>4. CASE StopPlay \/ EndOfFile \/ ReleaseFile
  BY <1>4 DEF StopPlay, EndOfFile, ReleaseFile, BootAlone, Booting, recVars,
              PlayReturn
<1>5. CASE Crash
  BY <1>5 DEF Crash, BootAlone, Booting, PlayReturn
<1> QED
  BY <1>2, <1>3, <1>4, <1>5, PlayWriters
-----------------------------------------------------------------------------
(* The FILEINFO of the file at hand, whoever writes it.                    *)

\* Where RecFileState says nothing.
LEMMA NoFileStated ==
  ASSUME rpc' \in {"idle", "exit", "repair", "search", "cover", "lastPart",
                   "wrap", "nextPart", "finishPart"}
  PROVE  RecFileState'
BY DEF RecFileState

\* Each step keeps what the record thread relies on about its file.
LEMMA RecFileStep ==
  ASSUME IInv, [Next]_vars
  PROVE  RecFileState'
<1>i. /\ RecFileState /\ PlayHold
      /\ recFile \in File /\ playFile \in File
      /\ info \in [File -> FileInfo] /\ recCopy \in FileInfo
  BY DEF IInv, TypeOK
<1>1. CASE UNCHANGED <<info, rpc, recFile, recCopy, reason>>
  BY <1>i, <1>1 DEF RecFileState
<1>2. CASE \/ StartOpen
           \/ \E d \in Disk : StartDisk(d) \/ SelectFails(d)
           \/ Advance \/ WrapCursor \/ NextPartition
           \/ LeaveDisk \/ CoverDisabled \/ StartCover
           \/ CoverDisk \/ EndCover
           \/ Located \/ OpenFails \/ MarkedFails \/ TooShort
           \/ FinishCursor \/ FinishPartition
           \/ Crash \/ RepairDone
           \/ \E flag \in BOOLEAN : EnableDiskReCover(flag)
  <2>1. rpc' \in {"idle", "exit", "repair", "search", "cover", "lastPart",
                  "wrap", "nextPart", "finishPart"}
    BY <1>2 DEF StartOpen, StartDisk, SelectFails, Advance, WrapCursor,
                NextPartition, LeaveDisk, CoverDisabled, StartCover,
                CoverDisk, EndCover, Located, OpenFails, MarkedFails,
                TooShort, FinishCursor, FinishPartition, Crash, RepairDone,
                EnableDiskReCover, NoDisk, Return, recVars
  <2> QED
    BY <2>1, NoFileStated
<1>3. ASSUME NEW d \in Disk, SelectFile(d) PROVE RecFileState'
  BY <1>3 DEF SelectFile, index, RecFileState
<1>4. CASE SkipWrong
  BY <1>i, <1>4 DEF SkipWrong, index, RecFileState
<1>16. CASE SkipPlaying
  BY <1>i, <1>16 DEF SkipPlaying, RecFileState
<1>17. CASE SkipStale
  BY <1>i, <1>17 DEF SkipStale, Appendable, RecFileState
<1>18. CASE CloseHeader
  BY <1>i, <1>18, NoFileStated
     DEF CloseHeader, Return, index, RecFileState, ClosedStates
<1>5. CASE Reclaim
  BY <1>i, <1>5 DEF Reclaim, RecFileState
<1>6. CASE ChooseAppend \/ ChooseNew
  BY <1>i, <1>6 DEF ChooseAppend, ChooseNew, Appendable, index, RecFileState
<1>7. CASE MarkWriting
  BY <1>i, <1>7 DEF MarkWriting, RecFileState, FileInfo
<1>8. CASE Opened
  BY <1>i, <1>8 DEF Opened, index, RecFileState
<1>9. ASSUME NEW r \in Reason, CloseFile(r) PROVE RecFileState'
  BY <1>i, <1>9 DEF CloseFile, RecFileState
<1>10. CASE CloseFails
  BY <1>i, <1>10
     DEF CloseFails, Return, index, RecFileState, ClosedStates
<1>11. ASSUME NEW f \in File, OpenPlay(f) PROVE RecFileState'
  <2>1. /\ UNCHANGED <<rpc, recFile, recCopy, reason>>
        /\ rpc \notin Searching \cup Opening \cup Closing
    BY <1>11 DEF OpenPlay, recVars, LogMutexTaken
  <2>2. rpc = "rec" => info'[recFile] = info[recFile]
    BY <1>i, <1>11 DEF OpenPlay, RecFileState
  <2> QED
    BY <1>i, <2>1, <2>2 DEF RecFileState, Searching, Opening, Closing
<1>12. CASE StopPlay
  <2>1. /\ UNCHANGED <<rpc, recFile, recCopy, reason>>
        /\ rpc \notin Searching \cup Opening \cup Closing
    BY <1>12 DEF StopPlay, recVars, LogMutexTaken
  <2>2. rpc = "rec" => info'[recFile] = info[recFile]
    BY <1>i, <1>12 DEF StopPlay, RecFileState
  <2> QED
    BY <1>i, <2>1, <2>2 DEF RecFileState, Searching, Opening, Closing
<1>13. CASE ReleaseFile
  <2>1. /\ UNCHANGED <<rpc, recFile, recCopy, reason>>
        /\ \A f \in File : f # playFile => UNCHANGED info[f]
    BY <1>i, <1>13 DEF ReleaseFile, recVars
  <2>2. /\ info[playFile].states = "PLAYING"
        /\ rpc \in Opening \cup {"rec", "closing"} => recFile # playFile
    BY <1>i, <1>13 DEF ReleaseFile, PlayHold
  <2>3. info'[playFile].states = "WRITEOVER"
    BY <1>i, <1>13 DEF ReleaseFile
  <2>4. CASE recFile = playFile
    BY <1>i, <2>1, <2>2, <2>3, <2>4 DEF RecFileState, Opening
  <2>5. CASE recFile # playFile
    BY <1>i, <2>1, <2>5 DEF RecFileState
  <2> QED
    BY <2>4, <2>5
<1>14. ASSUME NEW f \in File, RepairFile(f) PROVE RecFileState'
  BY <1>14, NoFileStated DEF RepairFile, recVars
<1>15. CASE EndOfFile \/ UNCHANGED vars
  BY <1>1, <1>15 DEF EndOfFile, vars, index, recVars
<1> QED
  BY <1>2, <1>3, <1>4, <1>5, <1>6, <1>7, <1>8, <1>9, <1>10, <1>11, <1>12,
     <1>13, <1>14, <1>15, <1>16, <1>17, <1>18
     DEF Next, SearchStep, OpenStep, CloseStep, PlayStep, BootStep

\* The file the player holds is never the file at hand of an opening, a
\* recording or a close: their states differ.
LEMMA HoldStep ==
  ASSUME IInv, [Next]_vars, RecFileState'
  PROVE  PlayHold'
<1> DEFINE Held == ppc \in {"hold", "release"} =>
                     info[playFile].states = "PLAYING"
<1>i. /\ RecFileState /\ Held
      /\ recFile \in File /\ playFile \in File
      /\ info \in [File -> FileInfo] /\ recCopy \in FileInfo
  BY DEF IInv, TypeOK, PlayHold
<1>1. Held'
  <2>1. ASSUME UNCHANGED playVars,
               info[recFile].states # "PLAYING",
               \A f \in File : f # recFile => UNCHANGED info[f]
        PROVE  Held'
    BY <1>i, <2>1 DEF playVars
  <2>2. CASE UNCHANGED <<info, playVars>>
    BY <1>i, <2>2 DEF playVars
  <2>3. CASE SkipPlaying
    BY <1>i, <2>3 DEF SkipPlaying, RecFileState, playVars
  <2>4. CASE Reclaim \/ SkipStale
    BY <1>i, <2>1, <2>4 DEF Reclaim, SkipStale, Appendable, RecFileState
  <2>5. CASE MarkWriting
    BY <1>i, <2>1, <2>5 DEF MarkWriting, RecFileState
  <2>10. CASE TooShort
    BY <1>i, <2>1, <2>10 DEF TooShort, RecFileState
  <2>11. ASSUME NEW r \in Reason, CloseFile(r) PROVE Held'
    BY <1>i, <2>1, <2>11 DEF CloseFile, RecFileState
  <2>6. ASSUME NEW f \in File, OpenPlay(f) PROVE Held'
    BY <1>i, <2>6 DEF OpenPlay, FileInfo
  <2>7. CASE StopPlay \/ ReleaseFile \/ Crash
    BY <2>7 DEF StopPlay, ReleaseFile, Crash, PlayReturn
  <2>8. CASE EndOfFile
    BY <2>8 DEF EndOfFile, PlayReturn, index
  <2>9. ASSUME NEW f \in File, RepairFile(f) PROVE Held'
    BY <2>9 DEF RepairFile, IInv, BootAlone, playVars
  <2> HIDE DEF Held
  <2> QED
    BY <2>2, <2>3, <2>4, <2>5, <2>6, <2>7, <2>8, <2>9, <2>10, <2>11,
       InfoWriters, PlayWriters
<1>2. rpc' \in Opening \cup {"rec", "closing"} =>
        info'[recFile'].states # "PLAYING"
  BY DEF RecFileState, ClosedStates, Opening
<1> QED
  BY <1>1, <1>2 DEF PlayHold
-----------------------------------------------------------------------------
(* Every file marked WRITING is accounted for.                             *)

\* Each step keeps every WRITING mark accounted for.
LEMMA AccountedStep ==
  ASSUME IInv, [Next]_vars, RecFileState'
  PROVE  WritingAccounted'
<1> DEFINE Open(f) == rpc \in {"marked", "rec"} /\ f = recFile
           Accounted == \A f \in File : info[f].states = "WRITING" =>
                                          f \in cutOff \/ Open(f)
<1>i. /\ RecFileState /\ Accounted
      /\ recFile \in File /\ playFile \in File /\ virgin \subseteq File
      /\ info \in [File -> FileInfo] /\ recCopy \in FileInfo
  BY DEF IInv, TypeOK, WritingAccounted
<1>1. Accounted'
  \* No FILEINFO becomes WRITING, and the open file stays the open file.
  <2>1. ASSUME \A f \in File : info'[f].states = "WRITING" =>
                               info[f].states = "WRITING",
               cutOff \subseteq cutOff',
               \/ UNCHANGED <<rpc, recFile>>
               \/ rpc \notin {"marked", "rec"}
               \/ rpc' \in {"marked", "rec"} /\ recFile' = recFile
               \/ info'[recFile].states # "WRITING"
        PROVE  Accounted'
    BY <1>i, <2>1
  <2>2. CASE \/ StartOpen
             \/ \E d \in Disk : StartDisk(d) \/ SelectFile(d) \/ SelectFails(d)
             \/ SkipWrong \/ Advance \/ WrapCursor \/ NextPartition
             \/ LeaveDisk \/ CoverDisabled \/ ChooseAppend \/ ChooseNew
             \/ StartCover \/ CoverDisk \/ EndCover
             \/ Located \/ OpenFails \/ Opened
             \/ CloseFails \/ CloseHeader \/ FinishCursor \/ FinishPartition
             \/ EndOfFile \/ RepairDone
             \/ \E flag \in BOOLEAN : EnableDiskReCover(flag)
             \/ UNCHANGED vars
    <3>1. /\ UNCHANGED <<info, cutOff>>
          /\ \/ UNCHANGED <<rpc, recFile>>
             \/ rpc \notin {"marked", "rec"}
             \/ rpc' \in {"marked", "rec"} /\ recFile' = recFile
      BY <2>2 DEF StartOpen, StartDisk, SelectFile, SelectFails, SkipWrong,
                  Advance, WrapCursor, NextPartition, LeaveDisk,
                  CoverDisabled, ChooseAppend, ChooseNew, StartCover,
                  CoverDisk, EndCover, Located, OpenFails, Opened,
                  CloseFails, CloseHeader, FinishCursor, FinishPartition,
                  EndOfFile, RepairDone, EnableDiskReCover, vars, index,
                  recVars, ghosts
    <3> QED
      BY <2>1, <3>1
  <2>3. CASE SkipPlaying
    BY <1>i, <2>3 DEF SkipPlaying, RecFileState, ghosts
  <2>4. CASE Reclaim
    BY <1>i, <2>4 DEF Reclaim, ghosts
  <2>5. CASE SkipStale
    BY <1>i, <2>5 DEF SkipStale, Appendable, ghosts
  <2>6. CASE MarkWriting
    BY <1>i, <2>6 DEF MarkWriting, RecFileState
  <2>7. CASE MarkedFails
    BY <1>i, <2>7 DEF MarkedFails, index
  <2>8. CASE TooShort
    BY <1>i, <2>8 DEF TooShort, ghosts
  <2>9. ASSUME NEW r \in Reason, CloseFile(r) PROVE Accounted'
    BY <1>i, <2>9 DEF CloseFile, ClosedStates, ghosts
  <2>10. ASSUME NEW f \in File, OpenPlay(f) PROVE Accounted'
    BY <1>i, <2>10 DEF OpenPlay, recVars, ghosts
  <2>11. CASE StopPlay
    BY <1>i, <2>11 DEF StopPlay, recVars, ghosts
  <2>12. CASE ReleaseFile
    BY <1>i, <2>12 DEF ReleaseFile, recVars, ghosts
  <2>13. CASE Crash
    BY <1>i, <2>13 DEF Crash, index
  <2>14. ASSUME NEW f \in File, RepairFile(f) PROVE Accounted'
    <3>1. PICK s \in FixedStates : info' = [info EXCEPT ![f].states = s]
      BY <2>14 DEF RepairFile, FixedStates
    <3>2. \A g \in cutOff : g # f => g \in cutOff'
      BY <2>14 DEF RepairFile
    <3>3. rpc = "repair"
      BY <2>14 DEF RepairFile
    <3>4. info'[f].states # "WRITING"
      BY <1>i, <3>1 DEF FixedStates
    <3> QED
      BY <1>i, <3>1, <3>2, <3>3, <3>4
  <2> HIDE DEF Accounted
  <2> QED
    BY <2>2, <2>3, <2>4, <2>5, <2>6, <2>7, <2>8, <2>9, <2>10, <2>11, <2>12,
       <2>13, <2>14
       DEF Next, SearchStep, OpenStep, CloseStep, PlayStep, BootStep
<1> QED
  BY <1>1 DEF WritingAccounted, RecFileState
-----------------------------------------------------------------------------
(* The theorems.                                                           *)

\* The inductive invariant holds of freshly formatted disks.
LEMMA InitIInv == Init => IInv
<1> SUFFICES ASSUME Init PROVE IInv
  OBVIOUS
<1>1. TypeOK
  BY TypeInit
<1>2. RecordingAtCursor /\ PartitionStands /\ RecFileState /\ BootAlone
  BY DEF Init, RecordingAtCursor, PartitionStands, RecFileState, BootAlone,
         Opening, Booting
<1>3. WritingAccounted /\ PlayHold
  BY DEF Init, WritingAccounted, PlayHold, NewInfo
<1> QED
  BY <1>1, <1>2, <1>3 DEF IInv

\* The inductive invariant is kept by every step.
LEMMA StepIInv ==
  ASSUME IInv, [Next]_vars
  PROVE  IInv'
<1>1. TypeOK'
  BY TypeStep DEF IInv
<1>2. RecordingAtCursor' /\ PartitionStands'
  BY CursorStep DEF IInv
<1>3. RecFileState'
  BY RecFileStep
<1>4. WritingAccounted'
  BY <1>3, AccountedStep
<1>5. PlayHold'
  BY <1>3, HoldStep
<1>6. BootAlone'
  BY BootStepAlone DEF IInv
<1> QED
  BY <1>1, <1>2, <1>3, <1>4, <1>5, <1>6 DEF IInv

\* The inductive invariant holds in every state: what the record thread does
\* under the log mutex, the play thread outside it, crashes and boot together
\* keep the index and the cursors of RecordFiles consistent.
THEOREM Invariance == Spec => []IInv
<1>1. IInv /\ [Next]_vars => IInv'
  BY StepIInv
<1> QED
  BY InitIInv, <1>1, PTL DEF Spec

\* Type correctness: in particular no cursor passes the end of a partition by
\* more than one, and no disk its last partition.
THEOREM TypeCorrect == Spec => []TypeOK
BY Invariance, PTL DEF IInv

\* Every file marked WRITING is the open one or one that was cut off.
THEOREM WritingIsAccounted == Spec => []WritingAccounted
BY Invariance, PTL DEF IInv

\* The cursors stand at the file the record thread handles.
THEOREM CursorsStand == Spec => []RecordingAtCursor
BY Invariance, PTL DEF IInv

\* The recorder never opens, records into or closes a file the player holds.
THEOREM PlayerHolds == Spec => []PlayHold
BY Invariance, PTL DEF IInv
=============================================================================
