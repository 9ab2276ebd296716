--------------------------- MODULE FillOrderProofs ---------------------------
(***************************************************************************)
(* RecordFiles fills the disks in order and overwrites nothing before they *)
(* are full: proofs for any number of disks, partitions and files.         *)
(***************************************************************************)
EXTENDS RecordFilesProofs

\* A file never used stays one or is used; none appears.
LEMMA VirginShrinks ==
  ASSUME [Next]_vars
  PROVE  virgin' \subseteq virgin
BY GhostWriters DEF MarkWriting, MarkedFails, Crash, RepairFile, ghosts
-----------------------------------------------------------------------------
(* A file never used stays ahead.                                          *)

\* Whoever writes a FILEINFO writes that of a file that was used.
LEMMA VirginNew ==
  ASSUME IInv, VirginAhead, VirginKept, [Next]_vars,
         NEW g \in virgin'
  PROVE  info'[g].states = "NOWRITE"
<1>i. /\ info \in [File -> FileInfo] /\ recFile \in File /\ playFile \in File
      /\ g \in File /\ g \in virgin /\ info[g].states = "NOWRITE"
  BY VirginShrinks DEF IInv, TypeOK, VirginAhead
<1>1. CASE UNCHANGED info
  BY <1>i, <1>1
<1>2. CASE SkipPlaying
  BY <1>i, <1>2 DEF SkipPlaying, VirginKept
<1>3. CASE Reclaim
  BY <1>i, <1>3 DEF Reclaim
<1>4. CASE SkipStale
  BY <1>i, <1>4 DEF SkipStale, Appendable, VirginKept
<1>5. CASE MarkWriting
  BY <1>i, <1>5 DEF MarkWriting
<1>6. CASE TooShort
  BY <1>i, <1>6 DEF TooShort, FileInfo
<1>7. ASSUME NEW r \in Reason, CloseFile(r) PROVE info'[g].states = "NOWRITE"
  BY <1>i, <1>7 DEF CloseFile, VirginKept
<1>8. ASSUME NEW f \in File, OpenPlay(f) PROVE info'[g].states = "NOWRITE"
  BY <1>i, <1>8 DEF OpenPlay
<1>9. ASSUME NEW f \in File, RepairFile(f) PROVE info'[g].states = "NOWRITE"
  BY <1>i, <1>9 DEF RepairFile
<1>10. CASE StopPlay
  BY <1>i, <1>10 DEF StopPlay
<1>11. CASE ReleaseFile
  BY <1>i, <1>11 DEF ReleaseFile, IInv, PlayHold
<1> QED
  BY <1>1, <1>2, <1>3, <1>4, <1>5, <1>6, <1>7, <1>8, <1>9, <1>10, <1>11,
     InfoWriters

\* The cursor of a partition moves by one from a file that was used, or back
\* to the first file.
LEMMA VirginCursor ==
  ASSUME IInv, VirginAhead, VirginKept, [Next]_vars,
         NEW g \in virgin'
  PROVE  curFilePos'[<<g[1], g[2]>>] <= g[3]
<1> DEFINE dp == <<recFile[1], recFile[2]>>
           gp == <<g[1], g[2]>>
<1>i. /\ curFilePos \in [Disk \X Part -> 0 .. NumFiles]
      /\ recFile \in File /\ dp \in Disk \X Part /\ recFile[3] \in Pos
      /\ g \in File /\ gp \in Disk \X Part /\ g[3] \in Pos
      /\ g \in virgin /\ curFilePos[gp] <= g[3]
  BY VirginShrinks, FileParts DEF IInv, TypeOK, VirginAhead
<1>n. g # recFile /\ gp = dp => g[3] # recFile[3]
  BY <1>i, FileParts
<1>1. CASE UNCHANGED curFilePos
  BY <1>i, <1>1
<1>2. CASE Advance
  <2>1. g # recFile /\ curFilePos[dp] = recFile[3]
    BY <1>i, <1>2 DEF Advance, VirginKept, IInv, RecordingAtCursor
  <2> HIDE DEF dp, gp
  <2>2. gp = dp => curFilePos[gp] + 1 <= g[3]
    BY <1>i, <1>n, <2>1 DEF Pos
  <2>3. curFilePos' = [curFilePos EXCEPT ![dp] = @ + 1]
    BY <1>2 DEF Advance, dp
  <2> QED
    BY <1>i, <2>2, <2>3 DEF gp
<1>3. CASE WrapCursor
  BY <1>i, <1>3 DEF WrapCursor, Pos
<1>4. CASE FinishCursor
  <2>1. g # recFile /\ curFilePos[dp] = recFile[3]
    BY <1>i, <1>4 DEF FinishCursor, VirginKept, IInv, RecordingAtCursor
  <2>2. PICK x \in {recFile[3] + 1, 0} :
          curFilePos' = [curFilePos EXCEPT ![dp] = x]
    BY <1>4 DEF FinishCursor
  <2> HIDE DEF dp, gp
  <2>3. gp = dp => x <= g[3]
    BY <1>i, <1>n, <2>1 DEF Pos
  <2> QED
    BY <1>i, <2>2, <2>3 DEF gp
<1> QED
  BY <1>1, <1>2, <1>3, <1>4, CursorWriters

\* A disk moves to its next partition, or is left, when the partition it
\* leaves has no such file.
LEMMA VirginDisk ==
  ASSUME IInv, VirginAhead, VirginKept, [Next]_vars,
         NEW g \in virgin'
  PROVE  /\ disk'[g[1]].used => disk'[g[1]].IsRecording
         /\ disk'[g[1]].iPartitionId <= g[2]
<1> DEFINE d == recFile[1]
           e == g[1]
           Ahead == (disk[e].used => disk[e].IsRecording)
                    /\ disk[e].iPartitionId <= g[2]
           Ahead1 == (disk'[e].used => disk'[e].IsRecording)
                     /\ disk'[e].iPartitionId <= g[2]
<1>i. /\ disk \in [Disk -> DiskState]
      /\ d \in Disk /\ recFile[2] \in 1 .. NumParts
      /\ e \in Disk /\ g[2] \in 1 .. NumParts
      /\ NumParts \in Nat
      /\ g \in File /\ g \in virgin /\ Ahead
  BY VirginShrinks, FileParts, SizesAssumption
     DEF IInv, TypeOK, VirginAhead, Part
<1>1. CASE UNCHANGED disk
  BY <1>i, <1>1
<1>2. ASSUME NEW c \in Disk, StartDisk(c) PROVE Ahead1
  BY <1>i, <1>2 DEF StartDisk
<1>3. CASE NextPartition
  <2>1. /\ e = d => g[2] # recFile[2]
        /\ disk[d].iPartitionId = recFile[2]
    BY <1>i, <1>3 DEF NextPartition, VirginKept, IInv, PartitionStands
  <2>2. disk' = [disk EXCEPT ![d].iPartitionId = recFile[2] + 1]
    BY <1>i, <1>3, <2>1 DEF NextPartition
  <2>3. e = d => recFile[2] + 1 <= g[2]
    BY <1>i, <2>1
  <2> HIDE DEF d, e
  <2> QED
    BY <1>i, <2>2, <2>3 DEF e, DiskState
<1>4. CASE LeaveDisk
  <2>1. e # d
    BY <1>i, <1>4 DEF LeaveDisk, VirginKept
  <2> QED
    BY <1>i, <1>4, <2>1 DEF LeaveDisk
<1>5. CASE CoverDisk
  BY <1>i, <1>5 DEF CoverDisk, VirginKept
<1>6. CASE FinishPartition
  <2>1. /\ e = d => g[2] # recFile[2]
        /\ disk[d].iPartitionId = recFile[2]
    BY <1>i, <1>6 DEF FinishPartition, VirginKept, IInv, PartitionStands
  <2>2. CASE LastPartition(d)
    <3>1. e # d
      BY <1>i, <2>1, <2>2 DEF LastPartition
    <3> QED
      BY <1>i, <1>6, <2>2, <3>1 DEF FinishPartition
  <2>3. CASE ~LastPartition(d)
    <3>1. disk' = [disk EXCEPT ![d].iPartitionId = recFile[2] + 1]
      BY <1>i, <1>6, <2>1, <2>3 DEF FinishPartition
    <3>2. e = d => recFile[2] + 1 <= g[2]
      BY <1>i, <2>1
    <3> HIDE DEF d, e
    <3> QED
      BY <1>i, <3>1, <3>2 DEF e, DiskState
  <2> QED
    BY <2>2, <2>3
<1>7. ASSUME NEW flag \in BOOLEAN, EnableDiskReCover(flag) PROVE Ahead1
  BY <1>i, <1>7 DEF EnableDiskReCover, DiskState
<1> QED
  BY <1>1, <1>2, <1>3, <1>4, <1>5, <1>6, <1>7, DiskWriters
-----------------------------------------------------------------------------
(* The record thread never leaves such a file behind.                      *)

\* Each step keeps VirginKept: which pc may hold a file never used.
LEMMA KeptStep ==
  ASSUME IInv, VirginAhead, VirginKept, [Next]_vars
  PROVE  VirginKept'
<1>i. /\ curFilePos \in [Disk \X Part -> 0 .. NumFiles]
      /\ disk \in [Disk -> DiskState] /\ info \in [File -> FileInfo]
      /\ recFile \in File /\ virgin \subseteq File
      /\ <<recFile[1], recFile[2]>> \in Disk \X Part
      /\ recFile[1] \in Disk /\ recFile[2] \in 1 .. NumParts
      /\ recFile[3] \in 0 .. NumFiles - 1
      /\ NumFiles \in Nat /\ NumParts \in Nat
      /\ virgin' \subseteq virgin /\ VirginKept
  BY VirginShrinks, FileParts, SizesAssumption
     DEF IInv, TypeOK, Part, Pos
<1>1. CASE UNCHANGED <<rpc, recFile, recCopy>>
  BY <1>i, <1>1 DEF VirginKept
<1>2. CASE rpc' \in {"idle", "exit", "repair", "search", "chosen"}
  BY <1>2 DEF VirginKept
<1>3. ASSUME NEW d \in Disk, SelectFile(d) PROVE VirginKept'
  BY <1>i, <1>3 DEF SelectFile, VirginKept, VirginAhead
<1>4. CASE SkipWrong
  BY <1>i, <1>4 DEF SkipWrong, VirginKept
<1>5. CASE SkipPlaying \/ SkipStale
  BY <1>i, <1>5 DEF SkipPlaying, SkipStale, Appendable, VirginKept
<1>6. CASE Advance
  <2>1. ASSUME NEW g \in virgin', rpc' = "wrap"
        PROVE  <<g[1], g[2]>> # <<recFile[1], recFile[2]>>
    <3>1. curFilePos'[<<recFile[1], recFile[2]>>] >= NumFiles
      BY <1>i, <1>6, <2>1 DEF Advance
    <3>2. curFilePos'[<<g[1], g[2]>>] <= g[3] /\ g[3] \in 0 .. NumFiles - 1
      BY <1>i, VirginCursor, FileParts DEF Pos
    <3>3. curFilePos'[<<recFile[1], recFile[2]>>] \in Nat
      BY <1>i, <1>6 DEF Advance
    <3> QED
      BY <1>i, <3>1, <3>2, <3>3
  <2> QED
    BY <1>6, <2>1 DEF Advance, VirginKept
<1>7. CASE WrapCursor
  BY <1>i, <1>7 DEF WrapCursor, VirginKept
<1>8. CASE NextPartition
  <2>1. ASSUME NEW g \in virgin', rpc' = "lastPart", g[1] = recFile[1]
        PROVE  FALSE
    <3>1. disk'[recFile[1]].iPartitionId > NumParts
      BY <1>i, <1>8, <2>1 DEF NextPartition, LastPartition, DiskState
    <3>2. disk'[g[1]].iPartitionId <= g[2] /\ g[2] \in 1 .. NumParts
      BY <1>i, VirginDisk, FileParts DEF Part
    <3>3. disk'[recFile[1]].iPartitionId \in Nat
      BY <1>i, <1>8 DEF NextPartition, DiskState
    <3> QED
      BY <1>i, <2>1, <3>1, <3>2, <3>3
  <2> QED
    BY <1>8, <2>1 DEF NextPartition, VirginKept
<1>9. CASE StartCover
  <2>1. \A d \in Disk : disk[d].used /\ ~disk[d].IsRecording
    BY <1>9 DEF StartCover, Usable
  <2>2. virgin' = {}
    BY <1>i, <2>1, FileParts DEF VirginAhead
  <2> QED
    BY <1>9, <2>2 DEF StartCover, VirginKept
<1>10. CASE MarkWriting
  BY <1>10 DEF MarkWriting, VirginKept
<1>11. CASE Opened \/ CloseFails \/ CloseHeader
  BY <1>i, <1>11 DEF Opened, CloseFails, CloseHeader, Return, VirginKept
<1>12. ASSUME NEW r \in Reason, CloseFile(r) PROVE VirginKept'
  BY <1>i, <1>12 DEF CloseFile, VirginKept
<1>13. CASE FinishCursor
  <2>1. ASSUME NEW g \in virgin', rpc' = "finishPart"
        PROVE  <<g[1], g[2]>> # <<recFile[1], recFile[2]>>
    <3> SUFFICES ASSUME <<g[1], g[2]>> = <<recFile[1], recFile[2]>>
                 PROVE  FALSE
      OBVIOUS
    <3>1. recFile[3] + 1 >= NumFiles
      BY <1>i, <1>13, <2>1 DEF FinishCursor, Return
    <3>2. recFile[3] <= g[3] /\ g[3] \in 0 .. NumFiles - 1
      BY <1>i, <1>13, FileParts
         DEF FinishCursor, IInv, RecordingAtCursor, VirginAhead, Pos
    <3>3. g[3] # recFile[3]
      BY <1>i, <1>13, FileParts DEF FinishCursor, VirginKept
    <3> QED
      BY <1>i, <3>1, <3>2, <3>3
  <2> QED
    BY <1>13, <2>1 DEF FinishCursor, Return, VirginKept
<1>14. CASE \/ \E d \in Disk : StartDisk(d)
            \/ \E f \in File : OpenPlay(f) \/ RepairFile(f)
            \/ CoverDisk \/ StopPlay \/ EndOfFile \/ ReleaseFile
            \/ (\E flag \in BOOLEAN : EnableDiskReCover(flag))
            \/ UNCHANGED vars
  <2>1. UNCHANGED <<rpc, recFile, recCopy>>
    BY <1>14 DEF StartDisk, OpenPlay, RepairFile, CoverDisk, StopPlay,
                 EndOfFile, ReleaseFile, EnableDiskReCover, vars, recVars
  <2> QED
    BY <1>1, <2>1
<1>15. CASE \/ StartOpen \/ (\E d \in Disk : SelectFails(d)) \/ LeaveDisk
            \/ CoverDisabled \/ Reclaim \/ ChooseAppend \/ ChooseNew
            \/ EndCover \/ Located \/ OpenFails \/ MarkedFails \/ TooShort
            \/ FinishPartition \/ Crash \/ RepairDone
  <2>1. rpc' \in {"idle", "exit", "repair", "search", "chosen"}
    BY <1>15 DEF StartOpen, SelectFails, LeaveDisk, CoverDisabled, Reclaim,
                 ChooseAppend, ChooseNew, EndCover, Located, OpenFails,
                 MarkedFails, TooShort, FinishPartition, Crash, RepairDone,
                 NoDisk, Return
  <2> QED
    BY <1>2, <2>1
<1> QED
  BY <1>3, <1>4, <1>5, <1>6, <1>7, <1>8, <1>9, <1>10, <1>11, <1>12, <1>13,
     <1>14, <1>15
     DEF Next, SearchStep, OpenStep, CloseStep, PlayStep, BootStep

\* Each step keeps VirginAhead: neither cursor nor partition passes a free file.
LEMMA AheadStep ==
  ASSUME IInv, VirginAhead, VirginKept, [Next]_vars
  PROVE  VirginAhead'
BY VirginNew, VirginCursor, VirginDisk DEF VirginAhead

\* A disk is covered only in the loop that found none left to fill.
LEMMA CoverStep ==
  ASSUME IInv, VirginKept, CoverOnlyWhenFull, [Next]_vars
  PROVE  CoverOnlyWhenFull'
<1>i. /\ disk \in [Disk -> DiskState] /\ recFile[1] \in Disk
      /\ virgin' \subseteq virgin
  BY VirginShrinks, FileParts DEF IInv, TypeOK
<1>1. CASE CoverDisk
  BY <1>i, <1>1 DEF CoverDisk, VirginKept, CoverOnlyWhenFull
<1>2. ASSUME \A d \in Disk : disk'[d].IsCover = disk[d].IsCover
      PROVE  CoverOnlyWhenFull'
  BY <1>i, <1>2 DEF CoverOnlyWhenFull
<1>3. CASE NextPartition
  BY <1>i, <1>2, <1>3 DEF NextPartition
<1>4. CASE LeaveDisk
  BY <1>i, <1>2, <1>4 DEF LeaveDisk
<1>5. CASE FinishPartition
  BY <1>i, <1>2, <1>5 DEF FinishPartition
<1>6. ASSUME NEW d \in Disk, StartDisk(d) PROVE CoverOnlyWhenFull'
  BY <1>i, <1>2, <1>6 DEF StartDisk
<1>7. ASSUME NEW flag \in BOOLEAN, EnableDiskReCover(flag)
      PROVE  CoverOnlyWhenFull'
  BY <1>i, <1>2, <1>7 DEF EnableDiskReCover, DiskState
<1>8. CASE UNCHANGED disk
  BY <1>2, <1>8
<1> QED
  BY <1>1, <1>3, <1>4, <1>5, <1>6, <1>7, <1>8, DiskWriters

\* A disk is put into use when no disk before it can still be filled.
LEMMA OrderStep ==
  ASSUME IInv, VirginAhead, DisksInOrder, [Next]_vars
  PROVE  DisksInOrder'
<1>i. /\ disk \in [Disk -> DiskState] /\ recFile[1] \in Disk
      /\ virgin' \subseteq virgin
      /\ \A f \in virgin : f[1] \in Disk
  BY VirginShrinks, FileParts DEF IInv, TypeOK
<1>1. ASSUME NEW d \in Disk, StartDisk(d) PROVE DisksInOrder'
  <2>1. \A f \in virgin : f[1] >= d
    <3> SUFFICES ASSUME NEW f \in virgin, f[1] < d PROVE FALSE
      BY <1>i DEF Disk
    <3>1. disk[f[1]].used /\ ~disk[f[1]].IsRecording
      BY <1>i, <1>1 DEF StartDisk, CurDisk, Usable
    <3> QED
      BY <3>1 DEF VirginAhead
  <2>2. \A e \in Disk : e # d => disk'[e].used = disk[e].used
    BY <1>i, <1>1 DEF StartDisk
  <2> QED
    BY <1>i, <2>1, <2>2 DEF DisksInOrder
<1>2. ASSUME \A d \in Disk : disk'[d].used = disk[d].used
      PROVE  DisksInOrder'
  BY <1>i, <1>2 DEF DisksInOrder
<1>3. CASE NextPartition
  BY <1>i, <1>2, <1>3 DEF NextPartition
<1>4. CASE LeaveDisk
  BY <1>i, <1>2, <1>4 DEF LeaveDisk
<1>5. CASE FinishPartition
  BY <1>i, <1>2, <1>5 DEF FinishPartition
<1>6. CASE CoverDisk
  BY <1>i, <1>2, <1>6 DEF CoverDisk
<1>7. ASSUME NEW flag \in BOOLEAN, EnableDiskReCover(flag)
      PROVE  DisksInOrder'
  BY <1>i, <1>2, <1>7 DEF EnableDiskReCover, DiskState
<1>8. CASE UNCHANGED disk
  BY <1>2, <1>8
<1> QED
  BY <1>1, <1>3, <1>4, <1>5, <1>6, <1>7, <1>8, DiskWriters
-----------------------------------------------------------------------------
(* A reclaimed file that holds nothing stands at the cursor.               *)

\* Each step keeps WrapPast: a cursor is wrapped only past the last file.
LEMMA WrapStep ==
  ASSUME IInv, WrapPast, [Next]_vars
  PROVE  WrapPast'
<1>1. CASE Advance
  <2>1. /\ curFilePos \in [Disk \X Part -> 0 .. NumFiles]
        /\ <<recFile[1], recFile[2]>> \in Disk \X Part /\ NumFiles \in Nat
    BY FileParts, SizesAssumption DEF IInv, TypeOK
  <2> QED
    BY <1>1, <2>1 DEF Advance, WrapPast, Pos
<1>2. CASE UNCHANGED <<rpc, recFile, curFilePos>>
  BY <1>2 DEF WrapPast
<1>3. CASE rpc' # "wrap"
  BY <1>3 DEF WrapPast
<1>4. Advance \/ UNCHANGED <<rpc, recFile, curFilePos>> \/ rpc' # "wrap"
  BY DEF Next, SearchStep, OpenStep, CloseStep, PlayStep, BootStep, vars,
         index, recVars, StartOpen, StartDisk, SelectFile, SelectFails,
         SkipWrong, SkipPlaying, WrapCursor, NextPartition, LeaveDisk,
         CoverDisabled, Reclaim, SkipStale, ChooseAppend, ChooseNew,
         StartCover, CoverDisk, EndCover, Located, OpenFails, MarkWriting,
         MarkedFails, TooShort, Opened, CloseFile, CloseFails, CloseHeader,
         FinishCursor, FinishPartition, OpenPlay, StopPlay, EndOfFile,
         ReleaseFile, Crash, RepairFile, RepairDone, EnableDiskReCover,
         NoDisk, Return
<1> QED
  BY <1>1, <1>2, <1>3, <1>4

\* A file is settled: it does not read NOWRITE with its isCover mark, or it
\* stands at the cursor, or it was cut off.
Settled(f) == info[f].states = "NOWRITE" /\ info[f].isCover =>
                curFilePos[<<f[1], f[2]>>] = f[3] \/ f \in cutOff

\* Moving a cursor leaves behind a file that was used.
LEMMA SettledCursor ==
  ASSUME IInv, WrapPast, [Next]_vars, NEW f \in File, Settled(f),
         UNCHANGED <<info, cutOff>>
  PROVE  Settled(f)'
<1> DEFINE dp == <<recFile[1], recFile[2]>>
           fp == <<f[1], f[2]>>
<1>i. /\ curFilePos \in [Disk \X Part -> 0 .. NumFiles]
      /\ recFile \in File /\ dp \in Disk \X Part
      /\ fp \in Disk \X Part /\ f[3] \in Pos
      /\ fp = dp /\ f[3] = recFile[3] => f = recFile
  BY FileParts DEF IInv, TypeOK
<1>1. CASE UNCHANGED curFilePos
  BY <1>1 DEF Settled
<1>2. CASE Advance \/ FinishCursor
  <2>1. /\ curFilePos[dp] = recFile[3]
        /\ info[recFile].states # "NOWRITE"
    BY <1>2 DEF Advance, FinishCursor, IInv, RecordingAtCursor, RecFileState
  <2>2. fp # dp => curFilePos'[fp] = curFilePos[fp]
    BY <1>i, <1>2 DEF Advance, FinishCursor
  <2> HIDE DEF dp, fp
  <2>3. CASE fp = dp
    BY <1>i, <2>1, <2>3 DEF Settled, fp
  <2>4. CASE fp # dp
    BY <2>2, <2>4 DEF Settled, fp
  <2> QED
    BY <2>3, <2>4
<1>3. CASE WrapCursor
  <2>1. curFilePos[dp] \notin Pos
    BY <1>3 DEF WrapCursor, WrapPast
  <2>2. fp # dp => curFilePos'[fp] = curFilePos[fp]
    BY <1>i, <1>3 DEF WrapCursor
  <2> HIDE DEF dp, fp
  <2>3. CASE fp = dp
    BY <1>i, <2>1, <2>3 DEF Settled, fp
  <2>4. CASE fp # dp
    BY <2>2, <2>4 DEF Settled, fp
  <2> QED
    BY <2>3, <2>4
<1> QED
  BY <1>1, <1>2, <1>3, CursorWriters

\* Each step keeps ReclaimedAtCursor.
LEMMA ReclaimedStep ==
  ASSUME IInv, WrapPast, ReclaimedAtCursor, [Next]_vars
  PROVE  ReclaimedAtCursor'
<1> SUFFICES ASSUME NEW f \in File PROVE Settled(f)'
  BY DEF ReclaimedAtCursor, Settled
<1>i. /\ info \in [File -> FileInfo] /\ recFile \in File /\ playFile \in File
      /\ recCopy \in FileInfo /\ virgin \subseteq File
      /\ RecFileState /\ Settled(f)
  BY DEF IInv, TypeOK, ReclaimedAtCursor, Settled
<1>1. ASSUME info'[f].states # "NOWRITE" PROVE Settled(f)'
  BY <1>1 DEF Settled
<1>2. ASSUME info'[f] = info[f], UNCHANGED curFilePos,
             f \in cutOff => f \in cutOff'
      PROVE  Settled(f)'
  BY <1>i, <1>2 DEF Settled
<1>3. CASE UNCHANGED <<info, cutOff>>
  BY <1>i, <1>3, SettledCursor
<1>4. CASE SkipPlaying
  BY <1>i, <1>1, <1>2, <1>4 DEF SkipPlaying, RecFileState, ghosts
<1>5. CASE Reclaim \/ TooShort
  <2>1. recFile[3] = curFilePos'[<<recFile[1], recFile[2]>>]
    BY <1>5 DEF Reclaim, TooShort, IInv, RecordingAtCursor, Opening
  <2>2. CASE f = recFile
    BY <2>1, <2>2, <1>5 DEF Reclaim, TooShort, Settled
  <2>3. CASE f # recFile
    BY <1>i, <1>2, <1>5, <2>3 DEF Reclaim, TooShort, ghosts
  <2> QED
    BY <2>2, <2>3
<1>6. CASE SkipStale
  BY <1>i, <1>1, <1>2, <1>6 DEF SkipStale, Appendable, ghosts
<1>7. CASE MarkWriting
  BY <1>i, <1>1, <1>2, <1>7 DEF MarkWriting
<1>8. ASSUME NEW r \in Reason, CloseFile(r) PROVE Settled(f)'
  BY <1>i, <1>1, <1>2, <1>8 DEF CloseFile, ClosedStates, ghosts
<1>9. ASSUME NEW g \in File, OpenPlay(g) PROVE Settled(f)'
  BY <1>i, <1>1, <1>2, <1>9 DEF OpenPlay, ghosts
<1>10. CASE StopPlay
  BY <1>i, <1>1, <1>2, <1>10 DEF StopPlay, ghosts
<1>11. CASE ReleaseFile
  BY <1>i, <1>1, <1>2, <1>11 DEF ReleaseFile, ghosts
<1>12. CASE Crash \/ MarkedFails
  BY <1>i, <1>2, <1>12 DEF Crash, MarkedFails, index
<1>13. ASSUME NEW g \in File, RepairFile(g) PROVE Settled(f)'
  <2>1. UNCHANGED curFilePos
    BY <1>13 DEF RepairFile
  <2>2. CASE f # g
    BY <1>i, <1>2, <1>13, <2>1, <2>2 DEF RepairFile
  <2>3. CASE f = g /\ info'[f].states = "NOWRITE"
    <3>0. ASSUME info' = [info EXCEPT ![g].states = "WRITEOVER"] PROVE FALSE
      BY <1>i, <2>3, <3>0
    <3>1. info[g].states = "WRITING" /\ rpc = "repair"
      BY <1>13, <3>0 DEF RepairFile
    <3>2. g \in cutOff
      BY <3>1 DEF IInv, WritingAccounted
    <3>3. g \in cutOff'
      BY <1>i, <1>13, <2>3, <3>1, <3>2 DEF RepairFile, FileInfo
    <3> QED
      BY <2>3, <3>3 DEF Settled
  <2> QED
    BY <1>1, <2>2, <2>3
<1> QED
  BY <1>3, <1>4, <1>5, <1>6, <1>7, <1>8, <1>9, <1>10, <1>11, <1>12, <1>13,
     InfoWriters, GhostWriters DEF ghosts
-----------------------------------------------------------------------------
(* The theorems.                                                           *)

\* A file never used stays ahead of every cursor, in every state.
THEOREM FullInvariance == Spec => []FullInv
<1>1. Init => FullInv
  <2> SUFFICES ASSUME Init PROVE FullInv
    OBVIOUS
  <2>1. IInv
    BY InitIInv
  <2>2. ASSUME NEW f \in File
        PROVE  /\ info[f].states = "NOWRITE"
               /\ disk[f[1]].used => disk[f[1]].IsRecording
               /\ disk[f[1]].iPartitionId <= f[2]
               /\ curFilePos[<<f[1], f[2]>>] <= f[3]
    <3>1. /\ f[1] \in Disk /\ <<f[1], f[2]>> \in Disk \X Part
          /\ 1 <= f[2] /\ 0 <= f[3]
      BY FileParts, SizesAssumption DEF Part, Pos
    <3> QED
      BY <3>1 DEF Init, NewInfo
  <2>3. VirginKept /\ WrapPast
    BY DEF Init, VirginKept, WrapPast
  <2>4. CoverOnlyWhenFull /\ DisksInOrder /\ ReclaimedAtCursor
    BY DEF Init, CoverOnlyWhenFull, DisksInOrder, ReclaimedAtCursor, NewInfo
  <2> QED
    BY <2>1, <2>2, <2>3, <2>4 DEF FullInv, VirginAhead, Init
<1>2. FullInv /\ [Next]_vars => FullInv'
  BY StepIInv, AheadStep, KeptStep, WrapStep, CoverStep, OrderStep,
     ReclaimedStep DEF FullInv
<1> QED
  BY <1>1, <1>2, PTL DEF Spec

\* No footage is overwritten before every file of every disk was used.
THEOREM NothingOverwrittenEarly == Spec => []CoverOnlyWhenFull
BY FullInvariance, PTL DEF FullInv

\* The disks are filled in order.
THEOREM FilledInOrder == Spec => []DisksInOrder
BY FullInvariance, PTL DEF FullInv

\* At most the file at the cursor is given up before its space is used.
THEOREM OneReclaimed == Spec => []ReclaimedAtCursor
BY FullInvariance, PTL DEF FullInv
=============================================================================
