---------------------------- MODULE RecordFiles ----------------------------
(***************************************************************************)
(* The index of the recording disks and the threads that move it.          *)
(*                                                                         *)
(* Each partition of each disk holds a fixed row of pre-created recording  *)
(* files.  fileinfo.log keeps one FILEINFO per file and the cursor of the  *)
(* partition (iCurFilePos); diskinfo.log keeps one DISKCURRENTSTATE per    *)
(* disk.  Both are files, written as they change, that outlive the process. *)
(* The record thread searches the next file, records into it and closes    *)
(* it, the play thread marks the file it plays, and boot repairs whatever  *)
(* a crash left half done.  One action is one persistent write, so that a  *)
(* crash, or a step of the play thread outside the log mutex, can fall     *)
(* between any two of them.                                                *)
(*                                                                         *)
(* FSfileoperate.c, FSfileinfoop.c, FSdiskoperate.c, FTCfilerec.c and      *)
(* FTCfileplay.c are the source.                                           *)
(***************************************************************************)
EXTENDS Naturals

CONSTANTS NumDisks,     \* DISK_GetDiskNum()
          NumParts,     \* data partitions of a disk (partitionID 5, 6, ...)
          NumFiles      \* iTotalFileNumber of a partition

ASSUME SizesAssumption == /\ NumDisks \in Nat \ {0}
                          /\ NumParts \in Nat \ {0}
                          /\ NumFiles \in Nat \ {0}

Disk == 1 .. NumDisks
Part == 1 .. NumParts                  \* 1 stands for partition id 5
Pos  == 0 .. NumFiles - 1
File == Disk \X Part \X Pos

\* FILEINFO.states; NOCREATE is never stored, files are created as NOWRITE.
FileState == {"NOWRITE", "WRITING", "WRITEOVER", "PLAYING", "BADFILE"}

FileInfo  == [states : FileState, isCover : BOOLEAN]
DiskState == [iPartitionId : 1 .. NumParts + 1, IsRecording : BOOLEAN,
              IsCover : BOOLEAN, used : BOOLEAN, iEnableCover : BOOLEAN]

\* The reasons RecWriteOver is called for.
Reason == {"STOPRECORD", "FILEWRITEOVER", "RECTIMEOVER", "FILEWRITEERROR"}

\* Where the search for a file (FS_GetRecondFileName and its loop) stands.
Searching == {"search", "decide", "skip", "advance", "wrap", "nextPart",
              "lastPart", "cover"}
Opening   == {"chosen", "marked"}
Closing   == {"closing", "finish", "finishPart"}
RecPc     == Searching \cup Opening \cup Closing \cup
             {"idle", "rec", "exit", "repair"}

VARIABLES
  info,         \* fileinfo.log: the FILEINFO of every file
  curFilePos,   \* fileinfo.log: FILEUSEINFO.iCurFilePos of every partition
  disk,         \* diskinfo.log: DISKCURRENTSTATE of every disk
  rpc,          \* where the record thread (or boot) stands
  goal,         \* who searches: FS_OpenRecFile or FS_GetOpreateDiskPartition
  recFile,      \* g_stRecFilePos, and the file under the search
  recCopy,      \* the FILEINFO copy of the search
  reason,       \* iReason of the RecWriteOver under way
  scan,         \* the disk the cover loop looks at
  firstSkip,    \* start_first_file_skip
  ppc,          \* where the play thread stands
  playFile,     \* g_stPlayFilePos
  playCopy,     \* the FILEINFO copy of ClosePlayFile
  virgin,       \* ghost: the files never opened for recording
  cutOff        \* ghost: files whose last recording was not closed, as long as
                \*   boot has not saved that recording or declared the file bad

index    == <<info, curFilePos, disk>>
recVars  == <<rpc, goal, recFile, recCopy, reason, scan, firstSkip>>
playVars == <<ppc, playFile, playCopy>>
ghosts   == <<virgin, cutOff>>
vars     == <<index, recVars, playVars, ghosts>>

AnyFile == <<1, 1, 0>>
NewInfo == [states |-> "NOWRITE", isCover |-> FALSE]

\* Mutant: nobody takes the mutex.
UnlockedMutant == FALSE

\* The threads that take the log mutex find it taken: the record thread holds
\* it from the start of a search or of a close to its end.
LogMutexTaken == rpc \in Searching \cup Opening \cup Closing \cup {"exit"}

\* FTC_CurrentPlayMode: repair, then the search for where to record.
Booting == goal = "locate"

\* Mutant: only the first disk is ever put into use.
OneFreshDiskMutant(d) == disk[d].IsRecording \/ (~disk[d].used /\ d = 1)

\* A disk that is recording, or one never used.
Usable(d) == disk[d].IsRecording \/ ~disk[d].used

\* Mutant: the disks are not looked at in order.
AnyDiskMutant(d) == Usable(d)

\* FS_GetRecondFileName takes the first of them.
CurDisk(d) == Usable(d) /\ \A e \in Disk : e < d => ~Usable(e)

\* The partition a disk stands at is its last one.
LastPartition(d) == disk[d].iPartitionId >= NumParts

\* Mutant: files that are bad or in use count as files to recover.
AnyUsedMutant(d) ==
  \E p \in Part, n \in Pos : info[<<d, p, n>>].states # "NOWRITE"

\* FS_HaveFileToRecover
HaveFileToRecover(d) ==
  \E p \in Part, n \in Pos : info[<<d, p, n>>].states = "WRITEOVER"

\* Freshly formatted disks, no thread at work, the boot search still ahead.
Init ==
  /\ info = [f \in File |-> NewInfo]
  /\ curFilePos = [dp \in Disk \X Part |-> 0]
  /\ disk = [d \in Disk |-> [iPartitionId |-> 1, IsRecording |-> FALSE,
                             IsCover |-> FALSE, used |-> FALSE,
                             iEnableCover |-> TRUE]]
  /\ rpc = "search" /\ goal = "locate"
  /\ recFile = AnyFile /\ recCopy = NewInfo
  /\ reason = "STOPRECORD" /\ scan = 1 /\ firstSkip = FALSE
  /\ ppc = "idle" /\ playFile = AnyFile /\ playCopy = NewInfo
  /\ virgin = File /\ cutOff = {}
-----------------------------------------------------------------------------
(* The search: FS_GetRecondFileName in the retry loop of its two callers.   *)

\* Back in its loop, at pc, the record thread has lost the locals of the calls it
\* returned from; g_stRecFilePos is not read again before a search sets it.
Return(pc) ==
  /\ rpc' = pc /\ goal' = "open"
  /\ recFile' = AnyFile /\ recCopy' = NewInfo
  /\ reason' = "STOPRECORD" /\ scan' = 1

\* A key frame arrives and no file is open: FS_OpenRecFile.
StartOpen ==
  /\ rpc = "idle"
  /\ rpc' = "search" /\ goal' = "open"
  /\ UNCHANGED <<index, recFile, recCopy, reason, scan, firstSkip,
                 playVars, ghosts>>

\* The first disk in use is taken; a disk never used is put into use first.
StartDisk(d) ==
  /\ rpc = "search" /\ CurDisk(d) /\ ~disk[d].IsRecording
  /\ disk' = [disk EXCEPT ![d].IsRecording = TRUE, ![d].used = TRUE]
  /\ UNCHANGED <<info, curFilePos, recVars, playVars, ghosts>>

\* Mutant: the partition is always the first one.
FirstPartitionMutant(d) ==
  LET n == curFilePos[<<d, 1>>]
  IN /\ rpc = "search" /\ CurDisk(d) /\ disk[d].IsRecording /\ n \in Pos
     /\ recFile' = <<d, 1, n>> /\ recCopy' = info[<<d, 1, n>>]
     /\ rpc' = "decide"
     /\ UNCHANGED <<index, goal, reason, scan, firstSkip, playVars, ghosts>>

\* FS_GetFileUseInfo and FS_GetPosFileInfo: copy the FILEINFO at the cursor.
SelectFile(d) ==
  LET p == disk[d].iPartitionId
      n == curFilePos[<<d, p>>]
  IN /\ rpc = "search" /\ CurDisk(d) /\ disk[d].IsRecording
     /\ p \in Part /\ n \in Pos
     /\ recFile' = <<d, p, n>> /\ recCopy' = info[<<d, p, n>>]
     /\ rpc' = "decide"
     /\ UNCHANGED <<index, goal, reason, scan, firstSkip, playVars, ghosts>>

\* The partition does not exist or its cursor is past its files: ERROR.
SelectFails(d) ==
  LET p == disk[d].iPartitionId
  IN /\ rpc = "search" /\ CurDisk(d) /\ disk[d].IsRecording
     /\ p \in Part => curFilePos[<<d, p>>] \notin Pos
     /\ Return("idle")
     /\ UNCHANGED <<index, firstSkip, playVars, ghosts>>

\* The file under the search was reached while its disk is being overwritten.
Covering == disk[recFile[1]].IsCover

\* FILESTATEWRONG: the file is in use or bad.  One that is being played on a
\* disk being overwritten is written back first, from the copy.
SkipWrong ==
  /\ rpc = "decide" /\ recCopy.states \in {"WRITING", "PLAYING", "BADFILE"}
  /\ IF Covering /\ recCopy.states = "PLAYING"
     THEN rpc' = "skip" /\ UNCHANGED recCopy
     ELSE rpc' = "advance" /\ recCopy' = NewInfo
  /\ UNCHANGED <<index, goal, recFile, reason, scan, firstSkip, playVars,
                 ghosts>>

SkipPlaying ==
  /\ rpc = "skip"
  /\ info' = [info EXCEPT ![recFile] = recCopy]
  /\ rpc' = "advance" /\ recCopy' = NewInfo
  /\ UNCHANGED <<curFilePos, disk, goal, recFile, reason, scan, firstSkip,
                 playVars, ghosts>>

\* The cursor steps over the file and is written, past the last one too.
Advance ==
  LET dp == <<recFile[1], recFile[2]>>
  IN /\ rpc = "advance"
     /\ curFilePos' = [curFilePos EXCEPT ![dp] = @ + 1]
     /\ rpc' = IF curFilePos[dp] + 1 < NumFiles THEN "search" ELSE "wrap"
     /\ UNCHANGED <<info, disk, goal, recFile, recCopy, reason, scan,
                    firstSkip, playVars, ghosts>>

WrapCursor ==
  /\ rpc = "wrap"
  /\ curFilePos' = [curFilePos EXCEPT ![<<recFile[1], recFile[2]>>] = 0]
  /\ rpc' = "nextPart"
  /\ UNCHANGED <<info, disk, goal, recFile, recCopy, reason, scan, firstSkip,
                 playVars, ghosts>>

\* The next partition is written, past the last one too ...
NextPartition ==
  LET d == recFile[1]
  IN /\ rpc = "nextPart"
     /\ disk' = [disk EXCEPT ![d].iPartitionId = @ + 1]
     /\ rpc' = IF LastPartition(d) THEN "lastPart" ELSE "search"
     /\ UNCHANGED <<info, curFilePos, goal, recFile, recCopy, reason, scan,
                    firstSkip, playVars, ghosts>>

\* ... and then the disk is left, its first partition next.
LeaveDisk ==
  /\ rpc = "lastPart"
  /\ disk' = [disk EXCEPT ![recFile[1]].iPartitionId = 1,
                          ![recFile[1]].IsRecording = FALSE]
  /\ rpc' = "search"
  /\ UNCHANGED <<info, curFilePos, goal, recFile, recCopy, reason, scan,
                 firstSkip, playVars, ghosts>>

\* ALLDISKNOTENABLETOWRITE: FS_OpenRecFile keeps the mutex for 300 seconds and
\* calls exit(0); at boot FS_GetOpreateDiskPartition just returns.
NoDisk == Return(IF goal = "open" THEN "exit" ELSE "idle")

\* A finished file is reached on a disk whose overwriting was switched off.
CoverDisabled ==
  /\ rpc = "decide" /\ recCopy.states = "WRITEOVER" /\ Covering
  /\ ~disk[recFile[1]].iEnableCover
  /\ NoDisk
  /\ UNCHANGED <<index, firstSkip, playVars, ghosts>>

\* A finished file is reclaimed: its log entries go and it becomes NOWRITE.
Reclaim ==
  /\ rpc = "decide" /\ recCopy.states = "WRITEOVER" /\ Covering
  /\ disk[recFile[1]].iEnableCover /\ ~recCopy.isCover
  /\ info' = [info EXCEPT ![recFile] =
                            [states |-> "NOWRITE", isCover |-> TRUE]]
  /\ rpc' = "chosen" /\ recCopy' = NewInfo
  /\ UNCHANGED <<curFilePos, disk, goal, recFile, reason, scan, firstSkip,
                 playVars, ghosts>>

\* A finished file that was not just reclaimed may be appended to.
Appendable ==
  /\ recCopy.states = "WRITEOVER"
  /\ Covering => disk[recFile[1]].iEnableCover /\ recCopy.isCover

\* The clock or the record mode no longer fits it, or it is the first file
\* since boot: it is stepped over, and may be reclaimed on the next round.
SkipStale ==
  /\ rpc = "decide" /\ Appendable
  /\ info' = IF Covering THEN [info EXCEPT ![recFile] =
                                          [recCopy EXCEPT !.isCover = FALSE]]
                         ELSE info
  /\ firstSkip' = TRUE
  /\ rpc' = "advance" /\ recCopy' = NewInfo
  /\ UNCHANGED <<curFilePos, disk, goal, recFile, reason, scan, playVars,
                 ghosts>>

ChooseAppend ==
  /\ rpc = "decide" /\ Appendable /\ firstSkip
  /\ rpc' = "chosen" /\ recCopy' = NewInfo
  /\ UNCHANGED <<index, goal, recFile, reason, scan, firstSkip, playVars,
                 ghosts>>

ChooseNew ==
  /\ rpc = "decide" /\ recCopy.states = "NOWRITE"
  /\ rpc' = "chosen" /\ recCopy' = NewInfo
  /\ UNCHANGED <<index, goal, recFile, reason, scan, firstSkip, playVars,
                 ghosts>>

\* Mutant: the loop starts before the first disk.
CoverFromZeroMutant ==
  /\ rpc = "search" /\ \A d \in Disk : ~Usable(d)
  /\ rpc' = "cover" /\ scan' = 0
  /\ UNCHANGED <<index, goal, recFile, recCopy, reason, firstSkip, playVars,
                 ghosts>>

\* Every disk has left recording: each one that may be overwritten and has a
\* finished file is put back to recording, one write after the other.
StartCover ==
  /\ rpc = "search" /\ \A d \in Disk : ~Usable(d)
  /\ rpc' = "cover" /\ scan' = 1
  /\ UNCHANGED <<index, goal, recFile, recCopy, reason, firstSkip, playVars,
                 ghosts>>

CoverDisk ==
  /\ rpc = "cover" /\ scan \in Disk
  /\ disk' = IF disk[scan].iEnableCover /\ HaveFileToRecover(scan)
             THEN [disk EXCEPT ![scan].IsCover = TRUE,
                               ![scan].IsRecording = TRUE]
             ELSE disk
  /\ scan' = scan + 1
  /\ UNCHANGED <<info, curFilePos, rpc, goal, recFile, recCopy, reason,
                 firstSkip, playVars, ghosts>>

EndCover ==
  /\ rpc = "cover" /\ scan \notin Disk
  /\ IF \E d \in Disk : disk[d].IsRecording
     THEN rpc' = "search" /\ scan' = 1
          /\ UNCHANGED <<goal, recFile, recCopy, reason>>
     ELSE NoDisk
  /\ UNCHANGED <<index, firstSkip, playVars, ghosts>>
-----------------------------------------------------------------------------
(* FS_OpenRecFile after the search.                                        *)

\* At boot the search only tells where the next recording goes.
Located ==
  /\ rpc = "chosen" /\ goal = "locate"
  /\ Return("idle")
  /\ UNCHANGED <<index, firstSkip, playVars, ghosts>>

\* fs_open_record_file cannot open the header or the data file.
OpenFails ==
  /\ rpc = "chosen" /\ goal = "open"
  /\ Return("idle")
  /\ UNCHANGED <<index, firstSkip, playVars, ghosts>>

\* The FILEINFO is read again and marked WRITING.
MarkWriting ==
  /\ rpc = "chosen" /\ goal = "open"
  /\ info[recFile].states \in {"NOWRITE", "WRITEOVER"}
  /\ recCopy' = info[recFile]
  /\ info' = [info EXCEPT ![recFile].states = "WRITING"]
  /\ virgin' = virgin \ {recFile} /\ cutOff' = cutOff \ {recFile}
  /\ rpc' = "marked"
  /\ UNCHANGED <<curFilePos, disk, goal, recFile, reason, scan, firstSkip,
                 playVars>>

\* The header cannot be written, or its last frame cannot be read, or the
\* start entry of the record log: the open fails, the file stays WRITING.
MarkedFails ==
  /\ rpc = "marked"
  /\ cutOff' = cutOff \cup {recFile}
  /\ Return("idle")
  /\ UNCHANGED <<index, firstSkip, playVars, virgin>>

\* Mutant: such a file is stepped over.
TooShortSkipMutant ==
  /\ rpc = "marked" /\ recCopy.states = "WRITEOVER"
  /\ info' = [info EXCEPT ![recFile].states = "NOWRITE"]
  /\ rpc' = "advance" /\ recCopy' = NewInfo
  /\ UNCHANGED <<curFilePos, disk, goal, recFile, reason, scan, firstSkip,
                 playVars, ghosts>>

\* A file to append to holds no two frames: it is made new, searched again.
TooShort ==
  /\ rpc = "marked" /\ recCopy.states = "WRITEOVER"
  /\ info' = [info EXCEPT ![recFile].states = "NOWRITE"]
  /\ rpc' = "search" /\ recCopy' = NewInfo
  /\ UNCHANGED <<curFilePos, disk, goal, recFile, reason, scan, firstSkip,
                 playVars, ghosts>>

Opened ==
  /\ rpc = "marked"
  /\ rpc' = "rec" /\ recCopy' = NewInfo
  /\ UNCHANGED <<index, goal, recFile, reason, scan, firstSkip, playVars,
                 ghosts>>
-----------------------------------------------------------------------------
(* RecWriteOver.                                                           *)

\* Mutant: a stop leaves the mark.
StopKeepsMarkMutant(r) ==
  CASE r = "FILEWRITEERROR" -> "BADFILE" [] r = "STOPRECORD" -> "WRITING"
    [] OTHER -> "WRITEOVER"

\* FILEINFO.states of a file closed for reason r.
ClosedStates(r) == IF r = "FILEWRITEERROR" THEN "BADFILE" ELSE "WRITEOVER"

\* The FILEINFO of the open file is written: finished, or bad.
CloseFile(r) ==
  /\ rpc = "rec"
  /\ info' = [info EXCEPT ![recFile] =
       [states |-> ClosedStates(r), isCover |-> @.isCover /\ r = "STOPRECORD"]]
  /\ reason' = r
  /\ rpc' = "closing"
  /\ UNCHANGED <<curFilePos, disk, goal, recFile, recCopy, scan, firstSkip,
                 playVars, ghosts>>

\* The header of the recording cannot be rewritten: FILEERROR.  After a write
\* error the record thread keeps iFileOpenFlag, so the file is still open.
CloseFails ==
  /\ rpc = "closing"
  /\ IF reason = "FILEWRITEERROR"
     THEN /\ rpc' = "rec" /\ reason' = "STOPRECORD"
          /\ UNCHANGED <<goal, recFile, recCopy, scan>>
     ELSE Return("idle")
  /\ UNCHANGED <<index, firstSkip, playVars, ghosts>>

\* Header rewritten, files closed, record log ended; unless the recording was
\* stopped the cursor must move.
CloseHeader ==
  /\ rpc = "closing"
  /\ IF reason = "STOPRECORD"
     THEN Return("idle")
     ELSE /\ rpc' = "finish" /\ reason' = "STOPRECORD"
          /\ UNCHANGED <<goal, recFile, recCopy, scan>>
  /\ UNCHANGED <<index, firstSkip, playVars, ghosts>>

FinishCursor ==
  LET next == recFile[3] + 1
      dp   == <<recFile[1], recFile[2]>>
  IN /\ rpc = "finish"
     /\ curFilePos' = [curFilePos EXCEPT ![dp] = IF next < NumFiles
                                                 THEN next ELSE 0]
     /\ IF next < NumFiles
        THEN Return("idle")
        ELSE /\ rpc' = "finishPart"
             /\ UNCHANGED <<goal, recFile, recCopy, reason, scan>>
     /\ UNCHANGED <<info, disk, firstSkip, playVars, ghosts>>

FinishPartition ==
  LET d == recFile[1]
  IN /\ rpc = "finishPart"
     /\ disk' = IF LastPartition(d)
                THEN [disk EXCEPT ![d].iPartitionId = 1,
                                  ![d].IsRecording = FALSE]
                ELSE [disk EXCEPT ![d].iPartitionId = @ + 1]
     /\ Return("idle")
     /\ UNCHANGED <<info, curFilePos, firstSkip, playVars, ghosts>>
-----------------------------------------------------------------------------
(* The play thread.                                                        *)

\* No file is played; g_stPlayFilePos is not read before the next open sets it.
PlayReturn == ppc' = "idle" /\ playFile' = AnyFile /\ playCopy' = NewInfo

\* OpenPlayFile, under the log mutex: a finished file is marked PLAYING, the
\* file being recorded can be played too and keeps its mark.
OpenPlay(f) ==
  /\ ppc = "idle" /\ ~LogMutexTaken /\ ~Booting
  /\ info[f].states \in {"WRITEOVER", "WRITING"}
  /\ info' = IF info[f].states = "WRITEOVER"
             THEN [info EXCEPT ![f].states = "PLAYING"] ELSE info
  /\ playFile' = f
  /\ ppc' = IF info[f].states = "WRITEOVER" THEN "hold" ELSE "follow"
  /\ UNCHANGED <<curFilePos, disk, recVars, playCopy, ghosts>>

\* ClosePlayFile when the user stops the player, under the log mutex.
StopPlay ==
  /\ ppc \in {"hold", "follow"} /\ ~LogMutexTaken
  /\ info' = IF info[playFile].states = "PLAYING"
             THEN [info EXCEPT ![playFile].states = "WRITEOVER"] ELSE info
  /\ PlayReturn
  /\ UNCHANGED <<curFilePos, disk, recVars, ghosts>>

\* ClosePlayFile at the end of the file, without the log mutex: the FILEINFO
\* is copied first and written back later.
EndOfFile ==
  /\ ppc \in {"hold", "follow"}
  /\ IF info[playFile].states = "PLAYING"
     THEN ppc' = "release" /\ playCopy' = info[playFile] /\ UNCHANGED playFile
     ELSE PlayReturn
  /\ UNCHANGED <<index, recVars, ghosts>>

ReleaseFile ==
  /\ ppc = "release"
  /\ info' = [info EXCEPT ![playFile] =
                            [playCopy EXCEPT !.states = "WRITEOVER"]]
  /\ PlayReturn
  /\ UNCHANGED <<curFilePos, disk, recVars, ghosts>>
-----------------------------------------------------------------------------
(* Crash, boot repair, and the switch for overwriting.                     *)

\* The process dies, by exit(0), a fault or a kill; the log files stay as they
\* were written.  (That a power failure can also lose what the file system had
\* not yet synced is not modelled.)
Crash ==
  /\ rpc' = "repair" /\ goal' = "locate"
  /\ recFile' = AnyFile /\ recCopy' = NewInfo /\ reason' = "STOPRECORD"
  /\ scan' = 1 /\ firstSkip' = FALSE
  /\ PlayReturn
  /\ cutOff' = cutOff \cup {f \in File : info[f].states = "WRITING"}
  /\ UNCHANGED <<index, virgin>>

\* Mutant: a file that was being played is made new.
RepairPlayingMutant(f) ==
  /\ rpc = "repair" /\ info[f].states \in {"WRITING", "PLAYING"}
  /\ info' = [info EXCEPT ![f].states = "NOWRITE"]
  /\ UNCHANGED <<curFilePos, disk, recVars, playVars, ghosts>>

\* What FS_FixFile leaves of a recording that was cut off: its frames up to the
\* first gap, an empty file, or an unreadable one.
FixedStates == {"WRITEOVER", "NOWRITE", "BADFILE"}

\* FS_FixFileInfo: a file cut off by a crash becomes what FS_FixFile could
\* save of it, a file that was being played becomes finished.
RepairFile(f) ==
  /\ rpc = "repair"
  /\ \/ /\ info[f].states = "WRITING"
        /\ \E s \in FixedStates :
             /\ info' = [info EXCEPT ![f].states = s]
             /\ cutOff' = IF s = "NOWRITE" THEN cutOff ELSE cutOff \ {f}
     \/ /\ info[f].states = "PLAYING"
        /\ info' = [info EXCEPT ![f].states = "WRITEOVER"]
        /\ UNCHANGED cutOff
  /\ UNCHANGED <<curFilePos, disk, recVars, playVars, virgin>>

\* FTC_FixAllDisk is through; FS_GetOpreateDiskPartition searches the disks.
RepairDone ==
  /\ rpc = "repair" /\ \A f \in File : info[f].states \notin
                                         {"WRITING", "PLAYING"}
  /\ rpc' = "search"
  /\ UNCHANGED <<index, goal, recFile, recCopy, reason, scan, firstSkip,
                 playVars, ghosts>>

\* FS_EnableDiskReCover, between two operations of the record thread.
EnableDiskReCover(flag) ==
  /\ rpc = "idle"
  /\ disk' = [d \in Disk |-> [disk[d] EXCEPT !.iEnableCover = flag]]
  /\ UNCHANGED <<info, curFilePos, recVars, playVars, ghosts>>
-----------------------------------------------------------------------------
\* The steps of the search: what the record thread does to find a file.
SearchStep ==
  \/ \E d \in Disk : StartDisk(d) \/ SelectFile(d) \/ SelectFails(d)
  \/ SkipWrong \/ SkipPlaying \/ Advance \/ WrapCursor
  \/ NextPartition \/ LeaveDisk \/ CoverDisabled \/ Reclaim \/ SkipStale
  \/ ChooseAppend \/ ChooseNew \/ StartCover \/ CoverDisk \/ EndCover

OpenStep  == Located \/ OpenFails \/ MarkWriting \/ MarkedFails \/ TooShort
             \/ Opened
CloseStep == CloseFails \/ CloseHeader \/ FinishCursor \/ FinishPartition
PlayStep  == \/ \E f \in File : OpenPlay(f)
             \/ StopPlay \/ EndOfFile \/ ReleaseFile
BootStep  == (\E f \in File : RepairFile(f)) \/ RepairDone

Next == \/ StartOpen \/ SearchStep \/ OpenStep
        \/ \E r \in Reason : CloseFile(r)
        \/ CloseStep \/ PlayStep \/ BootStep \/ Crash
        \/ \E flag \in BOOLEAN : EnableDiskReCover(flag)

Spec == Init /\ [][Next]_vars

\* The record thread never stops by itself within a search, an open or a
\* close, and boot runs to its end: each is a loop of one thread that waits
\* for nobody.  Whether there is anything to record or play is left open.
Fairness == WF_vars(SearchStep) /\ WF_vars(OpenStep) /\ WF_vars(CloseStep)
            /\ WF_vars(BootStep)
FairSpec == Spec /\ Fairness
-----------------------------------------------------------------------------
(* Safety.                                                                 *)

\* Every variable has its type: the states, cursors and partition numbers that
\* the log files can hold, in memory and on the disk.
TypeOK ==
  /\ info \in [File -> FileInfo]
  /\ curFilePos \in [Disk \X Part -> 0 .. NumFiles]
  /\ disk \in [Disk -> DiskState]
  /\ rpc \in RecPc /\ goal \in {"open", "locate"}
  /\ recFile \in File /\ recCopy \in FileInfo
  /\ reason \in Reason /\ scan \in 1 .. NumDisks + 1 /\ firstSkip \in BOOLEAN
  /\ ppc \in {"idle", "hold", "follow", "release"}
  /\ playFile \in File /\ playCopy \in FileInfo
  /\ virgin \subseteq File /\ cutOff \subseteq File

\* A file marked WRITING is the open file or one whose recording was cut off,
\* by a failed open or a crash; and the open file is marked, unless its close
\* after a write error failed halfway.  (FS_OpenRecFile, RecWriteOver)
WritingAccounted ==
  /\ \A f \in File : info[f].states = "WRITING" =>
       f \in cutOff \/ (rpc \in {"marked", "rec"} /\ f = recFile)
  /\ rpc = "marked" => info[recFile].states = "WRITING"
  /\ rpc = "rec"    => info[recFile].states \in {"WRITING", "BADFILE"}

\* From the moment a file is chosen to the step that moves the cursor, the
\* cursor of its partition, the partition of its disk and the disk itself
\* stand at that file: RecWriteOver moves them by one from where they are.
RecordingAtCursor ==
  rpc \in {"decide", "skip", "advance"} \cup Opening \cup
          {"rec", "closing", "finish"} =>
    /\ curFilePos[<<recFile[1], recFile[2]>>] = recFile[3]
    /\ disk[recFile[1]].iPartitionId = recFile[2]
    /\ disk[recFile[1]].IsRecording

\* The file the player holds stays marked PLAYING until the player lets go of
\* it, so the recorder neither reclaims it nor appends to it, in whatever
\* order the two threads read and write its FILEINFO.
PlayHold ==
  ppc \in {"hold", "release"} =>
    /\ info[playFile].states = "PLAYING"
    /\ rpc \in Opening \cup {"rec", "closing"} => recFile # playFile

\* Footage is overwritten only when every file of every disk has been used:
\* the cursors never pass a free file, through crashes between their writes,
\* failed opens and skipped files.
CoverOnlyWhenFull == (\E d \in Disk : disk[d].IsCover) => virgin = {}

\* The disks are filled in order: a disk is put into use only when no file of
\* a disk before it was left unused.
DisksInOrder ==
  \A e \in Disk : disk[e].used => \A f \in virgin : f[1] >= e

\* At most one recording of a partition is given up before its space is
\* needed: a reclaimed file that holds nothing yet is the file at the cursor,
\* or was left there by a recording cut off.
ReclaimedAtCursor ==
  \A f \in File : info[f].states = "NOWRITE" /\ info[f].isCover =>
    curFilePos[<<f[1], f[2]>>] = f[3] \/ f \in cutOff
-----------------------------------------------------------------------------
(* The inductive invariants behind them (RecordFilesProofs): IInv for the  *)
(* first four, FullInv for the rest.                                       *)

\* While the search leaves a partition, its disk still stands at it.
PartitionStands ==
  rpc \in {"wrap", "nextPart", "finishPart"} =>
    disk[recFile[1]].iPartitionId = recFile[2] /\ disk[recFile[1]].IsRecording

\* What the record thread may rely on about the file it handles: its own copy
\* is stale at most in still saying PLAYING, and what it marked stays.
RecFileState ==
  LET states == info[recFile].states
  IN /\ rpc = "decide" =>
          \/ recCopy.states = states
          \/ recCopy.states = "PLAYING" /\ states = "WRITEOVER"
     /\ rpc = "skip" =>
          recCopy.states = "PLAYING" /\ states \in {"PLAYING", "WRITEOVER"}
     /\ rpc \in {"advance", "finish"} => states # "NOWRITE"
     /\ rpc = "chosen"  => states \in {"NOWRITE", "WRITEOVER"}
     /\ rpc = "marked"  => states = "WRITING"
     /\ rpc = "rec"     => states \in {"WRITING", "BADFILE"}
     /\ rpc = "closing" => states = ClosedStates(reason)

\* Boot runs before the play thread is let in.
BootAlone == /\ Booting => ppc = "idle"
             /\ rpc = "repair" => Booting

IInv == /\ TypeOK /\ RecordingAtCursor /\ PartitionStands /\ RecFileState
        /\ WritingAccounted /\ PlayHold /\ BootAlone
\* A file never used lies ahead: its disk is being filled or has not been put
\* into use, neither cursor has passed it, and it is new.
VirginAhead ==
  \A f \in virgin :
    /\ info[f].states = "NOWRITE"
    /\ disk[f[1]].used => disk[f[1]].IsRecording
    /\ disk[f[1]].iPartitionId <= f[2]
    /\ curFilePos[<<f[1], f[2]>>] <= f[3]

\* The record thread never steps over such a file, leaves a partition or a
\* disk that has one, or looks for a disk to overwrite while there is one.
VirginKept ==
  /\ rpc = "decide" /\ recFile \in virgin => recCopy.states = "NOWRITE"
  /\ rpc \in {"skip", "advance", "marked", "rec", "closing", "finish"} =>
       recFile \notin virgin
  /\ rpc \in {"wrap", "nextPart", "finishPart"} =>
       \A f \in virgin : <<f[1], f[2]>> # <<recFile[1], recFile[2]>>
  /\ rpc = "lastPart" => \A f \in virgin : f[1] # recFile[1]
  /\ rpc = "cover" => virgin = {}

\* The cursor about to be wrapped is past every file.
WrapPast == rpc = "wrap" => curFilePos[<<recFile[1], recFile[2]>>] \notin Pos

FullInv == /\ IInv /\ VirginAhead /\ VirginKept /\ WrapPast
           /\ CoverOnlyWhenFull /\ DisksInOrder /\ ReclaimedAtCursor
-----------------------------------------------------------------------------
(* Liveness.                                                               *)

\* Every search for a file comes to an end: a file, an error, or the reboot
\* for want of a disk.  The retry loops of FS_OpenRecFile and
\* FS_GetOpreateDiskPartition have no bound of their own.
SearchEnds == rpc \in Searching \cup Opening ~>
                rpc \notin Searching \cup Opening

\* Once crashes stop, boot comes to an end.
BootEnds == <>[][~Crash]_vars => (Booting ~> ~Booting)
-----------------------------------------------------------------------------
(* The promise of the index.                                               *)

\* The open file; after a write error it stays open until its header is closed.
Current ==
  IF rpc \in {"marked", "rec"} \/ (rpc = "closing" /\ reason = "FILEWRITEERROR")
  THEN {recFile} ELSE {}

StoreState(f) ==
  IF f \in Current THEN "open"
  ELSE CASE info[f].states = "NOWRITE" -> "free"
         [] info[f].states = "WRITING" -> "open"
         [] info[f].states = "BADFILE" -> "bad"
         [] OTHER                      -> "kept"

Store == INSTANCE FootageStore WITH
           Files <- File, store <- [f \in File |-> StoreState(f)],
           current <- Current, taken <- File \ virgin

\* The index keeps the promise of FootageStore: one recording at a time, in a
\* free or finished file; no footage lost before the store is full; no step of
\* the player, of boot or of a crash loses any.
KeepsFootage == Store!Spec
-----------------------------------------------------------------------------
(* What the comments of the code say, and the code does not keep.          *)

\* FSfileoperate.c:1720: a file set to BADFILE is not used again.
BadFileStays ==
  [][\A f \in File : info[f].states = "BADFILE" =>
                     info'[f].states = "BADFILE"]_vars

\* FSfileoperate.c:1389: the PLAYING file the search runs into is a file that
\* is being played.
PlayingMeansPlayed ==
  \A f \in File : info[f].states = "PLAYING" /\ ~Booting =>
    ppc \in {"hold", "release"} /\ f = playFile

\* FTCsaveplayctrl.c:736: boot repairs the file system; once it is through, a
\* search finds a partition that exists and a cursor within its files.
CursorRepaired ==
  rpc = "idle" => \A d \in Disk :
    LET p == disk[d].iPartitionId
    IN disk[d].IsRecording => p \in Part /\ curFilePos[<<d, p>>] \in Pos
=============================================================================
