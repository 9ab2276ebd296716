----------------------------- MODULE RecordData -----------------------------
(***************************************************************************)
(* The frames of the recording file at the cursor: the write buffer, the   *)
(* two files it is flushed to and what boot can save of them.              *)
(*                                                                         *)
(* A recording file is a pair: the header file (.avh) holds a FILEINFO and *)
(* one FRAMEHEADERINFO per frame, the data file (.avd) the frames.  Frames *)
(* gather in g_rec_write_buf and are flushed headers first, data second.   *)
(* Both files live in the raw partition behind IOFile.c, which keeps the   *)
(* size of an open file in memory and writes it to the disk only in        *)
(* file_io_sync: nothing past that size can be read after a restart.       *)
(*                                                                         *)
(* Sizes and offsets count headers (the FILEINFO is the one at 0) in the   *)
(* header file and frames in the data file.  Frames are numbered as they   *)
(* enter the buffer, so the buffer holds the frames pending .. next - 1.   *)
(* One action is one write, so that a crash can fall between any two.      *)
(*                                                                         *)
(* FSfileoperate.c, FSfileinfoop.c, IOFile.c and FTCfilerec.c are the      *)
(* source; how the file is found is in RecordFiles.                        *)
(***************************************************************************)
EXTENDS Naturals, FiniteSets

CONSTANTS MaxFrame,     \* bound: frames captured in a behaviour
          FileMax,      \* file_max_size of the two files
          BufFrames,    \* WRITE_BUF_SYS_MAX_NUM
          SyncEvery,    \* flushes between two syncs (30)
          MaxLost,      \* MAX_LOST_FRAME
          ChanOf(_)     \* the channel of a frame

ASSUME BoundsAssumption == /\ MaxFrame \in Nat /\ FileMax \in Nat
                           /\ BufFrames \in Nat
                           /\ SyncEvery \in Nat /\ MaxLost \in Nat \ {0}

Frame == 1 .. MaxFrame
Slot  == 1 .. FileMax                  \* where a header can lie
Place == 0 .. FileMax                  \* where a frame can lie
Entry == [n : 0 .. MaxFrame, off : 0 .. FileMax]    \* FRAMEHEADERINFO; 0: none

\* Where the record thread stands.  From hdr to syncHead it flushes the buffer.
Opening  == {"trunc", "mark", "head", "append"}
Flushing == {"hdr", "data", "syncData", "syncHead"}
Closing  == {"info", "headInfo", "closeHead", "closeData"}
Pc       == Opening \cup Flushing \cup Closing \cup
            {"closed", "rec", "repair", "fixed"}

FileState == {"NOWRITE", "WRITING", "WRITEOVER", "BADFILE"}
Reason    == {"STOPRECORD", "FILEWRITEOVER", "RECTIMEOVER", "FILEWRITEERROR"}

VARIABLES
  states,       \* fileinfo.log: FILEINFO.states of the file
  ulOffSet,     \* fileinfo.log: FILEINFO.ulOffSet, the end of its headers
  headInfo,     \* ulOffSet of the FILEINFO at the head of the header file
  hdr,          \* the headers on the disk
  data,         \* the frames on the disk
  hsize,        \* DISK_FILE_INFO.file_size of the header file, on the disk
  dsize,        \* DISK_FILE_INFO.file_size of the data file, on the disk
  hlive,        \* rec_header_filest.file_size
  dlive,        \* rec_data_filest.file_size
  headOff,      \* g_ulFrameHeaderOffset
  dataOff,      \* g_ulFileDataOffset
  pending,      \* the first frame in g_rec_write_buf
  next,         \* the next frame to be captured
  gaps,         \* the frames before which the clock jumped by over 3 seconds
  flushes,      \* iCount of FS_write_buf_write_to_file
  pc,           \* where the record thread (or boot) stands
  reason,       \* iReason of RecWriteOver; "none": the flush is not part of it
  sinceBoot,    \* the file was closed since boot
  ended,        \* ghost: what last set ulOffSet, an open, a close (under way,
                \*   or through) or boot repair
  torn          \* ghost: a close left headers past the end it recorded

disk   == <<states, ulOffSet, headInfo, hdr, data, hsize, dsize>>
files  == <<hlive, dlive, headOff, dataOff>>
buffer == <<pending, next, gaps, flushes>>
rest   == <<reason, sinceBoot, ended, torn>>
vars   == <<disk, files, buffer, pc, rest>>

Empty == [n |-> 0, off |-> 0]
Count == next - pending                \* g_rec_write_buf.conut

Init ==
  /\ states = "NOWRITE" /\ ulOffSet = 1 /\ headInfo = 1
  /\ hdr = [i \in Slot |-> Empty] /\ data = [o \in Place |-> 0]
  /\ hsize = 0 /\ dsize = 0 /\ hlive = 0 /\ dlive = 0
  /\ headOff = 1 /\ dataOff = 0
  /\ pending = 1 /\ next = 1 /\ gaps = {} /\ flushes = 0
  /\ pc = "closed" /\ reason = "none" /\ sinceBoot = FALSE /\ ended = "open"
  /\ torn = FALSE
-----------------------------------------------------------------------------
(* FS_OpenRecFile, once the file is chosen.                                *)

\* fs_open_record_file opens a NOWRITE file with "w": the size of each of the
\* two files becomes 0, on the disk too.
OpenNew ==
  /\ pc = "closed" /\ states = "NOWRITE"
  /\ hsize' = 0 /\ hlive' = 0 /\ pc' = "trunc"
  /\ UNCHANGED <<states, ulOffSet, headInfo, hdr, data, dsize, dlive, headOff,
                 dataOff, buffer, rest>>

TruncateData ==
  /\ pc = "trunc"
  /\ dsize' = 0 /\ dlive' = 0 /\ pc' = "mark"
  /\ UNCHANGED <<states, ulOffSet, headInfo, hdr, data, hsize, hlive, headOff,
                 dataOff, buffer, rest>>

MarkNew ==
  /\ pc = "mark"
  /\ states' = "WRITING" /\ ulOffSet' = 1 /\ ended' = "open" /\ torn' = FALSE
  /\ pc' = "head"
  /\ UNCHANGED <<headInfo, hdr, data, hsize, dsize, files, buffer, reason,
                 sinceBoot>>

\* The FILEINFO is written at the head of the header file and synced.  (As
\* long as the data file is empty a crash between the two shows in nothing.)
WriteHead ==
  /\ pc = "head"
  /\ headInfo' = 1 /\ hsize' = 1 /\ hlive' = 1
  /\ headOff' = 1 /\ dataOff' = 0 /\ pc' = "rec"
  /\ UNCHANGED <<states, ulOffSet, hdr, data, dsize, dlive, buffer, rest>>

\* A finished file is opened with "+" and marked.  At boot the search steps
\* over it, and within the hour it may be appended to the disk does not fill.
MarkAppend ==
  /\ pc = "closed" /\ states = "WRITEOVER" /\ sinceBoot
  /\ states' = "WRITING" /\ pc' = "append"
  /\ hlive' = hsize /\ dlive' = dsize
  /\ UNCHANGED <<ulOffSet, headInfo, hdr, data, hsize, dsize, headOff, dataOff,
                 buffer, rest>>

\* Mutant: the data goes on where its last frame starts.
AppendOverMutant ==
  /\ pc = "append" /\ ulOffSet >= 3 /\ ulOffSet <= hsize
  /\ headOff' = ulOffSet /\ dataOff' = hdr[ulOffSet - 1].off
  /\ pc' = "rec"
  /\ UNCHANGED <<disk, hlive, dlive, buffer, rest>>

\* Its last header tells where its data goes on.
AppendOpened ==
  /\ pc = "append" /\ ulOffSet >= 3 /\ ulOffSet <= hsize
  /\ headOff' = ulOffSet /\ dataOff' = hdr[ulOffSet - 1].off + 1
  /\ pc' = "rec"
  /\ UNCHANGED <<disk, hlive, dlive, buffer, rest>>

\* It holds no two frames: it is made new and opened again.
TooShort ==
  /\ pc = "append" /\ ulOffSet < 3
  /\ states' = "NOWRITE" /\ pc' = "closed"
  /\ UNCHANGED <<ulOffSet, headInfo, hdr, data, hsize, dsize, files, buffer,
                 rest>>

\* The data file cannot be opened; or the head not be written, or the last
\* header not read, and the file stays WRITING.
OpenFails ==
  /\ pc \in {"trunc", "head", "append"}
  /\ pc' = "closed"
  /\ UNCHANGED <<disk, files, buffer, rest>>

\* The search goes to another file: a new one, or one reclaimed.
NextFile ==
  /\ pc = "closed"
  /\ states' = "NOWRITE" /\ ulOffSet' = 1 /\ headInfo' = 1
  /\ hdr' = [i \in Slot |-> Empty] /\ data' = [o \in Place |-> 0]
  /\ hsize' = 0 /\ dsize' = 0 /\ hlive' = 0 /\ dlive' = 0
  /\ headOff' = 1 /\ dataOff' = 0
  /\ sinceBoot' = FALSE /\ ended' = "open" /\ torn' = FALSE
  /\ UNCHANGED <<buffer, pc, reason>>
-----------------------------------------------------------------------------
(* FS_WriteOneFrame and the flush.                                         *)

\* The frame goes into the buffer, which is flushed once it holds more than
\* BufFrames frames or the frames in it are large.
Accept(jump, large) ==
  /\ pc = "rec" /\ next <= MaxFrame
  /\ next' = next + 1
  /\ gaps' = IF jump THEN gaps \cup {next} ELSE gaps
  /\ pc' = IF Count + 1 > BufFrames \/ large THEN "hdr" ELSE "rec"
  /\ UNCHANGED <<disk, files, pending, flushes, rest>>

\* A frame that does not fit is lost, and the buffer flushed for the next.
LoseFrame ==
  /\ pc = "rec" /\ Count > 0
  /\ pc' = "hdr"
  /\ UNCHANGED <<disk, files, buffer, rest>>

\* Where a flush returns to: to the next frame, or to the rest of the close.
FlushDone == pc' = (IF reason = "none" THEN "rec" ELSE "info") /\ UNCHANGED reason

\* FILEERROR: the recording is closed for it, which flushes once more; the
\* result of that flush is not looked at.
FlushFails == IF reason = "none"
              THEN /\ reason' = "FILEWRITEERROR"
                   /\ pc' = IF Count = 0 THEN "info" ELSE "hdr"
              ELSE pc' = "info" /\ UNCHANGED reason

\* The headers are given the offsets their frames will have.
FlushHeaders ==
  /\ pc = "hdr" /\ headOff + Count <= FileMax + 1
  /\ hdr' = [i \in Slot |-> IF i \in headOff .. headOff + Count - 1
                            THEN [n   |-> pending + (i - headOff),
                                  off |-> dataOff + (i - headOff)]
                            ELSE hdr[i]]
  /\ headOff' = headOff + Count
  /\ hlive' = IF headOff + Count > hlive THEN headOff + Count ELSE hlive
  /\ pc' = "data"
  /\ UNCHANGED <<states, ulOffSet, headInfo, data, hsize, dsize, dlive,
                 dataOff, buffer, rest>>

\* Mutant: the header offset is taken back, although it was not moved.
TakeBackMutant ==
  /\ pc = "hdr" /\ FlushFails
  /\ headOff' = headOff - Count
  /\ UNCHANGED <<disk, hlive, dlive, dataOff, buffer, sinceBoot, ended, torn>>

\* (What a failing write leaves past the size is not read.)
FlushHeadersFail ==
  /\ pc = "hdr" /\ FlushFails
  /\ UNCHANGED <<disk, files, buffer, sinceBoot, ended, torn>>

\* The place of the data lies past the size of its file: the seek fails, and
\* the header offset stays where it is.
FlushSeekFails ==
  /\ pc = "data" /\ dataOff > dlive
  /\ FlushFails
  /\ UNCHANGED <<disk, files, buffer, sinceBoot, ended, torn>>

FlushData ==
  /\ pc = "data" /\ dataOff <= dlive
  /\ data' = [o \in Place |-> IF o \in dataOff .. dataOff + Count - 1
                              THEN pending + (o - dataOff) ELSE data[o]]
  /\ dataOff' = dataOff + Count
  /\ dlive' = IF dataOff + Count > dlive THEN dataOff + Count ELSE dlive
  /\ pending' = next
  /\ IF flushes + 1 > SyncEvery
     THEN flushes' = 0 /\ pc' = "syncData" /\ UNCHANGED reason
     ELSE flushes' = flushes + 1 /\ FlushDone
  /\ UNCHANGED <<states, ulOffSet, headInfo, hdr, hsize, dsize, hlive, headOff,
                 next, gaps, sinceBoot, ended, torn>>

\* Mutant: the headers of the failed flush are not taken back.
KeepHeadersMutant ==
  /\ pc = "data"
  /\ FlushFails
  /\ UNCHANGED <<disk, files, buffer, sinceBoot, ended, torn>>

\* The header offset is taken back; the buffer keeps its frames.
FlushDataFails ==
  /\ pc = "data" /\ dataOff <= dlive
  /\ headOff' = headOff - Count
  /\ FlushFails
  /\ UNCHANGED <<disk, hlive, dlive, dataOff, buffer, sinceBoot, ended, torn>>

\* Mutant: the two files are synced the other way round, header file first.
SyncHeadFirstMutant ==
  /\ pc = "syncData"
  /\ hsize' = IF hlive > hsize THEN hlive ELSE hsize
  /\ pc' = "syncHead"
  /\ UNCHANGED <<states, ulOffSet, headInfo, hdr, data, dsize, files, buffer,
                 rest>>

SyncData ==
  /\ pc = "syncData"
  /\ dsize' = IF dlive > dsize THEN dlive ELSE dsize
  /\ pc' = "syncHead"
  /\ UNCHANGED <<states, ulOffSet, headInfo, hdr, data, hsize, files, buffer,
                 rest>>

\* The size of the recording goes to record.log last, and may fail to.
SyncHead ==
  /\ pc = "syncHead"
  /\ hsize' = IF hlive > hsize THEN hlive ELSE hsize
  /\ FlushDone \/ FlushFails
  /\ UNCHANGED <<states, ulOffSet, headInfo, hdr, data, dsize, files, buffer,
                 sinceBoot, ended, torn>>
-----------------------------------------------------------------------------
(* RecWriteOver.                                                           *)

StartClose(r) ==
  /\ pc = "rec"
  /\ reason' = r /\ pc' = IF Count > 0 THEN "hdr" ELSE "info"
  /\ UNCHANGED <<disk, files, buffer, sinceBoot, ended, torn>>

CloseInfo ==
  /\ pc = "info"
  /\ states' = IF reason = "FILEWRITEERROR" THEN "BADFILE" ELSE "WRITEOVER"
  /\ ulOffSet' = headOff /\ ended' = "closing" /\ torn' = (torn \/ hlive > headOff)
  /\ pc' = "headInfo"
  /\ UNCHANGED <<headInfo, hdr, data, hsize, dsize, files, buffer, reason,
                 sinceBoot>>

CloseHead ==
  /\ pc = "headInfo"
  /\ headInfo' = headOff /\ pc' = "closeHead"
  /\ UNCHANGED <<states, ulOffSet, hdr, data, hsize, dsize, files, buffer,
                 rest>>

\* The head cannot be rewritten: the files are not closed, and after a write
\* error the record thread goes on with them.
CloseFails ==
  /\ pc = "headInfo"
  /\ pc' = IF reason = "FILEWRITEERROR" THEN "rec" ELSE "closed"
  /\ sinceBoot' = TRUE /\ reason' = "none"
  /\ UNCHANGED <<disk, files, buffer, ended, torn>>

\* Mutant: the header file is closed without its size.
CloseUnsyncedMutant ==
  /\ pc = "closeHead"
  /\ pc' = "closeData"
  /\ UNCHANGED <<disk, files, buffer, rest>>

\* file_io_close syncs each file.
SyncClosedHead ==
  /\ pc = "closeHead"
  /\ hsize' = IF hlive > hsize THEN hlive ELSE hsize
  /\ pc' = "closeData"
  /\ UNCHANGED <<states, ulOffSet, headInfo, hdr, data, dsize, files, buffer,
                 rest>>

SyncClosedData ==
  /\ pc = "closeData"
  /\ dsize' = IF dlive > dsize THEN dlive ELSE dsize
  /\ pc' = "closed" /\ reason' = "none" /\ sinceBoot' = TRUE
  /\ ended' = "closed" /\ UNCHANGED torn
  /\ UNCHANGED <<states, ulOffSet, headInfo, hdr, data, hsize, files, buffer>>
-----------------------------------------------------------------------------
(* Crash and repair.                                                       *)

\* What was in memory is gone: the buffer, and the sizes not synced.
Crash ==
  /\ pc' = "repair" /\ reason' = "none" /\ sinceBoot' = FALSE
  /\ pending' = next /\ flushes' = 0
  /\ hlive' = 0 /\ dlive' = 0 /\ headOff' = 1 /\ dataOff' = 0
  /\ UNCHANGED <<disk, next, gaps, ended, torn>>

\* The clock did not jump between the two frames.
Near(a, b) == \A n \in gaps : ~(a < n /\ n <= b) /\ ~(b < n /\ n <= a)

\* FS_FixFile reads on from the first frame of the cut recording while the
\* header can be read, the clock did not jump and the frame is in the data.
Scanned(start) ==
  {i \in start + 1 .. hsize - 1 : \A j \in start + 1 .. i :
     Near(hdr[start].n, hdr[j].n) /\ hdr[j].off <= dsize}

SameChannel(start) ==
  {i \in Scanned(start) : ChanOf(hdr[i].n) = ChanOf(hdr[start].n)}

\* The frames of that channel with n of them from there on (at most one).
FromEnd(start, n) ==
  {i \in SameChannel(start) :
     Cardinality({j \in SameChannel(start) : j >= i}) = n}

\* Mutant: one frame more is given up.
OneMoreLostMutant(start) ==
  LET ends == FromEnd(start, MaxLost + 1)
  IN IF ends = {} THEN start + 1 ELSE CHOOSE i \in ends : TRUE

\* The frame MaxLost frames of that channel before the end becomes the end.
FixedEnd(start) ==
  LET ends == FromEnd(start, MaxLost)
  IN IF ends = {} THEN start + 1 ELSE CHOOSE i \in ends : TRUE

\* FILE_SIZE_ZERO_ERROR: no data, or no head.
FixEmpty ==
  /\ pc = "repair" /\ states = "WRITING" /\ (dsize = 0 \/ hsize = 0)
  /\ states' = "NOWRITE" /\ pc' = "closed"
  /\ UNCHANGED <<ulOffSet, headInfo, hdr, data, hsize, dsize, files, buffer,
                 rest>>

\* FILESEARCHERROR: nothing was recorded since the file was last closed, or
\* what was does not begin with a picture.
FixNothing ==
  /\ pc = "repair" /\ states = "WRITING" /\ dsize > 0 /\ hsize > 0
  /\ headInfo <= hsize
  /\ states' = "WRITEOVER" /\ pc' = "closed"
  /\ UNCHANGED <<ulOffSet, headInfo, hdr, data, hsize, dsize, files, buffer,
                 rest>>

\* The head of the header file first ...
FixHead ==
  /\ pc = "repair" /\ states = "WRITING" /\ dsize > 0 /\ headInfo < hsize
  /\ headInfo' = FixedEnd(headInfo) /\ pc' = "fixed"
  /\ UNCHANGED <<states, ulOffSet, hdr, data, hsize, dsize, files, buffer,
                 rest>>

\* ... then fileinfo.log.
FixInfo ==
  /\ pc = "fixed"
  /\ states' = "WRITEOVER" /\ ulOffSet' = headInfo
  /\ ended' = "fixed" /\ pc' = "closed"
  /\ UNCHANGED <<headInfo, hdr, data, hsize, dsize, files, buffer, reason,
                 sinceBoot, torn>>

\* The two files cannot be opened, or the head not read: it is made new.  After
\* any other error it is bad, with an end that was never assigned.
FixFails ==
  /\ pc = "repair" /\ states = "WRITING"
  /\ \/ states' = "NOWRITE" /\ UNCHANGED ulOffSet
     \/ states' = "BADFILE" /\ ulOffSet' \in 1 .. FileMax + 1
  /\ pc' = "closed"
  /\ UNCHANGED <<headInfo, hdr, data, hsize, dsize, files, buffer, rest>>

NothingToFix ==
  /\ pc = "repair" /\ states # "WRITING"
  /\ pc' = "closed"
  /\ UNCHANGED <<disk, files, buffer, rest>>
-----------------------------------------------------------------------------
Next ==
  \/ OpenNew \/ TruncateData \/ MarkNew \/ WriteHead
  \/ MarkAppend \/ AppendOpened \/ TooShort \/ OpenFails \/ NextFile
  \/ \E jump, large \in BOOLEAN : Accept(jump, large)
  \/ LoseFrame \/ FlushHeaders \/ FlushHeadersFail
  \/ FlushSeekFails \/ FlushData \/ FlushDataFails \/ SyncData \/ SyncHead
  \/ \E r \in {"STOPRECORD", "FILEWRITEOVER", "RECTIMEOVER"} : StartClose(r)
  \/ CloseInfo \/ CloseHead \/ CloseFails \/ SyncClosedHead \/ SyncClosedData
  \/ Crash
  \/ FixEmpty \/ FixNothing \/ FixHead \/ FixInfo \/ FixFails \/ NothingToFix

Spec == Init /\ [][Next]_vars
-----------------------------------------------------------------------------
\* Every variable has its type.
TypeOK ==
  /\ states \in FileState /\ ulOffSet \in 1 .. FileMax + 1
  /\ headInfo \in 1 .. FileMax + 1
  /\ hdr \in [Slot -> Entry] /\ data \in [Place -> 0 .. MaxFrame]
  /\ hsize \in 0 .. FileMax + 1 /\ dsize \in 0 .. FileMax
  /\ hlive \in 0 .. FileMax + 1 /\ dlive \in 0 .. FileMax
  /\ headOff \in 1 .. FileMax + 1 /\ dataOff \in 0 .. FileMax
  /\ pending \in 1 .. next /\ next \in 1 .. MaxFrame + 1
  /\ gaps \subseteq Frame /\ flushes \in 0 .. SyncEvery
  /\ pc \in Pc /\ reason \in Reason \cup {"none"}
  /\ sinceBoot \in BOOLEAN
  /\ ended \in {"open", "closing", "closed", "fixed"} /\ torn \in BOOLEAN

\* The headers the open file has so far: during a flush those before it.
HeadEnd == IF pc = "data" THEN headOff - Count ELSE headOff

Open == pc \in {"rec"} \cup Flushing \cup Closing

\* The headers below end say where their frames are, all below place.
Described(end, place) ==
  \A i \in 1 .. end - 1 :
    hdr[i].off < place /\ data[hdr[i].off] = hdr[i].n

\* They come in the order their frames were captured.
Ordered(end) == \A i, j \in 1 .. end - 1 : i < j => hdr[i].n < hdr[j].n

\* The header of every frame of the open file says where the frame is, however
\* many flushes failed halfway and were tried again, as long as its data goes on
\* within the size of the data file.
IndexDescribesData ==
  Open /\ dataOff <= dlive => Described(HeadEnd, dataOff)

\* Frames come in the order they were captured, none twice, through failed
\* flushes whose frames go into the next try, or into the next file.
FramesInOrder == Open /\ dataOff <= dlive => Ordered(HeadEnd)

\* Every header below end lies within the size of the header file on the disk,
\* and its frame within that of the data file.
Readable(end) ==
  \A i \in 1 .. end - 1 :
    i < hsize /\ hdr[i].off < dsize /\ data[hdr[i].off] = hdr[i].n

\* A finished file can be read to its end, whatever flushes failed and wherever
\* crashes fell, once its close or its repair was through; unless a close of it
\* left headers without frames past the end it recorded.
KeptReadable ==
  states = "WRITEOVER" /\ ended # "closing" /\ ~torn => Readable(ulOffSet)

\* Boot repair gives up at most MaxLost frames of the first channel of those
\* both files have on the disk since the file was opened.
RepairLosesTail ==
  [][FixHead =>
       Cardinality({i \in headInfo + 1 .. hsize - 1 :
          /\ i >= headInfo' /\ hdr[i].off < dsize
          /\ ChanOf(hdr[i].n) = ChanOf(hdr[headInfo].n)
          /\ Near(hdr[headInfo].n, hdr[i].n)}) <= MaxLost]_vars

-----------------------------------------------------------------------------
(* The inductive invariant behind the first three (RecordDataProofs).      *)

\* The frame of a header lies below the header's own number, and the data goes
\* on below the number of the next header.
PlacesFit ==
  /\ \A i \in Slot : hdr[i].off < i
  /\ Open => dataOff < HeadEnd

\* A flush under way has frames, and has written the headers it counts.
FlushState ==
  /\ pc \in {"hdr", "data"} => Count > 0
  /\ pc = "data" => \A i \in HeadEnd .. headOff - 1 :
                      /\ hdr[i].n = pending + (i - HeadEnd)
                      /\ hdr[i].off = dataOff + (i - HeadEnd)

\* The data goes on behind the last frame, or, once a seek has failed, before.
LastFrame == Open /\ HeadEnd > 1 => dataOff <= hdr[HeadEnd - 1].off + 1

\* The headers of the open file are of frames that have left the buffer.
FramesGone ==
  Open /\ dataOff <= dlive => \A i \in 1 .. HeadEnd - 1 : hdr[i].n < pending

\* Where a file stands between being marked and being opened.
OpeningStates ==
  /\ pc \in {"trunc", "mark"} => states = "NOWRITE"
  /\ pc \in {"head", "append"} => states = "WRITING"
  /\ pc = "mark" => dlive = 0 /\ dsize = 0
  /\ pc = "head" => dlive = 0 /\ dsize = 0
  /\ pc = "append" => dlive = dsize /\ hlive = hsize

\* From the write of its end on, a file being closed keeps that end.
ClosingState ==
  /\ Open => dsize <= dlive
  /\ pc \in {"headInfo", "closeHead", "closeData"} => ulOffSet = headOff
  /\ pc \in {"repair", "fixed"} => ~sinceBoot

\* What is appended to was closed since boot: if its last frame lies within
\* the data file, so do the others.
AppendGood ==
  (pc = "closed" /\ sinceBoot /\ states = "WRITEOVER") \/ pc = "append" =>
    (ulOffSet > 1 /\ hdr[ulOffSet - 1].off < dsize =>
       /\ Described(ulOffSet, hdr[ulOffSet - 1].off + 1)
       /\ Ordered(ulOffSet)
       /\ \A i \in 1 .. ulOffSet - 1 : hdr[i].n < pending)

DInv == /\ TypeOK /\ PlacesFit /\ FlushState /\ LastFrame /\ FramesGone
        /\ OpeningStates /\ ClosingState /\ AppendGood
        /\ IndexDescribesData /\ FramesInOrder

-----------------------------------------------------------------------------
(* What the sizes in memory and on the disk say: OInv is behind            *)
(* RepairLosesTail, KInv behind KeptReadable.                              *)

\* The data goes on at the end of the data file.  The header file holds the
\* headers counted, and at most those of the frames in the buffer.
SizesOpen ==
  Open => /\ dlive <= dataOff /\ hsize <= hlive
          /\ HeadEnd <= hlive /\ hlive <= HeadEnd + Count
          /\ pc = "data" => headOff <= hlive

\* A file that may be appended to, or is about to be.
Appendable ==
  (pc = "closed" /\ sinceBoot /\ states = "WRITEOVER") \/ pc = "append"

\* What is appended goes behind all that is on the disk.
SizesAppend ==
  Appendable => /\ hsize <= ulOffSet + Count
                /\ ulOffSet > 1 => dsize <= hdr[ulOffSet - 1].off + 1

\* Before a header whose frame the data file holds, headers are in order.
InOrder(end, size) ==
  \A i, j \in 1 .. end - 1 : i < j /\ hdr[j].off < size =>
    hdr[i].off < hdr[j].off /\ hdr[i].n < hdr[j].n

\* So they are after a crash, and with the sizes in memory before one.
SyncedInOrder == InOrder(hsize, dsize) /\ (Open => InOrder(hlive, dlive))

OInv == SizesOpen /\ SizesAppend /\ SyncedInOrder

\* Between the writes of an open, a sync and a close.
SyncState ==
  /\ pc \in {"trunc", "mark", "head"} => hsize = 0
  /\ pc \in {"syncData", "syncHead"} => Count = 0
  /\ pc = "syncHead" => dsize = dlive
  /\ pc = "closeData" => hsize = hlive
  /\ pc \in {"headInfo", "closeHead", "closeData"} =>
       ended = "closing" /\ states # "WRITING"

\* Until a close leaves headers past the end, nothing is past an end and no
\* frame is missing.
Whole ==
  ~torn => /\ Open => dataOff <= dlive
           /\ Open /\ pc # "closeData" => hsize <= HeadEnd
           /\ pc \in {"headInfo", "closeHead", "closeData"} => hlive <= headOff
           /\ Appendable => hsize <= ulOffSet

\* All the header file holds on the disk can be read: of a file being recorded
\* or cut by a crash, and of one that may be appended to.
SyncedReadable ==
  ~torn /\ ((Open /\ pc # "closeData") \/ states = "WRITING" \/ Appendable) =>
    Readable(hsize)

\* So can what was finished, also while it is appended to; and what repair
\* makes of a file.
FinishedReadable ==
  ~torn => /\ states \in {"WRITING", "WRITEOVER"} /\ ended # "closing" =>
                Readable(ulOffSet)
           /\ pc = "fixed" => states = "WRITING" /\ Readable(headInfo)

KInv == SyncState /\ Whole /\ SyncedReadable /\ FinishedReadable
-----------------------------------------------------------------------------
(* What the comments of the code say, and the code does not keep.          *)

\* FTCsaveplayctrl.c:736: boot repairs the file system; once it is through, a
\* finished file can be read to the end fileinfo.log gives, also one whose
\* close was interrupted.
CutCloseRepaired ==
  pc = "closed" /\ ~sinceBoot /\ states = "WRITEOVER" /\ ended = "closing" =>
    Readable(ulOffSet)

\* FSfileinfoop.c:696: FS_FixFile checks the first frame of the interrupted
\* recording; what it keeps can be read.
FirstFrameChecked ==
  pc = "closed" /\ states = "WRITEOVER" /\ ended = "fixed" => Readable(ulOffSet)
=============================================================================
