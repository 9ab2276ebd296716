# A verification development for the recorder of Ipcamera

The repository is the firmware of a network camera and recorder.  Its own core
is the recording file system in `src/FileSystem/filesystem`: frames come from
the encoder, are written into pre-created files on raw disk partitions, indexed
by small log files, overwritten when the disks are full, played back, and
repaired at boot after a power cut.  That is what this project models first,
then the calls that start and stop a recording or a playback, and the two buffers through
which frames go from the encoder to the network and to the recorder.  Network
protocols, device drivers and the vendored tools are inventoried below and not
modelled.

| File | What it is |
|---|---|
| `RecordFiles.tla` | the file index: record thread, play thread, crashes, boot repair |
| `FootageStore.tla` | what that index promises, abstractly |
| `RecordFilesProofs.tla`, `FillOrderProofs.tla`, `FootageProofs.tla` | the theorems about them |
| `RecordFiles_*.cfg` | the instances of `RecordFiles` that are model-checked |
| `RecordData.tla` | the frames of the open file: buffer, header and data file, sizes, append, repair |
| `MCRecordData.tla`, `RecordData_*.cfg` | its instances |
| `RecordDataProofs.tla` | the theorems about it |
| `RecordControl.tla`, `RecordControl_*.cfg` | start and stop of a recording: control thread and record thread |
| `RecordControlProofs.tla` | the theorems about it |
| `FrameList.tla`, `FrameList_list.cfg` | the shared list of encoded frames, its encoder thread and its readers |
| `FrameListProofs.tla` | the theorems about it |
| `FrameRing.tla`, `MCFrameRing.tla`, `MCFrameRing_ring.cfg` | the ring buffer between the encoder threads and the record thread |
| `FrameRingProofs.tla` | the theorems about it |
| `PlayControl.tla`, `PlayControl_play.cfg` | start and stop of a playback: callers and play thread |
| `PlayControlProofs.tla` | the theorems about it |
| `PROJECT.json` | components, runs, mutants, the source lines of every definition, findings, hazards, theorems |

Run a configuration with `tlc -config RecordFiles_files.cfg RecordFiles.tla`,
and the proofs with `tlapm RecordFilesProofs.tla`.  File names without a
directory are those of `src/FileSystem/filesystem`.

## 1. The system

### Components, their state and their operations

**File index** (FSfileoperate.c, FSfileinfoop.c, FSdiskinfoop.c).  Per partition,
fileinfo.log: a FILEINFO per file (states, isCover, times, ulOffSet) and the
cursor iCurFilePos.  Per disk, diskinfo.log: a DISKCURRENTSTATE (partition,
IsRecording, IsCover, iEnableCover).  Operations: find the next file
(FS_GetRecondFileName), open it (FS_OpenRecFile), close it (RecWriteOver), boot
repair (FTC_FixAllDisk, FS_FixFileInfo), the switch for overwriting
(FS_EnableDiskReCover).  Correct when no footage is lost before every disk is
full, files are used in order, no file is left half way, and search and boot end.

**Recording data** (FSfileoperate.c, IOFile.c).  The write buffer
g_rec_write_buf; a header file (.avh) and a data file (.avd), each with a size
that IOFile.c keeps in memory and on the partition; the two offsets where the
next flush goes.  Operations: FS_WriteOneFrame, the flush and its sync, open new
and append, close, FS_FixFile.  Correct when the headers describe the data, in
order, and what was kept can be read after any crash.

**Record thread** (FTCfilerec.c).  A loop that takes a frame, changes file at a
key frame when the file is full or old, opens a file when none is open and
writes the frame.  State: gRecstart, iFileOpenFlag, g_iNoChangeLog, the key-frame
flags.  It holds the log mutex through each search and each close.

**Play thread** (FTCfileplay.c).  Opens a finished file (marked PLAYING) or the
file being recorded, reads frames, goes to the next file, closes.  Some paths
take the log mutex, the end of a file does not.

**Record control and play control** (FTCCustomctrl.c).  FTC_StartRec,
FTC_StopRec and the play commands set gRecstart and gPlaystart, then poll until
the thread answers or time is up.  One thread makes the calls of a recording:
main.c:333-405 reads one key at a time and calls them.  The play commands come
from the network service too (netserver.c:220, 944, 1443, 1828, 1884).  Correct when a stop that succeeded is a
stop, a start that succeeded writes frames, and every file starts at a key
frame (section 4 says when it does not).

**Logs** (FSrecordop.c, FSalarmop.c, FSEventInfo.c).  record.log with start and
end entries of recordings, a ring of five-minute marks, and the alarm and event
logs, all cleared by time range as footage is reclaimed.

**Creation thread** (FSfilecreate.c), **preview buffer** (FSpreviouview.c),
**disk mount and format** (FSdiskoperate.c): pre-creation of files under the
gStopCreateFile handshake; the pre-record ring; mounting and partitioning.

**Frame buffers** (avicodelib: bufmanage.c, buf_array.c, singly_linked_list.c,
share_mem.c): frames from the encoder to the recorder and the clients, through
a list whose nodes are shared (singly_linked_list.c) and through a ring that
frames are copied into (buf_array.c).  Correct when a frame in use is not freed,
none is lost from the account of the memory, a frame is read whole, and neither
side waits for ever.

**Network service** (netserver.c, NetModule.c, P2pClient.c, local_socket.c,
udp_*.c): connections, command dispatch.

**Device control** (fic8120ctrl.c, Hisi_dev.c, GM_dev.c), **configuration**,
**main program**, **watchdog**, and vendored code (SDK samples 3516 and goke,
fdisk, mkdosfs, hdparm, rate control, G.711, AES).

### How they interact, and what is hard

The encoder fills the frame buffers, the record thread takes frames from them.
The record thread and the play thread share fileinfo.log, under a log mutex that
not every path takes.  Control threads share one flag with each of them.  All
state that matters lies in log files written one small record at a time, so a
crash can fall between any two writes; boot must bring order into whatever is
left.  The hazards this leads to are listed, each at its line, in
`PROJECT.json`: the recorder's and the player's copies of one FILEINFO, cursors
moved by two or three writes, searches that retry without a bound, headers
written before their frames, sizes that are in memory only, flushes that fail
halfway and are retried into another file, flags polled with a time-out.

## 2. The file index: `RecordFiles`

### State and actions

`info`, `curFilePos` and `disk` are what the log files hold.  Variables `rpc`,
`goal`, `recFile`, `recCopy`, `reason`, `scan` and `firstSkip` are the record
thread: where it stands in the search, the open or the close, and the locals
and globals it has there (`recCopy` is the FILEINFO copy that FS_GetPosFileInfo
fills and that is written back later).  `ppc`, `playFile` and `playCopy` are the
play thread.  Two ghost variables record history the code does not: `virgin`,
the files never recorded into, and `cutOff`, files whose last recording was not
closed.

An action is one persistent write together with the reading and deciding that
leads to it.  In order: `StartOpen`; the search `StartDisk`, `SelectFile`,
`SelectFails`, `SkipWrong`, `SkipPlaying`, `Advance`, `WrapCursor`,
`NextPartition`, `LeaveDisk`, `CoverDisabled`, `Reclaim`, `SkipStale`,
`ChooseAppend`, `ChooseNew`, `StartCover`, `CoverDisk`, `EndCover`; the open
`Located`, `OpenFails`, `MarkWriting`, `MarkedFails`, `TooShort`, `Opened`; the
close `CloseFile`, `CloseFails`, `CloseHeader`, `FinishCursor`,
`FinishPartition`; the player `OpenPlay`, `StopPlay`, `EndOfFile`,
`ReleaseFile`; `Crash` and boot `RepairFile`, `RepairDone`; and
`EnableDiskReCover`.  The mutex is `LogMutexTaken`: the actions that take it in
the code have its negation as a guard, those that do not (`EndOfFile`,
`ReleaseFile`) run at any time.

Decisions that depend on clocks, record modes or file sizes (may a finished
file be appended to, is the file full) are left to chance.  The model starts
from freshly formatted disks with the boot search ahead.

### What is checked

| Run | Instance | Distinct question |
|---|---|---|
| `files` | 1 disk, 2 partitions, 2 files each | types; `WritingAccounted`, `RecordingAtCursor`, `PlayHold`, `ReclaimedAtCursor` |
| `promise` | 2 disks, 1 partition, 1 file, fair | `KeepsFootage` (refinement of `FootageStore`), `CoverOnlyWhenFull`, `DisksInOrder`, `SearchEnds`, `BootEnds` |
| `badfile`, `playing`, `cursor` | 1 disk, 1 partition, 2 files | three statements of comments that the code does not keep |

Nothing is cut off by a bound: the constants are the only limits, and each
instance is explored to the end.  The smallest size at which a case exists is
used: two partitions of two files have a wrap of the cursor, a step to the next
partition and one back to the first; two disks have the order of disks and the
loop that puts them back to recording.  The player plays one file at a time as
in the code.  The state space needs no symmetry (disks, partitions and files are
ordered, so none would be sound).

Fairness (`FairSpec`) is weak fairness of a search step, an open step, a close
step and a boot step.  Each is the next statement of one thread that waits for
nobody while it holds the mutex.  None is assumed of the encoder, of the user
or of the player.  `BootEnds` assumes that crashes stop.

### Findings

* `BadFileStays`.  A comment says a file marked BADFILE is not used again.  If
  the header cannot be rewritten after the mark, the thread keeps the file open
  and the next close marks it WRITEOVER.
* `PlayingMeansPlayed`.  The search writes a stale FILEINFO back over the
  release of the file by the player; the file stays PLAYING, played by nobody,
  until the next boot.
* `CursorRepaired`.  The search writes a cursor past the last file and then 0.
  A crash in between leaves a cursor that boot repair does not look at.

## 3. The recording data: `RecordData`

One recording file in detail, from a FILEINFO that says NOWRITE to whatever a
sequence of recordings, appends, failures, crashes and repairs makes of it.
`states` and `ulOffSet` are its FILEINFO in fileinfo.log, `headInfo` is the
ulOffSet of the FILEINFO at the head of the header file, `hdr` and `data` what
lies on the partition, `hsize`/`dsize` the sizes on the partition and
`hlive`/`dlive` those in memory, `headOff`/`dataOff` the offsets of the next
flush, `pending .. next - 1` the frames in the write buffer.  Sizes and offsets
count frames; the FILEINFO counts as the header at 0.  `ended` and `torn` are
ghosts: what last set the recorded end, and whether a close left headers past it.

The flush is `FlushHeaders`, `FlushData`, `SyncData`, `SyncHead`, with a failing
form of each write; the close is `StartClose`, the flush again (its result not
looked at, as in the code), `CloseInfo`, `CloseHead`, `SyncClosedHead`,
`SyncClosedData`; boot is `FixEmpty`, `FixNothing`, `FixHead` then `FixInfo`,
`FixFails`.  `FixedEnd` is the scan of FS_FixFile: from the first frame of the
cut recording on while the clock does not jump and the frame lies in the data,
and then MaxLost frames of the first frame's channel back.

| Run | Instance | Question |
|---|---|---|
| `data` | 5 frames, files of 4, buffer of 1, sync every second flush, MaxLost 1 | types; `IndexDescribesData`, `FramesInOrder`, `KeptReadable`, `RepairLosesTail` |
| `cutclose`, `firstframe` | the same with 4 frames | two statements of comments that the code does not keep |

The only bound besides the constants is `MaxFrame`, the number of frames in a
behaviour.  Five frames are enough for two flushes with a sync between, a failed
flush retried, a close, an append and a repair that keeps a part; the code's 31
flushes and 50 frames are scaled down with it.  Larger instances (MaxLost 2 with
a sync after every second single-frame flush, files of 5) were explored to the
end as well.

`KeptReadable` excludes three things, each named: a close that is still under
way (a crash there is the finding `CutCloseRepaired`), a close that left headers
without frames past its end (after an append that is cut off this is the finding
`FirstFrameChecked`), and files not finished.  `IndexDescribesData` and
`FramesInOrder` speak of a file whose data goes on within the size of its data
file; after an append to a file whose close failed that need not be so, and then
every flush fails at the seek (`FlushSeekFails`) and closes the file as bad.

Not in the model: failing writes of the size records and failing reads inside
the repair scan; the player's write-back of a size record (a hazard, planned
with the play thread); the frames that are refused before the first key frame.

## 4. Starting and stopping: `RecordControl`

The control thread and the record thread share gRecstart, g_iAlreadyWriteDisk,
g_RecCam, g_preview_sys_flag and the key-frame flags without a lock.  An action
is one access to one of them; a call of the file layer is one action with all
its outcomes, since `RecordFiles` and `RecordData` take those apart.  `rpc` and
`cpc` are the places of the two threads.  Frames come with every combination of
key frame or not and near the clock or not.

The record thread: `Spin` (nothing to record), `Turn` (the test for a stop, which
a change of file under way puts off), `Stop`, `Acknowledge`, `Quiet` and `FeedOff`
(the preview is read, and the feed turned off a step later); `Take`, `TakeNothing`, `ChangeFile`, `Open`, `OpenFails`, `OpenRefused`, `Gate`, `Put`,
`WriteError`.  The control thread: `StartRec` to `FeedOn`, then `Started` or
`TooLate` and `GiveUp`; `ChangeCams`, `ChangeKeys`; `StopRec`, `SetStop`,
`StopRight`, `StopTimeout`; `PreviewRecordStart` and `PreviewRecordStop`.  The two
time-outs may come at any time.  `Restart` ends the process at any step and boots
it again.

The clock is read twice for a frame: `Open` and `OpenRefused` go by `fresh` (a key
frame up to 120 s off), `Gate` by a verdict of its own (less than 120 s), which
may differ at exactly 120 s, after a slow FS_OpenRecFile, or when the clock is set.
`kept` says that a flush of RecWriteOver failed and left frames in
g_rec_write_buf: nothing clears it, they go first into the next file, and a frame
for which there is then no room is lost (FSfileoperate.c:2320).

The ghosts say what the globals do not: `failed`, that the file layer has
reported an error since the last open; `gaveUp`, that the record thread stopped by itself;
`handed`, `stopped`, `first` and `excused` as declared in the module.

| Run | Instance | Question |
|---|---|---|
| `control` | Short 0, Long 1, fair | `TypeOK`, `OneHandle`, `StopClosesFile`, `StartMeansFrame`, `KeyFrameFirst`, `StartKept`, `StopAnswered` |

There is no bound besides the two times, counted in frames: the age of a
recording is compared with 5 seconds (`Short`) and with g_RecDuringTime
(`Long`), so below, between and above are all there is to tell apart.

Fairness: weak for the record thread as a whole, `RecStep` with `TakeNothing` and
`Take`, which is scheduled and whose calls to the disk return; `SF_vars(feed /\ Take(KeyFrame))`, while the feed is on the encoder
sends a key frame with the time of day again and again (a GOP is finite).  None
of the control thread.  `StopAnswered` excuses a preview that is stopped while
the stop is pending: with a change of file under way the thread waits for a file
to be opened, opening waits for the preview, and gRecstart stays -2 until the
preview is started again.  It excuses a feed that is off as well: the thread may have
read g_preview_sys_flag (line 111) before the preview was started, and turn the feed
off (112) after PreviewRecordStart or a start of a recording turned it on; no key
frame then comes for which a file could be opened.

`KeyFrameFirst` has two exceptions, and the run finds it violated without either of
them, so the comment at FTCfilerec.c:340, "make sure first frame is key frame", is
not kept there.  A key frame for which a file was opened may be skipped at 316; if its
camera's flag is still set from the file before, the next frame, of any type, begins
the file.  And frames of a failed flush come before it.  `excused` is set by exactly
these two.

What the code does, as the model shows:

* g_PreRecordFlag is always 0 and the preview thread is not created; RECTESTERROR
  is never returned; g_RecAudioCam is cleared at boot, so audio is not written.
* key 'e' while nothing records starts cameras 4 to 7, of which no frame comes: the
  call times out, and the file opened for it stays open with gRecstart 0
  (`OneHandle` holds: the next start goes on with that file).
* g_iNoChangeLog starts at 0 and a stop does not set it: the first recording, and
  one after a stop, have no start entry in record.log.
  The comment at FTCfilerec.c:263 has an entry ended early when a change of file
  in the course of a recording finds no file; its test of g_iNoChangeLog is also true
  of these recordings, and `EndEntry` then ends an entry that was never started.

## 5. The frame list: `FrameList`

One list of singly_linked_list.c with the encoder thread that adds to it and its
readers: the thread that sends to the network and to the recorder (`Net`, of
encode_thread), and those that do only the former.  A node is its id (`seq_no`), given
in order and never again.  Each call of the list is under the list's mutex and is one
action: `DelTail`, `Add`, `Lock` or `Miss`, `Skip`, `Unlock`.  What the callers read
without the mutex is an action of its own: `Room`, `Wait`, `Newest`.  `node` holds the
nodes that are allocated, `list` those that the pointers reach, `get` what a reader's
SINGLY_LINKED_GET_DATA_ST points to, also after the node was given back.

A reader in a node goes through `Drop` (too long to send), `Look` (is it a key
frame?), `Test` (lost_frame) and `Send`.  One that was overtaken goes where
sll_get_last_key_frame_list_item_no says (`Skip`), which is seldom a key frame: it
looks for the H.264 start of one at data + 36 (singly_linked_list.c:538), while
frames are stored and read at data + 96 (GK_VIDEO_DATA_OFFSET).  What is found at 36 is
whatever the buffer held there before, so the model lets it name any node but
the first, from which its loop starts without looking at it, or none, and then the reader
goes to head_id (`Newest`).  What keeps the reader from sending what cannot be
decoded is lost_frame alone (`lost`).  There is one for client_pst[0]: `Net` sets it, both
readers clear it at a key frame of their own (856, 867, 1100, 1111) and test it, and
the one that the view thread sets (1090, 1164) is a variable of its own that nobody tests.

| Run | Instance | Question |
|---|---|---|
| `list` | 2 readers, 5 nodes, 7 bytes, frames of 1 or 2, those of 2 too long to send, fair | types; `NeverEmpty`, `ListWhole`, `HeldIsLive`, `Shortcut`, `SizesAccounted`, `KeyAfterGap`, `CatchesUp` |

Bounds: `Last` (4 frames) ends the behaviour of the encoder; the list keeps at
most three of them, so that the oldest are dropped, some while they are held, and
readers are overtaken.  `SendMax` (1) makes one of the two lengths too long to
send.  `UInt` (16) scales the wrap of item_num - 1 and item_num + 2 down.

`KeyAfterGap` says that after any frame that `Net` did not send, whether dropped for its
length, refused by a connection or overtaken, it sends a key frame first.  The
exception is `cleared`, that another reader ended the waiting.  `CatchesUp` says
that a reader comes to have read the newest frame and to have given it back once
the encoder pauses; it does not say that it sent it, which is up to lost_frame.

`NeverEmpty` needs (Readers + 1) * MaxLen < MaxSize and MaxNum > 3
(`RoomForReaders`, which is proved to be enough, section 8), and the instance
satisfies it: what readers hold off the list counts as used space, and when it
fills the size of the list the encoder drops every frame, then goes on deleting
from an empty list.  The code states no such bound.  Its frames would have to be about a third
of the list for it to matter, and the encoder's are not.

Fairness: weak, for the encoder thread, the arrival of frames up to `Last`, and
each reader.  Each is a loop that waits for nobody but the mutex, which is held
for one action.

## 6. The frame ring: `FrameRing`

CYCLE_BUFFER of buf_array.c as insert_enc_buf and get_enc_buf use it.  Writers
exclude one another by one mutex, readers by another.  `ring` is the sequence of
records, a header and a data record for each frame, between out and in, and
fifo_len (`Bytes`) the number of the bytes in them.  There is one reader, the record
thread.  `Offer` and `Ask` look without a mutex.

item_num is computed from total_write and total_read, which start again from 0 at
1000000 (`MaxTotal`).  Each access of a thread to one of them is an action: on the
writer's side `MoveIn` (in), `CountIn` (total_write++), `WrapIn`, `TestIn` and `SubIn`
(the two reads of total_read, for the test and for the subtraction) and `PutDone` (the store
of item_num); on the reader's side `MoveOut` to `GetDone`.  So a total may be seen
at 1000000 before it is 0, may wrap between the two reads, and the number may be old when
it is stored: item_num comes out negative, or about 1000000, and fifo_get then
finds fewer records than it was promised, or none.  `Get` goes to "error", and `Reset`
empties the ring under the writers' mutex (fic8120ctrl.c:10069), between two frames.

| Run | Instance | Question |
|---|---|---|
| `ring` | a writer of frames of 1 or 2 bytes, one of frames of 1, 7 bytes, slack 5, totals to 8, save_num 1 or 2, fair | types; `NeverShort`, `TotalsCount`, `WholeFrames`, `Flows` |

`RingAssumption` is what the sizes of the code satisfy.  Slack (600 * 1024) takes a frame
of every writer with its header: one of video, as long as insert_enc_buf accepts it
(502 KB), and one of audio, at most 8 KB.  A ring of 1 MB holds at most 28339 frames of a
header (36 bytes) and a byte, so its records are fewer than a total counts.  The
save_num may be anything.  The instance is scaled down from these: MaxTotal 8 is the least
that satisfies the last condition, and the totals wrap within four frames.

What the run shows: no record is ever cut (`NeverShort`), though two writers may
have seen the same room.  The totals count what is in the ring, modulo their wrap, over
wraps and resets (`TotalsCount`): a wrong item_num is put right by the next put or
get, and does not last.  The reader always reads a header and the data that belongs to it
(`WholeFrames`); if a reset falls between the two it gets neither, and
get_enc_buf_info, which ignores the result (bufmanage.c:203), may then hand on what
the buffer held before.  `Flows` says that the record thread gets frames for ever,
except in one state: a ring so full that no writer offers a frame, and an item_num
below 2 (`Stuck`), in which everybody waits for ever.  It is reached with a number from before the
last frames came, when frames are longer than about 200 KB (Size - Slack is
424 KB), or with a negative one from a wrap.  That the exception is needed, TLC
shows: without it `Flows` is violated in this instance.

Fairness: weak, for the reader, for each writer's insert, and for each writer's
source: cameras and microphones go on.  `Flows` needs the last one because
save_num records have to come before the first is read.

## 7. Starting and stopping a playback: `PlayControl`

The play thread and the threads that call FTC_StopPlay, FTC_SetTimeToPlay and
FTC_ReclistPlay share gPlaystart, g_playFileInfo and g_TimePlayPoint; only the
play by time takes the play mutex.  An action is one access to one of them.
`ppc` is the place of the play thread, `cpc[c]` that of a caller.  A file is a
number in the order of FTC_ToNextFile, and `marks` are those whose FILEINFO says
PLAYING.  What else the FILEINFO says is the recorder's affair (`RecordFiles`), so
a test of it may go either way.  `held` is the file whose handles are open, kept
apart from the two flags by which the thread itself knows (`must`, `flag`).

The thread: `Turn`; `End` and `Answer` for a gPlaystart of -2; `Open`, `OpenFails`,
`Seek`, `SeekFails`, `Read`, `ReadStops`, `EndOfFile`, and `Send`, `SendRoom` while a
frame waits for room.  A caller: `SetTimeToPlay`, `ReclistPlay` or `StopPlay`;
`StopTest`, `Halt` and `Stopped` in FTC_StopPlay; `FileGoToTimePoint` or
`SearchFails`; then FTC_SetPlayFileInfo from `SetPlayFileInfo` to `TryNext`.

| Run | Instance | Question |
|---|---|---|
| `play` | 2 callers, 2 files, 2 further tries, fair | types; `StopMeansClosed`, `MarkTakenBack`, `OkMeansPlaying`, `CallsEnd` |

What the model shows of the code, and what the ghost `fault` stands for:

* The player sets gPlaystart to -2 by itself (end of the time to play, point not found,
  no next file).  FTC_StopPlay acts on 1 only, so a play call then goes on at
  once, and after a stop that timed out too; FTC_SetPlayFileInfo writes 1
  over the -2 (FTCCustomctrl.c:1799).  The player opens the next file over the
  handles of the old one, which stays PLAYING until the next boot.  The same
  happens to two play calls at once.  Such a call is *rash*.
* A close or an open that cannot read or write fileinfo.log leaves a file open that the
  thread no longer knows of: *lost*.
* The properties excuse both, until the next answered stop that finds no file open
  and no play call under way.  Without the excuses TLC finds each of these violated.
* Another caller's stop makes a play call that has not seen its point yet go on to the
  next file, as if the file had no data.
* The file after the last try is started although ERROR is returned
  (FTCCustomctrl.c:1799-1808).

Bounds: two files, so that the next one differs; `Tries` is 2 instead of 5, which lets
a second file be polled for and a last one be started without; `Listers`, who calls FTC_ReclistPlay,
is the network service, as in the code.  `PlayRash` FALSE lets no call but a lone
stop begin after a rash one, of which nothing is claimed; the
theorems hold with TRUE as well, and for any `Listers`.

Fairness: weak, for each caller, and for the thread wherever it does not wait for room.
Room for frames, and a fair mutex, are not assumed.  `CallsEnd` needs neither.

## 8. What is proved

By TLAPS; the first three rows for all numbers of disks, partitions and files
(`SizesAssumption`: each at least one):

| Theorem | Module | Statement |
|---|---|---|
| `Invariance`, `TypeCorrect`, `WritingIsAccounted`, `CursorsStand`, `PlayerHolds` | `RecordFilesProofs` | `[]IInv` and from it `TypeOK`, `WritingAccounted`, `RecordingAtCursor`, `PlayHold` |
| `FullInvariance`, `NothingOverwrittenEarly`, `FilledInOrder`, `OneReclaimed` | `FillOrderProofs` | `[]FullInv` and from it `CoverOnlyWhenFull`, `DisksInOrder`, `ReclaimedAtCursor` |
| `IndexKeepsFootage` | `FootageProofs` | `Spec => KeepsFootage`: the index implements `FootageStore` |
| `Inductive`, `TypeCorrect`, `HandleTrue`, `StopIsClosed` | `RecordControlProofs` | `[]CInv` and from it `TypeOK`, `OneHandle`, `StopClosesFile` |
| `StartIsWriting`, `KeyFrameIsFirst`, `StartIsKept` | `RecordControlProofs` | the action properties `StartMeansFrame`, `KeyFrameFirst`, `StartKept` |
| `Inductive`, `NeverRunsEmpty`, `SizesStayTrue`, `TypeCorrect`, `ListIsWhole`, `HeldStaysLive`, `ShortcutIsSafe` | `FrameListProofs` | from `RoomForReaders`: the joint invariant of `LInv`, `OffUsed`, `SizesAccounted`, `Behind` and `Kept`, and from it `NeverEmpty`, `SizesAccounted`, `TypeOK`, `ListWhole`, `HeldIsLive`, `Shortcut` |
| `KeyComesFirst` | `FrameListProofs` | from `RoomForReaders`: `[]Gap`, on top of these, and from it `KeyAfterGap` |
| `Inductive`, `TypeCorrect`, `NeverCut`, `TotalsRight`, `FramesWhole` | `FrameRingProofs` | `[]RInv` and from it `TypeOK`, `NeverShort`, `TotalsCount`, `WholeFrames` |
| `Types`, `StopCloses`, `MarksTakenBack`, `OkIsPlaying`, `NeverHolds` | `PlayControlProofs` | from `[]PInv`: `TypeOK`, `StopMeansClosed`, `MarkTakenBack`, `OkMeansPlaying`, and that without a rash call the unbounded wait of FTC_SetPlayFileInfo for a running player is not reached |
| `DInvariance`, `DataTypes`, `IndexAlwaysDescribes`, `FramesAlwaysInOrder` | `RecordDataProofs` | `[]DInv` and from it `TypeOK`, `IndexDescribesData`, `FramesInOrder` |
| `OInvariance`, `RepairLosesLittle` | `RecordDataProofs` | `[]OInv`, on top of `DInv`, and from it the action property `RepairLosesTail` |
| `KInvariance`, `FinishedStaysReadable` | `RecordDataProofs` | `[]KInv`, on top of both, and from it `KeptReadable` |

*`IInv`.*  None of the four properties is inductive by itself.  `PlayHold` needs
to know what the record thread's copy of a FILEINFO may say compared with the
record itself: `RecFileState` says it is stale at most in still saying PLAYING
while the file is already WRITEOVER, and what the states of the file in hand
are at each step.  `RecordingAtCursor` needs `PartitionStands` for the steps
that leave a partition, and `BootAlone` says that the player is not there while
boot repairs, without which a repair could take a file from the player.

*`FullInv`.*  That nothing is overwritten early is a fact about places: a file
never used lies at or after both cursors, on a disk that is being filled or has
not been put into use (`VirginAhead`), and no step of the record thread leaves
a partition or a disk that still has one (`VirginKept`, `WrapPast`).  When the
search finds no usable disk, there is then no unused file.

*The refinement* maps a file to "open" while it is the open file, and otherwise
from its states; a file marked WRITING after a crash is still "open" until boot
settles it.  Each step is a step of the store (`MarkTakes`, `Ends`,
`HeaderEnds`, and so on) or leaves the mapped state alone.  `Reclaim` needs
`FullInv`: the store gives up footage only when all files were taken.

*`DInv`.*  The theorems about `RecordData` hold for every number of frames and
every size of file, buffer and sync interval (`BoundsAssumption`: natural
numbers, MaxLost at least one).  `IndexDescribesData` is not inductive for three
reasons.  A flush writes headers before frames, so `FlushState` says what those
headers promise until the frames follow.  A file is closed and appended to, so
`AppendGood` keeps for a finished file what held of it while it was open; that
is lost when a close failed before the sizes were synced, and `LastFrame` is
what tells the two apart: if the last frame lies within the data file, the data
went on within it.  And `PlacesFit` (a frame lies below the number of its header)
is why `FlushData` needs no guard on the size of its file: a write past it, which
file_io_write refuses, is one of the outcomes of `FlushDataFails`.

*`CInv`* holds for all `Short <= Long` (`ControlAssumption`).  Each property
needs a part that says what the two threads may know of one another at each
place: `StopInv`, that from the acknowledgement to the next start gRecstart is 0,
the record thread is past its close and no file is open; `StartInv`, that
g_iAlreadyWriteDisk, once this start has reset it, is set only behind a frame;
`KeyInv`, that between the opening of a file and its first frame the flag of a
recorded camera is set only while the key frame is in hand, unless that was skipped
or frames of the file before are there first (`excused`); `LogInv`, that
g_iNoChangeLog is set only while no entry of record.log is open.

*`LInv`* holds for any finite set of readers, any list size and any wrap of the
unsigned counts (`ListAssumption`), if the list has room for a frame of every
reader and one more (`RoomForReaders`).  That one condition on the constants is
all the theorems assume: `NeverEmpty` is proved from it, together with the rest.
`Shape` says that the list is the ids from tail_id up and which nodes are off it,
`Users` that user_num is the number of readers inside a node; the two do not
need each other's conclusion that the list is not empty only because the step
lemma assumes it before the step and `KeptStep` gives it after.  The argument of
`KeptStep`: a node is off the list only while a reader is inside (`OffUsed`), so
there are at most as many as readers, and with `SizesAccounted` notFree is at
most their number times MaxLen (`OffBound`).  So an encoder that finds the list
full finds two nodes on it (`RoomWhenShort`), and deletes at most the older.
`Behind` (a reader is not ahead of the encoder) is what the steps that follow a
shortcut rest on.  `Gap` says of each place of the sending thread that its frame is the
one after the last it sent, unless lost_frame is set or was cleared by another reader;
that a node keeps its frame as long as it is allocated (`KeyStays`) carries the
key frame `Look` has seen to the step that sends it.  The sizes are stated as the number of
elements of a set of bytes, `Data`, because the laws of a sum over a set take
operators as parameters.

*`RInv`* holds for any finite set of writers and the sizes of `RingAssumption`
(section 6).  `RoomKept` says that each writer that saw room still has a whole
frame of it, except for what it has put already; that Slack takes a frame of every writer
makes it start (`BusyMore`) and is why no record is cut (`Fits`).  `Turns`,
`ReaderAt` and `WriterAt` say that headers and data take turns from the reader's
place to the last record, which is a header only while its writer has the data to
put; a reset keeps them because it needs the writers' mutex, and the reader then starts
with a header.  None of this depends on item_num, whose values `TypeOK` bounds by one
`MaxTotal` below 0 and two above, and no more is true of it.  `Wraps` says that a
total is at MaxTotal only before the step that sets it to 0, and with it
`TotalsCount` is kept by that step: the difference moves by MaxTotal, and cannot
leave the three values because the ring holds fewer records than that
(`FewRecords`: k pairs of records are k headers and k bytes, `PairBytes`).  The
bytes of a sequence are the number of elements of a set (`StoredAppend`,
`StoredTail`), not a fold, whose laws would be inductions.

*`PInv`* holds for any number of files, callers and tries (`PlayAssumption`).
`StopMeansClosed` follows from `Answered`: only `Answer` writes 0.  That it writes
it with the file closed needs `FileKnown` (an open file that is not being played has gPlaystart at
-2 and the thread before its close), and that nobody takes this -2 away needs
`Quiet`: unless a call was rash, a caller between the answer to its stop and its
own start has the player idle, and by `Alone` it is the only one there.  `Pointed`
follows the time to go to from one start to the next.

*`OInv` and `KInv`* are what `RecordData` knows of its two files on the disk, for
any sizes, sync interval and MAX_LOST_FRAME above 0.  `RepairLosesTail` compares
what FS_FixFile reads again, which stops at the first header out of line, with all
that lies within both sizes.  That the first is all of the second needs
`SyncedInOrder`: below a header whose frame the data file holds, the headers come
in the order of their frames and of their places.  A flush keeps it because what
it writes lies behind all the data there is (`SizesOpen`: the data goes on at the
end of its file, never within it), an append because of `SizesAppend`.  The other
half is `FixedEndKeeps`: of a finite set, some element has exactly MaxLost elements
from it on, unless the set has fewer.  It is not proved by induction but from
the least place with fewer than MaxLost behind it; that there is a least one
(`LeastNumber`) comes from the library's theorem that the subsets of a finite set
are well-founded.

`KeptReadable` is about a file at rest, but it is decided while the file is open.
`Whole` says that, as long as no close has left headers past the end, nothing on
the disk lies past the end being recorded and no seek can fail; `SyncedReadable` then
carries that all headers on the disk can be read through every sync (data file
first, which is what makes it true), append and crash up to FS_FixFile, and
`FinishedReadable` that the recorded end stays within them.  The one place where
`SyncedReadable` is given up is between the two syncs of a close: a crash there
is the run `cutclose`.

Only model-checked: the liveness properties `SearchEnds`, `BootEnds`,
`StopAnswered`, `CatchesUp`, `Flows` and `CallsEnd` (fairness is out of the prover's
reach), and the properties of the runs that expect a violation.  Every other
property of a passing run is a theorem.

## 9. What is abstracted, and not modelled

* Times, sizes and iDataEffect of a FILEINFO.  The player's unlocked write back
  can undo a NOEFFECT set by the search as well; only `states` is in the model.
* `Crash` is the death of the process at any write.  UseInfoWriteToFile ends in
  sync(), FS_FileInfoWriteToFile and FS_WriteDiskCurrentState do not, and the
  partitions are mounted without sync (FSdiskoperate.c:361): a power failure may
  also lose index writes made before it.  That is not modelled.
* Failing writes of the index files themselves, and a failing end entry of the
  record log inside RecWriteOver, which acts like `CloseFails`.
* All disks have the right format and the same numbers of partitions and files.
* FS_EnableDiskReCover is called without the mutex; main.c:319 calls it once at
  boot, and the model takes it between two operations of the record thread.
* exit(0) for want of a disk is `rpc = "exit"` followed by `Crash`.
* In `RecordControl`: what FTC_StartRec does when gRecstart is not 0 and there is
  no change of camera, or after a time-out, with a frame read into NULL (part of
  `Restart`); channels other than 0, which no driver in the repository delivers.
* In `PlayControl`: speeds and single frames, copying to USB, the search of the logs that
  chooses the file, FTC_AlarmlistPlay and FTC_ChangeRecordToPlay, which go through
  FTC_SetTimeToPlay; the exit of the thread (gPlaystart is never -1).
* Other hazards seen and not modelled: the unlocked writes of FS_EnableDiskReCover at
  boot, descriptors left open by a failed FS_OpenRecFile, and the thread argument at
  fic8120ctrl.c:11750.
* In `FrameList` and `FrameRing`: video_lost (frames an encoder thread throws away
  before it offers them), the delivery of a frame to a socket, the clients besides
  client_pst[0], the audio list (whose thread, which would set lost_frame too, is not
  started: fic8120ctrl.c:11830-11839), whose readers copy under the mutex (sll_get_list_item_no), and
  the start of encode_thread, which is given the address of a loop variable.
* Most of the repository by lines is vendor samples and drivers (3516, goke,
  fic8120ctrl.c), protocol and configuration code without shared state to reason
  about, and tools; a model of every line of it is not aimed at.
* Code paths behind USE_DISK_WIRET_DIRECT, and functions nothing calls
  (check_file_have_space_write, InitPreviouView).
* The components listed as not modelled in `PROJECT.json`, with the reason.

## 10. Plan

Done: 1. `RecordFiles` with `FootageStore` and their proofs.  2. `RecordData`.
3. `RecordControl`.  4. `FrameList` and `FrameRing`, the frame buffers.  5. `PlayControl`.  Each with
its proofs where section 8 says so.

Next, in this order:

6. `RecordLog`: record.log and the time-stick ring with the start and end
   entries the record thread writes; clearing by range as footage is reclaimed.
   Abstract specification: a set of recordings that are open or closed.  It
   composes with `RecordControl` through g_iNoChangeLog.
7. The player's open of the file under recording and its write back of the size
   record, which joins `PlayControl` to `RecordData`.
8. `CreateControl`: the gStopCreateFile handshake, with liveness of the stop.
9. The send rings of netserver.c and NetModule.c, for clients that come and go.
10. Disk format: the order of the writes of a new disk and a crash in between.

Runs of the same shape as those above: one small instance per question, two of
everything that can be two.  Theorems to prove next: that
`RecordLog` implements its set of recordings.
