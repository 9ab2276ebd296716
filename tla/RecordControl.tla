--------------------------- MODULE RecordControl ---------------------------
(***************************************************************************)
(* Starting and stopping a recording: the control calls of FTCCustomctrl.c *)
(* and the record thread of FTCfilerec.c, which talk through the globals   *)
(* gRecstart, g_iAlreadyWriteDisk, g_RecCam, g_preview_sys_flag and the    *)
(* key-frame flags, with no lock.                                          *)
(*                                                                         *)
(* One thread makes the control calls (main.c reads one key at a time:     *)
(* 'a' starts all cameras, 'e' starts or changes to cameras 4-7, 's'       *)
(* stops, 'j' and 'k' start and stop the preview).  Frames carry channel 0 *)
(* (GM_dev.c:206), so g_RecCam is one BOOLEAN: whether it holds channel 0. *)
(* One action is one access to a variable both threads use; a call to the  *)
(* file layer (FS_OpenRecFile, RecWriteOver, FS_WriteOneFrame) is one      *)
(* action with all its outcomes: RecordFiles and RecordData take those     *)
(* apart.  Time is counted in frames.                                      *)
(***************************************************************************)
EXTENDS Naturals, Integers

CONSTANTS Short,  \* frames in 5 seconds: a younger file is not closed
          Long    \* frames in g_RecDuringTime (1200 seconds)

ASSUME ControlAssumption == Short \in Nat /\ Long \in Nat /\ Short <= Long

VARIABLES
  gRecstart,  \* 1: recording; -2: asked to stop; 0: stopped
  already,    \* g_iAlreadyWriteDisk
  cam,        \* channel 0 is in g_RecCam
  keyed,      \* g_chan_already_have_key_frame[0]
  preview,    \* g_preview_sys_flag and g_PreviewIsStart
  feed,       \* g_enable_rec_flag: the encoder feeds the frame ring
  noChange,   \* g_iNoChangeLog: the next file starts an entry of record.log
  rpc,        \* where the record thread stands
  changing,   \* change_file_count: a key frame was asked for to change file
  fileOpen,   \* iFileOpenFlag > 0
  age,        \* frames since recTime; recTime is not initialised
  frame,      \* the frame in hand
  openFile,   \* rec_header_filest is really open
  full,       \* FS_CheckRecFile() = FILEFULL
  entry,      \* record.log has a start, and no end, at g_stLogPos
  cpc,        \* where the control thread stands
  want,       \* iCam of the call being made
  failed,     \* ghost: the file layer reported an error
  gaveUp,     \* ghost: the record thread stopped by itself after an error
  handed,     \* ghost: since StartRec a frame went to a file that was really
              \*   open, or whose failure was reported
  stopped,    \* ghost: StopRec has said "Record stop right!"
  kept,       \* RecWriteOver left frames in g_rec_write_buf: they go first into
              \*   the next file
  first,      \* ghost: no frame has been written to the file since it was opened
  excused     \* ghost: since then one was skipped for its time, or the file was
              \*   opened with frames of another in g_rec_write_buf

flags  == <<cam, keyed, preview>>
thread == <<rpc, changing, fileOpen, age, frame>>
file   == <<openFile, full, entry, kept>>
ctl    == <<cpc, want>>
ghosts == <<failed, gaveUp, handed, stopped, first, excused>>
vars   == <<gRecstart, already, flags, feed, noChange, thread, file, ctl, ghosts>>

\* fresh: a key frame within 120 s of the clock when a file is opened for it.
Frame == {f \in [key : BOOLEAN, fresh : BOOLEAN] : f.fresh => f.key}
Age   == 0 .. Long + 1
RecPc == {"top", "stop", "ack", "quiet", "off", "take", "change", "open", "gate",
          "put", "error"}
CtlPc == {"idle", "clear", "cams", "reset", "feed", "wait", "giveup",
          "changed", "set", "poll"}

\* What a process starts with; recTime is whatever the stack held.
Start ==
  /\ gRecstart' = 0 /\ already' = FALSE /\ cam' = TRUE /\ keyed' = FALSE
  /\ preview' = FALSE /\ feed' = FALSE /\ noChange' = FALSE
  /\ rpc' = "top" /\ changing' = FALSE /\ fileOpen' = FALSE /\ age' \in Age
  /\ frame' = [key |-> FALSE, fresh |-> FALSE]
  /\ cpc' = "idle" /\ want' = TRUE /\ openFile' = FALSE /\ full' = FALSE
  /\ gaveUp' = FALSE /\ handed' = FALSE /\ stopped' = FALSE /\ first' = FALSE
  /\ kept' = FALSE /\ excused' = FALSE

Init ==
  /\ gRecstart = 0 /\ already = FALSE /\ cam = TRUE /\ keyed = FALSE
  /\ preview = FALSE /\ feed = FALSE /\ noChange = FALSE
  /\ rpc = "top" /\ changing = FALSE /\ fileOpen = FALSE /\ age \in Age
  /\ frame = [key |-> FALSE, fresh |-> FALSE]
  /\ cpc = "idle" /\ want = TRUE /\ openFile = FALSE /\ full = FALSE
  /\ gaveUp = FALSE /\ handed = FALSE /\ stopped = FALSE /\ first = FALSE
  /\ kept = FALSE /\ excused = FALSE
  /\ entry = FALSE /\ failed = FALSE
-----------------------------------------------------------------------------
(* The record thread.                                                      *)

\* while( gRecstart == 0 ) clears change_file_count; then the stop is looked
\* for, unless a change of file is under way.
Spin ==
  /\ rpc = "top" /\ gRecstart = 0 /\ changing' = FALSE
  /\ UNCHANGED <<gRecstart, already, flags, feed, noChange, rpc, fileOpen, age,
                 frame, file, ctl, ghosts>>

\* Mutant: the stop is acknowledged without closing the file.
TurnMutant ==
  /\ rpc = "top" /\ gRecstart # 0
  /\ rpc' = IF gRecstart = -2 /\ ~changing THEN "ack" ELSE "take"
  /\ UNCHANGED <<gRecstart, already, flags, feed, noChange, changing, fileOpen,
                 age, frame, file, ctl, ghosts>>

Turn ==
  /\ rpc = "top" /\ gRecstart # 0
  /\ rpc' = IF gRecstart = -2 /\ ~changing THEN "stop" ELSE "take"
  /\ UNCHANGED <<gRecstart, already, flags, feed, noChange, changing, fileOpen,
                 age, frame, file, ctl, ghosts>>

\* The end of the entry at g_stLogPos is written, start or no start: the first
\* recording, and the first after a stop, have no start (g_iNoChangeLog is 0).
EndEntry == entry' = FALSE

\* RecWriteOver: done, or an error with the file still open, closed before
\* record.log, or closed after it.  It flushes g_rec_write_buf and does not look
\* at the result.
RecWriteOver(iReason, ok) ==
  /\ UNCHANGED full /\ kept' \in {FALSE, kept \/ ~first}
  /\ \/ /\ ok /\ openFile /\ openFile' = FALSE /\ UNCHANGED failed
        /\ IF iReason = "FILEWRITEOVER" THEN UNCHANGED entry ELSE EndEntry
     \/ /\ ~ok /\ UNCHANGED <<openFile, entry>> /\ failed' = TRUE
     \/ /\ ~ok /\ openFile /\ openFile' = FALSE /\ failed' = TRUE
        /\ \/ UNCHANGED entry
           \/ iReason # "FILEWRITEOVER" /\ EndEntry

\* Mutant: iFileOpenFlag stays.
StopMutant ==
  /\ rpc = "stop" /\ rpc' = "ack"
  /\ \/ /\ fileOpen /\ \E ok \in BOOLEAN : RecWriteOver("STOPRECORD", ok)
        /\ UNCHANGED fileOpen
     \/ ~fileOpen /\ UNCHANGED <<fileOpen, file, failed>>
  /\ UNCHANGED <<gRecstart, already, flags, feed, noChange, changing, age,
                 frame, ctl, gaveUp, handed, stopped, first, excused>>

\* gRecstart = -2: the file is closed, whatever RecWriteOver returns.
Stop ==
  /\ rpc = "stop" /\ rpc' = "ack"
  /\ \/ /\ fileOpen /\ \E ok \in BOOLEAN : RecWriteOver("STOPRECORD", ok)
        /\ fileOpen' = FALSE
     \/ ~fileOpen /\ UNCHANGED <<fileOpen, file, failed>>
  /\ UNCHANGED <<gRecstart, already, flags, feed, noChange, changing, age,
                 frame, ctl, gaveUp, handed, stopped, first, excused>>

\* The stop is acknowledged; only then is the feed turned off.
Acknowledge ==
  /\ rpc = "ack"
  /\ IF gRecstart = -2 THEN gRecstart' = 0 /\ rpc' = "quiet"
                       ELSE rpc' = "take" /\ UNCHANGED gRecstart
  /\ UNCHANGED <<already, flags, feed, noChange, changing, fileOpen, age, frame,
                 file, ctl, ghosts>>

Quiet ==
  /\ rpc = "quiet" /\ rpc' = IF preview THEN "top" ELSE "off"
  /\ UNCHANGED <<gRecstart, already, flags, feed, noChange, changing, fileOpen,
                 age, frame, file, ctl, ghosts>>

FeedOff ==
  /\ rpc = "off" /\ rpc' = "top" /\ feed' = FALSE
  /\ UNCHANGED <<gRecstart, already, flags, noChange, changing, fileOpen, age,
                 frame, file, ctl, ghosts>>

\* GST_CMB_GetSaveFileEncodeData: a video frame, or none (or one of audio,
\* which no camera records: main.c clears g_RecAudioCam).  A full file is
\* noticed with every frame, and changed at a key frame.
Take(f) ==
  /\ rpc = "take" /\ frame' = f
  /\ age' = IF age > Long THEN age ELSE age + 1
  /\ changing' = (changing \/ (fileOpen /\ full))
  /\ rpc' = CASE f.key /\ fileOpen /\ full -> "change"
              [] f.key /\ ~fileOpen        -> "open"
              [] OTHER                     -> "gate"
  /\ UNCHANGED <<gRecstart, already, flags, feed, noChange, fileOpen, file, ctl,
                 ghosts>>

TakeNothing ==
  /\ rpc = "take" /\ rpc' = "top"
  /\ UNCHANGED <<gRecstart, already, flags, feed, noChange, changing, fileOpen,
                 age, frame, file, ctl, ghosts>>

\* A full file at a key frame.  After g_RecDuringTime, or at the last file of
\* a partition (last), it also ends its entry of record.log; a file younger
\* than 5 seconds is kept; the file counts as closed whatever RecWriteOver
\* returns.
ChangeFile(last) ==
  LET over == age > Long \/ last IN
  /\ rpc = "change"
  /\ IF age > Short
     THEN \E ok \in BOOLEAN :
            /\ RecWriteOver(IF over THEN "RECTIMEOVER" ELSE "FILEWRITEOVER", ok)
            /\ noChange' = (noChange \/ over)
            /\ gRecstart' = IF over \/ ok THEN gRecstart ELSE 0
            /\ gaveUp' = (gaveUp \/ (~over /\ ~ok))
            /\ fileOpen' = FALSE /\ rpc' = "open"
     ELSE rpc' = "gate" /\ UNCHANGED <<gRecstart, noChange, fileOpen, file,
                                       failed, gaveUp>>
  /\ UNCHANGED <<already, flags, feed, changing, age, frame, ctl, handed,
                 stopped, first, excused>>

\* No file: none found, or one left open with an error (its entry may have
\* been started).  Outside a change of file the entry is ended.
OpenFails ==
  /\ rpc = "open" /\ frame.fresh /\ preview
  /\ changing' = FALSE /\ gRecstart' = -2 /\ failed' = TRUE /\ rpc' = "gate"
  /\ openFile' \in {openFile, TRUE} /\ fileOpen' = FALSE /\ UNCHANGED <<full, kept>>
  /\ IF noChange THEN entry' \in {entry, entry \/ openFile'}
                 ELSE EndEntry
  /\ UNCHANGED <<already, flags, feed, noChange, age, frame, ctl, gaveUp,
                 handed, stopped, first, excused>>

\* Mutant: change_file_count is not reset.
OpenKeepsChangingMutant ==
  /\ rpc = "open" /\ frame.fresh /\ preview /\ rpc' = "gate"
  /\ openFile' = TRUE /\ fileOpen' = TRUE /\ full' \in BOOLEAN
  /\ entry' = (entry \/ noChange) /\ noChange' = FALSE
  /\ age' = IF noChange THEN 0 ELSE age
  /\ failed' = FALSE /\ first' = TRUE /\ excused' = kept /\ UNCHANGED kept
  /\ UNCHANGED <<gRecstart, already, flags, feed, changing, frame, ctl, gaveUp,
                 handed, stopped>>

\* Mutant: g_iNoChangeLog is not reset.
OpenKeepsNoChangeMutant ==
  /\ rpc = "open" /\ frame.fresh /\ preview /\ rpc' = "gate"
  /\ openFile' = TRUE /\ fileOpen' = TRUE /\ full' \in BOOLEAN
  /\ entry' = (entry \/ noChange) /\ changing' = FALSE
  /\ age' = IF noChange THEN 0 ELSE age
  /\ failed' = FALSE /\ first' = TRUE /\ excused' = kept /\ UNCHANGED kept
  /\ UNCHANGED <<gRecstart, already, flags, feed, noChange, frame, ctl, gaveUp,
                 handed, stopped>>

\* FS_OpenRecFile: a start is written to record.log if g_iNoChangeLog is set,
\* and only then is recTime.  A file stopped earlier may be continued, full
\* or not.
Open ==
  /\ rpc = "open" /\ frame.fresh /\ preview /\ rpc' = "gate"
  /\ openFile' = TRUE /\ fileOpen' = TRUE /\ full' \in BOOLEAN
  /\ entry' = (entry \/ noChange) /\ noChange' = FALSE /\ changing' = FALSE
  /\ age' = IF noChange THEN 0 ELSE age
  /\ failed' = FALSE /\ first' = TRUE /\ excused' = kept /\ UNCHANGED kept
  /\ UNCHANGED <<gRecstart, already, flags, feed, frame, ctl, gaveUp, handed,
                 stopped>>

\* A key frame too far from the clock ("wrong time!"), or no preview.
OpenRefused ==
  /\ rpc = "open" /\ ~(frame.fresh /\ preview) /\ rpc' = "gate"
  /\ UNCHANGED <<gRecstart, already, flags, feed, noChange, changing, fileOpen,
                 age, frame, file, ctl, ghosts>>

\* The frame is written if its camera records, its time is less than 120 s from
\* the clock (near; the clock is read again, after FS_OpenRecFile) and the
\* camera has had a key frame; a key frame that gets so far sets the flag.
Gate ==
  /\ rpc = "gate"
  /\ \E near \in BOOLEAN :
       LET writes == fileOpen /\ cam /\ near /\ (keyed \/ frame.key) IN
       /\ rpc' = IF writes THEN "put" ELSE "top"
       /\ keyed' = (keyed \/ writes)
       /\ excused' = (excused \/ (first /\ fileOpen /\ cam /\ keyed /\ ~near))
  /\ UNCHANGED <<gRecstart, already, cam, preview, feed, noChange, changing,
                 fileOpen, age, frame, file, ctl, failed, gaveUp, handed,
                 stopped, first>>

\* g_iAlreadyWriteDisk = 1, then FS_WriteOneFrame, which fills the file or
\* fails; with frames kept in g_rec_write_buf there may be no room for this one,
\* and it is lost.  A file that is not open can fail later, when the buffer is
\* flushed.
Put ==
  /\ rpc = "put" /\ already' = TRUE
  /\ handed' = (handed \/ openFile \/ failed)
  /\ \/ first' = FALSE /\ excused' = FALSE
     \/ kept /\ UNCHANGED <<first, excused>>
  /\ \/ /\ full' \in {full, TRUE} /\ kept' \in {kept, FALSE}
        /\ rpc' = "top" /\ UNCHANGED failed
     \/ rpc' = "error" /\ failed' = TRUE /\ UNCHANGED <<full, kept>>
  /\ UNCHANGED <<gRecstart, flags, feed, noChange, changing, fileOpen, age,
                 frame, openFile, entry, ctl, gaveUp, stopped>>

\* A write failed: the file becomes a bad file and the recording goes on in
\* another one; if that fails too, the thread gives the recording up, its
\* iFileOpenFlag as it was.
WriteError ==
  /\ rpc = "error" /\ rpc' = "top"
  /\ \E ok \in BOOLEAN :
       /\ RecWriteOver("FILEWRITEERROR", ok)
       /\ noChange' = (noChange \/ ok) /\ fileOpen' = (fileOpen /\ ~ok)
       /\ gRecstart' = IF ok THEN gRecstart ELSE 0
       /\ gaveUp' = (gaveUp \/ ~ok)
  /\ UNCHANGED <<already, flags, feed, changing, age, frame, ctl, handed,
                 stopped, first, excused>>

RecStep == \/ Spin \/ Turn \/ Stop \/ Acknowledge \/ Quiet \/ FeedOff
           \/ \E last \in BOOLEAN : ChangeFile(last)
           \/ OpenFails \/ Open \/ OpenRefused \/ Gate \/ Put \/ WriteError
-----------------------------------------------------------------------------
(* The control thread.                                                     *)

\* FTC_StartRec(0xffff, 1) and, while nothing records, FTC_StartRec(0xf0, 100):
\* the record thread goes from here, before its flags are ready.
StartRec(c) ==
  /\ cpc = "idle" /\ gRecstart = 0
  /\ gRecstart' = 1 /\ want' = c /\ cpc' = "clear"
  /\ gaveUp' = FALSE /\ handed' = FALSE /\ stopped' = FALSE
  /\ UNCHANGED <<already, flags, feed, noChange, thread, file, failed, first,
                 excused>>

\* Mutant: the flags of the last recording are kept.
ClearKeysMutant ==
  /\ cpc = "clear" /\ cpc' = "cams" /\ UNCHANGED keyed
  /\ UNCHANGED <<gRecstart, already, cam, preview, feed, noChange, thread, file,
                 want, ghosts>>

ClearKeys ==
  /\ cpc = "clear" /\ cpc' = "cams" /\ keyed' = FALSE
  /\ UNCHANGED <<gRecstart, already, cam, preview, feed, noChange, thread, file,
                 want, ghosts>>

SetCams ==
  /\ cpc = "cams" /\ cpc' = "reset" /\ cam' = want
  /\ UNCHANGED <<gRecstart, already, keyed, preview, feed, noChange, thread,
                 file, want, ghosts>>

\* Mutant: g_iAlreadyWriteDisk keeps what an earlier recording left.
ResetAlreadyMutant ==
  /\ cpc = "reset" /\ cpc' = "feed"
  /\ UNCHANGED <<gRecstart, already, flags, feed, noChange, thread, file, want,
                 ghosts>>

ResetAlready ==
  /\ cpc = "reset" /\ cpc' = "feed" /\ already' = FALSE
  /\ UNCHANGED <<gRecstart, flags, feed, noChange, thread, file, want, ghosts>>

FeedOn ==
  /\ cpc = "feed" /\ cpc' = "wait" /\ feed' = TRUE
  /\ UNCHANGED <<gRecstart, already, flags, noChange, thread, file, want, ghosts>>

\* g_iAlreadyWriteDisk is polled for 10 seconds.
Started ==
  /\ cpc = "wait" /\ already /\ cpc' = "idle"
  /\ UNCHANGED <<gRecstart, already, flags, feed, noChange, thread, file, want,
                 ghosts>>

TooLate ==
  /\ cpc = "wait" /\ ~already /\ cpc' = "giveup"
  /\ UNCHANGED <<gRecstart, already, flags, feed, noChange, thread, file, want,
                 ghosts>>

\* "Rec start failed": the recording is off, the file perhaps still open.
GiveUp ==
  /\ cpc = "giveup" /\ cpc' = "idle" /\ already' = FALSE /\ gRecstart' = 0
  /\ UNCHANGED <<flags, feed, noChange, thread, file, want, ghosts>>

\* FTC_StartRec(0xf0, 100) while recording: g_RecCam first, then the flag of a
\* camera that changed.
ChangeCams ==
  /\ cpc = "idle" /\ gRecstart = 1
  /\ cam' = FALSE /\ want' = cam /\ cpc' = "changed"
  /\ UNCHANGED <<gRecstart, already, keyed, preview, feed, noChange, thread,
                 file, ghosts>>

ChangeKeys ==
  /\ cpc = "changed" /\ cpc' = "idle" /\ keyed' = (keyed /\ ~want)
  /\ UNCHANGED <<gRecstart, already, cam, preview, feed, noChange, thread, file,
                 want, ghosts>>

\* FTC_StopRec with gRecstart 1 goes to set, with -2 it only waits; with 0 it
\* returns at once ("rec already stop!").
StopRec ==
  /\ cpc = "idle" /\ gRecstart # 0
  /\ cpc' = IF gRecstart = 1 THEN "set" ELSE "poll"
  /\ UNCHANGED <<gRecstart, already, flags, feed, noChange, thread, file, want,
                 ghosts>>

\* Mutant: the thread is told to end, not to stop recording.
SetStopMutant ==
  /\ cpc = "set" /\ cpc' = "poll" /\ gRecstart' = -1
  /\ UNCHANGED <<already, flags, feed, noChange, thread, file, want, ghosts>>

SetStop ==
  /\ cpc = "set" /\ cpc' = "poll" /\ gRecstart' = -2
  /\ UNCHANGED <<already, flags, feed, noChange, thread, file, want, ghosts>>

StopRight ==
  /\ cpc = "poll" /\ gRecstart = 0 /\ cpc' = "idle" /\ stopped' = TRUE
  /\ UNCHANGED <<gRecstart, already, flags, feed, noChange, thread, file, want,
                 failed, gaveUp, handed, first, excused>>

\* After 5 seconds the call returns ERROR, the request still standing.
StopTimeout ==
  /\ cpc = "poll" /\ gRecstart # 0 /\ cpc' = "idle"
  /\ UNCHANGED <<gRecstart, already, flags, feed, noChange, thread, file, want,
                 ghosts>>

\* FTC_PreviewRecordStart and FTC_PreviewRecordStop are refused while
\* ftc_get_rec_cur_status says that a recording is on.
PreviewRecordStart ==
  /\ cpc = "idle" /\ gRecstart # 1 /\ preview' = TRUE /\ feed' = TRUE
  /\ UNCHANGED <<gRecstart, already, cam, keyed, noChange, thread, file, ctl,
                 ghosts>>

PreviewRecordStop ==
  /\ cpc = "idle" /\ gRecstart # 1
  /\ preview' = FALSE /\ feed' = FALSE
  /\ UNCHANGED <<gRecstart, already, cam, keyed, noChange, thread, file, ctl,
                 ghosts>>

Control == \/ \E c \in BOOLEAN : StartRec(c)
           \/ ClearKeys \/ SetCams \/ ResetAlready \/ FeedOn \/ Started
           \/ TooLate \/ GiveUp \/ ChangeCams \/ ChangeKeys \/ StopRec
           \/ SetStop \/ StopRight \/ StopTimeout
           \/ PreviewRecordStart \/ PreviewRecordStop

\* The process ends (power, exit(0) in FS_OpenRecFile, StartRec's read of a
\* frame into NULL when gRecstart is not 0) and starts again.  Boot ends the
\* entry of a file it finds WRITING; inside a RecWriteOver the file may
\* already be closed, and the entry not ended.
Restart ==
  /\ Start
  /\ \/ openFile /\ EndEntry /\ failed' = FALSE
     \/ (~openFile \/ rpc \in {"stop", "change", "error"})
        /\ UNCHANGED entry /\ failed' = (failed \/ openFile)

Next == RecStep \/ (\E f \in Frame : Take(f)) \/ TakeNothing \/ Control \/ Restart

Spec == Init /\ [][Next]_vars
-----------------------------------------------------------------------------

\* The threads are scheduled, calls to the disk return, and while the feed is
\* on the encoder goes on sending key frames with the time of day.
KeyFrame == [key |-> TRUE, fresh |-> TRUE]
Fairness ==
  /\ WF_vars(RecStep \/ TakeNothing \/ \E f \in Frame : Take(f))
  /\ SF_vars(feed /\ Take(KeyFrame))
FairSpec == Spec /\ Fairness
-----------------------------------------------------------------------------
(* Safety.                                                                 *)

\* Every variable has its type.
TypeOK ==
  /\ gRecstart \in {0, 1, -2} /\ rpc \in RecPc /\ cpc \in CtlPc
  /\ age \in Age /\ frame \in Frame
  /\ already \in BOOLEAN /\ cam \in BOOLEAN /\ keyed \in BOOLEAN
  /\ preview \in BOOLEAN /\ feed \in BOOLEAN /\ noChange \in BOOLEAN
  /\ changing \in BOOLEAN /\ fileOpen \in BOOLEAN /\ openFile \in BOOLEAN
  /\ full \in BOOLEAN /\ entry \in BOOLEAN /\ want \in BOOLEAN
  /\ failed \in BOOLEAN /\ gaveUp \in BOOLEAN /\ handed \in BOOLEAN
  /\ stopped \in BOOLEAN /\ first \in BOOLEAN /\ kept \in BOOLEAN
  /\ excused \in BOOLEAN

\* iFileOpenFlag, which the thread carries through every start, stop, time-out
\* and change of file, says whether a file is really open: no file is opened
\* over an open one or closed twice.  An error of the file layer breaks this
\* until the next file is opened.
OneHandle == fileOpen = openFile \/ failed

\* "Record stop right!" means that the file is closed and stays closed until
\* the next start, unless the file layer failed: whoever stopped may now
\* format or unmount the disk.
StopClosesFile == stopped => ~openFile \/ failed \/ gaveUp

\* "Rec start success" means that a frame was handed to an open file since
\* this start (or to one whose failure was reported), whatever an earlier
\* recording left behind.
StartMeansFrame ==
  [][cpc = "wait" /\ cpc' = "idle" /\ already' => handed]_vars

\* The first frame written to a file after it was opened is a key frame, as
\* FTCfilerec.c:340 asks: a change of camera, a start or a stop between the
\* opening and the first frame does not let another one in.  Two things do: a
\* frame skipped for its time after the file was opened for it, its camera's flag
\* still set from the file before (120 s are near enough at line 242, not at 316,
\* and the clock has moved), and frames that a failed flush left in the buffer.
KeyFrameFirst ==
  [][first /\ ~first' /\ already' => frame.key \/ excused]_vars

\* A start is written to record.log only where the entry before it was ended:
\* no recording loses its entry to the next one, unless the file layer failed.
StartKept == [][rpc = "open" /\ noChange /\ ~noChange' => ~entry \/ failed]_vars

\* Liveness.  A stop that was asked for is carried out, even if a change of
\* file is under way or StopRec has timed out, unless the preview is stopped
\* meanwhile (the change of file waits for the preview) or the feed is off (it
\* waits for a key frame): FeedOff, decided while there was no preview, may come
\* after PreviewRecordStart and FeedOn.
StopAnswered == gRecstart = -2 ~> (gRecstart # -2 \/ ~preview \/ ~feed)
=============================================================================
