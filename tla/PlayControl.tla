---------------------------- MODULE PlayControl ----------------------------
(***************************************************************************)
(* Starting and stopping a playback: the control calls of FTCCustomctrl.c  *)
(* and the play thread of FTCfileplay.c, which talk through the globals    *)
(* gPlaystart, g_playFileInfo and g_TimePlayPoint.                         *)
(* The console and the network service call at the same time; only the     *)
(* play by time takes the play mutex.                                      *)
(*                                                                         *)
(* One action is one access to a variable that several threads use.  A     *)
(* file of the disk is a number in the order FTC_ToNextFile goes through   *)
(* them.  Of its FILEINFO the model keeps whether it is marked PLAYING; the *)
(* record thread changes the other marks at any time, so what a test of    *)
(* them finds is left open (RecordFiles has the index itself).             *)
(***************************************************************************)
EXTENDS Integers

CONSTANTS NumFiles,  \* files on the disk
          Callers,   \* threads that make control calls (console, network)
          Listers,   \* those that play from a list too (network)
          Tries,     \* files FTC_SetPlayFileInfo goes on to (5)
          PlayRash   \* bound: whether calls to play begin after a rash one

ASSUME PlayAssumption ==
  NumFiles \in Nat \ {0} /\ Tries \in Nat /\ Listers \subseteq Callers
  /\ PlayRash \in BOOLEAN

File     == 0 .. NumFiles - 1
NoFile   == -1   \* iFilePos of no file

VARIABLES
  gPlaystart,  \* 1: play; -2: stop was plays for, or the player met an end; 0
  target,      \* g_playFileInfo
  point,       \* g_TimePlayPoint # 0: a time in the file to go to
  marks,       \* the files whose FILEINFO says PLAYING
  ppc,         \* where the play thread stands
  must,        \* iMustOpenFileFlag: the thread has its file
  flag,        \* iOpenFileFlag > 0
  held,        \* the file whose play_header_filest and play_data_filest are
               \*   open (g_stPlayFilePos), or NoFile
  cpc,         \* where each caller stands
  plays,       \* the call is one that starts a playback
  playTime,    \* play_time of FTC_SetPlayFileInfo is not 0
  tries,       \* seacher_file_num
  lock,        \* {}, or who holds the play mutex
  served,      \* ghost: since gPlaystart = 1 the thread found the point
  fault        \* ghost: "lost", an error of the index left a file open; or
               \*   "rash", a play call went on without an answer to its stop
               \*   or beside another play call; else "none"

player == <<ppc, must, flag, held>>
shared == <<target, point, marks>>
call   == <<cpc, plays, playTime, tries, lock>>
ghosts == <<served, fault>>
vars   == <<gPlaystart, shared, player, call, ghosts>>

PlayPc == {"top", "end", "zero", "open", "seek", "read", "over", "send"}
CallPc == {"idle", "stop", "halt", "stopping", "search", "info",
           "again", "test", "set", "hold", "resume", "go", "poll", "wait",
           "next"}

\* In FTC_SetPlayFileInfo, or on the way to it from FTC_StopPlay.
Setting == CallPc \ {"idle", "stop", "halt", "stopping"}

Init ==
  /\ gPlaystart = 0 /\ target = 0 /\ point = FALSE /\ marks = {}
  /\ ppc = "top" /\ must = FALSE /\ flag = FALSE /\ held = NoFile
  /\ cpc = [c \in Callers |-> "idle"] /\ plays = [c \in Callers |-> FALSE]
  /\ playTime = [c \in Callers |-> FALSE] /\ tries = [c \in Callers |-> 0]
  /\ lock = {}
  /\ served = FALSE /\ fault = "none"
-----------------------------------------------------------------------------
(* The play thread.                                                        *)

\* The thread turns while gPlaystart is 0, and while there is no room for a
\* frame (GST_DRV_CTRL_EnableInsertPlayBuf).
Turn ==
  /\ ppc = "top" /\ gPlaystart # 0
  /\ ppc' = IF gPlaystart = -2 THEN "end" ELSE IF must THEN "read" ELSE "open"
  /\ UNCHANGED <<gPlaystart, shared, must, flag, held, call, ghosts>>

Lose == fault' = IF fault = "none" THEN "lost" ELSE fault

\* Mutant: the mark is left to be repaired.
CloseMutant(ok) ==
  IF ok THEN held' = NoFile /\ UNCHANGED <<marks, fault>>
        ELSE (IF held # NoFile THEN Lose ELSE UNCHANGED fault)
             /\ UNCHANGED <<marks, held>>

\* ClosePlayFile: the mark of the file is taken back and both files are
\* closed; if the index cannot be read or written, neither is done.
ClosePlayFile(ok) ==
  IF ok THEN marks' = marks \ {held} /\ held' = NoFile /\ UNCHANGED fault
        ELSE (IF held # NoFile THEN Lose ELSE UNCHANGED fault)
             /\ UNCHANGED <<marks, held>>

\* Mutant: a file whose reading came to an end is not closed.
EndMutant ==
  /\ ppc = "end" /\ ppc' = IF gPlaystart = -2 THEN "zero" ELSE "top"
  /\ IF flag /\ must THEN must' = FALSE /\ \E ok \in BOOLEAN : ClosePlayFile(ok)
                     ELSE UNCHANGED <<must, marks, held, fault>>
  /\ UNCHANGED <<gPlaystart, target, point, flag, call, served>>

\* gPlaystart was -2: the file is closed if iOpenFileFlag says there is one.
\* Then gPlaystart is looked at again; 1, written meanwhile, starts a playback.
End ==
  /\ ppc = "end" /\ ppc' = IF gPlaystart = -2 THEN "zero" ELSE "top"
  /\ IF flag THEN must' = FALSE /\ \E ok \in BOOLEAN : ClosePlayFile(ok)
             ELSE UNCHANGED <<must, marks, held, fault>>
  /\ UNCHANGED <<gPlaystart, target, point, flag, call, served>>

\* Mutant: only the stop of an open file is answered.
AnswerMutant ==
  /\ ppc = "zero" /\ ppc' = "top" /\ gPlaystart' = IF flag THEN 0 ELSE gPlaystart
  /\ must' = FALSE /\ flag' = FALSE
  /\ fault' = IF held = NoFile /\ (fault = "rash" =>
                                       \A c \in Callers : cpc[c] \notin Setting)
              THEN "none" ELSE fault
  /\ UNCHANGED <<shared, held, call, served>>

\* The stop is answered, whatever gPlaystart has become.
Answer ==
  /\ ppc = "zero" /\ ppc' = "top" /\ gPlaystart' = 0
  /\ must' = FALSE /\ flag' = FALSE
  /\ fault' = IF held = NoFile /\ (fault = "rash" =>
                                       \A c \in Callers : cpc[c] \notin Setting)
              THEN "none" ELSE fault
  /\ UNCHANGED <<shared, held, call, served>>

\* OpenPlayFile: a finished file is marked PLAYING, one being recorded keeps
\* its mark.
Open ==
  /\ ppc = "open" /\ ppc' = "seek" /\ target \notin marks
  /\ marks' \in {marks, marks \cup {target}} /\ held' = target
  /\ flag' = TRUE /\ must' = TRUE
  /\ UNCHANGED <<gPlaystart, target, point, call, served, fault>>

\* The file is in use or bad, or cannot be opened (which loses one that is
\* open), or its mark cannot be written and it is left open.
OpenFails ==
  /\ ppc = "open" /\ ppc' = "top" /\ flag' = FALSE /\ gPlaystart' = -2
  /\ \/ UNCHANGED <<marks, held, fault>>
     \/ /\ target \notin marks /\ held' = NoFile
        /\ UNCHANGED <<marks, fault>>
     \/ /\ target \notin marks /\ held' = target /\ Lose
        /\ marks' \in {marks, marks \cup {target}}
  /\ UNCHANGED <<target, point, must, call, served>>

\* Nothing is claimed of a rash start.
Find == served' = (fault # "rash" /\ (served \/ point))

\* FS_PlayFileGoToTimePoint, if a point is set, finds it.
Seek ==
  /\ ppc = "seek" /\ ppc' = "read" /\ point' = FALSE
  /\ Find
  /\ UNCHANGED <<gPlaystart, target, marks, must, flag, held, call, fault>>

\* The point is not in the file, or gPlaystart is no longer 1; or the point is
\* found and FS_PlayMoveToEnd fails, which a playback backwards needs.
SeekFails ==
  /\ ppc = "seek" /\ ppc' = "top" /\ gPlaystart' = -2
  /\ \/ UNCHANGED <<point, served>>
     \/ point' = FALSE /\ Find
  /\ UNCHANGED <<target, marks, must, flag, held, call, fault>>

\* ChangePlayStatus and ReadOneFrame: a frame to show, a pause or a frame of
\* another camera, or the end of the file.
Read ==
  /\ ppc = "read" /\ ppc' \in {"send", "top", "over"}
  /\ UNCHANGED <<gPlaystart, shared, must, flag, held, call, ghosts>>

\* A frame that cannot be read, the time to play to is reached, or too many
\* frames were of other cameras: the file stays open until the thread comes
\* round to its own -2.
ReadStops ==
  /\ ppc = "read" /\ ppc' = "top" /\ gPlaystart' = -2 /\ must' = FALSE
  /\ UNCHANGED <<shared, flag, held, call, ghosts>>

\* FTC_ToNextFile and FTC_ToLastFile move g_playFileInfo, whether or not the
\* file there is WRITEOVER.
ToNextFile == target' = (target + 1) % NumFiles
ToLastFile == target' = (target + NumFiles - 1) % NumFiles

\* The end of a file: it is closed without the log mutex, and the next file or
\* the one before it is looked for.  The close may fail, there may be no such
\* file, a frame header may be wrong, or a fast search is past 50 files.
EndOfFile ==
  /\ ppc = "over" /\ ppc' = "top" /\ must' = FALSE
  /\ \/ /\ ClosePlayFile(TRUE) /\ (ToNextFile \/ ToLastFile)
        /\ target' \notin marks' /\ UNCHANGED <<gPlaystart, flag>>
     \/ /\ \E ok \in BOOLEAN : ClosePlayFile(ok)
        /\ UNCHANGED target \/ ToNextFile \/ ToLastFile
        /\ gPlaystart' = -2 /\ flag' = FALSE
  /\ UNCHANGED <<point, call, served>>

\* GST_DRV_CTRL_InsertPlayBuf: while there is no room the thread waits, but
\* only as long as gPlaystart is 1.
Send ==
  /\ ppc = "send" /\ gPlaystart # 1 /\ ppc' = "top"
  /\ UNCHANGED <<gPlaystart, shared, must, flag, held, call, ghosts>>

SendRoom ==
  /\ ppc = "send" /\ gPlaystart = 1 /\ ppc' = "top"
  /\ UNCHANGED <<gPlaystart, shared, must, flag, held, call, ghosts>>

PlayStep == \/ Turn \/ End \/ Answer \/ Open \/ OpenFails
            \/ Seek \/ SeekFails \/ Read \/ ReadStops \/ EndOfFile \/ Send
-----------------------------------------------------------------------------
(* The callers.                                                            *)

Goto(c, pc) == cpc' = [cpc EXCEPT ![c] = pc]

\* The call returns, and lets go of the play mutex if it has it.
Return(c) ==
  /\ Goto(c, "idle")
  /\ plays' = [plays EXCEPT ![c] = FALSE]
  /\ playTime' = [playTime EXCEPT ![c] = FALSE]
  /\ tries' = [tries EXCEPT ![c] = 0]
  /\ lock' = lock \ {c}

\* FTC_SetTimeToPlay_lock (main.c 'd', net_play_file), with the play mutex; a
\* caller that waits for it has not begun.
SetTimeToPlay(c) ==
  /\ cpc[c] = "idle" /\ Goto(c, "stop") /\ plays' = [plays EXCEPT ![c] = TRUE]
  /\ lock = {} /\ lock' = {c}
  /\ UNCHANGED <<gPlaystart, shared, player, playTime, tries, ghosts>>

\* FTC_ReclistPlay (COMMAND_OPEN_NET_PLAY_FILE) does not take the mutex.
ReclistPlay(c) ==
  /\ c \in Listers /\ cpc[c] = "idle" /\ Goto(c, "stop") /\ plays' = [plays EXCEPT ![c] = TRUE]
  /\ UNCHANGED <<gPlaystart, shared, player, playTime, tries, lock, ghosts>>

StopPlay(c) ==
  /\ cpc[c] = "idle" /\ Goto(c, "stop")
  /\ UNCHANGED <<gPlaystart, shared, player, plays, playTime, tries, lock, ghosts>>

\* FTC_StopPlay returns: a play call goes on, whatever it returned.
StopReturns(c) ==
  IF ~plays[c]
  THEN Return(c) /\ UNCHANGED ghosts
  ELSE /\ Goto(c, "search") /\ UNCHANGED <<plays, playTime, tries, lock>>
       /\ IF gPlaystart # 0 \/ \E d \in Callers \ {c} : cpc[d] \in Setting
          THEN fault' = "rash" /\ served' = FALSE
          ELSE UNCHANGED ghosts

\* FTC_StopPlay only acts on gPlaystart 1.
StopTest(c) ==
  /\ cpc[c] = "stop"
  /\ IF gPlaystart = 1
     THEN Goto(c, "halt") /\ UNCHANGED <<plays, playTime, tries, lock, ghosts>>
     ELSE StopReturns(c)
  /\ UNCHANGED <<gPlaystart, shared, player>>

\* Mutant: the thread is told to end, not to stop playing.
HaltMutant(c) ==
  /\ cpc[c] = "halt" /\ Goto(c, "stopping") /\ gPlaystart' = -1
  /\ UNCHANGED <<shared, player, plays, playTime, tries, lock, ghosts>>

Halt(c) ==
  /\ cpc[c] = "halt" /\ Goto(c, "stopping") /\ gPlaystart' = -2
  /\ UNCHANGED <<shared, player, plays, playTime, tries, lock, ghosts>>

\* gPlaystart is polled until it is 0, for 5 seconds.
Stopped(c) ==
  /\ cpc[c] = "stopping" /\ StopReturns(c)
  /\ UNCHANGED <<gPlaystart, shared, player>>

\* No record at that time, no camera to play, or a file that cannot be played.
SearchFails(c) ==
  /\ cpc[c] = "search" /\ Return(c)
  /\ UNCHANGED <<gPlaystart, shared, player, ghosts>>

FileGoToTimePoint(c) ==
  /\ cpc[c] = "search" /\ Goto(c, "info") /\ point' = TRUE
  /\ UNCHANGED <<gPlaystart, target, marks, player, plays, playTime, tries,
                 lock, ghosts>>

\* FTC_SetPlayFileInfo takes the time that is set now.
SetPlayFileInfo(c, f) ==
  /\ cpc[c] = "info" /\ Goto(c, "again") /\ target' = f
  /\ playTime' = [playTime EXCEPT ![c] = point]
  /\ UNCHANGED <<gPlaystart, point, marks, player, plays, tries, lock, ghosts>>

\* Mutant: the time to go to is set for the first file only.
AgainMutant(c) ==
  /\ cpc[c] = "again" /\ Goto(c, "test")
  /\ UNCHANGED <<gPlaystart, shared, player, plays, playTime, tries, lock, ghosts>>

\* The time to go to is set again for each file that is tried.
Again(c) ==
  /\ cpc[c] = "again" /\ Goto(c, "test") /\ point' = playTime[c]
  /\ UNCHANGED <<gPlaystart, target, marks, player, plays, playTime, tries,
                 lock, ghosts>>

\* A playback that runs is stopped first; this wait has no time-out.
Test(c) ==
  /\ cpc[c] = "test" /\ Goto(c, IF gPlaystart = 1 THEN "set" ELSE "go")
  /\ UNCHANGED <<gPlaystart, shared, player, plays, playTime, tries, lock, ghosts>>

SetStop(c) ==
  /\ cpc[c] = "set" /\ Goto(c, "hold") /\ gPlaystart' = -2
  /\ UNCHANGED <<shared, player, plays, playTime, tries, lock, ghosts>>

Hold(c) ==
  /\ cpc[c] = "hold" /\ gPlaystart = 0 /\ Goto(c, "resume")
  /\ UNCHANGED <<gPlaystart, shared, player, plays, playTime, tries, lock, ghosts>>

Resume(c) ==
  /\ cpc[c] = "resume" /\ Return(c) /\ gPlaystart' = 1 /\ served' = FALSE
  /\ UNCHANGED <<shared, player, fault>>

\* The playback starts; the sixth file is started too, with ERROR returned.
Go(c) ==
  /\ cpc[c] = "go" /\ gPlaystart' = 1 /\ served' = FALSE
  /\ IF tries[c] < Tries
     THEN /\ Goto(c, "poll") /\ tries' = [tries EXCEPT ![c] = @ + 1]
          /\ UNCHANGED <<plays, playTime, lock>>
     ELSE Return(c)
  /\ UNCHANGED <<shared, player, fault>>

\* For 5 seconds: gPlaystart no longer 1 means a file without data, a point
\* that was taken that the file plays; then ALLRIGHT is returned all the same.
PollStopped(c) ==
  /\ cpc[c] = "poll" /\ gPlaystart # 1 /\ Goto(c, "wait")
  /\ UNCHANGED <<gPlaystart, shared, player, plays, playTime, tries, lock, ghosts>>

PollOk(c) ==
  /\ cpc[c] = "poll" /\ ~point /\ Return(c)
  /\ UNCHANGED <<gPlaystart, shared, player, ghosts>>

PollTimeout(c) ==
  /\ cpc[c] = "poll" /\ point /\ Return(c)
  /\ UNCHANGED <<gPlaystart, shared, player, ghosts>>

\* "Make sure that the playback has stopped before the next file is taken."
Wait(c) ==
  /\ cpc[c] = "wait" /\ gPlaystart = 0 /\ Goto(c, "next")
  /\ UNCHANGED <<gPlaystart, shared, player, plays, playTime, tries, lock, ghosts>>

\* The next file is tried, unless its FILEINFO says that it is in use.
TryNext(c) ==
  /\ cpc[c] = "next"
  /\ \/ /\ ToNextFile /\ target' \notin marks /\ Goto(c, "again")
        /\ UNCHANGED <<plays, playTime, tries, lock>>
     \/ (ToNextFile \/ UNCHANGED target) /\ Return(c)
  /\ UNCHANGED <<gPlaystart, point, marks, player, ghosts>>

\* Nothing is claimed of what follows a rash call, and PlayRash = FALSE leaves
\* most of it out: then only a stop made alone begins.
Call(c) ==
  \/ /\ fault = "rash" => PlayRash \/ \A d \in Callers : cpc[d] = "idle"
     /\ StopPlay(c)
  \/ /\ fault = "rash" => PlayRash
     /\ SetTimeToPlay(c) \/ ReclistPlay(c)

CallStep(c) == \/ StopTest(c) \/ Halt(c) \/ Stopped(c)
               \/ SearchFails(c) \/ FileGoToTimePoint(c)
               \/ \E f \in File : SetPlayFileInfo(c, f)
               \/ Again(c) \/ Test(c) \/ SetStop(c) \/ Hold(c)
               \/ Resume(c) \/ Go(c) \/ PollStopped(c) \/ PollOk(c)
               \/ PollTimeout(c) \/ Wait(c) \/ TryNext(c)

Next == \/ PlayStep \/ SendRoom
        \/ \E c \in Callers : Call(c) \/ CallStep(c)

Spec == Init /\ [][Next]_vars

\* The threads are scheduled and calls to the disk return.  That there is ever
\* room for a frame, without which the thread turns only to stop, or that the
\* mutex is handed out fairly, is not assumed.
Runs == PlayStep /\ (ppc = "top" => gPlaystart = -2)
Fairness == WF_vars(Runs) /\ \A c \in Callers : WF_vars(CallStep(c))
FairSpec == Spec /\ Fairness
-----------------------------------------------------------------------------
(* Safety.                                                                 *)

\* Every variable has its type; gPlaystart is never -1, at which the thread
\* would end.
TypeOK ==
  /\ gPlaystart \in {0, 1, -2} /\ ppc \in PlayPc
  /\ target \in File /\ held \in File \cup {NoFile} /\ marks \subseteq File
  /\ point \in BOOLEAN /\ must \in BOOLEAN /\ flag \in BOOLEAN
  /\ cpc \in [Callers -> CallPc] /\ plays \in [Callers -> BOOLEAN]
  /\ playTime \in [Callers -> BOOLEAN] /\ tries \in [Callers -> 0 .. Tries]
  /\ lock \subseteq Callers
  /\ served \in BOOLEAN /\ fault \in {"none", "lost", "rash"}

\* The thread answers a stop (gPlaystart 0) with no file open: who stopped the
\* playback may unmount or format the disk.  Wherever the thread met the end
\* of a file, of the time to play or of what can be read, and whichever of its
\* two flags it left set.
StopMeansClosed == gPlaystart = 0 => held = NoFile \/ fault # "none"

\* A file whose handles are let go of, by a close or by the next open, is not
\* left marked PLAYING: it is free for the recorder and for the next playback.
\* What an error of the index or a rash call loses stays marked until the
\* program starts again.
MarkTakenBack ==
  [][held' # held /\ held \in marks => held \notin marks' \/ fault # "none"]_vars

\* A play call that says, before its time is over, that the file plays, says so
\* because the thread has opened a file for this start and found the time in
\* it, not because of what an earlier playback left in g_TimePlayPoint.
OkMeansPlaying ==
  [][\A c \in Callers : cpc[c] = "poll" /\ cpc'[c] = "idle" /\ ~point
                          => served \/ fault = "rash"]_vars

\* Liveness.  A control call returns, although two of its waits have no
\* time-out and one is made with the play mutex held, unless two play calls run
\* at once or one did not wait for its stop.
CallsEnd ==
  \A c \in Callers :
    cpc[c] # "idle" ~> cpc[c] = "idle" \/ fault = "rash"
=============================================================================
