------------------------- MODULE PlayControlProofs -------------------------
(***************************************************************************)
(* The promises of starting and stopping a playback, for every number of   *)
(* files, callers and tries, whoever plays from a list, and with the calls *)
(* to play that follow a rash one.                                         *)
(***************************************************************************)
EXTENDS PlayControl, TLAPS

\* Only the answer to a stop writes gPlaystart 0, and it leaves no file open.
Answered == gPlaystart = 0 => ppc = "top" /\ (held = NoFile \/ fault # "none")

\* A file that is open is one the thread knows of: it is played, or the thread
\* is on its way to close it.
FileKnown ==
  fault = "none" /\ held # NoFile =>
    /\ flag /\ ppc \notin {"open", "zero"}
    /\ must \/ (gPlaystart = -2 /\ ppc \in {"top", "end"})

\* From the answer to its stop until it starts the playback, or from the stop
\* of a file that is not played to the next one, a caller has the player
\* stopped: the waits without a time-out are not reached.
Before == {"search", "info", "again", "test", "go", "next"}

Quiet(c) ==
  /\ cpc[c] \notin {"set", "hold", "resume"}
  /\ cpc[c] \in Before =>
       /\ gPlaystart \in {0, -2} /\ ppc \in {"top", "end", "zero"}
       /\ held = NoFile \/ fault = "lost"

\* The time to go to is set for each start, and only the player that finds it
\* takes it away.
Pointed(c) ==
  /\ cpc[c] \in {"info", "test", "go"} => point
  /\ cpc[c] \in {"again", "test", "go", "poll", "wait", "next"} => playTime[c]
  /\ cpc[c] = "poll" => point \/ served

\* Without a rash call one caller at a time sets a playback up.
Alone(c) == cpc[c] \in Setting => \A d \in Callers \ {c} : cpc[d] \notin Setting

Careful == fault # "rash" => \A c \in Callers : Quiet(c) /\ Pointed(c) /\ Alone(c)

\* The inductive invariant.
PInv == TypeOK /\ Answered /\ FileKnown /\ Careful

-----------------------------------------------------------------------------
(* Types.                                                                  *)

\* What the thread's part of a step leaves: its variables typed, and the calls
\* as they are.
PlayerTyped ==
  /\ gPlaystart' \in {0, 1, -2} /\ ppc' \in PlayPc
  /\ target' \in File /\ held' \in File \cup {NoFile} /\ marks' \subseteq File
  /\ point' \in BOOLEAN /\ must' \in BOOLEAN /\ flag' \in BOOLEAN
  /\ served' \in BOOLEAN /\ fault' \in {"none", "lost", "rash"}

LEMMA CloseTyped ==
  ASSUME TypeOK, NEW ok \in BOOLEAN, ClosePlayFile(ok)
  PROVE  /\ held' \in File \cup {NoFile} /\ marks' \subseteq File
         /\ fault' \in {"none", "lost", "rash"}
BY DEF TypeOK, ClosePlayFile, Lose

LEMMA NextFileTyped ==
  ASSUME TypeOK, ToNextFile \/ ToLastFile
  PROVE  target' \in File
<1>1. \A n \in Int : n % NumFiles \in 0 .. NumFiles - 1
  BY PlayAssumption
<1> QED
  BY <1>1, PlayAssumption DEF TypeOK, ToNextFile, ToLastFile, File

LEMMA FindTyped ==
  ASSUME TypeOK, Find
  PROVE  served' \in BOOLEAN
BY Zenon DEF Find

LEMMA PlayStepTyped ==
  ASSUME TypeOK, PlayStep \/ SendRoom
  PROVE  PlayerTyped
<1> USE DEF TypeOK, PlayerTyped, shared, player, call, ghosts, PlayPc
<1>1. CASE Turn
  BY <1>1 DEF Turn
<1>2. CASE End
  <2>1. CASE flag
    BY <1>2, <2>1, CloseTyped DEF End
  <2>2. CASE ~flag
    BY <1>2, <2>2 DEF End
  <2> QED
    BY <2>1, <2>2
<1>3. CASE Answer
  BY <1>3 DEF Answer
<1>4. CASE Open
  BY <1>4 DEF Open
<1>5. CASE OpenFails
  BY <1>5 DEF OpenFails, Lose
<1>6. CASE Seek
  BY <1>6, FindTyped DEF Seek
<1>7. CASE SeekFails
  BY <1>7, FindTyped DEF SeekFails
<1>8. CASE Read
  BY <1>8 DEF Read
<1>9. CASE ReadStops
  BY <1>9 DEF ReadStops
<1>10. CASE EndOfFile
  BY <1>10, CloseTyped, NextFileTyped DEF EndOfFile
<1>11. CASE Send \/ SendRoom
  BY <1>11 DEF Send, SendRoom
<1> QED
  BY <1>1, <1>2, <1>3, <1>4, <1>5, <1>6, <1>7, <1>8, <1>9, <1>10, <1>11
  DEF PlayStep

CallsTyped ==
  /\ cpc' \in [Callers -> CallPc] /\ plays' \in [Callers -> BOOLEAN]
  /\ playTime' \in [Callers -> BOOLEAN] /\ tries' \in [Callers -> 0 .. Tries]
  /\ lock' \subseteq Callers

LEMMA ReturnTyped ==
  ASSUME TypeOK, NEW c \in Callers, Return(c)
  PROVE  CallsTyped
BY PlayAssumption DEF TypeOK, CallsTyped, Return, Goto, CallPc

LEMMA StopReturnsTyped ==
  ASSUME TypeOK, NEW c \in Callers, StopReturns(c)
  PROVE  /\ CallsTyped /\ served' \in BOOLEAN
         /\ fault' \in {"none", "lost", "rash"}
<1>1. CASE ~plays[c]
  BY <1>1, ReturnTyped DEF StopReturns, TypeOK, ghosts
<1>2. CASE plays[c]
  BY <1>2 DEF StopReturns, Goto, TypeOK, CallsTyped, ghosts, CallPc
<1> QED
  BY <1>1, <1>2

LEMMA CallTyped ==
  ASSUME TypeOK, NEW c \in Callers, Call(c) \/ CallStep(c)
  PROVE  TypeOK'
<1> USE DEF shared, player, call, ghosts
<1>1. CASE SetTimeToPlay(c) \/ ReclistPlay(c) \/ StopPlay(c)
  <2>1. CASE SetTimeToPlay(c)
    BY <2>1 DEF SetTimeToPlay, Goto, TypeOK, CallPc
  <2>2. CASE ReclistPlay(c)
    BY <2>2 DEF ReclistPlay, Goto, TypeOK, CallPc
  <2>3. CASE StopPlay(c)
    BY <2>3 DEF StopPlay, Goto, TypeOK, CallPc
  <2> QED
    BY <1>1, <2>1, <2>2, <2>3
<1>2. CASE StopTest(c)
  <2>1. CASE gPlaystart = 1
    BY <1>2, <2>1 DEF StopTest, Goto, TypeOK, CallPc
  <2>2. CASE gPlaystart # 1
    BY <1>2, <2>2, StopReturnsTyped DEF StopTest, TypeOK, CallsTyped
  <2> QED
    BY <2>1, <2>2
<1>3. CASE Halt(c)
  BY <1>3 DEF Halt, Goto, TypeOK, CallPc
<1>4. CASE Stopped(c)
  BY <1>4, StopReturnsTyped DEF Stopped, TypeOK, CallsTyped
<1>5. CASE SearchFails(c) \/ PollOk(c) \/ PollTimeout(c)
  BY <1>5, ReturnTyped DEF SearchFails, PollOk, PollTimeout, TypeOK, CallsTyped
<1>6. CASE FileGoToTimePoint(c)
  BY <1>6 DEF FileGoToTimePoint, Goto, TypeOK, CallPc
<1>7. CASE \E f \in File : SetPlayFileInfo(c, f)
  BY <1>7 DEF SetPlayFileInfo, Goto, TypeOK, CallPc
<1>8. CASE Again(c)
  BY <1>8 DEF Again, Goto, TypeOK, CallPc
<1>9. CASE Test(c) \/ SetStop(c) \/ Hold(c) \/ PollStopped(c) \/ Wait(c)
  BY <1>9 DEF Test, SetStop, Hold, PollStopped, Wait, Goto, TypeOK, CallPc
<1>10. CASE Resume(c)
  BY <1>10, ReturnTyped DEF Resume, TypeOK, CallsTyped
<1>11. CASE Go(c)
  <2>1. CASE tries[c] < Tries
    <3>1. tries' \in [Callers -> 0 .. Tries]
      BY <1>11, <2>1, PlayAssumption DEF Go, TypeOK
    <3> QED
      BY <1>11, <2>1, <3>1 DEF Go, Goto, TypeOK, CallPc
  <2>2. CASE ~(tries[c] < Tries)
    BY <1>11, <2>2, ReturnTyped DEF Go, TypeOK, CallsTyped
  <2> QED
    BY <2>1, <2>2
<1>12. CASE TryNext(c)
  <2>1. target' \in File
    BY <1>12, NextFileTyped DEF TryNext, TypeOK
  <2>2. CASE Return(c)
    BY <1>12, <2>1, <2>2, ReturnTyped DEF TryNext, TypeOK, CallsTyped
  <2>3. CASE ~Return(c)
    BY <1>12, <2>1, <2>3 DEF TryNext, Goto, TypeOK, CallPc
  <2> QED
    BY <2>2, <2>3
<1> QED
  BY <1>1, <1>2, <1>3, <1>4, <1>5, <1>6, <1>7, <1>8, <1>9, <1>10, <1>11, <1>12
  DEF Call, CallStep

LEMMA StepTyped ==
  ASSUME TypeOK, Next \/ UNCHANGED vars
  PROVE  TypeOK'
<1>1. CASE PlayStep \/ SendRoom
  <2>1. UNCHANGED call
    BY <1>1 DEF PlayStep, Turn, End, Answer, Open, OpenFails, Seek, SeekFails,
       Read, ReadStops, EndOfFile, Send, SendRoom
  <2> QED
    BY <1>1, <2>1, PlayStepTyped DEF TypeOK, PlayerTyped, call
<1>2. CASE \E c \in Callers : Call(c) \/ CallStep(c)
  BY <1>2, CallTyped
<1>3. CASE UNCHANGED vars
  BY <1>3 DEF TypeOK, vars, shared, player, call, ghosts
<1> QED
  BY <1>1, <1>2, <1>3 DEF Next

LEMMA InitTyped == Init => TypeOK
<1> SUFFICES ASSUME Init PROVE TypeOK
  OBVIOUS
<1>1. /\ plays \in [Callers -> BOOLEAN] /\ playTime \in [Callers -> BOOLEAN]
      /\ point \in BOOLEAN /\ must \in BOOLEAN /\ flag \in BOOLEAN
      /\ served \in BOOLEAN
  BY Zenon DEF Init
<1>2. /\ target \in File /\ tries \in [Callers -> 0 .. Tries]
      /\ cpc \in [Callers -> CallPc]
  BY PlayAssumption DEF Init, File, CallPc
<1> QED
  BY <1>1, <1>2 DEF Init, TypeOK, PlayPc

\* Every variable keeps its type, and gPlaystart is never -1: no call and no
\* step of the thread ends the thread.
THEOREM Types == Spec => []TypeOK
<1>1. Init => TypeOK
  BY InitTyped
<1>2. TypeOK /\ [Next]_vars => TypeOK'
  BY StepTyped
<1> QED
  BY <1>1, <1>2, PTL DEF Spec

-----------------------------------------------------------------------------
(* The thread's steps.                                                     *)

\* A close that does not lose the file leaves none open.
LEMMA Closed ==
  ASSUME TypeOK, NEW ok \in BOOLEAN, ClosePlayFile(ok)
  PROVE  /\ held' = NoFile \/ fault' # "none"
         /\ held' = NoFile \/ held' = held
         /\ fault' = fault \/ (fault = "none" /\ fault' = "lost")
         /\ held' = NoFile /\ held # NoFile => held \notin marks'
BY DEF TypeOK, ClosePlayFile, Lose

LEMMA PlayerAnswers ==
  ASSUME TypeOK, Answered, FileKnown, PlayStep \/ SendRoom
  PROVE  Answered' /\ FileKnown'
<1> USE DEF Answered, FileKnown, TypeOK, shared, player, call, ghosts
<1>1. CASE Turn
  BY <1>1 DEF Turn
<1>2. CASE End
  <2>1. CASE flag
    BY <1>2, <2>1, Closed DEF End
  <2>2. CASE ~flag
    BY <1>2, <2>2 DEF End
  <2> QED
    BY <2>1, <2>2
<1>3. CASE Answer
  BY <1>3 DEF Answer
<1>4. CASE Open
  BY <1>4 DEF Open
<1>5. CASE OpenFails
  BY <1>5 DEF OpenFails, Lose
<1>6. CASE Seek
  BY <1>6 DEF Seek
<1>7. CASE SeekFails
  BY <1>7 DEF SeekFails
<1>8. CASE Read
  BY <1>8 DEF Read
<1>9. CASE ReadStops
  BY <1>9 DEF ReadStops
<1>10. CASE EndOfFile
  BY <1>10, Closed DEF EndOfFile
<1>11. CASE Send \/ SendRoom
  BY <1>11 DEF Send, SendRoom
<1> QED
  BY <1>1, <1>2, <1>3, <1>4, <1>5, <1>6, <1>7, <1>8, <1>9, <1>10, <1>11
  DEF PlayStep

\* A rash call is behind when its stop is answered with no file open and no
\* caller sets a playback up; the player that waits stays stopped.
LEMMA PlayerCareful ==
  ASSUME TypeOK, FileKnown, Careful, PlayStep \/ SendRoom
  PROVE  Careful'
<1>1. cpc' = cpc /\ playTime' = playTime
  BY DEF PlayStep, Turn, End, Answer, Open, OpenFails, Seek, SeekFails, Read,
     ReadStops, EndOfFile, Send, SendRoom, call
<1> SUFFICES ASSUME fault' # "rash", NEW c \in Callers
             PROVE  Quiet(c)' /\ Pointed(c)' /\ Alone(c)'
  BY DEF Careful
<1>2. CASE fault = "rash"
  <2>1. Answer
    BY <1>2, Closed DEF PlayStep, Turn, End, Answer, Open, OpenFails, Seek,
       SeekFails, Read, ReadStops, EndOfFile, Send, SendRoom, ghosts, Lose
  <2>2. \A d \in Callers : cpc[d] \notin Setting
    BY <1>2, <2>1 DEF Answer
  <2> QED
    BY <1>1, <2>2 DEF Quiet, Pointed, Alone, Setting, CallPc, Before, TypeOK
<1>3. CASE fault # "rash"
  <2>1. Quiet(c) /\ Pointed(c) /\ Alone(c)
    BY <1>3 DEF Careful
  <2>2. Alone(c)'
    BY <1>1, <2>1 DEF Alone
  <2>3. Pointed(c)'
    <3>1. CASE Seek \/ SeekFails
      <4>1. cpc[c] \notin Before
        BY <2>1, <3>1 DEF Quiet, Seek, SeekFails
      <4>2. point \/ served => point' \/ served'
        BY <1>3, <3>1 DEF Seek, SeekFails, Find
      <4> QED
        BY <1>1, <2>1, <4>1, <4>2 DEF Pointed, Before
    <3>2. CASE ~(Seek \/ SeekFails)
      <4>1. point' = point /\ served' = served
        BY <3>2 DEF PlayStep, Turn, End, Answer, Open, OpenFails, Read,
           ReadStops, EndOfFile, Send, SendRoom, shared, ghosts
      <4> QED
        BY <1>1, <2>1, <4>1 DEF Pointed
    <3> QED
      BY <3>1, <3>2
  <2>4. Quiet(c)'
    <3> SUFFICES ASSUME cpc[c] \in Before
                 PROVE  /\ gPlaystart' \in {0, -2}
                        /\ ppc' \in {"top", "end", "zero"}
                        /\ held' = NoFile \/ fault' = "lost"
      BY <1>1, <2>1 DEF Quiet
    <3>1. /\ gPlaystart \in {0, -2} /\ ppc \in {"top", "end", "zero"}
          /\ held = NoFile \/ fault = "lost"
      BY <2>1 DEF Quiet
    <3>2. CASE Turn
      BY <3>1, <3>2 DEF Turn, ghosts
    <3>3. CASE End
      <4>1. CASE flag
        BY <3>1, <3>3, <4>1, Closed DEF End
      <4>2. CASE ~flag
        BY <3>1, <3>3, <4>2 DEF End
      <4> QED
        BY <4>1, <4>2
    <3>4. CASE Answer
      BY <3>1, <3>4 DEF Answer
    <3> QED
      BY <3>1, <3>2, <3>3, <3>4 DEF PlayStep, Open, OpenFails, Seek, SeekFails,
         Read, ReadStops, EndOfFile, Send, SendRoom
  <2> QED
    BY <2>2, <2>3, <2>4
<1> QED
  BY <1>2, <1>3

-----------------------------------------------------------------------------
(* The callers' steps.                                                     *)

\* What a call may write: 1 only with no file open, or by a rash call.
LEMMA CallerAnswers ==
  ASSUME TypeOK, Answered, FileKnown, Careful,
         NEW c \in Callers, Call(c) \/ CallStep(c)
  PROVE  Answered' /\ FileKnown'
<1>1. UNCHANGED player
  BY DEF Call, CallStep, SetTimeToPlay, ReclistPlay, StopPlay, StopTest, Halt,
     Stopped, SearchFails, FileGoToTimePoint, SetPlayFileInfo, Again, Test,
     SetStop, Hold, Resume, Go, PollStopped, PollOk, PollTimeout, Wait, TryNext
<1>2. fault' = fault \/ fault' = "rash"
  BY DEF Call, CallStep, SetTimeToPlay, ReclistPlay, StopPlay, StopTest, Halt,
     Stopped, SearchFails, FileGoToTimePoint, SetPlayFileInfo, Again, Test,
     SetStop, Hold, Resume, Go, PollStopped, PollOk, PollTimeout, Wait, TryNext,
     StopReturns, ghosts
<1> USE DEF Answered, FileKnown, player
<1>3. CASE Halt(c) \/ SetStop(c)
  BY <1>1, <1>2, <1>3 DEF Halt, SetStop
<1>4. CASE Resume(c) \/ Go(c)
  BY <1>1, <1>2, <1>4 DEF Resume, Go, Careful, Quiet, Before
<1>5. CASE ~(Halt(c) \/ SetStop(c) \/ Resume(c) \/ Go(c))
  <2>1. gPlaystart' = gPlaystart
    BY <1>5 DEF Call, CallStep, SetTimeToPlay, ReclistPlay, StopPlay, StopTest,
       Stopped, SearchFails, FileGoToTimePoint, SetPlayFileInfo, Again, Test,
       Hold, PollStopped, PollOk, PollTimeout, Wait, TryNext
  <2> QED
    BY <1>1, <1>2, <2>1
<1> QED
  BY <1>3, <1>4, <1>5

LEMMA CallerCareful ==
  ASSUME TypeOK, Answered, Careful, NEW c \in Callers, Call(c) \/ CallStep(c)
  PROVE  Careful'
<1> SUFFICES ASSUME fault' # "rash", NEW e \in Callers
             PROVE  Quiet(e)' /\ Pointed(e)' /\ Alone(e)'
  BY DEF Careful
<1>1. (fault # "rash" /\ UNCHANGED ghosts) \/ Resume(c) \/ Go(c)
  BY DEF Call, CallStep, SetTimeToPlay, ReclistPlay, StopPlay, StopTest, Halt,
     Stopped, SearchFails, FileGoToTimePoint, SetPlayFileInfo, Again, Test,
     SetStop, Hold, PollStopped, PollOk, PollTimeout, Wait, TryNext,
     StopReturns, ghosts
<1>2. fault # "rash" /\ fault' = fault
  BY <1>1 DEF Resume, Go, ghosts
<1>3. \A d \in Callers : Quiet(d) /\ Pointed(d) /\ Alone(d)
  BY <1>2 DEF Careful
<1> USE <1>2, <1>3 DEF Quiet, Pointed, Alone, Goto, Return, Setting, CallPc,
        Before, TypeOK, shared, player, call, ghosts
<1>4. CASE SetTimeToPlay(c) \/ ReclistPlay(c) \/ StopPlay(c) \/ Halt(c)
  BY <1>4 DEF SetTimeToPlay, ReclistPlay, StopPlay, Halt
<1>5. CASE StopTest(c)
  BY <1>5 DEF StopTest, StopReturns, Answered
<1>6. CASE Stopped(c)
  BY <1>6 DEF Stopped, StopReturns, Answered
<1>7. CASE SearchFails(c) \/ PollOk(c) \/ PollTimeout(c)
  BY <1>7 DEF SearchFails, PollOk, PollTimeout
<1>8. CASE FileGoToTimePoint(c)
  BY <1>8 DEF FileGoToTimePoint
<1>9. CASE \E f \in File : SetPlayFileInfo(c, f)
  BY <1>9 DEF SetPlayFileInfo
<1>10. CASE Again(c)
  BY <1>10 DEF Again
<1>11. CASE Test(c)
  BY <1>11 DEF Test
<1>12. CASE SetStop(c) \/ Hold(c) \/ Resume(c)
  BY <1>12 DEF SetStop, Hold, Resume
<1>13. CASE Go(c)
  BY <1>13 DEF Go
<1>14. CASE PollStopped(c)
  BY <1>14 DEF PollStopped
<1>15. CASE Wait(c)
  BY <1>15 DEF Wait, Answered
<1>16. CASE TryNext(c)
  BY <1>16 DEF TryNext
<1> QED
  BY <1>4, <1>5, <1>6, <1>7, <1>8, <1>9, <1>10, <1>11, <1>12, <1>13, <1>14,
     <1>15, <1>16 DEF Call, CallStep

-----------------------------------------------------------------------------
(* The promises.                                                           *)

LEMMA Inductive == Spec => []PInv
<1>1. Init => PInv
  <2> SUFFICES ASSUME Init PROVE PInv
    OBVIOUS
  <2>1. \A c \in Callers : cpc[c] = "idle"
    BY DEF Init
  <2>2. Careful
    BY <2>1 DEF Careful, Quiet, Pointed, Alone, Setting, Before
  <2> QED
    BY <2>2, InitTyped DEF Init, PInv, Answered, FileKnown
<1>2. PInv /\ [Next]_vars => PInv'
  <2> SUFFICES ASSUME PInv, Next \/ UNCHANGED vars
               PROVE  PInv'
    OBVIOUS
  <2>1. TypeOK'
    BY StepTyped DEF PInv
  <2>2. CASE PlayStep \/ SendRoom
    BY <2>1, <2>2, PlayerAnswers, PlayerCareful DEF PInv
  <2>3. CASE \E c \in Callers : Call(c) \/ CallStep(c)
    BY <2>1, <2>3, CallerAnswers, CallerCareful DEF PInv
  <2>4. CASE UNCHANGED vars
    BY <2>1, <2>4 DEF vars, shared, player, call, ghosts, PInv, Answered,
       FileKnown, Careful, Quiet, Pointed, Alone
  <2> QED
    BY <2>2, <2>3, <2>4 DEF Next
<1> QED
  BY <1>1, <1>2, PTL DEF Spec

\* When a stop is answered no file is open, unless an error of the index or a
\* rash call lost one.
THEOREM StopCloses == Spec => []StopMeansClosed
<1>1. PInv => StopMeansClosed
  BY DEF PInv, Answered, StopMeansClosed
<1> QED
  BY <1>1, Inductive, PTL

\* No file that the thread lets go of stays marked PLAYING.
THEOREM MarksTakenBack == Spec => MarkTakenBack
<1>1. PInv /\ [Next]_vars =>
        [held' # held /\ held \in marks => held \notin marks' \/ fault # "none"]_vars
  <2> SUFFICES ASSUME PInv, Next, held' # held, fault = "none", held \in marks
               PROVE  held \notin marks'
    BY DEF vars, player
  <2> USE DEF PInv, TypeOK
  <2>1. held # NoFile
    BY PlayAssumption DEF File, NoFile
  <2>2. ppc \notin {"open", "zero"}
    BY <2>1 DEF FileKnown
  <2>3. CASE End \/ EndOfFile
    <3>1. PICK ok \in BOOLEAN : ClosePlayFile(ok)
      BY <2>3 DEF End, EndOfFile
    <3> QED
      BY <2>1, <3>1, Closed
  <2>4. CASE ~(End \/ EndOfFile)
    BY <2>2, <2>4 DEF Next, PlayStep, Turn, Answer, Open, OpenFails, Seek,
       SeekFails, Read, ReadStops, Send, SendRoom, Call, CallStep, SetTimeToPlay,
       ReclistPlay, StopPlay, StopTest, Halt, Stopped, SearchFails,
       FileGoToTimePoint, SetPlayFileInfo, Again, Test, SetStop, Hold, Resume, Go,
       PollStopped, PollOk, PollTimeout, Wait, TryNext, player
  <2> QED
    BY <2>3, <2>4
<1> QED
  BY <1>1, Inductive, PTL DEF Spec, MarkTakenBack

\* "The file plays" is said of this start.
THEOREM OkIsPlaying == Spec => OkMeansPlaying
<1>1. PInv => \A c \in Callers : cpc[c] = "poll" /\ ~point => served \/ fault = "rash"
  BY DEF PInv, Careful, Pointed
<1>2. PInv => [\A c \in Callers : cpc[c] = "poll" /\ cpc'[c] = "idle" /\ ~point
                                   => served \/ fault = "rash"]_vars
  BY <1>1
<1> QED
  BY <1>2, Inductive, PTL DEF OkMeansPlaying

\* Without a rash call no caller reaches the wait for a player that plays,
\* which has no time-out and is made with the play mutex held.
NoHold == fault # "rash" => \A c \in Callers : cpc[c] \notin {"set", "hold", "resume"}

THEOREM NeverHolds == Spec => []NoHold
<1>1. PInv => NoHold
  BY DEF PInv, Careful, Quiet, NoHold
<1> QED
  BY <1>1, Inductive, PTL
=============================================================================
