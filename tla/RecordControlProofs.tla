------------------------ MODULE RecordControlProofs ------------------------
(***************************************************************************)
(* The promises of starting and stopping a recording, for every pair of    *)
(* time thresholds and every interleaving of the two threads, errors and   *)
(* restarts included.                                                      *)
(***************************************************************************)
EXTENDS RecordControl, TLAPS

\* StopClosesFile, from the step that acknowledges the stop to the next start:
\* with gRecstart 0 the record thread spins, and nothing else opens a file.
StopInv ==
  /\ stopped \/ (cpc = "poll" /\ gRecstart = 0) =>
       \/ gaveUp
       \/ gRecstart = 0 /\ rpc \in {"top", "quiet", "off"} /\ (~openFile \/ failed)
  /\ cpc = "set" => ~stopped \/ gaveUp
  /\ rpc = "ack" => ~openFile \/ failed

\* StartMeansFrame: from ResetAlready on, g_iAlreadyWriteDisk is new.
StartInv ==
  /\ cpc \in {"feed", "wait"} /\ already => handed
  /\ rpc = "put" => fileOpen

\* KeyFrameFirst: between the opening of a file and its first frame, the flag
\* of a recorded camera is set only while the key frame itself is in hand, unless
\* that was skipped or other frames are there first; a camera comes back only
\* after its flag was cleared.
KeyInv ==
  /\ first /\ ~excused /\ cam /\ keyed => rpc \in {"gate", "put"} /\ frame.key
  /\ first /\ ~excused /\ rpc = "gate" /\ cam /\ keyed => fileOpen
  /\ first /\ ~excused /\ rpc = "put" => frame.key
  /\ first /\ kept => excused
  /\ rpc \in {"open", "change"} => frame.key
  /\ cpc = "cams" /\ ~cam => ~keyed

\* StartKept: g_iNoChangeLog is set only when an entry was ended.
LogInv == noChange /\ entry => failed

\* The inductive invariant.
CInv == TypeOK /\ OneHandle /\ StopInv /\ StartInv /\ KeyInv /\ LogInv

-----------------------------------------------------------------------------
(* Types.                                                                  *)

\* The flags, apart from the rest: a prover of its own takes them.
Flags ==
  /\ already \in BOOLEAN /\ cam \in BOOLEAN /\ keyed \in BOOLEAN
  /\ preview \in BOOLEAN /\ feed \in BOOLEAN /\ noChange \in BOOLEAN
  /\ changing \in BOOLEAN /\ fileOpen \in BOOLEAN /\ openFile \in BOOLEAN
  /\ full \in BOOLEAN /\ entry \in BOOLEAN /\ want \in BOOLEAN
  /\ failed \in BOOLEAN /\ gaveUp \in BOOLEAN /\ handed \in BOOLEAN
  /\ stopped \in BOOLEAN /\ first \in BOOLEAN /\ kept \in BOOLEAN
  /\ excused \in BOOLEAN

\* The rest.
Places ==
  /\ gRecstart \in {0, 1, -2} /\ rpc \in RecPc /\ cpc \in CtlPc
  /\ age \in Age /\ frame \in Frame

\* RecWriteOver leaves Booleans, and no file open unless it failed.
LEMMA WriteOverFlags ==
  ASSUME TypeOK, NEW r, NEW ok \in BOOLEAN, RecWriteOver(r, ok)
  PROVE  /\ openFile' \in BOOLEAN /\ full' \in BOOLEAN /\ entry' \in BOOLEAN
         /\ failed' \in BOOLEAN /\ kept' \in BOOLEAN
<1> USE DEF TypeOK, RecWriteOver, EndEntry
<1>1. openFile' = openFile \/ openFile' = FALSE
  OBVIOUS
<1>2. entry' = entry \/ entry' = FALSE
  OBVIOUS
<1>3. failed' = failed \/ failed' = TRUE
  OBVIOUS
<1>4. openFile' \in BOOLEAN
  BY <1>1, Zenon
<1>5. entry' \in BOOLEAN
  BY <1>2, Zenon
<1>6. failed' \in BOOLEAN
  BY <1>3, Zenon
<1>7. kept' \in BOOLEAN
  BY Zenon
<1> QED
  BY <1>4, <1>5, <1>6, <1>7

\* Every step keeps the flags Boolean.
LEMMA FlagsKept ==
  ASSUME TypeOK, Next \/ UNCHANGED vars
  PROVE  Flags'
<1> USE DEF TypeOK, Flags, flags, thread, file, ctl, ghosts
<1>1. CASE Spin
  <2>1. changing' \in BOOLEAN
    BY <1>1, Zenon DEF Spin
  <2> QED
    BY <1>1, <2>1 DEF Spin
<1>2. CASE Turn
  BY <1>2 DEF Turn
<1>3. CASE Stop
  <2>1. fileOpen' = FALSE \/ fileOpen' = fileOpen
    BY <1>3 DEF Stop
  <2>2. fileOpen' \in BOOLEAN
    BY <2>1, Zenon
  <2>3. CASE ~fileOpen
    <3>1. UNCHANGED <<file, failed>>
      BY <1>3, <2>3 DEF Stop
    <3> QED
      BY <1>3, <2>2, <3>1 DEF Stop
  <2>4. CASE fileOpen
    <3>1. PICK ok \in BOOLEAN : RecWriteOver("STOPRECORD", ok)
      BY <1>3, <2>4 DEF Stop
    <3> QED
      BY <1>3, <2>2, <3>1, WriteOverFlags DEF Stop
  <2> QED
    BY <1>3, <2>1, <2>2, <2>3, <2>4 DEF Stop
<1>4. CASE Acknowledge
  BY <1>4 DEF Acknowledge
<1>5. CASE Quiet
  BY <1>5 DEF Quiet
<1>6. ASSUME NEW last \in BOOLEAN, ChangeFile(last) PROVE Flags'
  <2> DEFINE over == age > Long \/ last
  <2>1. CASE ~(age > Short)
    BY <1>6, <2>1 DEF ChangeFile
  <2>2. CASE age > Short
    <3>1. PICK ok \in BOOLEAN :
            /\ RecWriteOver(IF over THEN "RECTIMEOVER" ELSE "FILEWRITEOVER", ok)
            /\ noChange' = (noChange \/ over)
            /\ gaveUp' = (gaveUp \/ (~over /\ ~ok)) /\ fileOpen' = FALSE
      BY <1>6, <2>2 DEF ChangeFile
    <3>2. noChange' \in BOOLEAN /\ gaveUp' \in BOOLEAN /\ fileOpen' \in BOOLEAN
      BY <3>1, Zenon
    <3> HIDE DEF over
    <3> QED
      BY <1>6, <2>2, <3>1, <3>2, WriteOverFlags DEF ChangeFile
  <2> QED
    BY <2>1, <2>2
<1>7. CASE OpenFails
  <2>1. changing' \in BOOLEAN /\ fileOpen' \in BOOLEAN /\ failed' \in BOOLEAN
    BY <1>7, Zenon DEF OpenFails
  <2>2. openFile' \in BOOLEAN
    BY <1>7, Zenon DEF OpenFails
  <2>3. entry' = FALSE \/ entry' = entry \/ entry' = (entry \/ openFile')
    BY <1>7 DEF OpenFails, EndEntry
  <2>4. entry' \in BOOLEAN
    BY <2>3, Zenon
  <2> QED
    BY <1>7, <2>1, <2>2, <2>3, <2>4 DEF OpenFails
<1>8. CASE Open
  BY <1>8 DEF Open
<1>9. CASE OpenRefused
  BY <1>9 DEF OpenRefused
<1>10. CASE Gate
  <2>1. PICK near \in BOOLEAN :
          /\ keyed' = (keyed \/ (fileOpen /\ cam /\ near /\ (keyed \/ frame.key)))
          /\ excused' = (excused \/ (first /\ fileOpen /\ cam /\ keyed /\ ~near))
    BY <1>10 DEF Gate
  <2>2. keyed' \in BOOLEAN /\ excused' \in BOOLEAN
    BY <2>1, Zenon
  <2> QED
    BY <1>10, <2>2 DEF Gate
<1>11. CASE Put
  <2>0. (first' = FALSE \/ first' = first) /\ (excused' = FALSE \/ excused' = excused)
        /\ (kept' = FALSE \/ kept' = kept)
    BY <1>11 DEF Put
  <2>1. /\ already' \in BOOLEAN /\ first' \in BOOLEAN /\ full' \in BOOLEAN
        /\ excused' \in BOOLEAN /\ kept' \in BOOLEAN
    BY <1>11, <2>0, Zenon DEF Put
  <2>2. failed' = failed \/ failed' = TRUE
    BY <1>11, Zenon DEF Put
  <2>3. failed' \in BOOLEAN
    BY <2>2, Zenon
  <2> QED
    BY <1>11, <2>1, <2>2, <2>3 DEF Put
<1>12. CASE WriteError
  <2>1. PICK ok \in BOOLEAN :
          /\ RecWriteOver("FILEWRITEERROR", ok)
          /\ noChange' = (noChange \/ ok) /\ fileOpen' = (fileOpen /\ ~ok)
          /\ gaveUp' = (gaveUp \/ ~ok)
    BY <1>12 DEF WriteError
  <2>2. noChange' \in BOOLEAN /\ gaveUp' \in BOOLEAN /\ fileOpen' \in BOOLEAN
    BY <2>1, Zenon
  <2> QED
    BY <1>12, <2>1, <2>2, WriteOverFlags DEF WriteError
<1>13. ASSUME NEW f \in Frame, Take(f) PROVE Flags'
  BY <1>13 DEF Take
<1>14. CASE TakeNothing
  BY <1>14 DEF TakeNothing
<1>15. ASSUME NEW c \in BOOLEAN, StartRec(c) PROVE Flags'
  <2>1. gaveUp' \in BOOLEAN /\ handed' \in BOOLEAN /\ stopped' \in BOOLEAN
    BY <1>15, Zenon DEF StartRec
  <2> QED
    BY <1>15, <2>1 DEF StartRec
<1>16. CASE ClearKeys
  <2>1. keyed' \in BOOLEAN
    BY <1>16, Zenon DEF ClearKeys
  <2> QED
    BY <1>16, <2>1 DEF ClearKeys
<1>17. CASE SetCams
  BY <1>17 DEF SetCams
<1>18. CASE ResetAlready
  <2>1. already' \in BOOLEAN
    BY <1>18, Zenon DEF ResetAlready
  <2> QED
    BY <1>18, <2>1 DEF ResetAlready
<1>19. CASE FeedOn
  BY <1>19 DEF FeedOn
<1>20. CASE Started
  BY <1>20 DEF Started
<1>21. CASE TooLate
  BY <1>21 DEF TooLate
<1>22. CASE GiveUp
  <2>1. already' \in BOOLEAN
    BY <1>22, Zenon DEF GiveUp
  <2> QED
    BY <1>22, <2>1 DEF GiveUp
<1>23. CASE ChangeCams
  <2>1. cam' \in BOOLEAN
    BY <1>23, Zenon DEF ChangeCams
  <2> QED
    BY <1>23, <2>1 DEF ChangeCams
<1>24. CASE ChangeKeys
  BY <1>24 DEF ChangeKeys
<1>25. CASE StopRec
  BY <1>25 DEF StopRec
<1>26. CASE SetStop
  BY <1>26 DEF SetStop
<1>27. CASE StopRight
  BY <1>27 DEF StopRight
<1>28. CASE StopTimeout
  BY <1>28 DEF StopTimeout
<1>29. CASE PreviewRecordStart
  BY <1>29 DEF PreviewRecordStart
<1>30. CASE PreviewRecordStop
  <2>1. preview' \in BOOLEAN /\ feed' \in BOOLEAN
    BY <1>30, Zenon DEF PreviewRecordStop
  <2> QED
    BY <1>30, <2>1 DEF PreviewRecordStop
<1>31. CASE Restart
  BY <1>31 DEF Restart, Start, EndEntry
<1>32. CASE UNCHANGED vars
  BY <1>32 DEF vars
<1>33. CASE FeedOff
  <2>1. feed' \in BOOLEAN
    BY <1>33, Zenon DEF FeedOff
  <2> QED
    BY <1>33, <2>1 DEF FeedOff
<1> QED
  BY <1>1, <1>2, <1>3, <1>4, <1>5, <1>6, <1>7, <1>8, <1>9, <1>10, <1>11, <1>12, <1>13, <1>14, <1>15, <1>16, <1>17, <1>18, <1>19, <1>20, <1>21, <1>22, <1>23, <1>24, <1>25, <1>26, <1>27, <1>28, <1>29, <1>30, <1>31, <1>32, <1>33 DEF Next, RecStep, Control

\* Every step keeps the rest in place.
LEMMA PlacesKept ==
  ASSUME TypeOK, Next \/ UNCHANGED vars
  PROVE  Places'
<1> USE ControlAssumption DEF TypeOK, Places, RecPc, CtlPc, Age, Frame, flags, thread, file, ctl, ghosts
<1>1. CASE Spin
  BY <1>1 DEF Spin
<1>2. CASE Turn
  BY <1>2 DEF Turn
<1>3. CASE Stop
  BY <1>3 DEF Stop, RecWriteOver, EndEntry
<1>4. CASE Acknowledge
  BY <1>4 DEF Acknowledge
<1>5. CASE Quiet
  BY <1>5 DEF Quiet
<1>6. ASSUME NEW last \in BOOLEAN, ChangeFile(last) PROVE Places'
  BY <1>6 DEF ChangeFile, RecWriteOver, EndEntry
<1>7. CASE OpenFails
  BY <1>7 DEF OpenFails, EndEntry
<1>8. CASE Open
  BY <1>8 DEF Open
<1>9. CASE OpenRefused
  BY <1>9 DEF OpenRefused
<1>10. CASE Gate
  BY <1>10 DEF Gate
<1>11. CASE Put
  BY <1>11 DEF Put
<1>12. CASE WriteError
  BY <1>12 DEF WriteError, RecWriteOver, EndEntry
<1>13. ASSUME NEW f \in Frame, Take(f) PROVE Places'
  BY <1>13 DEF Take
<1>14. CASE TakeNothing
  BY <1>14 DEF TakeNothing
<1>15. ASSUME NEW c \in BOOLEAN, StartRec(c) PROVE Places'
  BY <1>15 DEF StartRec
<1>16. CASE ClearKeys
  BY <1>16 DEF ClearKeys
<1>17. CASE SetCams
  BY <1>17 DEF SetCams
<1>18. CASE ResetAlready
  BY <1>18 DEF ResetAlready
<1>19. CASE FeedOn
  BY <1>19 DEF FeedOn
<1>20. CASE Started
  BY <1>20 DEF Started
<1>21. CASE TooLate
  BY <1>21 DEF TooLate
<1>22. CASE GiveUp
  BY <1>22 DEF GiveUp
<1>23. CASE ChangeCams
  BY <1>23 DEF ChangeCams
<1>24. CASE ChangeKeys
  BY <1>24 DEF ChangeKeys
<1>25. CASE StopRec
  BY <1>25 DEF StopRec
<1>26. CASE SetStop
  BY <1>26 DEF SetStop
<1>27. CASE StopRight
  BY <1>27 DEF StopRight
<1>28. CASE StopTimeout
  BY <1>28 DEF StopTimeout
<1>29. CASE PreviewRecordStart
  BY <1>29 DEF PreviewRecordStart
<1>30. CASE PreviewRecordStop
  BY <1>30 DEF PreviewRecordStop
<1>31. CASE Restart
  BY <1>31 DEF Restart, Start, EndEntry
<1>32. CASE UNCHANGED vars
  BY <1>32 DEF vars
<1>33. CASE FeedOff
  BY <1>33 DEF FeedOff
<1> QED
  BY <1>1, <1>2, <1>3, <1>4, <1>5, <1>6, <1>7, <1>8, <1>9, <1>10, <1>11, <1>12, <1>13, <1>14, <1>15, <1>16, <1>17, <1>18, <1>19, <1>20, <1>21, <1>22, <1>23, <1>24, <1>25, <1>26, <1>27, <1>28, <1>29, <1>30, <1>31, <1>32, <1>33 DEF Next, RecStep, Control

\* Every step keeps the types.
LEMMA TypesKept ==
  ASSUME TypeOK, Next \/ UNCHANGED vars
  PROVE  TypeOK'
<1>1. Flags'
  BY FlagsKept
<1>2. Places'
  BY PlacesKept
<1> QED
  BY <1>1, <1>2 DEF Flags, Places, TypeOK

-----------------------------------------------------------------------------
(* The files and the log.                                                  *)

\* What RecWriteOver leaves: no error means a closed file; without an error
\* the entry is ended, except at a change of file.
LEMMA WriteOverResult ==
  ASSUME TypeOK, NEW r, NEW ok \in BOOLEAN, RecWriteOver(r, ok)
  PROVE  /\ ok => openFile /\ ~openFile' /\ failed' = failed
         /\ ~ok => failed'
         /\ ok /\ r # "FILEWRITEOVER" => ~entry'
         /\ r = "FILEWRITEOVER" => entry' = entry
<1>1. CASE ok
  BY <1>1 DEF RecWriteOver, EndEntry
<1>2. CASE ~ok
  <2>1. failed' = TRUE
    BY <1>2 DEF RecWriteOver
  <2>2. r = "FILEWRITEOVER" => entry' = entry
    BY <1>2 DEF RecWriteOver
  <2> QED
    BY <1>2, <2>1, <2>2
<1> QED
  BY <1>1, <1>2

\* The steps that neither open nor close a file, nor touch record.log.
LEMMA FileUntouched ==
  ASSUME \/ Spin \/ Turn \/ Acknowledge \/ Quiet \/ FeedOff \/ OpenRefused \/ Gate
         \/ (\E f \in Frame : Take(f)) \/ TakeNothing \/ Control
         \/ UNCHANGED vars
  PROVE  /\ fileOpen' = fileOpen /\ openFile' = openFile /\ failed' = failed
         /\ entry' = entry /\ noChange' = noChange
<1> USE DEF flags, thread, file, ctl, ghosts
<1>1. CASE \/ Spin \/ Turn \/ Acknowledge \/ Quiet \/ FeedOff \/ OpenRefused \/ Gate
           \/ TakeNothing
  BY <1>1 DEF Spin, Turn, Acknowledge, Quiet, FeedOff, OpenRefused, Gate, TakeNothing
<1>2. CASE \E f \in Frame : Take(f)
  BY <1>2 DEF Take
<1>3. CASE Control
  BY <1>3 DEF Control, StartRec, ClearKeys, SetCams, ResetAlready, FeedOn,
     Started, TooLate, GiveUp, ChangeCams, ChangeKeys, StopRec, SetStop,
     StopRight, StopTimeout, PreviewRecordStart, PreviewRecordStop
<1>4. CASE UNCHANGED vars
  BY <1>4 DEF vars
<1> QED
  BY <1>1, <1>2, <1>3, <1>4

\* Every step keeps iFileOpenFlag true to the file, and g_iNoChangeLog to the
\* entry, unless there was an error.
LEMMA FileKept ==
  ASSUME TypeOK, OneHandle, LogInv, Next \/ UNCHANGED vars
  PROVE  OneHandle' /\ LogInv'
<1> USE DEF OneHandle, LogInv, file
<1>t. TypeOK'
  BY TypesKept
<1>f. /\ fileOpen \in BOOLEAN /\ openFile \in BOOLEAN /\ failed \in BOOLEAN
      /\ fileOpen' \in BOOLEAN /\ openFile' \in BOOLEAN /\ failed' \in BOOLEAN
  BY <1>t DEF TypeOK
<1>1. CASE \/ Spin \/ Turn \/ Acknowledge \/ Quiet \/ FeedOff \/ OpenRefused \/ Gate
           \/ (\E f \in Frame : Take(f)) \/ TakeNothing \/ Control
           \/ UNCHANGED vars
  BY <1>1, FileUntouched
<1>2. CASE Stop
  <2>1. CASE ~fileOpen
    BY <1>2, <2>1 DEF Stop
  <2>2. CASE fileOpen
    <3>1. PICK ok \in BOOLEAN : RecWriteOver("STOPRECORD", ok)
      BY <1>2, <2>2 DEF Stop
    <3>2. ~fileOpen' /\ noChange' = noChange
      BY <1>2, <2>2 DEF Stop
    <3> QED
      BY <1>f, <3>1, <3>2, WriteOverResult
  <2> QED
    BY <2>1, <2>2
<1>3. ASSUME NEW last \in BOOLEAN, ChangeFile(last) PROVE OneHandle' /\ LogInv'
  <2> DEFINE over == age > Long \/ last
  <2>1. CASE ~(age > Short)
    BY <1>3, <2>1 DEF ChangeFile
  <2>2. CASE age > Short
    <3>1. PICK ok \in BOOLEAN :
            /\ RecWriteOver(IF over THEN "RECTIMEOVER" ELSE "FILEWRITEOVER", ok)
            /\ noChange' = (noChange \/ over) /\ fileOpen' = FALSE
      BY <1>3, <2>2 DEF ChangeFile
    <3>2. CASE over
      <4>1. RecWriteOver("RECTIMEOVER", ok)
        BY <3>1, <3>2
      <4> QED
        BY <1>f, <3>1, <4>1, WriteOverResult
    <3>3. CASE ~over
      <4>1. RecWriteOver("FILEWRITEOVER", ok)
        BY <3>1, <3>3
      <4>2. noChange' => noChange
        BY <3>1, <3>3
      <4>3. entry' = entry /\ (ok => ~openFile' /\ failed' = failed) /\ (~ok => failed')
        BY <4>1, WriteOverResult
      <4> QED
        BY <1>f, <3>1, <4>2, <4>3
    <3> QED
      BY <3>2, <3>3
  <2> QED
    BY <2>1, <2>2
<1>4. CASE OpenFails
  BY <1>4 DEF OpenFails
<1>5. CASE Open
  BY <1>5 DEF Open
<1>6. CASE Put
  BY <1>6, <1>f DEF Put, thread
<1>7. CASE WriteError
  <2>1. PICK ok \in BOOLEAN :
          /\ RecWriteOver("FILEWRITEERROR", ok)
          /\ noChange' = (noChange \/ ok) /\ fileOpen' = (fileOpen /\ ~ok)
    BY <1>7 DEF WriteError
  <2> QED
    BY <1>f, <2>1, WriteOverResult
<1>8. CASE Restart
  BY <1>8 DEF Restart, Start
<1> QED
  BY <1>1, <1>2, <1>3, <1>4, <1>5, <1>6, <1>7, <1>8 DEF Next, RecStep

-----------------------------------------------------------------------------
(* The stop.                                                               *)

\* Every step keeps StopInv: the record thread closes the file before it says
\* 0, and once it has said so it opens none until StartRec.
LEMMA StopKept ==
  ASSUME TypeOK, OneHandle, StopInv, Next \/ UNCHANGED vars
  PROVE  StopInv'
<1> USE DEF StopInv, flags, thread, file, ctl, ghosts
<1>1. CASE Spin \/ Turn \/ Quiet \/ FeedOff \/ OpenRefused \/ Gate \/ TakeNothing
  BY <1>1 DEF Spin, Turn, Quiet, FeedOff, OpenRefused, Gate, TakeNothing
<1>2. CASE \E f \in Frame : Take(f)
  BY <1>2 DEF Take
<1>3. CASE Acknowledge
  BY <1>3 DEF Acknowledge
<1>4. CASE Stop
  <2>1. /\ rpc = "stop" /\ rpc' = "ack" /\ gRecstart' = gRecstart /\ cpc' = cpc
        /\ (stopped' <=> stopped) /\ (gaveUp' <=> gaveUp)
    BY <1>4 DEF Stop
  <2>2. ~openFile' \/ failed'
    <3>1. CASE ~fileOpen
      <4>1. openFile' = openFile /\ failed' = failed
        BY <1>4, <3>1 DEF Stop
      <4> QED
        BY <3>1, <4>1 DEF OneHandle, TypeOK
    <3>2. CASE fileOpen
      <4>1. PICK ok \in BOOLEAN : RecWriteOver("STOPRECORD", ok)
        BY <1>4, <3>2 DEF Stop
      <4> QED
        BY <4>1, WriteOverResult
    <3> QED
      BY <3>1, <3>2
  <2> QED
    BY <2>1, <2>2
<1>5. ASSUME NEW last \in BOOLEAN, ChangeFile(last) PROVE StopInv'
  <2>1. /\ rpc = "change" /\ rpc' \in {"open", "gate"} /\ cpc' = cpc
        /\ stopped' = stopped
        /\ (gRecstart' = gRecstart \/ gaveUp') /\ (gaveUp => gaveUp')
    BY <1>5 DEF ChangeFile
  <2> QED
    BY <2>1
<1>6. CASE OpenFails
  BY <1>6 DEF OpenFails
<1>7. CASE Open
  BY <1>7 DEF Open
<1>8. CASE Put
  BY <1>8 DEF Put
<1>9. CASE WriteError
  <2>1. /\ rpc = "error" /\ rpc' = "top" /\ cpc' = cpc /\ stopped' = stopped
        /\ (gRecstart' = gRecstart \/ gaveUp') /\ (gaveUp => gaveUp')
    BY <1>9 DEF WriteError
  <2>2. CASE gaveUp'
    BY <2>1, <2>2
  <2>3. CASE ~gaveUp'
    BY <2>1, <2>3
  <2> QED
    BY <2>2, <2>3
<1>10. CASE Control
  <2>1. ASSUME NEW c \in BOOLEAN, StartRec(c) PROVE StopInv'
    BY <2>1 DEF StartRec
  <2>2. CASE \/ ClearKeys \/ SetCams \/ ResetAlready \/ FeedOn \/ Started
             \/ TooLate \/ GiveUp \/ ChangeCams \/ ChangeKeys
    BY <2>2 DEF ClearKeys, SetCams, ResetAlready, FeedOn, Started, TooLate,
       GiveUp, ChangeCams, ChangeKeys
  <2>3. CASE StopRec \/ SetStop \/ StopRight \/ StopTimeout
    BY <2>3 DEF StopRec, SetStop, StopRight, StopTimeout, TypeOK
  <2>4. CASE PreviewRecordStart \/ PreviewRecordStop
    BY <2>4 DEF PreviewRecordStart, PreviewRecordStop
  <2> QED
    BY <1>10, <2>1, <2>2, <2>3, <2>4 DEF Control
<1>11. CASE Restart
  BY <1>11 DEF Restart, Start
<1>12. CASE UNCHANGED vars
  BY <1>12 DEF vars
<1> QED
  BY <1>1, <1>2, <1>3, <1>4, <1>5, <1>6, <1>7, <1>8, <1>9, <1>10, <1>11, <1>12
     DEF Next, RecStep

-----------------------------------------------------------------------------
(* The start and the first frame.                                          *)

\* Every step keeps StartInv: Put alone sets g_iAlreadyWriteDisk, with a file
\* in hand.
LEMMA StartsKept ==
  ASSUME TypeOK, OneHandle, StartInv, Next \/ UNCHANGED vars
  PROVE  StartInv'
<1> USE DEF StartInv, flags, thread, file, ctl, ghosts
<1>1. CASE Spin \/ Turn \/ Quiet \/ FeedOff \/ OpenRefused \/ TakeNothing
  BY <1>1 DEF Spin, Turn, Quiet, FeedOff, OpenRefused, TakeNothing
<1>2. CASE Acknowledge
  BY <1>2 DEF Acknowledge
<1>3. CASE OpenFails
  BY <1>3 DEF OpenFails
<1>4. CASE Open
  BY <1>4 DEF Open
<1>5. CASE Gate
  <2>1. rpc' = "put" => fileOpen
    BY <1>5 DEF Gate
  <2> QED
    BY <1>5, <2>1 DEF Gate
<1>6. CASE \E f \in Frame : Take(f)
  BY <1>6 DEF Take
<1>7. CASE Stop
  BY <1>7 DEF Stop
<1>8. ASSUME NEW last \in BOOLEAN, ChangeFile(last) PROVE StartInv'
  BY <1>8 DEF ChangeFile
<1>9. CASE Put
  <2>1. openFile \/ failed
    <3>1. fileOpen
      BY <1>9 DEF Put
    <3> QED
      BY <3>1 DEF OneHandle, TypeOK
  <2>2. handed'
    BY <1>9, <2>1 DEF Put
  <2>3. rpc' # "put"
    BY <1>9 DEF Put
  <2> QED
    BY <2>2, <2>3
<1>10. CASE WriteError
  BY <1>10 DEF WriteError
<1>11. CASE Control
  <2>1. ASSUME NEW c \in BOOLEAN, StartRec(c) PROVE StartInv'
    BY <2>1 DEF StartRec
  <2>2. CASE \/ ClearKeys \/ SetCams \/ ResetAlready \/ FeedOn \/ Started
             \/ TooLate \/ GiveUp \/ ChangeCams \/ ChangeKeys
    BY <2>2 DEF ClearKeys, SetCams, ResetAlready, FeedOn, Started, TooLate,
       GiveUp, ChangeCams, ChangeKeys
  <2>3. CASE StopRec \/ SetStop \/ StopRight \/ StopTimeout
    BY <2>3 DEF StopRec, SetStop, StopRight, StopTimeout
  <2>4. CASE PreviewRecordStart \/ PreviewRecordStop
    BY <2>4 DEF PreviewRecordStart, PreviewRecordStop
  <2> QED
    BY <1>11, <2>1, <2>2, <2>3, <2>4 DEF Control
<1>12. CASE Restart
  BY <1>12 DEF Restart, Start
<1>13. CASE UNCHANGED vars
  BY <1>13 DEF vars
<1> QED
  BY <1>1, <1>2, <1>3, <1>4, <1>5, <1>6, <1>7, <1>8, <1>9, <1>10,
     <1>11, <1>12, <1>13 DEF Next, RecStep

\* RecWriteOver leaves frames of the file it closes, or none.
LEMMA WriteOverKept ==
  ASSUME TypeOK, NEW r, NEW ok \in BOOLEAN, RecWriteOver(r, ok)
  PROVE  first /\ kept' => kept
<1>1. kept' = FALSE \/ kept' = (kept \/ ~first)
  BY DEF RecWriteOver
<1> QED
  BY <1>1, Zenon

\* Every step keeps KeyInv.
LEMMA KeysKept ==
  ASSUME TypeOK, StartInv, KeyInv, Next \/ UNCHANGED vars
  PROVE  KeyInv'
<1> USE DEF KeyInv, flags, thread, file, ctl, ghosts
<1>1. CASE \/ Spin \/ Turn \/ Quiet \/ FeedOff \/ OpenRefused \/ TakeNothing
           \/ Acknowledge
  BY <1>1 DEF Spin, Turn, Quiet, FeedOff, OpenRefused, TakeNothing, Acknowledge
<1>2. ASSUME NEW f \in Frame, Take(f) PROVE KeyInv'
  BY <1>2 DEF Take
<1>w. ASSUME NEW r, NEW ok \in BOOLEAN, RecWriteOver(r, ok) PROVE first /\ kept' => kept
  BY <1>w, WriteOverKept
<1>3. CASE Stop
  <2>1. /\ rpc = "stop" /\ rpc' = "ack"
        /\ UNCHANGED <<cam, keyed, first, excused, cpc, frame>>
    BY <1>3 DEF Stop
  <2>2. first /\ kept' => kept
    BY <1>3, <1>w DEF Stop
  <2> QED
    BY <2>1, <2>2
<1>4. ASSUME NEW last \in BOOLEAN, ChangeFile(last) PROVE KeyInv'
  <2>1. /\ rpc = "change" /\ rpc' \in {"open", "gate"}
        /\ UNCHANGED <<cam, keyed, first, excused, cpc, frame>>
    BY <1>4 DEF ChangeFile
  <2>2. first /\ kept' => kept
    <3>1. CASE ~(age > Short)
      BY <1>4, <3>1 DEF ChangeFile
    <3>2. CASE age > Short
      <4>1. PICK ok \in BOOLEAN :
              RecWriteOver(IF age > Long \/ last THEN "RECTIMEOVER" ELSE "FILEWRITEOVER", ok)
        BY <1>4, <3>2 DEF ChangeFile
      <4> QED
        BY <1>w, <4>1
    <3> QED
      BY <3>1, <3>2
  <2> QED
    BY <2>1, <2>2
<1>5. CASE OpenFails
  BY <1>5 DEF OpenFails
<1>6. CASE Open
  BY <1>6 DEF Open
<1>7. CASE Gate
  <2>0. PICK near \in BOOLEAN :
          /\ rpc' = IF fileOpen /\ cam /\ near /\ (keyed \/ frame.key) THEN "put" ELSE "top"
          /\ keyed' = (keyed \/ (fileOpen /\ cam /\ near /\ (keyed \/ frame.key)))
          /\ excused' = (excused \/ (first /\ fileOpen /\ cam /\ keyed /\ ~near))
    BY <1>7 DEF Gate
  <2>1. /\ cam' = cam /\ first' = first /\ frame' = frame /\ cpc' = cpc /\ kept' = kept
        /\ rpc = "gate" /\ (excused => excused')
    BY <1>7, <2>0 DEF Gate
  <2> DEFINE writes == fileOpen /\ cam /\ near /\ (keyed \/ frame.key)
  <2>2. CASE writes
    <3>1. rpc' = "put"
      BY <2>0, <2>2
    <3>2. first /\ ~excused => frame.key
      BY <2>1, <2>2
    <3> QED
      BY <2>1, <2>2, <3>1, <3>2
  <2>3. CASE ~writes
    <3>1. rpc' = "top" /\ (keyed' => keyed)
      BY <2>0, <2>3
    <3>2. ~(first /\ ~excused' /\ cam /\ keyed)
      BY <2>0, <2>1, <2>3
    <3> QED
      BY <2>1, <3>1, <3>2
  <2> QED
    BY <2>2, <2>3
<1>8. CASE Put
  <2>1. /\ rpc = "put" /\ rpc' \in {"top", "error"} /\ UNCHANGED <<cam, keyed, cpc, frame>>
        /\ (kept' = kept \/ kept' = FALSE)
    BY <1>8 DEF Put
  <2>2. CASE first' = FALSE
    BY <2>1, <2>2
  <2>3. CASE kept /\ UNCHANGED <<first, excused>>
    BY <2>1, <2>3
  <2> QED
    BY <1>8, <2>2, <2>3 DEF Put
<1>9. CASE WriteError
  <2>1. /\ rpc = "error" /\ rpc' = "top"
        /\ UNCHANGED <<cam, keyed, first, excused, cpc, frame>>
    BY <1>9 DEF WriteError
  <2>2. first /\ kept' => kept
    BY <1>9, <1>w DEF WriteError
  <2> QED
    BY <2>1, <2>2
<1>10. CASE Control
  <2>1. ASSUME NEW c \in BOOLEAN, StartRec(c) PROVE KeyInv'
    BY <2>1 DEF StartRec
  <2>2. CASE ClearKeys
    BY <2>2 DEF ClearKeys
  <2>3. CASE SetCams
    BY <2>3 DEF SetCams
  <2>4. CASE ResetAlready \/ FeedOn \/ Started \/ TooLate \/ GiveUp
    BY <2>4 DEF ResetAlready, FeedOn, Started, TooLate, GiveUp
  <2>5. CASE ChangeCams
    BY <2>5 DEF ChangeCams
  <2>6. CASE ChangeKeys
    BY <2>6 DEF ChangeKeys
  <2>7. CASE StopRec \/ SetStop \/ StopRight \/ StopTimeout
    BY <2>7 DEF StopRec, SetStop, StopRight, StopTimeout
  <2>8. CASE PreviewRecordStart \/ PreviewRecordStop
    BY <2>8 DEF PreviewRecordStart, PreviewRecordStop
  <2> QED
    BY <1>10, <2>1, <2>2, <2>3, <2>4, <2>5, <2>6, <2>7, <2>8 DEF Control
<1>11. CASE Restart
  BY <1>11 DEF Restart, Start
<1>12. CASE UNCHANGED vars
  BY <1>12 DEF vars
<1> QED
  BY <1>1, <1>2, <1>3, <1>4, <1>5, <1>6, <1>7, <1>8, <1>9, <1>10, <1>11, <1>12
     DEF Next, RecStep

-----------------------------------------------------------------------------
(* The theorems.                                                           *)

\* The inductive invariant holds of every behaviour.
THEOREM Inductive == Spec => []CInv
<1>1. Init => CInv
  <2> SUFFICES ASSUME Init PROVE CInv
    OBVIOUS
  <2>1. Places
    BY ControlAssumption DEF Init, Places, RecPc, CtlPc, Age, Frame
  <2>2. Flags
    BY Zenon DEF Init, Flags
  <2>3. OneHandle /\ StopInv /\ StartInv /\ KeyInv /\ LogInv
    BY DEF Init, OneHandle, StopInv, StartInv, KeyInv, LogInv
  <2> QED
    BY <2>1, <2>2, <2>3 DEF CInv, TypeOK, Places, Flags
<1>2. CInv /\ [Next]_vars => CInv'
  BY TypesKept, FileKept, StopKept, StartsKept, KeysKept DEF CInv
<1> QED
  BY <1>1, <1>2, PTL DEF Spec

\* The types.
THEOREM TypeCorrect == Spec => []TypeOK
BY Inductive, PTL DEF CInv

\* iFileOpenFlag says whether a file is open, through every interleaving of
\* starts, stops, time-outs and changes of file.
THEOREM HandleTrue == Spec => []OneHandle
BY Inductive, PTL DEF CInv

\* After "Record stop right!" no file is open until the next start.
THEOREM StopIsClosed == Spec => []StopClosesFile
<1>1. CInv => StopClosesFile
  BY DEF CInv, StopInv, StopClosesFile
<1> QED
  BY <1>1, Inductive, PTL

\* "Rec start success" is never said of an earlier recording's frame.
THEOREM StartIsWriting == Spec => StartMeansFrame
<1>1. CInv /\ [Next]_vars => [cpc = "wait" /\ cpc' = "idle" /\ already' => handed]_vars
  <2> SUFFICES ASSUME CInv, Next, cpc = "wait", cpc' = "idle", already'
               PROVE  handed
    BY DEF vars
  <2> USE DEF flags, thread, file, ctl, ghosts
  <2>1. CASE RecStep \/ (\E f \in Frame : Take(f)) \/ TakeNothing
    <3>1. cpc' = cpc
      BY <2>1 DEF RecStep, Spin, Turn, Stop, Acknowledge, Quiet, FeedOff, ChangeFile,
         OpenFails, Open, OpenRefused, Gate, Put, WriteError, Take, TakeNothing
    <3> QED
      BY <3>1
  <2>2. CASE Control
    <3>1. already' = already
      BY <2>2 DEF Control, StartRec, ClearKeys, SetCams, ResetAlready, FeedOn,
         Started, TooLate, GiveUp, ChangeCams, ChangeKeys, StopRec, SetStop,
         StopRight, StopTimeout, PreviewRecordStart, PreviewRecordStop
    <3> QED
      BY <3>1 DEF CInv, StartInv
  <2>3. CASE Restart
    BY <2>3 DEF Restart, Start
  <2> QED
    BY <2>1, <2>2, <2>3 DEF Next
<1> QED
  BY <1>1, Inductive, PTL DEF Spec, StartMeansFrame

\* The first frame of a file is a key frame, unless one was skipped for its time
\* or a failed flush left frames of the file before.
THEOREM KeyFrameIsFirst == Spec => KeyFrameFirst
<1>1. CInv /\ [Next]_vars => [first /\ ~first' /\ already' => frame.key \/ excused]_vars
  <2> SUFFICES ASSUME CInv, Next, first, ~first', already'
               PROVE  frame.key \/ excused
    BY DEF vars
  <2> USE DEF flags, thread, file, ctl, ghosts
  <2>1. CASE Put
    BY <2>1 DEF Put, CInv, KeyInv
  <2>2. CASE Open
    BY <2>2 DEF Open
  <2>3. CASE \/ Spin \/ Turn \/ Stop \/ Acknowledge \/ Quiet \/ FeedOff
             \/ (\E last \in BOOLEAN : ChangeFile(last)) \/ OpenFails
             \/ OpenRefused \/ Gate \/ WriteError
             \/ (\E f \in Frame : Take(f)) \/ TakeNothing
    <3>1. first' = first
      BY <2>3 DEF Spin, Turn, Stop, Acknowledge, Quiet, FeedOff, ChangeFile, OpenFails,
         OpenRefused, Gate, WriteError, Take, TakeNothing
    <3> QED
      BY <3>1
  <2>4. CASE Control
    <3>1. first' = first
      BY <2>4 DEF Control, StartRec, ClearKeys, SetCams, ResetAlready, FeedOn,
         Started, TooLate, GiveUp, ChangeCams, ChangeKeys, StopRec, SetStop,
         StopRight, StopTimeout, PreviewRecordStart, PreviewRecordStop
    <3> QED
      BY <3>1
  <2>5. CASE Restart
    BY <2>5 DEF Restart, Start
  <2> QED
    BY <2>1, <2>2, <2>3, <2>4, <2>5 DEF Next, RecStep
<1> QED
  BY <1>1, Inductive, PTL DEF Spec, KeyFrameFirst

\* No start overwrites an entry of record.log that was not ended.
THEOREM StartIsKept == Spec => StartKept
<1>1. CInv => (rpc = "open" /\ noChange /\ ~noChange' => ~entry \/ failed)
  BY DEF CInv, LogInv
<1>2. CInv => [rpc = "open" /\ noChange /\ ~noChange' => ~entry \/ failed]_vars
  BY <1>1
<1> QED
  BY <1>2, Inductive, PTL DEF StartKept
=============================================================================
