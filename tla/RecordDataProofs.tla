-------------------------- MODULE RecordDataProofs --------------------------
(***************************************************************************)
(* What holds of the recording data for every number of frames, every size *)
(* of the files and every order of flushes, failures, crashes and repairs: *)
(* types, headers that describe the data, frames in order, how much boot   *)
(* repair gives up and that a finished file stays readable.  The inductive *)
(* invariants are DInv, OInv and KInv of RecordData, each proved with      *)
(* those before it; one lemma keeps each of their parts.                   *)
(***************************************************************************)
EXTENDS RecordData, FiniteSetTheorems, WellFoundedInduction, TLAPS

-----------------------------------------------------------------------------
(* Types.                                                                  *)

\* What the offsets and counters are, for the arithmetic below.
LEMMA Ranges ==
  ASSUME TypeOK
  PROVE  /\ headOff \in Nat /\ dataOff \in Nat /\ hlive \in Nat
         /\ dlive \in Nat /\ hsize \in Nat /\ dsize \in Nat
         /\ ulOffSet \in Nat /\ headInfo \in Nat
         /\ pending \in Nat /\ next \in Nat /\ Count \in Nat
         /\ FileMax \in Nat /\ MaxFrame \in Nat
BY BoundsAssumption DEF TypeOK, Count

\* The end FS_FixFile finds lies in the headers it read, or after the first.
LEMMA FixedRange ==
  ASSUME NEW start \in Nat, NEW top \in Nat, hsize \in Nat,
         start < hsize, hsize <= top
  PROVE  FixedEnd(start) \in start + 1 .. top
<1> DEFINE ends == FromEnd(start, MaxLost)
<1>1. ends \subseteq start + 1 .. hsize - 1
  BY DEF FromEnd, SameChannel, Scanned
<1>2. CASE ends = {}
  BY <1>2 DEF FixedEnd
<1>3. CASE ends # {}
  <2>1. (CHOOSE i \in ends : TRUE) \in ends
    BY <1>3
  <2>2. FixedEnd(start) = CHOOSE i \in ends : TRUE
    BY <1>3 DEF FixedEnd
  <2>3. \A i \in start + 1 .. hsize - 1 : i \in start + 1 .. top
    OBVIOUS
  <2> QED
    BY <1>1, <2>1, <2>2, <2>3
<1> QED
  BY <1>2, <1>3

\* Opening, closing and repair keep the types; FixHead takes its end from above.
LEMMA TypeRest ==
  ASSUME TypeOK,
         \/ OpenNew \/ TruncateData \/ MarkNew \/ WriteHead \/ MarkAppend
         \/ TooShort \/ OpenFails \/ NextFile
         \/ (\E r \in {"STOPRECORD", "FILEWRITEOVER", "RECTIMEOVER"} :
               StartClose(r))
         \/ CloseInfo \/ CloseHead \/ CloseFails \/ SyncClosedHead
         \/ SyncClosedData \/ Crash
         \/ FixEmpty \/ FixNothing \/ FixHead \/ FixInfo \/ FixFails
         \/ NothingToFix
  PROVE  TypeOK'
<1> USE BoundsAssumption DEF TypeOK, Pc, Opening, Flushing, Closing, FileState,
        Reason, disk, files, buffer, rest, Count
<1>1. CASE OpenNew
  BY <1>1 DEF OpenNew
<1>2. CASE TruncateData
  BY <1>2 DEF TruncateData
<1>3. CASE MarkNew
  <2>1. sinceBoot' \in BOOLEAN /\ torn' \in BOOLEAN
    BY <1>3 DEF MarkNew
  <2>2. /\ UNCHANGED <<hdr, data, hsize, dsize>>
        /\ states' \in FileState /\ ulOffSet' \in 1 .. FileMax + 1
        /\ headInfo' \in 1 .. FileMax + 1
    BY <1>3 DEF MarkNew
  <2>3. /\ hlive' \in 0 .. FileMax + 1 /\ dlive' \in 0 .. FileMax
        /\ headOff' \in 1 .. FileMax + 1 /\ dataOff' \in 0 .. FileMax
    BY <1>3 DEF MarkNew
  <2>4. pending' \in 1 .. next' /\ UNCHANGED <<next, gaps>>
        /\ flushes' \in 0 .. SyncEvery
    BY <1>3 DEF MarkNew
  <2>5. pc' \in Pc /\ reason' \in Reason \cup {"none"}
        /\ ended' \in {"open", "closing", "closed", "fixed"}
    BY <1>3 DEF MarkNew
  <2> QED
    BY <2>1, <2>2, <2>3, <2>4, <2>5
<1>4. CASE WriteHead
  BY <1>4 DEF WriteHead
<1>5. CASE MarkAppend
  BY <1>5 DEF MarkAppend
<1>6. CASE TooShort
  BY <1>6 DEF TooShort
<1>7. CASE OpenFails
  BY <1>7 DEF OpenFails
<1>8. CASE CloseInfo
  BY <1>8 DEF CloseInfo
<1>9. CASE CloseHead
  BY <1>9 DEF CloseHead
<1>10. CASE CloseFails
  BY <1>10 DEF CloseFails
<1>11. CASE SyncClosedHead
  BY <1>11 DEF SyncClosedHead
<1>12. CASE SyncClosedData
  BY <1>12 DEF SyncClosedData
<1>13. CASE Crash
  <2>1. sinceBoot' \in BOOLEAN /\ torn' \in BOOLEAN
    BY <1>13 DEF Crash
  <2>2. /\ UNCHANGED <<hdr, data, hsize, dsize>>
        /\ states' \in FileState /\ ulOffSet' \in 1 .. FileMax + 1
        /\ headInfo' \in 1 .. FileMax + 1
    BY <1>13 DEF Crash
  <2>3. /\ hlive' \in 0 .. FileMax + 1 /\ dlive' \in 0 .. FileMax
        /\ headOff' \in 1 .. FileMax + 1 /\ dataOff' \in 0 .. FileMax
    BY <1>13 DEF Crash
  <2>4. pending' \in 1 .. next' /\ UNCHANGED <<next, gaps>>
        /\ flushes' \in 0 .. SyncEvery
    BY <1>13 DEF Crash
  <2>5. pc' \in Pc /\ reason' \in Reason \cup {"none"}
        /\ ended' \in {"open", "closing", "closed", "fixed"}
    BY <1>13 DEF Crash
  <2> QED
    BY <2>1, <2>2, <2>3, <2>4, <2>5
<1>14. CASE FixEmpty
  BY <1>14 DEF FixEmpty
<1>15. CASE FixNothing
  BY <1>15 DEF FixNothing
<1>16. CASE FixInfo
  <2>1. sinceBoot' \in BOOLEAN /\ torn' \in BOOLEAN
    BY <1>16 DEF FixInfo
  <2>2. /\ UNCHANGED <<hdr, data, hsize, dsize>>
        /\ states' \in FileState /\ ulOffSet' \in 1 .. FileMax + 1
        /\ headInfo' \in 1 .. FileMax + 1
    BY <1>16 DEF FixInfo
  <2>3. /\ hlive' \in 0 .. FileMax + 1 /\ dlive' \in 0 .. FileMax
        /\ headOff' \in 1 .. FileMax + 1 /\ dataOff' \in 0 .. FileMax
    BY <1>16 DEF FixInfo
  <2>4. pending' \in 1 .. next' /\ UNCHANGED <<next, gaps>>
        /\ flushes' \in 0 .. SyncEvery
    BY <1>16 DEF FixInfo
  <2>5. pc' \in Pc /\ reason' \in Reason \cup {"none"}
        /\ ended' \in {"open", "closing", "closed", "fixed"}
    BY <1>16 DEF FixInfo
  <2> QED
    BY <2>1, <2>2, <2>3, <2>4, <2>5
<1>17. CASE FixFails
  BY <1>17 DEF FixFails
<1>18. CASE NothingToFix
  BY <1>18 DEF NothingToFix
<1>19. CASE NextFile
  <2>1. sinceBoot' \in BOOLEAN /\ torn' \in BOOLEAN
    BY <1>19 DEF NextFile
  <2>2. hdr' \in [Slot -> Entry]
    BY <1>19 DEF NextFile, Empty, Entry
  <2>3. data' \in [Place -> 0 .. MaxFrame]
    BY <1>19 DEF NextFile
  <2>4. /\ states' \in FileState /\ ulOffSet' \in 1 .. FileMax + 1
        /\ headInfo' \in 1 .. FileMax + 1
        /\ hsize' \in 0 .. FileMax + 1 /\ dsize' \in 0 .. FileMax
        /\ hlive' \in 0 .. FileMax + 1 /\ dlive' \in 0 .. FileMax
        /\ headOff' \in 1 .. FileMax + 1 /\ dataOff' \in 0 .. FileMax
    BY <1>19 DEF NextFile
  <2>5. /\ UNCHANGED <<pending, next, gaps, flushes, pc, reason>>
        /\ ended' \in {"open", "closing", "closed", "fixed"}
    BY <1>19 DEF NextFile
  <2> QED
    BY <2>1, <2>2, <2>3, <2>4, <2>5
<1>20. CASE \E r \in {"STOPRECORD", "FILEWRITEOVER", "RECTIMEOVER"} :
           StartClose(r)
  BY <1>20 DEF StartClose
<1>21. CASE FixHead
  <2>1. headInfo \in Nat /\ hsize \in Nat /\ FileMax + 1 \in Nat
        /\ headInfo < hsize /\ hsize <= FileMax + 1
    BY <1>21 DEF FixHead
  <2>2. FixedEnd(headInfo) \in headInfo + 1 .. FileMax + 1
    BY <2>1, FixedRange
  <2>3. headInfo' \in 1 .. FileMax + 1
    BY <1>21, <2>1, <2>2 DEF FixHead
  <2> QED
    BY <1>21, <2>3 DEF FixHead
<1> QED
  BY <1>1, <1>2, <1>3, <1>4, <1>5, <1>6, <1>7, <1>8, <1>9, <1>10, <1>11, <1>12, <1>13, <1>14, <1>15, <1>16, <1>17, <1>18, <1>19, <1>20, <1>21

\* So do the buffer and the flush.
LEMMA TypeFlush ==
  ASSUME TypeOK, PlacesFit,
         \/ AppendOpened
         \/ (\E jump, large \in BOOLEAN : Accept(jump, large))
         \/ LoseFrame \/ FlushHeaders \/ FlushHeadersFail \/ FlushSeekFails
         \/ FlushData \/ FlushDataFails \/ SyncData \/ SyncHead
  PROVE  TypeOK'
<1> USE BoundsAssumption DEF TypeOK, Pc, Opening, Flushing, Closing, FileState,
        Reason, disk, files, buffer, rest, Count
<1>1. CASE AppendOpened
  <2>1. ulOffSet - 1 \in Slot /\ hdr[ulOffSet - 1].off \in 0 .. FileMax
        /\ hdr[ulOffSet - 1].off < ulOffSet - 1
    BY <1>1 DEF AppendOpened, Slot, Entry, PlacesFit
  <2> QED
    BY <1>1, <2>1 DEF AppendOpened
<1>2. CASE \E jump, large \in BOOLEAN : Accept(jump, large)
  BY <1>2 DEF Accept, Frame
<1>3. CASE LoseFrame
  BY <1>3 DEF LoseFrame
<1>4. CASE FlushHeaders
  <2>1. dataOff < headOff
    BY <1>4 DEF FlushHeaders, PlacesFit, Open, HeadEnd
  <2>2. ASSUME NEW i \in Slot, i \in headOff .. headOff + Count - 1
        PROVE  [n   |-> pending + (i - headOff),
                off |-> dataOff + (i - headOff)] \in Entry
    <3>1. i \in Nat /\ headOff <= i /\ i < headOff + (next - pending)
          /\ i <= FileMax
      BY <2>2 DEF Slot
    <3>2. pending + (i - headOff) \in 0 .. MaxFrame
      BY <3>1
    <3>3. dataOff + (i - headOff) \in 0 .. FileMax
      BY <2>1, <3>1
    <3> QED
      BY <3>2, <3>3 DEF Entry
  <2>3. hdr' \in [Slot -> Entry]
    BY <1>4, <2>2 DEF FlushHeaders
  <2>4. headOff' \in 1 .. FileMax + 1 /\ hlive' \in 0 .. FileMax + 1
    BY <1>4 DEF FlushHeaders
  <2> QED
    BY <1>4, <2>3, <2>4 DEF FlushHeaders
<1>5. CASE FlushHeadersFail
  BY <1>5 DEF FlushHeadersFail, FlushFails
<1>6. CASE FlushSeekFails
  BY <1>6 DEF FlushSeekFails, FlushFails
<1>7. CASE FlushData
  <2>1. dataOff + Count <= FileMax
    BY <1>7 DEF FlushData, PlacesFit, Open, HeadEnd
  <2>2. ASSUME NEW o \in Place, o \in dataOff .. dataOff + Count - 1
        PROVE  pending + (o - dataOff) \in 0 .. MaxFrame
    BY <2>2 DEF Place
  <2>3. data' \in [Place -> 0 .. MaxFrame]
    BY <1>7, <2>2 DEF FlushData
  <2>4. dataOff' \in 0 .. FileMax /\ dlive' \in 0 .. FileMax
    BY <1>7, <2>1 DEF FlushData
  <2>5. pending' \in 1 .. next' /\ flushes' \in 0 .. SyncEvery
        /\ pc' \in Pc /\ reason' = reason
    BY <1>7 DEF FlushData, FlushDone
  <2> QED
    BY <1>7, <2>3, <2>4, <2>5 DEF FlushData
<1>8. CASE FlushDataFails
  <2>1. headOff - Count \in 1 .. FileMax + 1
    BY <1>8 DEF FlushDataFails, PlacesFit, Open, HeadEnd
  <2> QED
    BY <1>8, <2>1 DEF FlushDataFails, FlushFails
<1>9. CASE SyncData
  BY <1>9 DEF SyncData
<1>10. CASE SyncHead
  BY <1>10 DEF SyncHead, FlushDone, FlushFails
<1> QED
  BY <1>1, <1>2, <1>3, <1>4, <1>5, <1>6, <1>7, <1>8, <1>9, <1>10

\* Each step keeps the types.
LEMMA TypeStep ==
  ASSUME TypeOK, PlacesFit, [Next]_vars
  PROVE  TypeOK'
<1>1. CASE UNCHANGED vars
  BY <1>1 DEF vars, disk, files, buffer, rest, TypeOK
<1>2. CASE Next
  BY <1>2, TypeRest, TypeFlush DEF Next
<1> QED
  BY <1>1, <1>2
-----------------------------------------------------------------------------
(* The steps that leave a file open.                                       *)

\* Nothing of what is behind the open file changes, and it was open before.
StillOpen == /\ Open /\ HeadEnd' = HeadEnd
             /\ UNCHANGED <<hdr, data, headOff, dataOff, dlive, pending>>

\* Only the flush and the two ends of an open change what is behind it.
LEMMA OpenSteps ==
  ASSUME TypeOK, [Next]_vars, Open'
  PROVE  \/ StillOpen \/ FlushHeaders \/ FlushData \/ FlushDataFails
         \/ FlushSeekFails \/ AppendOpened \/ WriteHead
<1> USE DEF StillOpen, Open, HeadEnd, Flushing, Closing, disk, files, buffer,
            rest, Count
<1>1. CASE UNCHANGED vars
  BY <1>1 DEF vars
<1>2. CASE LoseFrame \/ FlushHeadersFail \/ SyncData \/ SyncHead
  BY <1>2 DEF LoseFrame, FlushHeadersFail, SyncData, SyncHead, FlushDone,
              FlushFails
<1>3. CASE \E jump, large \in BOOLEAN : Accept(jump, large)
  BY <1>3 DEF Accept
<1>4. CASE \E r \in {"STOPRECORD", "FILEWRITEOVER", "RECTIMEOVER"} :
             StartClose(r)
  BY <1>4 DEF StartClose
<1>5. CASE CloseInfo \/ CloseHead \/ CloseFails \/ SyncClosedHead
           \/ SyncClosedData
  BY <1>5 DEF CloseInfo, CloseHead, CloseFails, SyncClosedHead, SyncClosedData
<1>6. CASE OpenNew \/ TruncateData \/ MarkNew \/ MarkAppend \/ TooShort
           \/ OpenFails \/ NextFile \/ Crash
  BY <1>6 DEF OpenNew, TruncateData, MarkNew, MarkAppend, TooShort, OpenFails,
              NextFile, Crash
<1>7. CASE FixEmpty \/ FixNothing \/ FixHead \/ FixInfo \/ FixFails
           \/ NothingToFix
  BY <1>7 DEF FixEmpty, FixNothing, FixHead, FixInfo, FixFails, NothingToFix
<1> QED
  BY <1>1, <1>2, <1>3, <1>4, <1>5, <1>6, <1>7 DEF Next

\* Headers are only written by a flush; another file has none.
LEMMA HeaderSteps ==
  ASSUME [Next]_vars
  PROVE  hdr' = hdr \/ FlushHeaders \/ NextFile
<1>1. CASE UNCHANGED vars
  BY <1>1 DEF vars, disk
<1>2. CASE Next
  BY <1>2 DEF Next, disk, OpenNew, TruncateData, MarkNew, WriteHead,
       MarkAppend, AppendOpened, TooShort, OpenFails, Accept, LoseFrame,
       FlushHeadersFail, FlushSeekFails, FlushData, FlushDataFails, SyncData,
       SyncHead, StartClose, CloseInfo, CloseHead, CloseFails,
       SyncClosedHead, SyncClosedData, Crash, FixEmpty, FixNothing, FixHead,
       FixInfo, FixFails, NothingToFix
<1> QED
  BY <1>1, <1>2

\* What a flush of headers leaves, in the terms of the step after it.
LEMMA HeadersWritten ==
  ASSUME TypeOK, PlacesFit, FlushHeaders
  PROVE  /\ HeadEnd' = headOff /\ HeadEnd = headOff /\ pc' = "data"
         /\ headOff' = headOff + Count /\ headOff' <= FileMax + 1
         /\ UNCHANGED <<data, dataOff, dlive, pending, next>>
         /\ \A i \in 1 .. headOff - 1 : hdr'[i] = hdr[i]
         /\ \A i \in headOff .. headOff' - 1 :
              /\ hdr'[i].n = pending + (i - headOff)
              /\ hdr'[i].off = dataOff + (i - headOff)
         /\ \A i \in Slot : hdr'[i] = hdr[i] \/ i \in headOff .. headOff' - 1
         /\ dataOff < headOff
<1>1. pc = "hdr" /\ pc' = "data" /\ headOff' = headOff + Count
      /\ UNCHANGED <<data, dataOff, dlive, pending, next>>
  BY DEF FlushHeaders, buffer
<1>2. Count' = Count
  BY <1>1 DEF Count
<1>3. HeadEnd = headOff /\ HeadEnd' = headOff /\ headOff' <= FileMax + 1
  BY <1>1, <1>2, Ranges, BoundsAssumption DEF HeadEnd, FlushHeaders
<1>4. hdr' = [i \in Slot |-> IF i \in headOff .. headOff + Count - 1
                            THEN [n   |-> pending + (i - headOff),
                                  off |-> dataOff + (i - headOff)]
                            ELSE hdr[i]]
  BY DEF FlushHeaders
<1>5. headOff \in 1 .. FileMax + 1 /\ Count \in Nat /\ FileMax \in Nat
  BY Ranges DEF TypeOK
<1>6. \A i \in 1 .. headOff - 1 : hdr'[i] = hdr[i]
  BY <1>4, <1>5 DEF Slot
<1>7. \A i \in headOff .. headOff' - 1 :
        /\ hdr'[i].n = pending + (i - headOff)
        /\ hdr'[i].off = dataOff + (i - headOff)
  BY <1>1, <1>3, <1>4, <1>5 DEF Slot
<1>8. \A i \in Slot : hdr'[i] = hdr[i] \/ i \in headOff .. headOff' - 1
  BY <1>1, <1>4, <1>5
<1>9. dataOff < headOff
  BY <1>1, <1>3 DEF PlacesFit, Open, Flushing
<1> QED
  BY <1>1, <1>3, <1>6, <1>7, <1>8, <1>9

\* What a flush of data leaves: the headers written before it now count.
LEMMA DataWritten ==
  ASSUME TypeOK, PlacesFit, FlushState, FlushData
  PROVE  /\ Open /\ HeadEnd = headOff - Count /\ HeadEnd' = headOff
         /\ HeadEnd \in Nat /\ HeadEnd >= 1 /\ Count \in Nat \ {0}
         /\ headOff' = headOff /\ hdr' = hdr /\ pending' = next
         /\ dataOff <= dlive /\ dataOff' = dataOff + Count
         /\ dataOff < HeadEnd /\ pc' # "data"
         /\ \A o \in Place : data'[o] =
              IF o \in dataOff .. dataOff + Count - 1
              THEN pending + (o - dataOff) ELSE data[o]
         /\ \A i \in HeadEnd .. headOff - 1 :
              /\ hdr[i].n = pending + (i - HeadEnd)
              /\ hdr[i].off = dataOff + (i - HeadEnd)
<1>1. pc = "data" /\ headOff' = headOff /\ hdr' = hdr /\ pending' = next
      /\ dataOff <= dlive /\ dataOff' = dataOff + Count
  BY DEF FlushData
<1>2. pc' # "data"
  BY DEF FlushData, FlushDone
<1>3. Open /\ HeadEnd = headOff - Count /\ HeadEnd' = headOff
  BY <1>1, <1>2 DEF Open, HeadEnd, Flushing
<1>4. Count \in Nat \ {0} /\ headOff \in Nat /\ dataOff \in Nat
  BY <1>1, Ranges DEF FlushState
<1>5. dataOff < HeadEnd
  BY <1>3 DEF PlacesFit
<1>6. HeadEnd \in Nat /\ HeadEnd >= 1
  BY <1>3, <1>4, <1>5
<1>7. \A o \in Place : data'[o] = IF o \in dataOff .. dataOff + Count - 1
                                  THEN pending + (o - dataOff) ELSE data[o]
  BY DEF FlushData
<1>8. \A i \in HeadEnd .. headOff - 1 :
        /\ hdr[i].n = pending + (i - HeadEnd)
        /\ hdr[i].off = dataOff + (i - HeadEnd)
  BY <1>1 DEF FlushState
<1> QED
  BY <1>1, <1>2, <1>3, <1>4, <1>5, <1>6, <1>7, <1>8

\* The file stays open with the same headers, frames and place for the next.
Kept == Open /\ HeadEnd' = HeadEnd /\ UNCHANGED <<hdr, data, dataOff, dlive, pending>>

\* A failed seek: the headers of the flush count, and the data goes on past the
\* size of its file.
SeekFailed == /\ pc = "data" /\ HeadEnd' = headOff /\ dataOff > dlive
              /\ UNCHANGED <<hdr, data, dataOff, dlive, pending>>

\* The file is opened again at the end recorded for it.
Appended == /\ pc = "append" /\ HeadEnd' = ulOffSet /\ ulOffSet >= 3
            /\ dataOff' = hdr[ulOffSet - 1].off + 1
            /\ UNCHANGED <<hdr, data, dlive, pending>>

\* The file is opened new.
Emptied == HeadEnd' = 1 /\ dataOff' = 0 /\ dlive' = 0 /\ hdr' = hdr

\* The step that leaves a file open is one of six.
LEMMA OpenEffects ==
  ASSUME TypeOK, OpeningStates, [Next]_vars, Open'
  PROVE  Kept \/ FlushHeaders \/ FlushData \/ SeekFailed \/ Appended \/ Emptied
<1>1. CASE StillOpen
  BY <1>1 DEF StillOpen, Kept
<1>2. CASE FlushDataFails
  <2>1. pc = "data" /\ pc' # "data" /\ headOff' = headOff - Count
        /\ UNCHANGED <<hdr, data, dataOff, dlive, pending>>
    BY <1>2 DEF FlushDataFails, FlushFails, disk, buffer
  <2> QED
    BY <2>1 DEF Kept, Open, HeadEnd, Flushing
<1>3. CASE FlushSeekFails
  <2>1. pc = "data" /\ pc' # "data" /\ headOff' = headOff /\ dataOff > dlive
        /\ UNCHANGED <<hdr, data, dataOff, dlive, pending>>
    BY <1>3 DEF FlushSeekFails, FlushFails, disk, files, buffer
  <2> QED
    BY <2>1 DEF SeekFailed, HeadEnd
<1>4. CASE AppendOpened
  BY <1>4 DEF AppendOpened, Appended, HeadEnd, disk, buffer
<1>5. CASE WriteHead
  BY <1>5 DEF WriteHead, Emptied, HeadEnd, OpeningStates
<1> QED
  BY <1>1, <1>2, <1>3, <1>4, <1>5, OpenSteps
-----------------------------------------------------------------------------
(* One part of the invariant after the other.                              *)

\* The frame of a header lies below the header's number.
LEMMA PlacesFitStep ==
  ASSUME TypeOK, PlacesFit, FlushState, OpeningStates, [Next]_vars
  PROVE  PlacesFit'
<1>1. ASSUME NEW i \in Slot
      PROVE  hdr'[i].off < i
  <2>1. hdr[i].off < i /\ i \in Nat /\ i >= 1
    BY BoundsAssumption DEF PlacesFit, Slot
  <2>2. CASE hdr' = hdr
    BY <2>1, <2>2
  <2>3. CASE FlushHeaders
    <3>1. CASE hdr'[i] = hdr[i]
      BY <3>1, <2>1
    <3>2. CASE i \in headOff .. headOff' - 1
      <4>1. hdr'[i].off = dataOff + (i - headOff) /\ dataOff < headOff
        BY <2>3, <3>2, HeadersWritten
      <4> QED
        BY <2>1, <4>1, Ranges
    <3> QED
      BY <2>3, <3>1, <3>2, HeadersWritten
  <2>4. CASE NextFile
    BY <2>4, <2>1 DEF NextFile, Empty
  <2> QED
    BY <2>2, <2>3, <2>4, HeaderSteps
<1>2. ASSUME Open'
      PROVE  dataOff' < HeadEnd'
  <2>1. CASE Kept
    BY <2>1 DEF Kept, PlacesFit
  <2>2. CASE FlushHeaders
    BY <2>2, HeadersWritten
  <2>3. CASE FlushData
    BY <2>3, DataWritten, Ranges
  <2>4. CASE SeekFailed
    <3>1. dataOff < headOff - Count
      BY <2>4 DEF PlacesFit, SeekFailed, Open, HeadEnd, Flushing
    <3> QED
      BY <2>4, <3>1, Ranges DEF SeekFailed
  <2>5. CASE Appended
    <3>1. ulOffSet - 1 \in Slot /\ ulOffSet \in Nat
      BY <2>5, BoundsAssumption DEF Appended, Slot, TypeOK
    <3>2. hdr[ulOffSet - 1].off \in Nat /\ hdr[ulOffSet - 1].off < ulOffSet - 1
      BY <3>1, BoundsAssumption DEF PlacesFit, TypeOK, Entry
    <3> QED
      BY <2>5, <3>1, <3>2 DEF Appended
  <2>6. CASE Emptied
    BY <2>6 DEF Emptied
  <2> QED
    BY <1>2, <2>1, <2>2, <2>3, <2>4, <2>5, <2>6, OpenEffects
<1> QED
  BY <1>1, <1>2 DEF PlacesFit

\* A flush under way has frames and the headers for them.
LEMMA FlushStateStep ==
  ASSUME TypeOK, PlacesFit, FlushState, [Next]_vars
  PROVE  FlushState'
<1>1. CASE FlushHeaders
  <2>1. Count > 0 /\ Count' = Count
    BY <1>1 DEF FlushHeaders, FlushState, Count, buffer
  <2>2. pc' = "data" /\ HeadEnd' = headOff /\ headOff' = headOff + Count
        /\ UNCHANGED <<dataOff, pending>>
    BY <1>1, HeadersWritten
  <2>3. \A i \in headOff .. headOff' - 1 :
          /\ hdr'[i].n = pending' + (i - headOff)
          /\ hdr'[i].off = dataOff' + (i - headOff)
    BY <1>1, <2>2, HeadersWritten
  <2> QED
    BY <2>1, <2>2, <2>3 DEF FlushState
<1>2. CASE UNCHANGED vars
  BY <1>2 DEF vars, FlushState, HeadEnd, Count, disk, files, buffer
<1>3. ASSUME Next, ~FlushHeaders
      PROVE  pc' # "data" /\ (pc' = "hdr" => Count' > 0)
  <2> USE DEF FlushState, Count, buffer, disk, files
  <2>1. CASE \E jump, large \in BOOLEAN : Accept(jump, large)
    BY <2>1, Ranges DEF Accept
  <2>2. CASE LoseFrame \/ FlushHeadersFail \/ FlushSeekFails \/ FlushDataFails
    BY <2>2 DEF LoseFrame, FlushHeadersFail, FlushSeekFails, FlushDataFails,
                FlushFails
  <2>3. CASE \E r \in {"STOPRECORD", "FILEWRITEOVER", "RECTIMEOVER"} :
               StartClose(r)
    BY <2>3 DEF StartClose
  <2>4. CASE FlushData \/ SyncData
    BY <2>4 DEF FlushData, FlushDone, SyncData
  <2>5. CASE SyncHead
    BY <2>5, Ranges DEF SyncHead, FlushDone, FlushFails
  <2>6. CASE CloseInfo \/ CloseHead \/ CloseFails \/ SyncClosedHead
             \/ SyncClosedData \/ Crash
    BY <2>6 DEF CloseInfo, CloseHead, CloseFails, SyncClosedHead,
                SyncClosedData, Crash
  <2>7. CASE OpenNew \/ TruncateData \/ MarkNew \/ WriteHead \/ MarkAppend
             \/ AppendOpened \/ TooShort \/ OpenFails
    BY <2>7 DEF OpenNew, TruncateData, MarkNew, WriteHead, MarkAppend,
                AppendOpened, TooShort, OpenFails
  <2>8. CASE NextFile
    BY <2>8 DEF NextFile
  <2>9. CASE FixEmpty \/ FixNothing \/ FixHead \/ FixInfo \/ FixFails
             \/ NothingToFix
    BY <2>9 DEF FixEmpty, FixNothing, FixHead, FixInfo, FixFails, NothingToFix
  <2> QED
    BY <1>3, <2>1, <2>2, <2>3, <2>4, <2>5, <2>6, <2>7, <2>8, <2>9 DEF Next
<1> QED
  BY <1>1, <1>2, <1>3 DEF FlushState

\* The data goes on at most one frame behind the last header's.
LEMMA LastFrameStep ==
  ASSUME TypeOK, PlacesFit, FlushState, OpeningStates, LastFrame, [Next]_vars
  PROVE  LastFrame'
<1> SUFFICES ASSUME Open', HeadEnd' > 1
             PROVE  dataOff' <= hdr'[HeadEnd' - 1].off + 1
  BY DEF LastFrame
<1>1. CASE Kept
  BY <1>1 DEF Kept, LastFrame
<1>2. CASE FlushHeaders
  <2>1. HeadEnd' = HeadEnd /\ HeadEnd = headOff /\ dataOff' = dataOff /\ Open
    BY <1>2, HeadersWritten DEF Open, Flushing, FlushHeaders
  <2>2. hdr'[headOff - 1] = hdr[headOff - 1]
    BY <1>2, <2>1, HeadersWritten, Ranges
  <2> QED
    BY <2>1, <2>2 DEF LastFrame
<1>3. CASE FlushData
  <2>1. headOff - 1 \in HeadEnd .. headOff - 1 /\ HeadEnd = headOff - Count
        /\ Count \in Nat /\ headOff \in Nat
    BY <1>3, DataWritten, Ranges
  <2>2. hdr[headOff - 1].off = dataOff + (headOff - 1 - HeadEnd)
    BY <1>3, <2>1, DataWritten
  <2>3. HeadEnd' = headOff /\ hdr' = hdr /\ dataOff' = dataOff + Count
    BY <1>3, DataWritten
  <2> QED
    BY <2>1, <2>2, <2>3, Ranges
<1>4. CASE SeekFailed
  <2>1. HeadEnd = headOff - Count /\ Count > 0 /\ Count \in Nat
        /\ headOff \in Nat /\ dataOff \in Nat
    BY <1>4, Ranges DEF SeekFailed, HeadEnd, FlushState
  <2>2. headOff - 1 \in HeadEnd .. headOff - 1
    BY <2>1
  <2>3. hdr[headOff - 1].off = dataOff + (headOff - 1 - HeadEnd)
    BY <1>4, <2>2 DEF SeekFailed, FlushState
  <2> QED
    BY <1>4, <2>1, <2>3 DEF SeekFailed
<1>5. CASE Appended
  <2>1. ulOffSet - 1 \in Slot
    BY <1>5, BoundsAssumption DEF Appended, Slot, TypeOK
  <2>2. hdr[ulOffSet - 1].off \in Nat
    BY <2>1, BoundsAssumption DEF TypeOK, Entry
  <2> QED
    BY <1>5, <2>2 DEF Appended
<1>6. CASE Emptied
  BY <1>6 DEF Emptied
<1> QED
  BY <1>1, <1>2, <1>3, <1>4, <1>5, <1>6, OpenEffects

\* What the headers below end tell, as long as the data goes on at place.
Told(end, place) == /\ Described(end, place) /\ Ordered(end)
                    /\ \A i \in 1 .. end - 1 : hdr[i].n < pending

\* After a flush the headers before it and those of its frames tell the truth.
LEMMA ToldByFlush ==
  ASSUME TypeOK, PlacesFit, FlushState, FlushData, Told(HeadEnd, dataOff)
  PROVE  Told(HeadEnd, dataOff)'
<1> DEFINE h == HeadEnd
<1>1. /\ HeadEnd' = headOff /\ hdr' = hdr /\ pending' = next
      /\ dataOff' = dataOff + Count /\ headOff = h + Count
      /\ Count \in Nat \ {0} /\ h \in Nat /\ h >= 1
      /\ dataOff \in Nat /\ pending \in Nat /\ next = pending + Count
      /\ headOff \in 1 .. FileMax + 1 /\ FileMax \in Nat /\ dataOff < h
  BY DataWritten, Ranges DEF TypeOK, Count
<1>2. ASSUME NEW i \in 1 .. headOff - 1
      PROVE  hdr[i].off \in Place /\ hdr[i].n \in Nat
  BY <1>1, BoundsAssumption DEF TypeOK, Entry, Slot, Place
<1>3. ASSUME NEW i \in 1 .. h - 1
      PROVE  hdr[i].off < dataOff /\ data[hdr[i].off] = hdr[i].n
             /\ hdr[i].n < pending
  BY DEF Told, Described
<1>4. ASSUME NEW i \in h .. headOff - 1
      PROVE  hdr[i].n = pending + (i - h) /\ hdr[i].off = dataOff + (i - h)
  BY DataWritten
<1>5. ASSUME NEW i \in 1 .. headOff - 1
      PROVE  i \in 1 .. h - 1 \/ i \in h .. headOff - 1
  BY <1>1
<1>6. ASSUME NEW i \in 1 .. headOff - 1
      PROVE  hdr[i].off < dataOff + Count /\ data'[hdr[i].off] = hdr[i].n
             /\ hdr[i].n < next
  <2>1. hdr[i].off \in Place /\ hdr[i].off \in Nat
    BY <1>1, <1>2 DEF Place
  <2>2. data'[hdr[i].off] = IF hdr[i].off \in dataOff .. dataOff + Count - 1
              THEN pending + (hdr[i].off - dataOff) ELSE data[hdr[i].off]
    BY <2>1, DataWritten
  <2>3. CASE i \in 1 .. h - 1
    BY <1>1, <1>2, <1>3, <2>1, <2>2, <2>3
  <2>4. CASE i \in h .. headOff - 1
    BY <1>1, <1>2, <1>4, <2>1, <2>2, <2>4
  <2> QED
    BY <1>5, <2>3, <2>4
<1>7. ASSUME NEW i \in 1 .. headOff - 1, NEW j \in 1 .. headOff - 1, i < j
      PROVE  hdr[i].n < hdr[j].n
  <2>1. CASE j \in 1 .. h - 1
    <3>1. i \in 1 .. h - 1
      BY <1>1, <1>7, <2>1
    <3> QED
      BY <1>7, <2>1, <3>1 DEF Told, Ordered
  <2>2. CASE j \in h .. headOff - 1 /\ i \in 1 .. h - 1
    BY <1>1, <1>2, <1>3, <1>4, <2>2
  <2>3. CASE j \in h .. headOff - 1 /\ i \in h .. headOff - 1
    BY <1>1, <1>4, <1>7, <2>3
  <2> QED
    BY <1>5, <2>1, <2>2, <2>3
<1>8. Described(HeadEnd, dataOff)'
  BY <1>1, <1>6 DEF Described
<1>9. Ordered(HeadEnd)'
  BY <1>1, <1>7 DEF Ordered
<1>10. \A i \in 1 .. HeadEnd' - 1 : hdr'[i].n < pending'
  BY <1>1, <1>6
<1> QED
  BY <1>8, <1>9, <1>10 DEF Told

\* So they do after every other step that leaves the file open.
LEMMA ToldStep ==
  ASSUME TypeOK, PlacesFit, FlushState, OpeningStates, AppendGood, [Next]_vars,
         Open /\ dataOff <= dlive => Told(HeadEnd, dataOff),
         Open', dataOff' <= dlive'
  PROVE  Told(HeadEnd, dataOff)'
<1>1. CASE Kept
  BY <1>1 DEF Kept, Told, Described, Ordered
<1>2. CASE FlushHeaders
  <2>1. HeadEnd' = HeadEnd /\ HeadEnd = headOff /\ headOff \in Nat
        /\ UNCHANGED <<data, dataOff, dlive, pending>>
        /\ \A i \in 1 .. headOff - 1 : hdr'[i] = hdr[i]
    BY <1>2, HeadersWritten, Ranges
  <2>2. Open
    BY <1>2 DEF FlushHeaders, Open, Flushing
  <2>3. Told(HeadEnd, dataOff)
    BY <2>1, <2>2
  <2> QED
    BY <2>1, <2>3 DEF Told, Described, Ordered
<1>3. CASE FlushData
  BY <1>3, ToldByFlush, DataWritten
<1>4. CASE SeekFailed
  BY <1>4, Ranges DEF SeekFailed
<1>5. CASE Appended
  <2>1. pc = "append" /\ HeadEnd' = ulOffSet /\ ulOffSet > 1
        /\ dataOff' = hdr[ulOffSet - 1].off + 1
        /\ UNCHANGED <<hdr, data, dlive, pending>>
    BY <1>5 DEF Appended, TypeOK
  <2>2. dlive = dsize /\ dsize \in Nat
    BY <2>1, Ranges DEF OpeningStates
  <2>3. hdr[ulOffSet - 1].off \in Nat
    <3>1. ulOffSet - 1 \in Slot
      BY <2>1, BoundsAssumption DEF Slot, TypeOK
    <3> QED
      BY <3>1, BoundsAssumption DEF TypeOK, Entry
  <2>4. hdr[ulOffSet - 1].off < dsize
    BY <2>1, <2>2, <2>3
  <2>5. /\ Described(ulOffSet, hdr[ulOffSet - 1].off + 1) /\ Ordered(ulOffSet)
        /\ \A i \in 1 .. ulOffSet - 1 : hdr[i].n < pending
    BY <2>1, <2>4 DEF AppendGood
  <2> QED
    BY <2>1, <2>5 DEF Told, Described, Ordered
<1>6. CASE Emptied
  BY <1>6 DEF Emptied, Told, Described, Ordered
<1> QED
  BY <1>1, <1>2, <1>3, <1>4, <1>5, <1>6, OpenEffects

\* A file being opened is as its opening left it.
LEMMA OpeningStatesStep ==
  ASSUME TypeOK, OpeningStates, [Next]_vars
  PROVE  OpeningStates'
<1> USE DEF OpeningStates, disk, files, buffer, rest
<1>1. CASE UNCHANGED vars
  BY <1>1 DEF vars
<1>2. CASE OpenNew \/ TruncateData \/ MarkNew \/ WriteHead \/ MarkAppend
           \/ AppendOpened \/ TooShort \/ OpenFails
  BY <1>2 DEF OpenNew, TruncateData, MarkNew, WriteHead, MarkAppend,
              AppendOpened, TooShort, OpenFails
<1>3. CASE NextFile
  BY <1>3 DEF NextFile
<1>4. CASE \E jump, large \in BOOLEAN : Accept(jump, large)
  BY <1>4 DEF Accept
<1>5. CASE LoseFrame \/ FlushHeaders \/ FlushHeadersFail \/ FlushSeekFails
           \/ FlushDataFails
  BY <1>5 DEF LoseFrame, FlushHeaders, FlushHeadersFail, FlushSeekFails,
              FlushDataFails, FlushFails
<1>6. CASE FlushData \/ SyncData \/ SyncHead
  BY <1>6 DEF FlushData, SyncData, SyncHead, FlushDone, FlushFails
<1>7. CASE \E r \in {"STOPRECORD", "FILEWRITEOVER", "RECTIMEOVER"} :
             StartClose(r)
  BY <1>7 DEF StartClose
<1>8. CASE CloseInfo \/ CloseHead \/ CloseFails \/ SyncClosedHead
           \/ SyncClosedData \/ Crash
  BY <1>8 DEF CloseInfo, CloseHead, CloseFails, SyncClosedHead,
              SyncClosedData, Crash
<1>9. CASE FixEmpty \/ FixNothing \/ FixHead \/ FixInfo \/ FixFails
           \/ NothingToFix
  BY <1>9 DEF FixEmpty, FixNothing, FixHead, FixInfo, FixFails, NothingToFix
<1> QED
  BY <1>1, <1>2, <1>3, <1>4, <1>5, <1>6, <1>7, <1>8, <1>9 DEF Next

\* The size on the disk never passes that in memory, and a closed end stands.
LEMMA ClosingStateStep ==
  ASSUME TypeOK, OpeningStates, ClosingState, [Next]_vars
  PROVE  ClosingState'
<1> USE DEF OpeningStates, ClosingState, Open, Flushing, Closing, disk, files,
            buffer, rest
<1>0. dlive \in Nat /\ dsize \in Nat /\ dataOff \in Nat /\ Count \in Nat
  BY Ranges
<1>1. CASE UNCHANGED vars
  BY <1>1 DEF vars
<1>2. CASE OpenNew \/ TruncateData \/ MarkNew \/ WriteHead \/ MarkAppend
           \/ AppendOpened \/ TooShort \/ OpenFails
  BY <1>0, <1>2 DEF OpenNew, TruncateData, MarkNew, WriteHead, MarkAppend,
              AppendOpened, TooShort, OpenFails
<1>3. CASE NextFile
  BY <1>3 DEF NextFile
<1>4. CASE \E jump, large \in BOOLEAN : Accept(jump, large)
  BY <1>4 DEF Accept
<1>5. CASE LoseFrame \/ FlushHeaders \/ FlushHeadersFail \/ FlushSeekFails
           \/ FlushDataFails
  BY <1>5 DEF LoseFrame, FlushHeaders, FlushHeadersFail, FlushSeekFails,
              FlushDataFails, FlushFails
<1>6. CASE FlushData
  <2>1. dsize' = dsize /\ dlive' >= dlive /\ pc = "data"
        /\ pc' \in {"syncData", "rec", "info"}
    BY <1>0, <1>6 DEF FlushData, FlushDone
  <2>2. dlive' \in Nat
    BY <1>0, <1>6 DEF FlushData
  <2> QED
    BY <1>0, <2>1, <2>2
<1>7. CASE SyncData \/ SyncHead
  BY <1>0, <1>7 DEF SyncData, SyncHead, FlushDone, FlushFails
<1>8. CASE \E r \in {"STOPRECORD", "FILEWRITEOVER", "RECTIMEOVER"} :
             StartClose(r)
  BY <1>8 DEF StartClose
<1>9. CASE CloseInfo \/ CloseHead \/ CloseFails \/ SyncClosedHead
           \/ SyncClosedData
  BY <1>9 DEF CloseInfo, CloseHead, CloseFails, SyncClosedHead, SyncClosedData
<1>10. CASE Crash
  BY <1>10 DEF Crash
<1>11. CASE FixEmpty \/ FixNothing \/ FixHead \/ FixInfo \/ FixFails
           \/ NothingToFix
  BY <1>11 DEF FixEmpty, FixNothing, FixHead, FixInfo, FixFails, NothingToFix
<1> QED
  BY <1>1, <1>2, <1>3, <1>4, <1>5, <1>6, <1>7, <1>8, <1>9, <1>10, <1>11
     DEF Next

\* What AppendGood says of such a file.
EndTold == ulOffSet > 1 /\ hdr[ulOffSet - 1].off < dsize =>
             Told(ulOffSet, hdr[ulOffSet - 1].off + 1)

\* Only three steps lead to a file that may be appended to.
LEMMA AppendSteps ==
  ASSUME TypeOK, OpeningStates, ClosingState, [Next]_vars, Appendable'
  PROVE  \/ /\ Appendable
            /\ UNCHANGED <<hdr, data, hsize, dsize, ulOffSet, pending, next>>
         \/ CloseFails /\ ulOffSet = headOff
         \/ SyncClosedData /\ ulOffSet = headOff
<1> USE DEF OpeningStates, ClosingState, Appendable, disk, files, buffer, rest
<1>1. CASE UNCHANGED vars
  BY <1>1 DEF vars
<1>2. CASE OpenNew \/ TruncateData \/ MarkNew \/ WriteHead \/ MarkAppend
           \/ AppendOpened \/ TooShort \/ OpenFails
  BY <1>2 DEF OpenNew, TruncateData, MarkNew, WriteHead, MarkAppend,
              AppendOpened, TooShort, OpenFails
<1>3. CASE NextFile
  BY <1>3 DEF NextFile
<1>4. CASE \E jump, large \in BOOLEAN : Accept(jump, large)
  BY <1>4 DEF Accept
<1>5. CASE LoseFrame \/ FlushHeaders \/ FlushHeadersFail \/ FlushSeekFails
           \/ FlushDataFails
  BY <1>5 DEF LoseFrame, FlushHeaders, FlushHeadersFail, FlushSeekFails,
              FlushDataFails, FlushFails
<1>6. CASE FlushData \/ SyncData \/ SyncHead
  BY <1>6 DEF FlushData, SyncData, SyncHead, FlushDone, FlushFails
<1>7. CASE \E r \in {"STOPRECORD", "FILEWRITEOVER", "RECTIMEOVER"} :
             StartClose(r)
  BY <1>7 DEF StartClose
<1>8. CASE CloseInfo \/ CloseHead \/ SyncClosedHead \/ Crash
  BY <1>8 DEF CloseInfo, CloseHead, SyncClosedHead, Crash
<1>9. CASE CloseFails \/ SyncClosedData
  BY <1>9 DEF CloseFails, SyncClosedData
<1>10. CASE FixEmpty \/ FixNothing \/ FixHead \/ FixInfo \/ FixFails
           \/ NothingToFix
  BY <1>10 DEF FixEmpty, FixNothing, FixHead, FixInfo, FixFails, NothingToFix
<1> QED
  BY <1>1, <1>2, <1>3, <1>4, <1>5, <1>6, <1>7, <1>8, <1>9, <1>10 DEF Next

\* What is closed was told of while open: if the last frame lies within the
\* data file, the data went on within it.
LEMMA AppendGoodStep ==
  ASSUME TypeOK, LastFrame, OpeningStates, ClosingState, AppendGood,
         Open /\ dataOff <= dlive => Told(HeadEnd, dataOff), [Next]_vars
  PROVE  AppendGood'
<1>1. AppendGood <=> (Appendable => EndTold)
  BY DEF AppendGood, Appendable, EndTold, Told
<1>2. AppendGood' <=> (Appendable' => EndTold')
  BY DEF AppendGood, Appendable, EndTold, Told
<1>3. ASSUME Appendable'
      PROVE  EndTold'
  <2>1. CASE Appendable /\ UNCHANGED <<hdr, data, hsize, dsize, ulOffSet, pending, next>>
    BY <1>1, <2>1 DEF EndTold, Told, Described, Ordered
  <2>2. CASE (CloseFails \/ SyncClosedData) /\ ulOffSet = headOff
    <3>1. /\ Open /\ HeadEnd = headOff /\ dsize' \in {dsize, dlive}
          /\ UNCHANGED <<hdr, data, ulOffSet, pending>>
      BY <2>2 DEF CloseFails, SyncClosedData, Open, Closing, HeadEnd, disk,
                  files, buffer
    <3>2. dsize <= dlive /\ dsize \in Nat /\ dlive \in Nat /\ dataOff \in Nat
      BY <3>1, Ranges DEF ClosingState
    <3>3. ASSUME ulOffSet > 1, hdr[ulOffSet - 1].off < dsize'
          PROVE  Told(ulOffSet, hdr[ulOffSet - 1].off + 1)
      <4>1. ulOffSet - 1 \in Slot
        BY <3>3, BoundsAssumption DEF Slot, TypeOK
      <4>2. hdr[ulOffSet - 1].off \in Nat
        BY <4>1, BoundsAssumption DEF TypeOK, Entry
      <4>3. dataOff <= hdr[ulOffSet - 1].off + 1
        BY <2>2, <3>1, <3>3 DEF LastFrame
      <4>4. dataOff <= dlive
        BY <3>1, <3>2, <3>3, <4>2, <4>3
      <4>5. Told(ulOffSet, dataOff)
        BY <2>2, <3>1, <4>4
      <4>6. ASSUME NEW i \in 1 .. ulOffSet - 1
            PROVE  hdr[i].off < hdr[ulOffSet - 1].off + 1
        <5>1. i \in Slot
          BY <4>1, <4>6, BoundsAssumption DEF Slot, TypeOK
        <5>2. hdr[i].off \in Nat
          BY <5>1, BoundsAssumption DEF TypeOK, Entry
        <5>3. hdr[i].off < dataOff
          BY <4>5, <4>6 DEF Told, Described
        <5> QED
          BY <3>2, <4>2, <4>3, <5>2, <5>3
      <4> QED
        BY <4>5, <4>6 DEF Told, Described
    <3> QED
      BY <3>1, <3>3 DEF EndTold, Told, Described, Ordered
  <2> QED
    BY <1>3, <2>1, <2>2, AppendSteps
<1> QED
  BY <1>2, <1>3
-----------------------------------------------------------------------------
(* The invariant.                                                          *)

\* Together the parts hold of the initial state ...
LEMMA DInvInit ==
  ASSUME Init
  PROVE  DInv
<1> USE BoundsAssumption DEF Init
<1>1. TypeOK
  <2>1. hdr \in [Slot -> Entry] /\ data \in [Place -> 0 .. MaxFrame]
    BY DEF Entry, Empty
  <2>2. sinceBoot \in BOOLEAN /\ torn \in BOOLEAN
    OBVIOUS
  <2>3. /\ states \in FileState /\ pc \in Pc /\ reason \in Reason \cup {"none"}
        /\ ended \in {"open", "closing", "closed", "fixed"}
    BY DEF FileState, Pc
  <2>4. /\ pending \in 1 .. next /\ next \in 1 .. MaxFrame + 1
        /\ gaps \subseteq Frame /\ flushes \in 0 .. SyncEvery
    OBVIOUS
  <2>5. /\ ulOffSet \in 1 .. FileMax + 1 /\ headInfo \in 1 .. FileMax + 1
        /\ hsize \in 0 .. FileMax + 1 /\ dsize \in 0 .. FileMax
        /\ hlive \in 0 .. FileMax + 1 /\ dlive \in 0 .. FileMax
        /\ headOff \in 1 .. FileMax + 1 /\ dataOff \in 0 .. FileMax
    OBVIOUS
  <2> QED
    BY <2>1, <2>2, <2>3, <2>4, <2>5 DEF TypeOK
<1>2. PlacesFit
  BY DEF PlacesFit, Slot, Empty, Open, Flushing, Closing
<1>3. ~Open /\ FlushState /\ OpeningStates /\ ClosingState /\ AppendGood
  BY DEF Open, Flushing, Closing, FlushState, OpeningStates, ClosingState,
         AppendGood
<1> QED
  BY <1>1, <1>2, <1>3 DEF DInv, LastFrame, FramesGone, IndexDescribesData,
     FramesInOrder

\* ... and no step breaks them.
LEMMA DInvStep ==
  ASSUME DInv, [Next]_vars
  PROVE  DInv'
<1>1. /\ TypeOK /\ PlacesFit /\ FlushState /\ LastFrame /\ OpeningStates
      /\ ClosingState /\ AppendGood
      /\ Open /\ dataOff <= dlive => Told(HeadEnd, dataOff)
  BY DEF DInv, FramesGone, IndexDescribesData, FramesInOrder, Told
<1>2. TypeOK' /\ PlacesFit' /\ FlushState' /\ LastFrame'
  BY <1>1, TypeStep, PlacesFitStep, FlushStateStep, LastFrameStep
<1>3. OpeningStates' /\ ClosingState' /\ AppendGood'
  BY <1>1, OpeningStatesStep, ClosingStateStep, AppendGoodStep
<1>4. Open' /\ dataOff' <= dlive' => Told(HeadEnd, dataOff)'
  BY <1>1, ToldStep
<1>5. FramesGone' /\ IndexDescribesData' /\ FramesInOrder'
  BY <1>4 DEF FramesGone, IndexDescribesData, FramesInOrder, Told
<1> QED
  BY <1>2, <1>3, <1>5 DEF DInv

\* All of it holds in every reachable state: the invariant of the frames of a
\* recording file, through FS_write_buf_write_to_file, RecWriteOver, crashes and
\* FS_FixFile.
THEOREM DInvariance == Spec => []DInv
<1>1. Init => DInv
  BY DInvInit
<1>2. DInv /\ [Next]_vars => DInv'
  BY DInvStep
<1> QED
  BY <1>1, <1>2, PTL DEF Spec

\* Every variable keeps its type: no offset passes the size of its file.
THEOREM DataTypes == Spec => []TypeOK
<1>1. DInv => TypeOK
  BY DEF DInv
<1> QED
  BY <1>1, DInvariance, PTL

\* The headers of the open file say where its frames are, through every failed
\* flush of FS_write_buf_write_to_file.
THEOREM IndexAlwaysDescribes == Spec => []IndexDescribesData
<1>1. DInv => IndexDescribesData
  BY DEF DInv
<1> QED
  BY <1>1, DInvariance, PTL

\* The frames of the open file come in the order they were captured, none twice,
\* through every flush that is tried again.
THEOREM FramesAlwaysInOrder == Spec => []FramesInOrder
<1>1. DInv => FramesInOrder
  BY DEF DInv
<1> QED
  BY <1>1, DInvariance, PTL
-----------------------------------------------------------------------------
(* What FS_FixFile gives up.                                               *)

\* A set of numbers up to n that is not empty has a least.
LEMMA LeastNumber ==
  ASSUME NEW n \in Nat, NEW A \in SUBSET (0 .. n), A # {}
  PROVE  \E m \in A : \A k \in A : m <= k
<1> DEFINE Upto  == {0 .. m : m \in A}
<1>1. IsFiniteSet(0 .. n)
  BY FS_Interval
<1>2. FiniteSubsetsOf(0 .. n) = SUBSET (0 .. n)
  BY <1>1, FS_FiniteSubsetsOfFinite, Zenon
<1>3. IsWellFoundedOn(StrictSubsetOrdering(0 .. n), SUBSET (0 .. n))
  BY <1>2, FS_StrictSubsetOrderingWellFounded, Zenon
<1>4. Upto \subseteq SUBSET (0 .. n) /\ Upto # {}
  <2>1. \A m \in A : 0 .. m \in SUBSET (0 .. n)
    OBVIOUS
  <2>2. PICK m \in A : TRUE
    OBVIOUS
  <2>3. 0 .. m \in Upto
    OBVIOUS
  <2>4. Upto \subseteq SUBSET (0 .. n)
    BY <2>1
  <2> QED
    BY <2>3, <2>4
<1>5. PICK x \in Upto : \A y \in Upto : <<y, x>> \notin StrictSubsetOrdering(0 .. n)
  BY <1>3, <1>4, WFMin, Zenon
<1>6. PICK m \in A : x = 0 .. m
  OBVIOUS
<1>7. ASSUME NEW k \in A, k < m
      PROVE  FALSE
  <2>1. 0 .. k \in Upto
    OBVIOUS
  <2>2. 0 .. k \subseteq 0 .. m /\ m \in 0 .. m /\ m \notin 0 .. k
    BY <1>7
  <2>3. <<0 .. k, x>> \in StrictSubsetOrdering(0 .. n)
    BY <1>4, <1>6, <2>1, <2>2 DEF StrictSubsetOrdering
  <2> QED
    BY <1>5, <2>1, <2>3
<1> QED
  BY <1>7

\* The frames of the first channel that are read again, from i on.
Onward(start, i) == {j \in SameChannel(start) : j >= i}

\* They are finitely many, at most one more than from the next place on.
LEMMA TailSize ==
  ASSUME NEW start \in Nat, hsize \in Nat, NEW i \in Nat
  PROVE  /\ IsFiniteSet(Onward(start, i)) /\ Cardinality(Onward(start, i)) \in Nat
         /\ i \notin SameChannel(start) => Onward(start, i) = Onward(start, i + 1)
         /\ i \in SameChannel(start) =>
              Cardinality(Onward(start, i)) = Cardinality(Onward(start, i + 1)) + 1
<1>1. SameChannel(start) \subseteq 0 .. hsize
  BY DEF SameChannel, Scanned
<1>2. IsFiniteSet(0 .. hsize)
  BY FS_Interval
<1>3. \A k \in Nat : Onward(start, k) \in SUBSET (0 .. hsize)
  BY <1>1 DEF Onward
<1>4. \A k \in Nat : IsFiniteSet(Onward(start, k))
  BY <1>2, <1>3, FS_Subset, Zenon
<1>5. \A k \in Nat : Cardinality(Onward(start, k)) \in Nat
  BY <1>4, FS_CardinalityType, Zenon
<1>6. ASSUME i \notin SameChannel(start)
      PROVE  Onward(start, i) = Onward(start, i + 1)
  BY <1>1, <1>6 DEF Onward
<1>7. ASSUME i \in SameChannel(start)
      PROVE  Cardinality(Onward(start, i)) = Cardinality(Onward(start, i + 1)) + 1
  <2>1. Onward(start, i) = Onward(start, i + 1) \cup {i}
    BY <1>1, <1>7 DEF Onward
  <2>2. i \notin Onward(start, i + 1) /\ i + 1 \in Nat
    BY DEF Onward
  <2>3. PICK U : U = Onward(start, i + 1)
    OBVIOUS
  <2>4. IsFiniteSet(U) /\ i \notin U
    BY <1>4, <2>2, <2>3
  <2>5. Cardinality(U \cup {i}) = Cardinality(U) + 1
    BY <2>4, FS_AddElement, Zenon
  <2> QED
    BY <2>1, <2>3, <2>5
<1> QED
  BY <1>4, <1>5, <1>6, <1>7

\* The end FS_FixFile assigns leaves at most MaxLost of them behind it.
LEMMA FixedEndKeeps ==
  ASSUME NEW start \in Nat, hsize \in Nat
  PROVE  /\ FixedEnd(start) \in Nat
         /\ Cardinality(Onward(start, FixedEnd(start))) <= MaxLost
<1> DEFINE ends == FromEnd(start, MaxLost)
<1>0. MaxLost \in Nat /\ MaxLost >= 1
  BY BoundsAssumption
<1>1. ends = {i \in SameChannel(start) : Cardinality(Onward(start, i)) = MaxLost}
  BY DEF FromEnd, Onward
<1>2. SameChannel(start) \subseteq start + 1 .. hsize - 1
  BY DEF SameChannel, Scanned
<1>3. CASE ends # {}
  <2>1. (CHOOSE i \in ends : TRUE) \in ends
    BY <1>3
  <2>2. FixedEnd(start) = CHOOSE i \in ends : TRUE
    BY <1>3 DEF FixedEnd
  <2>3. FixedEnd(start) \in ends
    BY <2>1, <2>2
  <2> QED
    BY <1>0, <1>1, <1>2, <2>3
<1>4. CASE ends = {}
  <2>1. FixedEnd(start) = start + 1
    BY <1>4 DEF FixedEnd
  <2> DEFINE Few == {i \in 0 .. hsize : Cardinality(Onward(start, i)) < MaxLost}
  <2>2. Onward(start, hsize) = {}
    BY <1>2 DEF Onward
  <2>3. hsize \in Few
    BY <1>0, <2>2, FS_EmptySet
  <2>4. PICK m \in Few : \A k \in Few : m <= k
    <3>1. Few \in SUBSET (0 .. hsize) /\ Few # {}
      BY <2>3
    <3> HIDE DEF Few
    <3> QED
      BY <3>1, LeastNumber
  <2>5. m = 0
    <3>1. SUFFICES ASSUME m # 0
                   PROVE  FALSE
      OBVIOUS
    <3>2. m - 1 \in 0 .. hsize /\ m - 1 \in Nat /\ m - 1 < m /\ (m - 1) + 1 = m
      BY <2>4, <3>1
    <3>3. m - 1 \notin Few
      BY <2>4, <3>2
    <3>4. /\ Cardinality(Onward(start, m - 1)) \in Nat
          /\ m - 1 \notin SameChannel(start) =>
               Onward(start, m - 1) = Onward(start, m)
          /\ m - 1 \in SameChannel(start) =>
               Cardinality(Onward(start, m - 1)) = Cardinality(Onward(start, m)) + 1
      <4>1. PICK p \in Nat : p = m - 1
        BY <3>2
      <4>2. /\ Cardinality(Onward(start, p)) \in Nat
            /\ p \notin SameChannel(start) =>
                 Onward(start, p) = Onward(start, p + 1)
            /\ p \in SameChannel(start) =>
                 Cardinality(Onward(start, p)) = Cardinality(Onward(start, p + 1)) + 1
        BY TailSize
      <4>3. p + 1 = m
        BY <3>2, <4>1
      <4> QED
        BY <4>1, <4>2, <4>3
    <3>5. Cardinality(Onward(start, m)) < MaxLost
          /\ Cardinality(Onward(start, m)) \in Nat
      BY <2>4, TailSize
    <3>6. Cardinality(Onward(start, m - 1)) >= MaxLost
      BY <1>0, <3>2, <3>3, <3>4
    <3>7. m - 1 \in SameChannel(start)
      BY <1>0, <3>4, <3>5, <3>6
    <3>8. Cardinality(Onward(start, m - 1)) = MaxLost
      BY <1>0, <3>4, <3>5, <3>6, <3>7
    <3> QED
      BY <1>1, <1>4, <3>7, <3>8
  <2>6. Onward(start, start + 1) = Onward(start, 0)
    BY <1>2 DEF Onward
  <2> QED
    BY <1>0, <2>1, <2>4, <2>5, <2>6, TailSize
<1> QED
  BY <1>3, <1>4
-----------------------------------------------------------------------------
(* The sizes in memory and on the disk (OInv).                             *)

\* The data goes on at the end of its file, and the header file holds the headers
\* counted and at most those of the buffer.
LEMMA SizesOpenStep ==
  ASSUME TypeOK, PlacesFit, FlushState, OpeningStates, ClosingState, SizesOpen,
         SizesAppend, [Next]_vars
  PROVE  SizesOpen'
<1> USE DEF SizesOpen, Open, HeadEnd, Flushing, Closing, disk, files, buffer,
            rest, Count
<1>0. /\ headOff \in Nat /\ dataOff \in Nat /\ hlive \in Nat /\ dlive \in Nat
      /\ hsize \in Nat /\ dsize \in Nat /\ ulOffSet \in Nat
      /\ pending \in Nat /\ next \in Nat /\ next >= pending
  BY Ranges DEF TypeOK
<1>1. CASE UNCHANGED vars
  BY <1>1 DEF vars
<1>2. CASE OpenNew \/ TruncateData \/ MarkNew \/ MarkAppend \/ TooShort
           \/ OpenFails \/ NextFile \/ Crash
  BY <1>2 DEF OpenNew, TruncateData, MarkNew, MarkAppend, TooShort, OpenFails,
              NextFile, Crash
<1>3. CASE FixEmpty \/ FixNothing \/ FixHead \/ FixInfo \/ FixFails
           \/ NothingToFix
  BY <1>3 DEF FixEmpty, FixNothing, FixHead, FixInfo, FixFails, NothingToFix
<1>4. CASE WriteHead
  BY <1>0, <1>4 DEF WriteHead, OpeningStates
<1>5. CASE AppendOpened
  <2>1. /\ pc = "append" /\ ulOffSet >= 3 /\ ulOffSet <= hsize
        /\ headOff' = ulOffSet /\ dataOff' = hdr[ulOffSet - 1].off + 1
        /\ pc' = "rec" /\ UNCHANGED <<hsize, hlive, dlive, pending, next>>
    BY <1>5 DEF AppendOpened
  <2>2. hlive = hsize /\ dlive = dsize
    BY <2>1 DEF OpeningStates
  <2>3. hsize <= ulOffSet + Count /\ dsize <= hdr[ulOffSet - 1].off + 1
    BY <1>0, <2>1 DEF SizesAppend, Appendable
  <2> QED
    BY <1>0, <2>1, <2>2, <2>3
<1>6. CASE \E jump, large \in BOOLEAN : Accept(jump, large)
  <2>1. /\ pc = "rec" /\ pc' \in {"rec", "hdr"} /\ next' = next + 1
        /\ UNCHANGED <<pending, headOff, dataOff, hlive, dlive, hsize>>
    BY <1>6 DEF Accept
  <2> QED
    BY <1>0, <2>1
<1>7. CASE LoseFrame \/ FlushHeadersFail \/ SyncData
           \/ (\E r \in {"STOPRECORD", "FILEWRITEOVER", "RECTIMEOVER"} :
                 StartClose(r))
           \/ CloseInfo \/ CloseHead \/ CloseFails \/ SyncClosedData
  <2>1. /\ Open /\ pc # "data" /\ pc' # "data"
        /\ UNCHANGED <<pending, next, headOff, dataOff, hlive, dlive, hsize>>
    BY <1>7 DEF LoseFrame, FlushHeadersFail, FlushFails, SyncData, StartClose,
                CloseInfo, CloseHead, CloseFails, SyncClosedData
  <2> QED
    BY <1>0, <2>1
<1>8. CASE SyncHead \/ SyncClosedHead
  <2>1. /\ Open /\ pc # "data" /\ pc' # "data" /\ hsize' \in {hsize, hlive}
        /\ UNCHANGED <<pending, next, headOff, dataOff, hlive, dlive>>
    BY <1>8 DEF SyncHead, FlushDone, FlushFails, SyncClosedHead
  <2> QED
    BY <1>0, <2>1
<1>9. CASE FlushHeaders
  <2>1. /\ pc = "hdr" /\ pc' = "data" /\ headOff' = headOff + Count
        /\ hlive' = IF headOff + Count > hlive THEN headOff + Count ELSE hlive
        /\ UNCHANGED <<pending, next, dataOff, dlive, hsize>>
    BY <1>9 DEF FlushHeaders
  <2> QED
    BY <1>0, <2>1
<1>10. CASE FlushSeekFails
  <2>1. /\ pc = "data" /\ pc' # "data"
        /\ UNCHANGED <<pending, next, headOff, dataOff, hlive, dlive, hsize>>
    BY <1>10 DEF FlushSeekFails, FlushFails
  <2> QED
    BY <1>0, <2>1
<1>11. CASE FlushData
  <2>1. /\ pc = "data" /\ pc' # "data" /\ dataOff' = dataOff + Count
        /\ dlive' = IF dataOff + Count > dlive THEN dataOff + Count ELSE dlive
        /\ pending' = next /\ UNCHANGED <<next, headOff, hlive, hsize>>
        /\ dataOff <= dlive
    BY <1>11 DEF FlushData, FlushDone
  <2> QED
    BY <1>0, <2>1
<1>12. CASE FlushDataFails
  <2>1. /\ pc = "data" /\ pc' # "data" /\ headOff' = headOff - Count
        /\ UNCHANGED <<pending, next, dataOff, hlive, dlive, hsize>>
    BY <1>12 DEF FlushDataFails, FlushFails
  <2> QED
    BY <1>0, <2>1
<1> QED
  BY <1>1, <1>2, <1>3, <1>4, <1>5, <1>6, <1>7, <1>8, <1>9, <1>10, <1>11, <1>12
     DEF Next

\* What may be appended to was closed with its data at its end.
LEMMA SizesAppendStep ==
  ASSUME TypeOK, LastFrame, OpeningStates, ClosingState, SizesOpen, SizesAppend,
         [Next]_vars
  PROVE  SizesAppend'
<1>0. /\ headOff \in Nat /\ dataOff \in Nat /\ hlive \in Nat /\ dlive \in Nat
      /\ hsize \in Nat /\ dsize \in Nat /\ ulOffSet \in Nat
      /\ pending \in Nat /\ next \in Nat /\ next >= pending
  BY Ranges DEF TypeOK
<1>1. SUFFICES ASSUME Appendable'
               PROVE  /\ hsize' <= ulOffSet' + Count'
                      /\ ulOffSet' > 1 => dsize' <= hdr'[ulOffSet' - 1].off + 1
  BY DEF SizesAppend
<1>2. CASE Appendable /\ UNCHANGED <<hdr, hsize, dsize, ulOffSet, pending, next>>
  BY <1>2 DEF SizesAppend, Count
<1>3. CASE (CloseFails \/ SyncClosedData) /\ ulOffSet = headOff
  <2>1. /\ Open /\ HeadEnd = headOff /\ dsize' \in {dsize, dlive}
        /\ UNCHANGED <<hdr, ulOffSet, pending, next, hsize>>
    BY <1>3 DEF CloseFails, SyncClosedData, Open, Closing, HeadEnd, disk,
                files, buffer
  <2>2. hsize <= hlive /\ hlive <= headOff + Count /\ dlive <= dataOff
        /\ dsize <= dlive /\ Count \in Nat
    BY <2>1, Ranges DEF SizesOpen, ClosingState
  <2>3. hsize' <= ulOffSet' + Count'
    BY <1>0, <1>3, <2>1, <2>2 DEF Count
  <2>4. ASSUME ulOffSet' > 1
        PROVE  dsize' <= hdr'[ulOffSet' - 1].off + 1
    <3>1. dataOff <= hdr[headOff - 1].off + 1
      BY <1>3, <2>1, <2>4 DEF LastFrame
    <3>2. hdr[headOff - 1].off \in Nat
      <4>1. headOff - 1 \in Slot
        BY <1>3, <2>1, <2>4, BoundsAssumption DEF Slot, TypeOK
      <4> QED
        BY <4>1, BoundsAssumption DEF TypeOK, Entry
    <3>3. dsize' <= dataOff /\ dsize' \in Nat
      BY <1>0, <2>1, <2>2
    <3>4. dsize' <= hdr[headOff - 1].off + 1
      BY <1>0, <3>1, <3>2, <3>3
    <3> QED
      BY <1>3, <2>1, <3>4
  <2> QED
    BY <2>3, <2>4
<1> QED
  BY <1>1, <1>2, <1>3, AppendSteps

\* The headers on the disk have the fields of a FRAMEHEADERINFO.
LEMMA HeaderFields ==
  ASSUME TypeOK, NEW e \in Nat, e <= FileMax + 1, NEW i \in 1 .. e - 1
  PROVE  i \in Slot /\ hdr[i].off \in Nat /\ hdr[i].n \in Nat
         /\ hdr[i].off \in Place
<1>1. i \in Slot
  BY BoundsAssumption DEF Slot
<1> QED
  BY <1>1, BoundsAssumption DEF TypeOK, Entry, Place

\* Fewer headers, or a shorter data file, are in order too.
LEMMA InOrderShorter ==
  ASSUME TypeOK, NEW end \in Nat, NEW size \in Nat, end <= FileMax + 1,
         InOrder(end, size), NEW e \in Nat, NEW s \in Nat, e <= end, s <= size
  PROVE  InOrder(e, s)
<1>1. ASSUME NEW i \in 1 .. e - 1, NEW j \in 1 .. e - 1, i < j, hdr[j].off < s
      PROVE  hdr[i].off < hdr[j].off /\ hdr[i].n < hdr[j].n
  <2>1. i \in 1 .. end - 1 /\ j \in 1 .. end - 1
    OBVIOUS
  <2>2. hdr[j].off < size
    BY <1>1, <2>1, HeaderFields
  <2> QED
    BY <1>1, <2>1, <2>2 DEF InOrder
<1> QED
  BY <1>1 DEF InOrder

\* A header a flush writes is of a frame the data file does not hold yet.
LEMMA FlushedBehind ==
  ASSUME TypeOK, PlacesFit, FlushHeaders, NEW s \in Nat, s <= dataOff,
         NEW i \in 1 .. headOff + Count - 1, NEW j \in 1 .. headOff + Count - 1,
         i < j, hdr'[j].off < s
  PROVE  j < headOff /\ hdr'[i] = hdr[i] /\ hdr'[j] = hdr[j]
<1>1. headOff \in Nat /\ dataOff \in Nat /\ Count \in Nat
  BY Ranges
<1>2. \A k \in headOff .. headOff + Count - 1 :
        hdr'[k].off = dataOff + (k - headOff)
  <2>1. PICK top : top = headOff + Count
    OBVIOUS
  <2>2. headOff' = top
    BY <2>1, HeadersWritten
  <2>3. \A k \in headOff .. top - 1 : hdr'[k].off = dataOff + (k - headOff)
    BY <2>2, HeadersWritten
  <2> QED
    BY <1>1, <2>1, <2>3
<1>3. j < headOff
  <2>1. SUFFICES ASSUME j >= headOff
                 PROVE  FALSE
    BY <1>1
  <2>2. hdr'[j].off = dataOff + (j - headOff)
    BY <1>1, <1>2, <2>1
  <2> QED
    BY <1>1, <2>1, <2>2
<1>4. i \in 1 .. headOff - 1 /\ j \in 1 .. headOff - 1
  BY <1>1, <1>3
<1> QED
  BY <1>3, <1>4, HeadersWritten

\* What a crash would leave stays in order.
LEMMA SyncedInOrderStep ==
  ASSUME TypeOK, PlacesFit, FlushState, OpeningStates, ClosingState, SizesOpen,
         SyncedInOrder, Open /\ dataOff <= dlive => Told(HeadEnd, dataOff),
         [Next]_vars
  PROVE  SyncedInOrder'
<1> USE DEF disk, files, buffer, rest
<1>0. /\ headOff \in Nat /\ dataOff \in Nat /\ hlive \in Nat /\ dlive \in Nat
      /\ hsize \in Nat /\ dsize \in Nat /\ Count \in Nat /\ FileMax \in Nat
      /\ hsize <= FileMax + 1 /\ hlive <= FileMax + 1
  BY Ranges DEF TypeOK
<1>1. ASSUME UNCHANGED <<hdr, hsize, dsize>>, Open' => Open /\ UNCHANGED <<hlive, dlive>>
      PROVE  SyncedInOrder'
  BY <1>1 DEF SyncedInOrder, InOrder
<1>2. CASE UNCHANGED vars
  BY <1>1, <1>2 DEF vars, Open
<1>3. CASE OpenNew \/ TruncateData \/ NextFile
  <2>1. ~Open' /\ hsize' \in Nat /\ dsize' \in Nat /\ (hsize' = 0 \/ dsize' = 0)
        /\ (hdr' = hdr \/ hsize' = 0)
    BY <1>0, <1>3 DEF OpenNew, TruncateData, NextFile, Open, Flushing, Closing
  <2>2. CASE hsize' = 0
    BY <2>1, <2>2 DEF SyncedInOrder, InOrder
  <2>3. CASE dsize' = 0 /\ hdr' = hdr /\ hsize' = hsize
    <3>1. InOrder(hsize, dsize)
      BY DEF SyncedInOrder
    <3>2. InOrder(hsize, 0)
      BY <1>0, <3>1, InOrderShorter
    <3> QED
      BY <2>1, <2>3, <3>2 DEF SyncedInOrder, InOrder
  <2> QED
    BY <1>3, <2>1, <2>2, <2>3 DEF OpenNew, TruncateData, NextFile
<1>4. CASE MarkNew \/ MarkAppend \/ TooShort \/ OpenFails \/ Crash
           \/ FixEmpty \/ FixNothing \/ FixHead \/ FixInfo \/ FixFails
           \/ NothingToFix
  <2>1. ~Open' /\ UNCHANGED <<hdr, hsize, dsize>>
    BY <1>4 DEF MarkNew, MarkAppend, TooShort, OpenFails, Crash, FixEmpty,
       FixNothing, FixHead, FixInfo, FixFails, NothingToFix, Open, Flushing,
       Closing
  <2> QED
    BY <1>1, <2>1
<1>5. CASE WriteHead
  <2>1. hsize' = 1 /\ hlive' = 1
    BY <1>5 DEF WriteHead
  <2> QED
    BY <2>1 DEF SyncedInOrder, InOrder
<1>6. CASE AppendOpened
  <2>1. UNCHANGED <<hdr, hsize, dsize, hlive, dlive>>
        /\ hlive = hsize /\ dlive = dsize
    BY <1>6 DEF AppendOpened, OpeningStates
  <2> QED
    BY <2>1 DEF SyncedInOrder, InOrder
<1>7. CASE (\E jump, large \in BOOLEAN : Accept(jump, large))
  BY <1>1, <1>7 DEF Accept, Open, Flushing
<1>8. CASE LoseFrame \/ FlushHeadersFail \/ FlushSeekFails \/ FlushDataFails
           \/ (\E r \in {"STOPRECORD", "FILEWRITEOVER", "RECTIMEOVER"} :
                 StartClose(r))
           \/ CloseInfo \/ CloseHead \/ CloseFails
  <2>1. Open /\ UNCHANGED <<hdr, hsize, dsize, hlive, dlive>>
    BY <1>8 DEF LoseFrame, FlushHeadersFail, FlushSeekFails, FlushDataFails,
       StartClose, CloseInfo, CloseHead, CloseFails, Open, Flushing, Closing
  <2> QED
    BY <1>1, <2>1
<1>9. CASE SyncData \/ SyncHead \/ SyncClosedHead \/ SyncClosedData
  <2>1. /\ Open /\ UNCHANGED <<hdr, hlive, dlive>>
        /\ hsize' \in {hsize, hlive} /\ dsize' \in {dsize, dlive}
    BY <1>9 DEF SyncData, SyncHead, SyncClosedHead, SyncClosedData, Open,
       Flushing, Closing
  <2>2. hsize <= hlive /\ dsize <= dlive /\ InOrder(hlive, dlive)
    BY <2>1 DEF SizesOpen, ClosingState, SyncedInOrder
  <2>3. hsize' \in Nat /\ dsize' \in Nat /\ hsize' <= hlive /\ dsize' <= dlive
    BY <1>0, <2>1, <2>2
  <2>4. InOrder(hsize', dsize')
    BY <1>0, <2>2, <2>3, InOrderShorter
  <2> QED
    BY <2>1, <2>2, <2>4 DEF SyncedInOrder, InOrder
<1>10. CASE FlushHeaders
  <2>1. /\ Open /\ HeadEnd = headOff
        /\ UNCHANGED <<hsize, dsize, dlive, dataOff>>
        /\ hlive' = IF headOff + Count > hlive THEN headOff + Count ELSE hlive
    BY <1>10, HeadersWritten DEF FlushHeaders, Open, Flushing
  <2>2. /\ hsize <= hlive /\ headOff <= hlive /\ hlive <= headOff + Count
        /\ dlive <= dataOff /\ dsize <= dataOff
        /\ InOrder(hsize, dsize) /\ InOrder(hlive, dlive)
    BY <1>0, <2>1 DEF SizesOpen, ClosingState, SyncedInOrder
  <2>3. hlive' = headOff + Count /\ hsize <= headOff + Count
    BY <1>0, <2>1, <2>2
  <2>4. ASSUME NEW i \in 1 .. hsize - 1, NEW j \in 1 .. hsize - 1, i < j,
               hdr'[j].off < dsize
        PROVE  hdr'[i].off < hdr'[j].off /\ hdr'[i].n < hdr'[j].n
    <3>1. i \in 1 .. headOff + Count - 1 /\ j \in 1 .. headOff + Count - 1
      BY <1>0, <2>3
    <3>2. hdr'[i] = hdr[i] /\ hdr'[j] = hdr[j]
      BY <1>0, <1>10, <2>2, <2>4, <3>1, FlushedBehind
    <3> QED
      BY <2>2, <2>4, <3>2 DEF InOrder
  <2>5. ASSUME NEW i \in 1 .. headOff + Count - 1,
               NEW j \in 1 .. headOff + Count - 1, i < j, hdr'[j].off < dlive
        PROVE  hdr'[i].off < hdr'[j].off /\ hdr'[i].n < hdr'[j].n
    <3>1. j < headOff /\ hdr'[i] = hdr[i] /\ hdr'[j] = hdr[j]
      BY <1>0, <1>10, <2>2, <2>5, FlushedBehind
    <3>2. i \in 1 .. hlive - 1 /\ j \in 1 .. hlive - 1
      BY <1>0, <2>2, <2>5, <3>1
    <3> QED
      BY <2>2, <2>5, <3>1, <3>2 DEF InOrder
  <2>6. InOrder(hsize, dsize)'
    BY <2>1, <2>4 DEF InOrder
  <2>7. PICK top : top = headOff + Count
    OBVIOUS
  <2>8. hlive' = top /\ dlive' = dlive
    BY <2>1, <2>3, <2>7
  <2>9. \A i, j \in 1 .. top - 1 : i < j /\ hdr'[j].off < dlive =>
          hdr'[i].off < hdr'[j].off /\ hdr'[i].n < hdr'[j].n
    BY <1>0, <2>5, <2>7
  <2>10. InOrder(hlive, dlive)'
    BY <2>8, <2>9 DEF InOrder
  <2> QED
    BY <2>6, <2>10 DEF SyncedInOrder
<1>11. CASE FlushData
  <2> DEFINE h == HeadEnd
  <2>1. /\ Open /\ h = headOff - Count /\ HeadEnd' = headOff /\ h \in Nat
        /\ h >= 1 /\ hdr' = hdr /\ dataOff <= dlive
        /\ \A i \in h .. headOff - 1 : hdr[i].off = dataOff + (i - h)
    BY <1>11, DataWritten
  <2>2. /\ UNCHANGED <<hsize, dsize, hlive>>
        /\ dlive' = IF dataOff + Count > dlive THEN dataOff + Count ELSE dlive
    BY <1>11 DEF FlushData
  <2>3. dlive = dataOff /\ h <= hlive /\ hlive <= headOff
    BY <1>0, <2>1 DEF SizesOpen
  <2>4. Told(h, dataOff) /\ InOrder(hsize, dsize) /\ InOrder(hlive, dlive)
    BY <2>1 DEF SyncedInOrder
  <2>5. Told(HeadEnd, dataOff)'
    BY <1>11, <2>4, ToldByFlush
  <2>6. ASSUME NEW i \in 1 .. hlive - 1, NEW j \in 1 .. hlive - 1, i < j
        PROVE  hdr[i].off < hdr[j].off /\ hdr[i].n < hdr[j].n
    <3>0. i \in 1 .. headOff - 1 /\ j \in 1 .. headOff - 1
      BY <1>0, <2>3
    <3>1. hdr[i].n < hdr[j].n
      BY <2>1, <2>5, <2>6, <3>0 DEF Told, Ordered
    <3>2. CASE j < h
      <4>1. j \in 1 .. h - 1
        BY <2>1, <3>2
      <4>2. hdr[j].off < dlive
        BY <2>3, <2>4, <4>1 DEF Told, Described
      <4> QED
        BY <2>4, <2>6, <4>2 DEF InOrder
    <3>3. CASE j >= h /\ i < h
      <4>1. i \in 1 .. h - 1 /\ j \in h .. headOff - 1
        BY <1>0, <2>1, <2>3, <3>3
      <4>2. hdr[i].off < dataOff /\ hdr[i].off \in Nat
            /\ hdr[j].off = dataOff + (j - h)
        BY <1>0, <2>1, <2>4, <4>1, HeaderFields DEF Told, Described
      <4> QED
        BY <1>0, <2>1, <3>1, <3>3, <4>2
    <3>4. CASE j >= h /\ i >= h
      <4>1. i \in h .. headOff - 1 /\ j \in h .. headOff - 1
        BY <1>0, <2>1, <2>3, <3>4
      <4>2. hdr[i].off = dataOff + (i - h) /\ hdr[j].off = dataOff + (j - h)
        BY <2>1, <4>1
      <4> QED
        BY <1>0, <2>1, <2>6, <3>1, <4>2
    <3> QED
      BY <2>1, <3>2, <3>3, <3>4
  <2>7. InOrder(hsize, dsize)'
    BY <2>1, <2>2, <2>4 DEF InOrder
  <2>8. InOrder(hlive, dlive)'
    BY <2>1, <2>2, <2>6 DEF InOrder
  <2> QED
    BY <2>7, <2>8 DEF SyncedInOrder
<1> QED
  BY <1>2, <1>3, <1>4, <1>5, <1>6, <1>7, <1>8, <1>9, <1>10, <1>11 DEF Next

\* What boot gives up of a file is behind the end FS_FixFile assigns, among the
\* frames it read again.
LEMMA RepairBound ==
  ASSUME TypeOK, SyncedInOrder, FixHead
  PROVE  Cardinality({i \in headInfo + 1 .. hsize - 1 :
           /\ i >= headInfo' /\ hdr[i].off < dsize
           /\ ChanOf(hdr[i].n) = ChanOf(hdr[headInfo].n)
           /\ Near(hdr[headInfo].n, hdr[i].n)}) <= MaxLost
<1> DEFINE s    == headInfo
           Lost == {i \in s + 1 .. hsize - 1 :
                      /\ i >= headInfo' /\ hdr[i].off < dsize
                      /\ ChanOf(hdr[i].n) = ChanOf(hdr[s].n)
                      /\ Near(hdr[s].n, hdr[i].n)}
<1>0. /\ s \in Nat /\ s >= 1 /\ hsize \in Nat /\ dsize \in Nat
      /\ hsize <= FileMax + 1 /\ MaxLost \in Nat /\ s < hsize
      /\ headInfo' = FixedEnd(s)
  BY Ranges, BoundsAssumption DEF FixHead, TypeOK
<1>1. ASSUME NEW i \in Lost
      PROVE  i \in SameChannel(s)
  <2>0. i \in s + 1 .. hsize - 1 /\ hdr[i].off < dsize
        /\ ChanOf(hdr[i].n) = ChanOf(hdr[s].n) /\ Near(hdr[s].n, hdr[i].n)
    OBVIOUS
  <2>1. ASSUME NEW j \in s .. hsize - 1
        PROVE  j \in 1 .. hsize - 1 /\ hdr[j].off \in Nat /\ hdr[j].n \in Nat
    BY <1>0, HeaderFields
  <2>2. i \in s .. hsize - 1 /\ s \in s .. hsize - 1
    BY <1>0, <2>0
  <2>3. ASSUME NEW j \in s .. i - 1
        PROVE  /\ j \in s .. hsize - 1
               /\ hdr[j].off < hdr[i].off /\ hdr[j].n < hdr[i].n
    BY <1>0, <2>0, <2>1, <2>2 DEF SyncedInOrder, InOrder
  <2>4. ASSUME NEW j \in s + 1 .. i
        PROVE  Near(hdr[s].n, hdr[j].n) /\ hdr[j].off <= dsize
    <3>1. CASE j = i
      BY <1>0, <2>0, <2>1, <2>2, <3>1
    <3>2. CASE j # i
      <4>1. j \in s .. i - 1 /\ j \in 1 .. hsize - 1 /\ s \in s .. i - 1
        BY <1>0, <2>0, <3>2
      <4>2. hdr[j].off < hdr[i].off /\ hdr[j].n < hdr[i].n /\ j \in s .. hsize - 1
        BY <2>3, <4>1
      <4>3. hdr[j].off <= dsize /\ hdr[j].off < dsize
        BY <1>0, <2>0, <2>1, <2>2, <4>2
      <4>4. hdr[s].n < hdr[j].n
        BY <1>0, <2>1, <2>2, <4>1, <4>3 DEF SyncedInOrder, InOrder
      <4>5. /\ hdr[s].n \in Nat /\ hdr[j].n \in Nat /\ hdr[i].n \in Nat
        BY <2>1, <2>2, <4>2
      <4>6. \A n \in gaps : n \in Nat
        BY DEF TypeOK, Frame
      <4>7. Near(hdr[s].n, hdr[j].n)
        BY <2>0, <4>2, <4>4, <4>5, <4>6 DEF Near
      <4> QED
        BY <4>3, <4>7
    <3> QED
      BY <3>1, <3>2
  <2> QED
    BY <2>0, <2>4 DEF SameChannel, Scanned
<1>2. Lost \subseteq Onward(s, FixedEnd(s))
  BY <1>0, <1>1 DEF Onward
<1>3. /\ FixedEnd(s) \in Nat
      /\ Cardinality(Onward(s, FixedEnd(s))) <= MaxLost
  BY <1>0, FixedEndKeeps
<1>4. /\ IsFiniteSet(Onward(s, FixedEnd(s)))
      /\ Cardinality(Onward(s, FixedEnd(s))) \in Nat
  BY <1>0, <1>3, TailSize
<1>5. /\ IsFiniteSet(Lost) /\ Cardinality(Lost) \in Nat
      /\ Cardinality(Lost) <= Cardinality(Onward(s, FixedEnd(s)))
  <2>1. PICK T : T = Onward(s, FixedEnd(s))
    OBVIOUS
  <2>2. Lost \in SUBSET T /\ IsFiniteSet(T)
    BY <1>2, <1>4, <2>1
  <2>3. IsFiniteSet(Lost) /\ Cardinality(Lost) <= Cardinality(T)
    <3> HIDE DEF Lost
    <3> QED
      BY <2>2, FS_Subset
  <2>4. Cardinality(Lost) \in Nat
    BY <2>3, FS_CardinalityType, Zenon
  <2> QED
    BY <2>1, <2>3, <2>4
<1> QED
  BY <1>0, <1>3, <1>4, <1>5

\* Sizes and order hold at first ...
LEMMA OInvInit ==
  ASSUME Init
  PROVE  OInv
<1>1. ~Open /\ ~Appendable
  BY DEF Init, Open, Flushing, Closing, Appendable
<1>2. InOrder(hsize, dsize)
  BY DEF Init, InOrder
<1> QED
  BY <1>1, <1>2 DEF OInv, SizesOpen, SizesAppend, SyncedInOrder

\* ... and after every step.
LEMMA OInvStep ==
  ASSUME DInv, OInv, [Next]_vars
  PROVE  OInv'
<1>1. /\ TypeOK /\ PlacesFit /\ FlushState /\ LastFrame /\ OpeningStates
      /\ ClosingState /\ AppendGood
      /\ Open /\ dataOff <= dlive => Told(HeadEnd, dataOff)
  BY DEF DInv, FramesGone, IndexDescribesData, FramesInOrder, Told
<1>2. SizesOpen /\ SizesAppend /\ SyncedInOrder
  BY DEF OInv
<1>3. SizesOpen'
  BY <1>1, <1>2, SizesOpenStep
<1>4. SizesAppend'
  BY <1>1, <1>2, SizesAppendStep
<1>5. SyncedInOrder'
  BY <1>1, <1>2, SyncedInOrderStep
<1> QED
  BY <1>3, <1>4, <1>5 DEF OInv

\* The sizes of the two files and the order of the headers within them are as
\* OInv says, through every sync and crash.
THEOREM OInvariance == Spec => []OInv
<1>1. Init => OInv
  BY OInvInit
<1>2. DInv /\ OInv /\ [Next]_vars => OInv'
  BY OInvStep
<1> QED
  BY <1>1, <1>2, DInvariance, PTL DEF Spec

\* FS_FixFile gives up at most MAX_LOST_FRAME frames of the first channel of
\* those both files have on the disk, whatever was lost in the crash.
THEOREM RepairLosesLittle == Spec => RepairLosesTail
<1>1. DInv /\ OInv /\ [Next]_vars =>
        [FixHead =>
           Cardinality({i \in headInfo + 1 .. hsize - 1 :
              /\ i >= headInfo' /\ hdr[i].off < dsize
              /\ ChanOf(hdr[i].n) = ChanOf(hdr[headInfo].n)
              /\ Near(hdr[headInfo].n, hdr[i].n)}) <= MaxLost]_vars
  BY RepairBound DEF DInv, OInv
<1> QED
  BY <1>1, DInvariance, OInvariance, PTL DEF Spec, RepairLosesTail
-----------------------------------------------------------------------------
(* What can be read after a crash, a close or a repair (KInv).             *)

\* Each step of an open, a sync and a close leaves its sizes.
LEMMA SyncStateStep ==
  ASSUME TypeOK, OpeningStates, ClosingState, SizesOpen, SyncState, [Next]_vars
  PROVE  SyncState'
<1> USE DEF SyncState, OpeningStates, disk, files, buffer, rest, Count
<1>0. /\ hlive \in Nat /\ dlive \in Nat /\ hsize \in Nat /\ dsize \in Nat
      /\ next \in Nat
  BY Ranges
<1>1. CASE UNCHANGED vars
  BY <1>1 DEF vars
<1>2. CASE OpenNew \/ TruncateData \/ MarkNew \/ WriteHead \/ MarkAppend
           \/ AppendOpened \/ TooShort \/ OpenFails
  BY <1>2 DEF OpenNew, TruncateData, MarkNew, WriteHead, MarkAppend,
              AppendOpened, TooShort, OpenFails
<1>3. CASE NextFile
  BY <1>3 DEF NextFile
<1>4. CASE \E jump, large \in BOOLEAN : Accept(jump, large)
  BY <1>4 DEF Accept
<1>5. CASE LoseFrame \/ FlushHeaders \/ FlushHeadersFail \/ FlushSeekFails
           \/ FlushDataFails
  BY <1>5 DEF LoseFrame, FlushHeaders, FlushHeadersFail, FlushSeekFails,
              FlushDataFails, FlushFails
<1>6. CASE FlushData
  <2>1. Count' = 0 /\ pc' \in {"syncData", "rec", "info"}
    BY <1>0, <1>6 DEF FlushData, FlushDone
  <2> QED
    BY <2>1
<1>7. CASE SyncData
  <2>1. dsize <= dlive
    BY <1>7 DEF SyncData, ClosingState, Open, Flushing
  <2> QED
    BY <1>0, <1>7, <2>1 DEF SyncData
<1>8. CASE SyncHead
  BY <1>8 DEF SyncHead, FlushDone, FlushFails
<1>9. CASE \E r \in {"STOPRECORD", "FILEWRITEOVER", "RECTIMEOVER"} :
             StartClose(r)
  BY <1>9 DEF StartClose
<1>10. CASE CloseInfo \/ CloseHead \/ CloseFails \/ SyncClosedData \/ Crash
  BY <1>10 DEF CloseInfo, CloseHead, CloseFails, SyncClosedData, Crash
<1>11. CASE SyncClosedHead
  <2>1. hsize <= hlive
    BY <1>11 DEF SyncClosedHead, SizesOpen, Open, Closing
  <2> QED
    BY <1>0, <1>11, <2>1 DEF SyncClosedHead
<1>12. CASE FixEmpty \/ FixNothing \/ FixHead \/ FixInfo \/ FixFails
           \/ NothingToFix
  BY <1>12 DEF FixEmpty, FixNothing, FixHead, FixInfo, FixFails, NothingToFix
<1> QED
  BY <1>1, <1>2, <1>3, <1>4, <1>5, <1>6, <1>7, <1>8, <1>9, <1>10, <1>11, <1>12
     DEF Next

\* A file is whole again only when it is made new.
LEMMA TornSteps ==
  ASSUME TypeOK, [Next]_vars, ~torn'
  PROVE  ~torn \/ MarkNew \/ NextFile
<1> USE DEF disk, files, buffer, rest
<1>1. CASE UNCHANGED vars
  BY <1>1 DEF vars
<1>2. CASE CloseInfo
  BY <1>2 DEF CloseInfo
<1>3. CASE Next /\ ~CloseInfo
  BY <1>3 DEF Next, OpenNew, TruncateData, WriteHead, MarkAppend, AppendOpened,
     TooShort, OpenFails, Accept, LoseFrame, FlushHeaders, FlushHeadersFail,
     FlushSeekFails, FlushData, FlushDataFails, SyncData, SyncHead, StartClose,
     CloseHead, CloseFails, SyncClosedHead, SyncClosedData, Crash, FixEmpty,
     FixNothing, FixHead, FixInfo, FixFails, NothingToFix
<1> QED
  BY <1>1, <1>2, <1>3

\* A file stays whole.
LEMMA WholeStep ==
  ASSUME TypeOK, OpeningStates, ClosingState, SizesOpen, SyncState, Whole,
         SyncedReadable, PlacesFit, [Next]_vars
  PROVE  Whole'
<1> USE DEF disk, files, buffer, rest
<1>0. /\ headOff \in Nat /\ dataOff \in Nat /\ hlive \in Nat /\ dlive \in Nat
      /\ hsize \in Nat /\ dsize \in Nat /\ Count \in Nat /\ ulOffSet \in Nat
  BY Ranges
<1>1. SUFFICES ASSUME ~torn'
      PROVE  /\ Open' => dataOff' <= dlive'
             /\ Open' /\ pc' # "closeData" => hsize' <= HeadEnd'
             /\ pc' \in {"headInfo", "closeHead", "closeData"} => hlive' <= headOff'
             /\ Appendable' => hsize' <= ulOffSet'
  BY DEF Whole
<1>2. CASE MarkNew \/ NextFile
  BY <1>2 DEF MarkNew, NextFile, Open, Flushing, Closing, Appendable
<1>3. ASSUME ~torn
      PROVE  Appendable' => hsize' <= ulOffSet'
  <2>1. SUFFICES ASSUME Appendable' PROVE hsize' <= ulOffSet'
    OBVIOUS
  <2>2. CASE Appendable /\ UNCHANGED <<hsize, ulOffSet>>
    BY <1>3, <2>2 DEF Whole
  <2>3. CASE CloseFails /\ ulOffSet = headOff
    <3>1. pc = "headInfo" /\ UNCHANGED <<hsize, ulOffSet>>
      BY <2>3 DEF CloseFails
    <3>2. hsize <= headOff
      BY <1>3, <3>1 DEF Whole, Open, Closing, HeadEnd
    <3> QED
      BY <2>3, <3>1, <3>2
  <2>4. CASE SyncClosedData /\ ulOffSet = headOff
    <3>1. pc = "closeData" /\ UNCHANGED <<hsize, ulOffSet>>
      BY <2>4 DEF SyncClosedData
    <3>2. hsize <= headOff
      BY <1>3, <3>1 DEF Whole, SyncState
    <3> QED
      BY <2>4, <3>1, <3>2
  <2> QED
    BY <2>1, <2>2, <2>3, <2>4, AppendSteps
<1>4. ASSUME ~torn, pc' \in {"headInfo", "closeHead", "closeData"}
      PROVE  hlive' <= headOff'
  <2>1. CASE CloseInfo
    <3>1. torn' = (torn \/ hlive > headOff) /\ UNCHANGED <<hlive, headOff>>
      BY <2>1 DEF CloseInfo
    <3>2. ~(hlive > headOff)
      BY <1>1, <3>1, Zenon
    <3> QED
      BY <1>0, <3>1, <3>2
  <2>2. CASE pc \in {"headInfo", "closeHead", "closeData"}
             /\ UNCHANGED <<hlive, headOff>>
    BY <1>4, <2>2 DEF Whole
  <2>3. CASE UNCHANGED vars
    BY <1>4, <2>2, <2>3 DEF vars
  <2>4. CASE CloseHead \/ SyncClosedHead
    BY <2>2, <2>4 DEF CloseHead, SyncClosedHead
  <2>5. CASE Next /\ ~CloseInfo /\ ~CloseHead /\ ~SyncClosedHead
    <3>1. CASE OpenNew \/ TruncateData \/ MarkNew \/ WriteHead \/ MarkAppend
           \/ AppendOpened \/ TooShort \/ OpenFails \/ NextFile \/ LoseFrame
           \/ (\E jump, large \in BOOLEAN : Accept(jump, large))
      BY <1>4, <3>1 DEF OpenNew, TruncateData, MarkNew, WriteHead, MarkAppend,
         AppendOpened, TooShort, OpenFails, NextFile, LoseFrame, Accept
    <3>2. CASE FlushHeaders \/ FlushHeadersFail \/ FlushSeekFails
           \/ FlushData \/ FlushDataFails \/ SyncData \/ SyncHead
           \/ (\E r \in {"STOPRECORD", "FILEWRITEOVER", "RECTIMEOVER"} :
                 StartClose(r))
      BY <1>4, <3>2 DEF FlushHeaders, FlushHeadersFail, FlushSeekFails,
         FlushData, FlushDataFails, SyncData, SyncHead, StartClose, FlushFails,
         FlushDone
    <3>3. CASE CloseFails \/ SyncClosedData \/ Crash \/ FixEmpty \/ FixNothing
           \/ FixHead \/ FixInfo \/ FixFails \/ NothingToFix
      BY <1>4, <3>3 DEF CloseFails, SyncClosedData, Crash, FixEmpty, FixNothing,
         FixHead, FixInfo, FixFails, NothingToFix
    <3> QED
      BY <2>5, <3>1, <3>2, <3>3 DEF Next
  <2> QED
    BY <2>1, <2>3, <2>4, <2>5
<1>5. ASSUME ~torn, Open'
      PROVE  dataOff' <= dlive' /\ (pc' # "closeData" => hsize' <= HeadEnd')
  <2>0. Open => /\ dataOff <= dlive
                /\ pc # "closeData" => hsize <= HeadEnd
                /\ hsize <= hlive /\ hlive <= HeadEnd + Count
    BY <1>5 DEF Whole, SizesOpen
  <2>1. CASE StillOpen
    <3>1. /\ Open /\ HeadEnd' = HeadEnd /\ dataOff' = dataOff /\ dlive' = dlive
      BY <2>1 DEF StillOpen
    <3>2. ASSUME pc' # "closeData"
          PROVE  pc # "closeData" /\ (hsize' = hsize \/ (hsize' = hlive /\ Count = 0))
      <4>1. CASE UNCHANGED vars
        BY <3>2, <4>1 DEF vars
      <4>2. CASE SyncHead
        BY <4>2 DEF SyncHead, SyncState
      <4>3. CASE SyncClosedHead \/ SyncClosedData
        BY <1>5, <3>2, <4>3 DEF SyncClosedHead, SyncClosedData, Open, Flushing,
                                Closing
      <4>4. CASE Next /\ ~SyncHead /\ ~SyncClosedHead /\ ~SyncClosedData
        <5>1. hsize' = hsize \/ ~Open
          BY <4>4 DEF Next, OpenNew, TruncateData, MarkNew, WriteHead,
             MarkAppend, AppendOpened, TooShort, OpenFails, NextFile, Accept,
             LoseFrame, FlushHeaders, FlushHeadersFail, FlushSeekFails,
             FlushData, FlushDataFails, SyncData, StartClose, CloseInfo,
             CloseHead, CloseFails, Crash, FixEmpty, FixNothing, FixHead,
             FixInfo, FixFails, NothingToFix, Open, Flushing, Closing
        <5>2. pc # "closeData"
          <6>1. SUFFICES ASSUME pc = "closeData" PROVE FALSE
            OBVIOUS
          <6>2. Crash
            BY <4>4, <6>1 DEF Next, OpenNew, TruncateData, MarkNew, WriteHead,
             MarkAppend, AppendOpened, TooShort, OpenFails, NextFile, Accept,
             LoseFrame, FlushHeaders, FlushHeadersFail, FlushSeekFails,
             FlushData, FlushDataFails, SyncData, StartClose, CloseInfo,
             CloseHead, CloseFails, FixEmpty, FixNothing, FixHead,
             FixInfo, FixFails, NothingToFix
          <6> QED
            BY <1>5, <6>2 DEF Crash, Open, Flushing, Closing
        <5> QED
          BY <3>1, <5>1, <5>2
      <4> QED
        BY <4>1, <4>2, <4>3, <4>4
    <3>3. HeadEnd \in Int
      BY <1>0 DEF HeadEnd
    <3> QED
      BY <1>0, <2>0, <3>1, <3>2, <3>3
  <2>2. CASE FlushHeaders
    <3>1. /\ Open /\ pc # "closeData" /\ HeadEnd' = HeadEnd
          /\ UNCHANGED <<dataOff, dlive, hsize>>
      BY <2>2, HeadersWritten DEF FlushHeaders, Open, Flushing
    <3> QED
      BY <2>0, <3>1
  <2>3. CASE FlushData
    <3>1. /\ Open /\ pc # "closeData" /\ HeadEnd = headOff - Count
          /\ HeadEnd' = headOff /\ hsize' = hsize
          /\ dataOff' = dataOff + Count
          /\ dlive' = IF dataOff + Count > dlive THEN dataOff + Count ELSE dlive
      BY <2>3 DEF FlushData, FlushDone, Open, Flushing, HeadEnd
    <3> QED
      BY <1>0, <2>0, <3>1
  <2>4. CASE FlushDataFails
    <3>1. /\ Open /\ pc # "closeData" /\ HeadEnd = headOff - Count
          /\ HeadEnd' = headOff - Count /\ UNCHANGED <<dataOff, dlive, hsize>>
      BY <2>4 DEF FlushDataFails, FlushFails, Open, Flushing, HeadEnd
    <3> QED
      BY <2>0, <3>1
  <2>5. CASE FlushSeekFails
    <3>1. Open /\ dataOff > dlive
      BY <2>5 DEF FlushSeekFails, Open, Flushing
    <3> QED
      BY <1>0, <2>0, <3>1
  <2>6. CASE AppendOpened
    <3>1. /\ pc = "append" /\ ulOffSet >= 3 /\ ulOffSet <= hsize
          /\ headOff' = ulOffSet /\ dataOff' = hdr[ulOffSet - 1].off + 1
          /\ pc' = "rec" /\ UNCHANGED <<hsize, dlive>>
      BY <2>6 DEF AppendOpened
    <3>2. hsize <= ulOffSet /\ Readable(hsize) /\ dlive = dsize
      BY <1>5, <3>1 DEF Whole, Appendable, SyncedReadable, OpeningStates
    <3>3. ulOffSet - 1 \in 1 .. hsize - 1 /\ hsize <= FileMax + 1
      BY <1>0, <3>1 DEF TypeOK
    <3>4. hdr[ulOffSet - 1].off < dsize /\ hdr[ulOffSet - 1].off \in Nat
      BY <1>0, <3>2, <3>3, HeaderFields DEF Readable
    <3> QED
      BY <1>0, <3>1, <3>2, <3>4 DEF HeadEnd
  <2>7. CASE WriteHead
    BY <2>7 DEF WriteHead, OpeningStates, HeadEnd
  <2> QED
    BY <1>5, <2>1, <2>2, <2>3, <2>4, <2>5, <2>6, <2>7, OpenSteps
<1> QED
  BY <1>1, <1>2, <1>3, <1>4, <1>5, TornSteps

\* Most steps take nothing from the two files.
LEMMA FileSteps ==
  ASSUME TypeOK, [Next]_vars
  PROVE  \/ /\ UNCHANGED <<hdr, data>>
            /\ hsize <= hsize' /\ dsize <= dsize'
         \/ FlushHeaders \/ FlushData \/ OpenNew \/ TruncateData \/ NextFile
         \/ WriteHead
<1> USE DEF disk, files, buffer, rest
<1>0. hlive \in Nat /\ dlive \in Nat /\ hsize \in Nat /\ dsize \in Nat
  BY Ranges
<1>1. CASE UNCHANGED vars
  BY <1>0, <1>1 DEF vars
<1>2. CASE SyncData \/ SyncHead \/ SyncClosedHead \/ SyncClosedData
  BY <1>0, <1>2 DEF SyncData, SyncHead, SyncClosedHead, SyncClosedData
<1>3. ASSUME Next, ~(SyncData \/ SyncHead \/ SyncClosedHead \/ SyncClosedData),
             ~(FlushHeaders \/ FlushData \/ OpenNew \/ TruncateData \/ NextFile
               \/ WriteHead)
      PROVE  UNCHANGED <<hdr, data, hsize, dsize>>
  BY <1>3 DEF Next, MarkNew, MarkAppend, AppendOpened, TooShort, OpenFails,
     Accept, LoseFrame, FlushHeadersFail, FlushSeekFails, FlushDataFails,
     StartClose, CloseInfo, CloseHead, CloseFails, Crash, FixEmpty, FixNothing,
     FixHead, FixInfo, FixFails, NothingToFix
<1> QED
  BY <1>0, <1>1, <1>2, <1>3

\* What can be read of a file that is whole stays readable while it is recorded,
\* appended to, closed, cut and repaired.
LEMMA ReadableKept ==
  ASSUME TypeOK, PlacesFit, FlushState, ClosingState, SizesOpen, SyncState,
         Whole, ~torn, [Next]_vars, ~OpenNew, ~TruncateData, ~NextFile,
         NEW e \in Nat, e <= FileMax + 1, Readable(e)
  PROVE  Readable(e)'
<1>0. /\ headOff \in Nat /\ dataOff \in Nat /\ hlive \in Nat /\ dlive \in Nat
      /\ hsize \in Nat /\ dsize \in Nat /\ Count \in Nat
  BY Ranges
<1>1. ASSUME NEW i \in 1 .. e - 1
      PROVE  /\ i < hsize /\ hdr[i].off < dsize /\ data[hdr[i].off] = hdr[i].n
             /\ i \in Slot /\ hdr[i].off \in Nat /\ hdr[i].off \in Place
  BY <1>1, HeaderFields DEF Readable
<1>2. CASE UNCHANGED <<hdr, data>> /\ hsize <= hsize' /\ dsize <= dsize'
  <2>1. hsize' \in Nat /\ dsize' \in Nat
    <3>1. PlacesFit /\ TypeOK /\ [Next]_vars
      OBVIOUS
    <3>2. TypeOK'
      BY <3>1, TypeStep
    <3> QED
      BY <3>2, BoundsAssumption DEF TypeOK
  <2>2. ASSUME NEW i \in 1 .. e - 1
        PROVE  i < hsize' /\ hdr'[i].off < dsize' /\ data'[hdr'[i].off] = hdr'[i].n
    <3>1. i \in Nat
      OBVIOUS
    <3> QED
      BY <1>0, <1>1, <1>2, <2>1, <3>1
  <2> QED
    BY <2>2 DEF Readable
<1>3. CASE FlushHeaders
  <2>1. hsize <= headOff /\ UNCHANGED <<data, hsize, dsize>>
    BY <1>3 DEF FlushHeaders, Whole, Open, Flushing, HeadEnd
  <2>2. ASSUME NEW i \in 1 .. e - 1
        PROVE  hdr'[i] = hdr[i]
    <3>1. i \in 1 .. headOff - 1
      BY <1>0, <1>1, <2>1
    <3> QED
      BY <1>3, <3>1, HeadersWritten
  <2> QED
    BY <1>1, <2>1, <2>2 DEF Readable
<1>4. CASE FlushData
  <2>1. dsize <= dataOff /\ UNCHANGED <<hdr, hsize, dsize>>
    BY <1>0, <1>4 DEF FlushData, ClosingState, SizesOpen, Open, Flushing
  <2>2. ASSUME NEW i \in 1 .. e - 1
        PROVE  data'[hdr[i].off] = data[hdr[i].off]
    <3>1. hdr[i].off \notin dataOff .. dataOff + Count - 1
      BY <1>0, <1>1, <2>1
    <3> QED
      BY <1>1, <1>4, <3>1, DataWritten
  <2> QED
    BY <1>1, <2>1, <2>2 DEF Readable
<1>5. CASE WriteHead
  <2>1. hsize = 0 /\ hsize' = 1 /\ UNCHANGED <<hdr, data, dsize>>
    BY <1>5 DEF WriteHead, SyncState
  <2>2. \A i \in 1 .. e - 1 : FALSE
    BY <1>1, <2>1
  <2> QED
    BY <2>2 DEF Readable
<1> QED
  BY <1>2, <1>3, <1>4, <1>5, FileSteps

\* A closed file that is whole can be read to its end.
LEMMA ClosedReadable ==
  ASSUME TypeOK, ClosingState, SizesOpen, SyncState, Whole, ~torn, SyncClosedData,
         IndexDescribesData
  PROVE  Readable(ulOffSet)' /\ Readable(hsize)'
<1>0. /\ headOff \in Nat /\ dataOff \in Nat /\ hlive \in Nat /\ dlive \in Nat
      /\ hsize \in Nat /\ dsize \in Nat /\ hlive <= FileMax + 1
  BY Ranges DEF TypeOK
<1>1. /\ pc = "closeData" /\ Open /\ HeadEnd = headOff
      /\ UNCHANGED <<headOff, ulOffSet, hsize, hdr, data>>
      /\ dsize' = IF dlive > dsize THEN dlive ELSE dsize
  BY DEF SyncClosedData, Open, Closing, HeadEnd, files
<1>2. /\ hlive = headOff /\ hsize = hlive /\ headOff = ulOffSet
      /\ dataOff <= dlive /\ dlive = dsize'
  BY <1>0, <1>1 DEF Whole, SyncState, SizesOpen, ClosingState
<1>3. Described(headOff, dataOff)
  BY <1>1, <1>2 DEF IndexDescribesData
<1>4. ASSUME NEW i \in 1 .. headOff - 1
      PROVE  i < hsize /\ hdr[i].off < dlive /\ data[hdr[i].off] = hdr[i].n
  <2>1. hdr[i].off < dataOff /\ data[hdr[i].off] = hdr[i].n
    BY <1>3 DEF Described
  <2>2. hdr[i].off \in Nat
    BY <1>0, <1>2, HeaderFields
  <2> QED
    BY <1>0, <1>2, <2>1, <2>2
<1>5. \A i \in 1 .. ulOffSet - 1 :
        i < hsize /\ hdr[i].off < dlive /\ data[hdr[i].off] = hdr[i].n
  BY <1>2, <1>4
<1>6. \A i \in 1 .. hsize - 1 :
        i < hsize /\ hdr[i].off < dlive /\ data[hdr[i].off] = hdr[i].n
  BY <1>2, <1>4
<1>7. Readable(ulOffSet)'
  BY <1>1, <1>2, <1>5 DEF Readable
<1>8. Readable(hsize)'
  BY <1>1, <1>2, <1>6 DEF Readable
<1> QED
  BY <1>7, <1>8

\* A file whose headers on the disk can be read.
Sound == (Open /\ pc # "closeData") \/ states = "WRITING" \/ Appendable

\* A step leads to such a file from one, by making one, or by a close.
LEMMA SoundSteps ==
  ASSUME TypeOK, OpeningStates, ClosingState, SyncState, [Next]_vars, Sound',
         ~SyncClosedData, ~MarkNew, ~WriteHead
  PROVE  Sound /\ ~OpenNew /\ ~TruncateData /\ ~NextFile /\ ~SyncClosedHead
<1> USE DEF Sound, Open, Flushing, Closing, Appendable, OpeningStates,
            ClosingState, SyncState, disk, files, buffer, rest
<1>1. CASE UNCHANGED vars
  BY <1>1 DEF vars, OpenNew, TruncateData, NextFile, SyncClosedHead
<1>2. CASE OpenNew \/ TruncateData \/ NextFile \/ SyncClosedHead
  BY <1>2 DEF OpenNew, TruncateData, NextFile, SyncClosedHead
<1>3. CASE ~OpenNew /\ ~TruncateData /\ ~NextFile /\ ~SyncClosedHead
  <2>1. CASE MarkAppend \/ AppendOpened \/ TooShort \/ OpenFails
    BY <1>3, <2>1 DEF MarkAppend, AppendOpened, TooShort, OpenFails
  <2>2. CASE (\E jump, large \in BOOLEAN : Accept(jump, large)) \/ LoseFrame
             \/ FlushHeaders \/ FlushHeadersFail \/ FlushSeekFails \/ FlushData
             \/ FlushDataFails \/ SyncData \/ SyncHead
             \/ (\E r \in {"STOPRECORD", "FILEWRITEOVER", "RECTIMEOVER"} :
                   StartClose(r))
    BY <1>3, <2>2 DEF Accept, LoseFrame, FlushHeaders, FlushHeadersFail,
       FlushSeekFails, FlushData, FlushDataFails, SyncData, SyncHead, StartClose
  <2>3. CASE CloseInfo \/ CloseHead \/ CloseFails \/ Crash
    BY <1>3, <2>3 DEF CloseInfo, CloseHead, CloseFails, Crash
  <2>4. CASE FixEmpty \/ FixNothing \/ FixHead \/ FixInfo \/ FixFails
             \/ NothingToFix
    BY <1>3, <2>4 DEF FixEmpty, FixNothing, FixHead, FixInfo, FixFails,
                      NothingToFix
  <2>5. CASE Next
    BY <1>3, <2>1, <2>2, <2>3, <2>4, <2>5 DEF Next
  <2> QED
    BY <1>1, <1>3, <2>5
<1> QED
  BY <1>2, <1>3

\* All the header file holds on the disk stays readable.
LEMMA SyncedReadableStep ==
  ASSUME TypeOK, PlacesFit, FlushState, OpeningStates, ClosingState, SizesOpen,
         SyncState, Whole, SyncedReadable, IndexDescribesData, [Next]_vars
  PROVE  SyncedReadable'
<1>0. /\ hlive \in Nat /\ dlive \in Nat /\ hsize \in Nat /\ dsize \in Nat
      /\ dataOff \in Nat /\ hsize <= FileMax + 1 /\ hlive <= FileMax + 1
  BY Ranges DEF TypeOK
<1>1. SUFFICES ASSUME ~torn', Sound'
               PROVE  Readable(hsize)'
  BY DEF SyncedReadable, Sound
<1>2. CASE MarkNew \/ WriteHead \/ NextFile
  <2>1. hsize' \in {0, 1}
    BY <1>2 DEF MarkNew, WriteHead, NextFile, SyncState
  <2> QED
    BY <2>1 DEF Readable
<1>3. CASE SyncClosedData
  <2>1. ~torn
    BY <1>1, <1>3 DEF SyncClosedData
  <2> QED
    BY <1>3, <2>1, ClosedReadable
<1>4. CASE ~MarkNew /\ ~WriteHead /\ ~NextFile /\ ~SyncClosedData
  <2>1. ~torn
    BY <1>1, <1>4, TornSteps
  <2>2. Sound /\ ~OpenNew /\ ~TruncateData /\ ~NextFile /\ ~SyncClosedHead
    BY <1>1, <1>4, SoundSteps
  <2>3. Readable(hsize)
    BY <2>1, <2>2 DEF SyncedReadable, Sound
  <2>4. PICK e \in Nat : e = hsize
    BY <1>0
  <2>5. Readable(e)'
    BY <1>0, <2>1, <2>2, <2>3, <2>4, ReadableKept
  <2>6. CASE hsize' = hsize
    BY <2>4, <2>5, <2>6 DEF Readable
  <2>7. CASE SyncHead /\ hsize' = hlive
    <3>1. /\ pc = "syncHead" /\ Open /\ HeadEnd = headOff
          /\ UNCHANGED <<hdr, data, dsize>>
      BY <2>7 DEF SyncHead, Open, Flushing, HeadEnd
    <3>2. Count = 0 /\ dsize = dlive
      BY <3>1 DEF SyncState
    <3>3. hlive <= headOff /\ dataOff <= dlive /\ headOff \in Nat
      <4>1. hlive <= headOff + Count /\ dataOff <= dlive /\ headOff \in Nat
        BY <2>1, <3>1, Ranges DEF SizesOpen, Whole
      <4> QED
        BY <1>0, <3>2, <4>1
    <3>4. Described(headOff, dataOff)
      BY <3>1, <3>3 DEF IndexDescribesData
    <3>5. ASSUME NEW i \in 1 .. hlive - 1
          PROVE  i < hlive /\ hdr[i].off < dsize /\ data[hdr[i].off] = hdr[i].n
      <4>1. i \in 1 .. headOff - 1 /\ i < hlive
        BY <1>0, <3>3
      <4>2. hdr[i].off < dataOff /\ data[hdr[i].off] = hdr[i].n
        BY <3>4, <4>1 DEF Described
      <4>3. hdr[i].off \in Nat
        BY <1>0, HeaderFields
      <4> QED
        BY <1>0, <3>2, <3>3, <4>1, <4>2, <4>3
    <3> QED
      BY <2>7, <3>1, <3>5 DEF Readable
  <2>8. hsize' = hsize \/ (SyncHead /\ hsize' = hlive)
    <3>1. CASE SyncHead
      BY <3>1 DEF SyncHead
    <3>2. CASE UNCHANGED vars
      BY <3>2 DEF vars, disk
    <3>3. CASE Next /\ ~SyncHead
      BY <1>4, <2>2, <3>3 DEF Next, MarkAppend, AppendOpened, TooShort,
         OpenFails, Accept, LoseFrame, FlushHeaders, FlushHeadersFail,
         FlushSeekFails, FlushData, FlushDataFails, SyncData, StartClose,
         CloseInfo, CloseHead, CloseFails, Crash, FixEmpty, FixNothing,
         FixHead, FixInfo, FixFails, NothingToFix, disk
    <3> QED
      BY <3>1, <3>2, <3>3
  <2> QED
    BY <2>6, <2>7, <2>8
<1> QED
  BY <1>2, <1>3, <1>4

\* The end of a file is as it was, unless the file is made new, closed or fixed.
LEMMA EndSteps ==
  ASSUME TypeOK, OpeningStates, [Next]_vars,
         states' \in {"WRITING", "WRITEOVER"}, ended' # "closing"
  PROVE  \/ /\ states \in {"WRITING", "WRITEOVER"} /\ ended # "closing"
            /\ ulOffSet' = ulOffSet
            /\ ~OpenNew /\ ~TruncateData /\ ~NextFile
         \/ MarkNew \/ SyncClosedData \/ FixInfo
<1> USE DEF OpeningStates, disk, files, buffer, rest
<1>1. CASE UNCHANGED vars
  BY <1>1 DEF vars, OpenNew, TruncateData, NextFile
<1>2. CASE OpenNew \/ TruncateData \/ NextFile
  BY <1>2 DEF OpenNew, TruncateData, NextFile
<1>3. CASE Next /\ ~OpenNew /\ ~TruncateData /\ ~NextFile
  <2>1. CASE MarkAppend \/ AppendOpened \/ TooShort \/ OpenFails \/ WriteHead
    BY <1>3, <2>1 DEF MarkAppend, AppendOpened, TooShort, OpenFails, WriteHead
  <2>2. CASE (\E jump, large \in BOOLEAN : Accept(jump, large)) \/ LoseFrame
             \/ FlushHeaders \/ FlushHeadersFail \/ FlushSeekFails \/ FlushData
             \/ FlushDataFails \/ SyncData \/ SyncHead
             \/ (\E r \in {"STOPRECORD", "FILEWRITEOVER", "RECTIMEOVER"} :
                   StartClose(r))
    BY <1>3, <2>2 DEF Accept, LoseFrame, FlushHeaders, FlushHeadersFail,
       FlushSeekFails, FlushData, FlushDataFails, SyncData, SyncHead, StartClose
  <2>3. CASE CloseInfo \/ CloseHead \/ CloseFails \/ SyncClosedHead \/ Crash
    BY <1>3, <2>3 DEF CloseInfo, CloseHead, CloseFails, SyncClosedHead, Crash
  <2>4. CASE FixEmpty \/ FixNothing \/ FixHead \/ FixFails \/ NothingToFix
    BY <1>3, <2>4 DEF FixEmpty, FixNothing, FixHead, FixFails, NothingToFix
  <2> QED
    BY <1>3, <2>1, <2>2, <2>3, <2>4 DEF Next
<1> QED
  BY <1>1, <1>2, <1>3

\* What was finished stays readable to its end, and what repair makes is.
LEMMA FinishedReadableStep ==
  ASSUME TypeOK, PlacesFit, FlushState, OpeningStates, ClosingState, SizesOpen,
         SyncState, Whole, SyncedReadable, FinishedReadable, IndexDescribesData,
         [Next]_vars
  PROVE  FinishedReadable'
<1>0. /\ hsize \in Nat /\ hsize <= FileMax + 1
      /\ ulOffSet \in Nat /\ ulOffSet <= FileMax + 1
      /\ headInfo \in Nat /\ headInfo <= FileMax + 1
  BY Ranges DEF TypeOK
<1>1. ASSUME ~torn', states' \in {"WRITING", "WRITEOVER"}, ended' # "closing"
      PROVE  Readable(ulOffSet)'
  <2>1. CASE MarkNew
    BY <2>1 DEF MarkNew, Readable
  <2>2. CASE SyncClosedData
    <3>1. ~torn
      BY <1>1, <2>2 DEF SyncClosedData
    <3> QED
      BY <2>2, <3>1, ClosedReadable
  <2>3. CASE FixInfo
    <3>1. pc = "fixed" /\ ~torn /\ ulOffSet' = headInfo
          /\ UNCHANGED <<hdr, data, hsize, dsize>>
      BY <1>1, <2>3 DEF FixInfo
    <3>2. Readable(headInfo)
      BY <3>1 DEF FinishedReadable
    <3> QED
      BY <3>1, <3>2 DEF Readable
  <2>4. CASE /\ states \in {"WRITING", "WRITEOVER"} /\ ended # "closing"
             /\ ulOffSet' = ulOffSet
             /\ ~OpenNew /\ ~TruncateData /\ ~NextFile /\ ~MarkNew
    <3>1. ~torn
      BY <1>1, <2>4, TornSteps
    <3>2. Readable(ulOffSet)
      BY <2>4, <3>1 DEF FinishedReadable
    <3>3. PICK e \in Nat : e = ulOffSet
      BY <1>0
    <3>4. Readable(e)'
      BY <1>0, <2>4, <3>1, <3>2, <3>3, ReadableKept
    <3> QED
      BY <2>4, <3>3, <3>4 DEF Readable
  <2> QED
    BY <1>1, <2>1, <2>2, <2>3, <2>4, EndSteps
<1>2. ASSUME ~torn', pc' = "fixed"
      PROVE  states' = "WRITING" /\ Readable(headInfo)'
  <2>1. CASE FixHead
    <3>1. /\ states = "WRITING" /\ states' = states /\ headInfo < hsize
          /\ headInfo' = FixedEnd(headInfo) /\ ~torn
          /\ UNCHANGED <<hdr, data, hsize, dsize>>
      BY <1>2, <2>1 DEF FixHead, rest
    <3>2. Readable(hsize)
      BY <3>1 DEF SyncedReadable
    <3>3. headInfo' \in headInfo + 1 .. hsize
      BY <1>0, <3>1, FixedRange
    <3>4. PICK e \in Nat : e = headInfo' /\ e <= hsize
      BY <1>0, <3>3
    <3>5. \A i \in 1 .. e - 1 : i \in 1 .. hsize - 1
      <4>1. e <= hsize
        BY <3>4
      <4> QED
        BY <1>0, <4>1
    <3>6. Readable(e)'
      BY <3>1, <3>2, <3>5 DEF Readable
    <3>7. Readable(headInfo)'
      BY <3>4, <3>6, Zenon DEF Readable
    <3> QED
      BY <3>1, <3>7
  <2>2. CASE pc = "fixed" /\ UNCHANGED <<states, hdr, data, hsize, dsize, headInfo, torn>>
    BY <1>2, <2>2 DEF FinishedReadable, Readable
  <2>3. FixHead \/ UNCHANGED vars
    <3> USE DEF disk, files, buffer, rest
    <3>1. CASE OpenNew \/ TruncateData \/ MarkNew \/ WriteHead \/ MarkAppend
           \/ AppendOpened \/ TooShort \/ OpenFails \/ NextFile \/ LoseFrame
           \/ (\E jump, large \in BOOLEAN : Accept(jump, large))
      BY <1>2, <3>1 DEF OpenNew, TruncateData, MarkNew, WriteHead, MarkAppend,
         AppendOpened, TooShort, OpenFails, NextFile, LoseFrame, Accept
    <3>2. CASE FlushHeaders \/ FlushHeadersFail \/ FlushSeekFails
           \/ FlushData \/ FlushDataFails \/ SyncData \/ SyncHead
           \/ (\E r \in {"STOPRECORD", "FILEWRITEOVER", "RECTIMEOVER"} :
                 StartClose(r))
      BY <1>2, <3>2 DEF FlushHeaders, FlushHeadersFail, FlushSeekFails,
         FlushData, FlushDataFails, SyncData, SyncHead, StartClose, FlushFails,
         FlushDone
    <3>3. CASE CloseInfo \/ CloseHead \/ CloseFails \/ SyncClosedHead
           \/ SyncClosedData \/ Crash \/ FixEmpty \/ FixNothing \/ FixInfo
           \/ FixFails \/ NothingToFix
      BY <1>2, <3>3 DEF CloseInfo, CloseHead, CloseFails, SyncClosedHead,
         SyncClosedData, Crash, FixEmpty, FixNothing, FixInfo, FixFails,
         NothingToFix
    <3> QED
      BY <3>1, <3>2, <3>3 DEF Next
  <2> QED
    BY <1>2, <2>1, <2>2, <2>3 DEF vars, disk, rest
<1> QED
  BY <1>1, <1>2 DEF FinishedReadable

\* What is readable holds at first ...
LEMMA KInvInit ==
  ASSUME Init
  PROVE  KInv
<1>1. ~Open /\ ~Appendable /\ SyncState
  BY DEF Init, Open, Flushing, Closing, Appendable, SyncState
<1>2. Whole
  BY <1>1 DEF Whole, Init
<1>3. SyncedReadable /\ FinishedReadable
  BY <1>1 DEF SyncedReadable, FinishedReadable, Init
<1> QED
  BY <1>1, <1>2, <1>3 DEF KInv

\* ... and after every step.
LEMMA KInvStep ==
  ASSUME DInv, OInv, KInv, [Next]_vars
  PROVE  KInv'
<1>1. /\ TypeOK /\ PlacesFit /\ FlushState /\ OpeningStates
      /\ ClosingState /\ IndexDescribesData /\ SizesOpen
      /\ SyncState /\ Whole /\ SyncedReadable /\ FinishedReadable
  BY DEF DInv, OInv, KInv
<1>2. SyncState'
  BY <1>1, SyncStateStep
<1>3. Whole'
  BY <1>1, WholeStep
<1>4. SyncedReadable'
  BY <1>1, SyncedReadableStep
<1>5. FinishedReadable'
  BY <1>1, FinishedReadableStep
<1> QED
  BY <1>2, <1>3, <1>4, <1>5 DEF KInv

\* What the two files hold on the disk is readable as KInv says, through every
\* sync, close, crash and repair.
THEOREM KInvariance == Spec => []KInv
<1>1. Init => KInv
  BY KInvInit
<1>2. DInv /\ OInv /\ KInv /\ [Next]_vars => KInv'
  BY KInvStep
<1> QED
  BY <1>1, <1>2, DInvariance, OInvariance, PTL DEF Spec

\* A finished file can be read to its end once its close or its repair is
\* through, unless a close left headers past the end it recorded.
THEOREM FinishedStaysReadable == Spec => []KeptReadable
<1>1. KInv => KeptReadable
  BY DEF KInv, FinishedReadable, KeptReadable
<1> QED
  BY <1>1, KInvariance, PTL
=============================================================================
