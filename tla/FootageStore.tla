---------------------------- MODULE FootageStore ----------------------------
(***************************************************************************)
(* What the recording index promises, without cursors, partitions, players *)
(* or crashes: a set of files, at most one of which is being recorded.     *)
(* Finished footage is kept until the whole store has been used once and   *)
(* its space is needed; a recording that is cut off ends up kept, free or  *)
(* bad, never half way.  RecordFiles implements it.                        *)
(***************************************************************************)
CONSTANT Files


VARIABLES store,     \* each file is free, open, kept or bad
          current,   \* the set of the file being recorded, if any
          taken      \* the files recorded into at least once
vars == <<store, current, taken>>

Init == /\ store = [f \in Files |-> "free"]
        /\ current = {}
        /\ taken = {}

\* A recording starts in a free file, or goes on in a kept one.
Take(f) ==
  /\ current = {} /\ store[f] \in {"free", "kept"}
  /\ store' = [store EXCEPT ![f] = "open"]
  /\ current' = {f}
  /\ taken' = taken \cup {f}

\* The recording ends: kept, or bad, or found empty, or cut off.
End(f) ==
  /\ current = {f}
  /\ \E s \in {"kept", "bad", "free", "open"} :
       store' = [store EXCEPT ![f] = s]
  /\ current' = {}
  /\ UNCHANGED taken

\* Kept footage is given up, once every file has been used.
Reclaim(f) ==
  /\ current = {} /\ store[f] = "kept" /\ taken = Files
  /\ store' = [store EXCEPT ![f] = "free"]
  /\ UNCHANGED <<current, taken>>

\* A recording that was cut off is settled.
Settle(f) ==
  /\ current = {} /\ store[f] = "open"
  /\ \E s \in {"kept", "bad", "free"} : store' = [store EXCEPT ![f] = s]
  /\ UNCHANGED <<current, taken>>

Next == \E f \in Files : Take(f) \/ End(f) \/ Reclaim(f) \/ Settle(f)

Spec == Init /\ [][Next]_vars
=============================================================================
