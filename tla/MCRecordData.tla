---------------------------- MODULE MCRecordData ----------------------------
(* RecordData for TLC: every third frame belongs to a second channel.      *)
EXTENDS RecordData

MCChanOf(n) == IF n % 3 = 0 THEN 2 ELSE 1
=============================================================================
