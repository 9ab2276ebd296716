----------------------------- MODULE MCFrameRing ----------------------------
(* FrameRing for TLC: long frames of video, short ones of audio.           *)
EXTENDS FrameRing

CONSTANTS video, audio

MCMaxLen == [w \in Writers |-> IF w = video THEN Longest ELSE 1]
=============================================================================
