----------------------------- MODULE MCTsInput -----------------------------
(***************************************************************************)
(* TsInput for TLC: a compared byte of 3 values and a clock that wraps     *)
(* after 8 audio PES packets, which are 6 steps of that byte, two of its   *)
(* laps, so that both wrap together as they do in the program (128 values, *)
(* 33 bits).                                                               *)
(***************************************************************************)
EXTENDS TsInput

\* The video is up to two PES packets ahead of the audio.
Ahead == {0, 2}
=============================================================================
