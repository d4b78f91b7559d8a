---------------------------- MODULE MCTranscoder ----------------------------
(***************************************************************************)
(* Transcoder for TLC: one to three places in every queue, so that each is *)
(* empty and full while every other one is, and more packets than all of   *)
(* them hold together.                                                     *)
(***************************************************************************)
EXTENDS Transcoder
=============================================================================
