-------------------------- MODULE MCSimplePipeline --------------------------
(***************************************************************************)
(* SimplePipeline for TLC: a ring of 3 frames and a file of 7 packets, two *)
(* laps and a picture.                                                     *)
(***************************************************************************)
EXTENDS SimplePipeline

\* The size is announced at the start of the file, and changes while pictures can
\* be waiting in every frame.
TwoSizes == {1, 5}
=============================================================================
