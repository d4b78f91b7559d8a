---------------------------- MODULE MCFrameRing ----------------------------
(***************************************************************************)
(* Instances of FrameRing for TLC: 4 frames and up to 10 pictures, so that *)
(* the indices wrap twice, and the ring can be overrun and used on.        *)
(***************************************************************************)
EXTENDS FrameRing

\* The size is announced once, at the start of the stream.
OneSize == {1}

\* It changes again while pictures can be waiting in every frame.
TwoSizes == {1, 6}
=============================================================================
