------------------------------ MODULE MCGnTcp -------------------------------
(***************************************************************************)
(* Instances of GnTcp for TLC: 3 slots, so that a ring is full with 2      *)
(* packets and wraps after 3.                                              *)
(***************************************************************************)
EXTENDS GnTcp

\* Two laps of the video ring, and audio to interleave with it.
BothStreams == [s \in Stream |-> IF s = "video" THEN 6 ELSE 2]

\* Every check of the video ring can be misled; the audio ring gets a packet.
LongVideo == [s \in Stream |-> IF s = "video" THEN 7 ELSE 1]
=============================================================================
