------------------------------ MODULE MCTsMux ------------------------------
(***************************************************************************)
(* TsMux with the packets of the program, 188 bytes with 20 of PES header. *)
(* The lengths put the end of the access unit on each side of a packet     *)
(* boundary, so that the last packet has 0, 1, 2, 3 and many stuffing      *)
(* bytes and as few as one byte of payload; the number of access units     *)
(* has no bound.                                                           *)
(***************************************************************************)
EXTENDS TsMux

\* Around one, two and three full payloads of 184 bytes, with the PES header
\* and, for HeaderLen = 30, with the parameter sets.
Boundaries ==
  UNION {{184 * n - 20 + d, 184 * n - 50 + d} : n \in 1..3, d \in -3..2}

Lengths == {5, 60} \cup Boundaries
=============================================================================
