------------------------------- MODULE MCPts --------------------------------
(***************************************************************************)
(* Pts for TLC: the duration of a picture as it is, 3003 ticks, on a clock *)
(* with a mantissa of 17 bits instead of 24, which 300000 pictures take    *)
(* through its whole life: exact, then rounded at every step, by steps     *)
(* that grow with the clock, and in the end standing still.                *)
(***************************************************************************)
EXTENDS Pts
=============================================================================
