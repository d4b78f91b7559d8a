------------------------------ MODULE MCCodecs ------------------------------
(***************************************************************************)
(* Codecs for TLC: three frames for the encoder, memory for seven, so that *)
(* the third size finds memory for one only; two buffers for the decoder,  *)
(* and pictures for two laps of the ring and more.                         *)
(***************************************************************************)
EXTENDS Codecs
=============================================================================
