----------------------------- MODULE RingIndex -----------------------------
(***************************************************************************)
(* Cyclic indices of the rings of the program.  The C code reduces an      *)
(* index with %; the invariants count positions from an index that may be  *)
(* up to one lap ahead, which Wrap reduces without a product.  Wrap is the *)
(* vocabulary of the invariants only: the actions keep the code's %.       *)
(***************************************************************************)
EXTENDS Integers

\* The slot that position i of a ring of n slots stands for, 0 <= i < 2n.
Wrap(i, n) == IF i >= n THEN i - n ELSE i
=============================================================================
