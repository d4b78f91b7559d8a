---------------------------- MODULE BoundedQueue ----------------------------
(***************************************************************************)
(* What every hand-off between two threads of the program promises: a      *)
(* first-in first-out queue of at most Capacity items, from which nothing  *)
(* is lost, duplicated, reordered or altered.  Items are numbered 1, 2,... *)
(* in the order in which the producer hands them over, so the item that    *)
(* enters next is known from the one that left last.                       *)
(*                                                                         *)
(* The rings of gn_tcp.c and main.c keep this promise only until a thread  *)
(* draws a wrong conclusion from what it shares with the other, or the     *)
(* slots are re-initialised under way; broken is that event, and the queue *)
(* promises nothing from then on.                                          *)
(***************************************************************************)
EXTENDS Naturals, Sequences

CONSTANT Capacity   \* a natural number

VARIABLES
  queue,   \* the items handed over and not yet taken, oldest first
  last,    \* the item taken last, 0 before the first
  broken   \* the hand-off no longer promises anything

vars == <<queue, last, broken>>

Init ==
  /\ queue = <<>>
  /\ last = 0
  /\ broken = FALSE

Put ==
  /\ ~broken
  /\ Len(queue) < Capacity
  /\ queue' = Append(queue, last + Len(queue) + 1)
  /\ UNCHANGED <<last, broken>>

Take ==
  /\ ~broken
  /\ queue # <<>>
  /\ last' = Head(queue)
  /\ queue' = Tail(queue)
  /\ UNCHANGED broken

Break == broken'

Next == Put \/ Take \/ Break

Spec == Init /\ [][Next]_vars
=============================================================================
