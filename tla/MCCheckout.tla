----------------------------- MODULE MCCheckout -----------------------------
(* Instances of Checkout for TLC. *)
EXTENDS Checkout, TLC

CONSTANTS t1, t2

\* Handlers in flight are interchangeable.
Handlers == Permutations(Tasks)

\* Bound of the safety run: a third intent (a switch and a switch back), or faults, not both.
ThirdOrFaults ==
  faults > 0 => \A k \in Keys : k[1] = 3 => intents[k].status = "absent"
=============================================================================
