----------------------------- MODULE MCRefunds -----------------------------
(* Instances of Refunds for TLC: one or two jobs at a time. *)
EXTENDS Refunds

CONSTANTS t1, t2
=============================================================================
