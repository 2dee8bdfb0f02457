----------------------------- MODULE MCSessions -----------------------------
(* Sessions alone, for TLC. *)
EXTENDS Sessions, TLC

\* No code tells two people apart.
Interchangeable == Permutations(People)

=============================================================================
