----------------------------- MODULE JobPromise -----------------------------
(***************************************************************************)
(* What the job queue promises to whoever enqueues: asked once for a key,   *)
(* it works on the job, never two workers at a time and never again once    *)
(* the job is settled (done, skipped or given up), and only then, with      *)
(* nobody at work, may the key be used again.                               *)
(***************************************************************************)
VARIABLES
  promise,      \* none, owed or settled
  working       \* somebody is inside the handler

Init == promise = "none" /\ working = FALSE

Ask == promise = "none" /\ promise' = "owed" /\ UNCHANGED working

Begin == promise = "owed" /\ ~ working /\ working' = TRUE /\ UNCHANGED promise

Stop == working /\ working' = FALSE /\ UNCHANGED promise

\* Also while a second attempt is at work: the first one may be recorded late.
Settle == promise = "owed" /\ promise' = "settled" /\ UNCHANGED working

Forget == promise = "settled" /\ ~ working /\ promise' = "none" /\ UNCHANGED working

Next == Ask \/ Begin \/ Stop \/ Settle \/ Forget

Spec == Init /\ [][Next]_<<promise, working>>

=============================================================================
