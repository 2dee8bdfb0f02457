---------------------------- MODULE MCBookings ----------------------------
(* Bookings for TLC: one business, small sets, a few ticks. *)
EXTENDS Bookings, TLC

Base == [published |-> TRUE, auto_confirm |-> FALSE, workers_answer |-> TRUE,
         payment_check |-> TRUE, ttl |-> 1, free |-> 2, cutoff |-> 1, max |-> 1,
         notice |-> 0, horizon |-> 9, max_pending |-> 2]

TwoSettings == {Base, [Base EXCEPT !.auto_confirm = TRUE, !.free = 0, !.workers_answer = FALSE]}

OneSetting == {Base}

\* Bounds of the run with two rows: nobody erased or removed, one move of each booking.
TwoRows ==
  /\ removed = {} /\ erased = {}
  /\ \A i \in Ids : bookings[i].moves + bookings[i].count <= 1

\* What the slot properties and every guard depend on: the history fields and the refund anchor
\* decide only which refund a cancellation records.
SlotView ==
  <<clock, settings, floor,
    [i \in Ids |-> LET r == bookings[i] IN
       <<r.status, r.worker, r.source, r.starts, r.dur, r.expires, r.count, r.moves, r.payment>>]>>

EveryTick == [w \in Workers |-> Time]

LateGrid == [w \in Workers |-> {1, 3}]

=============================================================================
