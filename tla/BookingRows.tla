---------------------------- MODULE BookingRows ----------------------------
(***************************************************************************)
(* The rows of the bookings table and the statements that write them       *)
(* (backend/app/bookings.py), as operators on one row.  A statement is two  *)
(* operators: Where...(r, ...) is its WHERE clause, and the second is its   *)
(* SET list together with the booking_events row written beside it.  The    *)
(* rule engine that decides what a client may still do                      *)
(* (backend/app/cancellation.py) and the slot check every writer repeats    *)
(* (backend/app/availability.py) are here too.                              *)
(*                                                                          *)
(* Times are natural numbers; NoTime is a NULL timestamp, which is below    *)
(* every time, so "expires > now" is false of it as it is in SQL.           *)
(*                                                                          *)
(* Two fields stand for rows of booking_events: last is the newest event    *)
(* that changed the status (with who acted, and the refund a client's       *)
(* cancellation was shown), held the starts the booking has had since it    *)
(* was last a request (the from/to of its rescheduled events).  moves is    *)
(* the number of its rescheduled events while it is a request, the only     *)
(* time the code counts them.                                               *)
(* payment is the status of the booking's live booking_payments row.        *)
(***************************************************************************)
EXTENDS Integers, FiniteSets

NoTime == -1

OCCUPYING == {"awaiting_payment", "pending", "confirmed", "completed"}

EXPIRING == {"awaiting_payment", "pending"}

\* Statuses that hold no slot; nothing leads out of them.
CLOSED == {"declined", "expired", "cancelled_by_client",
           "cancelled_by_merchant", "no_show"}

STATUSES == OCCUPYING \cup CLOSED

REFUNDING == {"declined", "expired", "cancelled_by_merchant", "cancelled_by_client"}

OWNER_ONLY_SOURCES == {"completed"}

PENDING_MOVES == 3

PENDING_ACROSS_IPS == 3

Ends(r) == r.starts + r.dur

Least(s, t) == IF s <= t THEN s ELSE t

-----------------------------------------------------------------------------
(* Merchant transitions (PATCH): where a target may come from, and whether  *)
(* the appointment must have started.                                       *)

TransitionsMutant ==
  [confirmed |-> [sources |-> {"pending", "completed", "no_show"}, past_only |-> FALSE],
   declined |-> [sources |-> {"pending"}, past_only |-> FALSE],
   cancelled_by_merchant |->
     [sources |-> {"pending", "confirmed", "completed"}, past_only |-> FALSE],
   completed |-> [sources |-> {"confirmed"}, past_only |-> TRUE],
   no_show |-> [sources |-> {"confirmed", "completed"}, past_only |-> TRUE]]

TRANSITIONS ==
  [confirmed |-> [sources |-> {"pending", "completed"}, past_only |-> FALSE],
   declined |-> [sources |-> {"pending"}, past_only |-> FALSE],
   cancelled_by_merchant |->
     [sources |-> {"pending", "confirmed", "completed"}, past_only |-> FALSE],
   completed |-> [sources |-> {"confirmed"}, past_only |-> TRUE],
   no_show |-> [sources |-> {"confirmed", "completed"}, past_only |-> TRUE]]

Targets == {"confirmed", "declined", "cancelled_by_merchant", "completed", "no_show"}

\* A status change and its event row, which ride one statement or one transaction.
Settled(r, status, actor, pct) ==
  [r EXCEPT !.status = status,
            !.last = [event |-> status, actor |-> actor, pct |-> pct]]

WhereTransitionMutant(r, target, seen, now) ==
  /\ r.status \in TRANSITIONS[target].sources
  /\ TRANSITIONS[target].past_only => r.starts <= now
  /\ seen # NoTime => r.starts = seen

WhereTransition(r, target, seen, now) ==
  /\ r.status \in TRANSITIONS[target].sources
  /\ r.status \in EXPIRING => r.expires > now
  /\ TRANSITIONS[target].past_only => r.starts <= now
  /\ seen # NoTime => r.starts = seen

-----------------------------------------------------------------------------
(* The statements of the clock and of the payment path.                     *)

WhereExpireMutant(r, now) ==
  r.status \in EXPIRING /\ r.expires # NoTime /\ r.expires < now

\* EXPIRE: every hold whose time is up.
WhereExpire(r, now) ==
  r.status \in EXPIRING /\ r.expires # NoTime /\ r.expires <= now

Expire(r, now) ==
  IF WhereExpire(r, now) THEN Settled(r, "expired", "system", 0) ELSE r

\* EXPIRE_ONE: a checkout hold given back at once.
WhereExpireOne(r) == r.status = "awaiting_payment"

ExpireOne(r) == Settled(r, "expired", "system", 0)

WherePaidMutant(r, now) == r.expires > now

\* PAID: the card is checked, or the money taken, while the checkout still runs.
WherePaid(r, now) == r.status = "awaiting_payment" /\ r.expires > now

Paid(r, ttl, now) ==
  [r EXCEPT !.status = IF r.auto THEN "confirmed" ELSE "pending",
            !.expires = IF r.auto THEN NoTime ELSE now + ttl]

\* END_FOR_ERASURE: live at the erasure's own time.
WhereEndForErasure(r, client, at) ==
  /\ r.client = client
  /\ \/ r.status = "confirmed" /\ r.starts > at
     \/ r.status \in EXPIRING /\ r.expires > at

EndForErasure(r, client, at) ==
  IF WhereEndForErasure(r, client, at)
  THEN Settled(r, IF r.status = "awaiting_payment" THEN "expired"
                  ELSE "cancelled_by_merchant", "system", 0)
  ELSE r

-----------------------------------------------------------------------------
(* The statements of the client's own link and of the merchant's move.      *)

WhereClientCancel(r, now) ==
  /\ r.starts > now
  /\ \/ r.status = "confirmed"
     \/ r.status = "pending" /\ r.expires > now

WhereReschedule(r, seen, erased) ==
  r.status = "confirmed" /\ r.count = seen /\ r.client \notin erased

RescheduleMutant(r, new) ==
  [r EXCEPT !.starts = new, !.earliest = new, !.count = @ + 1,
            !.held = @ \cup {new}]

Reschedule(r, new) ==
  [r EXCEPT !.starts = new, !.earliest = Least(@, new), !.count = @ + 1,
            !.held = @ \cup {new}]

WherePendingMove(r, erased, now) ==
  /\ r.status = "pending" /\ r.expires > now
  /\ r.starts > now /\ r.client \notin erased

PendingMoveMutant(r, new) ==
  [r EXCEPT !.starts = new, !.earliest = new, !.moves = @ + 1, !.held = {new}]

PendingMove(r, new) ==
  [r EXCEPT !.starts = new, !.original = new, !.earliest = new,
            !.moves = @ + 1, !.held = {new}]

WhereMoveMutant(r, erased) == r.status = "confirmed"

WhereMove(r, erased) == r.status = "confirmed" /\ r.client \notin erased

Move(r, new, worker) ==
  [r EXCEPT !.starts = new, !.worker = worker, !.earliest = Least(@, new),
            !.held = @ \cup {new}]

-----------------------------------------------------------------------------
(* cancellation.decide over the row's own snapshot, and what booking_links   *)
(* makes of it for a request nobody has answered.                           *)

decideMutant(r, now) ==
  LET started == r.starts - now <= 0 IN
  [can_cancel |-> ~started,
   can_reschedule |-> ~started /\ r.starts - now >= r.cutoff /\ r.count < r.max,
   refund_pct |-> IF ~started /\ r.starts - now >= r.free THEN 100 ELSE 0]

decide(r, now) ==
  LET started == r.starts - now <= 0 IN
  [can_cancel |-> ~started,
   can_reschedule |-> ~started /\ r.starts - now >= r.cutoff /\ r.count < r.max,
   refund_pct |-> IF ~started /\ r.earliest - now >= r.free THEN 100 ELSE 0]

linkDecide(r, now) ==
  LET d == decide(r, now) IN
  IF r.status = "pending"
  THEN [can_cancel |-> d.can_cancel,
        can_reschedule |-> d.can_cancel /\ r.moves < PENDING_MOVES,
        refund_pct |-> IF r.payment = "paid" THEN 100 ELSE 0]
  ELSE d

-----------------------------------------------------------------------------
(* Slots.  rows is the table, a sequence in insertion order; skip is the     *)
(* index of the row to leave out (0: none).                                 *)

\* BOOKED: the rows that occupy a worker as of now, a lapsed hold carved out.
BookedRows(rows, worker, skip, now) ==
  {i \in DOMAIN rows \ {skip} :
     /\ rows[i].worker = worker
     /\ rows[i].status \in OCCUPYING
     /\ rows[i].status \in EXPIRING => rows[i].expires > now}

MeetsAny(rows, busy, tail, start, end) ==
  \E i \in busy : rows[i].starts < end /\ start < Ends(rows[i]) + tail

\* member_slots, for one start: on the worker's grid, not too soon, clear of every booking and
\* the gap after it, and leaving its own gap before the next one.
SlotOffered(rows, worker, t, dur, grid, earliest, buffer, skip, now) ==
  LET busy == BookedRows(rows, worker, skip, now) IN
  /\ t \in grid
  /\ t >= earliest
  /\ ~ MeetsAny(rows, busy, buffer, t, t + dur)
  /\ ~ MeetsAny(rows, busy, 0, t, t + dur + buffer)

\* ex_bookings_worker_overlap, for one interval about to be written: it knows no clock.
ExclusionFree(rows, worker, t, dur, skip) ==
  \A i \in DOMAIN rows \ {skip} :
    ~ /\ rows[i].worker = worker
      /\ rows[i].status \in OCCUPYING
      /\ rows[i].starts < t + dur /\ t < Ends(rows[i])

=============================================================================
