----------------------------- MODULE Bookings -----------------------------
(***************************************************************************)
(* One business's bookings and everything that writes them: the public      *)
(* booking page, the merchant's console, the client's own link, the card    *)
(* check that lands, the sweep, a re-applied erasure, and the removal of a  *)
(* member, which reads them (backend/app/bookings.py, booking_links.py,     *)
(* members.py, ledger.py; the payment path's calls come from payments.py).  *)
(*                                                                          *)
(* Every writer runs under the business's advisory lock, so a handler is    *)
(* one step.  Its clock is not the wall clock: now() is frozen when the     *)
(* transaction opens, before the wait for the lock, so a step works with a  *)
(* now up to MaxWait behind.  A refused request changes nothing and is no   *)
(* step.                                                                    *)
(*                                                                          *)
(* Left out here: the emails a handler queues, audit rows, metrics and      *)
(* personal data, which no guard of these handlers reads.                   *)
(***************************************************************************)
EXTENDS BookingRows, Sequences

CONSTANTS
  Workers,      \* memberships that take bookings
  Clients,      \* clients rows
  Buckets,      \* requester address buckets (limits.ip_key)
  Settings,     \* the values the business's settings may take
  Durations,    \* the durations the service may have when it is booked
  Buffer,       \* the gap after an appointment
  Grid,         \* worker -> the starts its shifts and opening hours put on the slot grid
  DayLength,    \* ticks in a local day
  CheckoutTTL,  \* AWAITING_PAYMENT_TTL
  MaxWait,      \* how far a transaction's now() may lag behind when it holds the lock
  MaxTime,      \* bound: the last tick
  MaxBookings   \* bound: rows placed

VARIABLES
  clock,        \* the wall clock
  bookings,     \* the bookings table, in insertion order
  settings,     \* the settings table
  removed,      \* members whose role is 'removed'
  erased,       \* clients whose erased_at is set
  floor         \* no transaction that has yet to take the lock opened before this

vars == <<clock, bookings, settings, removed, erased, floor>>

Time == 0 .. MaxTime

SettingsType ==
  [published : BOOLEAN, auto_confirm : BOOLEAN, workers_answer : BOOLEAN,
   payment_check : BOOLEAN, ttl : Nat, free : Nat, cutoff : Nat, max : Nat,
   notice : Nat, horizon : Nat, max_pending : Nat]

ASSUME BookingsAssumption ==
  /\ Settings \subseteq SettingsType /\ Settings # {}
  /\ Durations \subseteq Nat \ {0}
  /\ Grid \in [Workers -> SUBSET Nat]
  /\ Buffer \in Nat /\ DayLength \in Nat \ {0} /\ CheckoutTTL \in Nat
  /\ MaxWait \in Nat /\ MaxTime \in Nat /\ MaxBookings \in Nat

NoBucket == "none"

Actors == {"owner", "worker", "client", "system"}

Event == [event : STATUSES \cup {"created"}, actor : Actors, pct : {0, 100}]

\* The live booking_payments row of a checkout, none for a booking without one.
Payments == {"none", "open", "checked", "paid"}

Row == [status : STATUSES, worker : Workers, client : Clients,
        source : {"booking_page", "merchant"}, bucket : Buckets \cup {NoBucket},
        starts : Nat, dur : Nat \ {0}, expires : Nat \cup {NoTime},
        auto : BOOLEAN, free : Nat, cutoff : Nat, max : Nat,
        original : Nat, earliest : Nat, count : Nat, moves : Nat,
        payment : Payments, last : Event, held : SUBSET Nat]

TypeOK ==
  /\ clock \in Time
  /\ bookings \in Seq(Row)
  /\ settings \in Settings
  /\ removed \subseteq Workers
  /\ erased \subseteq Clients
  /\ floor \in Time /\ floor <= clock

Init ==
  /\ clock = 0
  /\ bookings = <<>>
  /\ settings \in Settings
  /\ removed = {}
  /\ erased = {}
  /\ floor = 0

\* The now() of a transaction that holds the lock: taken before it waited for it.
Nows == {n \in Time : n >= floor /\ n >= clock - MaxWait /\ n <= clock}

Ids == DOMAIN bookings

Swept(rows, now) == [i \in DOMAIN rows |-> Expire(rows[i], now)]

\* A member signed in: an owner, or a worker who has not been removed.
MayManage(actor, worker) == actor = "owner" \/ actor = worker

\* Who did it, as members.is_owner tells the signed-in apart; the event names the user.
ActorKind(actor) == IF actor = "owner" THEN "owner" ELSE "worker"

Members == {"owner"} \cup (Workers \ removed)

-----------------------------------------------------------------------------
(* Placing a booking *)

Day(t) == t \div DayLength

\* availability.candidates and eligible_for: who can take this exact start.
Eligible(rows, workers, t, dur, skip, now) ==
  {w \in workers \ removed :
     /\ Day(t) >= Day(now) /\ Day(t) <= Day(now) + settings.horizon
     /\ SlotOffered(rows, w, t, dur, Grid[w], now + settings.notice, Buffer, skip, now)}

\* by_load: the worker with the fewest bookings that day.
LeastLoaded(rows, workers, t, now) ==
  LET Load(w) == Cardinality({i \in BookedRows(rows, w, 0, now) :
                                Day(rows[i].starts) = Day(t)})
  IN  {w \in workers : \A v \in workers : Load(w) <= Load(v)}

\* PENDING_COUNT: what the cap per address counts.
Counted(rows, client, now) ==
  {i \in DOMAIN rows :
     /\ rows[i].client = client
     /\ \/ rows[i].status \in EXPIRING /\ rows[i].expires > now
        \/ /\ rows[i].status = "confirmed" /\ rows[i].auto
           /\ rows[i].source = "booking_page" /\ rows[i].starts > now}

UnderCap(rows, client, bucket, now) ==
  LET mine == {i \in Counted(rows, client, now) : rows[i].bucket = bucket} IN
  /\ Cardinality(mine) < settings.max_pending
  /\ Cardinality(Counted(rows, client, now)) < PENDING_ACROSS_IPS * settings.max_pending

\* INSERT_BOOKING and its created event: the policy in force is snapshotted onto the row.
NewRow(worker, client, source, bucket, t, dur, status, expires, actor) ==
  [status |-> status, worker |-> worker, client |-> client, source |-> source,
   bucket |-> bucket, starts |-> t, dur |-> dur, expires |-> expires,
   auto |-> settings.auto_confirm, free |-> settings.free,
   cutoff |-> settings.cutoff, max |-> settings.max,
   original |-> t, earliest |-> t, count |-> 0, moves |-> 0,
   payment |-> IF status = "awaiting_payment" THEN "open" ELSE "none",
   last |-> [event |-> "created", actor |-> actor, pct |-> 0], held |-> {t}]

\* by_load and place: the least loaded candidate the exclusion constraint lets in (the tie broken
\* by id is left open); none is 409 slot_taken.
Place(rows, queue, client, source, bucket, t, dur, status, expires, actor, now) ==
  \E w \in LeastLoaded(rows, {v \in queue : ExclusionFree(rows, v, t, dur, 0)}, t, now) :
    bookings' = Append(rows, NewRow(w, client, source, bucket, t, dur,
                                    status, expires, actor))

\* book_online.  workers is everyone or the member asked for; step says whether payments.offer
\* asks for a payment step, which the business's setting only allows.
BookOnline(client, workers, t, dur, bucket, step, now) ==
  /\ Len(bookings) < MaxBookings
  /\ settings.published
  /\ client \notin erased
  /\ step => settings.payment_check
  /\ LET rows == Swept(bookings, now)
         eligible == Eligible(rows, workers, t, dur, 0, now)
         status == IF step THEN "awaiting_payment"
                   ELSE IF settings.auto_confirm THEN "confirmed" ELSE "pending"
         expires == CASE status = "awaiting_payment" -> now + CheckoutTTL
                      [] status = "pending" -> now + settings.ttl
                      [] OTHER -> NoTime
     IN  /\ eligible # {}
         /\ UnderCap(rows, client, bucket, now)
         /\ Place(rows, eligible, client, "booking_page", bucket, t, dur, status, expires,
                  "client", now)
  /\ UNCHANGED <<clock, settings, removed, erased, floor>>

\* may_book_for: an owner books for anyone, a worker for themselves only.
MayBookFor(actor, workers) == actor = "owner" \/ workers = {actor}

\* book: a member books a client in.  An override skips the grid and names one member.
Book(actor, client, workers, t, dur, override, now) ==
  /\ Len(bookings) < MaxBookings
  /\ MayBookFor(actor, workers)
  /\ override => Cardinality(workers) = 1
  /\ client \notin erased
  /\ LET rows == Swept(bookings, now)
         queue == IF override THEN {w \in workers \ removed : Grid[w] # {}}
                  ELSE Eligible(rows, workers, t, dur, 0, now)
     IN  Place(rows, queue, client, "merchant", NoBucket, t, dur, "confirmed", NoTime,
               ActorKind(actor), now)
  /\ UNCHANGED <<clock, settings, removed, erased, floor>>

-----------------------------------------------------------------------------
(* Changing a booking *)

Put(rows, i, r) == [rows EXCEPT ![i] = r]

MayTransitionMutant(r, target, actor, now) ==
  /\ MayManage(actor, r.worker)
  /\ r.status \in OWNER_ONLY_SOURCES => actor = "owner"
  /\ r.status = "pending" => actor = "owner" \/ settings.workers_answer
  /\ target = "cancelled_by_merchant" =>
       \/ actor = "owner"
       \/ r.payment # "paid" /\ r.starts > now

\* Guards 3 to 3d of transition: who may ask for this change.
MayTransition(r, target, actor, now) ==
  /\ MayManage(actor, r.worker)
  /\ r.status \in OWNER_ONLY_SOURCES => actor = "owner"
  /\ r.status = "pending" => actor = "owner" \/ settings.workers_answer
  /\ target \in REFUNDING =>
       \/ actor = "owner"
       \/ r.payment # "paid" /\ (target = "cancelled_by_merchant" => r.starts > now)

\* transition: accept, decline, cancel, or record how it went.  Only an accept may carry the
\* start the merchant was shown.
Transition(i, target, actor, seen, now) ==
  /\ seen # NoTime => target = "confirmed"
  /\ MayTransition(bookings[i], target, actor, now)
  /\ WhereTransition(bookings[i], target, seen, now)
  /\ bookings' = Put(bookings, i, Settled(bookings[i], target, ActorKind(actor), 0))
  /\ UNCHANGED <<clock, settings, removed, erased, floor>>

\* RESOLVE: a client's link is live while its booking is, and erasure deletes it.
LinkLive(r, now) == WhereClientCancel(r, now) /\ r.client \notin erased

\* booking_links.cancel: echo is the refund the page showed.
ClientCancel(i, echo, now) ==
  LET r == bookings[i]
      d == linkDecide(r, now) IN
  /\ LinkLive(r, now)
  /\ d.can_cancel
  /\ echo = d.refund_pct
  /\ WhereClientCancel(r, now)
  /\ bookings' = Put(bookings, i, Settled(r, "cancelled_by_client", "client", d.refund_pct))
  /\ UNCHANGED <<clock, settings, removed, erased, floor>>

\* booking_links.reschedule: a request moves under the start the client was shown, a confirmed
\* booking under the count of changes it was shown.
ClientReschedule(i, t, count, seen, now) ==
  LET r == bookings[i]
      pending == r.status = "pending"
      rows == Swept(bookings, now) IN
  /\ LinkLive(r, now)
  /\ linkDecide(r, now).can_reschedule
  /\ IF pending THEN seen = r.starts ELSE count = r.count
  /\ Eligible(bookings, {r.worker}, t, r.dur, i, now) # {}
  /\ ExclusionFree(rows, r.worker, t, r.dur, i)
  /\ \/ pending /\ WherePendingMove(r, erased, now) /\ bookings' = Put(rows, i, PendingMove(r, t))
     \/ ~ pending /\ WhereReschedule(r, count, erased) /\ bookings' = Put(rows, i, Reschedule(r, t))
  /\ UNCHANGED <<clock, settings, removed, erased, floor>>

\* reschedule: a member moves a confirmed booking to another time, another worker, or both.
MerchantReschedule(i, worker, t, actor, override, now) ==
  LET r == bookings[i]
      rows == Swept(bookings, now) IN
  /\ MayManage(actor, r.worker)
  /\ worker # r.worker => MayBookFor(actor, {worker})
  /\ r.status = "confirmed"
  /\ t # r.starts \/ worker # r.worker
  /\ worker \notin removed /\ Grid[worker] # {}
  /\ ~ override => Eligible(rows, {worker}, t, r.dur, i, now) # {}
  /\ ExclusionFree(rows, worker, t, r.dur, i)
  /\ WhereMove(r, erased)
  /\ bookings' = Put(rows, i, Move(r, t, worker))
  /\ UNCHANGED <<clock, settings, removed, erased, floor>>

-----------------------------------------------------------------------------
(* The payment path's writes, the sweep, erasure, members, settings, time *)

\* payments._checked and _paid: the card check or the payment lands.  One that lands after the
\* checkout ended is kept on its row, and books nothing.
CardLands(i, payment, now) ==
  LET r == [bookings[i] EXCEPT !.payment = payment] IN
  /\ bookings[i].payment = "open"
  /\ bookings' = Put(bookings, i, IF WherePaid(r, now) THEN Paid(r, settings.ttl, now) ELSE r)
  /\ UNCHANGED <<clock, settings, removed, erased, floor>>

\* payments._give_back, abandon and _refund: a checkout hold given back before its time.
GiveBack(i) ==
  /\ WhereExpireOne(bookings[i])
  /\ bookings' = Put(bookings, i, ExpireOne(bookings[i]))
  /\ UNCHANGED <<clock, settings, removed, erased, floor>>

\* sweep, for this business.
Sweep(now) ==
  /\ bookings' = Swept(bookings, now)
  /\ UNCHANGED <<clock, settings, removed, erased, floor>>

\* erase_client_core's own refusal: the client still has a live booking.
CoreRefuses(rows, client, now) ==
  \E i \in DOMAIN rows : WhereEndForErasure(rows[i], client, now)

\* ledger.reapply, for one ledger entry.  It runs with the API and the worker disconnected, so
\* no transaction opened before it is still to come.
ReapplyErasure(client, at) ==
  LET rows == [i \in Ids |-> EndForErasure(bookings[i], client, at)] IN
  /\ client \notin erased
  /\ at <= clock
  /\ ~ CoreRefuses(rows, client, clock)
  /\ bookings' = rows
  /\ erased' = erased \cup {client}
  /\ floor' = clock
  /\ UNCHANGED <<clock, settings, removed>>

\* UPCOMING: an appointment that is not over keeps its member.
Upcoming(r, now) ==
  /\ Ends(r) > now
  /\ \/ r.status = "confirmed"
     \/ r.status \in EXPIRING /\ r.expires > now

\* members.remove
RemoveMember(worker, now) ==
  /\ worker \notin removed
  /\ \A i \in Ids : bookings[i].worker = worker => ~ Upcoming(bookings[i], now)
  /\ removed' = removed \cup {worker}
  /\ UNCHANGED <<clock, bookings, settings, erased, floor>>

\* business_settings.update_settings
ChangeSettings(s) ==
  /\ s # settings
  /\ settings' = s
  /\ UNCHANGED <<clock, bookings, removed, erased, floor>>

Tick ==
  /\ clock < MaxTime
  /\ clock' = clock + 1
  /\ UNCHANGED <<bookings, settings, removed, erased, floor>>

WorkerChoices == {Workers} \cup {{w} : w \in Workers}

Next ==
  \/ Tick
  \/ \E s \in Settings : ChangeSettings(s)
  \/ \E w \in Workers, now \in Nows : RemoveMember(w, now)
  \/ \E c \in Clients, at \in Time : ReapplyErasure(c, at)
  \/ \E now \in Nows : Sweep(now)
  \/ \E c \in Clients, ws \in WorkerChoices, t \in Time, dur \in Durations,
        bucket \in Buckets, step \in BOOLEAN, now \in Nows :
        BookOnline(c, ws, t, dur, bucket, step, now)
  \/ \E actor \in Members, c \in Clients, ws \in WorkerChoices, t \in Time,
        dur \in Durations, override \in BOOLEAN, now \in Nows :
        Book(actor, c, ws, t, dur, override, now)
  \/ \E i \in Ids, target \in Targets, actor \in Members,
        seen \in Time \cup {NoTime}, now \in Nows :
        Transition(i, target, actor, seen, now)
  \/ \E i \in Ids, echo \in {0, 100}, now \in Nows : ClientCancel(i, echo, now)
  \/ \E i \in Ids, t \in Time, seen \in Time, now \in Nows :
        \E count \in 0 .. bookings[i].count : ClientReschedule(i, t, count, seen, now)
  \/ \E i \in Ids, w \in Workers, t \in Time, actor \in Members,
        override \in BOOLEAN, now \in Nows :
        MerchantReschedule(i, w, t, actor, override, now)
  \/ \E i \in Ids, payment \in {"checked", "paid"}, now \in Nows :
        CardLands(i, payment, now)
  \/ \E i \in Ids : GiveBack(i)

Spec == Init /\ [][Next]_vars

\* The sweep is the worker's, every 300 seconds, and time passes.
FairSpec == Spec /\ WF_vars(Tick) /\ WF_vars(Sweep(clock))

-----------------------------------------------------------------------------
(* Properties *)

\* No worker is booked twice for one moment.  The constraint guards every insert and move; no
\* status change may bring a row back under it either (bookings.py, TRANSITIONS: "Every correction
\* LEAVES the exclusion predicate or stays inside it").
NoDoubleBooking ==
  \A i, j \in Ids :
    (/\ i # j /\ bookings[i].worker = bookings[j].worker
     /\ bookings[i].status \in OCCUPYING /\ bookings[j].status \in OCCUPYING)
    => \/ Ends(bookings[i]) <= bookings[j].starts
       \/ Ends(bookings[j]) <= bookings[i].starts

\* A start that the slot check offers is never refused by the constraint once EXPIRE has run on
\* the same clock: the read-time carve-out of lapsed holds and the statement that ends them agree
\* to the tick, however late the transaction got the lock (availability.py, BOOKED; bookings.py,
\* EXPIRE).
OfferedIsFree ==
  \A now \in Nows, w \in Workers, t \in Time, dur \in Durations, skip \in Ids \cup {0} :
    SlotOffered(bookings, w, t, dur, Grid[w], now + settings.notice, Buffer, skip, now)
      => ExclusionFree(Swept(bookings, now), w, t, dur, skip)

\* No statement writes a row that a CHECK of migrations 0026 and 0029 would refuse with a 500:
\* a hold has a deadline, the allowance is not overspent, the refund anchor is at or below the
\* original and the current start.
DatabaseChecks ==
  \A i \in Ids :
    LET r == bookings[i] IN
    /\ r.status \in EXPIRING => r.expires # NoTime
    /\ r.count <= r.max
    /\ r.earliest <= r.original
    /\ r.earliest <= r.starts

\* The table is as the database declares it: every column in its type and every CHECK satisfied, by
\* whichever statement wrote the row last.
BookingsInv == TypeOK /\ DatabaseChecks

\* Moving a booking never wins back a refund: a full refund is due only if it would have been at
\* every start the booking has held since it was a request (cancellation.py, D7).
RefundNeedsEveryStart ==
  \A i \in Ids, now \in Time :
    decide(bookings[i], now).refund_pct = 100
      => \A h \in bookings[i].held : h - now >= bookings[i].free

\* A worker who is not an owner never sends the business's money back: no booking that a worker
\* ended has a payment that was taken, whatever landed before or after (transition, guard 3d).
WorkersNeverRefund ==
  \A i \in Ids :
    bookings[i].status \in REFUNDING /\ bookings[i].last.actor = "worker"
      => bookings[i].payment # "paid"

\* An erased client has no appointment to come and no request or checkout still running: nobody
\* could be told of it, and no erasure could end it again (CLIENT_NOT_ERASED, END_FOR_ERASURE).
ErasedHaveNothingToCome ==
  \A i \in Ids, now \in Nows :
    bookings[i].client \in erased => ~ WhereEndForErasure(bookings[i], bookings[i].client, now)

\* What end_for_erasure leaves is never refused by the erase core, whichever earlier moment the
\* ledger names: one refusal would undo the whole reapply.
ErasureNeverRefused ==
  \A c \in Clients, at \in Time :
    at <= clock =>
      ~ CoreRefuses([i \in Ids |-> EndForErasure(bookings[i], c, at)], c, clock)

\* A booking that has ended stays ended: no late card check, stale accept or correction brings
\* back a row whose slot was given away.
ClosedStaysClosed ==
  [][\A i \in Ids : bookings[i].status \in CLOSED
        => bookings'[i].status = bookings[i].status]_vars

\* A request or a checkout is taken up only while its hold ran when the transaction opened: at
\* most the wait for the lock after its deadline.
TakenUpInTime ==
  [][\A i \in Ids :
        (/\ bookings[i].status \in EXPIRING
         /\ bookings'[i].status \in OCCUPYING
         /\ bookings'[i].status # bookings[i].status)
        => bookings[i].expires > clock - MaxWait]_vars

\* A client's cancellation of a confirmed booking is settled at the refund its anchor gives at a
\* clock that is behind, never ahead: nobody entitled to a refund when the step commits is
\* recorded at 0, and nobody is refunded who was past it when the request opened.
CancelFavoursTheClient ==
  [][\A i \in Ids :
        (bookings[i].status = "confirmed" /\ bookings'[i].status = "cancelled_by_client")
        => LET r == bookings[i]
               pct == bookings'[i].last.pct
           IN  /\ r.earliest - clock >= r.free => pct = 100
               /\ pct = 100 => r.earliest - (clock - MaxWait) >= r.free]_vars

\* The comment of members.remove: with the member's row kept, the foreign key "no longer stops a
\* booking racing the removal; the lock does".  So no removed member has an appointment to come.
RemovedHaveNothingToCome ==
  \A i \in Ids :
    bookings[i].worker \in removed
      => ~ (bookings[i].status = "confirmed" /\ bookings[i].starts > clock)

\* No hold is for ever: a request or a checkout due within the run is taken up, ended, or becomes
\* a request with a later deadline, whoever does nothing (the worker's sweep).
HoldsEnd ==
  \A i \in 1 .. MaxBookings :
    (i \in Ids /\ bookings[i].status \in EXPIRING /\ bookings[i].expires <= MaxTime)
      ~> (i \in Ids /\ (bookings[i].status \notin EXPIRING \/ bookings[i].expires > MaxTime))

\* An erasure is final and never stuck: neither a booking taken, moved or accepted across it leaves
\* the client something to come, nor does anything before it make the core refuse the ledger's entry.
ErasuresHold == ErasedHaveNothingToCome /\ ErasureNeverRefused

=============================================================================
