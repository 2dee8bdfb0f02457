-------------------------- MODULE BookingsProofs --------------------------
(***************************************************************************)
(* Proofs about Bookings, for every value of its constants.                 *)
(***************************************************************************)
EXTENDS Bookings, TLAPS

-----------------------------------------------------------------------------
(* The statements, one row at a time *)

\* What one statement may do to a row without a new interval: it stays where it is, and does not
\* come back to a status that holds the slot.
Stays(r, s) ==
  /\ s.worker = r.worker /\ s.starts = r.starts /\ s.dur = r.dur
  /\ s.status \in OCCUPYING => r.status \in OCCUPYING

\* What the CHECKs ask of a row, and what makes the refund anchor one: it is at or below every
\* start the booking has held.  The last conjunct is the strengthening: LEAST keeps it.
RowOK(r) ==
  /\ r.status \in EXPIRING => r.expires # NoTime
  /\ r.count <= r.max
  /\ r.earliest <= r.original
  /\ r.earliest <= r.starts
  /\ \A h \in r.held : r.earliest <= h

\* No two of these rows hold one worker at one moment.
Apart(rows) ==
  \A i, j \in DOMAIN rows :
    (/\ i # j /\ rows[i].worker = rows[j].worker
     /\ rows[i].status \in OCCUPYING /\ rows[j].status \in OCCUPYING)
    => \/ Ends(rows[i]) <= rows[j].starts
       \/ Ends(rows[j]) <= rows[i].starts

\* A table as every writer finds it and leaves it.
Good(rows) ==
  /\ rows \in Seq(Row)
  /\ \A i \in DOMAIN rows : RowOK(rows[i])
  /\ Apart(rows)

\* A status change with its event writes a row that fits the table and stays where it was.
LEMMA SettledRow ==
  ASSUME NEW r \in Row, NEW status \in STATUSES, NEW actor \in Actors, NEW pct \in {0, 100}
  PROVE  /\ Settled(r, status, actor, pct) \in Row
         /\ Settled(r, status, actor, pct).status = status
         /\ Settled(r, status, actor, pct).worker = r.worker
         /\ Settled(r, status, actor, pct).starts = r.starts
         /\ Settled(r, status, actor, pct).dur = r.dur
         /\ RowOK(r) /\ status \notin EXPIRING => RowOK(Settled(r, status, actor, pct))
  BY DEF Row, Settled, Event, RowOK

\* So does one that ends the booking: it gives the slot back.
LEMMA EndedRow ==
  ASSUME NEW r \in Row, RowOK(r), NEW status \in CLOSED, NEW actor \in Actors,
         NEW pct \in {0, 100}
  PROVE  /\ Settled(r, status, actor, pct) \in Row
         /\ RowOK(Settled(r, status, actor, pct))
         /\ Stays(r, Settled(r, status, actor, pct))
<1>1. status \in STATUSES /\ status \notin EXPIRING /\ status \notin OCCUPYING
  BY DEF STATUSES, CLOSED, EXPIRING, OCCUPYING
<1> QED
  BY <1>1, SettledRow DEF Stays

\* EXPIRE writes rows that fit the table, and gives slots back only.
LEMMA ExpireRow ==
  ASSUME NEW r \in Row, RowOK(r), NEW now
  PROVE  Expire(r, now) \in Row /\ RowOK(Expire(r, now)) /\ Stays(r, Expire(r, now))
<1>1. "expired" \in CLOSED /\ "system" \in Actors /\ 0 \in {0, 100}
  BY DEF CLOSED, Actors
<1>2. CASE WhereExpire(r, now)
  BY <1>1, <1>2, EndedRow DEF Expire
<1>3. CASE ~ WhereExpire(r, now)
  BY <1>3 DEF Expire, Stays
<1> QED
  BY <1>2, <1>3

\* END_FOR_ERASURE, likewise.
LEMMA EndForErasureRow ==
  ASSUME NEW r \in Row, RowOK(r), NEW client, NEW at
  PROVE  LET s == EndForErasure(r, client, at) IN s \in Row /\ RowOK(s) /\ Stays(r, s)
<1>1. /\ "expired" \in CLOSED /\ "cancelled_by_merchant" \in CLOSED
      /\ "system" \in Actors /\ 0 \in {0, 100}
  BY DEF CLOSED, Actors
<1>2. CASE WhereEndForErasure(r, client, at)
  BY <1>1, <1>2, EndedRow DEF EndForErasure
<1>3. CASE ~ WhereEndForErasure(r, client, at)
  BY <1>3 DEF EndForErasure, Stays
<1> QED
  BY <1>2, <1>3

\* A card check that lands, while the checkout runs or after it: the row stays where it was.
LEMMA CardRow ==
  ASSUME NEW r \in Row, RowOK(r), NEW payment \in Payments, NEW ttl \in Nat, NEW now \in Nat
  PROVE  LET s == [r EXCEPT !.payment = payment]
             p == Paid(s, ttl, now)
         IN  /\ s \in Row /\ RowOK(s) /\ Stays(r, s)
             /\ p \in Row /\ RowOK(p)
             /\ WherePaid(s, now) => Stays(r, p)
<1> DEFINE s == [r EXCEPT !.payment = payment]
<1>1. s \in Row /\ RowOK(s) /\ Stays(r, s) /\ s.status = r.status
  BY DEF Row, RowOK, Stays
<1> HIDE DEF s
<1>2. /\ now + ttl \in Nat /\ now + ttl # NoTime /\ NoTime \in Nat \cup {NoTime}
      /\ "confirmed" \in STATUSES /\ "pending" \in STATUSES /\ "confirmed" \notin EXPIRING
  BY DEF NoTime, STATUSES, OCCUPYING, EXPIRING
<1>3. Paid(s, ttl, now) \in Row /\ RowOK(Paid(s, ttl, now))
  BY <1>1, <1>2 DEF Paid, Row, RowOK
<1>4. /\ Paid(s, ttl, now).worker = s.worker /\ Paid(s, ttl, now).starts = s.starts
      /\ Paid(s, ttl, now).dur = s.dur
  BY <1>1 DEF Paid, Row
<1>5. WherePaid(s, now) => s.status \in OCCUPYING
  BY DEF WherePaid, OCCUPYING
<1> QED
  BY <1>1, <1>3, <1>4, <1>5 DEF Stays, s

\* The three moves: the row fits the table, the anchor stays at or below every start held, and
\* the interval is the one asked for.
LEMMA MovedRow ==
  ASSUME NEW r \in Row, RowOK(r), NEW new \in Nat, NEW worker \in Workers
  PROVE  /\ LET s == PendingMove(r, new) IN
              s \in Row /\ RowOK(s) /\ s.worker = r.worker /\ s.starts = new /\ s.dur = r.dur
         /\ LET s == Reschedule(r, new) IN
              /\ s \in Row /\ s.worker = r.worker /\ s.starts = new /\ s.dur = r.dur
              /\ r.count < r.max => RowOK(s)
         /\ LET s == Move(r, new, worker) IN
              s \in Row /\ RowOK(s) /\ s.worker = worker /\ s.starts = new /\ s.dur = r.dur
<1>1. \A e \in Nat : Least(e, new) \in Nat /\ Least(e, new) <= e /\ Least(e, new) <= new
  BY DEF Least
<1>2. /\ r.earliest \in Nat /\ r.original \in Nat /\ r.count \in Nat /\ r.max \in Nat
      /\ r.starts \in Nat /\ r.moves \in Nat /\ r.held \in SUBSET Nat
  BY DEF Row
<1>3. \A h \in r.held : h \in Nat /\ Least(r.earliest, new) <= h
  BY <1>1, <1>2 DEF RowOK
<1>4. /\ r.held \cup {new} \in SUBSET Nat /\ {new} \in SUBSET Nat
      /\ r.count + 1 \in Nat /\ r.moves + 1 \in Nat
  BY <1>2
<1>5. Least(r.earliest, new) \in Nat
  BY <1>1, <1>2
<1>6. LET s == PendingMove(r, new) IN
        s \in Row /\ RowOK(s) /\ s.worker = r.worker /\ s.starts = new /\ s.dur = r.dur
  <2> DEFINE s == PendingMove(r, new)
  <2>1. s \in Row /\ s.worker = r.worker /\ s.starts = new /\ s.dur = r.dur
    BY <1>4 DEF PendingMove, Row
  <2>2. /\ s.earliest = new /\ s.original = new /\ s.starts = new
        /\ s.count = r.count /\ s.max = r.max /\ s.held = {new}
        /\ s.status = r.status /\ s.expires = r.expires
    BY DEF PendingMove, Row
  <2> HIDE DEF s
  <2>3. RowOK(s)
    BY <1>2, <2>2 DEF RowOK
  <2> QED
    BY <2>1, <2>3 DEF s
<1>7. LET s == Reschedule(r, new) IN
        /\ s \in Row /\ s.worker = r.worker /\ s.starts = new /\ s.dur = r.dur
        /\ r.count < r.max => RowOK(s)
  <2> DEFINE s == Reschedule(r, new)
  <2>1. s \in Row /\ s.worker = r.worker /\ s.starts = new /\ s.dur = r.dur
    BY <1>4, <1>5 DEF Reschedule, Row
  <2>2. /\ s.earliest = Least(r.earliest, new) /\ s.original = r.original /\ s.starts = new
        /\ s.count = r.count + 1 /\ s.max = r.max /\ s.held = r.held \cup {new}
        /\ s.status = r.status /\ s.expires = r.expires
    BY DEF Reschedule, Row
  <2> HIDE DEF s
  <2>3. r.count < r.max => RowOK(s)
    BY <1>1, <1>2, <1>3, <2>2 DEF RowOK
  <2> QED
    BY <2>1, <2>3 DEF s
<1>8. LET s == Move(r, new, worker) IN
        s \in Row /\ RowOK(s) /\ s.worker = worker /\ s.starts = new /\ s.dur = r.dur
  <2> DEFINE s == Move(r, new, worker)
  <2>1. s \in Row /\ s.worker = worker /\ s.starts = new /\ s.dur = r.dur
    BY <1>4, <1>5 DEF Move, Row
  <2>2. /\ s.earliest = Least(r.earliest, new) /\ s.original = r.original /\ s.starts = new
        /\ s.count = r.count /\ s.max = r.max /\ s.held = r.held \cup {new}
        /\ s.status = r.status /\ s.expires = r.expires
    BY DEF Move, Row
  <2> HIDE DEF s
  <2>3. RowOK(s)
    BY <1>1, <1>2, <1>3, <2>2 DEF RowOK
  <2> QED
    BY <2>1, <2>3 DEF s
<1> QED
  BY <1>6, <1>7, <1>8

-----------------------------------------------------------------------------
(* Tables *)

\* A good table's rows have whole-number intervals.
LEMMA GoodRows ==
  ASSUME NEW rows, Good(rows)
  PROVE  \A j \in DOMAIN rows :
           rows[j] \in Row /\ rows[j].starts \in Nat /\ rows[j].dur \in Nat \ {0}
<1>1. \A j \in DOMAIN rows : rows[j] \in Row
  BY DEF Good
<1>2. \A r \in Row : r.starts \in Nat /\ r.dur \in Nat \ {0}
  BY DEF Row
<1> QED
  BY <1>1, <1>2

\* Rewriting every row in place, each staying where it was, keeps a good table good.
LEMMA RewriteGood ==
  ASSUME NEW rows, Good(rows), NEW new, new = [i \in DOMAIN rows |-> new[i]],
         \A i \in DOMAIN rows : new[i] \in Row /\ RowOK(new[i]) /\ Stays(rows[i], new[i])
  PROVE  Good(new) /\ DOMAIN new = DOMAIN rows
<1>1. DOMAIN rows = 1 .. Len(rows) /\ Len(rows) \in Nat /\ rows \in Seq(Row)
  BY DEF Good
<1>2. DOMAIN new = DOMAIN rows
  OBVIOUS
<1>3. new \in Seq(Row)
  BY <1>1, <1>2
<1>4. Apart(new)
  BY <1>2 DEF Good, Apart, Stays, Ends
<1> QED
  BY <1>2, <1>3, <1>4 DEF Good

\* EXPIRE over the whole table.
LEMMA SweptGood ==
  ASSUME NEW rows, Good(rows), NEW now
  PROVE  Good(Swept(rows, now)) /\ DOMAIN Swept(rows, now) = DOMAIN rows
<1>1. \A i \in DOMAIN rows : rows[i] \in Row /\ RowOK(rows[i])
  BY DEF Good
<1>2. \A i \in DOMAIN rows : /\ Expire(rows[i], now) \in Row
                              /\ RowOK(Expire(rows[i], now))
                              /\ Stays(rows[i], Expire(rows[i], now))
  BY <1>1, ExpireRow
<1>3. /\ Swept(rows, now) = [i \in DOMAIN rows |-> Swept(rows, now)[i]]
      /\ \A i \in DOMAIN rows : Swept(rows, now)[i] = Expire(rows[i], now)
  BY DEF Swept
<1> QED
  BY <1>2, <1>3, RewriteGood

\* One row written in place, staying where it was.
LEMMA PutGood ==
  ASSUME NEW rows, Good(rows), NEW i \in DOMAIN rows, NEW r \in Row, RowOK(r),
         Stays(rows[i], r)
  PROVE  Good(Put(rows, i, r)) /\ DOMAIN Put(rows, i, r) = DOMAIN rows
<1> DEFINE new == Put(rows, i, r)
<1>1. /\ new = [j \in DOMAIN rows |-> new[j]]
      /\ \A j \in DOMAIN rows : new[j] = IF j = i THEN r ELSE rows[j]
  BY DEF Put
<1>2. \A j \in DOMAIN rows : rows[j] \in Row /\ RowOK(rows[j]) /\ Stays(rows[j], rows[j])
  BY DEF Good, Stays
<1> HIDE DEF new
<1>3. Good(new) /\ DOMAIN new = DOMAIN rows
  BY <1>1, <1>2, RewriteGood
<1> QED
  BY <1>3 DEF new

\* One row moved to an interval the exclusion constraint lets in.
LEMMA MoveGood ==
  ASSUME NEW rows, Good(rows), NEW i \in DOMAIN rows, NEW r \in Row, RowOK(r),
         ExclusionFree(rows, r.worker, r.starts, r.dur, i)
  PROVE  Good(Put(rows, i, r)) /\ DOMAIN Put(rows, i, r) = DOMAIN rows
<1> DEFINE new == Put(rows, i, r)
<1>1. /\ DOMAIN new = DOMAIN rows
      /\ \A j \in DOMAIN rows : new[j] = IF j = i THEN r ELSE rows[j]
  BY DEF Put
<1>2. new \in Seq(Row)
  BY DEF Put, Good
<1>3. \A j \in DOMAIN rows : rows[j].starts \in Nat /\ rows[j].dur \in Nat
  BY GoodRows
<1>4. r.starts \in Nat /\ r.dur \in Nat
  BY DEF Row
<1>5. \A j \in DOMAIN rows \ {i} :
        r.worker = rows[j].worker /\ rows[j].status \in OCCUPYING
          => Ends(r) <= rows[j].starts \/ Ends(rows[j]) <= r.starts
  BY <1>3, <1>4 DEF ExclusionFree, Ends
<1>6. Apart(new)
  <2> SUFFICES ASSUME NEW j \in DOMAIN new, NEW k \in DOMAIN new, j # k,
                      new[j].worker = new[k].worker,
                      new[j].status \in OCCUPYING, new[k].status \in OCCUPYING
               PROVE  Ends(new[j]) <= new[k].starts \/ Ends(new[k]) <= new[j].starts
    BY DEF Apart
  <2>1. CASE j = i
    BY <1>1, <1>5, <2>1
  <2>2. CASE k = i
    BY <1>1, <1>5, <2>2
  <2>3. CASE j # i /\ k # i
    BY <1>1, <2>3 DEF Good, Apart
  <2> QED
    BY <2>1, <2>2, <2>3
<1>7. \A j \in DOMAIN new : RowOK(new[j])
  BY <1>1 DEF Good
<1> QED
  BY <1>1, <1>2, <1>6, <1>7 DEF Good

\* One row inserted where the exclusion constraint lets it in.
LEMMA AppendGood ==
  ASSUME NEW rows, Good(rows), NEW r \in Row, RowOK(r),
         ExclusionFree(rows, r.worker, r.starts, r.dur, 0)
  PROVE  Good(Append(rows, r))
<1> DEFINE new == Append(rows, r)
<1>1. /\ rows \in Seq(Row) /\ Len(rows) \in Nat /\ DOMAIN rows = 1 .. Len(rows)
      /\ new \in Seq(Row) /\ DOMAIN new = 1 .. Len(rows) + 1
      /\ \A j \in DOMAIN rows : new[j] = rows[j]
      /\ new[Len(rows) + 1] = r
  BY DEF Good
<1>2. \A j \in DOMAIN new : j # Len(rows) + 1 => j \in DOMAIN rows
  BY <1>1
<1>3. \A j \in DOMAIN rows : rows[j].starts \in Nat /\ rows[j].dur \in Nat /\ j # 0
  BY <1>1, GoodRows
<1>4. r.starts \in Nat /\ r.dur \in Nat
  BY DEF Row
<1>5. \A j \in DOMAIN rows :
        r.worker = rows[j].worker /\ rows[j].status \in OCCUPYING
          => Ends(r) <= rows[j].starts \/ Ends(rows[j]) <= r.starts
  BY <1>3, <1>4 DEF ExclusionFree, Ends
<1> HIDE DEF new
<1>6. Apart(new)
  <2> SUFFICES ASSUME NEW j \in DOMAIN new, NEW k \in DOMAIN new, j # k,
                      new[j].worker = new[k].worker,
                      new[j].status \in OCCUPYING, new[k].status \in OCCUPYING
               PROVE  Ends(new[j]) <= new[k].starts \/ Ends(new[k]) <= new[j].starts
    BY DEF Apart
  <2>1. CASE j = Len(rows) + 1
    BY <1>1, <1>2, <1>5, <2>1
  <2>2. CASE k = Len(rows) + 1
    BY <1>1, <1>2, <1>5, <2>2
  <2>3. CASE j # Len(rows) + 1 /\ k # Len(rows) + 1
    BY <1>1, <1>2, <2>3 DEF Good, Apart
  <2> QED
    BY <2>1, <2>2, <2>3
<1>7. \A j \in DOMAIN new : RowOK(new[j])
  BY <1>1, <1>2 DEF Good
<1> QED
  BY <1>1, <1>6, <1>7 DEF Good, new

-----------------------------------------------------------------------------
(* The inductive invariant *)

\* The table is good, and the rest has its type.  NoDoubleBooking alone is inductive only with the
\* rows' types; DatabaseChecks and RefundNeedsEveryStart need the anchor below every start held.
IInv == TypeOK /\ Good(bookings)

\* A transaction's clock is a time.
LEMMA NowsTime ==
  ASSUME NEW now \in Nows
  PROVE  now \in Nat
  BY BookingsAssumption DEF Nows, Time, BookingsAssumption

\* The row a placement writes: snapshot, anchor and event as INSERT_BOOKING writes them.
LEMMA NewRowOK ==
  ASSUME settings \in Settings,
         NEW worker \in Workers, NEW client \in Clients,
         NEW source \in {"booking_page", "merchant"}, NEW bucket \in Buckets \cup {NoBucket},
         NEW t \in Nat, NEW dur \in Nat \ {0}, NEW status \in STATUSES,
         NEW expires \in Nat \cup {NoTime}, NEW actor \in Actors,
         status \in EXPIRING => expires # NoTime
  PROVE  LET r == NewRow(worker, client, source, bucket, t, dur, status, expires, actor) IN
         r \in Row /\ RowOK(r) /\ r.worker = worker /\ r.starts = t /\ r.dur = dur
<1> DEFINE r == NewRow(worker, client, source, bucket, t, dur, status, expires, actor)
<1>1. settings \in SettingsType
  BY BookingsAssumption DEF BookingsAssumption
<1>2. /\ settings.auto_confirm \in BOOLEAN /\ settings.free \in Nat
      /\ settings.cutoff \in Nat /\ settings.max \in Nat
  BY <1>1 DEF SettingsType
<1>3. {t} \in SUBSET Nat /\ 0 \in Nat /\ 0 <= settings.max
  BY <1>2
<1>4. [event |-> "created", actor |-> actor, pct |-> 0] \in Event
  BY DEF Event
<1>5. (IF status = "awaiting_payment" THEN "open" ELSE "none") \in Payments
  BY DEF Payments
<1>6. r \in Row
  BY <1>2, <1>3, <1>4, <1>5 DEF NewRow, Row
<1>7. /\ r.status = status /\ r.expires = expires /\ r.count = 0 /\ r.max = settings.max
      /\ r.earliest = t /\ r.original = t /\ r.starts = t /\ r.held = {t}
      /\ r.worker = worker /\ r.dur = dur
  BY DEF NewRow
<1> HIDE DEF r
<1>8. RowOK(r)
  BY <1>3, <1>7 DEF RowOK
<1> QED
  BY <1>6, <1>7, <1>8 DEF r

\* place, whoever asked for it.
LEMMA PlaceGood ==
  ASSUME settings \in Settings, NEW rows, Good(rows), NEW queue \in SUBSET Workers,
         NEW client \in Clients, NEW source \in {"booking_page", "merchant"},
         NEW bucket \in Buckets \cup {NoBucket}, NEW t \in Nat, NEW dur \in Nat \ {0},
         NEW status \in STATUSES, NEW expires \in Nat \cup {NoTime}, NEW actor \in Actors,
         NEW now, status \in EXPIRING => expires # NoTime,
         Place(rows, queue, client, source, bucket, t, dur, status, expires, actor, now)
  PROVE  Good(bookings')
<1>1. PICK w \in LeastLoaded(rows, {v \in queue : ExclusionFree(rows, v, t, dur, 0)}, t, now) :
        bookings' = Append(rows, NewRow(w, client, source, bucket, t, dur,
                                        status, expires, actor))
  BY DEF Place
<1>2. w \in Workers /\ ExclusionFree(rows, w, t, dur, 0)
  BY <1>1 DEF LeastLoaded
<1> DEFINE r == NewRow(w, client, source, bucket, t, dur, status, expires, actor)
<1>3. r \in Row /\ RowOK(r) /\ r.worker = w /\ r.starts = t /\ r.dur = dur
  BY <1>2, NewRowOK
<1> HIDE DEF r
<1>4. Good(Append(rows, r))
  BY <1>2, <1>3, AppendGood
<1> QED
  BY <1>1, <1>4 DEF r

-----------------------------------------------------------------------------
(* One lemma per writer: it leaves a good table *)

\* The public booking page.
LEMMA BookOnlineGood ==
  ASSUME IInv, NEW c \in Clients, NEW ws, ws \subseteq Workers, NEW t \in Time,
         NEW dur \in Durations, NEW bucket \in Buckets, NEW step \in BOOLEAN, NEW now \in Nows,
         BookOnline(c, ws, t, dur, bucket, step, now)
  PROVE  Good(bookings')
<1> DEFINE rows == Swept(bookings, now)
           eligible == Eligible(rows, ws, t, dur, 0, now)
           status == IF step THEN "awaiting_payment"
                     ELSE IF settings.auto_confirm THEN "confirmed" ELSE "pending"
           expires == CASE status = "awaiting_payment" -> now + CheckoutTTL
                        [] status = "pending" -> now + settings.ttl
                        [] OTHER -> NoTime
<1>1. Good(rows) /\ settings \in Settings
  BY SweptGood DEF IInv, TypeOK
<1>2. eligible \in SUBSET Workers
  BY DEF Eligible
<1>3. settings.ttl \in Nat /\ CheckoutTTL \in Nat /\ now \in Nat
  BY <1>1, NowsTime, BookingsAssumption DEF BookingsAssumption, SettingsType
<1>4. t \in Nat /\ dur \in Nat \ {0}
  BY BookingsAssumption DEF BookingsAssumption, Time
<1>5. status \in STATUSES
  BY DEF STATUSES, OCCUPYING
<1>6. expires \in Nat \cup {NoTime}
  BY <1>3
<1>7. status \in EXPIRING => expires # NoTime
  BY <1>3 DEF EXPIRING, NoTime
<1>8. Place(rows, eligible, c, "booking_page", bucket, t, dur, status, expires, "client", now)
  BY DEF BookOnline
<1>9. "client" \in Actors
  BY DEF Actors
<1> HIDE DEF rows, eligible, status, expires
<1> QED
  BY <1>1, <1>2, <1>4, <1>5, <1>6, <1>7, <1>8, <1>9, PlaceGood

\* A member books by hand.
LEMMA BookGood ==
  ASSUME IInv, NEW actor, NEW c \in Clients, NEW ws, ws \subseteq Workers, NEW t \in Time,
         NEW dur \in Durations, NEW override \in BOOLEAN, NEW now \in Nows,
         Book(actor, c, ws, t, dur, override, now)
  PROVE  Good(bookings')
<1> DEFINE rows == Swept(bookings, now)
           queue == IF override THEN {w \in ws \ removed : Grid[w] # {}}
                    ELSE Eligible(rows, ws, t, dur, 0, now)
<1>1. Good(rows) /\ settings \in Settings
  BY SweptGood DEF IInv, TypeOK
<1>2. queue \in SUBSET Workers
  BY DEF Eligible
<1>3. t \in Nat /\ dur \in Nat \ {0}
  BY BookingsAssumption DEF BookingsAssumption, Time
<1>4. ActorKind(actor) \in Actors
  BY DEF ActorKind, Actors
<1>5. "confirmed" \in STATUSES /\ "confirmed" \notin EXPIRING
  BY DEF STATUSES, OCCUPYING, EXPIRING
<1>6. Place(rows, queue, c, "merchant", NoBucket, t, dur, "confirmed", NoTime,
            ActorKind(actor), now)
  BY DEF Book
<1> HIDE DEF rows, queue
<1> QED
  BY <1>1, <1>2, <1>3, <1>4, <1>5, <1>6, PlaceGood

\* A member settles a booking: every source of every target holds its slot already, so no
\* transition comes back under the exclusion constraint.
LEMMA TransitionGood ==
  ASSUME IInv, NEW i \in Ids, NEW target \in Targets, NEW actor, NEW seen, NEW now,
         Transition(i, target, actor, seen, now)
  PROVE  Good(bookings') /\ bookings[i].status \in OCCUPYING
<1> DEFINE r == bookings[i]
           s == Settled(r, target, ActorKind(actor), 0)
<1>1. Good(bookings) /\ i \in DOMAIN bookings /\ r \in Row /\ RowOK(r)
  BY DEF IInv, Good, Ids
<1>2. r.status \in TRANSITIONS[target].sources
  BY DEF Transition, WhereTransition
<1>3. r.status \in OCCUPYING
  BY <1>2 DEF Targets, TRANSITIONS, OCCUPYING
<1>4. target \in STATUSES /\ target \notin EXPIRING
  BY DEF Targets, STATUSES, OCCUPYING, CLOSED, EXPIRING
<1>5. ActorKind(actor) \in Actors /\ 0 \in {0, 100}
  BY DEF ActorKind, Actors
<1> HIDE DEF r
<1>6. s \in Row /\ RowOK(s) /\ s.worker = r.worker /\ s.starts = r.starts /\ s.dur = r.dur
  BY <1>1, <1>4, <1>5, SettledRow
<1>7. Stays(r, s)
  BY <1>3, <1>6 DEF Stays
<1>8. bookings' = Put(bookings, i, s)
  BY DEF Transition, r
<1> HIDE DEF s
<1>9. Good(Put(bookings, i, s))
  BY <1>1, <1>6, <1>7, PutGood DEF r
<1> QED
  BY <1>3, <1>8, <1>9 DEF r

\* The client's own link cancels.
LEMMA ClientCancelGood ==
  ASSUME IInv, NEW i \in Ids, NEW echo \in {0, 100}, NEW now, ClientCancel(i, echo, now)
  PROVE  Good(bookings')
<1> DEFINE r == bookings[i]
           s == Settled(r, "cancelled_by_client", "client", echo)
<1>1. Good(bookings) /\ i \in DOMAIN bookings /\ r \in Row /\ RowOK(r)
  BY DEF IInv, Good, Ids
<1>2. "cancelled_by_client" \in CLOSED /\ "client" \in Actors
  BY DEF CLOSED, Actors
<1>3. bookings' = Put(bookings, i, s)
  BY DEF ClientCancel
<1> HIDE DEF r
<1>4. s \in Row /\ RowOK(s) /\ Stays(r, s)
  BY <1>1, <1>2, EndedRow
<1> HIDE DEF s
<1> QED
  BY <1>1, <1>3, <1>4, PutGood DEF r

\* The client's own link moves the booking: only while an allowance is left, so the count stays
\* within it, and only where the exclusion constraint lets it in.
LEMMA ClientRescheduleGood ==
  ASSUME IInv, NEW i \in Ids, NEW t \in Time, NEW count, NEW seen, NEW now,
         ClientReschedule(i, t, count, seen, now)
  PROVE  Good(bookings')
<1> DEFINE r == bookings[i]
           rows == Swept(bookings, now)
<1>1. r \in Row /\ RowOK(r)
  BY DEF IInv, Good, Ids
<1>2. Good(rows) /\ i \in DOMAIN rows
  BY SweptGood DEF IInv, Ids
<1>3. t \in Nat
  BY DEF Time
<1>4. ExclusionFree(rows, r.worker, t, r.dur, i)
  BY DEF ClientReschedule
<1>5. \/ r.status = "pending" /\ bookings' = Put(rows, i, PendingMove(r, t))
      \/ /\ r.status # "pending" /\ linkDecide(r, now).can_reschedule
         /\ bookings' = Put(rows, i, Reschedule(r, t))
  BY DEF ClientReschedule
<1>6. r.status # "pending" /\ linkDecide(r, now).can_reschedule => r.count < r.max
  BY DEF linkDecide, decide
<1> HIDE DEF r, rows
<1>7. r.worker \in Workers
  BY <1>1 DEF Row
<1>8. CASE r.status = "pending" /\ bookings' = Put(rows, i, PendingMove(r, t))
  BY <1>1, <1>2, <1>3, <1>4, <1>7, <1>8, MovedRow, MoveGood
<1>9. CASE /\ r.status # "pending" /\ linkDecide(r, now).can_reschedule
           /\ bookings' = Put(rows, i, Reschedule(r, t))
  BY <1>1, <1>2, <1>3, <1>4, <1>6, <1>7, <1>9, MovedRow, MoveGood
<1> QED
  BY <1>5, <1>8, <1>9

\* A member moves a booking.
LEMMA MerchantRescheduleGood ==
  ASSUME IInv, NEW i \in Ids, NEW w \in Workers, NEW t \in Time, NEW actor, NEW override,
         NEW now, MerchantReschedule(i, w, t, actor, override, now)
  PROVE  Good(bookings')
<1> DEFINE r == bookings[i]
           rows == Swept(bookings, now)
<1>1. r \in Row /\ RowOK(r)
  BY DEF IInv, Good, Ids
<1>2. Good(rows) /\ i \in DOMAIN rows
  BY SweptGood DEF IInv, Ids
<1>3. t \in Nat
  BY DEF Time
<1>4. ExclusionFree(rows, w, t, r.dur, i) /\ bookings' = Put(rows, i, Move(r, t, w))
  BY DEF MerchantReschedule
<1> HIDE DEF r, rows
<1> QED
  BY <1>1, <1>2, <1>3, <1>4, MovedRow, MoveGood

\* A card check or a payment lands.
LEMMA CardLandsGood ==
  ASSUME IInv, NEW i \in Ids, NEW payment \in {"checked", "paid"}, NEW now \in Nows,
         CardLands(i, payment, now)
  PROVE  Good(bookings')
<1> DEFINE r == bookings[i]
           s == [r EXCEPT !.payment = payment]
           p == Paid(s, settings.ttl, now)
<1>1. Good(bookings) /\ i \in DOMAIN bookings /\ r \in Row /\ RowOK(r)
  BY DEF IInv, Good, Ids
<1>2. payment \in Payments /\ now \in Nat /\ settings.ttl \in Nat
  BY NowsTime, BookingsAssumption DEF Payments, IInv, TypeOK, BookingsAssumption, SettingsType
<1>3. bookings' = Put(bookings, i, IF WherePaid(s, now) THEN p ELSE s)
  BY DEF CardLands
<1> HIDE DEF r
<1>4. /\ s \in Row /\ RowOK(s) /\ Stays(r, s) /\ p \in Row /\ RowOK(p)
      /\ WherePaid(s, now) => Stays(r, p)
  BY <1>1, <1>2, CardRow
<1> HIDE DEF s, p
<1>5. CASE WherePaid(s, now)
  BY <1>1, <1>3, <1>4, <1>5, PutGood DEF r
<1>6. CASE ~ WherePaid(s, now)
  BY <1>1, <1>3, <1>4, <1>6, PutGood DEF r
<1> QED
  BY <1>5, <1>6

\* A checkout hold is given back.
LEMMA GiveBackGood ==
  ASSUME IInv, NEW i \in Ids, GiveBack(i)
  PROVE  Good(bookings')
<1> DEFINE r == bookings[i]
           s == ExpireOne(r)
<1>1. Good(bookings) /\ i \in DOMAIN bookings /\ r \in Row /\ RowOK(r)
  BY DEF IInv, Good, Ids
<1>2. "expired" \in CLOSED /\ "system" \in Actors /\ 0 \in {0, 100}
  BY DEF CLOSED, Actors
<1>3. bookings' = Put(bookings, i, s)
  BY DEF GiveBack
<1> HIDE DEF r
<1>4. s \in Row /\ RowOK(s) /\ Stays(r, s)
  BY <1>1, <1>2, EndedRow DEF ExpireOne
<1> HIDE DEF s
<1> QED
  BY <1>1, <1>3, <1>4, PutGood DEF r

\* An erasure is applied again.
LEMMA ReapplyGood ==
  ASSUME IInv, NEW c, NEW at, ReapplyErasure(c, at)
  PROVE  Good(bookings')
<1> DEFINE new == [i \in Ids |-> EndForErasure(bookings[i], c, at)]
<1>1. \A i \in DOMAIN bookings : bookings[i] \in Row /\ RowOK(bookings[i])
  BY DEF IInv, Good
<1>2. \A i \in DOMAIN bookings :
        LET s == EndForErasure(bookings[i], c, at) IN
        s \in Row /\ RowOK(s) /\ Stays(bookings[i], s)
  BY <1>1, EndForErasureRow
<1>3. /\ new = [i \in DOMAIN bookings |-> new[i]]
      /\ \A i \in DOMAIN bookings : new[i] = EndForErasure(bookings[i], c, at)
  BY DEF Ids
<1>4. bookings' = new
  BY DEF ReapplyErasure
<1> HIDE DEF new
<1>5. Good(new)
  BY <1>2, <1>3, RewriteGood DEF IInv
<1> QED
  BY <1>4, <1>5

-----------------------------------------------------------------------------
(* Theorems *)

\* The inductive invariant holds at first: the table is empty.
LEMMA InitIInv == Init => IInv
<1> SUFFICES ASSUME Init PROVE IInv
  OBVIOUS
<1>1. TypeOK
  BY BookingsAssumption DEF Init, TypeOK, Time, BookingsAssumption
<1>2. Good(bookings)
  BY DEF Init, Good, Apart
<1> QED
  BY <1>1, <1>2 DEF IInv

\* Every step keeps the table good.
LEMMA NextGood == IInv /\ [Next]_vars => Good(bookings')
<1> SUFFICES ASSUME IInv, [Next]_vars PROVE Good(bookings')
  OBVIOUS
<1>0. Good(bookings)
  BY DEF IInv
<1> USE DEF WorkerChoices
<1>1. CASE Tick \/ UNCHANGED vars
  BY <1>0, <1>1 DEF Tick, vars
<1>2. CASE \E s \in Settings : ChangeSettings(s)
  BY <1>0, <1>2 DEF ChangeSettings
<1>3. CASE \E w \in Workers, now \in Nows : RemoveMember(w, now)
  BY <1>0, <1>3 DEF RemoveMember
<1>4. CASE \E c \in Clients, at \in Time : ReapplyErasure(c, at)
  BY <1>4, ReapplyGood
<1>5. CASE \E now \in Nows : Sweep(now)
  BY <1>0, <1>5, SweptGood DEF Sweep
<1>6. CASE \E c \in Clients, ws \in WorkerChoices, t \in Time, dur \in Durations,
              bucket \in Buckets, step \in BOOLEAN, now \in Nows :
              BookOnline(c, ws, t, dur, bucket, step, now)
  BY <1>6, BookOnlineGood
<1>7. CASE \E actor \in Members, c \in Clients, ws \in WorkerChoices, t \in Time,
              dur \in Durations, override \in BOOLEAN, now \in Nows :
              Book(actor, c, ws, t, dur, override, now)
  BY <1>7, BookGood
<1>8. CASE \E i \in Ids, target \in Targets, actor \in Members,
              seen \in Time \cup {NoTime}, now \in Nows :
              Transition(i, target, actor, seen, now)
  BY <1>8, TransitionGood
<1>9. CASE \E i \in Ids, echo \in {0, 100}, now \in Nows : ClientCancel(i, echo, now)
  BY <1>9, ClientCancelGood
<1>10. CASE \E i \in Ids, t \in Time, seen \in Time, now \in Nows :
              \E count \in 0 .. bookings[i].count : ClientReschedule(i, t, count, seen, now)
  BY <1>10, ClientRescheduleGood
<1>11. CASE \E i \in Ids, w \in Workers, t \in Time, actor \in Members,
              override \in BOOLEAN, now \in Nows :
              MerchantReschedule(i, w, t, actor, override, now)
  BY <1>11, MerchantRescheduleGood
<1>12. CASE \E i \in Ids, payment \in {"checked", "paid"}, now \in Nows :
              CardLands(i, payment, now)
  BY <1>12, CardLandsGood
<1>13. CASE \E i \in Ids : GiveBack(i)
  BY <1>13, GiveBackGood
<1> QED
  BY <1>1, <1>2, <1>3, <1>4, <1>5, <1>6, <1>7, <1>8, <1>9, <1>10, <1>11, <1>12, <1>13 DEF Next

\* Every step keeps the invariant.
LEMMA NextIInv == IInv /\ [Next]_vars => IInv'
<1> SUFFICES ASSUME IInv, [Next]_vars PROVE IInv'
  OBVIOUS
<1>1. Good(bookings')
  BY NextGood
<1>2. /\ clock' \in Time /\ settings' \in Settings /\ removed' \subseteq Workers
      /\ erased' \subseteq Clients /\ floor' \in Time /\ floor' <= clock'
  <2>1. /\ clock \in Time /\ settings \in Settings /\ removed \subseteq Workers
        /\ erased \subseteq Clients /\ floor \in Time /\ floor <= clock /\ MaxTime \in Nat
    BY BookingsAssumption DEF IInv, TypeOK, BookingsAssumption
  <2>2. CASE Tick
    BY <2>1, <2>2 DEF Tick, Time
  <2>3. CASE \E w \in Workers, now \in Nows : RemoveMember(w, now)
    BY <2>1, <2>3 DEF RemoveMember
  <2>4. CASE \E c \in Clients, at \in Time : ReapplyErasure(c, at)
    BY <2>1, <2>4 DEF ReapplyErasure, Time
  <2>5. CASE \E s \in Settings : ChangeSettings(s)
    BY <2>1, <2>5 DEF ChangeSettings
  <2>6. CASE UNCHANGED <<clock, settings, removed, erased, floor>>
    BY <2>1, <2>6
  <2>7. \/ Tick \/ UNCHANGED <<clock, settings, removed, erased, floor>>
        \/ \E w \in Workers, now \in Nows : RemoveMember(w, now)
        \/ \E c \in Clients, at \in Time : ReapplyErasure(c, at)
        \/ \E s \in Settings : ChangeSettings(s)
    <3>1. CASE \E now \in Nows : Sweep(now)
      BY <3>1 DEF Sweep
    <3>2. CASE \E c \in Clients, ws \in WorkerChoices, t \in Time, dur \in Durations,
              bucket \in Buckets, step \in BOOLEAN, now \in Nows :
              BookOnline(c, ws, t, dur, bucket, step, now)
      BY <3>2 DEF BookOnline
    <3>3. CASE \E actor \in Members, c \in Clients, ws \in WorkerChoices, t \in Time,
              dur \in Durations, override \in BOOLEAN, now \in Nows :
              Book(actor, c, ws, t, dur, override, now)
      BY <3>3 DEF Book
    <3>4. CASE \E i \in Ids, target \in Targets, actor \in Members,
              seen \in Time \cup {NoTime}, now \in Nows :
              Transition(i, target, actor, seen, now)
      BY <3>4 DEF Transition
    <3>5. CASE \E i \in Ids, echo \in {0, 100}, now \in Nows : ClientCancel(i, echo, now)
      BY <3>5 DEF ClientCancel
    <3>6. CASE \E i \in Ids, t \in Time, seen \in Time, now \in Nows :
              \E count \in 0 .. bookings[i].count : ClientReschedule(i, t, count, seen, now)
      BY <3>6 DEF ClientReschedule
    <3>7. CASE \E i \in Ids, w \in Workers, t \in Time, actor \in Members,
              override \in BOOLEAN, now \in Nows :
              MerchantReschedule(i, w, t, actor, override, now)
      BY <3>7 DEF MerchantReschedule
    <3>8. CASE \E i \in Ids, payment \in {"checked", "paid"}, now \in Nows :
              CardLands(i, payment, now)
      BY <3>8 DEF CardLands
    <3>9. CASE \E i \in Ids : GiveBack(i)
      BY <3>9 DEF GiveBack
    <3>10. CASE UNCHANGED vars
      BY <3>10 DEF vars
    <3> QED
      BY <3>1, <3>2, <3>3, <3>4, <3>5, <3>6, <3>7, <3>8, <3>9, <3>10 DEF Next
  <2> QED
    BY <2>2, <2>3, <2>4, <2>5, <2>6, <2>7
<1> QED
  BY <1>1, <1>2 DEF IInv, TypeOK, Good

\* The invariant holds of every behaviour of the specification.
LEMMA Invariant == Spec => []IInv
<1> QED
  BY InitIInv, NextIInv, PTL DEF Spec

\* No worker is booked twice for one moment, by any interleaving of the ten writers.
THEOREM NeverDoubleBooked == Spec => []NoDoubleBooking
<1>1. IInv => NoDoubleBooking
  BY DEF IInv, Good, Apart, NoDoubleBooking, Ids
<1> QED
  BY <1>1, Invariant, PTL

\* Every column of every row keeps its type and no statement of the handlers is refused by a CHECK of the
\* bookings table, whatever the settings, the wait for the lock and the number of bookings.
THEOREM BookingsSound == Spec => []BookingsInv
<1>1. IInv => TypeOK
  BY DEF IInv
<1>2. IInv => DatabaseChecks
  BY DEF IInv, Good, RowOK, DatabaseChecks, Ids
<1> QED
  BY <1>1, <1>2, Invariant, PTL DEF BookingsInv

\* No sequence of moves, the client's or the merchant's, wins back a refund.
THEOREM RefundAnchored == Spec => []RefundNeedsEveryStart
<1>1. IInv => RefundNeedsEveryStart
  <2> SUFFICES ASSUME IInv, NEW i \in Ids, NEW now \in Time,
                      decide(bookings[i], now).refund_pct = 100, NEW h \in bookings[i].held
               PROVE  h - now >= bookings[i].free
    BY DEF RefundNeedsEveryStart
  <2> DEFINE r == bookings[i]
  <2>1. r \in Row /\ RowOK(r)
    BY DEF IInv, Good, Ids
  <2>2. r.earliest - now >= r.free
    BY DEF decide
  <2> HIDE DEF r
  <2>3. r.earliest \in Nat /\ r.free \in Nat /\ r.held \in SUBSET Nat
    BY <2>1 DEF Row
  <2>4. h \in Nat /\ r.earliest <= h /\ now \in Int
    BY <2>1, <2>3 DEF RowOK, r, Time
  <2> QED
    BY <2>2, <2>3, <2>4 DEF r
<1> QED
  BY <1>1, Invariant, PTL

-----------------------------------------------------------------------------
(* What has ended stays ended *)

\* Every row of one table is a row of the next, with its status if that one is closed.
Kept(rows, new) ==
  \A i \in DOMAIN rows :
    i \in DOMAIN new /\ (rows[i].status \in CLOSED => new[i].status = rows[i].status)

\* EXPIRE touches no closed row.
LEMMA SweptKept ==
  ASSUME NEW rows, NEW now
  PROVE  Kept(rows, Swept(rows, now)) /\ DOMAIN Swept(rows, now) = DOMAIN rows
  BY DEF Kept, Swept, Expire, WhereExpire, CLOSED, EXPIRING

\* Nor does a write to a row that is not closed, alone or after EXPIRE, or one that keeps the
\* row's status.
LEMMA PutKept ==
  ASSUME NEW rows, NEW now, NEW i \in DOMAIN rows, NEW r,
         rows[i].status \notin CLOSED \/ r.status = rows[i].status
  PROVE  Kept(rows, Put(rows, i, r)) /\ Kept(rows, Put(Swept(rows, now), i, r))
<1>1. Kept(rows, Swept(rows, now)) /\ DOMAIN Swept(rows, now) = DOMAIN rows
  BY SweptKept
<1> QED
  BY <1>1 DEF Kept, Put

\* Nor does an insert after EXPIRE.
LEMMA AppendKept ==
  ASSUME NEW rows \in Seq(Row), NEW now, Swept(rows, now) \in Seq(Row), NEW r
  PROVE  Kept(rows, Append(Swept(rows, now), r))
<1> DEFINE mid == Swept(rows, now)
<1>1. Kept(rows, mid) /\ DOMAIN mid = DOMAIN rows
  BY SweptKept
<1> HIDE DEF mid
<1>2. mid \in Seq(Row)
  BY DEF mid
<1>3. \A i \in DOMAIN mid : i \in DOMAIN Append(mid, r) /\ Append(mid, r)[i] = mid[i]
  BY <1>2
<1> QED
  BY <1>1, <1>3 DEF Kept, mid

\* A booking that has ended stays ended: no late card check, stale accept or correction brings it
\* back.
THEOREM EndedStaysEnded == Spec => ClosedStaysClosed
<1>1. ASSUME IInv, [Next]_vars PROVE Kept(bookings, bookings')
  <2> USE DEF Ids
  <2>1. bookings \in Seq(Row) /\ \A i \in Ids : bookings[i] \in Row
    BY <1>1 DEF IInv, Good
  <2>2. \A now : Swept(bookings, now) \in Seq(Row)
    BY <1>1, SweptGood DEF IInv, Good
  <2>3. CASE UNCHANGED bookings
    BY <2>3 DEF Kept
  <2>4. CASE \E c \in Clients, at \in Time : ReapplyErasure(c, at)
    BY <2>4 DEF ReapplyErasure, Kept, EndForErasure, WhereEndForErasure, CLOSED, EXPIRING
  <2>5. CASE \E now \in Nows : Sweep(now)
    BY <2>5, SweptKept DEF Sweep
  <2>6. CASE \E c \in Clients, ws \in WorkerChoices, t \in Time, dur \in Durations,
                bucket \in Buckets, step \in BOOLEAN, now \in Nows :
                BookOnline(c, ws, t, dur, bucket, step, now)
    <3>1. PICK now \in Nows : \E r : bookings' = Append(Swept(bookings, now), r)
      BY <2>6 DEF BookOnline, Place
    <3> QED
      BY <2>1, <2>2, <3>1, AppendKept
  <2>7. CASE \E actor \in Members, c \in Clients, ws \in WorkerChoices, t \in Time,
                dur \in Durations, override \in BOOLEAN, now \in Nows :
                Book(actor, c, ws, t, dur, override, now)
    <3>1. PICK now \in Nows : \E r : bookings' = Append(Swept(bookings, now), r)
      BY <2>7 DEF Book, Place
    <3> QED
      BY <2>1, <2>2, <3>1, AppendKept
  <2>8. CASE \E i \in Ids, target \in Targets, actor \in Members,
                seen \in Time \cup {NoTime}, now \in Nows :
                Transition(i, target, actor, seen, now)
    <3>1. PICK i \in Ids, target \in Targets, actor \in Members,
               seen \in Time \cup {NoTime}, now \in Nows :
               Transition(i, target, actor, seen, now)
      BY <2>8
    <3>2. bookings[i].status \notin CLOSED
      BY <1>1, <3>1, TransitionGood DEF OCCUPYING, CLOSED
    <3>3. bookings' = Put(bookings, i, Settled(bookings[i], target, ActorKind(actor), 0))
      BY <3>1 DEF Transition
    <3> QED
      BY <3>2, <3>3, PutKept
  <2>9. CASE \E i \in Ids, echo \in {0, 100}, now \in Nows : ClientCancel(i, echo, now)
    <3>1. PICK i \in Ids, echo \in {0, 100}, now \in Nows : ClientCancel(i, echo, now)
      BY <2>9
    <3>2. bookings[i].status \notin CLOSED
      BY <3>1 DEF ClientCancel, WhereClientCancel, CLOSED
    <3>3. \E r : bookings' = Put(bookings, i, r)
      BY <3>1 DEF ClientCancel
    <3> QED
      BY <3>2, <3>3, PutKept
  <2>10. CASE \E i \in Ids, t \in Time, seen \in Time, now \in Nows :
                \E count \in 0 .. bookings[i].count : ClientReschedule(i, t, count, seen, now)
    <3>1. PICK i \in Ids, t \in Time, seen \in Time, now \in Nows :
               \E count \in 0 .. bookings[i].count : ClientReschedule(i, t, count, seen, now)
      BY <2>10
    <3>2. bookings[i].status \notin CLOSED
      BY <3>1 DEF ClientReschedule, LinkLive, WhereClientCancel, CLOSED
    <3>3. \E r : bookings' = Put(Swept(bookings, now), i, r)
      BY <3>1 DEF ClientReschedule
    <3> QED
      BY <3>2, <3>3, PutKept
  <2>11. CASE \E i \in Ids, w \in Workers, t \in Time, actor \in Members,
                override \in BOOLEAN, now \in Nows :
                MerchantReschedule(i, w, t, actor, override, now)
    <3>1. PICK i \in Ids, w \in Workers, t \in Time, actor \in Members,
               override \in BOOLEAN, now \in Nows :
               MerchantReschedule(i, w, t, actor, override, now)
      BY <2>11
    <3>2. bookings[i].status \notin CLOSED
      BY <3>1 DEF MerchantReschedule, CLOSED
    <3>3. \E r : bookings' = Put(Swept(bookings, now), i, r)
      BY <3>1 DEF MerchantReschedule
    <3> QED
      BY <3>2, <3>3, PutKept
  <2>12. CASE \E i \in Ids, payment \in {"checked", "paid"}, now \in Nows :
                CardLands(i, payment, now)
    <3>1. PICK i \in Ids, payment \in {"checked", "paid"}, now \in Nows :
               CardLands(i, payment, now)
      BY <2>12
    <3> DEFINE s == [bookings[i] EXCEPT !.payment = payment]
    <3>2. s.status = bookings[i].status
      BY <2>1 DEF Row
    <3>3. bookings' = Put(bookings, i, IF WherePaid(s, now) THEN Paid(s, settings.ttl, now) ELSE s)
      BY <3>1 DEF CardLands
    <3>4. WherePaid(s, now) => bookings[i].status \notin CLOSED
      BY <3>2 DEF WherePaid, CLOSED
    <3> HIDE DEF s
    <3> QED
      BY <3>2, <3>3, <3>4, PutKept
  <2>13. CASE \E i \in Ids : GiveBack(i)
    <3>1. PICK i \in Ids : GiveBack(i)
      BY <2>13
    <3>2. bookings[i].status \notin CLOSED
      BY <3>1 DEF GiveBack, WhereExpireOne, CLOSED
    <3>3. bookings' = Put(bookings, i, ExpireOne(bookings[i]))
      BY <3>1 DEF GiveBack
    <3> QED
      BY <3>2, <3>3, PutKept
  <2>14. \/ Tick \/ UNCHANGED vars \/ (\E s \in Settings : ChangeSettings(s))
         \/ (\E w \in Workers, now \in Nows : RemoveMember(w, now))
         => UNCHANGED bookings
    BY DEF Tick, vars, ChangeSettings, RemoveMember
  <2> QED
    BY <1>1, <2>3, <2>4, <2>5, <2>6, <2>7, <2>8, <2>9, <2>10, <2>11, <2>12, <2>13, <2>14 DEF Next
<1>2. IInv /\ [Next]_vars
        => [\A i \in Ids : bookings[i].status \in CLOSED
              => bookings'[i].status = bookings[i].status]_vars
  BY <1>1 DEF Kept, Ids
<1> QED
  BY <1>2, Invariant, PTL DEF Spec, ClosedStaysClosed

-----------------------------------------------------------------------------
(* What one step does to one row *)

\* transition: an answer, a cancellation or a record of how it went.
Answered(r, s) ==
  \E target \in Targets, actor \in Members, seen \in Time \cup {NoTime}, now \in Nows :
    /\ MayTransition(r, target, actor, now)
    /\ WhereTransition(r, target, seen, now)
    /\ s = Settled(r, target, ActorKind(actor), 0)

\* The client's own link cancels.
Withdrawn(r, s) ==
  \E now \in Nows :
    /\ WhereClientCancel(r, now)
    /\ s = Settled(r, "cancelled_by_client", "client", linkDecide(r, now).refund_pct)

\* One of the three moves, each of which refuses an erased client.
Shifted(r, s) ==
  /\ r.client \notin erased /\ r.status \in {"pending", "confirmed"}
  /\ \E t \in Nat, w \in Workers :
       s = PendingMove(r, t) \/ s = Reschedule(r, t) \/ s = Move(r, t, w)

\* A card check or a payment lands.
Landed(r, s) ==
  \E payment \in {"checked", "paid"}, now \in Nows :
    LET p == [r EXCEPT !.payment = payment] IN
    /\ r.payment = "open"
    /\ s = IF WherePaid(p, now) THEN Paid(p, settings.ttl, now) ELSE p

\* What any writer but an erasure may make of a row that it finds.
Written(r, s) ==
  \/ s = r
  \/ \E now \in Nows : s = Expire(r, now)
  \/ Answered(r, s)
  \/ Withdrawn(r, s)
  \/ Shifted(r, s)
  \/ Landed(r, s)
  \/ WhereExpireOne(r) /\ s = ExpireOne(r)

\* What INSERT_BOOKING writes: a row of a client who is not erased, with a payment only if it
\* waits for one.
Fresh(s) ==
  /\ s.client \notin erased
  /\ s.status \in {"awaiting_payment", "pending", "confirmed"}
  /\ s.payment = IF s.status = "awaiting_payment" THEN "open" ELSE "none"

\* Every row of rows written as above, and every row beyond them fresh.
Rewritten(rows, new) ==
  /\ DOMAIN rows \subseteq DOMAIN new
  /\ \A i \in DOMAIN rows : Written(rows[i], new[i])
  /\ \A i \in DOMAIN new \ DOMAIN rows : Fresh(new[i])

\* A write to one row, alone or after EXPIRE.
LEMMA PutRewritten ==
  ASSUME NEW i \in DOMAIN bookings, NEW r, Written(bookings[i], r)
  PROVE  /\ Rewritten(bookings, Put(bookings, i, r))
         /\ \A now \in Nows : Rewritten(bookings, Put(Swept(bookings, now), i, r))
<1>1. Rewritten(bookings, Put(bookings, i, r))
  BY DEF Rewritten, Put, Written
<1>2. ASSUME NEW now \in Nows
      PROVE  Rewritten(bookings, Put(Swept(bookings, now), i, r))
  <2>1. /\ DOMAIN Put(Swept(bookings, now), i, r) = DOMAIN bookings
        /\ \A j \in DOMAIN bookings :
             Put(Swept(bookings, now), i, r)[j] = IF j = i THEN r ELSE Expire(bookings[j], now)
    BY DEF Put, Swept
  <2>2. \A j \in DOMAIN bookings : Written(bookings[j], Expire(bookings[j], now))
    BY DEF Written
  <2> QED
    BY <2>1, <2>2 DEF Rewritten
<1> QED
  BY <1>1, <1>2

\* An insert after EXPIRE.
LEMMA AppendRewritten ==
  ASSUME bookings \in Seq(Row), NEW now \in Nows, Swept(bookings, now) \in Seq(Row),
         NEW r, Fresh(r)
  PROVE  Rewritten(bookings, Append(Swept(bookings, now), r))
<1> DEFINE mid == Swept(bookings, now)
           new == Append(mid, r)
<1>1. /\ DOMAIN mid = DOMAIN bookings
      /\ \A j \in DOMAIN bookings : mid[j] = Expire(bookings[j], now)
  BY DEF Swept
<1> HIDE DEF mid
<1>2. mid \in Seq(Row)
  BY DEF mid
<1>3. /\ DOMAIN new = 1 .. Len(mid) + 1 /\ DOMAIN mid = 1 .. Len(mid) /\ Len(mid) \in Nat
      /\ \A j \in DOMAIN mid : new[j] = mid[j]
      /\ new[Len(mid) + 1] = r
  BY <1>2
<1> HIDE DEF new
<1>4. \A j \in DOMAIN bookings : Written(bookings[j], new[j])
  BY <1>1, <1>3 DEF Written
<1>5. \A j \in DOMAIN new \ DOMAIN bookings : j = Len(mid) + 1
  BY <1>1, <1>3
<1> QED
  BY <1>1, <1>3, <1>4, <1>5 DEF Rewritten, new, mid

\* place inserts a fresh row.
LEMMA PlaceFresh ==
  ASSUME NEW rows, NEW queue, NEW client, client \notin erased, NEW source, NEW bucket, NEW t,
         NEW dur, NEW status \in {"awaiting_payment", "pending", "confirmed"}, NEW expires,
         NEW actor, NEW now,
         Place(rows, queue, client, source, bucket, t, dur, status, expires, actor, now)
  PROVE  \E r : Fresh(r) /\ bookings' = Append(rows, r)
<1>1. PICK w : bookings' = Append(rows, NewRow(w, client, source, bucket, t, dur,
                                               status, expires, actor))
  BY DEF Place
<1> DEFINE r == NewRow(w, client, source, bucket, t, dur, status, expires, actor)
<1>2. r.client = client /\ r.status = status
      /\ r.payment = IF status = "awaiting_payment" THEN "open" ELSE "none"
  BY DEF NewRow
<1> HIDE DEF r
<1>3. Fresh(r)
  BY <1>2 DEF Fresh
<1> QED
  BY <1>1, <1>3 DEF r

\* Every step but an erasure writes rows one of these ways, and leaves the erased clients, the
\* oldest transaction and the order of time alone.
LEMMA StepRewritten ==
  ASSUME IInv, [Next]_vars, ~ \E c \in Clients, at \in Time : ReapplyErasure(c, at)
  PROVE  /\ Rewritten(bookings, bookings')
         /\ UNCHANGED <<erased, floor>> /\ clock <= clock' /\ clock' \in Time
<1> USE DEF Ids
<1>1. bookings \in Seq(Row) /\ \A i \in Ids : bookings[i] \in Row
  BY DEF IInv, Good
<1>2. \A now : Swept(bookings, now) \in Seq(Row)
  BY SweptGood DEF IInv, Good
<1>3. clock \in Int /\ clock <= clock
  BY DEF IInv, TypeOK, Time
<1>4. clock \in Time
  BY DEF IInv, TypeOK
<1>5. CASE Tick \/ UNCHANGED vars
  BY <1>3, <1>4, <1>5, BookingsAssumption DEF Tick, vars, Rewritten, Written, Time, BookingsAssumption
<1>6. CASE \/ \E s \in Settings : ChangeSettings(s)
           \/ \E w \in Workers, now \in Nows : RemoveMember(w, now)
  BY <1>3, <1>4, <1>6 DEF ChangeSettings, RemoveMember, Rewritten, Written
<1>7. CASE \E now \in Nows : Sweep(now)
  <2>1. PICK now \in Nows : Sweep(now)
    BY <1>7
  <2>2. /\ DOMAIN Swept(bookings, now) = DOMAIN bookings
        /\ \A i \in DOMAIN bookings : Swept(bookings, now)[i] = Expire(bookings[i], now)
    BY DEF Swept
  <2>3. Rewritten(bookings, Swept(bookings, now))
    BY <2>2 DEF Rewritten, Written
  <2> QED
    BY <1>3, <1>4, <2>1, <2>3 DEF Sweep
<1>8. CASE \E c \in Clients, ws \in WorkerChoices, t \in Time, dur \in Durations,
              bucket \in Buckets, step \in BOOLEAN, now \in Nows :
              BookOnline(c, ws, t, dur, bucket, step, now)
  <2>1. PICK c \in Clients, ws \in WorkerChoices, t \in Time, dur \in Durations,
             bucket \in Buckets, step \in BOOLEAN, now \in Nows :
             BookOnline(c, ws, t, dur, bucket, step, now)
    BY <1>8
  <2>2. PICK status \in {"awaiting_payment", "pending", "confirmed"}, queue \in SUBSET Workers,
             expires \in Nat \cup {NoTime} :
          Place(Swept(bookings, now), queue, c, "booking_page", bucket, t, dur, status, expires,
                "client", now)
    <3> DEFINE status == IF step THEN "awaiting_payment"
                         ELSE IF settings.auto_confirm THEN "confirmed" ELSE "pending"
               expires == CASE status = "awaiting_payment" -> now + CheckoutTTL
                            [] status = "pending" -> now + settings.ttl
                            [] OTHER -> NoTime
               queue == Eligible(Swept(bookings, now), ws, t, dur, 0, now)
    <3>1. Place(Swept(bookings, now), queue, c, "booking_page", bucket, t, dur, status, expires,
                "client", now)
      BY <2>1 DEF BookOnline
    <3>2. status \in {"awaiting_payment", "pending", "confirmed"}
      OBVIOUS
    <3>3. queue \in SUBSET Workers
      BY DEF WorkerChoices, Eligible
    <3>4. settings.ttl \in Nat /\ CheckoutTTL \in Nat /\ now \in Nat
      BY NowsTime, BookingsAssumption DEF BookingsAssumption, SettingsType, IInv, TypeOK
    <3>5. expires \in Nat \cup {NoTime}
      BY <3>4
    <3> HIDE DEF status, expires, queue
    <3> QED
      BY <3>1, <3>2, <3>3, <3>5
  <2>3. c \notin erased
    BY <2>1 DEF BookOnline
  <2>4. PICK r : Fresh(r) /\ bookings' = Append(Swept(bookings, now), r)
    BY <2>2, <2>3, PlaceFresh
  <2> QED
    BY <1>1, <1>2, <1>3, <1>4, <2>1, <2>4, AppendRewritten DEF BookOnline
<1>9. CASE \E actor \in Members, c \in Clients, ws \in WorkerChoices, t \in Time,
              dur \in Durations, override \in BOOLEAN, now \in Nows :
              Book(actor, c, ws, t, dur, override, now)
  <2>1. PICK actor \in Members, c \in Clients, ws \in WorkerChoices, t \in Time,
             dur \in Durations, override \in BOOLEAN, now \in Nows :
             Book(actor, c, ws, t, dur, override, now)
    BY <1>9
  <2>2. PICK queue : Place(Swept(bookings, now), queue, c, "merchant", NoBucket, t, dur,
                           "confirmed", NoTime, ActorKind(actor), now)
    BY <2>1 DEF Book
  <2>3. c \notin erased
    BY <2>1 DEF Book
  <2>4. PICK r : Fresh(r) /\ bookings' = Append(Swept(bookings, now), r)
    BY <2>2, <2>3, PlaceFresh
  <2> QED
    BY <1>1, <1>2, <1>3, <1>4, <2>1, <2>4, AppendRewritten DEF Book
<1>10. CASE \E i \in Ids, target \in Targets, actor \in Members,
               seen \in Time \cup {NoTime}, now \in Nows :
               Transition(i, target, actor, seen, now)
  <2>1. PICK i \in Ids, target \in Targets, actor \in Members,
             seen \in Time \cup {NoTime}, now \in Nows :
             Transition(i, target, actor, seen, now)
    BY <1>10
  <2>2. PICK r : r = Settled(bookings[i], target, ActorKind(actor), 0)
    OBVIOUS
  <2>3. Answered(bookings[i], r) /\ bookings' = Put(bookings, i, r)
    BY <2>1, <2>2 DEF Transition, Answered
  <2> QED
    BY <1>3, <1>4, <2>1, <2>3, PutRewritten DEF Written, Transition
<1>11. CASE \E i \in Ids, echo \in {0, 100}, now \in Nows : ClientCancel(i, echo, now)
  <2>1. PICK i \in Ids, echo \in {0, 100}, now \in Nows : ClientCancel(i, echo, now)
    BY <1>11
  <2>2. PICK r : r = Settled(bookings[i], "cancelled_by_client", "client",
                             linkDecide(bookings[i], now).refund_pct)
    OBVIOUS
  <2>3. Withdrawn(bookings[i], r) /\ bookings' = Put(bookings, i, r)
    BY <2>1, <2>2 DEF ClientCancel, Withdrawn
  <2> QED
    BY <1>3, <1>4, <2>1, <2>3, PutRewritten DEF Written, ClientCancel
<1>12. CASE \E i \in Ids, t \in Time, seen \in Time, now \in Nows :
              \E count \in 0 .. bookings[i].count : ClientReschedule(i, t, count, seen, now)
  <2>1. PICK i \in Ids, t \in Time, seen \in Time, now \in Nows :
             \E count \in 0 .. bookings[i].count : ClientReschedule(i, t, count, seen, now)
    BY <1>12
  <2>2. t \in Nat /\ bookings[i].worker \in Workers
    BY <1>1 DEF Time, Row
  <2>3. bookings[i].client \notin erased
    BY <2>1 DEF ClientReschedule, LinkLive
  <2>4. bookings[i].status \in {"pending", "confirmed"}
    BY <2>1 DEF ClientReschedule, LinkLive, WhereClientCancel
  <2>5. PICK r : /\ r = PendingMove(bookings[i], t) \/ r = Reschedule(bookings[i], t)
                 /\ bookings' = Put(Swept(bookings, now), i, r)
    BY <2>1 DEF ClientReschedule
  <2>6. Shifted(bookings[i], r)
    BY <2>2, <2>3, <2>5, <2>4 DEF Shifted
  <2> QED
    BY <1>3, <1>4, <2>1, <2>5, <2>6, PutRewritten DEF Written, ClientReschedule
<1>13. CASE \E i \in Ids, w \in Workers, t \in Time, actor \in Members,
              override \in BOOLEAN, now \in Nows :
              MerchantReschedule(i, w, t, actor, override, now)
  <2>1. PICK i \in Ids, w \in Workers, t \in Time, actor \in Members,
             override \in BOOLEAN, now \in Nows :
             MerchantReschedule(i, w, t, actor, override, now)
    BY <1>13
  <2>2. t \in Nat
    BY DEF Time
  <2>3. bookings[i].client \notin erased
    BY <2>1 DEF MerchantReschedule, WhereMove
  <2>4. bookings[i].status \in {"pending", "confirmed"}
    BY <2>1 DEF MerchantReschedule
  <2>5. PICK r : r = Move(bookings[i], t, w) /\ bookings' = Put(Swept(bookings, now), i, r)
    BY <2>1 DEF MerchantReschedule
  <2>6. Shifted(bookings[i], r)
    BY <2>2, <2>3, <2>5, <2>4 DEF Shifted
  <2> QED
    BY <1>3, <1>4, <2>1, <2>5, <2>6, PutRewritten DEF Written, MerchantReschedule
<1>14. CASE \E i \in Ids, payment \in {"checked", "paid"}, now \in Nows :
              CardLands(i, payment, now)
  <2>1. PICK i \in Ids, payment \in {"checked", "paid"}, now \in Nows :
             CardLands(i, payment, now)
    BY <1>14
  <2>2. PICK r : /\ Landed(bookings[i], r)
                 /\ bookings' = Put(bookings, i, r)
    BY <2>1 DEF CardLands, Landed
  <2> QED
    BY <1>3, <1>4, <2>1, <2>2, PutRewritten DEF Written, CardLands
<1>15. CASE \E i \in Ids : GiveBack(i)
  <2>1. PICK i \in Ids : GiveBack(i)
    BY <1>15
  <2>2. /\ WhereExpireOne(bookings[i])
        /\ bookings' = Put(bookings, i, ExpireOne(bookings[i]))
    BY <2>1 DEF GiveBack
  <2>3. Written(bookings[i], ExpireOne(bookings[i]))
    BY <2>2 DEF Written
  <2> QED
    BY <1>3, <1>4, <2>1, <2>2, <2>3, PutRewritten DEF GiveBack
<1> QED
  BY <1>5, <1>6, <1>7, <1>8, <1>9, <1>10, <1>11, <1>12, <1>13, <1>14, <1>15 DEF Next
-----------------------------------------------------------------------------
(* Money and erasure, one row at a time *)

\* A payment is open only on a running checkout or on one the system ended, so what lands later
\* never lands on a row that a worker ended; and what a worker ended was not paid.
MoneyOK(r) ==
  /\ r.payment = "open"
       => r.status = "awaiting_payment" \/ (r.status = "expired" /\ r.last.actor = "system")
  /\ r.status \in REFUNDING /\ r.last.actor = "worker" => r.payment # "paid"

\* What is completed has started.
PastOK(r, time) == r.status = "completed" => r.starts <= time

\* What an erased client still has was over, or had lapsed, for every transaction still to come.
\* A completed row counts: an owner may correct it back to confirmed.
GoneOK(r, clients, oldest) ==
  r.client \in clients =>
    /\ r.status \in {"confirmed", "completed"} => r.starts <= oldest
    /\ r.status \in EXPIRING => r.expires <= oldest

\* The three of every row of a table.
RowsOK(rows, time, clients, oldest) ==
  \A i \in DOMAIN rows :
    MoneyOK(rows[i]) /\ PastOK(rows[i], time) /\ GoneOK(rows[i], clients, oldest)

\* The strengthening the two invariants of money and erasure need, beside IInv.
RowsIInv == RowsOK(bookings, clock, erased, floor)

\* A status change and its event change nothing else.
LEMMA SettledFields ==
  ASSUME NEW r \in Row, NEW status, NEW actor, NEW pct
  PROVE  LET s == Settled(r, status, actor, pct) IN
         /\ s.status = status /\ s.last.actor = actor /\ s.last.pct = pct
         /\ s.payment = r.payment /\ s.client = r.client /\ s.starts = r.starts
         /\ s.expires = r.expires
  BY DEF Settled, Row

\* A move keeps the row's status, client, money and newest event.
LEMMA ShiftedFields ==
  ASSUME NEW r \in Row, NEW s, Shifted(r, s)
  PROVE  /\ s.status = r.status /\ s.client = r.client /\ s.payment = r.payment
         /\ s.last = r.last /\ s.expires = r.expires /\ r.client \notin erased
<1>1. PICK t \in Nat, w \in Workers :
        s = PendingMove(r, t) \/ s = Reschedule(r, t) \/ s = Move(r, t, w)
  BY DEF Shifted
<1>2. CASE s = PendingMove(r, t)
  BY <1>2 DEF Shifted, PendingMove, Row
<1>3. CASE s = Reschedule(r, t)
  BY <1>3 DEF Shifted, Reschedule, Row
<1>4. CASE s = Move(r, t, w)
  BY <1>4 DEF Shifted, Move, Row
<1> QED
  BY <1>1, <1>2, <1>3, <1>4

\* What lands takes up a checkout that still runs, or changes only the payment.
LEMMA LandedFields ==
  ASSUME NEW r \in Row, NEW s, Landed(r, s)
  PROVE  /\ r.payment = "open" /\ s.payment # "open"
         /\ s.client = r.client /\ s.starts = r.starts /\ s.last = r.last
         /\ \/ /\ r.status = "awaiting_payment" /\ s.status \in {"pending", "confirmed"}
               /\ \E now \in Nows : r.expires > now
            \/ s.status = r.status /\ s.expires = r.expires
<1>1. PICK payment \in {"checked", "paid"}, now \in Nows :
        LET p == [r EXCEPT !.payment = payment] IN
        /\ r.payment = "open"
        /\ s = IF WherePaid(p, now) THEN Paid(p, settings.ttl, now) ELSE p
  BY DEF Landed
<1>2. PICK p : p = [r EXCEPT !.payment = payment]
  OBVIOUS
<1>3. /\ p.payment = payment /\ p.client = r.client /\ p.starts = r.starts /\ p.last = r.last
      /\ p.status = r.status /\ p.expires = r.expires
  BY <1>2 DEF Row
<1>4. CASE WherePaid(p, now)
  <2>1. s = Paid(p, settings.ttl, now)
    BY <1>1, <1>2, <1>4
  <2>2. /\ s.payment = p.payment /\ s.client = p.client /\ s.starts = p.starts /\ s.last = p.last
        /\ s.status \in {"pending", "confirmed"}
    BY <1>2, <2>1 DEF Paid, Row
  <2>3. r.status = "awaiting_payment" /\ r.expires > now
    BY <1>3, <1>4 DEF WherePaid
  <2> QED
    BY <1>1, <1>3, <2>2, <2>3
<1>5. CASE ~ WherePaid(p, now)
  <2>1. s = p
    BY <1>1, <1>2, <1>5
  <2> QED
    BY <1>1, <1>3, <2>1
<1> QED
  BY <1>4, <1>5

\* A member's answer: from a source of its target, in time, and with the owner's right where money
\* would go back.
LEMMA AnsweredFields ==
  ASSUME NEW r \in Row, NEW s, Answered(r, s)
  PROVE  /\ s.payment = r.payment /\ s.client = r.client /\ s.starts = r.starts
         /\ r.status \in {"pending", "confirmed", "completed"}
         /\ s.status \in Targets
         /\ \E now \in Nows :
              /\ r.status \in EXPIRING => r.expires > now
              /\ s.status = "completed" => r.starts <= now
         /\ s.status = "confirmed" => r.status \in {"pending", "completed"}
         /\ s.status \in REFUNDING /\ s.last.actor = "worker" => r.payment # "paid"
<1>1. PICK target \in Targets, actor \in Members, seen \in Time \cup {NoTime}, now \in Nows :
        /\ MayTransition(r, target, actor, now)
        /\ WhereTransition(r, target, seen, now)
        /\ s = Settled(r, target, ActorKind(actor), 0)
  BY DEF Answered
<1>2. /\ s.status = target /\ s.last.actor = ActorKind(actor)
      /\ s.payment = r.payment /\ s.client = r.client /\ s.starts = r.starts
  BY <1>1, SettledFields
<1>3. /\ TRANSITIONS[target].sources \subseteq {"pending", "confirmed", "completed"}
      /\ target = "completed" => TRANSITIONS[target].past_only
      /\ target = "confirmed" => TRANSITIONS[target].sources = {"pending", "completed"}
  BY DEF Targets, TRANSITIONS
<1>4. target \in REFUNDING /\ ActorKind(actor) = "worker" => r.payment # "paid"
  BY <1>1 DEF MayTransition, ActorKind
<1>5. /\ r.status \in TRANSITIONS[target].sources
      /\ r.status \in EXPIRING => r.expires > now
      /\ TRANSITIONS[target].past_only => r.starts <= now
  BY <1>1 DEF WhereTransition
<1> QED
  BY <1>2, <1>3, <1>4, <1>5

\* EXPIRE ends a hold for the system, or leaves the row.
LEMMA ExpiredFields ==
  ASSUME NEW r \in Row, NEW now
  PROVE  LET s == Expire(r, now) IN
         \/ s = r
         \/ /\ s.status = "expired" /\ s.last.actor = "system" /\ r.status \in EXPIRING
            /\ s.payment = r.payment
  BY SettledFields DEF Expire, WhereExpire

\* Every writer but an erasure keeps the three: its clock is between the
\* oldest transaction's and the wall clock.
LEMMA WrittenKeeps ==
  ASSUME IInv, NEW r \in Row, NEW s \in Row, MoneyOK(r), PastOK(r, clock),
         GoneOK(r, erased, floor), Written(r, s)
  PROVE  MoneyOK(s) /\ PastOK(s, clock) /\ GoneOK(s, erased, floor)
<1>1. /\ clock \in Nat /\ floor \in Nat
      /\ \A now \in Nows : now \in Nat /\ floor <= now /\ now <= clock
  BY NowsTime DEF IInv, TypeOK, Time, Nows
<1>2. /\ r.starts \in Nat /\ s.starts \in Nat /\ r.expires \in Nat \cup {NoTime}
      /\ s.expires \in Nat \cup {NoTime}
  BY DEF Row
<1>3. CASE s = r
  BY <1>3
<1>4. CASE \E now \in Nows : s = Expire(r, now)
  <2>1. CASE s = r
    BY <2>1
  <2>2. CASE /\ s.status = "expired" /\ s.last.actor = "system" /\ r.status \in EXPIRING
             /\ s.payment = r.payment
    BY <2>2 DEF MoneyOK, PastOK, GoneOK, EXPIRING, REFUNDING
  <2> QED
    BY <1>4, <2>1, <2>2, ExpiredFields
<1>5. CASE Answered(r, s)
  <2>1. /\ s.payment = r.payment /\ s.client = r.client /\ s.starts = r.starts
        /\ r.status \in {"pending", "confirmed", "completed"}
        /\ s.status \in Targets
        /\ s.status = "confirmed" => r.status \in {"pending", "completed"}
        /\ s.status \in REFUNDING /\ s.last.actor = "worker" => r.payment # "paid"
    BY <1>5, AnsweredFields
  <2>2. PICK now \in Nows : /\ r.status \in EXPIRING => r.expires > now
                            /\ s.status = "completed" => r.starts <= now
    BY <1>5, AnsweredFields
  <2>3. s.status \notin EXPIRING
    BY <2>1 DEF Targets, EXPIRING
  <2>4. MoneyOK(s)
    BY <2>1 DEF MoneyOK
  <2>5. PastOK(s, clock)
    BY <1>1, <1>2, <2>1, <2>2 DEF PastOK
  <2>6. GoneOK(s, erased, floor)
    <3> SUFFICES ASSUME s.client \in erased, s.status \in {"confirmed", "completed"}
                 PROVE  s.starts <= floor
      BY <2>3 DEF GoneOK
    <3>1. r.status # "pending"
      BY <1>1, <1>2, <2>1, <2>2 DEF GoneOK, EXPIRING, NoTime
    <3> QED
      BY <2>1, <3>1 DEF GoneOK
  <2> QED
    BY <2>4, <2>5, <2>6
<1>6. CASE Withdrawn(r, s)
  <2>1. s.status = "cancelled_by_client" /\ s.last.actor = "client" /\ s.payment = r.payment
    BY <1>6, SettledFields DEF Withdrawn
  <2>2. r.status \in {"confirmed", "pending"}
    BY <1>6 DEF Withdrawn, WhereClientCancel
  <2> QED
    BY <2>1, <2>2 DEF MoneyOK, PastOK, GoneOK, EXPIRING
<1>7. CASE Shifted(r, s)
  <2>1. /\ s.status = r.status /\ s.client = r.client /\ s.payment = r.payment
        /\ s.last = r.last /\ r.client \notin erased
    BY <1>7, ShiftedFields
  <2>2. r.status \in {"confirmed", "pending"}
    BY <1>7 DEF Shifted
  <2> QED
    BY <2>1, <2>2 DEF MoneyOK, PastOK, GoneOK
<1>8. CASE Landed(r, s)
  <2>1. /\ r.payment = "open" /\ s.payment # "open"
        /\ s.client = r.client /\ s.starts = r.starts /\ s.last = r.last
        /\ \/ /\ r.status = "awaiting_payment" /\ s.status \in {"pending", "confirmed"}
              /\ \E now \in Nows : r.expires > now
           \/ s.status = r.status /\ s.expires = r.expires
    BY <1>8, LandedFields
  <2>2. CASE /\ r.status = "awaiting_payment" /\ s.status \in {"pending", "confirmed"}
             /\ \E now \in Nows : r.expires > now
    <3>1. r.client \notin erased
      BY <1>1, <1>2, <2>2 DEF GoneOK, EXPIRING, NoTime
    <3> QED
      BY <2>1, <2>2, <3>1 DEF MoneyOK, PastOK, GoneOK, REFUNDING
  <2>3. CASE s.status = r.status /\ s.expires = r.expires
    <3>1. MoneyOK(s)
      BY <2>1, <2>3 DEF MoneyOK, REFUNDING
    <3> QED
      BY <2>1, <2>3, <3>1 DEF PastOK, GoneOK
  <2> QED
    BY <2>1, <2>2, <2>3
<1>9. CASE WhereExpireOne(r) /\ s = ExpireOne(r)
  <2>1. s.status = "expired" /\ s.last.actor = "system" /\ s.payment = r.payment
    BY <1>9, SettledFields DEF ExpireOne
  <2> QED
    BY <2>1 DEF MoneyOK, PastOK, GoneOK, EXPIRING
<1> QED
  BY <1>3, <1>4, <1>5, <1>6, <1>7, <1>8, <1>9 DEF Written

\* END_FOR_ERASURE keeps the money's part, and leaves the client nothing after the clock: what it
\* does not end had started, or lapsed, at the erasure's own earlier time.
LEMMA ErasureKeeps ==
  ASSUME IInv, NEW r \in Row, MoneyOK(r), PastOK(r, clock), GoneOK(r, erased, floor),
         NEW c, NEW at \in Time, at <= clock
  PROVE  LET s == EndForErasure(r, c, at) IN
         MoneyOK(s) /\ PastOK(s, clock) /\ GoneOK(s, erased \cup {c}, clock)
<1>1. clock \in Nat /\ floor \in Nat /\ floor <= clock /\ at \in Nat
  BY DEF IInv, TypeOK, Time
<1>2. r.starts \in Nat /\ r.expires \in Nat \cup {NoTime} /\ NoTime \in Int
  BY DEF Row, NoTime
<1>3. PICK s : s = EndForErasure(r, c, at)
  OBVIOUS
<1>4. CASE WhereEndForErasure(r, c, at)
  <2>1. PICK status : status = IF r.status = "awaiting_payment" THEN "expired"
                               ELSE "cancelled_by_merchant"
    OBVIOUS
  <2>2. s = Settled(r, status, "system", 0)
    BY <1>3, <1>4, <2>1 DEF EndForErasure
  <2>3. s.status = status /\ s.last.actor = "system" /\ s.payment = r.payment
    BY <2>2, SettledFields
  <2>4. r.payment = "open" => status = "expired"
    BY <1>4, <2>1 DEF MoneyOK, WhereEndForErasure, EXPIRING
  <2>5. status \notin EXPIRING /\ status \notin {"confirmed", "completed"}
    BY <2>1 DEF EXPIRING
  <2>6. MoneyOK(s) /\ PastOK(s, clock) /\ GoneOK(s, erased \cup {c}, clock)
    BY <2>3, <2>4, <2>5 DEF MoneyOK, PastOK, GoneOK
  <2> QED
    BY <1>3, <2>6
<1>5. CASE ~ WhereEndForErasure(r, c, at)
  <2>1. s = r
    BY <1>3, <1>5 DEF EndForErasure
  <2>2. CASE r.client = c
    <3>1. r.status = "confirmed" => r.starts <= clock
      BY <1>1, <1>2, <1>5, <2>2 DEF WhereEndForErasure
    <3>2. r.status \in EXPIRING => r.expires <= clock
      BY <1>1, <1>2, <1>5, <2>2 DEF WhereEndForErasure
    <3>3. GoneOK(r, erased \cup {c}, clock)
      BY <3>1, <3>2 DEF GoneOK, PastOK
    <3> QED
      BY <1>3, <2>1, <3>3
  <2>3. CASE r.client # c
    <3>1. GoneOK(r, erased \cup {c}, clock)
      BY <1>1, <1>2, <2>3 DEF GoneOK
    <3> QED
      BY <1>3, <2>1, <3>1
  <2> QED
    BY <2>2, <2>3
<1> QED
  BY <1>4, <1>5

\* A row just placed has nothing to do with an erased client, a worker's refund or the past.
LEMMA FreshKeeps ==
  ASSUME NEW s, Fresh(s)
  PROVE  MoneyOK(s) /\ PastOK(s, clock) /\ GoneOK(s, erased, floor)
  BY DEF Fresh, MoneyOK, PastOK, GoneOK, REFUNDING

\* Every step keeps the strengthening.
LEMMA NextRowsIInv == IInv /\ RowsIInv /\ [Next]_vars => RowsIInv'
<1> SUFFICES ASSUME IInv, RowsIInv, [Next]_vars PROVE RowsOK(bookings', clock', erased', floor')
  BY DEF RowsIInv
<1>1. /\ bookings \in Seq(Row) /\ \A i \in DOMAIN bookings : bookings[i] \in Row
      /\ \A i \in DOMAIN bookings : /\ MoneyOK(bookings[i]) /\ PastOK(bookings[i], clock)
                                    /\ GoneOK(bookings[i], erased, floor)
  BY DEF IInv, Good, RowsIInv, RowsOK
<1>2. \A i \in DOMAIN bookings' : bookings'[i] \in Row
  BY NextIInv DEF IInv, Good
<1>3. CASE \E c \in Clients, at \in Time : ReapplyErasure(c, at)
  <2>1. PICK c \in Clients, at \in Time : ReapplyErasure(c, at)
    BY <1>3
  <2>2. /\ DOMAIN bookings' = DOMAIN bookings /\ at <= clock
        /\ \A i \in DOMAIN bookings : bookings'[i] = EndForErasure(bookings[i], c, at)
        /\ erased' = erased \cup {c} /\ floor' = clock /\ clock' = clock
    BY <2>1 DEF ReapplyErasure, Ids
  <2>3. \A i \in DOMAIN bookings :
          LET s == EndForErasure(bookings[i], c, at) IN
          MoneyOK(s) /\ PastOK(s, clock) /\ GoneOK(s, erased \cup {c}, clock)
    BY <1>1, <2>2, ErasureKeeps
  <2> QED
    BY <2>2, <2>3 DEF RowsOK
<1>4. CASE ~ \E c \in Clients, at \in Time : ReapplyErasure(c, at)
  <2>1. Rewritten(bookings, bookings') /\ UNCHANGED <<erased, floor>> /\ clock <= clock'
    BY <1>4, StepRewritten
  <2>2. clock \in Nat /\ clock' \in Nat
    BY NextIInv DEF IInv, TypeOK, Time
  <2>3. ASSUME NEW i \in DOMAIN bookings'
        PROVE  /\ MoneyOK(bookings'[i]) /\ PastOK(bookings'[i], clock)
               /\ GoneOK(bookings'[i], erased, floor)
    <3>1. PICK s : s = bookings'[i]
      OBVIOUS
    <3>2. CASE i \in DOMAIN bookings
      <4>1. PICK r : r = bookings[i]
        OBVIOUS
      <4>2. /\ r \in Row /\ s \in Row /\ Written(r, s)
            /\ MoneyOK(r) /\ PastOK(r, clock) /\ GoneOK(r, erased, floor)
        BY <1>1, <1>2, <2>1, <3>1, <3>2, <4>1 DEF Rewritten
      <4> QED
        BY <3>1, <4>2, WrittenKeeps
    <3>3. CASE i \notin DOMAIN bookings
      <4>1. Fresh(s)
        BY <2>1, <3>1, <3>3 DEF Rewritten
      <4> QED
        BY <3>1, <4>1, FreshKeeps
    <3> QED
      BY <3>2, <3>3
  <2>4. \A i \in DOMAIN bookings' : PastOK(bookings'[i], clock')
    <3> SUFFICES ASSUME NEW i \in DOMAIN bookings' PROVE PastOK(bookings'[i], clock')
      OBVIOUS
    <3>1. bookings'[i].starts \in Nat
      BY <1>2 DEF Row
    <3> QED
      BY <2>1, <2>2, <2>3, <3>1 DEF PastOK
  <2> QED
    BY <2>1, <2>3, <2>4 DEF RowsOK
<1> QED
  BY <1>3, <1>4

\* Both invariants hold of every behaviour.
LEMMA RowsInvariant == Spec => [](IInv /\ RowsIInv)
<1>1. Init => IInv /\ RowsIInv
  BY InitIInv DEF Init, RowsIInv, RowsOK
<1>2. IInv /\ RowsIInv /\ [Next]_vars => IInv' /\ RowsIInv'
  BY NextIInv, NextRowsIInv
<1> QED
  BY <1>1, <1>2, PTL DEF Spec

\* A worker who is not an owner never sends the business's money back.
THEOREM WorkersKeepTheMoney == Spec => []WorkersNeverRefund
<1>1. RowsIInv => WorkersNeverRefund
  BY DEF RowsIInv, RowsOK, MoneyOK, WorkersNeverRefund, Ids
<1> QED
  BY <1>1, RowsInvariant, PTL

\* What END_FOR_ERASURE leaves has nothing live at a later clock: a row that it ended is closed, a
\* row that it kept was not live at the earlier time.
LEMMA NothingRefused ==
  ASSUME IInv, NEW r \in Row, NEW c, NEW at \in Time, at <= clock
  PROVE  ~ WhereEndForErasure(EndForErasure(r, c, at), c, clock)
<1>1. clock \in Nat /\ at \in Nat
  BY DEF IInv, TypeOK, Time
<1>2. r.starts \in Nat /\ r.expires \in Nat \cup {NoTime} /\ NoTime \in Int
  BY DEF Row, NoTime
<1>3. PICK s : s = EndForErasure(r, c, at)
  OBVIOUS
<1>4. CASE WhereEndForErasure(r, c, at)
  <2>1. s.status \in {"expired", "cancelled_by_merchant"}
    BY <1>3, <1>4, SettledFields DEF EndForErasure
  <2> QED
    BY <1>3, <2>1 DEF WhereEndForErasure, EXPIRING
<1>5. CASE ~ WhereEndForErasure(r, c, at)
  <2>1. s = r
    BY <1>3, <1>5 DEF EndForErasure
  <2>2. ~ WhereEndForErasure(r, c, clock)
    BY <1>1, <1>2, <1>5 DEF WhereEndForErasure
  <2> QED
    BY <1>3, <2>1, <2>2
<1> QED
  BY <1>4, <1>5

\* An erasure is final, and never stuck, in every order of bookings, moves, answers and late
\* payments across it.
THEOREM ErasedForGood == Spec => []ErasuresHold
<1>1. IInv /\ RowsIInv => ErasedHaveNothingToCome
  <2> SUFFICES ASSUME IInv, RowsIInv, NEW i \in Ids, NEW now \in Nows,
                      bookings[i].client \in erased
               PROVE  ~ WhereEndForErasure(bookings[i], bookings[i].client, now)
    BY DEF ErasedHaveNothingToCome
  <2>1. PICK r : r = bookings[i]
    OBVIOUS
  <2>2. r \in Row /\ GoneOK(r, erased, floor) /\ r.client \in erased
    BY <2>1 DEF IInv, Good, RowsIInv, RowsOK, Ids
  <2>3. now \in Nat /\ floor \in Nat /\ floor <= now
    BY NowsTime DEF IInv, TypeOK, Time, Nows
  <2>4. r.starts \in Nat /\ r.expires \in Nat \cup {NoTime} /\ NoTime \in Int
    BY <2>2 DEF Row, NoTime
  <2>5. ~ (r.status = "confirmed" /\ r.starts > now)
    BY <2>2, <2>3, <2>4 DEF GoneOK
  <2>6. ~ (r.status \in EXPIRING /\ r.expires > now)
    BY <2>2, <2>3, <2>4 DEF GoneOK
  <2> QED
    BY <2>1, <2>5, <2>6 DEF WhereEndForErasure
<1>2. IInv => ErasureNeverRefused
  <2> SUFFICES ASSUME IInv, NEW c \in Clients, NEW at \in Time, at <= clock, NEW i \in Ids
               PROVE  ~ WhereEndForErasure(EndForErasure(bookings[i], c, at), c, clock)
    BY DEF ErasureNeverRefused, CoreRefuses
  <2>1. bookings[i] \in Row
    BY DEF IInv, Good, Ids
  <2> QED
    BY <2>1, NothingRefused
<1>3. IInv /\ RowsIInv => ErasuresHold
  BY <1>1, <1>2 DEF ErasuresHold
<1> QED
  BY <1>3, RowsInvariant, PTL

\* The slot check's carve-out and EXPIRE agree to the tick: what one offers, the constraint lets in
\* after the other.
THEOREM OffersAreFree == Spec => []OfferedIsFree
<1>1. IInv => OfferedIsFree
  <2> SUFFICES ASSUME IInv, NEW now \in Nows, NEW w \in Workers, NEW t \in Time,
                      NEW dur \in Durations, NEW skip \in Ids \cup {0},
                      SlotOffered(bookings, w, t, dur, Grid[w], now + settings.notice, Buffer,
                                  skip, now),
                      NEW i \in DOMAIN Swept(bookings, now) \ {skip},
                      Swept(bookings, now)[i].worker = w,
                      Swept(bookings, now)[i].status \in OCCUPYING,
                      Swept(bookings, now)[i].starts < t + dur,
                      t < Ends(Swept(bookings, now)[i])
               PROVE  FALSE
    BY DEF OfferedIsFree, ExclusionFree
  <2>1. PICK r : r = bookings[i]
    OBVIOUS
  <2>2. i \in DOMAIN bookings \ {skip} /\ Swept(bookings, now)[i] = Expire(r, now)
    BY <2>1 DEF Swept
  <2>3. r \in Row /\ RowOK(r)
    BY <2>1, <2>2 DEF IInv, Good
  <2>4. Expire(r, now) = r /\ r.status \in OCCUPYING
    BY <2>2, <2>3, ExpiredFields DEF OCCUPYING
  <2>5. ~ WhereExpire(r, now)
    BY <2>3, <2>4, SettledFields DEF Expire, WhereExpire, EXPIRING
  <2>6. now \in Nat /\ t \in Nat /\ dur \in Nat /\ Buffer \in Nat
    BY NowsTime, BookingsAssumption DEF Time, BookingsAssumption
  <2>7. r.starts \in Nat /\ r.dur \in Nat /\ r.expires \in Nat \cup {NoTime} /\ NoTime \in Int
    BY <2>3 DEF Row, NoTime
  <2>8. r.status \in EXPIRING => r.expires > now
    BY <2>3, <2>5, <2>6, <2>7 DEF RowOK, WhereExpire
  <2>9. i \in BookedRows(bookings, w, skip, now)
    BY <2>1, <2>2, <2>4, <2>8 DEF BookedRows
  <2>10. r.starts < t + dur /\ t < Ends(r) + Buffer
    BY <2>2, <2>4, <2>6, <2>7 DEF Ends
  <2>11. MeetsAny(bookings, BookedRows(bookings, w, skip, now), Buffer, t, t + dur)
    BY <2>1, <2>9, <2>10 DEF MeetsAny
  <2> QED
    BY <2>11 DEF SlotOffered
<1> QED
  BY <1>1, Invariant, PTL

\* A request or a checkout is taken up only while its hold ran when the transaction opened.
THEOREM NoLateTakeUp == Spec => TakenUpInTime
<1>1. ASSUME IInv, [Next]_vars, NEW i \in Ids, bookings[i].status \in EXPIRING,
             bookings'[i].status \in OCCUPYING, bookings'[i].status # bookings[i].status
      PROVE  bookings[i].expires > clock - MaxWait
  <2>1. PICK r : r = bookings[i]
    OBVIOUS
  <2>2. PICK s : s = bookings'[i]
    OBVIOUS
  <2>3. r \in Row /\ r.status \in EXPIRING /\ s.status \in OCCUPYING /\ s.status # r.status
    BY <1>1, <2>1, <2>2 DEF IInv, Good, Ids
  <2>4. /\ r.expires \in Nat \cup {NoTime} /\ NoTime \in Int /\ MaxWait \in Nat /\ clock \in Nat
        /\ \A now \in Nows : now \in Nat /\ now >= clock - MaxWait
    BY <1>1, <2>3, NowsTime, BookingsAssumption
       DEF Row, NoTime, Nows, BookingsAssumption, IInv, TypeOK, Time
  <2>5. SUFFICES \E now \in Nows : r.expires > now
    BY <2>1, <2>4
  <2>6. CASE \E c \in Clients, at \in Time : ReapplyErasure(c, at)
    <3>1. \E c, at : s = EndForErasure(r, c, at)
      BY <1>1, <2>1, <2>2, <2>6 DEF ReapplyErasure
    <3>2. s.status \in {r.status, "expired", "cancelled_by_merchant"}
      BY <2>3, <3>1, SettledFields DEF EndForErasure
    <3> QED
      BY <2>3, <3>2 DEF OCCUPYING
  <2>7. CASE Written(r, s)
    <3>1. CASE \E now \in Nows : s = Expire(r, now)
      BY <2>3, <3>1, ExpiredFields DEF OCCUPYING
    <3>2. CASE Answered(r, s)
      BY <2>3, <3>2, AnsweredFields
    <3>3. CASE Withdrawn(r, s)
      BY <2>3, <3>3, SettledFields DEF Withdrawn, OCCUPYING
    <3>4. CASE Shifted(r, s)
      BY <2>3, <3>4, ShiftedFields
    <3>5. CASE Landed(r, s)
      BY <2>3, <3>5, LandedFields
    <3>6. CASE WhereExpireOne(r) /\ s = ExpireOne(r)
      BY <2>3, <3>6, SettledFields DEF ExpireOne, OCCUPYING
    <3> QED
      BY <2>3, <2>7, <3>1, <3>2, <3>3, <3>4, <3>5, <3>6 DEF Written
  <2>8. ~ (\E c \in Clients, at \in Time : ReapplyErasure(c, at)) => Written(r, s)
    BY <1>1, <2>1, <2>2, StepRewritten DEF Rewritten, Ids
  <2> QED
    BY <2>6, <2>7, <2>8
<1>2. IInv /\ [Next]_vars
        => [\A i \in Ids :
              (/\ bookings[i].status \in EXPIRING
               /\ bookings'[i].status \in OCCUPYING
               /\ bookings'[i].status # bookings[i].status)
              => bookings[i].expires > clock - MaxWait]_vars
  BY <1>1
<1> QED
  BY <1>2, Invariant, PTL DEF Spec, TakenUpInTime

\* A client's cancellation is settled at a clock that is behind, never ahead: in doubt, for the
\* client.
THEOREM CancelInFavour == Spec => CancelFavoursTheClient
<1>1. ASSUME IInv, [Next]_vars, NEW i \in Ids, bookings[i].status = "confirmed",
             bookings'[i].status = "cancelled_by_client"
      PROVE  LET r == bookings[i]
                 pct == bookings'[i].last.pct
             IN  /\ r.earliest - clock >= r.free => pct = 100
                 /\ pct = 100 => r.earliest - (clock - MaxWait) >= r.free
  <2>1. PICK r : r = bookings[i]
    OBVIOUS
  <2>2. PICK s : s = bookings'[i]
    OBVIOUS
  <2>3. /\ r \in Row /\ RowOK(r) /\ r.status = "confirmed" /\ s.status = "cancelled_by_client"
    BY <1>1, <2>1, <2>2 DEF IInv, Good, Ids
  <2>4. CASE \E c \in Clients, at \in Time : ReapplyErasure(c, at)
    <3>1. \E c, at : s = EndForErasure(r, c, at)
      BY <1>1, <2>1, <2>2, <2>4 DEF ReapplyErasure
    <3>2. s.status \in {r.status, "expired", "cancelled_by_merchant"}
      BY <2>3, <3>1, SettledFields DEF EndForErasure
    <3> QED
      BY <2>3, <3>2
  <2>5. CASE Withdrawn(r, s)
    <3>1. PICK now \in Nows :
            /\ WhereClientCancel(r, now)
            /\ s = Settled(r, "cancelled_by_client", "client", linkDecide(r, now).refund_pct)
      BY <2>5 DEF Withdrawn
    <3>2. s.last.pct = decide(r, now).refund_pct
      BY <2>3, <3>1, SettledFields DEF linkDecide
    <3>3. /\ r.earliest \in Nat /\ r.starts \in Nat /\ r.free \in Nat /\ clock \in Nat
          /\ MaxWait \in Nat /\ now \in Nat /\ now >= clock - MaxWait /\ now <= clock
      BY <1>1, <2>3, NowsTime, BookingsAssumption
         DEF Row, Nows, BookingsAssumption, IInv, TypeOK, Time
    <3>4. r.starts > now
      BY <3>1 DEF WhereClientCancel
    <3>5. s.last.pct = IF r.earliest - now >= r.free THEN 100 ELSE 0
      BY <3>2, <3>3, <3>4 DEF decide
    <3>6. /\ r.earliest - clock >= r.free => r.earliest - now >= r.free
          /\ r.earliest - now >= r.free => r.earliest - (clock - MaxWait) >= r.free
      BY <3>3
    <3> QED
      BY <2>1, <2>2, <3>5, <3>6
  <2>6. CASE Written(r, s)
    <3>1. CASE \E now \in Nows : s = Expire(r, now)
      BY <2>3, <3>1, ExpiredFields
    <3>2. CASE Answered(r, s)
      BY <2>3, <3>2, AnsweredFields DEF Targets
    <3>3. CASE Shifted(r, s)
      BY <2>3, <3>3, ShiftedFields
    <3>4. CASE Landed(r, s)
      BY <2>3, <3>4, LandedFields
    <3>5. CASE WhereExpireOne(r) /\ s = ExpireOne(r)
      BY <2>3, <3>5 DEF WhereExpireOne
    <3> QED
      BY <2>3, <2>5, <2>6, <3>1, <3>2, <3>3, <3>4, <3>5 DEF Written
  <2>7. ~ (\E c \in Clients, at \in Time : ReapplyErasure(c, at)) => Written(r, s)
    BY <1>1, <2>1, <2>2, StepRewritten DEF Rewritten, Ids
  <2> QED
    BY <2>4, <2>6, <2>7
<1>2. IInv /\ [Next]_vars
        => [\A i \in Ids :
              (bookings[i].status = "confirmed" /\ bookings'[i].status = "cancelled_by_client")
              => LET r == bookings[i]
                     pct == bookings'[i].last.pct
                 IN  /\ r.earliest - clock >= r.free => pct = 100
                     /\ pct = 100 => r.earliest - (clock - MaxWait) >= r.free]_vars
  BY <1>1
<1> QED
  BY <1>2, Invariant, PTL DEF Spec, CancelFavoursTheClient

=============================================================================
