------------------------------ MODULE Calendar ------------------------------
(***************************************************************************)
(* One worker's calendar on one day: the working hours and the business's   *)
(* opening hours (backend/app/schedule.py), time off (time_off.py), and the *)
(* slots offered between them (availability.py).                            *)
(*                                                                          *)
(* Hours are local times, 0 .. Day; appointments and time off are instants. *)
(* The clock may change in the day: at Jump.at it skips Jump.by ticks, or   *)
(* goes back where that is negative.                                        *)
(*                                                                          *)
(* A booking writer and a time off writer hold the business's lock, so each *)
(* is one step, but now() is its transaction's, taken before the wait.      *)
(***************************************************************************)
EXTENDS Integers, FiniteSets, SequencesExt

CONSTANTS
  Day, Step, Jumps,     \* the local day, slot_step_minutes, the clock changes to look at
  Services,             \* [name -> [duration, buffer]]; buffer -1 is no override
  Pct,                  \* buffer_pct
  Weeks, OpeningWeeks,  \* sets of shifts an owner may save, good and bad
  Blocks,               \* the blocks of time off somebody may ask for
  OverrideAt,           \* the starts somebody books by override
  Savers,               \* owners saving the opening week
  MaxBookings, MaxBlocks, MaxNow    \* bounds

\* The clock changes on the slot grid: steps divide the hour, and changes are of whole hours, but for the
\* half hour of Lord Howe, which business_settings.py (slot_step_minutes) leaves out too.
ASSUME CalendarAssumption ==
  /\ Day \in Nat /\ Step \in Nat \ {0} /\ Pct \in 0 .. 100
  /\ \A j \in Jumps :
       /\ j.at \in 0 .. Day /\ j.by \in Int /\ j.at + j.by \in 0 .. Day
       /\ j.by < Day /\ j.at % Step = 0 /\ j.by % Step = 0
  /\ \A s \in DOMAIN Services :
       Services[s].duration \in Nat \ {0} /\ Services[s].buffer \in Nat \cup {-1}
  /\ {} \in Weeks
  /\ \A week \in Weeks \cup OpeningWeeks :
       week \subseteq (0 .. Day - 1) \X (0 .. Day - 1) /\ IsFiniteSet(week)
  /\ \A k \in Blocks : k.kind \in {"hours", "days"} /\ k.from \in Int /\ k.to \in Int
  /\ OverrideAt \subseteq Int
  /\ MaxBookings \in Nat /\ MaxBlocks \in Nat /\ MaxNow \in Nat

VARIABLES
  jump,                 \* the business's timezone, on this day
  hours, opening,       \* working_hours of the worker and opening_hours: sets of <<from, to>>
  saves,                \* opening weeks being saved
  blocks,               \* time_off of the worker
  booked,               \* its bookings
  today                 \* the clock

calendarVars == <<jump, hours, opening, saves, blocks, booked, today>>

NoOverride == -1

\* by: how it came onto the calendar; "late" is a request accepted after it lapsed.
Appointments ==
  [from : Int, to : Int, service : DOMAIN Services, status : {"pending", "confirmed"},
   expires : 0 .. MaxNow + 1, by : {"slot", "override", "late"}]

CalendarTypeOK ==
  /\ jump \in Jumps
  /\ hours \in Weeks /\ opening \subseteq UNION OpeningWeeks
  /\ saves \in [Savers -> [pc : {"idle", "locked", "deleted"}, week : OpeningWeeks \cup {{}},
                           gone : SUBSET UNION OpeningWeeks]]
  /\ blocks \subseteq Blocks /\ booked \subseteq Appointments
  /\ today \in 0 .. MaxNow

-----------------------------------------------------------------------------
(* schedule.py *)

Instants == 0 .. Day - jump.by

\* What the clock shows.
Wall(i) == IF i < jump.at THEN i ELSE i + jump.by

\* to_utc: the first instant that shows it, or, of a time the clock skips, the one it jumps to.
ToUtc(at) ==
  LET shown == Min({Wall(i) : i \in {j \in Instants : Wall(j) >= at}})
  IN  Min({i \in Instants : Wall(i) = shown})

Earlier(a, b) == a[1] < b[1] \/ (a[1] = b[1] /\ a[2] < b[2])

\* sorted: the n-th has n - 1 before it.
Sorted(intervals) ==
  [n \in 1 .. Cardinality(intervals) |->
     CHOOSE x \in intervals : Cardinality({y \in intervals : Earlier(y, x)}) = n - 1]

\* The loop of merged and of day_shifts: an interval is joined to the last one where they touch, or, if
\* so asked, overlap.
Join(out, next, overlap) ==
  IF out # <<>> /\ (next[1] = Last(out)[2] \/ (overlap /\ next[1] < Last(out)[2]))
  THEN [out EXCEPT ![Len(out)] = <<Last(out)[1], Max({Last(out)[2], next[2]})>>]
  ELSE Append(out, next)

\* What the loop has joined of s after n intervals.
Loop(s, overlap) ==
  LET out[n \in 0 .. Len(s)] == IF n = 0 THEN <<>> ELSE Join(out[n - 1], s[n], overlap) IN out

Joined(intervals, overlap) == Loop(Sorted(intervals), overlap)[Cardinality(intervals)]

\* day_shifts.
DayShifts(rows) == ToSet(Joined(rows, FALSE))

\* overlapping, of one day's shifts.
Overlapping(rows) ==
  LET s == Sorted(rows) IN \E i \in 1 .. Len(s) - 1 : s[i + 1][1] < s[i][2]

Within(shift, envelope) == \E o \in envelope : o[1] <= shift[1] /\ shift[2] <= o[2]

Backwards(rows) == \E s \in rows : s[2] <= s[1]

\* replace_week, under the member's row lock; a refused week changes nothing.
ReplaceWeek(rows) ==
  /\ ~ Backwards(rows) /\ ~ Overlapping(rows)
  /\ opening # {} => \A s \in rows : Within(s, DayShifts(opening))
  /\ hours' = rows
  /\ UNCHANGED <<jump, opening, saves, blocks, booked, today>>

\* lock_week is free.
LockWeek == \A o \in Savers : saves[o].pc = "idle"

\* replace_opening_hours: its checks, the DELETE of the rows it can see, the INSERT and the commit
\* (ex_opening_hours_overlap refuses what is left over).
SaveOpening(o, rows) ==
  /\ saves[o].pc = "idle" /\ LockWeek
  /\ rows # {} /\ ~ Backwards(rows) /\ ~ Overlapping(rows)
  /\ saves' = [saves EXCEPT ![o] = [pc |-> "locked", week |-> rows, gone |-> {}]]
  /\ UNCHANGED <<jump, hours, opening, blocks, booked, today>>

DeleteOpening(o) ==
  /\ saves[o].pc = "locked"
  /\ saves' = [saves EXCEPT ![o].pc = "deleted", ![o].gone = opening]
  /\ UNCHANGED <<jump, hours, opening, blocks, booked, today>>

CommitOpening(o) ==
  LET rows == (opening \ saves[o].gone) \cup saves[o].week IN
  /\ saves[o].pc = "deleted"
  /\ opening' = IF Overlapping(rows) THEN opening ELSE rows
  /\ saves' = [saves EXCEPT ![o] = [pc |-> "idle", week |-> {}, gone |-> {}]]
  /\ UNCHANGED <<jump, hours, blocks, booked, today>>

-----------------------------------------------------------------------------
(* availability.py *)

\* buffer_for: rounded up.
BufferFor(duration, override) ==
  IF override # NoOverride THEN override ELSE (duration * Pct + 99) \div 100

Merged(intervals) == Joined(intervals, TRUE)

\* clip: an opening week cuts a shift to the parts in it; none at all cuts nothing.
Clip(shifts) ==
  IF opening = {} THEN shifts
  ELSE LET pieces(s) == {<<Max({s[1], o[1]}), Min({s[2], o[2]})>> : o \in DayShifts(opening)}
       IN  {p \in UNION {pieces(s) : s \in shifts} : p[1] < p[2]}

OverlapsMutant(list, from, to) ==
  LET i == Cardinality({j \in DOMAIN list : list[j][2] < from}) + 1
  IN  i <= Len(list) /\ list[i][1] < to

\* overlaps: the first block that ends after from, by bisection, begins before to.
Overlaps(list, from, to) ==
  LET i == Cardinality({j \in DOMAIN list : list[j][2] <= from}) + 1
  IN  i <= Len(list) /\ list[i][1] < to

Anchor(at) == ((at + Step - 1) \div Step) * Step

\* A block as it lies on this day (day_span for whole days).
Span(block) == IF block.kind = "days" THEN <<0, Day - jump.by>> ELSE <<block.from, block.to>>

\* BOOKED: a request holds its time until it lapses.
Occupying(now) == {b \in booked : b.status = "confirmed" \/ b.expires > now}

Buffered(b) == <<b.from, b.to + BufferFor(b.to - b.from, Services[b.service].buffer)>>

\* The starts member_slots walks in a shift; the grid goes back from the anchor over a repeated hour.
Grid(shift, length) ==
  LET opens == ToUtc(shift[1])
      t     == ToUtc(Anchor(shift[1]))
      first == opens + ((t - opens) % Step)
  IN  IF Anchor(shift[1]) >= Day \/ ToUtc(shift[2]) <= opens THEN {}
      ELSE {s \in first .. ToUtc(shift[2]) - length : (s - first) % Step = 0}

\* member_slots, for a service.
MemberSlots(service, now) ==
  LET length   == Services[service].duration
      tail     == length + BufferFor(length, Services[service].buffer)
      bookings == Merged({<<b.from, b.to>> : b \in Occupying(now)})
      blocked  == Merged({Span(k) : k \in blocks} \cup {Buffered(b) : b \in Occupying(now)})
  IN  {s \in UNION {Grid(shift, length) : shift \in Clip(DayShifts(hours))} :
         s >= now /\ ~ Overlaps(blocked, s, s + length) /\ ~ Overlaps(bookings, s, s + tail)}

-----------------------------------------------------------------------------
(* Bookings, as the writers of bookings.py place and end them *)

\* now(), of a transaction that may have waited for the lock.
TransactionNows == {n \in 0 .. MaxNow : n <= today /\ n + 1 >= today}

Appointment(s, t, now, by) ==
  [from |-> t, to |-> t + Services[s].duration, service |-> s, by |-> by,
   status |-> IF by = "slot" THEN "pending" ELSE "confirmed",
   expires |-> IF by = "slot" THEN now + 1 ELSE 0]

Clear(b, others) == \A c \in others : b.to <= c.from \/ c.to <= b.from

\* A lapsed request is ended first, by whoever writes.
BookSlot(s, now) ==
  /\ Cardinality(booked) < MaxBookings
  /\ \E t \in MemberSlots(s, now) : booked' = Occupying(now) \cup {Appointment(s, t, now, "slot")}
  /\ UNCHANGED <<jump, hours, opening, saves, blocks, today>>

\* The merchant's override skips the grid, never the exclusion constraint.
BookOver(s, t, now) ==
  LET new == Appointment(s, t, now, "override") IN
  /\ Cardinality(booked) < MaxBookings /\ Clear(new, Occupying(now))
  /\ booked' = Occupying(now) \cup {new}
  /\ UNCHANGED <<jump, hours, opening, saves, blocks, today>>

\* transition: a request that has not lapsed, on the transaction's clock, is accepted.
AcceptBooking(b, now) ==
  /\ b \in booked /\ b.status = "pending" /\ b.expires > now
  /\ booked' = (booked \ {b})
                 \cup {[b EXCEPT !.status = "confirmed", !.expires = 0,
                                 !.by = IF b.expires <= today THEN "late" ELSE @]}
  /\ UNCHANGED <<jump, hours, opening, saves, blocks, today>>

CancelBooking(b) ==
  /\ b \in booked
  /\ booked' = booked \ {b}
  /\ UNCHANGED <<jump, hours, opening, saves, blocks, today>>

-----------------------------------------------------------------------------
(* time_off.py *)

Covers(span, b) == b.from < span[2] /\ b.to > span[1]

\* IN_THE_WAY: what the block would cover that it did not cover before.
InTheWay(block, old, now) ==
  {b \in Occupying(now) : Covers(Span(block), b) /\ b.to > now /\ ~ \E o \in old : Covers(Span(o), b)}

\* create_time_off, and update_time_off of a block it found again under the lock.
PutTimeOff(block, old, now) ==
  /\ old \subseteq blocks /\ Cardinality(old) <= 1 /\ block \notin blocks
  /\ Cardinality(blocks \ old) < MaxBlocks
  /\ block.kind = "hours" => block.from < block.to
  /\ InTheWay(block, old, now) = {}
  /\ blocks' = (blocks \ old) \cup {block}
  /\ UNCHANGED <<jump, hours, opening, saves, booked, today>>

DeleteTimeOff(block) ==
  /\ block \in blocks
  /\ blocks' = blocks \ {block}
  /\ UNCHANGED <<jump, hours, opening, saves, booked, today>>

TodayPasses ==
  /\ today < MaxNow
  /\ today' = today + 1
  /\ UNCHANGED <<jump, hours, opening, saves, blocks, booked>>

CalendarInit ==
  /\ jump \in Jumps
  /\ hours = {} /\ opening = {} /\ blocks = {} /\ booked = {} /\ today = 0
  /\ saves = [o \in Savers |-> [pc |-> "idle", week |-> {}, gone |-> {}]]

CalendarNext ==
  \/ \E rows \in Weeks : ReplaceWeek(rows)
  \/ \E o \in Savers : DeleteOpening(o) \/ CommitOpening(o) \/ \E rows \in OpeningWeeks : SaveOpening(o, rows)
  \/ \E now \in TransactionNows :
       \/ \E s \in DOMAIN Services : BookSlot(s, now) \/ \E t \in OverrideAt : BookOver(s, t, now)
       \/ \E b \in booked : AcceptBooking(b, now)
       \/ \E block \in Blocks, old \in SUBSET blocks : PutTimeOff(block, old, now)
  \/ \E b \in booked : CancelBooking(b)
  \/ \E block \in blocks : DeleteTimeOff(block)
  \/ TodayPasses

CalendarSpec == CalendarInit /\ [][CalendarNext]_calendarVars

-----------------------------------------------------------------------------
(* Properties *)

\* The week an owner sees is one that an owner saved, never two saves put together (lock_week).
OneWeekStored == opening \in OpeningWeeks \cup {{}}

Separate(rows) == \A v, w \in rows : v[1] < v[2] /\ (v # w => v[2] <= w[1] \/ w[2] <= v[1])

\* No two shifts of a stored week overlap, though overlapping() compares neighbours only.
WeeksAreSeparate == Separate(hours) /\ Separate(opening)

\* member_slots lists no start twice: two shifts, clipped and on a changed clock, have none in common.
SlotsOnce ==
  \A s \in DOMAIN Services : \A p, q \in Clip(DayShifts(hours)) :
    p # q => Grid(p, Services[s].duration) \cap Grid(q, Services[s].duration) = {}

Points(span) == span[1] .. span[2] - 1

\* member_slots by merging, clipping and bisecting offers exactly the starts on the clock's grid that
\* fit a shift and the opening hours, are free at every instant and whose buffer runs into nobody.
SlotsAreRight ==
  \A s \in DOMAIN Services :
    LET length == Services[s].duration
        tail == length + BufferFor(length, Services[s].buffer)
        shifts == {<<ToUtc(w[1]), ToUtc(w[2])>> : w \in DayShifts(hours)}
        openings == {<<ToUtc(w[1]), ToUtc(w[2])>> : w \in DayShifts(opening)}
        away == UNION {Points(Span(k)) : k \in blocks}
        kept == UNION {Points(Buffered(b)) : b \in Occupying(today)}
        busy == UNION {Points(<<b.from, b.to>>) : b \in Occupying(today)}
        Fits(windows) == UNION {w[1] .. w[2] - length : w \in windows}
        Bookable(t) ==
          /\ Wall(t) % Step = 0 /\ t >= today
          /\ opening # {} => t \in Fits(openings)
          /\ (t .. t + length - 1) \cap (away \cup kept) = {}
          /\ (t .. t + tail - 1) \cap busy = {}
    IN  MemberSlots(s, today) = {t \in Fits(shifts) : Bookable(t)}

\* Two appointments booked from the slots have the buffer between them, a fraction of it counting
\* whole, however the hours, the time off and the clock changed in between (buffer_for).
BuffersHold ==
  \A a, b \in booked :
    /\ a # b /\ a.by # "override" /\ b.by # "override" /\ a.from <= b.from
    => LET override == Services[a.service].buffer
           gap == b.from - a.to
       IN  IF override # NoOverride THEN gap >= override ELSE gap * 100 >= (a.to - a.from) * Pct

\* Nobody is off over an appointment, but for one that was put there by override, or accepted by a
\* transaction that began before it lapsed (refuse_over_bookings, under the lock).
TimeOffIsClear ==
  \A k \in blocks, b \in booked :
    Covers(Span(k), b) /\ b.to > today =>
      b.by # "slot" \/ (b.status = "pending" /\ b.expires <= today)

\* The weeks are sound and the slots are the right ones, once, and what was booked from them keeps its
\* buffer and its member.
CalendarInv ==
  /\ CalendarTypeOK
  /\ OneWeekStored /\ WeeksAreSeparate
  /\ SlotsAreRight /\ SlotsOnce
  /\ BuffersHold /\ TimeOffIsClear

=============================================================================
