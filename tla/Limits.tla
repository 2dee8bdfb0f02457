------------------------------- MODULE Limits -------------------------------
(***************************************************************************)
(* The rate limits (backend/app/limits.py), as the online booking uses them *)
(* (bookings.create): a placement is reserved before the booking is placed, *)
(* with a count that is exact under the row's lock, and given back when     *)
(* nothing is placed.  Every count is of a fixed window, which may end and  *)
(* start again while a request is on its way.  A call of hit() holds one of *)
(* its address's slots, and one of its network's, in this process's memory. *)
(* One business, one mailbox.                                               *)
(***************************************************************************)
EXTENDS Integers, FiniteSets

CONSTANTS
  Requests, Hosts,
  Limit,              \* [key -> its limit]: "verify" and "placed" of the mailbox, "unproven"
  MAX_IN_FLIGHT, MAX_IN_FLIGHT_PER_48,
  Window,             \* of every key here
  MaxClock            \* bound: the time

Placements == {"verify", "placed"}

ASSUME LimitsAssumption ==
  /\ IsFiniteSet(Requests)
  /\ Limit \in [Placements \cup {"unproven"} -> Nat]
  /\ MAX_IN_FLIGHT \in Nat \ {0} /\ MAX_IN_FLIGHT_PER_48 \in Nat \ {0}
  /\ Window \in Nat \ {0} /\ MaxClock \in Nat

LimitKeys == DOMAIN Limit

VARIABLES
  clock,
  counted,            \* rate_limits: [key -> [start, hits]]; stray counts a window's foreign refunds
  inFlight,           \* _in_flight: [bucket -> calls]
  requests            \* what each request for a booking is doing

limitVars == <<clock, counted, inFlight, requests>>

\* All hosts are of one IPv6 /48, the bucket "network".
Buckets == Hosts \cup {"network"}

NoWindow == -1

\* now: the clock of the transaction it is in; reserved: the keys to give back; in: the window each
\* key was charged in.
RequestType ==
  [pc : {"new", "hitting", "reserved", "placing", "giving", "placed", "refused"},
   host : Hosts, proven : BOOLEAN, now : 0 .. MaxClock, reserved : SUBSET LimitKeys,
   in : [LimitKeys -> NoWindow .. MaxClock]]

LimitsTypeOK ==
  /\ clock \in 0 .. MaxClock
  /\ counted \in [LimitKeys -> [start : NoWindow - Window .. MaxClock, hits : Nat, stray : Nat]]
  /\ inFlight \in [Buckets -> Nat]
  /\ requests \in [Requests -> RequestType]

LimitsInit ==
  /\ clock = 0
  /\ counted = [k \in LimitKeys |-> [start |-> NoWindow - Window, hits |-> 0, stray |-> 0]]
  /\ inFlight = [b \in Buckets |-> 0]
  /\ requests \in [Requests -> {[pc |-> "new", host |-> h, proven |-> p, now |-> 0, reserved |-> {},
                                 in |-> [k \in LimitKeys |-> NoWindow]] :
                                h \in Hosts, p \in BOOLEAN}]

-----------------------------------------------------------------------------
Live(row, now) == row.start > now - Window

\* HIT, on one key.
Hit(row, now) ==
  IF Live(row, now) THEN [row EXCEPT !.hits = @ + 1]
  ELSE [start |-> now, hits |-> 1, stray |-> 0]

\* _charge: one attempt against each of keys.
ChargeKeys(keys, now) ==
  counted' = [k \in LimitKeys |-> IF k \in keys THEN Hit(counted[k], now) ELSE counted[k]]

\* What q has reserved, and in which windows.
Reserving(q, keys, pc) ==
  requests' = [requests EXCEPT ![q].pc = pc, ![q].reserved = @ \cup keys,
                               ![q].in = [k \in LimitKeys |-> IF k \in keys THEN counted'[k].start ELSE @[k]]]

Full(host) ==
  inFlight[host] >= MAX_IN_FLIGHT \/ inFlight["network"] >= MAX_IN_FLIGHT_PER_48

BucketsOf(host) == {host, "network"}

Take(host) == inFlight' = [b \in Buckets |-> inFlight[b] + IF b \in BucketsOf(host) THEN 1 ELSE 0]

Release(host) == inFlight' = [b \in Buckets |-> inFlight[b] - IF b \in BucketsOf(host) THEN 1 ELSE 0]

\* hit() begins: _slot, and a transaction.
BeginHit(q) ==
  /\ requests[q].pc = "new" /\ ~ Full(requests[q].host)
  /\ Take(requests[q].host)
  /\ requests' = [requests EXCEPT ![q].pc = "hitting", ![q].now = clock]
  /\ UNCHANGED <<clock, counted>>

RefuseAtCapMutant(q) ==
  /\ requests[q].pc = "new" /\ Full(requests[q].host)
  /\ requests' = [requests EXCEPT ![q].pc = "giving", ![q].reserved = Placements]
  /\ UNCHANGED <<clock, counted, inFlight>>

\* AtCap: raised before anything is counted, so there is nothing to give back.
RefuseAtCap(q) ==
  /\ requests[q].pc = "new" /\ Full(requests[q].host)
  /\ requests' = [requests EXCEPT ![q].pc = "refused"]
  /\ UNCHANGED <<clock, counted, inFlight>>

\* The placements are counted; over a limit, they are given back.
EndHit(q) ==
  /\ requests[q].pc = "hitting"
  /\ ChargeKeys(Placements, requests[q].now)
  /\ Reserving(q, Placements,
               IF \E k \in Placements : counted'[k].hits > Limit[k] THEN "giving" ELSE "reserved")
  /\ Release(requests[q].host)
  /\ UNCHANGED clock

\* The transaction fails: nothing is counted, and the slot is given up all the same.
FailHit(q) ==
  /\ requests[q].pc = "hitting"
  /\ requests' = [requests EXCEPT ![q].pc = "refused"]
  /\ Release(requests[q].host)
  /\ UNCHANGED <<clock, counted>>

\* An unproven booking also counts against the business; a charge that fails is not reserved.
ReserveUnproven(q) ==
  /\ requests[q].pc = "reserved" /\ ~ requests[q].proven
  /\ \/ /\ ChargeKeys({"unproven"}, clock)
        /\ Reserving(q, {"unproven"},
                     IF counted'["unproven"].hits > Limit["unproven"] THEN "giving" ELSE "placing")
     \/ UNCHANGED counted /\ requests' = [requests EXCEPT ![q].pc = "giving"]
  /\ UNCHANGED <<clock, inFlight>>

SkipUnproven(q) ==
  /\ requests[q].pc = "reserved" /\ requests[q].proven
  /\ requests' = [requests EXCEPT ![q].pc = "placing"]
  /\ UNCHANGED <<clock, counted, inFlight>>

\* book_online's transaction commits, or it does not.
PlaceBooking(q) ==
  /\ requests[q].pc = "placing"
  /\ \E pc \in {"placed", "giving"} : requests' = [requests EXCEPT ![q].pc = pc]
  /\ UNCHANGED <<clock, counted, inFlight>>

\* REFUND, on one key; a refund of another window's charge is a stray.
Refund(row, q, k) ==
  IF row.hits > 0 /\ Live(row, clock)
  THEN [row EXCEPT !.hits = @ - 1, !.stray = IF requests[q].in[k] \in {NoWindow, row.start} THEN @ ELSE @ + 1]
  ELSE row

\* give_back; one that fails leaves them counted.
GiveBack(q) ==
  /\ requests[q].pc = "giving"
  /\ \/ counted' = [k \in LimitKeys |-> IF k \in requests[q].reserved THEN Refund(counted[k], q, k)
                                        ELSE counted[k]]
     \/ UNCHANGED counted
  /\ requests' = [requests EXCEPT ![q].pc = "refused", ![q].reserved = {}]
  /\ UNCHANGED <<clock, inFlight>>

\* The process stops: its requests end where they were, and its memory is empty.
Restart ==
  /\ requests' = [q \in Requests |-> IF requests[q].pc = "placed" THEN requests[q]
                                     ELSE [requests[q] EXCEPT !.pc = "refused"]]
  /\ inFlight' = [b \in Buckets |-> 0]
  /\ UNCHANGED <<clock, counted>>

TimePasses ==
  /\ clock < MaxClock
  /\ clock' = clock + 1
  /\ UNCHANGED <<counted, inFlight, requests>>

LimitsNext ==
  \/ \E q \in Requests :
       \/ BeginHit(q) \/ RefuseAtCap(q) \/ EndHit(q) \/ FailHit(q)
       \/ ReserveUnproven(q) \/ SkipUnproven(q) \/ PlaceBooking(q) \/ GiveBack(q)
  \/ Restart \/ TimePasses

LimitsSpec == LimitsInit /\ [][LimitsNext]_limitVars

-----------------------------------------------------------------------------
(* Properties *)

\* A slot is held exactly while a call of hit() is inside it, whatever the call comes to, so no
\* address is locked out for good and none has more calls than its share (_slot).
SlotsAreCalls ==
  \A b \in Buckets :
    /\ inFlight[b] = Cardinality({q \in Requests : requests[q].pc = "hitting"
                                                     /\ b \in BucketsOf(requests[q].host)})
    /\ inFlight[b] <= IF b = "network" THEN MAX_IN_FLIGHT_PER_48 ELSE MAX_IN_FLIGHT

PlacedIn(k, w) == {q \in Requests : requests[q].pc = "placed" /\ requests[q].in[k] = w}

\* However requests race, fail and give back, no more bookings are placed in a window than its limit,
\* but for one more by each refund that reached it from an attempt of an earlier window.
PlacementsBounded ==
  \A k \in LimitKeys :
    Cardinality(PlacedIn(k, counted[k].start)) <= Limit[k] + counted[k].stray

\* The slots and the counts of hit() say how many calls run and how many bookings were placed.
LimitsInv == LimitsTypeOK /\ SlotsAreCalls /\ PlacementsBounded

=============================================================================
