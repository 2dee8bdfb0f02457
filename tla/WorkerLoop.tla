----------------------------- MODULE WorkerLoop -----------------------------
(***************************************************************************)
(* The worker's loop (worker.work) and its retention run (retention.sweep,  *)
(* and sweep_booking_origins of 0074): drain the jobs, prune and sweep when *)
(* due, run retention when due, ping when all went well, wait.              *)
(*                                                                          *)
(* What a step calls may be broken for a while, or from some day on for     *)
(* good: every failure is caught, and withholds the ping, which raises the  *)
(* alarm outside.  Time is counted in polls.                                *)
(***************************************************************************)
EXTENDS Naturals, FiniteSets

CONSTANTS
  SweepPolls, RetentionPolls, BacklogPolls,  \* SWEEP_SECONDS and so on
  Businesses,         \* 1 .. Businesses, in the order of their ids
  CallBusinesses,     \* how many one call of sweep_booking_origins visits; it clears one address
  MAX_BATCHES,
  MaxOld,             \* bound: addresses that come of age
  MaxFaults           \* bound: changes of what is broken, and restarts

ASSUME WorkerLoopAssumption ==
  /\ SweepPolls \in Nat \ {0} /\ RetentionPolls \in Nat \ {0} /\ BacklogPolls \in 1 .. RetentionPolls
  /\ Businesses \in Nat \ {0} /\ CallBusinesses \in Nat \ {0} /\ MAX_BATCHES \in Nat \ {0}
  /\ MaxOld \in Nat /\ MaxFaults \in Nat

Steps == {"drain", "prune", "holds", "bookings", "retention"}

VARIABLES
  at,                 \* the step the loop is at
  healthy, failed,    \* the iteration's flags
  sinceSweep,         \* polls since the last successful sweep; SweepPolls: due, or never
  sinceSwept,         \* polls since the sweeps last went through, as they did (not a variable of the loop)
  untilRetention,     \* polls until retention is due
  ran,                \* the sweeps this iteration ran
  batches,            \* of this retention run
  walk,               \* WALK.start; 0 is None
  old,                \* booking events' addresses past their period, of each business
  aged,               \* how many came of age
  broken,             \* what fails at the moment
  faults,
  hold                \* retention.Hold, as the worker was started with it

loopVars == <<at, healthy, failed, sinceSweep, sinceSwept, untilRetention, ran, batches, walk, old, aged,
              broken, faults, hold>>

LoopTypeOK ==
  /\ at \in Steps \cup {"ping", "pinged", "wait"} /\ healthy \in BOOLEAN /\ failed \in BOOLEAN
  /\ sinceSweep \in 0 .. SweepPolls /\ sinceSwept \in 0 .. SweepPolls
  /\ untilRetention \in 0 .. RetentionPolls
  /\ ran \subseteq Steps /\ batches \in 0 .. MAX_BATCHES
  /\ walk \in 0 .. Businesses /\ old \in [1 .. Businesses -> 0 .. MaxOld] /\ aged \in 0 .. MaxOld
  /\ broken \subseteq Steps /\ faults \in 0 .. MaxFaults
  /\ hold \in {"off", "on", "past", "invalid"}

LoopInit ==
  /\ at = "drain" /\ failed = FALSE /\ ran = {}
  /\ sinceSweep = SweepPolls /\ sinceSwept = SweepPolls /\ untilRetention = 0
  /\ batches = 0 /\ walk = 0 /\ old = [t \in 1 .. Businesses |-> 0] /\ aged = 0
  /\ broken = {} /\ faults = 0
  /\ hold \in {"off", "on", "past", "invalid"} /\ healthy = (hold # "invalid")

-----------------------------------------------------------------------------
Unswept == UNCHANGED <<sinceSweep, sinceSwept>>

Outside == UNCHANGED <<walk, old, aged, broken, faults, hold, untilRetention, batches>>

\* The iteration's try is left by an exception: no ping, and on to retention.
Caught == at' = "retention" /\ healthy' = FALSE /\ UNCHANGED <<failed, ran>>

\* run_once until nothing is due.
Drain ==
  /\ at = "drain"
  /\ IF "drain" \in broken THEN Caught
     ELSE /\ at' = IF sinceSweep = SweepPolls THEN "prune" ELSE "retention"
          /\ UNCHANGED <<healthy, failed, ran>>
  /\ Unswept /\ Outside

PruneJobs ==
  /\ at = "prune"
  /\ IF "prune" \in broken THEN Caught
     ELSE at' = "holds" /\ failed' = FALSE /\ ran' = {} /\ UNCHANGED healthy
  /\ Unswept /\ Outside

\* erasure_holds.sweep: a failure is remembered.
SweepHolds ==
  /\ at = "holds"
  /\ failed' = ("holds" \in broken) /\ ran' = ran \cup {"holds"}
  /\ at' = "bookings"
  /\ UNCHANGED healthy /\ Unswept /\ Outside

SweepBookingsMutant ==
  /\ at = "bookings"
  /\ ran' = ran \cup {"bookings"} /\ at' = "retention"
  /\ sinceSweep' = 0 /\ UNCHANGED <<healthy, failed>>
  /\ sinceSwept' = IF failed \/ "bookings" \in broken THEN sinceSwept ELSE 0
  /\ Outside

\* bookings.sweep; swept is stamped when neither failed.
SweepBookings ==
  /\ at = "bookings"
  /\ ran' = ran \cup {"bookings"} /\ at' = "retention"
  /\ IF failed \/ "bookings" \in broken
     THEN healthy' = FALSE /\ Unswept
     ELSE sinceSweep' = 0 /\ sinceSwept' = 0 /\ UNCHANGED healthy
  /\ UNCHANGED failed /\ Outside

-----------------------------------------------------------------------------
(* The retention run *)

Held == hold \in {"on", "invalid"}

\* sweep_booking_origins, from p_from.
VisitedFrom(from) == {t \in 1 .. Businesses : from <= t /\ t < from + CallBusinesses}

First(S) == CHOOSE t \in S : \A u \in S : t <= u

NextWalkMutant(first, due) == 0

\* next_tenant: the business it stopped at, the one after the last it visited, or none.
NextWalk(first, due) ==
  IF due # {} THEN First(due)
  ELSE IF first + CallBusinesses <= Businesses THEN first + CallBusinesses ELSE 0

\* One batch: every step still to do, the pass over the businesses among them unless the evidence is
\* held.  The run ends with nothing left, its batches or its time used up.
RetentionBatch ==
  LET first == IF walk = 0 THEN 1 ELSE walk
      due == {t \in VisitedFrom(first) : old[t] > 0} IN
  /\ at = "retention" /\ untilRetention = 0 /\ "retention" \notin broken
  /\ IF Held THEN UNCHANGED <<walk, old>>
     ELSE /\ walk' = NextWalk(first, due)
          /\ old' = IF due = {} THEN old ELSE [old EXCEPT ![First(due)] = @ - 1]
  /\ \/ /\ \E polls \in {RetentionPolls, BacklogPolls} :
             /\ polls = RetentionPolls => Held \/ walk' = 0
             /\ untilRetention' = polls
        /\ at' = "ping" /\ batches' = 0
     \/ batches + 1 < MAX_BATCHES /\ batches' = batches + 1 /\ UNCHANGED <<at, untilRetention>>
  /\ UNCHANGED <<healthy, failed, ran, aged, broken, faults, hold>> /\ Unswept

RetentionFails ==
  /\ at = "retention" /\ untilRetention = 0 /\ "retention" \in broken
  /\ at' = "ping" /\ healthy' = FALSE /\ batches' = 0
  /\ UNCHANGED <<failed, ran, walk, old, aged, broken, faults, hold, untilRetention>> /\ Unswept

RetentionNotDue ==
  /\ at = "retention" /\ untilRetention > 0
  /\ at' = "ping"
  /\ UNCHANGED <<healthy, failed, ran>> /\ Unswept /\ Outside

-----------------------------------------------------------------------------
Ping ==
  /\ at = "ping"
  /\ at' = IF healthy THEN "pinged" ELSE "wait"
  /\ UNCHANGED <<healthy, failed, ran>> /\ Unswept /\ Outside

Later(n) == IF n < SweepPolls THEN n + 1 ELSE n

\* POLL_SECONDS pass, and the loop begins again.
WaitForPoll ==
  /\ at \in {"wait", "pinged"}
  /\ at' = "drain" /\ healthy' = (hold # "invalid") /\ failed' = FALSE /\ ran' = {}
  /\ sinceSweep' = Later(sinceSweep) /\ sinceSwept' = Later(sinceSwept)
  /\ untilRetention' = IF untilRetention > 0 THEN untilRetention - 1 ELSE 0
  /\ UNCHANGED <<batches, walk, old, aged, broken, faults, hold>>

\* The process is restarted: what it kept in memory is gone.
RestartWorker ==
  /\ faults < MaxFaults /\ faults' = faults + 1
  /\ at' = "drain" /\ healthy' = (hold # "invalid") /\ failed' = FALSE /\ ran' = {}
  /\ sinceSweep' = SweepPolls /\ untilRetention' = 0 /\ batches' = 0 /\ walk' = 0
  /\ UNCHANGED <<sinceSwept, old, aged, broken, hold>>

\* Something breaks, or is mended.
Breaks(step) ==
  /\ faults < MaxFaults /\ faults' = faults + 1
  /\ broken' = (broken \ {step}) \cup ({step} \ broken)
  /\ UNCHANGED <<at, healthy, failed, ran, batches, walk, old, aged, hold, untilRetention>> /\ Unswept

\* Hold.held: the date a hold was set to has come.
HoldEnds ==
  /\ hold = "on" /\ hold' = "past"
  /\ UNCHANGED <<at, healthy, failed, ran, batches, walk, old, aged, broken, faults, untilRetention>> /\ Unswept

\* A booking event's address comes of age.
Ages(t) ==
  /\ aged < MaxOld /\ aged' = aged + 1
  /\ old' = [old EXCEPT ![t] = @ + 1]
  /\ UNCHANGED <<at, healthy, failed, ran, batches, walk, broken, faults, hold, untilRetention>> /\ Unswept

LoopStep ==
  \/ Drain \/ PruneJobs \/ SweepHolds \/ SweepBookings
  \/ RetentionBatch \/ RetentionFails \/ RetentionNotDue \/ Ping \/ WaitForPoll

LoopNext ==
  \/ LoopStep \/ RestartWorker \/ HoldEnds
  \/ \E step \in Steps : Breaks(step)
  \/ \E t \in 1 .. Businesses : Ages(t)

\* asyncio runs the loop on, and every call in it has a timeout.
LoopFairSpec == LoopInit /\ [][LoopNext]_loopVars /\ WF_loopVars(LoopStep)

-----------------------------------------------------------------------------
(* Properties *)

\* The ping goes out only while the sweeps really went through lately, and never while the value of
\* the retention hold is invalid: silence outside means that somebody must look.
PingMeansSwept == at = "pinged" => sinceSwept < SweepPolls /\ hold # "invalid"

\* However long one sweep is broken, the other runs again and again, unless the jobs or the prune
\* before them are broken too.
SweepsKeepRunning ==
  \A sweep \in {"holds", "bookings"} :
    <>[](broken \cap {"drain", "prune"} = {}) => []<>(sweep \in ran)

\* No business is starved: an address past its period is cleared in the end, however often a run is
\* cut short, unless the evidence is held or retention stays broken.
NoBusinessStarved ==
  <>[](~ Held /\ "retention" \notin broken) => \A t \in 1 .. Businesses : []<>(old[t] = 0)

=============================================================================
