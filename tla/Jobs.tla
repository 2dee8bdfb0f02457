-------------------------------- MODULE Jobs --------------------------------
(***************************************************************************)
(* The job queue (backend/app/jobs.py) and the worker's loop over it        *)
(* (backend/app/worker.py), for the jobs of one dedupe key.  Jobs of        *)
(* different keys do not touch one another.                                 *)
(*                                                                          *)
(* Any number of workers claim from the table; a claim is a lease by time   *)
(* alone (next_attempt_at), which is also the backoff.  A worker may die at *)
(* any point.  A handler that timed out runs on in its thread but tells the *)
(* queue nothing more: what it does beside its retry is in the modules of   *)
(* the handlers (Checkout, Refunds).                                        *)
(*                                                                          *)
(* Times are kept relative to now, which JobsTick moves: wait is            *)
(* next_attempt_at - now, late is now - due_at, kept the time since the job *)
(* was over, left what is left of a run's timeout.                          *)
(***************************************************************************)
EXTENDS Integers, FiniteSets

CONSTANTS
  Minute,       \* ticks in the lease of a first attempt
  Timeout,      \* JobKind.timeout
  Grace,        \* JobKind.grace
  Retention,    \* RETENTION_DAYS
  MaxDelay      \* bound: how far ahead a job is due

MAX_ATTEMPTS == 5

\* 2 ^ attempts, for the attempts a job has before a claim.
Powers == <<1, 2, 4, 8, 16>>

\* What a job waited through in all before its last attempt.
AllBackoffs == 15 * Minute

\* Neglect is counted up to what makes a job late by it alone.
NeglectCap == Grace - AllBackoffs + 1

\* JobKind: "timeout stays below the one-minute lease; grace must be longer than the retry backoff".
ASSUME JobsAssumption ==
  /\ Minute \in Nat /\ Timeout \in Nat /\ Grace \in Nat /\ Retention \in Nat /\ MaxDelay \in Nat
  /\ 0 < Timeout /\ Timeout < Minute
  /\ AllBackoffs < Grace
  /\ Minute < Retention

VARIABLES
  job,          \* the key's row of jobs
  runs,         \* what became of each attempt's run
  left,         \* of each run's timeout
  neglect       \* how long the job was claimable and no worker took it

jobsVars == <<job, runs, left, neglect>>

Attempts == 1 .. MAX_ATTEMPTS

NoJob == [state |-> "none", attempts |-> 0, wait |-> 0, late |-> 0, kept |-> 0]

JobsTypeOK ==
  /\ job \in [state : {"none", "waiting", "done", "skipped"}, attempts : 0 .. MAX_ATTEMPTS,
              wait : 0 .. 16 * Minute + MaxDelay, late : (- MaxDelay) .. (Grace + 1),
              kept : 0 .. Retention]
  /\ runs \in [Attempts -> {"none", "running", "recording", "skipping"}]
  /\ left \in [Attempts -> 0 .. Timeout]
  /\ neglect \in 0 .. NeglectCap

JobsInit ==
  /\ job = NoJob
  /\ runs = [a \in Attempts |-> "none"]
  /\ left = [a \in Attempts |-> 0]
  /\ neglect = 0

-----------------------------------------------------------------------------

\* ON CONFLICT DO NOTHING: only a key with no row gets one.
Enqueue ==
  /\ job.state = "none"
  /\ \E delay \in 0 .. MaxDelay :
       job' = [NoJob EXCEPT !.state = "waiting", !.wait = delay, !.late = - delay]
  /\ neglect' = 0
  /\ UNCHANGED <<runs, left>>

ClaimableMutant(j) == j.state # "none" /\ j.attempts < MAX_ATTEMPTS /\ j.wait = 0

Claimable(j) == j.state = "waiting" /\ j.attempts < MAX_ATTEMPTS /\ j.wait = 0

NoLeaseMutant(attempts) == Minute * (Powers[attempts + 1] - 1)

Backoff(attempts) == Minute * Powers[attempts + 1]

ClaimedMutant(j) == [j EXCEPT !.wait = Backoff(j.attempts)]

\* CLAIM's assignments.
Claimed(j) == [j EXCEPT !.attempts = @ + 1, !.wait = Backoff(j.attempts)]

TooLateMutant(j) == j.late > Timeout

TooLate(j) == j.late > Grace

\* A worker claims the job and _run begins: too late, or with its handler.
Claim ==
  /\ Claimable(job)
  /\ job' = Claimed(job)
  /\ LET a == job.attempts + 1 IN
     /\ runs' = [runs EXCEPT ![a] = IF TooLate(job) THEN "skipping" ELSE "running"]
     /\ left' = [left EXCEPT ![a] = Timeout]
  /\ UNCHANGED neglect

\* The handler returned: its job is recorded done in a step of its own.
HandlerReturns(a) ==
  /\ runs[a] = "running"
  /\ runs' = [runs EXCEPT ![a] = "recording"]
  /\ UNCHANGED <<job, left, neglect>>

\* It raised, timed out, or its worker died: the job waits out its lease.
RunFails(a) ==
  /\ runs[a] # "none"
  /\ runs' = [runs EXCEPT ![a] = "none"]
  /\ UNCHANGED <<job, left, neglect>>

\* completed_at, by the row's id and whatever became of it since.
Record(a) ==
  /\ runs[a] \in {"recording", "skipping"}
  /\ job' = IF job.state = "none" THEN job
            ELSE [job EXCEPT !.state = IF runs[a] = "skipping" THEN "skipped" ELSE "done",
                             !.kept = 0]
  /\ runs' = [runs EXCEPT ![a] = "none"]
  /\ UNCHANGED <<left, neglect>>

\* Finished, skipped, or given up: the last attempt's lease has run out.
Over(j) == j.state \in {"done", "skipped"} \/ (j.attempts = MAX_ATTEMPTS /\ j.wait = 0)

Prunable(j) == j.state # "none" /\ Over(j) /\ j.kept = Retention

\* A row that is gone is recorded by nobody.
Prune ==
  /\ Prunable(job)
  /\ job' = NoJob
  /\ runs' = [a \in Attempts |-> IF runs[a] = "running" THEN "running" ELSE "none"]
  /\ neglect' = 0
  /\ UNCHANGED left

-----------------------------------------------------------------------------

Cap(n, top) == IF n < top THEN n ELSE top

Less(n) == IF n = 0 THEN 0 ELSE n - 1

\* Time passes; a run's timeout is not missed (RunFails has it).
JobsTick ==
  /\ \A a \in Attempts : runs[a] = "running" => left[a] > 0
  /\ job' = IF job.state = "none" THEN job
            ELSE [job EXCEPT !.wait = Less(@), !.late = Cap(@ + 1, Grace + 1),
                             !.kept = IF Over(job) THEN Cap(@ + 1, Retention) ELSE @]
  /\ left' = [a \in Attempts |-> Less(left[a])]
  /\ neglect' = IF Claimable(job) THEN Cap(neglect + 1, NeglectCap) ELSE neglect
  /\ UNCHANGED runs

JobsNext ==
  \/ Enqueue \/ Claim \/ Prune \/ JobsTick
  \/ \E a \in Attempts : HandlerReturns(a) \/ RunFails(a) \/ Record(a)

JobsSpec == JobsInit /\ [][JobsNext]_jobsVars

\* Some worker is up often enough to claim, and a run does not stay in one step for ever.
JobsFairSpec ==
  /\ JobsSpec
  /\ WF_jobsVars(JobsTick) /\ WF_jobsVars(Claim)
  /\ \A a \in Attempts : WF_jobsVars(HandlerReturns(a) \/ RunFails(a) \/ Record(a))

-----------------------------------------------------------------------------
(* Properties *)

\* However many workers claim, die and retry, no two of them are inside a handler of the same job,
\* but for one that has timed out: the lease outlasts the timeout.
OneLiveRun ==
  Cardinality({a \in Attempts : runs[a] = "running"}) <= 1

\* prune never takes away a job whose handler is at work, not even the last attempt's.
PruneSparesWork ==
  [][job.state # "none" /\ job'.state = "none" => \A a \in Attempts : runs[a] # "running"]_jobsVars

\* Retries do not turn into skips: a job is skipped only when no worker took it for longer than its
\* grace leaves after every backoff.
SkippedOnlyIfNeglected ==
  job.state = "skipped" => neglect > Grace - AllBackoffs

PromiseOf(j) == IF j.state = "none" THEN "none" ELSE IF Over(j) THEN "settled" ELSE "owed"

Working == \E a \in Attempts : runs[a] = "running"

Promise == INSTANCE JobPromise WITH promise <- PromiseOf(job), working <- Working

\* Leases, retries, late records and pruning add up to the promise of module JobPromise: once asked,
\* one worker at a time, never again once settled, and a key free again only after that.
KeepsItsPromise == Promise!Spec

\* Every job is done, skipped or given up in the end, though workers die on it.
EveryJobEnds ==
  (job.state = "waiting") ~> (Over(job) \/ job.state = "none")

=============================================================================
