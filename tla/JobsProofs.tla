----------------------------- MODULE JobsProofs -----------------------------
(***************************************************************************)
(* The queue's invariants, for every lease, timeout, grace and retention,   *)
(* and the worker's loop, for every period, number of businesses and batch. *)
(***************************************************************************)
EXTENDS Worker, FiniteSetTheorems, WellFoundedInduction, TLAPS

\* The backoffs that a job with so many attempts has begun.
Waits(attempts) == Minute * <<0, 1, 3, 7, 15, 31>>[attempts + 1]

\* A run in time is the last claim's, its lease outlasts it, and a job recorded done meanwhile (by an
\* earlier attempt's late answer) is kept at least until it ends.
Leased ==
  \A a \in Attempts : runs[a] = "running" =>
    /\ a = job.attempts
    /\ job.state # "none"
    /\ left[a] < job.wait
    /\ job.state \in {"done", "skipped"} => job.kept + left[a] <= Timeout

\* No run outlives its row.
NoRowNoRun ==
  job.state = "none" => \A a \in Attempts : runs[a] = "none"

\* A job that can still be claimed is late by its backoffs and its neglect, and by nothing else.
LateForAReason ==
  job.state = "waiting" /\ job.attempts < MAX_ATTEMPTS =>
    neglect = NeglectCap \/ job.late + job.wait <= neglect + Waits(job.attempts)

Neglected == neglect > Grace - AllBackoffs

SkipsForAReason ==
  /\ job.state = "skipped" => Neglected
  /\ \A a \in Attempts : runs[a] = "skipping" => Neglected

IInv == JobsTypeOK /\ Leased /\ NoRowNoRun /\ LateForAReason /\ SkipsForAReason

-----------------------------------------------------------------------------

\* The cap on the history of neglect is past all that a grace can leave.
LEMMA CapIsEnough == NeglectCap \in Nat /\ NeglectCap > 1 /\ NeglectCap > Grace - AllBackoffs
BY JobsAssumption DEF NeglectCap, AllBackoffs

\* What CLAIM adds to a job's wait, attempt by attempt.
LEMMA BackoffBounds ==
  ASSUME NEW n \in 0 .. 4
  PROVE  /\ Backoff(n) \in Minute .. 16 * Minute
         /\ Waits(n + 1) = Waits(n) + Backoff(n)
         /\ Waits(n) \in 0 .. AllBackoffs
<1>1. n = 0 \/ n = 1 \/ n = 2 \/ n = 3 \/ n = 4
  OBVIOUS
<1>2. Minute \in Nat
  BY JobsAssumption
<1>a. CASE n = 0
  BY <1>a, <1>2 DEF Backoff, Waits, Powers, AllBackoffs
<1>b. CASE n = 1
  BY <1>b, <1>2 DEF Backoff, Waits, Powers, AllBackoffs
<1>c. CASE n = 2
  BY <1>c, <1>2 DEF Backoff, Waits, Powers, AllBackoffs
<1>d. CASE n = 3
  BY <1>d, <1>2 DEF Backoff, Waits, Powers, AllBackoffs
<1>e. CASE n = 4
  BY <1>e, <1>2 DEF Backoff, Waits, Powers, AllBackoffs
<1> QED
  BY <1>1, <1>a, <1>b, <1>c, <1>d, <1>e

\* The invariant holds at the start.
LEMMA InitInv == JobsInit => IInv
<1> SUFFICES ASSUME JobsInit PROVE IInv
  OBVIOUS
<1> USE JobsAssumption, CapIsEnough DEF JobsInit, NoJob, Attempts, MAX_ATTEMPTS
<1>1. JobsTypeOK
  BY DEF JobsTypeOK
<1>2. Leased /\ NoRowNoRun /\ LateForAReason /\ SkipsForAReason
  BY DEF Leased, NoRowNoRun, LateForAReason, SkipsForAReason
<1> QED
  BY <1>1, <1>2 DEF IInv

\* Enqueue keeps the invariant.
LEMMA EnqueueInv == ASSUME IInv, Enqueue PROVE IInv'
<1> USE JobsAssumption, CapIsEnough DEF Attempts, MAX_ATTEMPTS
<1>1. PICK delay \in 0 .. MaxDelay :
        job' = [state |-> "waiting", attempts |-> 0, wait |-> delay, late |-> - delay, kept |-> 0]
  BY DEF Enqueue, NoJob
<1>2. \A a \in Attempts : runs[a] = "none"
  BY DEF IInv, NoRowNoRun, Enqueue
<1>3. runs' = runs /\ left' = left /\ neglect' = 0
  BY DEF Enqueue
<1>4. JobsTypeOK'
  BY <1>1, <1>3 DEF IInv, JobsTypeOK
<1>5. Leased' /\ NoRowNoRun' /\ SkipsForAReason'
  BY <1>1, <1>2, <1>3 DEF Leased, NoRowNoRun, SkipsForAReason
<1>6. Waits(0) \in Nat
  BY BackoffBounds DEF AllBackoffs
<1>7. LateForAReason'
  BY <1>1, <1>3, <1>6 DEF LateForAReason, Waits
<1> QED
  BY <1>4, <1>5, <1>7 DEF IInv

\* Claim keeps the invariant.
LEMMA ClaimInv == ASSUME IInv, Claim PROVE IInv'
<1> USE JobsAssumption, CapIsEnough DEF Attempts, MAX_ATTEMPTS
<1> DEFINE n == job.attempts
           a == n + 1
<1>1. n \in 0 .. 4 /\ job.state = "waiting" /\ job.wait = 0
  BY DEF IInv, JobsTypeOK, Claim, Claimable
<1>2. /\ Backoff(n) \in Minute .. 16 * Minute
      /\ Waits(a) = Waits(n) + Backoff(n)
      /\ Waits(n) \in 0 .. AllBackoffs
  BY <1>1, BackoffBounds
<1>3. job' = [job EXCEPT !.attempts = a, !.wait = Backoff(n)]
  BY DEF Claim, Claimed
<1>4. /\ runs' = [runs EXCEPT ![a] = IF TooLate(job) THEN "skipping" ELSE "running"]
      /\ left' = [left EXCEPT ![a] = Timeout]
      /\ neglect' = neglect
  BY DEF Claim
<1>5. JobsTypeOK'
  <2>1. job' = [state |-> job.state, attempts |-> a, wait |-> Backoff(n), late |-> job.late,
                kept |-> job.kept]
    BY <1>3 DEF IInv, JobsTypeOK
  <2>2. a \in 0 .. 5 /\ Backoff(n) \in 0 .. 16 * Minute + MaxDelay
    BY <1>1, <1>2
  <2> QED
    BY <1>4, <2>1, <2>2 DEF IInv, JobsTypeOK
<1>6. \A b \in Attempts : runs[b] # "running"
  BY <1>1 DEF IInv, JobsTypeOK, Leased
<1>7. Leased' /\ NoRowNoRun'
  BY <1>1, <1>2, <1>3, <1>4, <1>6 DEF IInv, JobsTypeOK, Leased, NoRowNoRun
<1>8. neglect = NeglectCap \/ job.late <= neglect + Waits(n)
  BY <1>1 DEF IInv, JobsTypeOK, LateForAReason
<1>9. TooLate(job) => Neglected
  BY <1>2, <1>8 DEF IInv, JobsTypeOK, TooLate, Neglected, AllBackoffs
<1>10. SkipsForAReason'
  BY <1>1, <1>3, <1>4, <1>9 DEF IInv, JobsTypeOK, SkipsForAReason, Neglected
<1>11. job'.late = job.late /\ job'.wait = Backoff(n) /\ job'.attempts = a
  BY <1>3 DEF IInv, JobsTypeOK
<1>12. LateForAReason'
  BY <1>2, <1>4, <1>8, <1>11, <1>1 DEF IInv, JobsTypeOK, LateForAReason, AllBackoffs
<1> QED
  BY <1>5, <1>7, <1>10, <1>12 DEF IInv

\* A handler that returns, and one that fails, keep the invariant.
LEMMA RunInv ==
  ASSUME IInv, NEW a \in Attempts, HandlerReturns(a) \/ RunFails(a)
  PROVE  IInv'
<1>1. /\ job' = job /\ left' = left /\ neglect' = neglect
      /\ \E to \in {"recording", "none"} : runs' = [runs EXCEPT ![a] = to]
      /\ runs[a] # "none"
  BY DEF HandlerReturns, RunFails
<1>2. JobsTypeOK' /\ Leased' /\ NoRowNoRun'
  BY <1>1 DEF IInv, JobsTypeOK, Leased, NoRowNoRun
<1>3. LateForAReason' /\ SkipsForAReason'
  BY <1>1 DEF IInv, JobsTypeOK, LateForAReason, SkipsForAReason, Neglected, Waits
<1> QED
  BY <1>2, <1>3 DEF IInv

\* Record keeps the invariant.
LEMMA RecordInv ==
  ASSUME IInv, NEW a \in Attempts, Record(a)
  PROVE  IInv'
<1> USE JobsAssumption, CapIsEnough
<1>1. job.state # "none"
  BY DEF IInv, NoRowNoRun, Record
<1>2. /\ job' = [job EXCEPT !.state = IF runs[a] = "skipping" THEN "skipped" ELSE "done", !.kept = 0]
      /\ runs' = [runs EXCEPT ![a] = "none"] /\ left' = left /\ neglect' = neglect
  BY <1>1 DEF Record
<1>3. JobsTypeOK'
  <2>1. job' = [state |-> IF runs[a] = "skipping" THEN "skipped" ELSE "done",
                attempts |-> job.attempts, wait |-> job.wait, late |-> job.late, kept |-> 0]
    BY <1>2 DEF IInv, JobsTypeOK
  <2>2. job' \in [state : {"none", "waiting", "done", "skipped"}, attempts : 0 .. MAX_ATTEMPTS,
                  wait : 0 .. 16 * Minute + MaxDelay, late : (- MaxDelay) .. (Grace + 1),
                  kept : 0 .. Retention]
    <3>1. CASE runs[a] = "skipping" BY <2>1, <3>1 DEF IInv, JobsTypeOK
    <3>2. CASE runs[a] # "skipping" BY <2>1, <3>2 DEF IInv, JobsTypeOK
    <3> QED BY <3>1, <3>2
  <2>3. runs' \in [Attempts -> {"none", "running", "recording", "skipping"}]
    BY <1>2 DEF IInv, JobsTypeOK
  <2> QED
    BY <1>2, <2>2, <2>3 DEF IInv, JobsTypeOK
<1>4. Leased' /\ NoRowNoRun'
  BY <1>1, <1>2 DEF IInv, JobsTypeOK, Leased, NoRowNoRun
<1>5. LateForAReason'
  BY <1>2 DEF IInv, JobsTypeOK, LateForAReason
<1>6. SkipsForAReason'
  BY <1>2 DEF IInv, JobsTypeOK, SkipsForAReason, Neglected
<1> QED
  BY <1>3, <1>4, <1>5, <1>6 DEF IInv

\* A job that may be pruned has no run in time.
LEMMA PrunableIsIdle ==
  ASSUME IInv, Prunable(job)
  PROVE  \A a \in Attempts : runs[a] # "running"
<1> SUFFICES ASSUME NEW a \in Attempts, runs[a] = "running" PROVE FALSE
  OBVIOUS
<1> USE JobsAssumption, CapIsEnough
<1>1. left[a] \in Nat /\ job.wait \in Nat /\ left[a] < job.wait
  BY DEF IInv, JobsTypeOK, Leased
<1>2. job.state \in {"done", "skipped"} /\ job.kept = Retention
  BY <1>1 DEF Prunable, Over
<1>3. job.kept + left[a] <= Timeout
  BY <1>2 DEF IInv, Leased
<1> QED
  BY <1>1, <1>2, <1>3

\* Prune keeps the invariant.
LEMMA PruneInv == ASSUME IInv, Prune PROVE IInv'
<1> USE JobsAssumption, CapIsEnough DEF Attempts, MAX_ATTEMPTS
<1>1. \A a \in Attempts : runs[a] # "running"
  BY PrunableIsIdle DEF Prune
<1>2. /\ job' = [state |-> "none", attempts |-> 0, wait |-> 0, late |-> 0, kept |-> 0]
      /\ runs' = [a \in Attempts |-> "none"] /\ left' = left /\ neglect' = 0
  BY <1>1 DEF Prune, NoJob
<1>3. JobsTypeOK'
  BY <1>2 DEF IInv, JobsTypeOK
<1>4. Leased' /\ NoRowNoRun' /\ LateForAReason' /\ SkipsForAReason'
  BY <1>2 DEF Leased, NoRowNoRun, LateForAReason, SkipsForAReason
<1> QED
  BY <1>3, <1>4 DEF IInv

\* Tick keeps the invariant.
LEMMA TickInv == ASSUME IInv, JobsTick PROVE IInv'
<1> USE JobsAssumption, CapIsEnough DEF Attempts, MAX_ATTEMPTS
<1>1. /\ runs' = runs
      /\ left' = [a \in Attempts |-> Less(left[a])]
      /\ neglect' = IF Claimable(job) THEN Cap(neglect + 1, NeglectCap) ELSE neglect
      /\ \A a \in Attempts : runs[a] = "running" => left[a] > 0
  BY DEF JobsTick
<1>2. neglect' \in 0 .. NeglectCap /\ neglect' >= neglect
  BY <1>1 DEF IInv, JobsTypeOK, Cap
<1>3. \A a \in Attempts : left'[a] \in 0 .. Timeout
  BY <1>1 DEF IInv, JobsTypeOK, Less
<1>a. CASE job.state = "none"
  <2>1. job' = job
    BY <1>a DEF JobsTick
  <2>2. \A a \in Attempts : runs[a] = "none"
    BY <1>a DEF IInv, NoRowNoRun
  <2> QED
    BY <1>a, <2>1, <2>2, <1>1, <1>2, <1>3
    DEF IInv, JobsTypeOK, Leased, NoRowNoRun, LateForAReason, SkipsForAReason
<1>b. CASE job.state # "none"
  <2> DEFINE kept == IF Over(job) THEN Cap(job.kept + 1, Retention) ELSE job.kept
  <2>1. job' = [job EXCEPT !.wait = Less(job.wait), !.late = Cap(job.late + 1, Grace + 1),
                           !.kept = kept]
    BY <1>b DEF JobsTick
  <2>2. /\ Less(job.wait) \in 0 .. 16 * Minute + MaxDelay
        /\ Cap(job.late + 1, Grace + 1) \in (- MaxDelay) .. (Grace + 1)
        /\ Cap(job.late + 1, Grace + 1) <= job.late + 1
        /\ kept \in 0 .. Retention /\ kept <= job.kept + 1
    BY DEF IInv, JobsTypeOK, Less, Cap
  <2> HIDE DEF kept
  <2>3. /\ job'.state = job.state /\ job'.attempts = job.attempts
        /\ job'.wait = Less(job.wait) /\ job'.late = Cap(job.late + 1, Grace + 1)
        /\ job'.kept = kept
    BY <2>1 DEF IInv, JobsTypeOK
  <2>4. JobsTypeOK'
    BY <2>1, <2>2, <1>1, <1>2, <1>3 DEF IInv, JobsTypeOK
  <2>5. Leased'
    <3> SUFFICES ASSUME NEW a \in Attempts, runs[a] = "running"
                 PROVE  /\ a = job.attempts
                        /\ left'[a] < job'.wait
                        /\ job.state \in {"done", "skipped"} => job'.kept + left'[a] <= Timeout
      BY <1>1, <1>b, <2>3 DEF Leased
    <3>1. /\ a = job.attempts /\ left[a] < job.wait /\ left[a] > 0
          /\ job.state \in {"done", "skipped"} => job.kept + left[a] <= Timeout
      BY <1>1 DEF IInv, Leased
    <3>2. left[a] \in Nat /\ job.wait \in Nat /\ job.kept \in Nat
      BY DEF IInv, JobsTypeOK
    <3>3. left'[a] = left[a] - 1 /\ job'.wait = job.wait - 1
      BY <1>1, <2>3, <3>1, <3>2 DEF Less
    <3> QED
      BY <2>2, <2>3, <3>1, <3>2, <3>3
  <2>6. NoRowNoRun' /\ SkipsForAReason'
    <3>1. Neglected => Neglected'
      BY <1>2 DEF IInv, JobsTypeOK, Neglected, AllBackoffs
    <3> QED
      BY <1>b, <1>1, <2>3, <3>1 DEF IInv, NoRowNoRun, SkipsForAReason
  <2>7. LateForAReason'
    <3> SUFFICES ASSUME job.state = "waiting", job.attempts < MAX_ATTEMPTS
                 PROVE  \/ neglect' = NeglectCap
                        \/ job'.late + job'.wait <= neglect' + Waits(job.attempts)
      BY <2>3 DEF LateForAReason
    <3>1. job.attempts \in 0 .. 4 /\ job.wait \in Nat /\ job.late \in Int /\ neglect \in 0 .. NeglectCap
      BY DEF IInv, JobsTypeOK
    <3>2. Waits(job.attempts) \in Nat
      BY <3>1, BackoffBounds DEF AllBackoffs
    <3>3. neglect = NeglectCap \/ job.late + job.wait <= neglect + Waits(job.attempts)
      BY DEF IInv, LateForAReason
    <3>a. CASE job.wait = 0
      <4>1. neglect' = Cap(neglect + 1, NeglectCap)
        BY <1>1, <3>a DEF Claimable
      <4>2. job'.wait = 0
        BY <2>3, <3>a DEF Less
      <4> QED
        BY <2>2, <2>3, <3>1, <3>2, <3>3, <3>a, <4>1, <4>2 DEF Cap
    <3>b. CASE job.wait # 0
      <4>1. job'.wait = job.wait - 1
        BY <2>3, <3>1, <3>b DEF Less
      <4> QED
        BY <1>2, <2>2, <2>3, <3>1, <3>2, <3>3, <4>1
    <3> QED
      BY <3>a, <3>b
  <2> QED
    BY <2>4, <2>5, <2>6, <2>7 DEF IInv
<1> QED
  BY <1>a, <1>b

\* A step that changes nothing keeps the invariant.
LEMMA StutterInv == ASSUME IInv, UNCHANGED jobsVars PROVE IInv'
BY DEF jobsVars, IInv, JobsTypeOK, Leased, NoRowNoRun, LateForAReason, SkipsForAReason, Neglected, Waits

\* Every step keeps the invariant.
LEMMA NextInv == ASSUME IInv, JobsNext \/ UNCHANGED jobsVars PROVE IInv'
<1>1. CASE Enqueue BY <1>1, EnqueueInv
<1>2. CASE Claim BY <1>2, ClaimInv
<1>3. CASE Prune BY <1>3, PruneInv
<1>4. CASE JobsTick BY <1>4, TickInv
<1>5. CASE \E a \in Attempts : HandlerReturns(a) \/ RunFails(a) BY <1>5, RunInv
<1>6. CASE \E a \in Attempts : Record(a) BY <1>6, RecordInv
<1>7. CASE UNCHANGED jobsVars BY <1>7, StutterInv
<1> QED
  BY <1>1, <1>2, <1>3, <1>4, <1>5, <1>6, <1>7 DEF JobsNext

\* The queue's inductive invariant: the lease, not the workers, keeps the runs apart.
THEOREM QueueInvariant == JobsSpec => []IInv
<1>1. ASSUME IInv, [JobsNext]_jobsVars PROVE IInv'
  BY <1>1, NextInv
<1> QED
  BY <1>1, InitInv, PTL DEF JobsSpec

\* However many workers there are, no two are inside a handler of the same job in time.
THEOREM LeaseKeepsApart == JobsSpec => []OneLiveRun
<1>1. IInv => OneLiveRun
  <2> SUFFICES ASSUME IInv PROVE OneLiveRun
    OBVIOUS
  <2> DEFINE R == {a \in Attempts : runs[a] = "running"}
  <2>1. R \subseteq {job.attempts}
    BY DEF IInv, Leased
  <2>2. IsFiniteSet({job.attempts}) /\ Cardinality({job.attempts}) = 1
    BY FS_Singleton
  <2>3. Cardinality(R) <= Cardinality({job.attempts})
    BY <2>1, <2>2, FS_Subset
  <2> QED
    BY <2>2, <2>3 DEF OneLiveRun
<1> QED
  BY <1>1, QueueInvariant, PTL

\* prune never takes a job whose handler is at work in time.
THEOREM PruneIsSafe == JobsSpec => PruneSparesWork
<1> DEFINE Spares == job.state # "none" /\ job'.state = "none" =>
                       \A a \in Attempts : runs[a] # "running"
<1>1. ASSUME IInv, [JobsNext]_jobsVars PROVE [Spares]_jobsVars
  <2> SUFFICES ASSUME job.state # "none", job'.state = "none", JobsNext
               PROVE  \A a \in Attempts : runs[a] # "running"
    BY <1>1
  <2>1. ~ Enqueue
    BY DEF Enqueue
  <2>2. ~ Claim
    BY <1>1 DEF Claim, Claimed, IInv, JobsTypeOK
  <2>3. ~ JobsTick
    BY <1>1 DEF JobsTick, IInv, JobsTypeOK
  <2>4. ASSUME NEW a \in Attempts PROVE ~ (HandlerReturns(a) \/ RunFails(a) \/ Record(a))
    BY <1>1 DEF HandlerReturns, RunFails, Record, IInv, JobsTypeOK
  <2>5. Prune
    BY <2>1, <2>2, <2>3, <2>4 DEF JobsNext
  <2> QED
    BY <1>1, <2>5, PrunableIsIdle DEF Prune
<1> QED
  BY <1>1, QueueInvariant, PTL DEF JobsSpec, PruneSparesWork

\* Retries alone never turn into a skip.
THEOREM NoSkipWithoutNeglect == JobsSpec => []SkippedOnlyIfNeglected
<1>1. IInv => SkippedOnlyIfNeglected
  BY DEF IInv, SkipsForAReason, Neglected, SkippedOnlyIfNeglected
<1> QED
  BY <1>1, QueueInvariant, PTL

-----------------------------------------------------------------------------
(* The queue implements JobPromise *)

AbstractStep == [Promise!Next]_<<PromiseOf(job), Working>>

\* Enqueueing is asking for the promise.
LEMMA EnqueueAsks == ASSUME IInv, Enqueue PROVE Promise!Ask
<1>1. PICK delay \in 0 .. MaxDelay :
        job' = [state |-> "waiting", attempts |-> 0, wait |-> delay, late |-> - delay, kept |-> 0]
  BY DEF Enqueue, NoJob
<1>2. PromiseOf(job) = "none" /\ PromiseOf(job)' = "owed"
  <2>1. job'.state = "waiting" /\ job'.attempts = 0
    BY <1>1
  <2>2. job.state = "none"
    BY DEF Enqueue
  <2> QED
    BY <2>1, <2>2 DEF PromiseOf, Over, MAX_ATTEMPTS
<1>3. Working' <=> Working
  BY DEF Enqueue, Working
<1> QED
  BY <1>2, <1>3 DEF Promise!Ask

\* A job that is claimed is at work nowhere: its lease has run out, and every run in time with it.
LEMMA ClaimBegins == ASSUME IInv, Claim PROVE AbstractStep
<1> DEFINE n == job.attempts + 1
<1>1. /\ job.state = "waiting" /\ job.attempts \in 0 .. 4 /\ job.wait = 0
      /\ job' = [job EXCEPT !.attempts = @ + 1, !.wait = Backoff(job.attempts)]
      /\ runs' = [runs EXCEPT ![n] = IF TooLate(job) THEN "skipping" ELSE "running"]
  BY DEF Claim, Claimable, Claimed, IInv, JobsTypeOK, MAX_ATTEMPTS
<1>2. Backoff(job.attempts) \in Nat /\ Backoff(job.attempts) > 0
  BY <1>1, BackoffBounds, JobsAssumption
<1>3. PromiseOf(job) = "owed" /\ PromiseOf(job)' = "owed"
  <2>1. job'.state = "waiting" /\ job'.wait # 0
    BY <1>1, <1>2 DEF IInv, JobsTypeOK
  <2> QED
    BY <1>1, <2>1 DEF PromiseOf, Over, MAX_ATTEMPTS
<1>4. ~ Working
  <2> SUFFICES ASSUME NEW a \in Attempts, runs[a] = "running" PROVE FALSE
    BY DEF Working
  <2>1. left[a] \in Nat /\ left[a] < job.wait
    BY JobsAssumption DEF IInv, JobsTypeOK, Leased
  <2> QED
    BY <1>1, <2>1
<1>5. n \in Attempts /\ runs \in [Attempts -> {"none", "running", "recording", "skipping"}]
  BY <1>1 DEF IInv, JobsTypeOK, Attempts, MAX_ATTEMPTS
<1>6. CASE TooLate(job)
  <2>1. ~ Working'
    BY <1>1, <1>4, <1>5, <1>6 DEF Working
  <2> QED
    BY <1>3, <1>4, <2>1 DEF AbstractStep, Working
<1>7. CASE ~ TooLate(job)
  <2>1. runs'[n] = "running"
    BY <1>1, <1>5, <1>7
  <2>2. Working'
    BY <1>5, <2>1 DEF Working
  <2> QED
    BY <1>3, <1>4, <2>2 DEF AbstractStep, Working, Promise!Next, Promise!Begin
<1> QED
  BY <1>6, <1>7

\* A run that ends was the only one in time.
LEMMA RunStops ==
  ASSUME IInv, NEW a \in Attempts, HandlerReturns(a) \/ RunFails(a)
  PROVE  AbstractStep
<1>1. job' = job /\ \E to \in {"recording", "none"} : runs' = [runs EXCEPT ![a] = to]
  BY DEF HandlerReturns, RunFails
<1>2. runs \in [Attempts -> {"none", "running", "recording", "skipping"}]
  BY DEF IInv, JobsTypeOK
<1>3. PromiseOf(job)' = PromiseOf(job)
  BY <1>1 DEF PromiseOf, Over
<1>4. CASE runs[a] = "running"
  <2>1. Working /\ ~ Working'
    BY <1>1, <1>2, <1>4 DEF Working, IInv, Leased
  <2> QED
    BY <1>3, <2>1 DEF AbstractStep, Working, Promise!Next, Promise!Stop
<1>5. CASE runs[a] # "running"
  <2>1. Working' <=> Working
    BY <1>1, <1>2, <1>5 DEF Working
  <2> QED
    BY <1>3, <2>1 DEF AbstractStep, Working
<1> QED
  BY <1>4, <1>5

\* Recording settles what is owed, and leaves what is settled so.
LEMMA RecordSettles ==
  ASSUME IInv, NEW a \in Attempts, Record(a)
  PROVE  AbstractStep
<1>1. job.state # "none"
  BY DEF IInv, NoRowNoRun, Record
<1>2. /\ job' = [job EXCEPT !.state = IF runs[a] = "skipping" THEN "skipped" ELSE "done", !.kept = 0]
      /\ runs' = [runs EXCEPT ![a] = "none"] /\ runs[a] # "running"
  BY <1>1 DEF Record
<1>3. job'.state \in {"done", "skipped"}
  BY <1>2 DEF IInv, JobsTypeOK
<1>4. PromiseOf(job)' = "settled" /\ PromiseOf(job) \in {"owed", "settled"}
  BY <1>1, <1>3 DEF PromiseOf, Over
<1>5. Working' <=> Working
  BY <1>2 DEF Working, IInv, JobsTypeOK
<1> QED
  BY <1>4, <1>5 DEF AbstractStep, Working, Promise!Next, Promise!Settle

\* Pruning is forgetting one that is settled and not worked on.
LEMMA PruneForgets == ASSUME IInv, Prune PROVE Promise!Forget
<1>1. \A a \in Attempts : runs[a] # "running"
  BY PrunableIsIdle DEF Prune
<1>2. job'.state = "none" /\ runs' = [a \in Attempts |-> "none"]
  BY <1>1 DEF Prune, NoJob
<1>3. ~ Working /\ ~ Working'
  BY <1>1, <1>2 DEF Working
<1>4. PromiseOf(job) = "settled" /\ PromiseOf(job)' = "none"
  BY <1>2 DEF Prune, Prunable, PromiseOf
<1> QED
  BY <1>3, <1>4 DEF Promise!Forget, Working

\* Time settles a job whose last lease runs out, and nothing else.
LEMMA TickSettles == ASSUME IInv, JobsTick PROVE AbstractStep
<1>1. Working' <=> Working
  BY DEF JobsTick, Working
<1>2. CASE job.state = "none"
  BY <1>1, <1>2 DEF JobsTick, PromiseOf, AbstractStep, Working
<1>3. CASE job.state # "none"
  <2>1. /\ job'.state = job.state /\ job'.attempts = job.attempts
        /\ job.wait = 0 => job'.wait = 0
    BY <1>3 DEF JobsTick, Less, IInv, JobsTypeOK
  <2>2. /\ PromiseOf(job) \in {"owed", "settled"} /\ PromiseOf(job)' \in {"owed", "settled"}
        /\ PromiseOf(job) = "settled" => PromiseOf(job)' = "settled"
    BY <1>3, <2>1 DEF PromiseOf, Over
  <2> QED
    BY <1>1, <2>2 DEF AbstractStep, Working, Promise!Next, Promise!Settle
<1> QED
  BY <1>2, <1>3

\* Claims, leases, retries, late records and pruning are steps of what the queue promises.
THEOREM QueueKeepsItsPromise == JobsSpec => KeepsItsPromise
<1>1. JobsInit => Promise!Init
  BY DEF JobsInit, NoJob, Promise!Init, PromiseOf, Working, Attempts, MAX_ATTEMPTS
<1>2. ASSUME IInv, [JobsNext]_jobsVars PROVE AbstractStep
  <2>1. CASE Enqueue BY <1>2, <2>1, EnqueueAsks DEF AbstractStep, Promise!Next
  <2>2. CASE Claim BY <1>2, <2>2, ClaimBegins
  <2>3. CASE Prune BY <1>2, <2>3, PruneForgets DEF AbstractStep, Promise!Next
  <2>4. CASE JobsTick BY <1>2, <2>4, TickSettles
  <2>5. CASE \E a \in Attempts : HandlerReturns(a) \/ RunFails(a) BY <1>2, <2>5, RunStops
  <2>6. CASE \E a \in Attempts : Record(a) BY <1>2, <2>6, RecordSettles
  <2>7. CASE UNCHANGED jobsVars
    BY <2>7 DEF jobsVars, AbstractStep, PromiseOf, Over, Working
  <2> QED
    BY <1>2, <2>1, <2>2, <2>3, <2>4, <2>5, <2>6, <2>7 DEF JobsNext
<1> QED
  BY <1>1, <1>2, QueueInvariant, PTL DEF JobsSpec, KeepsItsPromise, Promise!Spec, AbstractStep

-----------------------------------------------------------------------------
(* The worker's loop *)

\* The mark of the last sweep is never younger than the sweep, and an iteration past its sweeps that
\* has seen no failure has them behind it: they ran now, or lately enough not to be due.
SweptOK ==
  /\ sinceSwept <= sinceSweep
  /\ at \in {"retention", "ping", "pinged"} /\ healthy => sinceSwept < SweepPolls
  /\ at = "pinged" => healthy
  /\ hold = "invalid" => ~ healthy

\* No business has more addresses past their period than have come of age.
AgedOK == \A t \in 1 .. Businesses : old[t] <= aged

LoopIInv == LoopTypeOK /\ SweptOK /\ AgedOK

\* Every set of businesses has a first.
LEMMA FirstOf ==
  ASSUME NEW S, S \subseteq Nat, S # {}
  PROVE  First(S) \in S
<1>1. PICK x \in S : \A y \in S : ~ (<<y, x>> \in OpToRel(<, Nat))
  BY NatLessThanWellFounded, WFMin
<1>2. \A y \in S : ~ (y < x)
  BY <1>1 DEF OpToRel
<1>3. \A y \in S : x <= y
  BY <1>2
<1> QED
  BY <1>3 DEF First

\* The ends of the ranges are in them.
LEMMA RangeEnds ==
  /\ 0 \in 0 .. SweepPolls /\ SweepPolls \in 0 .. SweepPolls /\ 0 \in 0 .. RetentionPolls
  /\ 0 \in 0 .. MAX_BATCHES /\ 0 \in 0 .. Businesses /\ 0 \in 0 .. MaxOld /\ 0 \in 0 .. MaxFaults
  BY WorkerLoopAssumption

\* The loop's invariant holds at the start.
LEMMA LoopStart == LoopInit => LoopIInv
<1> SUFFICES ASSUME LoopInit PROVE LoopIInv
  OBVIOUS
<1>1. healthy = (hold # "invalid") /\ hold \in {"off", "on", "past", "invalid"}
  BY DEF LoopInit
<1>2. healthy \in BOOLEAN /\ (hold = "invalid" => ~ healthy)
  BY <1>1, Zenon
<1>3. old \in [1 .. Businesses -> 0 .. MaxOld] /\ \A t \in 1 .. Businesses : old[t] <= aged
  BY RangeEnds DEF LoopInit
<1>4. LoopTypeOK
  BY <1>2, <1>3, RangeEnds DEF LoopInit, LoopTypeOK, Steps
<1>5. SweptOK /\ AgedOK
  BY <1>2, <1>3, WorkerLoopAssumption DEF LoopInit, SweptOK, AgedOK
<1> QED
  BY <1>4, <1>5 DEF LoopIInv

\* The steps before retention: drain, prune and the two sweeps.
LEMMA SweepingKeeps ==
  ASSUME LoopIInv, Drain \/ PruneJobs \/ SweepHolds \/ SweepBookings
  PROVE  LoopIInv'
<1> USE WorkerLoopAssumption
<1>1. AgedOK' /\ Outside
  BY DEF Drain, PruneJobs, SweepHolds, SweepBookings, Outside, LoopIInv, AgedOK
<1>2. CASE Drain
  <2>1. LoopTypeOK'
    BY <1>2 DEF Drain, Caught, Unswept, Outside, LoopIInv, LoopTypeOK, Steps
  <2>2. SweptOK'
    BY <1>2 DEF Drain, Caught, Unswept, Outside, LoopIInv, LoopTypeOK, SweptOK
  <2> QED
    BY <1>1, <2>1, <2>2 DEF LoopIInv
<1>3. CASE PruneJobs
  <2>1. LoopTypeOK'
    BY <1>3 DEF PruneJobs, Caught, Unswept, Outside, LoopIInv, LoopTypeOK, Steps
  <2>2. SweptOK'
    BY <1>3 DEF PruneJobs, Caught, Unswept, Outside, LoopIInv, LoopTypeOK, SweptOK
  <2> QED
    BY <1>1, <2>1, <2>2 DEF LoopIInv
<1>4. CASE SweepHolds
  <2>1. LoopTypeOK'
    BY <1>4 DEF SweepHolds, Unswept, Outside, LoopIInv, LoopTypeOK, Steps
  <2>2. SweptOK'
    BY <1>4 DEF SweepHolds, Unswept, Outside, LoopIInv, LoopTypeOK, SweptOK
  <2> QED
    BY <1>1, <2>1, <2>2 DEF LoopIInv
<1>5. CASE SweepBookings
  <2>1. LoopTypeOK'
    BY <1>5, RangeEnds DEF SweepBookings, Unswept, Outside, LoopIInv, LoopTypeOK, Steps
  <2>2. SweptOK'
    BY <1>5 DEF SweepBookings, Unswept, Outside, LoopIInv, LoopTypeOK, SweptOK
  <2> QED
    BY <1>1, <2>1, <2>2 DEF LoopIInv
<1> QED
  BY <1>2, <1>3, <1>4, <1>5

\* One batch of retention leaves the walk at a business or at none, and clears no address twice.
LEMMA BatchKeeps ==
  ASSUME LoopIInv, RetentionBatch
  PROVE  LoopIInv'
<1> USE WorkerLoopAssumption
<1> DEFINE first == IF walk = 0 THEN 1 ELSE walk
           due == {t \in VisitedFrom(first) : old[t] > 0}
<1>1. /\ walk \in 0 .. Businesses /\ old \in [1 .. Businesses -> 0 .. MaxOld] /\ aged \in 0 .. MaxOld
      /\ \A t \in 1 .. Businesses : old[t] <= aged
  BY DEF LoopIInv, LoopTypeOK, AgedOK
<1>2. first \in 1 .. Businesses
  BY <1>1
<1>3. due \subseteq 1 .. Businesses /\ \A t \in due : old[t] > 0
  BY DEF VisitedFrom
<1>4. due # {} => First(due) \in due
  BY <1>3, FirstOf
<1>5. IF Held THEN UNCHANGED <<walk, old>>
      ELSE /\ walk' = NextWalk(first, due)
           /\ old' = IF due = {} THEN old ELSE [old EXCEPT ![First(due)] = @ - 1]
  BY DEF RetentionBatch
<1> HIDE DEF first, due
<1>6. walk' \in 0 .. Businesses
  <2>1. CASE Held
    BY <1>1, <1>5, <2>1
  <2>2. CASE ~ Held /\ due # {}
    <3>1. walk' = First(due)
      BY <1>5, <2>2 DEF NextWalk
    <3>2. walk' \in 1 .. Businesses
      BY <1>3, <1>4, <2>2, <3>1
    <3> QED
      BY <3>2
  <2>3. CASE ~ Held /\ due = {}
    BY <1>2, <1>5, <2>3, RangeEnds DEF NextWalk
  <2> QED
    BY <2>1, <2>2, <2>3
<1>7. /\ old' \in [1 .. Businesses -> 0 .. MaxOld]
      /\ \A t \in 1 .. Businesses : old'[t] <= aged
  <2>1. CASE old' = old
    BY <1>1, <2>1
  <2>2. CASE due # {} /\ old' = [old EXCEPT ![First(due)] = @ - 1]
    <3>1. PICK t \in 1 .. Businesses : t = First(due) /\ old[t] > 0
      BY <1>3, <1>4, <2>2
    <3>2. old[t] - 1 \in 0 .. MaxOld /\ old[t] - 1 <= aged
      BY <1>1, <3>1
    <3>3. old' = [old EXCEPT ![t] = old[t] - 1]
      BY <2>2, <3>1
    <3> QED
      BY <1>1, <3>2, <3>3
  <2> QED
    BY <1>5, <2>1, <2>2
<1>8. /\ at = "retention" /\ at' \in {"retention", "ping"}
      /\ batches' \in 0 .. MAX_BATCHES /\ untilRetention' \in 0 .. RetentionPolls
      /\ UNCHANGED <<healthy, failed, ran, aged, broken, faults, hold, sinceSweep, sinceSwept>>
  BY DEF RetentionBatch, Unswept, LoopIInv, LoopTypeOK
<1>9. LoopTypeOK'
  BY <1>6, <1>7, <1>8 DEF LoopIInv, LoopTypeOK, Steps
<1>10. SweptOK' /\ AgedOK'
  BY <1>7, <1>8 DEF LoopIInv, SweptOK, AgedOK
<1> QED
  BY <1>9, <1>10 DEF LoopIInv

\* The rest of an iteration: no retention, the ping, the wait.
LEMMA EndingKeeps ==
  ASSUME LoopIInv, RetentionFails \/ RetentionNotDue \/ Ping \/ WaitForPoll
  PROVE  LoopIInv'
<1> USE WorkerLoopAssumption
<1>1. CASE RetentionFails
  <2>1. LoopTypeOK'
    BY <1>1, RangeEnds DEF RetentionFails, Unswept, LoopIInv, LoopTypeOK, Steps
  <2>2. SweptOK' /\ AgedOK'
    BY <1>1 DEF RetentionFails, Unswept, LoopIInv, SweptOK, AgedOK
  <2> QED
    BY <2>1, <2>2 DEF LoopIInv
<1>2. CASE RetentionNotDue
  <2>1. LoopTypeOK'
    BY <1>2 DEF RetentionNotDue, Unswept, Outside, LoopIInv, LoopTypeOK, Steps
  <2>2. SweptOK' /\ AgedOK'
    BY <1>2 DEF RetentionNotDue, Unswept, Outside, LoopIInv, SweptOK, AgedOK
  <2> QED
    BY <2>1, <2>2 DEF LoopIInv
<1>3. CASE Ping
  <2>1. LoopTypeOK'
    BY <1>3 DEF Ping, Unswept, Outside, LoopIInv, LoopTypeOK, Steps
  <2>2. SweptOK' /\ AgedOK'
    BY <1>3 DEF Ping, Unswept, Outside, LoopIInv, SweptOK, AgedOK
  <2> QED
    BY <2>1, <2>2 DEF LoopIInv
<1>4. CASE WaitForPoll
  <2>1. /\ Later(sinceSweep) \in 0 .. SweepPolls /\ Later(sinceSwept) \in 0 .. SweepPolls
        /\ Later(sinceSwept) <= Later(sinceSweep)
    BY DEF Later, LoopIInv, LoopTypeOK, SweptOK
  <2>2. LoopTypeOK'
    <3>1. untilRetention' \in 0 .. RetentionPolls
      BY <1>4 DEF WaitForPoll, LoopIInv, LoopTypeOK
    <3>2. healthy' = (hold # "invalid") /\ failed' = FALSE
      BY <1>4 DEF WaitForPoll
    <3>3. healthy' \in BOOLEAN /\ failed' \in BOOLEAN
      BY <3>2, Zenon
    <3> QED
      BY <1>4, <2>1, <3>1, <3>3 DEF WaitForPoll, LoopIInv, LoopTypeOK, Steps
  <2>3. SweptOK' /\ AgedOK'
    BY <1>4, <2>1 DEF WaitForPoll, LoopIInv, SweptOK, AgedOK
  <2> QED
    BY <2>2, <2>3 DEF LoopIInv
<1> QED
  BY <1>1, <1>2, <1>3, <1>4

\* What happens around the loop: a restart, a fault, a hold that ends, an address that ages.
LEMMA AroundKeeps ==
  ASSUME LoopIInv,
         \/ RestartWorker \/ HoldEnds
         \/ \E step \in Steps : Breaks(step)
         \/ \E t \in 1 .. Businesses : Ages(t)
  PROVE  LoopIInv'
<1> USE WorkerLoopAssumption
<1>1. CASE RestartWorker
  <2>1. LoopTypeOK'
    <3>1. faults' \in 0 .. MaxFaults
      BY <1>1 DEF RestartWorker, LoopIInv, LoopTypeOK
    <3>2. healthy' = (hold # "invalid") /\ failed' = FALSE
      BY <1>1 DEF RestartWorker
    <3>3. healthy' \in BOOLEAN /\ failed' \in BOOLEAN
      BY <3>2, Zenon
    <3> QED
      BY <1>1, <3>1, <3>3, RangeEnds DEF RestartWorker, LoopIInv, LoopTypeOK, Steps
  <2>2. SweptOK' /\ AgedOK'
    BY <1>1 DEF RestartWorker, LoopIInv, LoopTypeOK, SweptOK, AgedOK
  <2> QED
    BY <2>1, <2>2 DEF LoopIInv
<1>2. CASE HoldEnds
  <2>1. LoopTypeOK'
    BY <1>2 DEF HoldEnds, Unswept, LoopIInv, LoopTypeOK
  <2>2. SweptOK' /\ AgedOK'
    BY <1>2 DEF HoldEnds, Unswept, LoopIInv, SweptOK, AgedOK
  <2> QED
    BY <2>1, <2>2 DEF LoopIInv
<1>3. CASE \E step \in Steps : Breaks(step)
  <2>1. PICK step \in Steps : Breaks(step)
    BY <1>3
  <2>2. LoopTypeOK'
    BY <2>1 DEF Breaks, Unswept, LoopIInv, LoopTypeOK
  <2>3. SweptOK' /\ AgedOK'
    BY <2>1 DEF Breaks, Unswept, LoopIInv, SweptOK, AgedOK
  <2> QED
    BY <2>2, <2>3 DEF LoopIInv
<1>4. CASE \E t \in 1 .. Businesses : Ages(t)
  <2>1. PICK t \in 1 .. Businesses : Ages(t)
    BY <1>4
  <2>2. /\ old \in [1 .. Businesses -> 0 .. MaxOld] /\ aged \in 0 .. MaxOld /\ aged < MaxOld
        /\ aged' = aged + 1 /\ old' = [old EXCEPT ![t] = old[t] + 1]
        /\ \A u \in 1 .. Businesses : old[u] <= aged
    BY <2>1 DEF Ages, LoopIInv, LoopTypeOK, AgedOK
  <2>3. old[t] + 1 \in 0 .. MaxOld /\ old[t] + 1 <= aged + 1
    BY <2>2
  <2>4. /\ old' \in [1 .. Businesses -> 0 .. MaxOld] /\ aged' \in 0 .. MaxOld
        /\ \A u \in 1 .. Businesses : old'[u] <= aged'
    BY <2>2, <2>3
  <2>5. LoopTypeOK'
    BY <2>1, <2>4 DEF Ages, Unswept, LoopIInv, LoopTypeOK
  <2>6. SweptOK' /\ AgedOK'
    BY <2>1, <2>4 DEF Ages, Unswept, LoopIInv, SweptOK, AgedOK
  <2> QED
    BY <2>5, <2>6 DEF LoopIInv
<1> QED
  BY <1>1, <1>2, <1>3, <1>4

\* Every step of the loop keeps its invariant.
LEMMA LoopKeeps ==
  ASSUME LoopIInv, LoopNext \/ UNCHANGED loopVars
  PROVE  LoopIInv'
<1>1. CASE UNCHANGED loopVars
  BY <1>1 DEF loopVars, LoopIInv, LoopTypeOK, SweptOK, AgedOK
<1>2. CASE LoopNext
  BY <1>2, SweepingKeeps, BatchKeeps, EndingKeeps, AroundKeeps DEF LoopNext, LoopStep
<1> QED
  BY <1>1, <1>2

\* The three together, each with its own invariant.
WorkerIInv == /\ part = "loop" => LoopIInv
              /\ part # "loop" => IInv

\* The ping goes out only while the sweeps went through lately and the hold's value is valid, for
\* every period, however often the worker is restarted and whatever is broken; the queue's rows keep
\* their types beside it.
THEOREM PingTellsTheTruth == WorkerSpec => []WorkerInv
<1>1. WorkerInit => WorkerIInv
  BY InitInv, LoopStart DEF WorkerInit, WorkerIInv
<1>2. WorkerIInv /\ [WorkerNext]_workerVars => WorkerIInv'
  <2> SUFFICES ASSUME WorkerIInv, [WorkerNext]_workerVars PROVE WorkerIInv'
    OBVIOUS
  <2>1. /\ part' = part
        /\ (JobsNext /\ part = "jobs") \/ UNCHANGED jobsVars
        /\ (LoopNext /\ part = "loop") \/ UNCHANGED loopVars
    BY DEF WorkerNext, StepJobs, StepLoop, StepHolds, workerVars
  <2>2. CASE part = "loop"
    BY <2>1, <2>2, LoopKeeps DEF WorkerIInv
  <2>3. CASE part # "loop"
    BY <2>1, <2>3, NextInv DEF WorkerIInv
  <2> QED
    BY <2>2, <2>3
<1>3. WorkerIInv => WorkerInv
  BY DEF WorkerIInv, WorkerInv, LoopIInv, SweptOK, PingMeansSwept, IInv
<1> QED
  BY <1>1, <1>2, <1>3, PTL DEF WorkerSpec

=============================================================================
