------------------------------- MODULE Worker -------------------------------
(***************************************************************************)
(* What the worker process keeps going: the queue, its loop, and the sweep  *)
(* that ends the holds of bookings.  They share no state, so a behaviour is *)
(* one of one of the three, the part chosen at the start.                   *)
(***************************************************************************)
EXTENDS Jobs, WorkerLoop, Bookings

VARIABLE part

Parts == {"jobs", "loop", "holds"}

workerVars == <<part, jobsVars, loopVars, vars>>

WorkerInit ==
  /\ part \in Parts
  /\ JobsInit /\ LoopInit /\ Init
  /\ part # "loop" => hold = "off"

StepJobs == part = "jobs" /\ JobsNext /\ UNCHANGED <<part, loopVars, vars>>

StepLoop == part = "loop" /\ LoopNext /\ UNCHANGED <<part, jobsVars, vars>>

StepHolds == part = "holds" /\ Next /\ UNCHANGED <<part, jobsVars, loopVars>>

WorkerNext == StepJobs \/ StepLoop \/ StepHolds

WorkerSpec == WorkerInit /\ [][WorkerNext]_workerVars

\* The fairness of the three specifications, each for its part.
WorkerFairSpec ==
  /\ WorkerSpec
  /\ WF_jobsVars(part = "jobs" /\ JobsTick /\ UNCHANGED <<part, loopVars, vars>>)
  /\ WF_jobsVars(part = "jobs" /\ Claim /\ UNCHANGED <<part, loopVars, vars>>)
  /\ \A a \in Attempts :
       WF_jobsVars(/\ part = "jobs" /\ (HandlerReturns(a) \/ RunFails(a) \/ Record(a))
                   /\ UNCHANGED <<part, loopVars, vars>>)
  /\ WF_loopVars(part = "loop" /\ LoopStep /\ UNCHANGED <<part, jobsVars, vars>>)
  /\ WF_vars(part = "holds" /\ Tick /\ UNCHANGED <<part, jobsVars, loopVars>>)
  /\ WF_vars(part = "holds" /\ Sweep(clock) /\ UNCHANGED <<part, jobsVars, loopVars>>)

\* The rows of jobs and what the worker remembers are what the code can make of them, and a ping of the
\* loop tells the truth.
WorkerInv == IF part = "loop" THEN LoopTypeOK /\ PingMeansSwept ELSE JobsTypeOK

\* The loop goes on, whatever is broken in it: each sweep runs again and again, and retention gets to
\* every business.
LoopGoesOn == part = "loop" => SweepsKeepRunning /\ NoBusinessStarved

=============================================================================
