------------------------------ MODULE Refunds ------------------------------
(***************************************************************************)
(* Sending back what an ended booking owes: one paid booking_payments row,  *)
(* the refunds on its charge at Stripe, and the jobs that work on them      *)
(* (backend/app/payments.py: _refund, called by settle, and refund_changed, *)
(* called by refund events and by _refund itself).                          *)
(*                                                                          *)
(* The worker runs up to twenty jobs at a time and a job that timed out     *)
(* goes on beside its own retry, so any two of these overlap.  Calls to     *)
(* Stripe are outside every transaction: what a job read there may be stale *)
(* when it writes.                                                          *)
(*                                                                          *)
(* A refund at Stripe can fail days after it was accepted; the business can *)
(* refund by hand in Stripe's dashboard.  Stripe answers a repeated request *)
(* with the answer it stored under its idempotency key, for 24 hours.       *)
(***************************************************************************)
EXTENDS Naturals, Sequences, FiniteSets

CONSTANTS
  Tasks,         \* jobs running at one time
  Amount,        \* what was paid, in minor units
  Percentages,   \* what an ending may send back
  HandAmounts,   \* what the business may refund by hand
  MaxByHand,     \* bound: refunds made by hand
  MaxFaults      \* bound: jobs that stop or time out, refunds that are refused or fail

ASSUME RefundsAssumption ==
  /\ Amount \in Nat /\ MaxByHand \in Nat /\ MaxFaults \in Nat
  /\ Percentages \subseteq 0 .. 100 /\ HandAmounts \subseteq Nat \ {0}

VARIABLES
  ending,        \* how the booking ended: the percentage, and whether a re-applied erasure holds it
  booking,       \* "awaiting_payment": a hold that ran out, not yet swept; else "ended"
  row,           \* the payment row: settled, refunded_minor, refund_failed_at
  told,          \* the refund_failed events on the booking, by refund (0: a refused one)
  refunds,       \* Stripe's refunds on the charge
  key,           \* what Stripe stored under refund:{row.id}
  events,        \* refunds with an event job to run
  tasks,         \* jobs running
  faults

vars == <<ending, booking, row, told, refunds, key, events, tasks, faults>>

\* settle makes a second refund only for one that failed.
MaxRefunds == MaxByHand + MaxFaults + 1

RefundIds == 1 .. MaxRefunds

Unanswered == [amount |-> 0, refund |-> 0, answered |-> FALSE]

Idle == [op |-> "none", pc |-> "idle", seen |-> 0, refund |-> 0, failed |-> FALSE, refused |-> FALSE]

TaskType ==
  [op : {"none", "settle", "event"},
   pc : {"idle", "retrieve", "refund", "again", "record", "read_refund", "read_charge", "write"},
   seen : 0 .. Amount, refund : 0 .. MaxRefunds, failed : BOOLEAN, refused : BOOLEAN]

TypeOK ==
  /\ ending \in [pct : Percentages, held : BOOLEAN]
  /\ booking \in {"awaiting_payment", "ended"}
  /\ row \in [settled : BOOLEAN, refunded_minor : 0 .. Amount, flag : BOOLEAN]
  /\ told \in Seq(0 .. MaxRefunds)
  /\ refunds \in Seq([amount : 1 .. Amount, ours : BOOLEAN, failed : BOOLEAN])
  /\ DOMAIN refunds \subseteq RefundIds
  /\ key \in [amount : 0 .. Amount, refund : 0 .. MaxRefunds, answered : BOOLEAN]
  /\ events \subseteq RefundIds
  /\ tasks \in [Tasks -> TaskType]
  /\ faults \in 0 .. MaxFaults

\* A paid row of a booking that ended, or whose checkout ran out (sent back in full).
Init ==
  /\ ending \in [pct : Percentages, held : BOOLEAN]
  /\ booking \in {"awaiting_payment", "ended"}
  /\ booking = "awaiting_payment" => ending.pct = 100 /\ ~ ending.held
  /\ row = [settled |-> FALSE, refunded_minor |-> 0, flag |-> FALSE]
  /\ told = <<>>
  /\ refunds = <<>>
  /\ key = Unanswered
  /\ events = {}
  /\ tasks = [t \in Tasks |-> Idle]
  /\ faults = 0

-----------------------------------------------------------------------------

\* Counted unit by unit.
AmountOf(ids) == Cardinality({u \in ids \X (1 .. Amount) : u[2] <= refunds[u[1]].amount})

\* Stripe's amount_refunded: a refund that failed no longer counts.
AmountRefunded == AmountOf({i \in DOMAIN refunds : ~ refunds[i].failed})

\* refund_due: no card fee is kept (KEEP_CARD_FEE_ON_CLIENT_CANCEL is off).
Due == (Amount * ending.pct) \div 100

Become(t, task) == tasks' = [tasks EXCEPT ![t] = task]

At(t, pc) == tasks[t].pc = pc

\* A new refund, with the event that it was created.
NewRefund(amount, ours) ==
  /\ refunds' = Append(refunds, [amount |-> amount, ours |-> ours, failed |-> FALSE])
  /\ events' = events \cup {Len(refunds) + 1}

Fault == faults < MaxFaults /\ faults' = faults + 1

-----------------------------------------------------------------------------
(* _refund *)

\* A settle job that reads the row unsettled.
BeginRefund(t) ==
  /\ At(t, "idle")
  /\ ~ row.settled
  /\ Become(t, [Idle EXCEPT !.op = "settle", !.pc = "retrieve"])
  /\ UNCHANGED <<ending, booking, row, told, refunds, key, events, faults>>

\* The shortfall of a booking that a re-applied erasure ended is held, not sent.
Retrieve(t) ==
  /\ At(t, "retrieve")
  /\ Become(t, [tasks[t] EXCEPT !.seen = AmountRefunded,
                                !.pc = IF Due > AmountRefunded /\ ~ ending.held THEN "refund"
                                       ELSE "record"])
  /\ UNCHANGED <<ending, booking, row, told, refunds, key, events, faults>>

\* gateway.refund answers: with the refund, or with 0 for "invalid".
Answered(t, refund) ==
  Become(t, [tasks[t] EXCEPT !.refund = refund, !.pc = IF refund = 0 THEN "again" ELSE "record"])

Ask(t) == Due - tasks[t].seen

KeyStoredMutant(amount) == key.answered /\ key.amount = amount

\* The key is of the payment, never of the amount.
KeyStored(amount) == key.answered

\* A request Stripe has an answer for: the same one for the same amount, else an idempotency error.
RefundAgain(t) ==
  /\ At(t, "refund")
  /\ KeyStored(Ask(t))
  /\ Answered(t, IF key.amount = Ask(t) THEN key.refund ELSE 0)
  /\ UNCHANGED <<ending, booking, row, told, refunds, key, events, faults>>

\* A new request: accepted, or more than is left of the charge.
RefundFirst(t) ==
  /\ At(t, "refund")
  /\ ~ KeyStored(Ask(t))
  /\ LET fits == Ask(t) <= Amount - AmountRefunded
         refund == IF fits THEN Len(refunds) + 1 ELSE 0
     IN /\ IF fits THEN NewRefund(Ask(t), TRUE) ELSE UNCHANGED <<refunds, events>>
        /\ key' = [amount |-> Ask(t), refund |-> refund, answered |-> TRUE]
        /\ Answered(t, refund)
  /\ UNCHANGED <<ending, booking, row, told, faults>>

\* Refused for another reason (the business's balance).
RefundRefused(t) ==
  /\ At(t, "refund")
  /\ ~ KeyStored(Ask(t))
  /\ Fault
  /\ key' = [amount |-> Ask(t), refund |-> 0, answered |-> TRUE]
  /\ Answered(t, 0)
  /\ UNCHANGED <<ending, booking, row, told, refunds, events>>

AgainMutant(t) ==
  /\ At(t, "again")
  /\ Become(t, [tasks[t] EXCEPT !.seen = AmountRefunded, !.pc = "record"])
  /\ UNCHANGED <<ending, booking, row, told, refunds, key, events, faults>>

AgainRaisesMutant(t) ==
  /\ At(t, "again")
  /\ Become(t, IF Due > AmountRefunded THEN Idle
               ELSE [tasks[t] EXCEPT !.seen = AmountRefunded, !.pc = "record"])
  /\ UNCHANGED <<ending, booking, row, told, refunds, key, events, faults>>

\* Read again: what the business refunded meanwhile is no failure.
Again(t) ==
  /\ At(t, "again")
  /\ Become(t, [tasks[t] EXCEPT !.seen = AmountRefunded, !.refused = Due > AmountRefunded,
                                !.pc = "record"])
  /\ UNCHANGED <<ending, booking, row, told, refunds, key, events, faults>>

\* SET_REFUND_FLAG: nothing is owed before refunded_minor is written.
Flag(r, refunded) == r.settled /\ refunded < r.refunded_minor

\* REFUNDED, under the lock: whoever is first writes, ends a hold not yet swept, and flags what was
\* held or refused.  Then the refund is looked at: it may have failed before it was recorded.
Record(t) ==
  /\ At(t, "record")
  /\ IF row.settled
     THEN /\ Become(t, Idle)
          /\ UNCHANGED <<booking, row, told>>
     ELSE LET held == ending.held /\ Due > tasks[t].seen
              written == [row EXCEPT !.settled = TRUE, !.refunded_minor = Due]
          IN /\ row' = IF held \/ tasks[t].refused
                       THEN [written EXCEPT !.flag = Flag(written, tasks[t].seen)] ELSE written
             /\ told' = IF tasks[t].refused THEN Append(told, 0) ELSE told
             /\ booking' = "ended"
             /\ Become(t, IF tasks[t].refund = 0 THEN Idle
                          ELSE [tasks[t] EXCEPT !.pc = "read_refund"])
  /\ UNCHANGED <<ending, refunds, key, events, faults>>

-----------------------------------------------------------------------------
(* refund_changed *)

BeginEvent(t) ==
  /\ At(t, "idle")
  /\ \E i \in events :
       /\ events' = events \ {i}
       /\ Become(t, [Idle EXCEPT !.op = "event", !.pc = "read_refund", !.refund = i])
  /\ UNCHANGED <<ending, booking, row, told, refunds, key, faults>>

ReadRefund(t) ==
  /\ At(t, "read_refund")
  /\ Become(t, [tasks[t] EXCEPT !.failed = refunds[tasks[t].refund].failed, !.pc = "read_charge"])
  /\ UNCHANGED <<ending, booking, row, told, refunds, key, events, faults>>

ReadCharge(t) ==
  /\ At(t, "read_charge")
  /\ Become(t, [tasks[t] EXCEPT !.seen = AmountRefunded, !.pc = "write"])
  /\ UNCHANGED <<ending, booking, row, told, refunds, key, events, faults>>

\* TELL_REFUND_FAILED: once per failed refund.
Tell(refund) ==
  IF \E j \in DOMAIN told : told[j] = refund THEN told ELSE Append(told, refund)

\* Under the lock.
Write(t) ==
  /\ At(t, "write")
  /\ told' = IF tasks[t].failed THEN Tell(tasks[t].refund) ELSE told
  /\ row' = [row EXCEPT !.flag = Flag(row, tasks[t].seen)]
  /\ Become(t, Idle)
  /\ UNCHANGED <<ending, booking, refunds, key, events, faults>>

-----------------------------------------------------------------------------
(* Jobs that stop or time out, the sweep, the business and Stripe *)

\* An event job that stops is tried again; a settle job by the hourly sweep.
Drop(t) ==
  /\ ~ At(t, "idle")
  /\ Fault
  /\ events' = IF tasks[t].op = "event" THEN events \cup {tasks[t].refund} ELSE events
  /\ Become(t, Idle)
  /\ UNCHANGED <<ending, booking, row, told, refunds, key>>

\* Its thread runs on beside its retry.
TimesOut(t) ==
  /\ tasks[t].op = "event"
  /\ Fault
  /\ events' = events \cup {tasks[t].refund}
  /\ UNCHANGED <<ending, booking, row, told, refunds, key, tasks>>

Sweep ==
  /\ booking = "awaiting_payment"
  /\ booking' = "ended"
  /\ UNCHANGED <<ending, row, told, refunds, key, events, tasks, faults>>

HandRefund ==
  /\ Cardinality({i \in DOMAIN refunds : ~ refunds[i].ours}) < MaxByHand
  /\ \E amount \in HandAmounts : amount <= Amount - AmountRefunded /\ NewRefund(amount, FALSE)
  /\ UNCHANGED <<ending, booking, row, told, key, tasks, faults>>

RefundFails(i) ==
  /\ ~ refunds[i].failed
  /\ Fault
  /\ refunds' = [refunds EXCEPT ![i].failed = TRUE]
  /\ events' = events \cup {i}
  /\ UNCHANGED <<ending, booking, row, told, key, tasks>>

\* 24 hours: no job runs that long.
KeyExpires ==
  /\ key.answered
  /\ \A t \in Tasks : At(t, "idle")
  /\ key' = Unanswered
  /\ UNCHANGED <<ending, booking, row, told, refunds, events, tasks, faults>>

-----------------------------------------------------------------------------

Step(t) ==
  \/ Retrieve(t) \/ RefundAgain(t) \/ RefundFirst(t) \/ RefundRefused(t) \/ Again(t) \/ Record(t)
  \/ ReadRefund(t) \/ ReadCharge(t) \/ Write(t)

Next ==
  \/ \E t \in Tasks : BeginRefund(t) \/ BeginEvent(t) \/ Step(t) \/ Drop(t) \/ TimesOut(t)
  \/ \E i \in DOMAIN refunds : RefundFails(i)
  \/ Sweep \/ HandRefund \/ KeyExpires

Spec == Init /\ [][Next]_vars

\* A job that does not stop goes on; the hourly sweep re-arms settle, the queue its event jobs.
FairSpec ==
  /\ Spec
  /\ \A t \in Tasks : WF_vars(Step(t))
  /\ SF_vars(\E t \in Tasks : BeginRefund(t))
  /\ SF_vars(\E t \in Tasks : BeginEvent(t))

-----------------------------------------------------------------------------
(* Properties *)

\* What settle sends and Stripe keeps never exceeds what the ending owes, however its runs overlap,
\* are repeated, or outlive the idempotency key.
NeverRefundedTwice ==
  AmountOf({i \in DOMAIN refunds : refunds[i].ours /\ ~ refunds[i].failed}) <= Due

\* A failed refund is told to the business once, and a refused one once.
ToldOnce ==
  \A i, j \in DOMAIN told : told[i] = told[j] => i = j

Quiet == events = {} /\ \A t \in Tasks : At(t, "idle")

\* Money that is owed and not on its way is never forgotten: once every job is done, a settled row
\* that fell short is flagged or a failure was told.
ShortfallIsKnown ==
  Quiet /\ row.settled /\ AmountRefunded < Due => row.flag \/ told # <<>>

\* The console's flag says exactly that money is still owed, whatever the order of the events.
FlagIsRight ==
  Quiet /\ row.settled => (row.flag <=> AmountRefunded < Due)

\* Every ended booking's payment is settled in the end, whatever jobs stop on the way.
SettlesInTheEnd == <>(row.settled)

\* The row and the jobs are as the code can make them, each failure is told once, and no shortfall is
\* forgotten when the jobs are done.
RefundsInv == TypeOK /\ ToldOnce /\ ShortfallIsKnown

=============================================================================
