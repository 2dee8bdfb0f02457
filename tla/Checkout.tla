----------------------------- MODULE Checkout -----------------------------
(***************************************************************************)
(* One online booking's checkout: the hold on its slot, the                 *)
(* booking_payments rows, the intents at Stripe, and the handlers that run  *)
(* between them (backend/app/payments.py: start, resume, abandon,           *)
(* reconcile, settle; bookings.sweep).                                      *)
(*                                                                          *)
(* No handler keeps a transaction open across a call to Stripe, so each is  *)
(* several steps: one per transaction (the writing ones under the           *)
(* business's lock) and one per call.  Handlers in flight are the entries   *)
(* of tasks; any number of them, of any kind, interleave.  A handler may    *)
(* stop after any step (Drop): a failed call, a lock timeout, a killed      *)
(* process.  sync and the webhook's event job are reconcile and no more.    *)
(*                                                                          *)
(* hold is where the checkout's deadline stands for a transaction that      *)
(* reads it: "running" before it, "grace" while transactions opened before  *)
(* it may still be waiting for the lock, "over" after.                      *)
(*                                                                          *)
(* Refunds of what was paid are in Refunds.                                 *)
(***************************************************************************)
EXTENDS Naturals, Sequences, FiniteSets

CONSTANTS
  Tasks,        \* handlers in flight at one time
  MaxIntents,   \* bound: the highest number an intent of the booking gets
  MaxFaults     \* bound: handlers that stop half way, payments a bank declines

ASSUME CheckoutAssumption == MaxIntents \in Nat \ {0} /\ MaxFaults \in Nat

VARIABLES
  hold,         \* the checkout's deadline, see above
  booking,      \* "awaiting_payment", "booked" (a request or confirmed) or "expired"
  rows,         \* booking_payments, in order of creation
  intents,      \* Stripe's intents, by idempotency key
  tasks,        \* the handlers in flight
  faults        \* how many of either so far

vars == <<hold, booking, rows, intents, tasks, faults>>

Kinds == {"check", "pay"}

\* _create's idempotency key: the number of the intent and its kind name one intent.
Keys == (1 .. MaxIntents) \X Kinds

\* An intent has at most one row.
RowIds == 1 .. 2 * MaxIntents

Kind(k) == k[2]

IntentStatuses == {"absent", "open", "processing", "requires_capture", "succeeded", "canceled"}

RowType == [key : Keys, status : {"open", "checked", "paid", "canceled"}, settled : BOOLEAN]

\* What a handler remembers between its steps.  row is the payment it read, n the number of rows
\* then; todo the rows a settle pass has yet to do, final and moved its second pass.
Idle == [op |-> "none", pc |-> "idle", kind |-> "check", row |-> 0, n |-> 0,
         key |-> <<1, "check">>, seen |-> "absent", todo |-> {}, final |-> FALSE, moved |-> FALSE]

Ops == {"none", "start", "resume", "abandon", "reconcile", "settle"}

Pcs == {"idle", "create", "insert", "give_back", "retrieve", "cancel", "conflict", "again",
        "orphan", "write", "look", "reconcile", "mark", "pass"}

TaskType ==
  [op : Ops, pc : Pcs, kind : Kinds, row : RowIds \cup {0}, n : RowIds \cup {0}, key : Keys,
   seen : IntentStatuses, todo : SUBSET (RowIds \X {"cancel", "release"}),
   final : BOOLEAN, moved : BOOLEAN]

TypeOK ==
  /\ hold \in {"running", "grace", "over"}
  /\ booking \in {"awaiting_payment", "booked", "expired"}
  /\ rows \in Seq(RowType) /\ DOMAIN rows \subseteq RowIds
  /\ intents \in [Keys -> [status : IntentStatuses, shown : BOOLEAN]]
  /\ tasks \in [Tasks -> TaskType]
  /\ faults \in 0 .. MaxFaults

\* book_online has placed the booking; create goes on with start.
Init ==
  /\ hold = "running"
  /\ booking = "awaiting_payment"
  /\ rows = <<>>
  /\ intents = [k \in Keys |-> [status |-> "absent", shown |-> FALSE]]
  /\ \E t \in Tasks, kind \in Kinds :
       tasks = [u \in Tasks |-> IF u = t THEN [Idle EXCEPT !.op = "start", !.pc = "create",
                                                           !.kind = kind]
                                ELSE Idle]
  /\ faults = 0

-----------------------------------------------------------------------------
(* What the handlers read and write *)

\* What `expires_at > now()` may answer to a transaction.
HoldRuns == CASE hold = "running" -> {TRUE}
              [] hold = "grace" -> BOOLEAN
              [] hold = "over" -> {FALSE}

\* LIVE_PAYMENT: the row that is not canceled, else the newest; 0 when there is none.
LivePayment ==
  IF \E i \in DOMAIN rows : rows[i].status # "canceled"
  THEN CHOOSE i \in DOMAIN rows : rows[i].status # "canceled"
  ELSE Len(rows)

Landed(k, status) ==
  status = IF Kind(k) = "check" THEN "requires_capture" ELSE "succeeded"

MarkCanceled(rs, i) ==
  [j \in DOMAIN rs |-> IF j = i /\ rs[j].status = "open"
                       THEN [rs[j] EXCEPT !.status = "canceled", !.settled = TRUE] ELSE rs[j]]

\* Stripe cancels an intent unless money is under way or taken.
AfterCancel(k) ==
  IF intents[k].status \in {"open", "requires_capture"} THEN "canceled" ELSE intents[k].status

CancelIntent(k) == intents' = [intents EXCEPT ![k].status = AfterCancel(k)]

Become(t, task) == tasks' = [tasks EXCEPT ![t] = task]

At(t, op, pc) == tasks[t].op = op /\ tasks[t].pc = pc

\* A handler remembers only what it is still going to use: to reconcile an intent, its key.
ToReconcile(k) == [Idle EXCEPT !.op = "reconcile", !.pc = "look", !.key = k]

InsertConflictsMutant(rs, k) == \E i \in DOMAIN rs : rs[i].key = k

\* uq_booking_payments_live and the intent's own unique key.
InsertConflicts(rs, k) ==
  \E i \in DOMAIN rs : rs[i].status # "canceled" \/ rs[i].key = k

NewRow(k) == [key |-> k, status |-> "open", settled |-> FALSE]

-----------------------------------------------------------------------------
(* start *)

StartCreate(t) ==
  /\ At(t, "start", "create")
  /\ LET k == <<1, tasks[t].kind>> IN
     /\ intents' = [intents EXCEPT ![k].status = "open"]
     /\ Become(t, [tasks[t] EXCEPT !.pc = "insert", !.key = k])
  /\ UNCHANGED <<hold, booking, rows, faults>>

\* The call or the insert fails, perhaps after it took effect: the hold is given back.
StartFails(t) ==
  /\ tasks[t].op = "start" /\ tasks[t].pc \in {"create", "insert"}
  /\ faults < MaxFaults
  /\ faults' = faults + 1
  /\ \E done \in BOOLEAN :
       /\ intents' = IF done /\ tasks[t].pc = "create"
                     THEN [intents EXCEPT ![<<1, tasks[t].kind>>].status = "open"] ELSE intents
       /\ rows' = IF done /\ tasks[t].pc = "insert" THEN Append(rows, NewRow(tasks[t].key)) ELSE rows
  /\ Become(t, [tasks[t] EXCEPT !.pc = "give_back"])
  /\ UNCHANGED <<hold, booking>>

\* _insert: it does not ask whether the hold still runs.
StartInsert(t) ==
  /\ At(t, "start", "insert")
  /\ rows' = Append(rows, NewRow(tasks[t].key))
  /\ intents' = [intents EXCEPT ![tasks[t].key].shown = TRUE]
  /\ Become(t, Idle)
  /\ UNCHANGED <<hold, booking, faults>>

\* EXPIRE_ONE
ExpireOne(status) == IF status = "awaiting_payment" THEN "expired" ELSE status

GiveBack(t) ==
  /\ At(t, "start", "give_back")
  /\ booking' = ExpireOne(booking)
  /\ Become(t, Idle)
  /\ UNCHANGED <<hold, rows, intents, faults>>

-----------------------------------------------------------------------------
(* reconcile: look at Stripe, then write what it says *)

Looked(task) == [task EXCEPT !.pc = "reconcile", !.seen = intents[task.key].status]

\* sync, or the job of a webhook's event, up to its look at Stripe.  A row that is not open is left
\* alone, so only an open one is looked at here.
BeginReconcile(t) ==
  /\ tasks[t].pc = "idle"
  /\ \E i \in DOMAIN rows :
       /\ rows[i].status = "open"
       /\ Become(t, Looked(ToReconcile(rows[i].key)))
  /\ UNCHANGED <<hold, booking, rows, intents, faults>>

Look(t) ==
  /\ tasks[t].pc = "look"
  /\ Become(t, Looked(tasks[t]))
  /\ UNCHANGED <<hold, booking, rows, intents, faults>>

\* SETTLE_ROWS has the rows in order of creation: the one a pass is at.
First(todo) == CHOOSE x \in todo : \A y \in todo : x[1] <= y[1]

\* A settle pass goes on to its next row, or looks again once if it reconciled.
NextRow(task) ==
  LET rest == task.todo \ {First(task.todo)} IN
  CASE task.op # "settle" -> Idle
    [] task.op = "settle" /\ rest # {} ->
         [Idle EXCEPT !.op = "settle", !.pc = "cancel", !.todo = rest,
                      !.final = task.final, !.moved = task.moved]
    [] task.op = "settle" /\ rest = {} /\ task.moved /\ ~ task.final ->
         [Idle EXCEPT !.op = "settle", !.pc = "pass", !.final = TRUE]
    [] OTHER -> Idle

ReconcileMutant(rs, i, seen, runs, was) ==
  LET k == rs[i].key IN
  CASE Landed(k, seen) ->
         [rows |-> [rs EXCEPT ![i].status = IF Kind(k) = "check" THEN "checked" ELSE "paid"],
          booking |-> IF runs /\ was = "awaiting_payment" THEN "booked" ELSE was]
    [] seen = "canceled" -> [rows |-> MarkCanceled(rs, i), booking |-> was]
    [] OTHER -> [rows |-> rs, booking |-> was]

\* _checked, _paid and _live: nothing moves a row that is no longer open, and a checkout that is
\* over is not booked.
Reconciled(rs, i, seen, runs, was) ==
  LET k == rs[i].key IN
  CASE rs[i].status # "open" -> [rows |-> rs, booking |-> was]
    [] rs[i].status = "open" /\ Landed(k, seen) ->
         [rows |-> [rs EXCEPT ![i].status = IF Kind(k) = "check" THEN "checked" ELSE "paid"],
          booking |-> IF runs /\ was = "awaiting_payment" THEN "booked" ELSE was]
    [] rs[i].status = "open" /\ seen = "canceled" ->
         [rows |-> MarkCanceled(rs, i), booking |-> was]
    [] OTHER -> [rows |-> rs, booking |-> was]

Reconcile(t) ==
  /\ tasks[t].pc = "reconcile"
  /\ \E i \in DOMAIN rows, runs \in HoldRuns :
       /\ rows[i].key = tasks[t].key
       /\ LET result == Reconciled(rows, i, tasks[t].seen, runs, booking) IN
          rows' = result.rows /\ booking' = result.booking
  /\ Become(t, NextRow(tasks[t]))
  /\ UNCHANGED <<hold, intents, faults>>

-----------------------------------------------------------------------------
(* resume: the open intent again, a new one for a canceled one, or the other kind *)

\* _checkout: the booking is live; the handler keeps its payment and the number of rows.
BeginResume(t, kind) ==
  /\ tasks[t].pc = "idle"
  /\ booking = "awaiting_payment" /\ TRUE \in HoldRuns
  /\ LivePayment # 0 /\ rows[LivePayment].status \in {"open", "canceled"}
  /\ Len(rows) < MaxIntents
  /\ Become(t, [Idle EXCEPT !.op = "resume", !.kind = kind, !.row = LivePayment, !.n = Len(rows),
                            !.key = rows[LivePayment].key,
                            !.pc = IF rows[LivePayment].status = "open" THEN "retrieve"
                                   ELSE "create"])
  /\ UNCHANGED <<hold, booking, rows, intents, faults>>

ResumeRetrieveMutant(t) ==
  /\ At(t, "resume", "retrieve")
  /\ LET k == tasks[t].key IN
     Become(t, CASE Landed(k, intents[k].status) -> ToReconcile(k)
                 [] ~ Landed(k, intents[k].status) -> [tasks[t] EXCEPT !.pc = "create"])
  /\ UNCHANGED <<hold, booking, rows, intents, faults>>

\* Landed: reconcile.  Canceled: a new intent.  Else the same kind gets its secret, and the other
\* kind ends this intent first.
ResumeRetrieve(t) ==
  /\ At(t, "resume", "retrieve")
  /\ LET k == tasks[t].key
         status == intents[k].status
     IN Become(t, CASE Landed(k, status) -> ToReconcile(k)
                    [] status = "canceled" -> [tasks[t] EXCEPT !.pc = "create"]
                    [] ~ Landed(k, status) /\ status # "canceled" ->
                         IF Kind(k) = tasks[t].kind THEN Idle ELSE [tasks[t] EXCEPT !.pc = "cancel"])
  /\ UNCHANGED <<hold, booking, rows, intents, faults>>

ResumeCancelMutant(t) ==
  /\ At(t, "resume", "cancel")
  /\ CancelIntent(tasks[t].key)
  /\ Become(t, [tasks[t] EXCEPT !.pc = "create"])
  /\ UNCHANGED <<hold, booking, rows, faults>>

ResumeCancel(t) ==
  /\ At(t, "resume", "cancel")
  /\ CancelIntent(tasks[t].key)
  /\ Become(t, IF AfterCancel(tasks[t].key) = "canceled" THEN [tasks[t] EXCEPT !.pc = "create"]
               ELSE ToReconcile(tasks[t].key))
  /\ UNCHANGED <<hold, booking, rows, faults>>

\* The key makes a repeated create the same intent.
ResumeCreate(t) ==
  /\ At(t, "resume", "create")
  /\ LET k == <<tasks[t].n + 1, tasks[t].kind>> IN
     /\ intents' = [intents EXCEPT ![k].status = IF @ = "absent" THEN "open" ELSE @]
     /\ Become(t, [Idle EXCEPT !.op = "resume", !.pc = "insert", !.row = tasks[t].row, !.key = k])
  /\ UNCHANGED <<hold, booking, rows, faults>>

\* One transaction under the lock: is the hold still there, the old row canceled, the new one in.  A
\* conflict rolls all of it back.
ResumeInsert(t) ==
  /\ At(t, "resume", "insert")
  /\ \E runs \in HoldRuns :
       LET k == tasks[t].key
           marked == MarkCanceled(rows, tasks[t].row)
           gone == booking # "awaiting_payment" \/ ~ runs
           stored == ~ gone /\ ~ InsertConflicts(marked, k)
       IN /\ rows' = IF stored THEN Append(marked, NewRow(k)) ELSE rows
          /\ intents' = IF stored THEN [intents EXCEPT ![k].shown = TRUE] ELSE intents
          /\ Become(t, IF stored THEN Idle
                       ELSE [tasks[t] EXCEPT !.row = 0, !.pc = IF gone THEN "orphan" ELSE "conflict"])
  /\ UNCHANGED <<hold, booking, faults>>

\* Another writer's row is in.  The same intent: this request, twice.  Any other: ours is nobody's.
ResumeConflict(t) ==
  /\ At(t, "resume", "conflict")
  /\ LET live == rows[LivePayment] IN
     Become(t, CASE live.key # tasks[t].key -> [tasks[t] EXCEPT !.pc = "orphan"]
                 [] live.key = tasks[t].key /\ live.status = "open" -> [tasks[t] EXCEPT !.pc = "again"]
                 [] live.key = tasks[t].key /\ live.status # "open" -> ToReconcile(live.key))
  /\ UNCHANGED <<hold, booking, rows, intents, faults>>

ResumeAgain(t) ==
  /\ At(t, "resume", "again")
  /\ Become(t, IF Landed(tasks[t].key, intents[tasks[t].key].status)
               THEN ToReconcile(tasks[t].key) ELSE Idle)
  /\ UNCHANGED <<hold, booking, rows, intents, faults>>

Orphan(t) ==
  /\ At(t, "resume", "orphan")
  /\ CancelIntent(tasks[t].key)
  /\ Become(t, Idle)
  /\ UNCHANGED <<hold, booking, rows, faults>>

-----------------------------------------------------------------------------
(* abandon: the client gives the slot back *)

BeginAbandon(t) ==
  /\ tasks[t].pc = "idle"
  /\ booking = "awaiting_payment" /\ TRUE \in HoldRuns
  /\ LET open == LivePayment # 0 /\ rows[LivePayment].status = "open" IN
     Become(t, [Idle EXCEPT !.op = "abandon", !.row = LivePayment,
                            !.key = IF open THEN rows[LivePayment].key ELSE @,
                            !.pc = IF open THEN "cancel" ELSE "write"])
  /\ UNCHANGED <<hold, booking, rows, intents, faults>>

AbandonCancelMutant(t) ==
  /\ At(t, "abandon", "cancel")
  /\ CancelIntent(tasks[t].key)
  /\ Become(t, [tasks[t] EXCEPT !.pc = "write"])
  /\ UNCHANGED <<hold, booking, rows, faults>>

AbandonCancel(t) ==
  /\ At(t, "abandon", "cancel")
  /\ CancelIntent(tasks[t].key)
  /\ Become(t, IF AfterCancel(tasks[t].key) = "canceled"
               THEN [Idle EXCEPT !.op = "abandon", !.pc = "write", !.row = tasks[t].row]
               ELSE ToReconcile(tasks[t].key))
  /\ UNCHANGED <<hold, booking, rows, faults>>

\* EXPIRE_ONE finds no row when the payment landed in between: all of it is rolled back.
AbandonWrite(t) ==
  /\ At(t, "abandon", "write")
  /\ booking' = ExpireOne(booking)
  /\ rows' = IF booking = "awaiting_payment" THEN MarkCanceled(rows, tasks[t].row) ELSE rows
  /\ Become(t, Idle)
  /\ UNCHANGED <<hold, intents, faults>>

-----------------------------------------------------------------------------
(* settle: cancel what nobody will finish, release what was only checked *)

\* The rows an unsettled booking's pass is to do.  Rows of a paid booking are Refunds' matter.
SettleRows(runs) ==
  LET live == booking = "awaiting_payment" /\ runs
      due == {i \in DOMAIN rows :
                ~ rows[i].settled /\ (rows[i].status = "checked" \/ (rows[i].status = "open" /\ ~ live))}
  IN {<<i, IF rows[i].status = "open" THEN "cancel" ELSE "release">> : i \in due}

\* A job of UNSETTLED, of _checked or of an ended booking: all of them read the rows afresh.
BeginSettle(t) ==
  /\ tasks[t].pc = "idle"
  /\ \E runs \in HoldRuns :
       /\ SettleRows(runs) # {}
       /\ Become(t, [Idle EXCEPT !.op = "settle", !.pc = "cancel", !.todo = SettleRows(runs)])
  /\ UNCHANGED <<hold, booking, rows, intents, faults>>

\* The second pass, after a reconcile.
SettlePass(t) ==
  /\ At(t, "settle", "pass")
  /\ \E runs \in HoldRuns :
       Become(t, IF SettleRows(runs) = {} THEN Idle
                 ELSE [tasks[t] EXCEPT !.pc = "cancel", !.todo = SettleRows(runs)])
  /\ UNCHANGED <<hold, booking, rows, intents, faults>>

SettleCancelMutant(t) ==
  /\ At(t, "settle", "cancel")
  /\ LET k == rows[First(tasks[t].todo)[1]].key IN
     /\ CancelIntent(k)
     /\ Become(t, IF AfterCancel(k) = "canceled" THEN [tasks[t] EXCEPT !.pc = "mark"] ELSE Idle)
  /\ UNCHANGED <<hold, booking, rows, faults>>

\* Stripe refused: the first pass looks at the intent, the last one, and a release, give the job up
\* (it is tried again).
SettleCancel(t) ==
  /\ At(t, "settle", "cancel")
  /\ LET i == First(tasks[t].todo)[1]
         k == rows[i].key
         work == First(tasks[t].todo)[2]
     IN /\ CancelIntent(k)
        /\ Become(t, CASE AfterCancel(k) = "canceled" -> [tasks[t] EXCEPT !.pc = "mark"]
                       [] AfterCancel(k) # "canceled" /\ work = "cancel" /\ ~ tasks[t].final ->
                            [tasks[t] EXCEPT !.pc = "look", !.key = k, !.moved = TRUE]
                       [] OTHER -> Idle)
  /\ UNCHANGED <<hold, booking, rows, faults>>

\* RELEASED
Released(rs, i) == [rs EXCEPT ![i].settled = TRUE]

SettleMark(t) ==
  /\ At(t, "settle", "mark")
  /\ LET i == First(tasks[t].todo)[1] IN
     rows' = IF First(tasks[t].todo)[2] = "cancel" THEN MarkCanceled(rows, i) ELSE Released(rows, i)
  /\ Become(t, NextRow(tasks[t]))
  /\ UNCHANGED <<hold, booking, intents, faults>>

\* A handler stops: a call that failed, a lock that timed out, a process that was killed.
Drop(t) ==
  /\ tasks[t].pc # "idle"
  /\ faults < MaxFaults
  /\ faults' = faults + 1
  /\ Become(t, Idle)
  /\ UNCHANGED <<hold, booking, rows, intents>>

-----------------------------------------------------------------------------
(* The clock, the sweep, and Stripe *)

HoldLapses ==
  /\ hold = "running"
  /\ hold' = "grace"
  /\ UNCHANGED <<booking, rows, intents, tasks, faults>>

HoldIsOver ==
  /\ hold = "grace"
  /\ hold' = "over"
  /\ UNCHANGED <<booking, rows, intents, tasks, faults>>

\* EXPIRE, in the booking page's reads and the worker's sweep.
Sweep ==
  /\ booking = "awaiting_payment" /\ FALSE \in HoldRuns
  /\ booking' = "expired"
  /\ UNCHANGED <<hold, rows, intents, tasks, faults>>

SetIntent(k, status) ==
  /\ intents' = [intents EXCEPT ![k].status = status]
  /\ UNCHANGED <<hold, booking, rows, tasks>>

\* A browser that was given the secret confirms the intent: done at once, or under way at a bank.
Confirm(k) ==
  /\ intents[k].shown /\ intents[k].status = "open"
  /\ \/ SetIntent(k, "processing")
     \/ SetIntent(k, IF Kind(k) = "check" THEN "requires_capture" ELSE "succeeded")
  /\ UNCHANGED faults

BankAccepts(k) ==
  /\ intents[k].status = "processing"
  /\ SetIntent(k, IF Kind(k) = "check" THEN "requires_capture" ELSE "succeeded")
  /\ UNCHANGED faults

\* A decline leaves the intent open to another try.
BankDeclines(k) ==
  /\ intents[k].status = "processing"
  /\ faults < MaxFaults
  /\ SetIntent(k, "open")
  /\ faults' = faults + 1

\* An authorisation that lapsed, an intent canceled from the business's dashboard.
StripeCancels(k) ==
  /\ intents[k].status \in {"open", "requires_capture"}
  /\ faults < MaxFaults
  /\ SetIntent(k, "canceled")
  /\ faults' = faults + 1

-----------------------------------------------------------------------------

\* A handler in flight takes its next step.
Step(t) ==
  \/ StartCreate(t) \/ StartInsert(t) \/ GiveBack(t)
  \/ Look(t) \/ Reconcile(t)
  \/ ResumeRetrieve(t) \/ ResumeCancel(t) \/ ResumeCreate(t) \/ ResumeInsert(t)
  \/ ResumeConflict(t) \/ ResumeAgain(t) \/ Orphan(t)
  \/ AbandonCancel(t) \/ AbandonWrite(t)
  \/ SettlePass(t) \/ SettleCancel(t) \/ SettleMark(t)

Begin(t) ==
  \/ BeginReconcile(t) \/ BeginAbandon(t) \/ BeginSettle(t)
  \/ \E kind \in Kinds : BeginResume(t, kind)

Stripe ==
  \E k \in Keys : Confirm(k) \/ BankAccepts(k) \/ BankDeclines(k) \/ StripeCancels(k)

Next ==
  \/ \E t \in Tasks : Begin(t) \/ Step(t) \/ StartFails(t) \/ Drop(t)
  \/ HoldLapses \/ HoldIsOver \/ Sweep
  \/ Stripe

Spec == Init /\ [][Next]_vars

\* A handler that is not stopped goes on; time passes; a bank answers; and the hourly sweep gives
\* every booking that is owed an answer a new settle job, whatever became of the last.
Fairness ==
  /\ \A t \in Tasks : WF_vars(Step(t))
  /\ SF_vars(\E t \in Tasks : BeginSettle(t))
  /\ WF_vars(HoldLapses) /\ WF_vars(HoldIsOver)
  /\ \A k \in Keys : WF_vars(BankAccepts(k))

FairSpec == Spec /\ Fairness

-----------------------------------------------------------------------------
(* Properties *)

RowOf(k) == {i \in DOMAIN rows : rows[i].key = k}

Charged(k) == Kind(k) = "pay" /\ intents[k].status \in {"processing", "succeeded"}

\* Money under way or taken is always on an intent a row names, and that row is not canceled: no
\* order of resumes, switches, abandons and settles leaves a charge nobody will account for.
NoChargeUnseen ==
  \A k \in Keys : Charged(k) => \E i \in RowOf(k) : rows[i].status \in {"open", "paid"}

\* A client who refreshes, goes Back or switches between checking and paying never pays twice: the
\* old intent is ended before the new one is shown.
NoDoubleCharge ==
  Cardinality({k \in Keys : Charged(k)}) <= 1

\* Nobody holds a booking without having paid or had a card checked for it: one row, and one only, is
\* checked or paid, and the money of a paid row was taken.
BookedIsLanded ==
  booking = "booked" =>
    LET landed == {i \in DOMAIN rows : rows[i].status \in {"checked", "paid"}} IN
    /\ Cardinality(landed) = 1
    /\ \A i \in landed : rows[i].status = "paid" => intents[rows[i].key].status = "succeeded"

\* What resume can hand a browser is one intent at a time: of all the intents shown, at most one can
\* still be confirmed.
OneSecretWorks ==
  Cardinality({k \in Keys : intents[k].shown /\ intents[k].status = "open"}) <= 1

\* settle never ends a checkout that is running: no pass has a row to cancel before the deadline,
\* unless the hold was already given back.
SettleSparesRunning ==
  \A t \in Tasks : hold = "running" /\ booking = "awaiting_payment" =>
    \A x \in tasks[t].todo : x[2] = "release"

\* A payment row that is no longer open never moves again, and what was settled stays settled: events
\* arrive in any order, and a reconcile that looked before a change may write after it.
RowsOnlyClose ==
  [][\A i \in DOMAIN rows :
       /\ rows[i].status # "open" => rows'[i].status = rows[i].status
       /\ rows[i].settled => rows'[i].settled]_vars

Payments(status) == {k \in Keys : Kind(k) = "pay" /\ intents[k].status = status}

HasRow(status) == \E i \in DOMAIN rows : rows[i].status = status

RecordOf == IF HasRow("paid") THEN "paid" ELSE IF HasRow("checked") THEN "checked" ELSE "none"

Promise ==
  INSTANCE OneCharge WITH Charges <- {k \in Keys : Kind(k) = "pay"},
    underWay <- Payments("processing"), taken <- Payments("succeeded"), record <- RecordOf, slot <- booking

\* Resumes, switches, abandons, events and settles add up to the promise of module OneCharge: one charge
\* at the most, no other once a check or a payment is on record, and booked with the record or never.
KeepsToOneCharge == Promise!Spec

\* Every charge is recorded on its row in the end, also when every webhook is lost: settle finds it.
ChargeIsRecorded ==
  <>[](\A k \in Keys : Kind(k) = "pay" /\ intents[k].status = "succeeded" =>
                         \E i \in RowOf(k) : rows[i].status = "paid")

\* Every authorisation that only checked a card is released in the end.
CheckIsReleased ==
  <>[](\A k \in Keys : intents[k].status # "requires_capture")

\* abandon's promise: it never undoes a check that landed.
AbandonKeepsLanded ==
  [][\A t \in Tasks : At(t, "abandon", "cancel") /\ tasks'[t].pc = "write" =>
       ~ Landed(tasks[t].key, intents[tasks[t].key].status)]_vars

\* What every handler may rely on: rows and intents as the code can make them, a booking only with a
\* landed payment or check, one live secret, and no running checkout ended by settle.
CheckoutInv == TypeOK /\ BookedIsLanded /\ OneSecretWorks /\ SettleSparesRunning

\* Without any webhook, settle ends with every charge recorded and every authorisation released.
PaymentsSettle == ChargeIsRecorded /\ CheckIsReleased

=============================================================================
