--------------------------- MODULE CheckoutProofs ---------------------------
(***************************************************************************)
(* The safety of the checkout, for any number of handlers in flight and of  *)
(* intents: whoever reads, calls Stripe and writes in whichever order.      *)
(***************************************************************************)
EXTENDS Checkout, FiniteSetTheorems, TLAPS

-----------------------------------------------------------------------------
(* The inductive invariant *)

\* The payment rows: one per intent, one that is not canceled (uq_booking_payments_live); a canceled
\* one's intent is canceled, a paid one's has the money.
RowsOK ==
  /\ \A i, j \in DOMAIN rows : rows[i].key = rows[j].key => i = j
  /\ \A i, j \in DOMAIN rows : rows[i].status # "canceled" /\ rows[j].status # "canceled" => i = j
  /\ \A i \in DOMAIN rows :
       /\ rows[i].status = "canceled" => intents[rows[i].key].status = "canceled"
       /\ rows[i].status = "paid" => intents[rows[i].key].status = "succeeded"
       /\ rows[i].status = "checked" => Kind(rows[i].key) = "check"

\* The intents: a secret is handed out only with its row, and nobody confirms without it.
IntentsOK ==
  \A k \in Keys :
    /\ intents[k].shown => \E i \in DOMAIN rows : rows[i].key = k
    /\ intents[k].status \notin {"absent", "open", "canceled"} => intents[k].shown

\* The intent of row i can no longer be confirmed.
Ended(i) == intents[rows[i].key].status = "canceled"

Starting(t) == tasks[t].op = "start" /\ tasks[t].pc \in {"create", "insert"}

\* start comes before everything but abandon, which finds no payment.
StartOK(t) ==
  /\ Starting(t) => rows = <<>> /\ \A u \in Tasks : Starting(u) => u = t
  /\ At(t, "start", "create") => \A k \in Keys : intents[k].status = "absent"

\* What a handler saw is still so where it goes by it: the row it is to cancel has an ended intent.
ResumeOK(t) ==
  tasks[t].op = "resume" =>
    /\ rows # <<>>
    /\ tasks[t].pc \in {"retrieve", "cancel", "create"} => tasks[t].n < MaxIntents
    /\ tasks[t].pc \in {"retrieve", "cancel"} =>
         tasks[t].row \in DOMAIN rows /\ tasks[t].key = rows[tasks[t].row].key
    /\ tasks[t].pc \in {"create", "insert"} => tasks[t].row \in DOMAIN rows /\ Ended(tasks[t].row)

AbandonOK(t) ==
  tasks[t].op = "abandon" =>
    /\ tasks[t].pc = "cancel" => tasks[t].row \in DOMAIN rows /\ tasks[t].key = rows[tasks[t].row].key
    /\ tasks[t].pc = "write" =>
         tasks[t].row = 0 \/ (tasks[t].row \in DOMAIN rows
                                /\ (rows[tasks[t].row].status = "open" => Ended(tasks[t].row)))

\* An answer of Stripe's that is final, canceled or succeeded, is still true when it is written.
ReconcileOK(t) ==
  /\ tasks[t].pc \in {"look", "reconcile"} => tasks[t].op \in {"reconcile", "settle"}
  /\ tasks[t].pc = "reconcile" /\ tasks[t].seen \in {"canceled", "succeeded"} =>
       intents[tasks[t].key].status = tasks[t].seen

\* A pass of settle has one row to do, and its intent has ended once it marks the row.
SettleOK(t) ==
  tasks[t].op = "settle" =>
    /\ tasks[t].pc # "pass" => tasks[t].todo # {}
    /\ \A x, y \in tasks[t].todo : x = y
    /\ \A x \in tasks[t].todo : x[1] \in DOMAIN rows /\ (tasks[t].pc = "mark" => Ended(x[1]))

TasksOK ==
  \A t \in Tasks : StartOK(t) /\ ResumeOK(t) /\ AbandonOK(t) /\ ReconcileOK(t) /\ SettleOK(t)

BookedHasLanded ==
  booking = "booked" => \E i \in DOMAIN rows : rows[i].status \in {"checked", "paid"}

CheckoutIInv ==
  TypeOK /\ RowsOK /\ IntentsOK /\ TasksOK /\ BookedHasLanded /\ SettleSparesRunning

-----------------------------------------------------------------------------
(* What every step does *)

IntentsType == [Keys -> [status : IntentStatuses, shown : BOOLEAN]]

\* Rows stay, with their intents, and one that is not open stays as it is.
RowsKept ==
  /\ DOMAIN rows \subseteq DOMAIN rows'
  /\ \A i \in DOMAIN rows :
       /\ rows'[i].key = rows[i].key
       /\ rows[i].status # "open" => rows'[i].status = rows[i].status
       /\ rows[i].settled => rows'[i].settled

\* Stripe never takes back that an intent is canceled, or that it succeeded.
IntentsKept ==
  \A k \in Keys : intents[k].status \in {"canceled", "succeeded"} => intents'[k].status = intents[k].status

\* While another handler starts, there is nothing yet for this one to write.
StartersSeeNothing(t) ==
  \A u \in Tasks : u # t /\ Starting(u) =>
    rows' = rows /\ \A k \in Keys : intents'[k].status = intents[k].status

\* A handler that is done, and one that is to reconcile, are well formed.
LEMMA IdleType ==
  /\ Idle \in TaskType
  /\ \A k \in Keys : ToReconcile(k) \in TaskType
<1>1. <<1, "check">> \in Keys
  BY CheckoutAssumption DEF Keys, Kinds
<1>2. Idle \in TaskType
  BY <1>1 DEF Idle, TaskType, Ops, Pcs, Kinds, IntentStatuses
<1>3. ASSUME NEW k \in Keys PROVE ToReconcile(k) \in TaskType
  BY <1>2 DEF Idle, ToReconcile, TaskType, Ops, Pcs
<1> QED
  BY <1>2, <1>3

\* Rows that have each their own intent are no more than there are intents.
LEMMA RowsBounded ==
  ASSUME NEW rs \in Seq(RowType), \A i, j \in DOMAIN rs : rs[i].key = rs[j].key => i = j
  PROVE  DOMAIN rs \subseteq RowIds
<1> DEFINE f == [i \in DOMAIN rs |-> rs[i].key]
<1>1. IsFiniteSet(Keys) /\ Cardinality(Keys) = MaxIntents * 2
  <2>1. IsFiniteSet(1 .. MaxIntents) /\ Cardinality(1 .. MaxIntents) = MaxIntents
    BY CheckoutAssumption, FS_Interval
  <2>2. IsFiniteSet(Kinds) /\ Cardinality(Kinds) = 2
    <3>1. Kinds = {"check"} \cup {"pay"}
      BY DEF Kinds
    <3>2. IsFiniteSet({"check"}) /\ Cardinality({"check"}) = 1
      BY FS_Singleton
    <3>3. "pay" \notin {"check"}
      OBVIOUS
    <3>4. /\ IsFiniteSet({"check"} \cup {"pay"})
          /\ Cardinality({"check"} \cup {"pay"}) = Cardinality({"check"}) + 1
      BY <3>2, <3>3, FS_AddElement
    <3> QED
      BY <3>1, <3>2, <3>4
  <2> QED
    BY <2>1, <2>2, FS_Product DEF Keys
<1>2. DOMAIN rs = 1 .. Len(rs) /\ Len(rs) \in Nat
  OBVIOUS
<1>3. f \in [DOMAIN rs -> Keys]
  <2>1. \A i \in DOMAIN rs : rs[i] \in RowType
    OBVIOUS
  <2> QED
    BY <2>1 DEF RowType
<1>4. f \in Injection(DOMAIN rs, Keys)
  BY <1>3 DEF Injection, IsInjective
<1>5. Cardinality(DOMAIN rs) <= Cardinality(Keys)
  BY <1>1, <1>4, FS_Injection
<1>6. Cardinality(DOMAIN rs) = Len(rs)
  BY <1>2, FS_Interval
<1> QED
  BY <1>1, <1>2, <1>5, <1>6, CheckoutAssumption DEF RowIds

\* The other handlers' part of the invariant, after a step of t.
LEMMA OthersKept ==
  ASSUME CheckoutIInv, NEW t \in Tasks, NEW task, Become(t, task), RowsKept, IntentsKept,
         StartersSeeNothing(t), Starting(t)' => Starting(t), rows' \in Seq(RowType)
  PROVE  \A u \in Tasks : u # t =>
           StartOK(u)' /\ ResumeOK(u)' /\ AbandonOK(u)' /\ ReconcileOK(u)' /\ SettleOK(u)'
<1> SUFFICES ASSUME NEW u \in Tasks, u # t
             PROVE  StartOK(u)' /\ ResumeOK(u)' /\ AbandonOK(u)' /\ ReconcileOK(u)' /\ SettleOK(u)'
  OBVIOUS
<1>1. \A v \in Tasks : v # t => tasks'[v] = tasks[v]
  BY DEF Become, CheckoutIInv, TypeOK
<1>2. rows \in Seq(RowType) /\ tasks[u] \in TaskType
  BY DEF CheckoutIInv, TypeOK
<1>3. \A i \in DOMAIN rows : i \in DOMAIN rows' /\ rows'[i].key = rows[i].key /\ rows[i].key \in Keys
  <2>1. \A i \in DOMAIN rows : rows[i] \in RowType
    BY <1>2
  <2> QED
    BY <2>1 DEF RowsKept, RowType
<1>4. \A i \in DOMAIN rows : Ended(i) => Ended(i)'
  BY <1>3 DEF Ended, IntentsKept
<1>5. StartOK(u)'
  BY <1>1 DEF CheckoutIInv, TasksOK, StartOK, Starting, StartersSeeNothing, At
<1>6. ResumeOK(u)'
  <2>1. rows # <<>> => rows' # <<>>
    BY <1>2, <1>3
  <2> QED
    BY <1>1, <1>3, <1>4, <2>1 DEF CheckoutIInv, TasksOK, ResumeOK
<1>7. AbandonOK(u)'
  BY <1>1, <1>3, <1>4 DEF CheckoutIInv, TasksOK, AbandonOK, RowsKept
<1>8. ReconcileOK(u)'
  BY <1>1, <1>2 DEF CheckoutIInv, TasksOK, ReconcileOK, IntentsKept, TaskType
<1>9. SettleOK(u)'
  BY <1>1, <1>3, <1>4 DEF CheckoutIInv, TasksOK, SettleOK
<1> QED
  BY <1>5, <1>6, <1>7, <1>8, <1>9

\* A handler that is done, or that goes on to look at Stripe, relies on nothing.
LEMMA QuietTaskOK ==
  ASSUME NEW t \in Tasks, <<tasks'[t].op, tasks'[t].pc>> \in {<<"none", "idle">>, <<"reconcile", "look">>}
  PROVE  StartOK(t)' /\ ResumeOK(t)' /\ AbandonOK(t)' /\ ReconcileOK(t)' /\ SettleOK(t)'
BY DEF StartOK, Starting, At, ResumeOK, AbandonOK, ReconcileOK, SettleOK

\* A step that leaves the payment rows alone.
LEMMA RowsAlone ==
  ASSUME CheckoutIInv, NEW t \in Tasks, NEW task \in TaskType, Become(t, task),
         rows' = rows, hold' = hold, booking' \in {booking, ExpireOne(booking)},
         faults' \in 0 .. MaxFaults, intents' \in IntentsType, IntentsKept, IntentsOK',
         StartersSeeNothing(t), Starting(t)' => Starting(t),
         StartOK(t)' /\ ResumeOK(t)' /\ AbandonOK(t)' /\ ReconcileOK(t)' /\ SettleOK(t)',
         hold = "running" /\ booking = "awaiting_payment" => \A x \in task.todo : x[2] = "release"
  PROVE  CheckoutIInv' /\ RowsKept
<1>1. RowsKept
  BY DEF RowsKept
<1>2. rows \in Seq(RowType) /\ tasks \in [Tasks -> TaskType] /\ DOMAIN rows \subseteq RowIds
  BY DEF CheckoutIInv, TypeOK
<1>3. TasksOK'
  BY <1>1, <1>2, OthersKept DEF TasksOK
<1>4. TypeOK'
  BY <1>2 DEF TypeOK, Become, IntentsType, CheckoutIInv, ExpireOne
<1>5. RowsOK'
  <2>1. \A i \in DOMAIN rows : rows[i] \in RowType
    BY <1>2
  <2>2. \A i \in DOMAIN rows : rows[i].key \in Keys
    BY <2>1 DEF RowType
  <2> QED
    BY <2>2 DEF RowsOK, IntentsKept, CheckoutIInv
<1>6. BookedHasLanded'
  BY DEF BookedHasLanded, CheckoutIInv, ExpireOne
<1>7. SettleSparesRunning'
  <2>1. \A u \in Tasks : tasks'[u] = IF u = t THEN task ELSE tasks[u]
    BY <1>2 DEF Become
  <2>2. booking' = "awaiting_payment" => booking = "awaiting_payment"
    BY DEF ExpireOne
  <2> QED
    BY <2>1, <2>2 DEF SettleSparesRunning, CheckoutIInv
<1> QED
  BY <1>1, <1>3, <1>4, <1>5, <1>6, <1>7 DEF CheckoutIInv

\* One that leaves the intents alone too.
LEMMA TaskAlone ==
  ASSUME CheckoutIInv, NEW t \in Tasks, NEW task \in TaskType, Become(t, task),
         rows' = rows, hold' = hold, booking' \in {booking, ExpireOne(booking)},
         faults' \in 0 .. MaxFaults, intents' = intents,
         Starting(t)' => Starting(t),
         StartOK(t)' /\ ResumeOK(t)' /\ AbandonOK(t)' /\ ReconcileOK(t)' /\ SettleOK(t)',
         hold = "running" /\ booking = "awaiting_payment" => \A x \in task.todo : x[2] = "release"
  PROVE  CheckoutIInv' /\ RowsKept
<1>1. intents' \in IntentsType /\ IntentsKept /\ StartersSeeNothing(t)
  BY DEF CheckoutIInv, TypeOK, IntentsType, IntentsKept, StartersSeeNothing
<1>2. IntentsOK'
  BY DEF CheckoutIInv, IntentsOK
<1> QED
  BY <1>1, <1>2, RowsAlone

\* A handler that ends, or goes on to reconcile, without writing more than the expiry keeps the invariant.
LEMMA TaskDone ==
  ASSUME CheckoutIInv, NEW t \in Tasks, NEW task \in {Idle} \cup {ToReconcile(k) : k \in Keys},
         Become(t, task),
         rows' = rows, hold' = hold, booking' \in {booking, ExpireOne(booking)},
         faults' \in 0 .. MaxFaults, intents' = intents
  PROVE  CheckoutIInv' /\ RowsKept
<1>1. /\ task \in TaskType /\ task.todo = {}
      /\ <<task.op, task.pc>> \in {<<"none", "idle">>, <<"reconcile", "look">>}
  <2>1. CASE task = Idle
    BY <2>1, IdleType DEF Idle
  <2>2. ASSUME NEW k \in Keys, task = ToReconcile(k)
        PROVE  /\ task \in TaskType /\ task.todo = {}
               /\ <<task.op, task.pc>> \in {<<"none", "idle">>, <<"reconcile", "look">>}
    <3>1. task \in TaskType
      BY <2>2, IdleType
    <3>2. task.op = "reconcile" /\ task.pc = "look" /\ task.todo = {}
      BY <2>2 DEF ToReconcile, Idle
    <3> QED
      BY <3>1, <3>2
  <2> QED
    BY <2>1, <2>2
<1>2. tasks'[t] = task
  BY DEF Become, CheckoutIInv, TypeOK
<1>3. StartOK(t)' /\ ResumeOK(t)' /\ AbandonOK(t)' /\ ReconcileOK(t)' /\ SettleOK(t)'
  BY <1>1, <1>2, QuietTaskOK
<1>4. ~ Starting(t)'
  BY <1>1, <1>2 DEF Starting
<1> QED
  BY <1>1, <1>3, <1>4, TaskAlone

-----------------------------------------------------------------------------
(* The steps that move a handler and no row *)

\* The types of rows, handlers and intents, for the provers.
LEMMA RowFacts ==
  ASSUME CheckoutIInv
  PROVE  /\ rows \in Seq(RowType) /\ DOMAIN rows = 1 .. Len(rows) /\ Len(rows) \in Nat
         /\ \A i \in DOMAIN rows : rows[i] \in RowType /\ rows[i].key \in Keys /\ i \in RowIds
         /\ tasks \in [Tasks -> TaskType] /\ intents \in IntentsType
         /\ Len(rows) \in RowIds \cup {0}
<1>1. rows \in Seq(RowType) /\ DOMAIN rows \subseteq RowIds
  BY DEF CheckoutIInv, TypeOK
<1>2. DOMAIN rows = 1 .. Len(rows) /\ Len(rows) \in Nat /\ \A i \in DOMAIN rows : rows[i] \in RowType
  BY <1>1
<1>3. Len(rows) \in RowIds \cup {0}
  BY <1>1, <1>2
<1> QED
  BY <1>1, <1>2, <1>3 DEF CheckoutIInv, TypeOK, RowType, IntentsType

\* There is a live payment unless there is no row at all.
LEMMA LivePaymentFacts ==
  ASSUME CheckoutIInv
  PROVE  /\ LivePayment \in DOMAIN rows \cup {0}
         /\ LivePayment = 0 <=> rows = <<>>
<1> USE RowFacts
<1>1. CASE \E i \in DOMAIN rows : rows[i].status # "canceled"
  BY <1>1 DEF LivePayment
<1>2. CASE ~ \E i \in DOMAIN rows : rows[i].status # "canceled"
  BY <1>2 DEF LivePayment
<1> QED
  BY <1>1, <1>2

\* What a handler becomes.
LEMMA TaskUnchanged ==
  ASSUME CheckoutIInv, NEW t \in Tasks, NEW task, Become(t, task)
  PROVE  tasks'[t] = task /\ tasks[t] \in TaskType
BY DEF Become, CheckoutIInv, TypeOK

\* The count of faults stays within its bound.
LEMMA FaultType ==
  ASSUME CheckoutIInv
  PROVE  faults \in 0 .. MaxFaults /\ (faults < MaxFaults => faults + 1 \in 0 .. MaxFaults)
BY CheckoutAssumption DEF CheckoutIInv, TypeOK

\* GiveBack keeps the invariant.
LEMMA GiveBackOK ==
  ASSUME CheckoutIInv, NEW t \in Tasks, GiveBack(t)
  PROVE  CheckoutIInv' /\ RowsKept
BY TaskDone, FaultType DEF GiveBack

\* Drop keeps the invariant.
LEMMA DropOK ==
  ASSUME CheckoutIInv, NEW t \in Tasks, Drop(t)
  PROVE  CheckoutIInv' /\ RowsKept
BY TaskDone, FaultType DEF Drop

\* What Stripe answers a look: a final answer is one that stays true.
LEMMA LookedOK ==
  ASSUME CheckoutIInv, NEW t \in Tasks, NEW old \in TaskType, Become(t, Looked(old)),
         UNCHANGED <<hold, booking, rows, intents, faults>>,
         old.op \in {"reconcile", "settle"},
         old.op = "settle" => /\ old.todo # {} /\ \A x, y \in old.todo : x = y
                              /\ \A x \in old.todo : x[1] \in DOMAIN rows,
         hold = "running" /\ booking = "awaiting_payment" => \A x \in old.todo : x[2] = "release"
  PROVE  CheckoutIInv' /\ RowsKept
<1> DEFINE task == Looked(old)
<1>1. old.key \in Keys /\ intents[old.key].status \in IntentStatuses
  BY DEF TaskType, CheckoutIInv, TypeOK
<1>2. /\ task \in TaskType /\ task.op = old.op /\ task.pc = "reconcile" /\ task.todo = old.todo
      /\ task.key = old.key /\ task.seen = intents[old.key].status
  BY <1>1 DEF Looked, TaskType, Pcs
<1> HIDE DEF task
<1>3. tasks'[t] = task
  BY TaskUnchanged DEF task
<1>4. StartOK(t)' /\ ResumeOK(t)' /\ AbandonOK(t)' /\ ReconcileOK(t)'
  BY <1>2, <1>3 DEF StartOK, Starting, At, ResumeOK, AbandonOK, ReconcileOK
<1>5. SettleOK(t)'
  BY <1>2, <1>3 DEF SettleOK
<1>6. ~ Starting(t)'
  BY <1>2, <1>3 DEF Starting
<1>7. Become(t, task)
  BY DEF task
<1> QED
  BY <1>2, <1>4, <1>5, <1>6, <1>7, FaultType, TaskAlone

\* BeginReconcile keeps the invariant.
LEMMA BeginReconcileOK ==
  ASSUME CheckoutIInv, NEW t \in Tasks, BeginReconcile(t)
  PROVE  CheckoutIInv' /\ RowsKept
<1>1. PICK i \in DOMAIN rows : Become(t, Looked(ToReconcile(rows[i].key)))
  BY DEF BeginReconcile
<1>2. ToReconcile(rows[i].key) \in TaskType
  BY RowFacts, IdleType
<1>3. ToReconcile(rows[i].key).op = "reconcile" /\ ToReconcile(rows[i].key).todo = {}
  BY DEF ToReconcile, Idle
<1>4. UNCHANGED <<hold, booking, rows, intents, faults>>
  BY DEF BeginReconcile
<1> QED
  BY <1>1, <1>2, <1>3, <1>4, LookedOK

\* Look keeps the invariant.
LEMMA LookOK ==
  ASSUME CheckoutIInv, NEW t \in Tasks, Look(t)
  PROVE  CheckoutIInv' /\ RowsKept
<1>1. tasks[t] \in TaskType /\ tasks[t].op \in {"reconcile", "settle"}
  BY DEF CheckoutIInv, TypeOK, TasksOK, ReconcileOK, Look
<1>2. SettleOK(t) /\ tasks[t].pc = "look"
  BY DEF CheckoutIInv, TasksOK, Look
<1>3. Become(t, Looked(tasks[t])) /\ UNCHANGED <<hold, booking, rows, intents, faults>>
  BY DEF Look
<1>4. hold = "running" /\ booking = "awaiting_payment" => \A x \in tasks[t].todo : x[2] = "release"
  BY DEF CheckoutIInv, SettleSparesRunning
<1>5. tasks[t].op = "settle" => /\ tasks[t].todo # {} /\ \A x, y \in tasks[t].todo : x = y
                                /\ \A x \in tasks[t].todo : x[1] \in DOMAIN rows
  BY <1>2 DEF SettleOK
<1> QED
  BY <1>1, <1>3, <1>4, <1>5, LookedOK

\* A step of a resume, of an abandon or of a settle that goes on as one.
LEMMA GoesOn ==
  ASSUME CheckoutIInv, NEW t \in Tasks, NEW task \in TaskType, Become(t, task),
         task.op \in {"resume", "abandon", "settle"}, task.pc \notin {"look", "reconcile"},
         task.op = "resume" => ResumeOK(t)', task.op = "abandon" => AbandonOK(t)',
         task.op = "settle" => SettleOK(t)'
  PROVE  /\ StartOK(t)' /\ ResumeOK(t)' /\ AbandonOK(t)' /\ ReconcileOK(t)' /\ SettleOK(t)'
         /\ ~ Starting(t)'
<1>1. tasks'[t] = task
  BY TaskUnchanged
<1> QED
  BY <1>1 DEF StartOK, Starting, At, ResumeOK, AbandonOK, ReconcileOK, SettleOK

\* BeginResume keeps the invariant.
LEMMA BeginResumeOK ==
  ASSUME CheckoutIInv, NEW t \in Tasks, NEW kind \in Kinds, BeginResume(t, kind)
  PROVE  CheckoutIInv' /\ RowsKept
<1> DEFINE live == rows[LivePayment]
           pc == IF live.status = "open" THEN "retrieve" ELSE "create"
           task == [Idle EXCEPT !.op = "resume", !.kind = kind, !.row = LivePayment, !.n = Len(rows),
                                !.key = live.key, !.pc = pc]
<1>1. /\ LivePayment \in DOMAIN rows /\ LivePayment \in RowIds /\ rows # <<>> /\ live.key \in Keys
      /\ Len(rows) \in RowIds \cup {0}
  BY LivePaymentFacts, RowFacts DEF BeginResume
<1>2. Len(rows) < MaxIntents /\ live.status \in {"open", "canceled"} /\ Become(t, task)
  BY DEF BeginResume
<1>3. task \in TaskType
  <2>1. pc \in Pcs /\ "resume" \in Ops
    BY DEF Pcs, Ops
  <2> QED
    BY <1>1, <2>1, IdleType DEF TaskType
<1>4. /\ task.op = "resume" /\ task.row = LivePayment /\ task.n = Len(rows) /\ task.key = live.key
      /\ task.pc = pc /\ task.todo = {}
  BY DEF Idle
<1> HIDE DEF task
<1>5. tasks'[t] = task /\ UNCHANGED <<hold, booking, rows, intents, faults>>
  BY <1>2, TaskUnchanged DEF BeginResume
<1>6. pc = "create" => Ended(LivePayment)
  BY <1>1, <1>2 DEF CheckoutIInv, RowsOK, Ended
<1>7. ResumeOK(t)'
  BY <1>1, <1>2, <1>4, <1>5, <1>6 DEF ResumeOK, Ended
<1> QED
  BY <1>2, <1>3, <1>4, <1>5, <1>7, GoesOn, TaskAlone, FaultType

\* What a resume in flight may rely on.
LEMMA ResumeFacts ==
  ASSUME CheckoutIInv, NEW t \in Tasks, tasks[t].op = "resume"
  PROVE  /\ tasks[t] \in TaskType /\ tasks[t].key \in Keys /\ rows # <<>>
         /\ tasks[t].pc \in {"retrieve", "cancel", "create"} => tasks[t].n < MaxIntents
         /\ tasks[t].pc \in {"retrieve", "cancel"} =>
              tasks[t].row \in DOMAIN rows /\ tasks[t].key = rows[tasks[t].row].key
         /\ tasks[t].pc \in {"create", "insert"} => tasks[t].row \in DOMAIN rows /\ Ended(tasks[t].row)
BY DEF CheckoutIInv, TasksOK, ResumeOK, TypeOK, TaskType

\* ResumeRetrieve keeps the invariant.
LEMMA ResumeRetrieveOK ==
  ASSUME CheckoutIInv, NEW t \in Tasks, ResumeRetrieve(t)
  PROVE  CheckoutIInv' /\ RowsKept
<1> DEFINE k == tasks[t].key
           status == intents[k].status
<1>1. tasks[t].op = "resume" /\ tasks[t].pc = "retrieve"
  BY DEF ResumeRetrieve, At
<1>2. UNCHANGED <<hold, booking, rows, intents, faults>> /\ faults \in 0 .. MaxFaults
  BY FaultType DEF ResumeRetrieve
<1>3. CASE Landed(k, status) \/ (status # "canceled" /\ Kind(k) = tasks[t].kind)
  <2>1. Landed(k, status) => status # "canceled"
    BY DEF Landed
  <2>2. Become(t, ToReconcile(k)) \/ Become(t, Idle)
    BY <1>3, <2>1 DEF ResumeRetrieve
  <2> QED
    BY <1>1, <1>2, <2>2, ResumeFacts, TaskDone
<1>4. CASE ~ Landed(k, status) /\ (status = "canceled" \/ Kind(k) # tasks[t].kind)
  <2> DEFINE pc == IF status = "canceled" THEN "create" ELSE "cancel"
             task == [tasks[t] EXCEPT !.pc = pc]
  <2>1. Become(t, task)
    BY <1>4 DEF ResumeRetrieve
  <2>2. /\ task \in TaskType /\ task.op = "resume" /\ task.pc = pc /\ task.row = tasks[t].row
        /\ task.key = k /\ task.n = tasks[t].n /\ task.todo = tasks[t].todo
    BY <1>1, ResumeFacts DEF TaskType, Pcs
  <2> HIDE DEF task
  <2>3. tasks'[t] = task
    BY <2>1, TaskUnchanged
  <2>4. ResumeOK(t)'
    BY <1>1, <1>2, <2>2, <2>3, ResumeFacts DEF ResumeOK, Ended
  <2>5. hold = "running" /\ booking = "awaiting_payment" => \A x \in task.todo : x[2] = "release"
    BY <2>2 DEF CheckoutIInv, SettleSparesRunning
  <2> QED
    BY <1>2, <2>1, <2>2, <2>4, <2>5, GoesOn, TaskAlone
<1> QED
  BY <1>3, <1>4

\* ResumeConflict keeps the invariant.
LEMMA ResumeConflictOK ==
  ASSUME CheckoutIInv, NEW t \in Tasks, ResumeConflict(t)
  PROVE  CheckoutIInv' /\ RowsKept
<1> DEFINE live == rows[LivePayment]
<1>1. tasks[t].op = "resume" /\ tasks[t].pc = "conflict"
  BY DEF ResumeConflict, At
<1>2. UNCHANGED <<hold, booking, rows, intents, faults>> /\ faults \in 0 .. MaxFaults
  BY FaultType DEF ResumeConflict
<1>3. live.key \in Keys
  BY <1>1, ResumeFacts, RowFacts, LivePaymentFacts
<1>4. CASE live.key = tasks[t].key /\ live.status # "open"
  <2>1. Become(t, ToReconcile(live.key))
    BY <1>4 DEF ResumeConflict
  <2> QED
    BY <1>2, <1>3, <2>1, TaskDone
<1>5. CASE ~ (live.key = tasks[t].key /\ live.status # "open")
  <2> DEFINE pc == IF live.key = tasks[t].key THEN "again" ELSE "orphan"
             task == [tasks[t] EXCEPT !.pc = pc]
  <2>1. Become(t, task)
    BY <1>5 DEF ResumeConflict
  <2>2. /\ task \in TaskType /\ task.op = "resume" /\ task.pc = pc /\ task.todo = tasks[t].todo
    BY <1>1, ResumeFacts DEF TaskType, Pcs
  <2> HIDE DEF task
  <2>3. tasks'[t] = task
    BY <2>1, TaskUnchanged
  <2>4. ResumeOK(t)'
    BY <1>1, <1>2, <2>2, <2>3, ResumeFacts DEF ResumeOK
  <2>5. hold = "running" /\ booking = "awaiting_payment" => \A x \in task.todo : x[2] = "release"
    BY <2>2 DEF CheckoutIInv, SettleSparesRunning
  <2> QED
    BY <1>2, <2>1, <2>2, <2>4, <2>5, GoesOn, TaskAlone
<1> QED
  BY <1>4, <1>5

\* ResumeAgain keeps the invariant.
LEMMA ResumeAgainOK ==
  ASSUME CheckoutIInv, NEW t \in Tasks, ResumeAgain(t)
  PROVE  CheckoutIInv' /\ RowsKept
<1>1. tasks[t].op = "resume"
  BY DEF ResumeAgain, At
<1>2. UNCHANGED <<hold, booking, rows, intents, faults>> /\ faults \in 0 .. MaxFaults
  BY FaultType DEF ResumeAgain
<1>3. Become(t, ToReconcile(tasks[t].key)) \/ Become(t, Idle)
  BY DEF ResumeAgain
<1> QED
  BY <1>1, <1>2, <1>3, ResumeFacts, TaskDone

\* BeginAbandon keeps the invariant.
LEMMA BeginAbandonOK ==
  ASSUME CheckoutIInv, NEW t \in Tasks, BeginAbandon(t)
  PROVE  CheckoutIInv' /\ RowsKept
<1> DEFINE open == LivePayment # 0 /\ rows[LivePayment].status = "open"
           key == IF open THEN rows[LivePayment].key ELSE Idle.key
           pc == IF open THEN "cancel" ELSE "write"
           task == [Idle EXCEPT !.op = "abandon", !.row = LivePayment, !.key = key, !.pc = pc]
<1>1. /\ LivePayment \in DOMAIN rows \cup {0} /\ LivePayment \in RowIds \cup {0}
      /\ open => LivePayment \in DOMAIN rows /\ rows[LivePayment].key \in Keys
  BY LivePaymentFacts, RowFacts
<1>2. Become(t, task) /\ UNCHANGED <<hold, booking, rows, intents, faults>>
  BY DEF BeginAbandon
<1>3. task \in TaskType
  <2>1. pc \in Pcs /\ "abandon" \in Ops /\ key \in Keys
    BY <1>1, IdleType DEF Pcs, Ops, TaskType
  <2> QED
    BY <1>1, <2>1, IdleType DEF TaskType
<1>4. task.op = "abandon" /\ task.row = LivePayment /\ task.key = key /\ task.pc = pc /\ task.todo = {}
  BY DEF Idle
<1> HIDE DEF task
<1>5. tasks'[t] = task
  BY <1>2, TaskUnchanged
<1>6. AbandonOK(t)'
  BY <1>1, <1>2, <1>4, <1>5 DEF AbandonOK, Ended
<1> QED
  BY <1>2, <1>3, <1>4, <1>6, GoesOn, TaskAlone, FaultType

\* A pass of settle has one row at most: all others are canceled.
LEMMA SettleRowsFacts ==
  ASSUME CheckoutIInv, NEW runs \in HoldRuns
  PROVE  /\ SettleRows(runs) \in SUBSET (RowIds \X {"cancel", "release"})
         /\ \A x, y \in SettleRows(runs) : x = y
         /\ \A x \in SettleRows(runs) : x[1] \in DOMAIN rows
         /\ hold = "running" /\ booking = "awaiting_payment" =>
              \A x \in SettleRows(runs) : x[2] = "release"
<1> USE RowFacts
<1> DEFINE live == booking = "awaiting_payment" /\ runs
           due == {i \in DOMAIN rows :
                     ~ rows[i].settled /\ (rows[i].status = "checked" \/ (rows[i].status = "open" /\ ~ live))}
           of(i) == <<i, IF rows[i].status = "open" THEN "cancel" ELSE "release">>
<1>1. SettleRows(runs) = {of(i) : i \in due}
  BY DEF SettleRows
<1>2. \A i, j \in due : i = j
  BY DEF CheckoutIInv, RowsOK
<1>3. \A i \in due : of(i) \in RowIds \X {"cancel", "release"} /\ of(i)[1] = i
  OBVIOUS
<1>4. hold = "running" => runs = TRUE
  BY DEF HoldRuns
<1>5. hold = "running" /\ booking = "awaiting_payment" => \A i \in due : of(i)[2] = "release"
  BY <1>4
<1> HIDE DEF due, of
<1>6. \A i \in due : i \in DOMAIN rows
  BY DEF due
<1> QED
  BY <1>1, <1>2, <1>3, <1>5, <1>6

\* A pass of settle that has a row to do goes on to its intent.
LEMMA SettlesOn ==
  ASSUME CheckoutIInv, NEW t \in Tasks, NEW old \in TaskType, NEW runs \in HoldRuns,
         SettleRows(runs) # {}, old.op = "settle",
         Become(t, [old EXCEPT !.pc = "cancel", !.todo = SettleRows(runs)]),
         UNCHANGED <<hold, booking, rows, intents, faults>>
  PROVE  CheckoutIInv' /\ RowsKept
<1> DEFINE task == [old EXCEPT !.pc = "cancel", !.todo = SettleRows(runs)]
<1>1. task \in TaskType /\ task.op = "settle" /\ task.pc = "cancel" /\ task.todo = SettleRows(runs)
  BY SettleRowsFacts DEF TaskType, Pcs
<1> HIDE DEF task
<1>2. Become(t, task) /\ tasks'[t] = task
  BY TaskUnchanged DEF task
<1>3. SettleOK(t)'
  BY <1>1, <1>2, SettleRowsFacts DEF SettleOK
<1>4. hold = "running" /\ booking = "awaiting_payment" => \A x \in task.todo : x[2] = "release"
  BY <1>1, SettleRowsFacts
<1> QED
  BY <1>1, <1>2, <1>3, <1>4, GoesOn, TaskAlone, FaultType

\* BeginSettle keeps the invariant.
LEMMA BeginSettleOK ==
  ASSUME CheckoutIInv, NEW t \in Tasks, BeginSettle(t)
  PROVE  CheckoutIInv' /\ RowsKept
<1> DEFINE old == [Idle EXCEPT !.op = "settle"]
<1>1. PICK runs \in HoldRuns :
        /\ SettleRows(runs) # {}
        /\ Become(t, [Idle EXCEPT !.op = "settle", !.pc = "cancel", !.todo = SettleRows(runs)])
  BY DEF BeginSettle
<1>2. old \in TaskType /\ old.op = "settle"
  BY IdleType DEF TaskType, Ops
<1>3. [Idle EXCEPT !.op = "settle", !.pc = "cancel", !.todo = SettleRows(runs)]
        = [old EXCEPT !.pc = "cancel", !.todo = SettleRows(runs)]
  BY DEF Idle
<1>4. UNCHANGED <<hold, booking, rows, intents, faults>>
  BY DEF BeginSettle
<1> HIDE DEF old
<1> QED
  BY <1>1, <1>2, <1>3, <1>4, SettlesOn

\* SettlePass keeps the invariant.
LEMMA SettlePassOK ==
  ASSUME CheckoutIInv, NEW t \in Tasks, SettlePass(t)
  PROVE  CheckoutIInv' /\ RowsKept
<1>1. PICK runs \in HoldRuns :
        Become(t, IF SettleRows(runs) = {} THEN Idle
                  ELSE [tasks[t] EXCEPT !.pc = "cancel", !.todo = SettleRows(runs)])
  BY DEF SettlePass
<1>2. tasks[t] \in TaskType /\ tasks[t].op = "settle"
  BY RowFacts DEF SettlePass, At
<1>3. UNCHANGED <<hold, booking, rows, intents, faults>>
  BY DEF SettlePass
<1>4. CASE SettleRows(runs) = {}
  BY <1>1, <1>3, <1>4, TaskDone, FaultType
<1>5. CASE SettleRows(runs) # {}
  BY <1>1, <1>2, <1>3, <1>5, SettlesOn
<1> QED
  BY <1>4, <1>5

-----------------------------------------------------------------------------
(* The steps that call Stripe *)

\* Once there is a row no start is under way.
LEMMA NoStarters ==
  ASSUME CheckoutIInv, rows # <<>>
  PROVE  \A u \in Tasks : ~ Starting(u) /\ StartersSeeNothing(u)
<1>1. \A u \in Tasks : ~ Starting(u)
  BY DEF CheckoutIInv, TasksOK, StartOK
<1> QED
  BY <1>1 DEF StartersSeeNothing

\* A cancel ends an intent that can still be confirmed or captured, and changes no other.
LEMMA CancelFacts ==
  ASSUME CheckoutIInv, NEW k \in Keys, CancelIntent(k), rows' = rows
  PROVE  /\ intents' \in IntentsType /\ IntentsKept /\ IntentsOK'
         /\ intents'[k].status = AfterCancel(k)
<1>1. intents \in IntentsType /\ AfterCancel(k) \in IntentStatuses
  BY RowFacts DEF AfterCancel, IntentsType, IntentStatuses
<1>2. /\ intents' \in IntentsType /\ intents'[k].status = AfterCancel(k)
      /\ \A j \in Keys : j # k => intents'[j] = intents[j]
      /\ intents'[k].shown = intents[k].shown
  BY <1>1 DEF CancelIntent, IntentsType
<1>3. IntentsKept
  BY <1>2 DEF IntentsKept, AfterCancel
<1>4. IntentsOK'
  BY <1>2 DEF IntentsOK, CheckoutIInv, AfterCancel
<1> QED
  BY <1>2, <1>3, <1>4

\* A cancel, after which the handler is done with the intent or reconciles it.
LEMMA CanceledDone ==
  ASSUME CheckoutIInv, NEW t \in Tasks, NEW k \in Keys, CancelIntent(k), rows # <<>>,
         NEW task \in {Idle, ToReconcile(k)}, Become(t, task), UNCHANGED <<hold, booking, rows, faults>>
  PROVE  CheckoutIInv' /\ RowsKept
<1>1. /\ task \in TaskType /\ task.todo = {}
      /\ <<task.op, task.pc>> \in {<<"none", "idle">>, <<"reconcile", "look">>}
  <2>1. CASE task = Idle
    BY <2>1, IdleType DEF Idle
  <2>2. CASE task = ToReconcile(k)
    <3>1. task \in TaskType
      BY <2>2, IdleType
    <3>2. task.op = "reconcile" /\ task.pc = "look" /\ task.todo = {}
      BY <2>2 DEF ToReconcile, Idle
    <3> QED
      BY <3>1, <3>2
  <2> QED
    BY <2>1, <2>2
<1>2. tasks'[t] = task
  BY TaskUnchanged
<1>3. StartOK(t)' /\ ResumeOK(t)' /\ AbandonOK(t)' /\ ReconcileOK(t)' /\ SettleOK(t)'
  BY <1>1, <1>2, QuietTaskOK
<1>4. ~ Starting(t)'
  BY <1>1, <1>2 DEF Starting
<1> QED
  BY <1>1, <1>3, <1>4, CancelFacts, NoStarters, RowsAlone, FaultType

\* Orphan keeps the invariant.
LEMMA OrphanOK ==
  ASSUME CheckoutIInv, NEW t \in Tasks, Orphan(t)
  PROVE  CheckoutIInv' /\ RowsKept
<1>1. tasks[t].op = "resume"
  BY DEF Orphan, At
<1>2. CancelIntent(tasks[t].key) /\ Become(t, Idle) /\ UNCHANGED <<hold, booking, rows, faults>>
  BY DEF Orphan
<1> QED
  BY <1>1, <1>2, ResumeFacts, CanceledDone

\* ResumeCancel keeps the invariant.
LEMMA ResumeCancelOK ==
  ASSUME CheckoutIInv, NEW t \in Tasks, ResumeCancel(t)
  PROVE  CheckoutIInv' /\ RowsKept
<1> DEFINE k == tasks[t].key
<1>1. tasks[t].op = "resume" /\ tasks[t].pc = "cancel"
  BY DEF ResumeCancel, At
<1>2. CancelIntent(k) /\ UNCHANGED <<hold, booking, rows, faults>>
  BY DEF ResumeCancel
<1>3. k \in Keys /\ rows # <<>>
  BY <1>1, ResumeFacts
<1>4. CASE AfterCancel(k) # "canceled"
  <2>1. Become(t, ToReconcile(k))
    BY <1>4 DEF ResumeCancel
  <2> QED
    BY <1>2, <1>3, <2>1, CanceledDone
<1>5. CASE AfterCancel(k) = "canceled"
  <2> DEFINE task == [tasks[t] EXCEPT !.pc = "create"]
  <2>1. Become(t, task)
    BY <1>5 DEF ResumeCancel
  <2>2. /\ task \in TaskType /\ task.op = "resume" /\ task.pc = "create" /\ task.row = tasks[t].row
        /\ task.n = tasks[t].n /\ task.todo = tasks[t].todo
    BY <1>1, ResumeFacts DEF TaskType, Pcs
  <2> HIDE DEF task
  <2>3. tasks'[t] = task
    BY <2>1, TaskUnchanged
  <2>4. intents'[rows[tasks[t].row].key].status = "canceled"
    BY <1>1, <1>2, <1>3, <1>5, CancelFacts, ResumeFacts DEF Ended
  <2>5. ResumeOK(t)'
    BY <1>1, <1>2, <2>2, <2>3, <2>4, ResumeFacts DEF ResumeOK, Ended
  <2>6. hold = "running" /\ booking = "awaiting_payment" => \A x \in task.todo : x[2] = "release"
    BY <2>2 DEF CheckoutIInv, SettleSparesRunning
  <2> QED
    BY <1>2, <1>3, <2>1, <2>2, <2>5, <2>6, GoesOn, CancelFacts, NoStarters, RowsAlone, FaultType
<1> QED
  BY <1>4, <1>5

\* A new intent, or by its idempotency key the same one again.
LEMMA ResumeCreateOK ==
  ASSUME CheckoutIInv, NEW t \in Tasks, ResumeCreate(t)
  PROVE  CheckoutIInv' /\ RowsKept
<1> DEFINE k == <<tasks[t].n + 1, tasks[t].kind>>
           status == IF intents[k].status = "absent" THEN "open" ELSE intents[k].status
           task == [Idle EXCEPT !.op = "resume", !.pc = "insert", !.row = tasks[t].row, !.key = k]
<1>1. tasks[t].op = "resume" /\ tasks[t].pc = "create"
  BY DEF ResumeCreate, At
<1>2. /\ Become(t, task) /\ UNCHANGED <<hold, booking, rows, faults>>
      /\ intents' = [intents EXCEPT ![k].status = status]
  BY DEF ResumeCreate
<1>3. k \in Keys
  BY <1>1, ResumeFacts, CheckoutAssumption DEF TaskType, Keys, RowIds
<1>4. intents \in IntentsType /\ status \in IntentStatuses
  BY <1>3, RowFacts DEF IntentsType, IntentStatuses
<1> HIDE DEF k
<1>5. /\ intents' \in IntentsType /\ intents'[k].status = status /\ intents'[k].shown = intents[k].shown
      /\ \A j \in Keys : j # k => intents'[j] = intents[j]
  BY <1>2, <1>3, <1>4 DEF IntentsType
<1>6. IntentsKept
  BY <1>5 DEF IntentsKept
<1>7. IntentsOK'
  BY <1>2, <1>5 DEF IntentsOK, CheckoutIInv
<1>8. /\ task \in TaskType /\ task.op = "resume" /\ task.pc = "insert" /\ task.row = tasks[t].row
      /\ task.todo = {}
  <2>1. tasks[t].row \in RowIds \cup {0} /\ "insert" \in Pcs /\ "resume" \in Ops
    BY <1>1, ResumeFacts DEF TaskType, Pcs, Ops
  <2> QED
    BY <1>3, <2>1, IdleType DEF TaskType, Idle
<1> HIDE DEF task
<1>9. tasks'[t] = task
  BY <1>2, TaskUnchanged
<1>10. intents'[rows[tasks[t].row].key].status = "canceled"
  BY <1>1, <1>2, <1>6, ResumeFacts, RowFacts DEF Ended, IntentsKept
<1>11. ResumeOK(t)'
  BY <1>1, <1>2, <1>8, <1>9, <1>10, ResumeFacts DEF ResumeOK, Ended
<1>12. rows # <<>>
  BY <1>1, ResumeFacts
<1> QED
  BY <1>2, <1>5, <1>6, <1>7, <1>8, <1>11, <1>12, GoesOn, NoStarters, RowsAlone, FaultType

\* StartCreate keeps the invariant.
LEMMA StartCreateOK ==
  ASSUME CheckoutIInv, NEW t \in Tasks, StartCreate(t)
  PROVE  CheckoutIInv' /\ RowsKept
<1> DEFINE k == <<1, tasks[t].kind>>
           task == [tasks[t] EXCEPT !.pc = "insert", !.key = k]
<1>1. tasks[t].op = "start" /\ tasks[t].pc = "create" /\ tasks[t] \in TaskType
  BY RowFacts DEF StartCreate, At
<1>2. /\ Become(t, task) /\ UNCHANGED <<hold, booking, rows, faults>>
      /\ intents' = [intents EXCEPT ![k].status = "open"]
  BY DEF StartCreate
<1>3. k \in Keys
  BY <1>1, CheckoutAssumption DEF TaskType, Keys
<1>4. rows = <<>> /\ (\A j \in Keys : intents[j].status = "absent") /\ \A u \in Tasks : Starting(u) => u = t
  BY <1>1 DEF CheckoutIInv, TasksOK, StartOK, Starting, At
<1>5. /\ task \in TaskType /\ task.op = "start" /\ task.pc = "insert" /\ task.todo = tasks[t].todo
  BY <1>1, <1>3 DEF TaskType, Pcs
<1> HIDE DEF k, task
<1>6. intents \in IntentsType
  BY RowFacts
<1>7. /\ intents' \in IntentsType /\ intents'[k].status = "open" /\ intents'[k].shown = intents[k].shown
      /\ \A j \in Keys : j # k => intents'[j] = intents[j]
  BY <1>2, <1>3, <1>6 DEF IntentsType, IntentStatuses
<1>8. IntentsKept /\ StartersSeeNothing(t)
  BY <1>4 DEF IntentsKept, StartersSeeNothing
<1>9. IntentsOK'
  BY <1>2, <1>7 DEF IntentsOK, CheckoutIInv
<1>10. tasks'[t] = task /\ \A u \in Tasks : u # t => tasks'[u] = tasks[u]
  BY <1>2, RowFacts DEF Become
<1>11. StartOK(t)'
  BY <1>2, <1>4, <1>5, <1>10 DEF StartOK, Starting, At
<1>12. ResumeOK(t)' /\ AbandonOK(t)' /\ ReconcileOK(t)' /\ SettleOK(t)'
  BY <1>5, <1>10 DEF ResumeOK, AbandonOK, ReconcileOK, SettleOK
<1>13. Starting(t)
  BY <1>1 DEF Starting
<1>14. hold = "running" /\ booking = "awaiting_payment" => \A x \in task.todo : x[2] = "release"
  BY <1>5 DEF CheckoutIInv, SettleSparesRunning
<1> QED
  BY <1>2, <1>5, <1>7, <1>8, <1>9, <1>11, <1>12, <1>13, <1>14, RowsAlone, FaultType

\* AbandonCancel keeps the invariant.
LEMMA AbandonCancelOK ==
  ASSUME CheckoutIInv, NEW t \in Tasks, AbandonCancel(t)
  PROVE  CheckoutIInv' /\ RowsKept
<1> DEFINE k == tasks[t].key
<1>1. tasks[t].op = "abandon" /\ tasks[t].pc = "cancel" /\ tasks[t] \in TaskType
  BY RowFacts DEF AbandonCancel, At
<1>2. CancelIntent(k) /\ UNCHANGED <<hold, booking, rows, faults>>
  BY DEF AbandonCancel
<1>3. tasks[t].row \in DOMAIN rows /\ k = rows[tasks[t].row].key
  BY <1>1 DEF CheckoutIInv, TasksOK, AbandonOK
<1>4. k \in Keys /\ rows # <<>> /\ tasks[t].row \in RowIds
  BY <1>3, RowFacts
<1>5. CASE AfterCancel(k) # "canceled"
  <2>1. Become(t, ToReconcile(k))
    BY <1>5 DEF AbandonCancel
  <2> QED
    BY <1>2, <1>4, <2>1, CanceledDone
<1>6. CASE AfterCancel(k) = "canceled"
  <2> DEFINE task == [Idle EXCEPT !.op = "abandon", !.pc = "write", !.row = tasks[t].row]
  <2>1. Become(t, task)
    BY <1>6 DEF AbandonCancel
  <2>2. /\ task \in TaskType /\ task.op = "abandon" /\ task.pc = "write" /\ task.row = tasks[t].row
        /\ task.todo = {}
    BY <1>4, IdleType DEF TaskType, Idle, Pcs, Ops
  <2> HIDE DEF task
  <2>3. tasks'[t] = task
    BY <2>1, TaskUnchanged
  <2>4. intents'[rows[tasks[t].row].key].status = "canceled"
    BY <1>2, <1>3, <1>4, <1>6, CancelFacts
  <2>5. AbandonOK(t)'
    BY <1>2, <1>3, <2>2, <2>3, <2>4 DEF AbandonOK, Ended
  <2> QED
    BY <1>2, <1>4, <2>1, <2>2, <2>5, GoesOn, CancelFacts, NoStarters, RowsAlone, FaultType
<1> QED
  BY <1>5, <1>6

\* What a pass of settle past its look may rely on: one row, whose intent has ended once it marks it.
LEMMA SettleFacts ==
  ASSUME CheckoutIInv, NEW t \in Tasks, tasks[t].op = "settle", tasks[t].pc # "pass"
  PROVE  /\ tasks[t] \in TaskType
         /\ tasks[t].todo = {First(tasks[t].todo)}
         /\ First(tasks[t].todo)[1] \in DOMAIN rows
         /\ rows[First(tasks[t].todo)[1]].key \in Keys
         /\ tasks[t].pc = "mark" => Ended(First(tasks[t].todo)[1])
<1> DEFINE todo == tasks[t].todo
<1>1. /\ todo # {} /\ \A x, y \in todo : x = y
      /\ \A x \in todo : x[1] \in DOMAIN rows /\ (tasks[t].pc = "mark" => Ended(x[1]))
  BY DEF CheckoutIInv, TasksOK, SettleOK
<1>2. PICK x : todo = {x}
  BY <1>1
<1>3. x[1] <= x[1]
  BY <1>1, <1>2, RowFacts
<1>4. First(todo) = x
  BY <1>2, <1>3 DEF First
<1> QED
  BY <1>1, <1>2, <1>4, RowFacts

\* SettleCancel keeps the invariant.
LEMMA SettleCancelOK ==
  ASSUME CheckoutIInv, NEW t \in Tasks, SettleCancel(t)
  PROVE  CheckoutIInv' /\ RowsKept
<1> DEFINE x == First(tasks[t].todo)
           k == rows[x[1]].key
<1>1. tasks[t].op = "settle" /\ tasks[t].pc = "cancel"
  BY DEF SettleCancel, At
<1>2. CancelIntent(k) /\ UNCHANGED <<hold, booking, rows, faults>>
  BY DEF SettleCancel
<1>3. /\ k \in Keys /\ rows # <<>> /\ x[1] \in DOMAIN rows /\ tasks[t].todo = {x}
      /\ tasks[t] \in TaskType
  BY <1>1, SettleFacts, RowFacts
<1>4. hold = "running" /\ booking = "awaiting_payment" => \A y \in tasks[t].todo : y[2] = "release"
  BY DEF CheckoutIInv, SettleSparesRunning
<1>5. CASE AfterCancel(k) = "canceled"
  <2> DEFINE task == [tasks[t] EXCEPT !.pc = "mark"]
  <2>1. Become(t, task)
    BY <1>5 DEF SettleCancel
  <2>2. task \in TaskType /\ task.op = "settle" /\ task.pc = "mark" /\ task.todo = tasks[t].todo
    BY <1>1, <1>3 DEF TaskType, Pcs
  <2> HIDE DEF task
  <2>3. tasks'[t] = task
    BY <2>1, TaskUnchanged
  <2>4. intents'[rows[x[1]].key].status = "canceled"
    BY <1>2, <1>3, <1>5, CancelFacts
  <2>5. SettleOK(t)'
    <3> HIDE DEF x
    <3>1. \A y \in task.todo : y[1] \in DOMAIN rows /\ intents'[rows[y[1]].key].status = "canceled"
      BY <1>3, <2>2, <2>4
    <3>2. task.todo # {} /\ \A y, z \in task.todo : y = z
      BY <1>3, <2>2
    <3> QED
      BY <1>2, <2>2, <2>3, <3>1, <3>2 DEF SettleOK, Ended
  <2> QED
    BY <1>2, <1>3, <1>4, <2>1, <2>2, <2>5, GoesOn, CancelFacts, NoStarters, RowsAlone, FaultType
<1>6. CASE AfterCancel(k) # "canceled" /\ x[2] = "cancel" /\ ~ tasks[t].final
  <2> DEFINE task == [tasks[t] EXCEPT !.pc = "look", !.key = k, !.moved = TRUE]
  <2>1. Become(t, task)
    BY <1>6 DEF SettleCancel
  <2>2. task \in TaskType /\ task.op = "settle" /\ task.pc = "look" /\ task.todo = tasks[t].todo
    BY <1>1, <1>3 DEF TaskType, Pcs
  <2> HIDE DEF task
  <2>3. tasks'[t] = task
    BY <2>1, TaskUnchanged
  <2>4. SettleOK(t)' /\ StartOK(t)' /\ ResumeOK(t)' /\ AbandonOK(t)' /\ ReconcileOK(t)' /\ ~ Starting(t)'
    BY <1>2, <1>3, <2>2, <2>3 DEF SettleOK, StartOK, Starting, At, ResumeOK, AbandonOK, ReconcileOK
  <2> QED
    BY <1>2, <1>3, <1>4, <2>1, <2>2, <2>4, CancelFacts, NoStarters, RowsAlone, FaultType
<1>7. CASE AfterCancel(k) # "canceled" /\ ~ (x[2] = "cancel" /\ ~ tasks[t].final)
  <2>1. Become(t, Idle)
    BY <1>7 DEF SettleCancel
  <2> QED
    BY <1>2, <1>3, <2>1, CanceledDone
<1> QED
  BY <1>5, <1>6, <1>7

-----------------------------------------------------------------------------
(* The steps that write payment rows *)

\* MARK_CANCELED closes one open row and leaves the rest.
LEMMA MarkCanceledFacts ==
  ASSUME NEW rs \in Seq(RowType), NEW i
  PROVE  /\ MarkCanceled(rs, i) \in Seq(RowType)
         /\ DOMAIN MarkCanceled(rs, i) = DOMAIN rs
         /\ \A j \in DOMAIN rs :
              /\ MarkCanceled(rs, i)[j].key = rs[j].key
              /\ rs[j].settled => MarkCanceled(rs, i)[j].settled
              /\ MarkCanceled(rs, i)[j].status =
                   IF j = i /\ rs[j].status = "open" THEN "canceled" ELSE rs[j].status
<1> DEFINE m == MarkCanceled(rs, i)
<1>1. \A j \in DOMAIN rs : rs[j] \in RowType
  OBVIOUS
<1>2. \A j \in DOMAIN rs : m[j] = IF j = i /\ rs[j].status = "open"
                                  THEN [rs[j] EXCEPT !.status = "canceled", !.settled = TRUE] ELSE rs[j]
  BY DEF MarkCanceled
<1>3. DOMAIN m = 1 .. Len(rs) /\ Len(rs) \in Nat /\ DOMAIN rs = 1 .. Len(rs) /\ m = [j \in 1 .. Len(rs) |-> m[j]]
  BY DEF MarkCanceled
<1>4. \A j \in DOMAIN rs : /\ m[j] \in RowType /\ m[j].key = rs[j].key
                           /\ rs[j].settled => m[j].settled
                           /\ m[j].status = IF j = i /\ rs[j].status = "open" THEN "canceled" ELSE rs[j].status
  BY <1>1, <1>2 DEF RowType
<1> HIDE DEF m
<1>5. m \in Seq(RowType)
  BY <1>3, <1>4
<1> QED
  BY <1>3, <1>4, <1>5 DEF m

\* A step that writes the rows and leaves the intents alone; where the task ends it relies on nothing.
LEMMA RowsWritten ==
  ASSUME CheckoutIInv, NEW t \in Tasks, NEW task \in TaskType, Become(t, task), task.op # "start",
         ResumeOK(t)' /\ AbandonOK(t)' /\ ReconcileOK(t)' /\ SettleOK(t)',
         intents' = intents, hold' = hold, faults' \in 0 .. MaxFaults, rows # <<>>,
         rows' \in Seq(RowType), DOMAIN rows' = DOMAIN rows, RowsKept,
         booking' \in {"awaiting_payment", "booked", "expired"},
         booking' = "awaiting_payment" => booking = "awaiting_payment",
         booking' = "booked" => \/ booking = "booked"
                                \/ \E i \in DOMAIN rows' : rows'[i].status \in {"checked", "paid"},
         \A i \in DOMAIN rows :
           /\ rows'[i].status = "canceled" => intents[rows[i].key].status = "canceled"
           /\ rows'[i].status = "paid" => intents[rows[i].key].status = "succeeded"
           /\ rows'[i].status = "checked" => Kind(rows[i].key) = "check"
           /\ rows'[i].status # "canceled" => rows[i].status # "canceled",
         hold = "running" /\ booking = "awaiting_payment" => \A x \in task.todo : x[2] = "release"
  PROVE  CheckoutIInv'
<1>1. rows \in Seq(RowType) /\ tasks \in [Tasks -> TaskType] /\ DOMAIN rows \subseteq RowIds
  BY DEF CheckoutIInv, TypeOK
<1>2. IntentsKept /\ \A u \in Tasks : ~ Starting(u) /\ StartersSeeNothing(u)
  BY NoStarters DEF IntentsKept
<1>3. tasks'[t] = task /\ \A u \in Tasks : u # t => tasks'[u] = tasks[u]
  BY <1>1 DEF Become
<1>4. StartOK(t)' /\ ~ Starting(t)'
  BY <1>3 DEF StartOK, Starting, At
<1>5. TasksOK'
  BY <1>2, <1>4, OthersKept DEF TasksOK
<1>6. TypeOK'
  BY <1>1 DEF TypeOK, Become, CheckoutIInv
<1>7. RowsOK'
  BY DEF RowsOK, RowsKept, CheckoutIInv
<1>8. IntentsOK'
  BY DEF IntentsOK, RowsKept, CheckoutIInv
<1>9. BookedHasLanded'
  BY DEF BookedHasLanded, RowsKept, CheckoutIInv
<1>10. SettleSparesRunning'
  BY <1>3 DEF SettleSparesRunning, CheckoutIInv
<1> QED
  BY <1>5, <1>6, <1>7, <1>8, <1>9, <1>10 DEF CheckoutIInv

\* A row is marked canceled once its intent has ended.
LEMMA RowCanceled ==
  ASSUME CheckoutIInv, NEW i, rows' \in {rows, MarkCanceled(rows, i)},
         i \in DOMAIN rows => rows[i].status # "open" \/ Ended(i)
  PROVE  /\ rows' \in Seq(RowType) /\ DOMAIN rows' = DOMAIN rows /\ RowsKept
         /\ \A j \in DOMAIN rows :
              /\ rows'[j].status = "canceled" => intents[rows[j].key].status = "canceled"
              /\ rows'[j].status = "paid" => intents[rows[j].key].status = "succeeded"
              /\ rows'[j].status = "checked" => Kind(rows[j].key) = "check"
              /\ rows'[j].status # "canceled" => rows[j].status # "canceled"
<1>1. rows \in Seq(RowType)
  BY RowFacts
<1>2. CASE rows' = rows
  BY <1>1, <1>2 DEF RowsKept, CheckoutIInv, RowsOK
<1>3. CASE rows' = MarkCanceled(rows, i)
  <2>1. /\ rows' \in Seq(RowType) /\ DOMAIN rows' = DOMAIN rows
        /\ \A j \in DOMAIN rows :
             /\ rows'[j].key = rows[j].key
             /\ rows[j].settled => rows'[j].settled
             /\ rows'[j].status = IF j = i /\ rows[j].status = "open" THEN "canceled" ELSE rows[j].status
    BY <1>1, <1>3, MarkCanceledFacts
  <2> QED
    BY <2>1 DEF RowsKept, CheckoutIInv, RowsOK, Ended
<1> QED
  BY <1>2, <1>3

\* AbandonWrite keeps the invariant.
LEMMA AbandonWriteOK ==
  ASSUME CheckoutIInv, NEW t \in Tasks, AbandonWrite(t)
  PROVE  CheckoutIInv' /\ RowsKept
<1> DEFINE i == tasks[t].row
<1>1. tasks[t].op = "abandon" /\ tasks[t].pc = "write"
  BY DEF AbandonWrite, At
<1>2. /\ booking' = ExpireOne(booking) /\ Become(t, Idle) /\ UNCHANGED <<hold, intents, faults>>
      /\ rows' \in {rows, MarkCanceled(rows, i)}
  BY DEF AbandonWrite
<1>3. i = 0 \/ (i \in DOMAIN rows /\ (rows[i].status = "open" => Ended(i)))
  BY <1>1 DEF CheckoutIInv, TasksOK, AbandonOK
<1>4. CASE i = 0
  <2>1. rows' = rows
    <3>1. rows \in Seq(RowType) /\ 0 \notin DOMAIN rows
      BY RowFacts
    <3>2. \A j \in DOMAIN rows : MarkCanceled(rows, i)[j] = rows[j]
      BY <3>1, <1>4 DEF MarkCanceled
    <3>3. MarkCanceled(rows, i) \in Seq(RowType) /\ DOMAIN MarkCanceled(rows, i) = DOMAIN rows
      BY <3>1, MarkCanceledFacts
    <3>4. ASSUME NEW r1 \in Seq(RowType), NEW r2 \in Seq(RowType), DOMAIN r1 = DOMAIN r2,
                 \A j \in DOMAIN r2 : r1[j] = r2[j]
          PROVE  r1 = r2
      BY <3>4
    <3>5. MarkCanceled(rows, i) = rows
      BY <3>1, <3>2, <3>3, <3>4
    <3> QED
      BY <3>5, <1>2
  <2> QED
    BY <1>2, <2>1, TaskDone, FaultType
<1>5. CASE i # 0
  <2>1. i \in DOMAIN rows => rows[i].status # "open" \/ Ended(i)
    BY <1>3, <1>5
  <2>2. Idle \in TaskType /\ Idle.todo = {} /\ Idle.op = "none" /\ Idle.pc = "idle"
    BY IdleType DEF Idle
  <2>3. ResumeOK(t)' /\ AbandonOK(t)' /\ ReconcileOK(t)' /\ SettleOK(t)'
    BY <1>2, <2>2, TaskUnchanged, QuietTaskOK
  <2>4. rows # <<>>
    BY <1>3, <1>5
  <2>5. /\ booking' \in {"awaiting_payment", "booked", "expired"}
        /\ booking' = "awaiting_payment" => booking = "awaiting_payment"
        /\ booking' = "booked" => booking = "booked"
    BY <1>2 DEF ExpireOne, CheckoutIInv, TypeOK
  <2>6. /\ rows' \in Seq(RowType) /\ DOMAIN rows' = DOMAIN rows /\ RowsKept
        /\ \A j \in DOMAIN rows :
              /\ rows'[j].status = "canceled" => intents[rows[j].key].status = "canceled"
              /\ rows'[j].status = "paid" => intents[rows[j].key].status = "succeeded"
              /\ rows'[j].status = "checked" => Kind(rows[j].key) = "check"
              /\ rows'[j].status # "canceled" => rows[j].status # "canceled"
    BY <1>2, <2>1, RowCanceled
  <2> QED
    BY <1>2, <2>2, <2>3, <2>4, <2>5, <2>6, RowsWritten, FaultType
<1> QED
  BY <1>4, <1>5

\* Where a pass of settle, or a reconcile, goes next.
LEMMA NextRowFacts ==
  ASSUME CheckoutIInv, NEW t \in Tasks, tasks[t].op \in {"settle", "reconcile"},
         tasks[t].pc \in {"mark", "reconcile"}, Become(t, NextRow(tasks[t]))
  PROVE  /\ NextRow(tasks[t]) \in TaskType /\ NextRow(tasks[t]).todo = {}
         /\ NextRow(tasks[t]).op # "start"
         /\ ResumeOK(t)' /\ AbandonOK(t)' /\ ReconcileOK(t)' /\ SettleOK(t)'
<1> DEFINE pass == [Idle EXCEPT !.op = "settle", !.pc = "pass", !.final = TRUE]
<1>1. Idle \in TaskType /\ Idle.todo = {} /\ Idle.op = "none" /\ Idle.pc = "idle"
  BY IdleType DEF Idle
<1>2. pass \in TaskType /\ pass.todo = {} /\ pass.op = "settle" /\ pass.pc = "pass"
  BY IdleType DEF Idle, TaskType, Ops, Pcs
<1>3. tasks[t].op = "settle" => tasks[t].todo \ {First(tasks[t].todo)} = {}
  BY SettleFacts
<1>4. NextRow(tasks[t]) \in {Idle, pass}
  <2>1. CASE tasks[t].op # "settle"
    BY <2>1 DEF NextRow
  <2>2. CASE tasks[t].op = "settle" /\ tasks[t].moved /\ ~ tasks[t].final
    BY <1>3, <2>2 DEF NextRow
  <2>3. CASE tasks[t].op = "settle" /\ ~ (tasks[t].moved /\ ~ tasks[t].final)
    BY <1>3, <2>3 DEF NextRow
  <2> QED
    BY <2>1, <2>2, <2>3
<1>5. tasks'[t] = NextRow(tasks[t])
  BY TaskUnchanged
<1> HIDE DEF pass
<1> QED
  BY <1>1, <1>2, <1>4, <1>5 DEF ResumeOK, AbandonOK, ReconcileOK, SettleOK

\* SettleMark keeps the invariant.
LEMMA SettleMarkOK ==
  ASSUME CheckoutIInv, NEW t \in Tasks, SettleMark(t)
  PROVE  CheckoutIInv' /\ RowsKept
<1> DEFINE x == First(tasks[t].todo)
           i == x[1]
<1>1. tasks[t].op = "settle" /\ tasks[t].pc = "mark"
  BY DEF SettleMark, At
<1>2. /\ Become(t, NextRow(tasks[t])) /\ UNCHANGED <<hold, booking, intents, faults>>
      /\ rows' = IF x[2] = "cancel" THEN MarkCanceled(rows, i) ELSE Released(rows, i)
  BY DEF SettleMark
<1>3. i \in DOMAIN rows /\ Ended(i)
  BY <1>1, SettleFacts
<1>4. rows \in Seq(RowType) /\ rows # <<>> /\ DOMAIN rows = 1 .. Len(rows) /\ rows[i] \in RowType
  BY <1>3, RowFacts
<1> HIDE DEF x, i
<1>5. /\ rows' \in Seq(RowType) /\ DOMAIN rows' = DOMAIN rows /\ RowsKept
      /\ \A j \in DOMAIN rows :
              /\ rows'[j].status = "canceled" => intents[rows[j].key].status = "canceled"
              /\ rows'[j].status = "paid" => intents[rows[j].key].status = "succeeded"
              /\ rows'[j].status = "checked" => Kind(rows[j].key) = "check"
              /\ rows'[j].status # "canceled" => rows[j].status # "canceled"
  <2>1. CASE x[2] = "cancel"
    BY <1>2, <1>3, <2>1, RowCanceled
  <2>2. CASE x[2] # "cancel"
    <3> DEFINE new == [rows[i] EXCEPT !.settled = TRUE]
    <3>1. new \in RowType /\ new.key = rows[i].key /\ new.status = rows[i].status /\ new.settled
      BY <1>4 DEF RowType
    <3>2. rows' = [rows EXCEPT ![i] = new]
      BY <1>2, <2>2 DEF Released
    <3> HIDE DEF new
    <3>3. /\ rows' \in Seq(RowType) /\ DOMAIN rows' = DOMAIN rows
          /\ \A j \in DOMAIN rows : rows'[j] = IF j = i THEN new ELSE rows[j]
      BY <1>3, <1>4, <3>1, <3>2
    <3> QED
      BY <3>1, <3>3 DEF RowsKept, CheckoutIInv, RowsOK
  <2> QED
    BY <2>1, <2>2
<1>6. booking \in {"awaiting_payment", "booked", "expired"}
  BY DEF CheckoutIInv, TypeOK
<1> QED
  BY <1>1, <1>2, <1>4, <1>5, <1>6, NextRowFacts, RowsWritten, FaultType

\* What a reconcile writes for a check or payment that landed.
LEMMA ReconciledLanded ==
  ASSUME NEW rs, NEW i, NEW seen, NEW runs, NEW was, rs[i].status = "open", Landed(rs[i].key, seen)
  PROVE  /\ Reconciled(rs, i, seen, runs, was).rows =
              [rs EXCEPT ![i].status = IF Kind(rs[i].key) = "check" THEN "checked" ELSE "paid"]
         /\ Reconciled(rs, i, seen, runs, was).booking =
              IF runs /\ was = "awaiting_payment" THEN "booked" ELSE was
<1> DEFINE moved == [rs EXCEPT ![i].status = IF Kind(rs[i].key) = "check" THEN "checked" ELSE "paid"]
           booked == IF runs /\ was = "awaiting_payment" THEN "booked" ELSE was
<1>0. seen # "canceled"
  BY DEF Landed
<1>1. Reconciled(rs, i, seen, runs, was) = [rows |-> moved, booking |-> booked]
  BY <1>0 DEF Reconciled
<1> HIDE DEF moved, booked
<1> QED
  BY <1>1 DEF moved, booked

\* What Stripe was seen to say is written: a landed intent on its row, with the booking where the hold
\* still ran; a canceled one too.
LEMMA ReconcileStepOK ==
  ASSUME CheckoutIInv, NEW t \in Tasks, Reconcile(t)
  PROVE  CheckoutIInv' /\ RowsKept
<1>1. tasks[t].pc = "reconcile" /\ tasks[t].op \in {"reconcile", "settle"} /\ ReconcileOK(t)
  BY DEF Reconcile, CheckoutIInv, TasksOK, ReconcileOK
<1>2. Become(t, NextRow(tasks[t])) /\ UNCHANGED <<hold, intents, faults>>
  BY DEF Reconcile
<1>3. PICK i \in DOMAIN rows, runs \in HoldRuns :
        /\ rows[i].key = tasks[t].key
        /\ rows' = Reconciled(rows, i, tasks[t].seen, runs, booking).rows
        /\ booking' = Reconciled(rows, i, tasks[t].seen, runs, booking).booking
  BY DEF Reconcile
<1> DEFINE k == rows[i].key
           seen == tasks[t].seen
<1>4. rows \in Seq(RowType) /\ rows # <<>> /\ DOMAIN rows = 1 .. Len(rows) /\ rows[i] \in RowType
  BY RowFacts
<1>5. booking \in {"awaiting_payment", "booked", "expired"}
  BY DEF CheckoutIInv, TypeOK
<1>6. CASE rows[i].status = "open" /\ Landed(k, seen)
  <2> DEFINE status == IF Kind(k) = "check" THEN "checked" ELSE "paid"
             new == [rows[i] EXCEPT !.status = status]
  <2>1. /\ rows' = [rows EXCEPT ![i] = new]
        /\ booking' = IF runs /\ booking = "awaiting_payment" THEN "booked" ELSE booking
    <3> DEFINE booked == IF runs /\ booking = "awaiting_payment" THEN "booked" ELSE booking
    <3>2. rows' = [rows EXCEPT ![i].status = status] /\ booking' = booked
      BY <1>3, <1>6, ReconciledLanded
    <3> QED
      BY <3>2
  <2>2. new \in RowType /\ new.key = k /\ new.status = status /\ new.settled = rows[i].settled
    BY <1>4 DEF RowType
  <2>3. status = "paid" => intents[k].status = "succeeded"
    BY <1>1, <1>3, <1>6 DEF ReconcileOK, Landed
  <2> HIDE DEF new
  <2>4. /\ rows' \in Seq(RowType) /\ DOMAIN rows' = DOMAIN rows
        /\ \A j \in DOMAIN rows : rows'[j] = IF j = i THEN new ELSE rows[j]
    BY <1>4, <2>1, <2>2
  <2>5. RowsKept
    BY <1>6, <2>2, <2>4 DEF RowsKept
  <2>6. \A j \in DOMAIN rows :
              /\ rows'[j].status = "canceled" => intents[rows[j].key].status = "canceled"
              /\ rows'[j].status = "paid" => intents[rows[j].key].status = "succeeded"
              /\ rows'[j].status = "checked" => Kind(rows[j].key) = "check"
              /\ rows'[j].status # "canceled" => rows[j].status # "canceled"
    BY <1>6, <2>2, <2>3, <2>4 DEF CheckoutIInv, RowsOK
  <2>7. \E j \in DOMAIN rows' : rows'[j].status \in {"checked", "paid"}
    BY <2>2, <2>4
  <2>8. /\ booking' \in {"awaiting_payment", "booked", "expired"}
        /\ booking' = "awaiting_payment" => booking = "awaiting_payment"
    BY <1>5, <2>1
  <2> QED
    BY <1>1, <1>2, <1>4, <2>4, <2>5, <2>6, <2>7, <2>8, NextRowFacts, RowsWritten, FaultType
<1>7. CASE ~ (rows[i].status = "open" /\ Landed(k, seen))
  <2>1. /\ booking' = booking /\ rows' \in {rows, MarkCanceled(rows, i)}
        /\ rows' # rows => seen = "canceled"
    BY <1>3, <1>7 DEF Reconciled
  <2>2. CASE rows' = rows
    <3>1. RowsKept
      BY <2>2 DEF RowsKept
    <3>2. \A j \in DOMAIN rows :
              /\ rows'[j].status = "canceled" => intents[rows[j].key].status = "canceled"
              /\ rows'[j].status = "paid" => intents[rows[j].key].status = "succeeded"
              /\ rows'[j].status = "checked" => Kind(rows[j].key) = "check"
              /\ rows'[j].status # "canceled" => rows[j].status # "canceled"
      BY <2>2 DEF CheckoutIInv, RowsOK
    <3> QED
      BY <1>1, <1>2, <1>4, <1>5, <2>1, <2>2, <3>1, <3>2, NextRowFacts, RowsWritten, FaultType
  <2>3. CASE rows' # rows
    <3>1. Ended(i)
      BY <1>1, <1>3, <2>1, <2>3 DEF ReconcileOK, Ended
    <3>2. /\ rows' \in Seq(RowType) /\ DOMAIN rows' = DOMAIN rows /\ RowsKept
          /\ \A j \in DOMAIN rows :
                /\ rows'[j].status = "canceled" => intents[rows[j].key].status = "canceled"
                /\ rows'[j].status = "paid" => intents[rows[j].key].status = "succeeded"
                /\ rows'[j].status = "checked" => Kind(rows[j].key) = "check"
                /\ rows'[j].status # "canceled" => rows[j].status # "canceled"
      BY <2>1, <3>1, RowCanceled
    <3> QED
      BY <1>1, <1>2, <1>4, <1>5, <2>1, <3>2, NextRowFacts, RowsWritten, FaultType
  <2> QED
    BY <2>2, <2>3
<1> QED
  BY <1>6, <1>7

-----------------------------------------------------------------------------
(* The steps that insert a payment row *)

\* A row goes in when every other one is canceled, at Stripe too; its intent may be shown from then on.
LEMMA RowAdded ==
  ASSUME CheckoutIInv, NEW t \in Tasks, NEW task \in TaskType, Become(t, task),
         hold = "running" /\ booking = "awaiting_payment" => \A x \in task.todo : x[2] = "release",
         StartOK(t)' /\ ResumeOK(t)' /\ AbandonOK(t)' /\ ReconcileOK(t)' /\ SettleOK(t)',
         ~ Starting(t)', \A u \in Tasks : u # t => ~ Starting(u),
         NEW k \in Keys, NEW old \in Seq(RowType), rows' = Append(old, NewRow(k)),
         DOMAIN old = DOMAIN rows,
         \A i \in DOMAIN rows : /\ old[i].key = rows[i].key /\ rows[i].key # k
                                /\ old[i].status = "canceled" /\ Ended(i)
                                /\ rows[i].status # "open" => old[i].status = rows[i].status
                                /\ rows[i].settled => old[i].settled,
         intents' \in IntentsType,
         \A j \in Keys : /\ intents'[j].status = intents[j].status
                         /\ j # k => intents'[j].shown = intents[j].shown
                         /\ intents[j].shown => intents'[j].shown,
         hold' = hold, booking' = booking, booking # "booked", faults' \in 0 .. MaxFaults
  PROVE  CheckoutIInv' /\ RowsKept
<1>1. /\ NewRow(k) \in RowType /\ NewRow(k).key = k /\ NewRow(k).status = "open"
  BY DEF NewRow, RowType
<1> DEFINE n == Len(old) + 1
<1>2. /\ rows \in Seq(RowType) /\ tasks \in [Tasks -> TaskType]
      /\ \A i \in DOMAIN rows : rows[i].key \in Keys
  BY RowFacts
<1>3. /\ rows' \in Seq(RowType) /\ DOMAIN rows' = DOMAIN rows \cup {n} /\ n \notin DOMAIN rows
      /\ rows'[n] = NewRow(k) /\ \A i \in DOMAIN rows : rows'[i] = old[i]
  BY <1>1
<1> HIDE DEF n
<1>4. RowsKept
  BY <1>3 DEF RowsKept
<1>5. IntentsKept
  BY DEF IntentsKept
<1>6. StartersSeeNothing(t)
  BY DEF StartersSeeNothing
<1>7. TasksOK'
  BY <1>3, <1>4, <1>5, <1>6, OthersKept DEF TasksOK
<1>8. RowsOK'
  <2>1. \A i \in DOMAIN rows : intents'[rows[i].key].status = "canceled"
    BY <1>2 DEF Ended
  <2>2. \A i \in DOMAIN rows' : /\ rows'[i].status \in {"open", "canceled"}
                                /\ rows'[i].status = "canceled" => i \in DOMAIN rows
                                /\ i # n => i \in DOMAIN rows /\ rows'[i].status = "canceled"
    BY <1>1, <1>3
  <2>3. \A i \in DOMAIN rows : rows'[i].key = rows[i].key /\ rows[i].key # k
    BY <1>3
  <2>4. \A i, j \in DOMAIN rows' : rows'[i].key = rows'[j].key => i = j
    <3>1. \A i, j \in DOMAIN rows : rows[i].key = rows[j].key => i = j
      BY DEF CheckoutIInv, RowsOK
    <3> QED
      BY <1>1, <1>3, <2>3, <3>1
  <2> QED
    BY <2>1, <2>2, <2>3, <2>4 DEF RowsOK
<1>9. IntentsOK'
  <2>1. \A j \in Keys : intents[j].shown => \E i \in DOMAIN rows' : rows'[i].key = j
    BY <1>3 DEF CheckoutIInv, IntentsOK
  <2>2. \E i \in DOMAIN rows' : rows'[i].key = k
    BY <1>1, <1>3
  <2>3. \A j \in Keys : intents'[j].shown => \E i \in DOMAIN rows' : rows'[i].key = j
    BY <2>1, <2>2
  <2>4. \A j \in Keys : intents[j].status \notin {"absent", "open", "canceled"} => intents[j].shown
    BY DEF CheckoutIInv, IntentsOK
  <2> QED
    BY <2>3, <2>4 DEF IntentsOK
<1>10. TypeOK'
  <2>1. DOMAIN rows' \subseteq RowIds
    BY <1>3, <1>8, RowsBounded DEF RowsOK
  <2> QED
    BY <1>2, <1>3, <2>1 DEF TypeOK, Become, IntentsType, CheckoutIInv
<1>11. BookedHasLanded' /\ SettleSparesRunning'
  <2>1. \A u \in Tasks : tasks'[u] = IF u = t THEN task ELSE tasks[u]
    BY <1>2 DEF Become
  <2> QED
    BY <2>1 DEF BookedHasLanded, SettleSparesRunning, CheckoutIInv
<1> QED
  BY <1>4, <1>7, <1>8, <1>9, <1>10, <1>11 DEF CheckoutIInv

\* While start is on its way there is no row, no secret and no booking made of it.
LEMMA StartFacts ==
  ASSUME CheckoutIInv, NEW t \in Tasks, Starting(t)
  PROVE  /\ rows = <<>> /\ DOMAIN rows = {} /\ booking # "booked" /\ tasks[t].key \in Keys
         /\ <<1, tasks[t].kind>> \in Keys /\ tasks[t] \in TaskType
         /\ \A u \in Tasks : u # t => ~ Starting(u)
<1>1. rows = <<>> /\ \A u \in Tasks : u # t => ~ Starting(u)
  BY DEF CheckoutIInv, TasksOK, StartOK
<1>2. DOMAIN rows = {}
  BY <1>1
<1>3. tasks[t] \in TaskType
  BY RowFacts
<1> QED
  BY <1>1, <1>2, <1>3, CheckoutAssumption DEF CheckoutIInv, BookedHasLanded, TaskType, Keys

\* StartInsert keeps the invariant.
LEMMA StartInsertOK ==
  ASSUME CheckoutIInv, NEW t \in Tasks, StartInsert(t)
  PROVE  CheckoutIInv' /\ RowsKept
<1> DEFINE k == tasks[t].key
<1>1. Starting(t) /\ Become(t, Idle) /\ UNCHANGED <<hold, booking, faults>>
  BY DEF StartInsert, Starting, At
<1>2. rows' = Append(rows, NewRow(k)) /\ intents' = [intents EXCEPT ![k].shown = TRUE]
  BY DEF StartInsert
<1>3. /\ DOMAIN rows = {} /\ booking # "booked" /\ k \in Keys
      /\ \A u \in Tasks : u # t => ~ Starting(u)
  BY <1>1, StartFacts
<1>4. Idle \in TaskType /\ Idle.todo = {} /\ Idle.op = "none" /\ Idle.pc = "idle"
  BY IdleType DEF Idle
<1>5. tasks'[t] = Idle
  BY <1>1, TaskUnchanged
<1>6. /\ StartOK(t)' /\ ResumeOK(t)' /\ AbandonOK(t)' /\ ReconcileOK(t)' /\ SettleOK(t)'
      /\ ~ Starting(t)'
  BY <1>4, <1>5, QuietTaskOK DEF Starting
<1>7. intents \in IntentsType /\ rows \in Seq(RowType)
  BY RowFacts
<1>8. /\ intents' \in IntentsType
      /\ \A j \in Keys : /\ intents'[j].status = intents[j].status
                         /\ j # k => intents'[j].shown = intents[j].shown
                         /\ intents[j].shown => intents'[j].shown
  BY <1>2, <1>3, <1>7 DEF IntentsType
<1>9. faults' \in 0 .. MaxFaults
  BY <1>1, FaultType
<1> QED
  BY <1>1, <1>2, <1>3, <1>4, <1>6, <1>7, <1>8, <1>9, RowAdded

\* StartFails keeps the invariant.
LEMMA StartFailsOK ==
  ASSUME CheckoutIInv, NEW t \in Tasks, StartFails(t)
  PROVE  CheckoutIInv' /\ RowsKept
<1> DEFINE task == [tasks[t] EXCEPT !.pc = "give_back"]
           k == <<1, tasks[t].kind>>
<1>1. /\ Starting(t) /\ Become(t, task) /\ UNCHANGED <<hold, booking>> /\ faults' \in 0 .. MaxFaults
      /\ tasks[t].op = "start"
  BY FaultType DEF StartFails, Starting
<1>2. /\ rows = <<>> /\ DOMAIN rows = {} /\ booking # "booked" /\ tasks[t].key \in Keys /\ k \in Keys
      /\ tasks[t] \in TaskType /\ \A u \in Tasks : u # t => ~ Starting(u)
  BY <1>1, StartFacts
<1>3. task \in TaskType /\ task.op = "start" /\ task.pc = "give_back" /\ task.todo = tasks[t].todo
  BY <1>1, <1>2 DEF TaskType, Pcs
<1> HIDE DEF task
<1>4. tasks'[t] = task
  BY <1>1, TaskUnchanged
<1>5. /\ StartOK(t)' /\ ResumeOK(t)' /\ AbandonOK(t)' /\ ReconcileOK(t)' /\ SettleOK(t)'
      /\ ~ Starting(t)'
  BY <1>3, <1>4 DEF StartOK, Starting, At, ResumeOK, AbandonOK, ReconcileOK, SettleOK
<1>6. hold = "running" /\ booking = "awaiting_payment" => \A x \in task.todo : x[2] = "release"
  BY <1>3 DEF CheckoutIInv, SettleSparesRunning
<1>7. intents \in IntentsType /\ rows \in Seq(RowType)
  BY RowFacts
<1>8. PICK done \in BOOLEAN :
        /\ intents' = IF done /\ tasks[t].pc = "create"
                      THEN [intents EXCEPT ![k].status = "open"] ELSE intents
        /\ rows' = IF done /\ tasks[t].pc = "insert" THEN Append(rows, NewRow(tasks[t].key)) ELSE rows
  BY DEF StartFails
<1>9. CASE done /\ tasks[t].pc = "create"
  <2>1. intents' = [intents EXCEPT ![k].status = "open"] /\ rows' = rows
    BY <1>8, <1>9
  <2>2. \A j \in Keys : intents[j].status = "absent"
    BY <1>1, <1>9 DEF CheckoutIInv, TasksOK, StartOK, At
  <2>3. /\ intents' \in IntentsType /\ intents'[k].status = "open" /\ intents'[k].shown = intents[k].shown
        /\ \A j \in Keys : j # k => intents'[j] = intents[j]
    BY <1>2, <1>7, <2>1 DEF IntentsType, IntentStatuses
  <2>4. IntentsKept /\ StartersSeeNothing(t)
    BY <1>2, <2>2 DEF IntentsKept, StartersSeeNothing
  <2>5. IntentsOK'
    BY <1>2, <2>1, <2>3 DEF IntentsOK, CheckoutIInv
  <2> QED
    BY <1>1, <1>3, <1>5, <1>6, <2>1, <2>3, <2>4, <2>5, RowsAlone
<1>10. CASE done /\ tasks[t].pc = "insert"
  <2>1. intents' = intents /\ rows' = Append(rows, NewRow(tasks[t].key))
    BY <1>8, <1>10
  <2> QED
    BY <1>1, <1>2, <1>3, <1>5, <1>6, <1>7, <2>1, RowAdded
<1>11. CASE ~ (done /\ tasks[t].pc \in {"create", "insert"})
  <2>1. intents' = intents /\ rows' = rows
    BY <1>8, <1>11
  <2> QED
    BY <1>1, <1>3, <1>5, <1>6, <2>1, TaskAlone
<1> QED
  BY <1>9, <1>10, <1>11

\* The old row is canceled and the new one in, or nothing of it is.
LEMMA ResumeInsertOK ==
  ASSUME CheckoutIInv, NEW t \in Tasks, ResumeInsert(t)
  PROVE  CheckoutIInv' /\ RowsKept
<1> DEFINE k == tasks[t].key
           marked == MarkCanceled(rows, tasks[t].row)
<1>1. tasks[t].op = "resume" /\ tasks[t].pc = "insert" /\ UNCHANGED <<hold, booking, faults>>
  BY DEF ResumeInsert, At
<1>2. /\ tasks[t] \in TaskType /\ k \in Keys /\ rows # <<>>
      /\ tasks[t].row \in DOMAIN rows /\ Ended(tasks[t].row)
  BY <1>1, ResumeFacts
<1>3. faults' \in 0 .. MaxFaults
  BY <1>1, FaultType
<1>4. rows \in Seq(RowType) /\ intents \in IntentsType
  BY RowFacts
<1>5. PICK runs \in HoldRuns :
        LET gone == booking # "awaiting_payment" \/ ~ runs
            stored == ~ gone /\ ~ InsertConflicts(marked, k)
        IN /\ rows' = IF stored THEN Append(marked, NewRow(k)) ELSE rows
           /\ intents' = IF stored THEN [intents EXCEPT ![k].shown = TRUE] ELSE intents
           /\ Become(t, IF stored THEN Idle
                        ELSE [tasks[t] EXCEPT !.row = 0, !.pc = IF gone THEN "orphan" ELSE "conflict"])
  BY DEF ResumeInsert
<1> DEFINE gone == booking # "awaiting_payment" \/ ~ runs
           stored == ~ gone /\ ~ InsertConflicts(marked, k)
<1>6. CASE stored
  <2>1. /\ rows' = Append(marked, NewRow(k)) /\ intents' = [intents EXCEPT ![k].shown = TRUE]
        /\ Become(t, Idle)
    BY <1>5, <1>6
  <2>2. Idle \in TaskType /\ Idle.todo = {} /\ Idle.op = "none" /\ Idle.pc = "idle"
    BY IdleType DEF Idle
  <2>3. tasks'[t] = Idle
    BY <2>1, TaskUnchanged
  <2>4. /\ StartOK(t)' /\ ResumeOK(t)' /\ AbandonOK(t)' /\ ReconcileOK(t)' /\ SettleOK(t)'
        /\ ~ Starting(t)'
    BY <2>2, <2>3, QuietTaskOK DEF Starting
  <2>5. \A u \in Tasks : ~ Starting(u)
    BY <1>2, NoStarters
  <2>6. /\ marked \in Seq(RowType) /\ DOMAIN marked = DOMAIN rows
        /\ \A i \in DOMAIN rows :
             /\ marked[i].key = rows[i].key
             /\ rows[i].settled => marked[i].settled
             /\ marked[i].status = IF i = tasks[t].row /\ rows[i].status = "open" THEN "canceled"
                                   ELSE rows[i].status
    BY <1>4, MarkCanceledFacts
  <2> HIDE DEF marked
  <2>7. \A i \in DOMAIN rows : marked[i].status = "canceled" /\ rows[i].key # k
    BY <1>6, <2>6 DEF InsertConflicts
  <2>8. \A i \in DOMAIN rows : Ended(i)
    BY <1>2, <2>6, <2>7 DEF CheckoutIInv, RowsOK, Ended
  <2>9. \A i \in DOMAIN rows : rows[i].status # "open" => marked[i].status = rows[i].status
    BY <2>6
  <2>10. /\ intents' \in IntentsType
         /\ \A j \in Keys : /\ intents'[j].status = intents[j].status
                            /\ j # k => intents'[j].shown = intents[j].shown
                            /\ intents[j].shown => intents'[j].shown
    BY <1>2, <1>4, <2>1 DEF IntentsType
  <2>11. booking # "booked"
    BY <1>6
  <2> QED
    BY <1>1, <1>2, <1>3, <2>1, <2>2, <2>4, <2>5, <2>6, <2>7, <2>8, <2>9, <2>10, <2>11, RowAdded
<1>7. CASE ~ stored
  <2> DEFINE pc == IF gone THEN "orphan" ELSE "conflict"
             task == [tasks[t] EXCEPT !.row = 0, !.pc = pc]
  <2>1. rows' = rows /\ intents' = intents /\ Become(t, task)
    BY <1>5, <1>7
  <2>2. task \in TaskType /\ task.op = "resume" /\ task.pc = pc /\ task.todo = tasks[t].todo
    <3>1. pc \in Pcs
      BY DEF Pcs
    <3> HIDE DEF pc
    <3> QED
      BY <1>1, <1>2, <3>1 DEF TaskType
  <2> HIDE DEF task
  <2>3. tasks'[t] = task
    BY <2>1, TaskUnchanged
  <2>4. ResumeOK(t)'
    BY <1>2, <2>1, <2>2, <2>3 DEF ResumeOK
  <2>5. hold = "running" /\ booking = "awaiting_payment" => \A x \in task.todo : x[2] = "release"
    BY <2>2 DEF CheckoutIInv, SettleSparesRunning
  <2> QED
    BY <1>1, <1>3, <2>1, <2>2, <2>4, <2>5, GoesOn, TaskAlone
<1> QED
  BY <1>6, <1>7

-----------------------------------------------------------------------------
(* The clock, the sweep, and Stripe *)

\* The deadline passing, and the sweep, keep the invariant.
LEMMA ClockOK ==
  ASSUME CheckoutIInv, HoldLapses \/ HoldIsOver \/ Sweep
  PROVE  CheckoutIInv' /\ RowsKept
<1>1. UNCHANGED <<rows, intents, tasks, faults>>
  BY DEF HoldLapses, HoldIsOver, Sweep
<1>2. /\ hold' \in {"running", "grace", "over"}
      /\ hold' = "running" => hold = "running"
      /\ booking' \in {booking, "expired"}
  BY DEF HoldLapses, HoldIsOver, Sweep, CheckoutIInv, TypeOK
<1>3. RowsKept
  BY <1>1 DEF RowsKept
<1>4. TasksOK' /\ RowsOK' /\ IntentsOK'
  BY <1>1 DEF CheckoutIInv, TasksOK, RowsOK, IntentsOK, StartOK, ResumeOK, AbandonOK, ReconcileOK,
              SettleOK, Starting, Ended, At
<1>5. TypeOK'
  BY <1>1, <1>2 DEF CheckoutIInv, TypeOK
<1>6. BookedHasLanded' /\ SettleSparesRunning'
  BY <1>1, <1>2 DEF CheckoutIInv, BookedHasLanded, SettleSparesRunning
<1> QED
  BY <1>3, <1>4, <1>5, <1>6 DEF CheckoutIInv

\* What happens at Stripe happens to an intent that is neither absent nor final; before start is done
\* there is none but one nobody has seen.
LEMMA IntentMoves ==
  ASSUME CheckoutIInv, NEW k \in Keys, NEW status \in IntentStatuses \ {"absent"}, SetIntent(k, status),
         faults' \in 0 .. MaxFaults,
         intents[k].status \in {"open", "processing", "requires_capture"},
         status \in {"processing", "requires_capture", "succeeded"} => intents[k].shown
  PROVE  CheckoutIInv' /\ RowsKept
<1>1. UNCHANGED <<hold, booking, rows, tasks>>
  BY DEF SetIntent
<1>2. /\ rows \in Seq(RowType) /\ \A i \in DOMAIN rows : rows[i].key \in Keys
      /\ tasks \in [Tasks -> TaskType] /\ intents \in IntentsType
  BY RowFacts
<1>3. /\ intents' \in IntentsType /\ intents'[k].status = status
      /\ \A j \in Keys : intents'[j].shown = intents[j].shown
      /\ \A j \in Keys : j # k => intents'[j] = intents[j]
  BY <1>2 DEF SetIntent, IntentsType
<1>4. RowsKept
  BY <1>1 DEF RowsKept
<1>5. IntentsKept
  BY <1>3 DEF IntentsKept
<1>6. TypeOK'
  BY <1>1, <1>3 DEF CheckoutIInv, TypeOK, IntentsType
<1>7. RowsOK'
  BY <1>1, <1>2, <1>5 DEF CheckoutIInv, RowsOK, IntentsKept
<1>8. IntentsOK'
  BY <1>1, <1>3 DEF CheckoutIInv, IntentsOK, IntentStatuses
<1>9. TasksOK'
  <2> SUFFICES ASSUME NEW t \in Tasks
               PROVE  StartOK(t)' /\ ResumeOK(t)' /\ AbandonOK(t)' /\ ReconcileOK(t)' /\ SettleOK(t)'
    BY DEF TasksOK
  <2>1. \A i \in DOMAIN rows : Ended(i) => Ended(i)'
    BY <1>1, <1>2, <1>5 DEF Ended, IntentsKept
  <2>2. StartOK(t)'
    BY <1>1 DEF CheckoutIInv, TasksOK, StartOK, Starting, At
  <2>3. ResumeOK(t)' /\ AbandonOK(t)' /\ SettleOK(t)'
    BY <1>1, <2>1 DEF CheckoutIInv, TasksOK, ResumeOK, AbandonOK, SettleOK
  <2>4. tasks[t].key \in Keys
    BY <1>2 DEF TaskType
  <2>5. ReconcileOK(t)'
    BY <1>1, <1>5, <2>4 DEF CheckoutIInv, TasksOK, ReconcileOK, IntentsKept
  <2> QED
    BY <2>2, <2>3, <2>5
<1>10. BookedHasLanded' /\ SettleSparesRunning'
  BY <1>1 DEF CheckoutIInv, BookedHasLanded, SettleSparesRunning
<1> QED
  BY <1>4, <1>6, <1>7, <1>8, <1>9, <1>10 DEF CheckoutIInv

\* Whatever browsers and banks do at Stripe keeps the invariant.
LEMMA StripeOK ==
  ASSUME CheckoutIInv, Stripe
  PROVE  CheckoutIInv' /\ RowsKept
<1>1. PICK k \in Keys : Confirm(k) \/ BankAccepts(k) \/ BankDeclines(k) \/ StripeCancels(k)
  BY DEF Stripe
<1>2. intents[k].status \notin {"absent", "open", "canceled"} => intents[k].shown
  BY DEF CheckoutIInv, IntentsOK
<1> DEFINE landed == IF Kind(k) = "check" THEN "requires_capture" ELSE "succeeded"
<1>3. {"processing", "open", "canceled", landed} \subseteq IntentStatuses \ {"absent"}
  BY DEF IntentStatuses
<1>4. landed \in {"requires_capture", "succeeded"}
  OBVIOUS
<1> HIDE DEF landed
<1>5. CASE Confirm(k)
  BY <1>3, <1>4, <1>5, FaultType, IntentMoves DEF Confirm, landed
<1>6. CASE BankAccepts(k)
  BY <1>2, <1>3, <1>4, <1>6, FaultType, IntentMoves DEF BankAccepts, landed
<1>7. CASE BankDeclines(k)
  BY <1>3, <1>7, FaultType, IntentMoves DEF BankDeclines
<1>8. CASE StripeCancels(k)
  BY <1>3, <1>8, FaultType, IntentMoves DEF StripeCancels
<1> QED
  BY <1>1, <1>5, <1>6, <1>7, <1>8

-----------------------------------------------------------------------------
(* The specification *)

\* The invariant holds at the start.
LEMMA CheckoutInit ==
  ASSUME Init
  PROVE  CheckoutIInv
<1>1. PICK t \in Tasks, kind \in Kinds :
        tasks = [u \in Tasks |-> IF u = t THEN [Idle EXCEPT !.op = "start", !.pc = "create", !.kind = kind]
                                 ELSE Idle]
  BY DEF Init
<1> DEFINE starter == [Idle EXCEPT !.op = "start", !.pc = "create", !.kind = kind]
<1>2. Idle \in TaskType /\ Idle.todo = {} /\ Idle.op = "none" /\ Idle.pc = "idle"
  BY IdleType DEF Idle
<1>3. /\ starter \in TaskType /\ starter.todo = {} /\ starter.op = "start" /\ starter.pc = "create"
  BY IdleType DEF Idle, TaskType, Ops, Pcs
<1>4. \A u \in Tasks : tasks[u] = IF u = t THEN starter ELSE Idle
  BY <1>1
<1> HIDE DEF starter
<1>5. /\ hold = "running" /\ booking = "awaiting_payment" /\ rows = <<>> /\ faults = 0
      /\ intents = [k \in Keys |-> [status |-> "absent", shown |-> FALSE]]
  BY DEF Init
<1>6. DOMAIN rows = {} /\ rows \in Seq(RowType)
  BY <1>5
<1>7. tasks \in [Tasks -> TaskType]
  BY <1>1, <1>2, <1>3 DEF starter
<1>8. TypeOK
  BY <1>5, <1>6, <1>7, CheckoutAssumption DEF TypeOK, IntentStatuses
<1>9. RowsOK /\ IntentsOK
  BY <1>5, <1>6 DEF RowsOK, IntentsOK
<1>10. ASSUME NEW u \in Tasks
       PROVE  StartOK(u) /\ ResumeOK(u) /\ AbandonOK(u) /\ ReconcileOK(u) /\ SettleOK(u)
  BY <1>2, <1>3, <1>4, <1>5 DEF StartOK, Starting, At, ResumeOK, AbandonOK, ReconcileOK, SettleOK
<1>11. BookedHasLanded /\ SettleSparesRunning
  BY <1>2, <1>3, <1>4, <1>5 DEF BookedHasLanded, SettleSparesRunning
<1> QED
  BY <1>8, <1>9, <1>10, <1>11 DEF CheckoutIInv, TasksOK

\* Every step keeps the invariant, and moves no row that is closed.
LEMMA CheckoutNext ==
  ASSUME CheckoutIInv, [Next]_vars
  PROVE  CheckoutIInv' /\ RowsKept
<1>1. ASSUME NEW t \in Tasks, Begin(t)
      PROVE  CheckoutIInv' /\ RowsKept
  BY <1>1, BeginReconcileOK, BeginAbandonOK, BeginSettleOK, BeginResumeOK DEF Begin
<1>2. ASSUME NEW t \in Tasks, Step(t)
      PROVE  CheckoutIInv' /\ RowsKept
  BY <1>2, StartCreateOK, StartInsertOK, GiveBackOK, LookOK, ReconcileStepOK, ResumeRetrieveOK,
     ResumeCancelOK, ResumeCreateOK, ResumeInsertOK, ResumeConflictOK, ResumeAgainOK, OrphanOK,
     AbandonCancelOK, AbandonWriteOK, SettlePassOK, SettleCancelOK, SettleMarkOK DEF Step
<1>3. ASSUME NEW t \in Tasks, StartFails(t) \/ Drop(t)
      PROVE  CheckoutIInv' /\ RowsKept
  BY <1>3, StartFailsOK, DropOK
<1>4. ASSUME HoldLapses \/ HoldIsOver \/ Sweep
      PROVE  CheckoutIInv' /\ RowsKept
  BY <1>4, ClockOK
<1>5. CASE UNCHANGED vars
  <2>1. UNCHANGED <<hold, booking, rows, intents, tasks, faults>>
    BY <1>5 DEF vars
  <2>2. RowsKept /\ TypeOK' /\ RowsOK' /\ IntentsOK' /\ BookedHasLanded' /\ SettleSparesRunning'
    BY <2>1 DEF RowsKept, CheckoutIInv, TypeOK, RowsOK, IntentsOK, BookedHasLanded, SettleSparesRunning
  <2>3. TasksOK'
    BY <2>1 DEF CheckoutIInv, TasksOK, StartOK, ResumeOK, AbandonOK, ReconcileOK, SettleOK, Starting,
                Ended, At
  <2> QED
    BY <2>2, <2>3 DEF CheckoutIInv
<1> QED
  BY <1>1, <1>2, <1>3, <1>4, <1>5, StripeOK DEF Next

\* The inductive invariant, of every reachable state.
LEMMA CheckoutInvariant == Spec => []CheckoutIInv
<1>1. Init => CheckoutIInv
  BY CheckoutInit
<1>2. CheckoutIInv /\ [Next]_vars => CheckoutIInv'
  BY CheckoutNext
<1> QED
  BY <1>1, <1>2, PTL DEF Spec

\* A set whose members are all the same has at most one.
LEMMA AtMostOne ==
  ASSUME NEW S, \A x, y \in S : x = y
  PROVE  Cardinality(S) <= 1
<1>1. CASE S = {}
  BY <1>1, FS_EmptySet
<1>2. CASE S # {}
  <2>1. PICK x : S = {x}
    BY <1>2
  <2> QED
    BY <2>1, FS_Singleton
<1> QED
  BY <1>1, <1>2

\* Only the intent of the row that is not canceled can still move money.
LEMMA LiveIntent ==
  ASSUME CheckoutIInv, NEW k \in Keys, intents[k].shown, intents[k].status # "canceled"
  PROVE  \E i \in DOMAIN rows : rows[i].key = k /\ rows[i].status # "canceled"
BY DEF CheckoutIInv, IntentsOK, RowsOK

\* Money under way or taken is on an intent whose row is open or paid: start, resume, abandon and
\* settle leave no charge that no row accounts for, in whichever order their calls to Stripe and their
\* transactions fall.
THEOREM ChargesAreSeen == Spec => []NoChargeUnseen
<1>1. ASSUME CheckoutIInv, NEW k \in Keys, Charged(k)
      PROVE  \E i \in RowOf(k) : rows[i].status \in {"open", "paid"}
  <2>1. intents[k].shown /\ intents[k].status # "canceled" /\ Kind(k) = "pay"
    BY <1>1 DEF Charged, CheckoutIInv, IntentsOK
  <2>2. PICK i \in DOMAIN rows : rows[i].key = k /\ rows[i].status # "canceled"
    BY <1>1, <2>1, LiveIntent
  <2>3. rows[i].status \in {"open", "checked", "paid", "canceled"}
    <3>1. rows[i] \in RowType
      BY <1>1, RowFacts
    <3> QED
      BY <3>1 DEF RowType
  <2>4. rows[i].status # "checked"
    BY <1>1, <2>1, <2>2 DEF CheckoutIInv, RowsOK
  <2> QED
    BY <2>2, <2>3, <2>4 DEF RowOf
<1>2. CheckoutIInv => NoChargeUnseen
  BY <1>1 DEF NoChargeUnseen
<1> QED
  BY <1>2, CheckoutInvariant, PTL

\* At most one intent of a booking ever holds or takes money: a client who refreshes, goes Back or
\* switches between checking the card and paying does not pay twice.
THEOREM ClientPaysOnce == Spec => []NoDoubleCharge
<1>1. ASSUME CheckoutIInv
      PROVE  NoDoubleCharge
  <2>1. ASSUME NEW k \in Keys, NEW j \in Keys, Charged(k), Charged(j)
        PROVE  k = j
    <3>1. /\ intents[k].shown /\ intents[k].status # "canceled"
          /\ intents[j].shown /\ intents[j].status # "canceled"
      BY <1>1, <2>1 DEF Charged, CheckoutIInv, IntentsOK
    <3>2. PICK a \in DOMAIN rows : rows[a].key = k /\ rows[a].status # "canceled"
      BY <1>1, <3>1, LiveIntent
    <3>3. PICK b \in DOMAIN rows : rows[b].key = j /\ rows[b].status # "canceled"
      BY <1>1, <3>1, LiveIntent
    <3> QED
      BY <1>1, <3>2, <3>3 DEF CheckoutIInv, RowsOK
  <2> QED
    BY <2>1, AtMostOne DEF NoDoubleCharge
<1> QED
  BY <1>1, CheckoutInvariant, PTL

\* What every handler of the checkout may rely on: a booking only with one landed check or payment, of
\* the secrets handed out at most one that still works, and no running checkout ended by settle.
THEOREM CheckoutSound == Spec => []CheckoutInv
<1>1. ASSUME CheckoutIInv
      PROVE  OneSecretWorks
  <2>1. ASSUME NEW k \in Keys, NEW j \in Keys, intents[k].shown, intents[j].shown,
               intents[k].status = "open", intents[j].status = "open"
        PROVE  k = j
    <3>1. PICK a \in DOMAIN rows : rows[a].key = k /\ rows[a].status # "canceled"
      BY <1>1, <2>1, LiveIntent
    <3>2. PICK b \in DOMAIN rows : rows[b].key = j /\ rows[b].status # "canceled"
      BY <1>1, <2>1, LiveIntent
    <3> QED
      BY <1>1, <3>1, <3>2 DEF CheckoutIInv, RowsOK
  <2> QED
    BY <2>1, AtMostOne DEF OneSecretWorks
<1>2. ASSUME CheckoutIInv
      PROVE  BookedIsLanded
  <2> DEFINE landed == {i \in DOMAIN rows : rows[i].status \in {"checked", "paid"}}
  <2>1. \A i, j \in landed : i = j
    BY <1>2 DEF CheckoutIInv, RowsOK
  <2>2. \A i \in landed : rows[i].status = "paid" => intents[rows[i].key].status = "succeeded"
    BY <1>2 DEF CheckoutIInv, RowsOK
  <2>3. ASSUME booking = "booked"
        PROVE  Cardinality(landed) = 1
    <3>1. landed # {}
      BY <1>2, <2>3 DEF CheckoutIInv, BookedHasLanded
    <3>2. PICK i : landed = {i}
      BY <2>1, <3>1
    <3> QED
      BY <3>2, FS_Singleton
  <2> QED
    BY <2>2, <2>3 DEF BookedIsLanded
<1>3. CheckoutIInv => CheckoutInv
  BY <1>1, <1>2 DEF CheckoutIInv, CheckoutInv
<1> QED
  BY <1>3, CheckoutInvariant, PTL

\* A payment row that is no longer open never moves again and what was settled stays settled, also
\* when reconcile writes what Stripe said before another handler wrote.
THEOREM RowsCloseOnce == Spec => RowsOnlyClose
<1>1. ASSUME CheckoutIInv, [Next]_vars
      PROVE  [\A i \in DOMAIN rows :
                /\ rows[i].status # "open" => rows'[i].status = rows[i].status
                /\ rows[i].settled => rows'[i].settled]_vars
  BY <1>1, CheckoutNext DEF RowsKept
<1> QED
  BY <1>1, CheckoutInvariant, PTL DEF Spec, RowsOnlyClose

-----------------------------------------------------------------------------
(* The promise of OneCharge *)

\* No charge begins or ends.
ChargesKept ==
  \A k \in Keys : \A s \in {"processing", "succeeded"} :
    intents'[k].status = s <=> intents[k].status = s

\* No check or payment is put on record, or taken off it.
RecordKept ==
  \A s \in {"checked", "paid"} : HasRow(s)' <=> HasRow(s)

PromiseStep ==
  [Promise!Next]_<<Payments("processing"), Payments("succeeded"), RecordOf, booking>>

\* What changes neither charges nor record gives the slot back at the most.
LEMMA QuietKeeps ==
  ASSUME ChargesKept, RecordKept, booking' = booking \/ (booking = "awaiting_payment" /\ booking' = "expired")
  PROVE  PromiseStep
<1>1. Payments("processing")' = Payments("processing") /\ Payments("succeeded")' = Payments("succeeded")
  BY DEF ChargesKept, Payments
<1>2. RecordOf' = RecordOf
  BY DEF RecordKept, RecordOf
<1>3. CASE booking' = booking
  BY <1>1, <1>2, <1>3 DEF PromiseStep
<1>4. CASE booking = "awaiting_payment" /\ booking' = "expired"
  BY <1>1, <1>2, <1>4 DEF PromiseStep, Promise!Next, Promise!Expire
<1> QED
  BY <1>3, <1>4

\* Rows that are canceled or come in open change nothing of the record.
LEMMA RecordSame ==
  ASSUME CheckoutIInv, RowsKept,
         \A i \in DOMAIN rows' : rows'[i].status \in {"checked", "paid"} =>
           i \in DOMAIN rows /\ rows[i].status = rows'[i].status
  PROVE  RecordKept
<1>1. ASSUME NEW s \in {"checked", "paid"} PROVE HasRow(s)' <=> HasRow(s)
  BY DEF RowsKept, HasRow
<1> QED
  BY <1>1 DEF RecordKept

\* An intent whose status moves between two that take no money changes no charge.
LEMMA ChargesSame ==
  ASSUME CheckoutIInv, NEW k \in Keys, NEW status \in {"open", "canceled"},
         intents' = [intents EXCEPT ![k].status = status] \/ intents' = intents,
         intents[k].status \notin {"processing", "succeeded"}
  PROVE  ChargesKept
<1>1. intents \in IntentsType
  BY RowFacts
<1>2. CASE intents' = intents
  BY <1>2 DEF ChargesKept
<1>3. CASE intents' = [intents EXCEPT ![k].status = status]
  <2>1. intents'[k].status = status /\ \A j \in Keys : j # k => intents'[j] = intents[j]
    BY <1>1, <1>3 DEF IntentsType
  <2> QED
    BY <2>1 DEF ChargesKept
<1> QED
  BY <1>2, <1>3

\* Stripe cancels no intent that has or is taking money.
LEMMA CancelSame ==
  ASSUME CheckoutIInv, NEW k \in Keys, CancelIntent(k) PROVE ChargesKept
<1>1. CASE intents[k].status \in {"open", "requires_capture"}
  BY <1>1, ChargesSame DEF CancelIntent, AfterCancel
<1>2. CASE intents[k].status \notin {"open", "requires_capture"}
  <2>1. intents \in IntentsType
    BY RowFacts
  <2>2. \A j \in Keys : intents'[j].status = intents[j].status
    BY <1>2, <2>1 DEF CancelIntent, AfterCancel, IntentsType
  <2> QED
    BY <2>2 DEF ChargesKept
<1> QED
  BY <1>1, <1>2

\* The steps that write no payment row.
LEMMA NoRowStep ==
  ASSUME CheckoutIInv, NEW t \in Tasks,
         \/ Begin(t) \/ Drop(t) \/ GiveBack(t) \/ Look(t)
         \/ StartCreate(t) \/ ResumeRetrieve(t) \/ ResumeCancel(t) \/ ResumeCreate(t)
         \/ ResumeConflict(t) \/ ResumeAgain(t) \/ Orphan(t) \/ AbandonCancel(t)
         \/ SettlePass(t) \/ SettleCancel(t)
  PROVE  PromiseStep
<1> USE DEF GiveBack, StartCreate, ResumeCancel, ResumeCreate, Orphan, AbandonCancel, SettleCancel
<1>1. rows' = rows
  BY DEF Begin, BeginReconcile, BeginAbandon, BeginSettle, BeginResume, Drop, Look, ResumeRetrieve,
         ResumeConflict, ResumeAgain, SettlePass
<1>2. RecordKept
  BY <1>1 DEF RecordKept, HasRow
<1>3. booking' = booking \/ (booking = "awaiting_payment" /\ booking' = "expired")
  BY DEF Begin, BeginReconcile, BeginAbandon, BeginSettle, BeginResume, Drop, Look, ResumeRetrieve,
         ResumeConflict, ResumeAgain, SettlePass, ExpireOne
<1>4. intents \in IntentsType /\ tasks[t] \in TaskType /\ tasks[t].key \in Keys /\ tasks[t].kind \in Kinds
  BY RowFacts DEF TaskType
<1>5. CASE ResumeCancel(t) \/ Orphan(t) \/ AbandonCancel(t)
  BY <1>2, <1>3, <1>4, <1>5, CancelSame, QuietKeeps
<1>6. CASE SettleCancel(t)
  <2>1. tasks[t].op = "settle" /\ tasks[t].pc = "cancel"
    BY <1>6 DEF At
  <2>2. First(tasks[t].todo)[1] \in DOMAIN rows
    BY <2>1, SettleFacts
  <2>3. rows[First(tasks[t].todo)[1]].key \in Keys
    BY <2>2, RowFacts
  <2>4. ChargesKept
    BY <1>6, <2>3, CancelSame
  <2> QED
    BY <1>2, <1>3, <2>4, QuietKeeps
<1>7. CASE StartCreate(t)
  <2> DEFINE k == <<1, tasks[t].kind>>
  <2>1. k \in Keys
    BY <1>4, CheckoutAssumption DEF Keys
  <2>2. intents[k].status = "absent" /\ intents' = [intents EXCEPT ![k].status = "open"]
    BY <1>7, <2>1 DEF CheckoutIInv, TasksOK, StartOK
  <2> HIDE DEF k
  <2> QED
    BY <1>2, <1>3, <2>1, <2>2, ChargesSame, QuietKeeps
<1>8. CASE ResumeCreate(t)
  <2> DEFINE k == <<tasks[t].n + 1, tasks[t].kind>>
  <2>1. k \in Keys
    <3>1. tasks[t].n \in Nat /\ tasks[t].n < MaxIntents
      BY <1>4, <1>8, ResumeFacts DEF TaskType, RowIds, At, ResumeOK, CheckoutIInv, TasksOK
    <3> QED
      BY <1>4, <3>1, CheckoutAssumption DEF Keys
  <2>2. intents' = [intents EXCEPT ![k].status = IF @ = "absent" THEN "open" ELSE @]
    BY <1>8
  <2> HIDE DEF k
  <2>3. CASE intents[k].status = "absent"
    BY <1>2, <1>3, <2>1, <2>2, <2>3, ChargesSame, QuietKeeps
  <2>4. CASE intents[k].status # "absent"
    <3>1. \A j \in Keys : intents'[j].status = intents[j].status
      BY <1>4, <2>1, <2>2, <2>4 DEF IntentsType
    <3>2. ChargesKept
      BY <3>1 DEF ChargesKept
    <3> QED
      BY <1>2, <1>3, <3>2, QuietKeeps
  <2> QED
    BY <2>3, <2>4
<1>9. CASE intents' = intents
  <2>1. ChargesKept
    BY <1>9 DEF ChargesKept
  <2> QED
    BY <1>2, <1>3, <2>1, QuietKeeps
<1> QED
  BY <1>5, <1>6, <1>7, <1>8, <1>9
  DEF Begin, BeginReconcile, BeginAbandon, BeginSettle, BeginResume, Drop, Look, ResumeRetrieve,
      ResumeConflict, ResumeAgain, SettlePass

\* The steps that put a payment row in, or close one without a record.
LEMMA RowStep ==
  ASSUME CheckoutIInv, NEW t \in Tasks,
         StartInsert(t) \/ StartFails(t) \/ ResumeInsert(t) \/ AbandonWrite(t) \/ SettleMark(t)
  PROVE  PromiseStep
<1>1. RowsKept
  BY StartInsertOK, StartFailsOK, ResumeInsertOK, AbandonWriteOK, SettleMarkOK
<1>2. /\ rows \in Seq(RowType) /\ intents \in IntentsType /\ tasks[t] \in TaskType
      /\ tasks[t].key \in Keys /\ tasks[t].kind \in Kinds
  BY RowFacts DEF TaskType
<1>3. ASSUME NEW k \in Keys, intents' \in {intents, [intents EXCEPT ![k].shown = TRUE]}
      PROVE  ChargesKept
  <2>1. \A j \in Keys : intents'[j].status = intents[j].status
    BY <1>2, <1>3 DEF IntentsType
  <2> QED
    BY <2>1 DEF ChargesKept
<1>4. ASSUME NEW old \in Seq(RowType), NEW k \in Keys, rows' = Append(old, NewRow(k)),
             DOMAIN old = DOMAIN rows, \A i \in DOMAIN rows : old[i].status \in {rows[i].status, "canceled"}
      PROVE  RecordKept
  <2>1. NewRow(k).status = "open"
    BY DEF NewRow
  <2>2. /\ DOMAIN rows' = DOMAIN rows \cup {Len(old) + 1} /\ rows'[Len(old) + 1] = NewRow(k)
        /\ \A i \in DOMAIN rows : rows'[i] = old[i]
    BY <1>4
  <2> QED
    BY <1>1, <1>4, <2>1, <2>2, RecordSame
<1>5. CASE StartInsert(t)
  <2>1. RecordKept
    BY <1>2, <1>4, <1>5 DEF StartInsert
  <2>2. ChargesKept /\ booking' = booking
    BY <1>2, <1>3, <1>5 DEF StartInsert
  <2> QED
    BY <2>1, <2>2, QuietKeeps
<1>6. CASE StartFails(t)
  <2> DEFINE k == <<1, tasks[t].kind>>
  <2>1. k \in Keys
    BY <1>2, CheckoutAssumption DEF Keys
  <2>2. PICK done \in BOOLEAN :
          /\ intents' = IF done /\ tasks[t].pc = "create"
                        THEN [intents EXCEPT ![k].status = "open"] ELSE intents
          /\ rows' = IF done /\ tasks[t].pc = "insert" THEN Append(rows, NewRow(tasks[t].key)) ELSE rows
    BY <1>6 DEF StartFails
  <2>3. tasks[t].op = "start" /\ booking' = booking
    BY <1>6 DEF StartFails
  <2> HIDE DEF k
  <2>4. RecordKept
    <3>1. CASE rows' = rows
      BY <3>1 DEF RecordKept, HasRow
    <3>2. CASE rows' = Append(rows, NewRow(tasks[t].key))
      BY <1>2, <1>4, <3>2
    <3> QED
      BY <2>2, <3>1, <3>2
  <2>5. ChargesKept
    <3>1. CASE done /\ tasks[t].pc = "create"
      <4>1. intents[k].status = "absent"
        BY <2>1, <2>3, <3>1 DEF CheckoutIInv, TasksOK, StartOK, At
      <4> QED
        BY <2>1, <2>2, <3>1, <4>1, ChargesSame
    <3>2. CASE ~ (done /\ tasks[t].pc = "create")
      BY <2>2, <3>2 DEF ChargesKept
    <3> QED
      BY <3>1, <3>2
  <2> QED
    BY <2>3, <2>4, <2>5, QuietKeeps
<1>7. CASE ResumeInsert(t)
  <2> DEFINE marked == MarkCanceled(rows, tasks[t].row)
             k == tasks[t].key
  <2>1. /\ marked \in Seq(RowType) /\ DOMAIN marked = DOMAIN rows
        /\ \A i \in DOMAIN rows :
             marked[i].status = IF i = tasks[t].row /\ rows[i].status = "open" THEN "canceled"
                                ELSE rows[i].status
    BY <1>2, MarkCanceledFacts
  <2>2. /\ booking' = booking /\ rows' \in {rows, Append(marked, NewRow(k))}
        /\ intents' \in {intents, [intents EXCEPT ![k].shown = TRUE]}
    BY <1>7 DEF ResumeInsert
  <2> HIDE DEF marked, k
  <2>3. RecordKept
    <3>1. CASE rows' = rows
      BY <3>1 DEF RecordKept, HasRow
    <3>2. CASE rows' = Append(marked, NewRow(k))
      BY <1>2, <1>4, <2>1, <3>2 DEF k
    <3> QED
      BY <2>2, <3>1, <3>2
  <2>4. ChargesKept
    BY <1>2, <1>3, <2>2 DEF k
  <2> QED
    BY <2>2, <2>3, <2>4, QuietKeeps
<1>8. CASE AbandonWrite(t)
  <2>1. /\ intents' = intents /\ rows' \in {rows, MarkCanceled(rows, tasks[t].row)}
        /\ booking' = ExpireOne(booking)
    BY <1>8 DEF AbandonWrite
  <2>2. \A i \in DOMAIN rows' : i \in DOMAIN rows /\ rows'[i].status \in {rows[i].status, "canceled"}
    BY <1>2, <2>1, MarkCanceledFacts
  <2>3. RecordKept
    BY <1>1, <2>2, RecordSame
  <2> QED
    BY <2>1, <2>3, QuietKeeps DEF ChargesKept, ExpireOne
<1>9. CASE SettleMark(t)
  <2> DEFINE i == First(tasks[t].todo)[1]
  <2>1. /\ intents' = intents /\ rows' \in {MarkCanceled(rows, i), Released(rows, i)} /\ booking' = booking
    BY <1>9 DEF SettleMark
  <2>2. i \in DOMAIN rows
    BY <1>9, SettleFacts DEF SettleMark, At
  <2>3. rows[i] \in RowType /\ DOMAIN rows = 1 .. Len(rows)
    BY <2>2, RowFacts
  <2> HIDE DEF i
  <2>4. \A j \in DOMAIN rows' : j \in DOMAIN rows /\ rows'[j].status \in {rows[j].status, "canceled"}
    <3>1. CASE rows' = MarkCanceled(rows, i)
      BY <1>2, <2>2, <3>1, MarkCanceledFacts
    <3>2. CASE rows' = Released(rows, i)
      BY <2>2, <2>3, <3>2 DEF Released, RowType
    <3> QED
      BY <2>1, <3>1, <3>2
  <2>5. RecordKept
    BY <1>1, <2>4, RecordSame
  <2> QED
    BY <2>1, <2>5, QuietKeeps DEF ChargesKept
<1> QED
  BY <1>5, <1>6, <1>7, <1>8, <1>9

\* Beside an intent that can still be confirmed no other takes money, and while it is a payment that has
\* not, nothing is on record.
LEMMA LiveAlone ==
  ASSUME CheckoutIInv, NEW k \in Keys, intents[k].shown, intents[k].status # "canceled"
  PROVE  /\ \A j \in Keys : j # k => intents[j].status \notin {"processing", "succeeded"}
         /\ Kind(k) = "pay" => ~ HasRow("checked")
         /\ Kind(k) = "pay" /\ intents[k].status # "succeeded" => ~ HasRow("paid")
<1>1. PICK i \in DOMAIN rows : rows[i].key = k /\ rows[i].status # "canceled"
  BY LiveIntent
<1>2. \A j \in DOMAIN rows : rows[j].status # "canceled" => j = i
  BY <1>1 DEF CheckoutIInv, RowsOK
<1>3. ASSUME NEW j \in Keys, j # k, intents[j].status \in {"processing", "succeeded"} PROVE FALSE
  <2>1. intents[j].shown /\ intents[j].status # "canceled"
    BY <1>3 DEF CheckoutIInv, IntentsOK
  <2>2. PICK b \in DOMAIN rows : rows[b].key = j /\ rows[b].status # "canceled"
    BY <2>1, LiveIntent
  <2> QED
    BY <1>1, <1>2, <1>3, <2>2
<1>4. HasRow("checked") => rows[i].status = "checked"
  BY <1>2 DEF HasRow
<1>5. HasRow("paid") => rows[i].status = "paid"
  BY <1>2 DEF HasRow
<1> QED
  BY <1>1, <1>3, <1>4, <1>5 DEF CheckoutIInv, RowsOK, Kind

\* A browser that pays begins the one charge, a bank ends or takes it; a check is no charge.
LEMMA StripeStep ==
  ASSUME CheckoutIInv, Stripe PROVE PromiseStep
<1>1. PICK k \in Keys : Confirm(k) \/ BankAccepts(k) \/ BankDeclines(k) \/ StripeCancels(k)
  BY DEF Stripe
<1>2. intents \in IntentsType /\ intents[k].status \in IntentStatuses /\ Kind(k) \in Kinds
  BY RowFacts DEF IntentsType, Keys, Kind
<1>3. PICK status : /\ intents' = [intents EXCEPT ![k].status = status]
                    /\ rows' = rows /\ booking' = booking
                    /\ \/ /\ intents[k].shown /\ intents[k].status = "open"
                          /\ status = "processing" \/ Landed(k, status)
                       \/ intents[k].status = "processing" /\ (status = "open" \/ Landed(k, status))
                       \/ intents[k].status \in {"open", "requires_capture"} /\ status = "canceled"
  <2> USE DEF SetIntent, Landed
  <2>1. CASE Confirm(k) BY <2>1 DEF Confirm
  <2>2. CASE BankAccepts(k) BY <2>2 DEF BankAccepts
  <2>3. CASE BankDeclines(k) BY <2>3 DEF BankDeclines
  <2>4. CASE StripeCancels(k) BY <2>4 DEF StripeCancels
  <2> QED
    BY <1>1, <2>1, <2>2, <2>3, <2>4
<1>4. intents'[k].status = status /\ \A j \in Keys : j # k => intents'[j].status = intents[j].status
  BY <1>2, <1>3 DEF IntentsType
<1>5. RecordKept /\ RecordOf' = RecordOf
  BY <1>3 DEF RecordKept, RecordOf, HasRow
<1>6. CASE Kind(k) # "pay"
  <2>1. Payments("processing")' = Payments("processing") /\ Payments("succeeded")' = Payments("succeeded")
    BY <1>4, <1>6 DEF Payments
  <2> QED
    BY <1>3, <1>5, <2>1 DEF PromiseStep
<1>7. CASE Kind(k) = "pay" /\ status = "canceled"
  <2>1. ChargesKept
    BY <1>3, <1>7, ChargesSame DEF Landed
  <2> QED
    BY <1>3, <1>5, <2>1, QuietKeeps
<1>8. CASE Kind(k) = "pay" /\ status # "canceled"
  <2>1. intents[k].shown /\ intents[k].status \in {"open", "processing"}
    BY <1>3, <1>8 DEF CheckoutIInv, IntentsOK
  <2>2. /\ \A j \in Keys : j # k => intents[j].status \notin {"processing", "succeeded"}
        /\ RecordOf = "none"
    BY <1>8, <2>1, LiveAlone DEF RecordOf
  <2>3. status \in {"open", "processing", "succeeded"}
    BY <1>3, <1>8 DEF Landed
  <2>4. \A s \in {"processing", "succeeded"} :
          /\ Payments(s) = IF intents[k].status = s THEN {k} ELSE {}
          /\ Payments(s)' = IF status = s THEN {k} ELSE {}
    BY <1>4, <1>8, <2>2 DEF Payments
  <2>5. CASE intents[k].status = "open"
    <3>1. Payments("processing") = {} /\ Payments("succeeded") = {} /\ status \in {"processing", "succeeded"}
      BY <1>3, <1>8, <2>4, <2>5 DEF Landed
    <3>2. Promise!Pay(k)
      BY <1>3, <1>5, <2>2, <2>4, <3>1 DEF Promise!Pay, Promise!Nothing
    <3> QED
      BY <1>8, <3>2 DEF PromiseStep, Promise!Next
  <2>6. CASE intents[k].status = "processing"
    <3>1. Payments("processing") = {k} /\ Payments("succeeded") = {} /\ status \in {"open", "succeeded"}
      BY <1>3, <1>8, <2>4, <2>6 DEF Landed
    <3>2. Promise!Accept \/ Promise!Decline
      BY <1>3, <1>5, <2>2, <2>4, <3>1 DEF Promise!Accept, Promise!Decline
    <3> QED
      BY <3>2 DEF PromiseStep, Promise!Next
  <2> QED
    BY <2>1, <2>5, <2>6
<1> QED
  BY <1>6, <1>7, <1>8

\* What has landed is put on record, and books the slot in the same step or not at all.
LEMMA ReconcileRecords ==
  ASSUME CheckoutIInv, NEW t \in Tasks, Reconcile(t) PROVE PromiseStep
<1>1. RowsKept /\ intents' = intents
  BY ReconcileStepOK DEF Reconcile
<1>2. ChargesKept /\ Payments("processing")' = Payments("processing")
      /\ Payments("succeeded")' = Payments("succeeded")
  BY <1>1 DEF ChargesKept, Payments
<1>3. PICK i \in DOMAIN rows, runs \in HoldRuns :
        /\ rows[i].key = tasks[t].key
        /\ rows' = Reconciled(rows, i, tasks[t].seen, runs, booking).rows
        /\ booking' = Reconciled(rows, i, tasks[t].seen, runs, booking).booking
  BY DEF Reconcile
<1> DEFINE k == rows[i].key
           seen == tasks[t].seen
<1>4. /\ rows \in Seq(RowType) /\ DOMAIN rows = 1 .. Len(rows) /\ rows[i] \in RowType /\ k \in Keys
      /\ Kind(k) \in Kinds
  BY RowFacts DEF Kind, Keys
<1>5. CASE rows[i].status = "open" /\ Landed(k, seen)
  <2> DEFINE status == IF Kind(k) = "check" THEN "checked" ELSE "paid"
  <2>1. /\ rows' = [rows EXCEPT ![i].status = status]
        /\ booking' = booking \/ (booking = "awaiting_payment" /\ booking' = "booked")
    <3> DEFINE booked == IF runs /\ booking = "awaiting_payment" THEN "booked" ELSE booking
    <3>1. rows' = [rows EXCEPT ![i].status = status] /\ booking' = booked
      BY <1>3, <1>5, ReconciledLanded
    <3>2. booked = booking \/ (booking = "awaiting_payment" /\ booked = "booked")
      OBVIOUS
    <3> QED
      BY <3>1, <3>2
  <2>2. status \in {"checked", "paid"}
    OBVIOUS
  <2>3. /\ DOMAIN rows' = DOMAIN rows /\ rows'[i].status = status
        /\ \A j \in DOMAIN rows : j # i => rows'[j] = rows[j] /\ rows[j].status = "canceled"
    BY <1>4, <1>5, <2>1 DEF RowType, CheckoutIInv, RowsOK
  <2>4. RecordOf = "none" /\ RecordOf' = status
    <3>1. ~ HasRow("paid") /\ ~ HasRow("checked")
      BY <1>5, <2>3 DEF HasRow
    <3>2. \A s \in {"checked", "paid"} : HasRow(s)' <=> s = status
      BY <2>2, <2>3 DEF HasRow
    <3> QED
      BY <3>1, <3>2 DEF RecordOf
  <2>5. CASE Kind(k) = "check"
    <3>1. ASSUME NEW j \in Keys, Kind(j) = "pay", intents[j].status \in {"processing", "succeeded"}
          PROVE  FALSE
      <4>1. PICK b \in DOMAIN rows : rows[b].key = j /\ rows[b].status # "canceled"
        BY <3>1, LiveIntent DEF CheckoutIInv, IntentsOK
      <4> QED
        BY <2>3, <2>5, <3>1, <4>1
    <3>2. Payments("processing") = {} /\ Payments("succeeded") = {}
      BY <3>1 DEF Payments
    <3>3. Promise!Record
      BY <1>2, <2>1, <2>4, <2>5, <3>2 DEF Promise!Record, Promise!Nothing
    <3> QED
      BY <3>3 DEF PromiseStep, Promise!Next
  <2>6. CASE Kind(k) = "pay"
    <3>1. seen = "succeeded" /\ tasks[t].pc = "reconcile"
      BY <1>5, <2>6 DEF Landed, Reconcile
    <3>2. intents[k].status = "succeeded"
      BY <1>3, <3>1 DEF CheckoutIInv, TasksOK, ReconcileOK
    <3>3. Payments("succeeded") # {}
      BY <1>4, <2>6, <3>2 DEF Payments
    <3>4. Promise!Record
      BY <1>2, <2>1, <2>4, <2>6, <3>3 DEF Promise!Record
    <3> QED
      BY <3>4 DEF PromiseStep, Promise!Next
  <2> QED
    BY <1>4, <2>5, <2>6 DEF Kinds
<1>6. CASE ~ (rows[i].status = "open" /\ Landed(k, seen))
  <2>1. booking' = booking /\ rows' \in {rows, MarkCanceled(rows, i)}
    BY <1>3, <1>6 DEF Reconciled
  <2>2. \A j \in DOMAIN rows' : j \in DOMAIN rows /\ rows'[j].status \in {rows[j].status, "canceled"}
    BY <1>4, <2>1, MarkCanceledFacts
  <2>3. RecordKept
    BY <1>1, <2>2, RecordSame
  <2> QED
    BY <1>2, <2>1, <2>3, QuietKeeps
<1> QED
  BY <1>5, <1>6

\* Every step of start, resume, abandon, reconcile and settle, of any number of handlers at once, of the
\* sweep and of Stripe is a step of module OneCharge, or none: the client is charged once at the most and
\* not at all beside a checked card, and the slot is booked with what was recorded or never.
THEOREM ClientIsChargedOnce == Spec => KeepsToOneCharge
<1>1. Init => Promise!Init
  <2> SUFFICES ASSUME Init PROVE Promise!Init
    OBVIOUS
  <2>1. DOMAIN rows = {} /\ booking = "awaiting_payment" /\ \A k \in Keys : intents[k].status = "absent"
    BY DEF Init
  <2>2. RecordOf = "none" /\ Payments("processing") = {} /\ Payments("succeeded") = {}
    BY <2>1 DEF RecordOf, HasRow, Payments
  <2> QED
    BY <2>1, <2>2 DEF Promise!Init
<1>2. ASSUME CheckoutIInv, [Next]_vars PROVE PromiseStep
  <2>1. ASSUME NEW t \in Tasks, Begin(t) \/ Step(t) \/ StartFails(t) \/ Drop(t) PROVE PromiseStep
    BY <1>2, <2>1, NoRowStep, RowStep, ReconcileRecords DEF Step
  <2>2. CASE HoldLapses \/ HoldIsOver \/ Sweep
    <3>1. /\ rows' = rows /\ intents' = intents
          /\ booking' = booking \/ (booking = "awaiting_payment" /\ booking' = "expired")
      BY <2>2 DEF HoldLapses, HoldIsOver, Sweep
    <3> QED
      BY <3>1, QuietKeeps DEF ChargesKept, RecordKept, HasRow
  <2>3. CASE UNCHANGED vars
    <3>1. rows' = rows /\ intents' = intents /\ booking' = booking
      BY <2>3 DEF vars
    <3> QED
      BY <3>1, QuietKeeps DEF ChargesKept, RecordKept, HasRow
  <2> QED
    BY <1>2, <2>1, <2>2, <2>3, StripeStep DEF Next
<1> QED
  BY <1>1, <1>2, CheckoutInvariant, PTL DEF Spec, KeepsToOneCharge, Promise!Spec, PromiseStep

=============================================================================
