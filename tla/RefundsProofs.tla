--------------------------- MODULE RefundsProofs ---------------------------
(***************************************************************************)
(* The safety of the refunds, for any number of jobs at a time, any amount  *)
(* and any number of faults: a booking's client is never sent more than the *)
(* ending owes, each failure is told once, and no shortfall is forgotten.   *)
(***************************************************************************)
EXTENDS Refunds, FiniteSetTheorems, TLAPS

-----------------------------------------------------------------------------
(* The inductive invariant *)

RefundType == [amount : 1 .. Amount, ours : BOOLEAN, failed : BOOLEAN]

Ours == {i \in DOMAIN refunds : refunds[i].ours}

ByHand == {i \in DOMAIN refunds : ~ refunds[i].ours}

\* What settle sent and Stripe keeps.
OursKept == AmountOf({i \in DOMAIN refunds : refunds[i].ours /\ ~ refunds[i].failed})

NoneFailed == \A i \in DOMAIN refunds : ~ refunds[i].failed

Told(i) == \E j \in DOMAIN told : told[j] = i

\* An event job will tell of refund i.
WillTell(t, i) ==
  /\ tasks[t].op = "event" /\ tasks[t].refund = i
  /\ tasks[t].pc = "read_refund" \/ tasks[t].failed

\* Stripe's charge: never more sent back than was paid, and every refund of settle's but the first
\* makes good for a fault.
ChargeOK ==
  /\ AmountRefunded <= Amount
  /\ Cardinality(ByHand) <= MaxByHand
  /\ Cardinality(Ours) <= faults + 1
  /\ AmountRefunded < Due => Cardinality(Ours) <= faults

\* A job that is to ask for a refund, and will be the first to, saw all that settle sent so far.
AsksOK(t) ==
  tasks[t].pc = "refund" =>
    /\ tasks[t].seen < Due
    /\ ~ key.answered => /\ OursKept <= tasks[t].seen
                         /\ Cardinality(Ours) <= faults
                         /\ AmountRefunded < tasks[t].seen => Cardinality(Ours) < faults

\* Which jobs are where, and with which refund.
PlaceOK(t) ==
  /\ tasks[t].op = "event" => tasks[t].pc \in {"read_refund", "read_charge", "write"}
  /\ tasks[t].pc \in {"read_refund", "read_charge", "write"} => tasks[t].refund # 0
  /\ tasks[t].pc \in {"retrieve", "refund", "again"} => tasks[t].refund = 0
  /\ tasks[t].refund \in DOMAIN refunds \cup {0}

\* What a job saw is so, or more was sent since, unless a refund failed; and what it records as sent
\* is.
SawOK(t) ==
  /\ NoneFailed => tasks[t].seen <= AmountRefunded
  /\ NoneFailed /\ tasks[t].pc = "record" /\ tasks[t].refund # 0 => AmountRefunded >= Due
  /\ tasks[t].pc = "record" /\ tasks[t].refund = 0 /\ ~ tasks[t].refused =>
       tasks[t].seen >= Due \/ ending.held

JobsOK == \A t \in Tasks : AsksOK(t) /\ PlaceOK(t) /\ SawOK(t)

KeyOK ==
  /\ key.refund \in DOMAIN refunds \cup {0}
  /\ NoneFailed /\ key.refund # 0 => AmountRefunded >= Due

\* A refund that failed was told, or a job is to tell it.
FailuresKnown ==
  \A i \in DOMAIN refunds : refunds[i].failed => Told(i) \/ i \in events \/ \E t \in Tasks : WillTell(t, i)

RowOK ==
  /\ row.settled => row.refunded_minor = Due
  /\ Told(0) => row.settled
  /\ NoneFailed /\ row.settled /\ told = <<>> /\ AmountRefunded < Due => row.flag

RefundsIInv ==
  /\ TypeOK /\ ChargeOK /\ NeverRefundedTwice /\ JobsOK /\ KeyOK
  /\ events \subseteq DOMAIN refunds /\ FailuresKnown /\ RowOK /\ ToldOnce

-----------------------------------------------------------------------------
(* Amounts *)

AmountIn(rs, ids) == Cardinality({u \in ids \X (1 .. Amount) : u[2] <= rs[u[1]].amount})

\* An amount over finitely many refunds is a number.
LEMMA AmountFacts ==
  ASSUME NEW rs, NEW ids, IsFiniteSet(ids)
  PROVE  /\ IsFiniteSet({u \in ids \X (1 .. Amount) : u[2] <= rs[u[1]].amount})
         /\ AmountIn(rs, ids) \in Nat
<1>1. IsFiniteSet(1 .. Amount)
  BY RefundsAssumption, FS_Interval
<1>2. IsFiniteSet(ids \X (1 .. Amount))
  BY <1>1, FS_Product
<1>3. IsFiniteSet({u \in ids \X (1 .. Amount) : u[2] <= rs[u[1]].amount})
  BY <1>2, FS_Subset
<1> QED
  BY <1>3, FS_CardinalityType DEF AmountIn

\* Fewer refunds are no more money.
LEMMA AmountGrows ==
  ASSUME NEW rs, NEW ids, IsFiniteSet(ids), NEW some \in SUBSET ids
  PROVE  AmountIn(rs, some) <= AmountIn(rs, ids)
<1>1. {u \in some \X (1 .. Amount) : u[2] <= rs[u[1]].amount} \subseteq
        {u \in ids \X (1 .. Amount) : u[2] <= rs[u[1]].amount}
  OBVIOUS
<1> QED
  BY <1>1, AmountFacts, FS_Subset DEF AmountIn

\* The amount depends on the amounts alone.
LEMMA AmountSame ==
  ASSUME NEW rs, NEW new, NEW ids, \A i \in ids : new[i].amount = rs[i].amount
  PROVE  AmountIn(new, ids) = AmountIn(rs, ids)
<1>1. {u \in ids \X (1 .. Amount) : u[2] <= new[u[1]].amount} =
        {u \in ids \X (1 .. Amount) : u[2] <= rs[u[1]].amount}
  OBVIOUS
<1> QED
  BY <1>1 DEF AmountIn

\* The units of one refund are as many as its amount.
LEMMA ColumnSize ==
  ASSUME NEW n, NEW a \in Nat
  PROVE  IsFiniteSet({n} \X (1 .. a)) /\ Cardinality({n} \X (1 .. a)) = a
<1>1. IsFiniteSet({n}) /\ Cardinality({n}) = 1
  BY FS_Singleton
<1>2. IsFiniteSet(1 .. a) /\ Cardinality(1 .. a) = IF 1 > a THEN 0 ELSE a - 1 + 1
  BY FS_Interval
<1>3. Cardinality(1 .. a) = a
  BY <1>2
<1>4. /\ IsFiniteSet({n} \X (1 .. a))
      /\ Cardinality({n} \X (1 .. a)) = Cardinality({n}) * Cardinality(1 .. a)
  BY <1>1, <1>2, FS_Product
<1> QED
  BY <1>1, <1>3, <1>4

\* One more refund adds its amount.
LEMMA AmountAdded ==
  ASSUME NEW rs, NEW ids, IsFiniteSet(ids), NEW n, n \notin ids, rs[n].amount \in 0 .. Amount
  PROVE  AmountIn(rs, ids \cup {n}) = AmountIn(rs, ids) + rs[n].amount
<1> DEFINE a == rs[n].amount
           Before == {u \in ids \X (1 .. Amount) : u[2] <= rs[u[1]].amount}
           After == {u \in (ids \cup {n}) \X (1 .. Amount) : u[2] <= rs[u[1]].amount}
           More == {n} \X (1 .. a)
<1>1. Amount \in Nat /\ a \in Nat /\ a <= Amount
  BY RefundsAssumption
<1>2. IsFiniteSet(More) /\ Cardinality(More) = a
  BY <1>1, ColumnSize
<1>3. After = Before \cup More
  <2>1. \A u \in After : u \in Before \cup More
    BY <1>1
  <2>2. \A u \in Before : u \in After
    OBVIOUS
  <2>3. \A u \in More : u \in After
    BY <1>1
  <2> QED
    BY <2>1, <2>2, <2>3
<1>4. Before \cap More = {}
  OBVIOUS
<1>5. IsFiniteSet(Before) /\ Cardinality(Before) \in Nat
  BY AmountFacts, FS_CardinalityType
<1> HIDE DEF Before, After, More, a
<1>6. Cardinality(After) = Cardinality(Before) + Cardinality(More) - Cardinality(Before \cap More)
  BY <1>2, <1>3, <1>5, FS_Union
<1>7. Cardinality(Before \cap More) = 0
  BY <1>4, FS_EmptySet
<1>8. Cardinality(After) = Cardinality(Before) + a
  BY <1>1, <1>2, <1>5, <1>6, <1>7
<1> QED
  BY <1>8 DEF AmountIn, Before, After, a

\* What is owed is part of what was paid.
LEMMA DueFacts ==
  ASSUME TypeOK
  PROVE  Due \in 0 .. Amount
<1>1. ending.pct \in 0 .. 100 /\ Amount \in Nat
  BY RefundsAssumption DEF TypeOK
<1>2. \A p \in 0 .. 100 : (Amount * p) \div 100 \in 0 .. Amount
  <2> SUFFICES ASSUME NEW p \in 0 .. 100
               PROVE  (Amount * p) \div 100 \in 0 .. Amount
    OBVIOUS
  <2> DEFINE x == Amount * p
  <2>1. x \in Nat /\ x <= Amount * 100
    <3>1. x + Amount * (100 - p) = Amount * 100
      BY <1>1
    <3>2. \A a, b \in Nat : a * b \in Nat
      OBVIOUS
    <3>3. x \in Nat /\ Amount * (100 - p) \in Nat
      BY <1>1, <3>2
    <3> QED
      BY <3>1, <3>3, <1>1
  <2> HIDE DEF x
  <2>2. x \div 100 \in 0 .. Amount
    BY <1>1, <2>1
  <2> QED
    BY <2>2 DEF x
<1> QED
  BY <1>1, <1>2 DEF Due

-----------------------------------------------------------------------------
(* The refunds on the charge *)

\* The refunds of a charge are finitely many, and what settle sent of them is part of what was sent.
LEMMA ChargeFacts ==
  ASSUME TypeOK
  PROVE  /\ refunds \in Seq(RefundType) /\ Len(refunds) \in Nat /\ DOMAIN refunds = 1 .. Len(refunds)
         /\ IsFiniteSet(DOMAIN refunds) /\ IsFiniteSet(Ours) /\ IsFiniteSet(ByHand)
         /\ AmountRefunded \in Nat /\ OursKept \in Nat /\ OursKept <= AmountRefunded
         /\ Cardinality(Ours) \in Nat /\ Cardinality(ByHand) \in Nat
         /\ Due \in 0 .. Amount /\ Amount \in Nat /\ faults \in Nat
         /\ \A i \in DOMAIN refunds : /\ refunds[i] \in RefundType /\ refunds[i].amount \in 1 .. Amount
                                      /\ refunds[i].ours \in BOOLEAN /\ refunds[i].failed \in BOOLEAN
<1>1. refunds \in Seq(RefundType)
  BY DEF TypeOK, RefundType
<1>2. /\ Len(refunds) \in Nat /\ DOMAIN refunds = 1 .. Len(refunds)
      /\ \A i \in DOMAIN refunds : refunds[i] \in RefundType
  BY <1>1
<1>3. IsFiniteSet(DOMAIN refunds)
  BY <1>2, FS_Interval
<1>4. IsFiniteSet(Ours) /\ IsFiniteSet(ByHand)
  BY <1>3, FS_Subset DEF Ours, ByHand
<1> DEFINE live == {i \in DOMAIN refunds : ~ refunds[i].failed}
           kept == {i \in DOMAIN refunds : refunds[i].ours /\ ~ refunds[i].failed}
<1>5. IsFiniteSet(live) /\ kept \subseteq live
  BY <1>3, FS_Subset
<1>6. IsFiniteSet(kept)
  BY <1>5, FS_Subset
<1>7. AmountRefunded = AmountIn(refunds, live) /\ OursKept = AmountIn(refunds, kept)
  BY DEF AmountRefunded, OursKept, AmountOf, AmountIn
<1>8. AmountRefunded \in Nat /\ OursKept \in Nat /\ OursKept <= AmountRefunded
  BY <1>5, <1>6, <1>7, AmountFacts, AmountGrows
<1>9. Cardinality(Ours) \in Nat /\ Cardinality(ByHand) \in Nat
  BY <1>4, FS_CardinalityType
<1>10. \A i \in DOMAIN refunds : /\ refunds[i].amount \in 1 .. Amount
                                 /\ refunds[i].ours \in BOOLEAN /\ refunds[i].failed \in BOOLEAN
  BY <1>2 DEF RefundType
<1> QED
  BY <1>1, <1>2, <1>3, <1>4, <1>8, <1>9, <1>10, DueFacts, RefundsAssumption DEF TypeOK

\* Steps that leave the charge alone.
LEMMA ChargeAlone ==
  ASSUME UNCHANGED <<refunds, ending>>
  PROVE  /\ AmountRefunded' = AmountRefunded /\ OursKept' = OursKept /\ Due' = Due
         /\ Ours' = Ours /\ ByHand' = ByHand /\ NoneFailed' = NoneFailed
         /\ Cardinality(Ours)' = Cardinality(Ours) /\ Cardinality(ByHand)' = Cardinality(ByHand)
BY DEF AmountRefunded, OursKept, AmountOf, Due, Ours, ByHand, NoneFailed

\* A new refund adds its amount, and one to the refunds of its kind.
LEMMA ChargeAdded ==
  ASSUME TypeOK, NEW amount \in 1 .. Amount, NEW ours \in BOOLEAN, NewRefund(amount, ours),
         ending' = ending
  PROVE  /\ refunds' \in Seq(RefundType) /\ Len(refunds') = Len(refunds) + 1
         /\ DOMAIN refunds' = DOMAIN refunds \cup {Len(refunds) + 1}
         /\ Len(refunds) + 1 \notin DOMAIN refunds
         /\ \A i \in DOMAIN refunds : refunds'[i] = refunds[i]
         /\ AmountRefunded' = AmountRefunded + amount
         /\ OursKept' = IF ours THEN OursKept + amount ELSE OursKept
         /\ Cardinality(Ours)' = IF ours THEN Cardinality(Ours) + 1 ELSE Cardinality(Ours)
         /\ Cardinality(ByHand)' = IF ours THEN Cardinality(ByHand) ELSE Cardinality(ByHand) + 1
         /\ Due' = Due /\ (NoneFailed' <=> NoneFailed)
         /\ ~ refunds'[Len(refunds) + 1].failed
<1> DEFINE new == [amount |-> amount, ours |-> ours, failed |-> FALSE]
           n == Len(refunds) + 1
<1>1. /\ refunds \in Seq(RefundType) /\ Len(refunds) \in Nat /\ DOMAIN refunds = 1 .. Len(refunds)
      /\ IsFiniteSet(DOMAIN refunds) /\ IsFiniteSet(Ours) /\ IsFiniteSet(ByHand)
  BY ChargeFacts
<1>2. new \in RefundType /\ new.amount = amount /\ new.ours = ours /\ new.failed = FALSE
  BY DEF RefundType
<1>3. refunds' = Append(refunds, new)
  BY DEF NewRefund
<1> HIDE DEF new
<1>4. /\ refunds' \in Seq(RefundType) /\ Len(refunds') = n /\ DOMAIN refunds' = DOMAIN refunds \cup {n}
      /\ n \notin DOMAIN refunds
      /\ refunds'[n] = new /\ \A i \in DOMAIN refunds : refunds'[i] = refunds[i]
  BY <1>1, <1>2, <1>3
<1> HIDE DEF n
<1> DEFINE live == {i \in DOMAIN refunds : ~ refunds[i].failed}
           kept == {i \in DOMAIN refunds : refunds[i].ours /\ ~ refunds[i].failed}
<1>5. live' = live \cup {n} /\ kept' = IF ours THEN kept \cup {n} ELSE kept
  BY <1>2, <1>4
<1>6. Ours' = IF ours THEN Ours \cup {n} ELSE Ours
  BY <1>2, <1>4 DEF Ours
<1>7. ByHand' = IF ours THEN ByHand ELSE ByHand \cup {n}
  BY <1>2, <1>4 DEF ByHand
<1>8. n \notin live /\ n \notin kept /\ n \notin Ours /\ n \notin ByHand
  BY <1>4 DEF Ours, ByHand
<1>9. /\ AmountRefunded = AmountIn(refunds, live) /\ OursKept = AmountIn(refunds, kept)
      /\ AmountRefunded' = AmountIn(refunds', live') /\ OursKept' = AmountIn(refunds', kept')
  BY DEF AmountRefunded, OursKept, AmountOf, AmountIn
<1>10. IsFiniteSet(live) /\ IsFiniteSet(kept) /\ live \subseteq DOMAIN refunds /\ kept \subseteq DOMAIN refunds
  BY <1>1, FS_Subset
<1> HIDE DEF live, kept
<1>11. /\ AmountIn(refunds', live) = AmountIn(refunds, live)
       /\ AmountIn(refunds', kept) = AmountIn(refunds, kept)
  BY <1>4, <1>10, AmountSame
<1>12. refunds'[n].amount = amount /\ amount \in 0 .. Amount
  BY <1>2, <1>4
<1>13. /\ AmountIn(refunds', live \cup {n}) = AmountIn(refunds', live) + amount
       /\ AmountIn(refunds', kept \cup {n}) = AmountIn(refunds', kept) + amount
  BY <1>8, <1>10, <1>12, AmountAdded
<1>14. AmountRefunded' = AmountRefunded + amount
  BY <1>5, <1>9, <1>11, <1>13
<1>15. OursKept' = IF ours THEN OursKept + amount ELSE OursKept
  BY <1>5, <1>9, <1>11, <1>13
<1>16. /\ Cardinality(Ours \cup {n}) = Cardinality(Ours) + 1
       /\ Cardinality(ByHand \cup {n}) = Cardinality(ByHand) + 1
  BY <1>1, <1>8, FS_AddElement
<1>17. Due' = Due
  BY DEF Due
<1>18. NoneFailed' <=> NoneFailed
  BY <1>2, <1>4 DEF NoneFailed
<1> QED
  BY <1>2, <1>4, <1>6, <1>7, <1>14, <1>15, <1>16, <1>17, <1>18 DEF n

\* A refund that fails no longer counts.
LEMMA ChargeFailed ==
  ASSUME TypeOK, NEW i \in DOMAIN refunds, RefundFails(i)
  PROVE  /\ refunds' \in Seq(RefundType) /\ DOMAIN refunds' = DOMAIN refunds
         /\ refunds'[i].failed /\ \A j \in DOMAIN refunds : j # i => refunds'[j] = refunds[j]
         /\ AmountRefunded' \in Nat /\ AmountRefunded' <= AmountRefunded
         /\ OursKept' \in Nat /\ OursKept' <= OursKept
         /\ Cardinality(Ours)' = Cardinality(Ours) /\ Cardinality(ByHand)' = Cardinality(ByHand)
         /\ Due' = Due /\ ~ NoneFailed'
<1> DEFINE new == [refunds[i] EXCEPT !.failed = TRUE]
<1>1. /\ refunds \in Seq(RefundType) /\ DOMAIN refunds = 1 .. Len(refunds) /\ refunds[i] \in RefundType
      /\ IsFiniteSet(DOMAIN refunds)
  BY ChargeFacts
<1>2. /\ new \in RefundType /\ new.amount = refunds[i].amount /\ new.ours = refunds[i].ours
      /\ new.failed = TRUE
  BY <1>1 DEF RefundType
<1>3. refunds' = [refunds EXCEPT ![i] = new] /\ ending' = ending
  BY DEF RefundFails
<1> HIDE DEF new
<1>4. /\ refunds' \in Seq(RefundType) /\ DOMAIN refunds' = DOMAIN refunds
      /\ refunds'[i] = new /\ \A j \in DOMAIN refunds : j # i => refunds'[j] = refunds[j]
  BY <1>1, <1>2, <1>3
<1>5. \A j \in DOMAIN refunds : refunds'[j].amount = refunds[j].amount /\ refunds'[j].ours = refunds[j].ours
  BY <1>2, <1>4
<1> DEFINE live == {j \in DOMAIN refunds : ~ refunds[j].failed}
           kept == {j \in DOMAIN refunds : refunds[j].ours /\ ~ refunds[j].failed}
<1>6. live' \subseteq live /\ kept' \subseteq kept
  BY <1>2, <1>4
<1>7. /\ AmountRefunded = AmountIn(refunds, live) /\ OursKept = AmountIn(refunds, kept)
      /\ AmountRefunded' = AmountIn(refunds', live') /\ OursKept' = AmountIn(refunds', kept')
  BY DEF AmountRefunded, OursKept, AmountOf, AmountIn
<1>8. IsFiniteSet(live) /\ IsFiniteSet(kept) /\ live \subseteq DOMAIN refunds /\ kept \subseteq DOMAIN refunds
  BY <1>1, FS_Subset
<1>9. Ours' = Ours /\ ByHand' = ByHand
  BY <1>4, <1>5 DEF Ours, ByHand
<1>10. Due' = Due
  BY <1>3 DEF Due
<1>11. ~ NoneFailed'
  BY <1>2, <1>4 DEF NoneFailed
<1>12. IsFiniteSet(live') /\ IsFiniteSet(kept') /\ live' \subseteq DOMAIN refunds /\ kept' \subseteq DOMAIN refunds
  BY <1>6, <1>8, FS_Subset
<1> HIDE DEF live, kept
<1>13. /\ AmountIn(refunds', live') = AmountIn(refunds, live')
       /\ AmountIn(refunds', kept') = AmountIn(refunds, kept')
  BY <1>5, <1>12, AmountSame
<1>14. AmountRefunded' \in Nat /\ AmountRefunded' <= AmountRefunded
  BY <1>6, <1>7, <1>8, <1>12, <1>13, AmountGrows, AmountFacts
<1>15. OursKept' \in Nat /\ OursKept' <= OursKept
  BY <1>6, <1>7, <1>8, <1>12, <1>13, AmountGrows, AmountFacts
<1> QED
  BY <1>2, <1>4, <1>9, <1>10, <1>11, <1>14, <1>15

-----------------------------------------------------------------------------
(* What the steps of a job have in common *)

RowType == [settled : BOOLEAN, refunded_minor : 0 .. Amount, flag : BOOLEAN]

KeyType == [amount : 0 .. Amount, refund : 0 .. MaxRefunds, answered : BOOLEAN]

\* A job that is done is well formed.
LEMMA IdleType ==
  /\ Idle \in TaskType /\ Idle.op = "none" /\ Idle.pc = "idle" /\ Idle.seen = 0 /\ Idle.refund = 0
  /\ Idle.failed = FALSE /\ Idle.refused = FALSE
<1>1. MaxRefunds \in Nat /\ Amount \in Nat
  BY RefundsAssumption DEF MaxRefunds
<1> QED
  BY <1>1 DEF Idle, TaskType

\* The types of a job in flight, for the provers.
LEMMA TaskFacts ==
  ASSUME TypeOK
  PROVE  \A t \in Tasks :
           /\ tasks[t] \in TaskType /\ tasks[t].seen \in 0 .. Amount /\ tasks[t].seen \in Nat
           /\ tasks[t].refund \in 0 .. MaxRefunds
           /\ tasks[t].op \in {"none", "settle", "event"}
           /\ tasks[t].refused \in BOOLEAN /\ tasks[t].failed \in BOOLEAN
<1>1. \A t \in Tasks : tasks[t] \in TaskType
  BY DEF TypeOK
<1> QED
  BY <1>1, RefundsAssumption DEF TaskType

\* What a job becomes; the others stay.
LEMMA Moved ==
  ASSUME TypeOK, NEW t \in Tasks, NEW task, Become(t, task)
  PROVE  tasks'[t] = task /\ \A u \in Tasks : u # t => tasks'[u] = tasks[u]
BY DEF Become, TypeOK

\* Refunds are numbered from one on.
LEMMA RefundNumbers ==
  ASSUME RefundsIInv
  PROVE  0 \notin DOMAIN refunds /\ DOMAIN refunds \subseteq 1 .. MaxRefunds /\ MaxRefunds \in Nat
BY ChargeFacts, RefundsAssumption DEF RefundsIInv, TypeOK, RefundIds, MaxRefunds

\* The other jobs, while the charge does not change.
LEMMA OtherJobs ==
  ASSUME RefundsIInv, NEW t \in Tasks, NEW task, Become(t, task), UNCHANGED <<ending, refunds>>,
         key' = key \/ key'.answered, faults' \in Nat, faults' >= faults
  PROVE  \A u \in Tasks : u # t => AsksOK(u)' /\ PlaceOK(u)' /\ SawOK(u)'
<1> SUFFICES ASSUME NEW u \in Tasks, u # t
             PROVE  AsksOK(u)' /\ PlaceOK(u)' /\ SawOK(u)'
  OBVIOUS
<1>1. tasks'[u] = tasks[u]
  BY Moved DEF RefundsIInv
<1>2. AsksOK(u) /\ PlaceOK(u) /\ SawOK(u)
  BY DEF RefundsIInv, JobsOK
<1>3. Cardinality(Ours) \in Nat /\ faults \in Nat
  BY ChargeFacts DEF RefundsIInv
<1>4. AsksOK(u)'
  BY <1>1, <1>2, <1>3, ChargeAlone DEF AsksOK
<1>5. PlaceOK(u)'
  BY <1>1, <1>2 DEF PlaceOK
<1>6. SawOK(u)'
  BY <1>1, <1>2, ChargeAlone DEF SawOK
<1> QED
  BY <1>4, <1>5, <1>6

\* A failure that was told or was to be told still is.
LEMMA StillKnown ==
  ASSUME RefundsIInv, NEW t \in Tasks, NEW task, Become(t, task), UNCHANGED refunds,
         \A i \in DOMAIN refunds : Told(i) => Told(i)',
         \A i \in DOMAIN refunds : refunds[i].failed /\ (i \in events \/ WillTell(t, i)) =>
           Told(i)' \/ i \in events' \/ WillTell(t, i)'
  PROVE  FailuresKnown'
<1>1. \A u \in Tasks : u # t => tasks'[u] = tasks[u]
  BY Moved DEF RefundsIInv
<1>2. \A u \in Tasks, i \in DOMAIN refunds : u # t /\ WillTell(u, i) => WillTell(u, i)'
  BY <1>1 DEF WillTell
<1> QED
  BY <1>2 DEF RefundsIInv, FailuresKnown

\* A step of a job that leaves the charge alone.
LEMMA JobStep ==
  ASSUME RefundsIInv, NEW t \in Tasks, NEW task \in TaskType, Become(t, task),
         UNCHANGED <<ending, refunds>>, booking' \in {booking, "ended"}, row' \in RowType,
         told' \in Seq(0 .. MaxRefunds), key' \in KeyType, KeyOK', key' = key \/ key'.answered,
         events' \subseteq DOMAIN refunds, faults' \in 0 .. MaxFaults, faults' >= faults,
         AsksOK(t)' /\ PlaceOK(t)' /\ SawOK(t)', FailuresKnown', RowOK', ToldOnce'
  PROVE  RefundsIInv'
<1>1. /\ Cardinality(Ours) \in Nat /\ Cardinality(ByHand) \in Nat /\ faults \in Nat
      /\ IsFiniteSet(DOMAIN refunds)
  BY ChargeFacts DEF RefundsIInv
<1>2. JobsOK'
  BY OtherJobs DEF JobsOK
<1>3. ChargeOK'
  BY <1>1, ChargeAlone DEF RefundsIInv, ChargeOK
<1>4. NeverRefundedTwice'
  BY ChargeAlone DEF RefundsIInv, NeverRefundedTwice, OursKept
<1>5. TypeOK'
  BY RefundNumbers DEF RefundsIInv, TypeOK, RowType, KeyType, Become, RefundIds
<1> QED
  BY <1>2, <1>3, <1>4, <1>5 DEF RefundsIInv

\* One that writes nothing at all, and loses no failure to tell.
LEMMA JobMoves ==
  ASSUME RefundsIInv, NEW t \in Tasks, NEW task \in TaskType, Become(t, task),
         UNCHANGED <<ending, booking, row, told, refunds, key>>,
         events' \subseteq DOMAIN refunds, faults' \in 0 .. MaxFaults, faults' >= faults,
         \A i \in DOMAIN refunds : refunds[i].failed /\ (i \in events \/ WillTell(t, i)) =>
           Told(i)' \/ i \in events' \/ WillTell(t, i)',
         AsksOK(t)' /\ PlaceOK(t)' /\ SawOK(t)'
  PROVE  RefundsIInv'
<1>1. row' \in RowType /\ told' \in Seq(0 .. MaxRefunds) /\ key' \in KeyType
  BY DEF RefundsIInv, TypeOK, RowType, KeyType
<1>2. KeyOK' /\ RowOK' /\ ToldOnce'
  BY ChargeAlone DEF RefundsIInv, KeyOK, RowOK, ToldOnce, Told
<1>3. FailuresKnown'
  BY StillKnown DEF Told
<1> QED
  BY <1>1, <1>2, <1>3, JobStep

-----------------------------------------------------------------------------
(* The steps of a settle job *)

\* BeginRefund keeps the invariant.
LEMMA BeginRefundOK ==
  ASSUME RefundsIInv, NEW t \in Tasks, BeginRefund(t)
  PROVE  RefundsIInv'
<1> DEFINE task == [Idle EXCEPT !.op = "settle", !.pc = "retrieve"]
<1>1. /\ task \in TaskType /\ task.op = "settle" /\ task.pc = "retrieve" /\ task.seen = 0
      /\ task.refund = 0
  BY IdleType DEF TaskType
<1>2. /\ Become(t, task) /\ UNCHANGED <<ending, booking, row, told, refunds, key, events, faults>>
      /\ tasks[t].pc = "idle"
  BY DEF BeginRefund, At
<1> HIDE DEF task
<1>3. tasks'[t] = task
  BY <1>2, Moved DEF RefundsIInv
<1>4. \A i \in DOMAIN refunds : ~ WillTell(t, i)
  BY <1>2 DEF RefundsIInv, JobsOK, PlaceOK, WillTell
<1>5. AmountRefunded' \in Nat /\ faults \in Nat /\ faults \in 0 .. MaxFaults /\ events \subseteq DOMAIN refunds
  BY <1>2, ChargeFacts, ChargeAlone DEF RefundsIInv, TypeOK
<1>6. AsksOK(t)' /\ PlaceOK(t)' /\ SawOK(t)'
  BY <1>1, <1>3, <1>5 DEF AsksOK, PlaceOK, SawOK
<1> QED
  BY <1>1, <1>2, <1>4, <1>5, <1>6, JobMoves

\* Retrieve keeps the invariant.
LEMMA RetrieveOK ==
  ASSUME RefundsIInv, NEW t \in Tasks, Retrieve(t)
  PROVE  RefundsIInv'
<1> DEFINE pc == IF Due > AmountRefunded /\ ~ ending.held THEN "refund" ELSE "record"
           task == [tasks[t] EXCEPT !.seen = AmountRefunded, !.pc = pc]
<1>1. /\ Become(t, task) /\ UNCHANGED <<ending, booking, row, told, refunds, key, events, faults>>
      /\ tasks[t].pc = "retrieve"
  BY DEF Retrieve, At
<1>2. /\ AmountRefunded \in Nat /\ AmountRefunded <= Amount /\ OursKept <= AmountRefunded
      /\ Due \in 0 .. Amount /\ Amount \in Nat /\ faults \in Nat /\ faults \in 0 .. MaxFaults
      /\ Cardinality(Ours) \in Nat /\ OursKept \in Nat
  BY ChargeFacts DEF RefundsIInv, ChargeOK, TypeOK
<1>3. /\ tasks[t] \in TaskType /\ PlaceOK(t) /\ pc \in {"refund", "record"}
      /\ pc = "refund" => AmountRefunded < Due
      /\ pc = "record" => AmountRefunded >= Due \/ ending.held
  BY <1>2, TaskFacts DEF RefundsIInv, JobsOK
<1> HIDE DEF pc
<1>4. /\ task \in TaskType /\ task.seen = AmountRefunded /\ task.pc = pc /\ task.op = tasks[t].op
      /\ task.refund = tasks[t].refund /\ task.refused = tasks[t].refused
  <2>1. AmountRefunded \in 0 .. Amount
    BY <1>2
  <2> QED
    BY <1>3, <2>1 DEF TaskType
<1> HIDE DEF task
<1>5. tasks'[t] = task
  BY <1>1, Moved DEF RefundsIInv
<1>6. tasks[t].op # "event" /\ tasks[t].refund = 0 /\ events \subseteq DOMAIN refunds
  BY <1>1, <1>3 DEF PlaceOK, RefundsIInv
<1>7. PlaceOK(t)'
  BY <1>1, <1>3, <1>4, <1>5, <1>6 DEF PlaceOK
<1>8. AsksOK(t)'
  <2>1. AmountRefunded < Due => Cardinality(Ours) <= faults
    BY DEF RefundsIInv, ChargeOK
  <2> QED
    BY <1>1, <1>2, <1>3, <1>4, <1>5, <2>1, ChargeAlone DEF AsksOK
<1>9. SawOK(t)'
  BY <1>1, <1>2, <1>3, <1>4, <1>5, <1>6, ChargeAlone DEF SawOK
<1>10. \A i \in DOMAIN refunds : ~ WillTell(t, i)
  BY <1>6 DEF WillTell
<1> QED
  BY <1>1, <1>2, <1>4, <1>6, <1>7, <1>8, <1>9, <1>10, JobMoves

\* A job that has an answer: the refund, whose money is on its way, or none.
LEMMA AnsweredFacts ==
  ASSUME RefundsIInv, NEW t \in Tasks, NEW refund \in 0 .. MaxRefunds, tasks[t].pc = "refund",
         Answered(t, refund), ending' = ending, Due' = Due,
         refund \in DOMAIN refunds' \cup {0}, AmountRefunded' \in Nat,
         NoneFailed' => tasks[t].seen <= AmountRefunded',
         NoneFailed' /\ refund # 0 => AmountRefunded' >= Due
  PROVE  /\ AsksOK(t)' /\ PlaceOK(t)' /\ SawOK(t)' /\ tasks[t].op # "event"
         /\ \E task \in TaskType : Become(t, task) /\ tasks'[t] = task
<1> DEFINE pc == IF refund = 0 THEN "again" ELSE "record"
           task == [tasks[t] EXCEPT !.refund = refund, !.pc = pc]
<1>1. /\ tasks[t] \in TaskType /\ PlaceOK(t) /\ pc \in {"again", "record"}
      /\ pc = "again" <=> refund = 0
  BY TaskFacts DEF RefundsIInv, JobsOK
<1>2. Become(t, task)
  BY DEF Answered
<1> HIDE DEF pc
<1>3. /\ task \in TaskType /\ task.seen = tasks[t].seen /\ task.pc = pc /\ task.op = tasks[t].op
      /\ task.refund = refund
  BY <1>1 DEF TaskType
<1> HIDE DEF task
<1>4. tasks'[t] = task
  BY <1>2, Moved DEF RefundsIInv
<1>5. tasks[t].op # "event"
  BY <1>1 DEF PlaceOK
<1>6. PlaceOK(t)' /\ AsksOK(t)'
  BY <1>1, <1>3, <1>4, <1>5 DEF PlaceOK, AsksOK
<1>7. SawOK(t)'
  BY <1>1, <1>3, <1>4 DEF SawOK
<1> QED
  BY <1>2, <1>3, <1>4, <1>5, <1>6, <1>7

\* RefundAgain keeps the invariant.
LEMMA RefundAgainOK ==
  ASSUME RefundsIInv, NEW t \in Tasks, RefundAgain(t)
  PROVE  RefundsIInv'
<1> DEFINE refund == IF key.amount = Ask(t) THEN key.refund ELSE 0
<1>1. /\ Answered(t, refund) /\ UNCHANGED <<ending, booking, row, told, refunds, key, events, faults>>
      /\ tasks[t].pc = "refund"
  BY DEF RefundAgain, At
<1>2. /\ key.refund \in DOMAIN refunds \cup {0} /\ key.refund \in 0 .. MaxRefunds /\ 0 \in 0 .. MaxRefunds
      /\ NoneFailed /\ key.refund # 0 => AmountRefunded >= Due
  BY RefundNumbers DEF RefundsIInv, KeyOK
<1>3. /\ AmountRefunded \in Nat /\ faults \in Nat /\ faults \in 0 .. MaxFaults
      /\ events \subseteq DOMAIN refunds /\ (NoneFailed => tasks[t].seen <= AmountRefunded)
  BY ChargeFacts DEF RefundsIInv, TypeOK, JobsOK, SawOK
<1>4. /\ refund \in 0 .. MaxRefunds /\ refund \in DOMAIN refunds \cup {0}
      /\ NoneFailed /\ refund # 0 => AmountRefunded >= Due
  BY <1>2
<1> HIDE DEF refund
<1>5. /\ AsksOK(t)' /\ PlaceOK(t)' /\ SawOK(t)' /\ tasks[t].op # "event"
      /\ \E task \in TaskType : Become(t, task) /\ tasks'[t] = task
  BY <1>1, <1>3, <1>4, AnsweredFacts, ChargeAlone
<1>6. \A i \in DOMAIN refunds : ~ WillTell(t, i)
  BY <1>5 DEF WillTell
<1> QED
  BY <1>1, <1>3, <1>5, <1>6, JobMoves

\* Stripe stores a refusal under the key.
LEMMA RefusedOK ==
  ASSUME RefundsIInv, NEW t \in Tasks, tasks[t].pc = "refund", Answered(t, 0),
         UNCHANGED <<ending, booking, row, told, refunds, events>>,
         key' = [amount |-> Ask(t), refund |-> 0, answered |-> TRUE],
         faults' \in 0 .. MaxFaults, faults' >= faults
  PROVE  RefundsIInv'
<1>1. /\ AmountRefunded \in Nat
      /\ events \subseteq DOMAIN refunds /\ (NoneFailed => tasks[t].seen <= AmountRefunded)
      /\ tasks[t].seen < Due /\ Due \in 0 .. Amount /\ Amount \in Nat /\ tasks[t].seen \in Nat
      /\ 0 \in 0 .. MaxRefunds
  BY ChargeFacts, TaskFacts, RefundNumbers DEF RefundsIInv, JobsOK, SawOK, AsksOK
<1>2. key' \in KeyType /\ key'.answered /\ key'.refund = 0
  BY <1>1 DEF KeyType, Ask
<1>3. KeyOK'
  BY <1>2 DEF KeyOK
<1>4. /\ AsksOK(t)' /\ PlaceOK(t)' /\ SawOK(t)' /\ tasks[t].op # "event"
      /\ \E task \in TaskType : Become(t, task) /\ tasks'[t] = task
  BY <1>1, AnsweredFacts, ChargeAlone
<1>5. \A i \in DOMAIN refunds : ~ WillTell(t, i)
  BY <1>4 DEF WillTell
<1>6. PICK task \in TaskType : Become(t, task)
  BY <1>4
<1>7. FailuresKnown'
  BY <1>5, <1>6, StillKnown DEF Told
<1>8. row' \in RowType /\ told' \in Seq(0 .. MaxRefunds) /\ RowOK' /\ ToldOnce'
  BY ChargeAlone DEF RefundsIInv, TypeOK, RowType, RowOK, ToldOnce, Told
<1> QED
  BY <1>1, <1>2, <1>3, <1>4, <1>6, <1>7, <1>8, JobStep

\* The count of faults stays within its bound.
LEMMA FaultFacts ==
  ASSUME RefundsIInv
  PROVE  /\ faults \in 0 .. MaxFaults /\ faults \in Nat
         /\ Fault => faults' \in 0 .. MaxFaults /\ faults' >= faults /\ faults' = faults + 1
BY RefundsAssumption DEF RefundsIInv, TypeOK, Fault

\* RefundRefused keeps the invariant.
LEMMA RefundRefusedOK ==
  ASSUME RefundsIInv, NEW t \in Tasks, RefundRefused(t)
  PROVE  RefundsIInv'
BY RefusedOK, FaultFacts DEF RefundRefused, At

\* Again keeps the invariant.
LEMMA AgainOK ==
  ASSUME RefundsIInv, NEW t \in Tasks, Again(t)
  PROVE  RefundsIInv'
<1> DEFINE short == Due > AmountRefunded
           task == [tasks[t] EXCEPT !.seen = AmountRefunded, !.refused = short, !.pc = "record"]
<1>1. /\ Become(t, task) /\ UNCHANGED <<ending, booking, row, told, refunds, key, events, faults>>
      /\ tasks[t].pc = "again"
  BY DEF Again, At
<1>2. /\ AmountRefunded \in Nat /\ AmountRefunded <= Amount /\ Due \in 0 .. Amount /\ Amount \in Nat
      /\ faults \in Nat /\ faults \in 0 .. MaxFaults /\ events \subseteq DOMAIN refunds
  BY ChargeFacts DEF RefundsIInv, ChargeOK, TypeOK
<1>3. /\ tasks[t] \in TaskType /\ PlaceOK(t) /\ AmountRefunded \in 0 .. Amount
      /\ short \in BOOLEAN /\ (~ short => AmountRefunded >= Due)
  BY <1>2, TaskFacts DEF RefundsIInv, JobsOK
<1> HIDE DEF short
<1>4. /\ task \in TaskType /\ task.seen = AmountRefunded /\ task.pc = "record" /\ task.op = tasks[t].op
      /\ task.refund = tasks[t].refund /\ task.refused = short
  BY <1>3 DEF TaskType
<1> HIDE DEF task
<1>5. tasks'[t] = task
  BY <1>1, Moved DEF RefundsIInv
<1>6. tasks[t].op # "event" /\ tasks[t].refund = 0
  BY <1>1, <1>3 DEF PlaceOK
<1>7. PlaceOK(t)' /\ AsksOK(t)'
  BY <1>1, <1>3, <1>4, <1>5, <1>6 DEF PlaceOK, AsksOK
<1>8. SawOK(t)'
  BY <1>1, <1>2, <1>3, <1>4, <1>5, <1>6, ChargeAlone DEF SawOK
<1>9. \A i \in DOMAIN refunds : ~ WillTell(t, i)
  BY <1>6 DEF WillTell
<1> QED
  BY <1>1, <1>2, <1>4, <1>7, <1>8, <1>9, JobMoves

\* One more event on the booking.
LEMMA ToldMore ==
  ASSUME told \in Seq(0 .. MaxRefunds), NEW i \in 0 .. MaxRefunds, told' = Append(told, i)
  PROVE  /\ told' \in Seq(0 .. MaxRefunds) /\ told' # <<>>
         /\ \A j : Told(j)' <=> Told(j) \/ j = i
         /\ ToldOnce /\ ~ Told(i) => ToldOnce'
<1>1. /\ told' \in Seq(0 .. MaxRefunds) /\ DOMAIN told' = DOMAIN told \cup {Len(told) + 1}
      /\ Len(told) + 1 \notin DOMAIN told
      /\ told'[Len(told) + 1] = i /\ \A j \in DOMAIN told : told'[j] = told[j]
  OBVIOUS
<1>2. \A j : Told(j)' <=> Told(j) \/ j = i
  BY <1>1 DEF Told
<1>3. ToldOnce /\ ~ Told(i) => ToldOnce'
  BY <1>1 DEF Told, ToldOnce
<1> QED
  BY <1>1, <1>2, <1>3

\* A job that ends.
LEMMA IdleOK ==
  ASSUME RefundsIInv, NEW t \in Tasks, Become(t, Idle), AmountRefunded' \in Nat
  PROVE  AsksOK(t)' /\ PlaceOK(t)' /\ SawOK(t)'
<1>1. tasks'[t] = Idle
  BY Moved DEF RefundsIInv
<1> QED
  BY <1>1, IdleType DEF AsksOK, PlaceOK, SawOK

\* The first to record writes what is owed, and flags what was held or refused.
LEMMA RecordOK ==
  ASSUME RefundsIInv, NEW t \in Tasks, Record(t)
  PROVE  RefundsIInv'
<1>1. tasks[t].pc = "record" /\ UNCHANGED <<ending, refunds, key, events, faults>>
  BY DEF Record, At
<1>2. /\ tasks[t] \in TaskType /\ PlaceOK(t) /\ SawOK(t) /\ AmountRefunded \in Nat
      /\ Due \in 0 .. Amount /\ Amount \in Nat /\ tasks[t].seen \in Nat /\ tasks[t].refused \in BOOLEAN
      /\ faults \in Nat /\ faults \in 0 .. MaxFaults /\ events \subseteq DOMAIN refunds
      /\ row \in RowType /\ told \in Seq(0 .. MaxRefunds) /\ ToldOnce
      /\ Told(0) => row.settled
  BY TaskFacts, ChargeFacts DEF RefundsIInv, JobsOK, TypeOK, RowType, RowOK
<1>3. tasks[t].op # "event" /\ \A i \in DOMAIN refunds : ~ WillTell(t, i)
  BY <1>1, <1>2 DEF PlaceOK, WillTell
<1>4. AmountRefunded' = AmountRefunded /\ Due' = Due /\ NoneFailed' = NoneFailed
  BY <1>1, ChargeAlone
<1>5. CASE row.settled
  <2>1. Become(t, Idle) /\ UNCHANGED <<booking, row, told>>
    BY <1>5 DEF Record
  <2>2. AsksOK(t)' /\ PlaceOK(t)' /\ SawOK(t)'
    BY <1>2, <1>4, <2>1, IdleOK
  <2> QED
    BY <1>1, <1>2, <1>3, <2>1, <2>2, IdleType, JobMoves
<1>6. CASE ~ row.settled
  <2> DEFINE held == ending.held /\ Due > tasks[t].seen
             refused == tasks[t].refused
             written == [row EXCEPT !.settled = TRUE, !.refunded_minor = Due]
             flag == IF held \/ refused THEN Flag(written, tasks[t].seen) ELSE row.flag
             task == IF tasks[t].refund = 0 THEN Idle ELSE [tasks[t] EXCEPT !.pc = "read_refund"]
  <2>1. /\ row' = IF held \/ refused THEN [written EXCEPT !.flag = Flag(written, tasks[t].seen)]
                  ELSE written
        /\ told' = IF refused THEN Append(told, 0) ELSE told
        /\ booking' = "ended" /\ Become(t, task)
    BY <1>6 DEF Record
  <2>2. /\ written \in RowType /\ written.settled = TRUE /\ written.refunded_minor = Due
        /\ written.flag = row.flag
    BY <1>2 DEF RowType
  <2>3. Flag(written, tasks[t].seen) = (tasks[t].seen < Due)
    BY <2>2 DEF Flag
  <2> HIDE DEF written
  <2>4. /\ row' \in RowType /\ row'.settled = TRUE /\ row'.refunded_minor = Due
        /\ held \/ refused => row'.flag = (tasks[t].seen < Due)
    <3> DEFINE short == tasks[t].seen < Due
    <3>1. short \in BOOLEAN
      OBVIOUS
    <3>2. row' = IF held \/ refused THEN [written EXCEPT !.flag = short] ELSE written
      BY <2>1, <2>3
    <3> HIDE DEF short
    <3>3. CASE held \/ refused
      <4> HIDE DEF held, refused
      <4> QED
        BY <2>2, <3>1, <3>2, <3>3 DEF RowType, short
    <3>4. CASE ~ (held \/ refused)
      BY <2>2, <3>2, <3>4
    <3> QED
      BY <3>3, <3>4
  <2>5. /\ told' \in Seq(0 .. MaxRefunds) /\ ToldOnce' /\ (told' = <<>> => ~ refused)
        /\ \A i : Told(i) => Told(i)'
    <3>1. CASE refused
      <4>1. 0 \in 0 .. MaxRefunds /\ ~ Told(0) /\ told' = Append(told, 0)
        BY <1>2, <1>6, <2>1, <3>1, RefundNumbers
      <4> QED
        BY <1>2, <4>1, ToldMore
    <3>2. CASE ~ refused
      BY <1>2, <2>1, <3>2 DEF ToldOnce, Told
    <3> QED
      BY <3>1, <3>2
  <2>6. RowOK'
    <3>1. ASSUME NoneFailed', told' = <<>>, AmountRefunded' < Due'
          PROVE  row'.flag
      <4>1. ~ refused /\ tasks[t].seen <= AmountRefunded /\ AmountRefunded < Due
        BY <1>2, <1>4, <2>5, <3>1 DEF SawOK
      <4>2. tasks[t].refund = 0
        BY <1>1, <1>2, <1>4, <3>1, <4>1 DEF SawOK
      <4>3. tasks[t].seen < Due
        BY <1>2, <4>1
      <4>4. ending.held
        BY <1>1, <1>2, <4>1, <4>2, <4>3 DEF SawOK
      <4> QED
        BY <1>2, <2>4, <4>3, <4>4
    <3> QED
      BY <1>4, <2>4, <3>1 DEF RowOK
  <2>7. task \in TaskType /\ AsksOK(t)' /\ PlaceOK(t)' /\ SawOK(t)'
    <3>1. CASE tasks[t].refund = 0
      <4>1. task = Idle
        BY <3>1
      <4> QED
        BY <1>2, <1>4, <2>1, <4>1, IdleOK, IdleType
    <3>2. CASE tasks[t].refund # 0
      <4>1. task = [tasks[t] EXCEPT !.pc = "read_refund"]
        BY <3>2
      <4>2. /\ task \in TaskType /\ task.pc = "read_refund" /\ task.op = tasks[t].op
            /\ task.refund = tasks[t].refund /\ task.seen = tasks[t].seen
        BY <1>2, <4>1 DEF TaskType
      <4> HIDE DEF task
      <4>3. tasks'[t] = task
        BY <2>1, Moved DEF RefundsIInv
      <4> QED
        BY <1>1, <1>2, <1>3, <1>4, <3>2, <4>2, <4>3 DEF AsksOK, PlaceOK, SawOK
    <3> QED
      BY <3>1, <3>2
  <2> HIDE DEF task
  <2>8. FailuresKnown'
    BY <1>1, <1>3, <2>1, <2>5, StillKnown
  <2>9. key' \in KeyType /\ KeyOK'
    BY <1>1, <1>4 DEF RefundsIInv, TypeOK, KeyType, KeyOK
  <2> QED
    BY <1>1, <1>2, <2>1, <2>4, <2>5, <2>6, <2>7, <2>8, <2>9, JobStep
<1> QED
  BY <1>5, <1>6

-----------------------------------------------------------------------------
(* The steps of refund_changed, and jobs that stop *)

\* BeginEvent keeps the invariant.
LEMMA BeginEventOK ==
  ASSUME RefundsIInv, NEW t \in Tasks, BeginEvent(t)
  PROVE  RefundsIInv'
<1>1. PICK i \in events : /\ events' = events \ {i}
                          /\ Become(t, [Idle EXCEPT !.op = "event", !.pc = "read_refund", !.refund = i])
  BY DEF BeginEvent
<1> DEFINE task == [Idle EXCEPT !.op = "event", !.pc = "read_refund", !.refund = i]
<1>2. UNCHANGED <<ending, booking, row, told, refunds, key, faults>> /\ tasks[t].pc = "idle"
  BY DEF BeginEvent, At
<1>3. /\ i \in DOMAIN refunds /\ i \in 0 .. MaxRefunds /\ i # 0 /\ events \subseteq DOMAIN refunds
      /\ AmountRefunded \in Nat /\ faults \in Nat /\ faults \in 0 .. MaxFaults
  <2>1. i \in DOMAIN refunds /\ events \subseteq DOMAIN refunds /\ faults \in 0 .. MaxFaults
    BY DEF RefundsIInv, TypeOK
  <2>2. i \in 1 .. MaxRefunds /\ MaxRefunds \in Nat
    BY <2>1, RefundNumbers
  <2>3. AmountRefunded \in Nat /\ faults \in Nat
    BY ChargeFacts DEF RefundsIInv
  <2> QED
    BY <2>1, <2>2, <2>3
<1>4. /\ task \in TaskType /\ task.op = "event" /\ task.pc = "read_refund" /\ task.refund = i
      /\ task.seen = 0
  BY <1>3, IdleType DEF TaskType
<1> HIDE DEF task
<1>5. tasks'[t] = task /\ Become(t, task)
  BY <1>1, Moved DEF RefundsIInv, task
<1>6. AsksOK(t)' /\ PlaceOK(t)' /\ SawOK(t)'
  BY <1>2, <1>3, <1>4, <1>5, ChargeAlone DEF AsksOK, PlaceOK, SawOK
<1>7. \A j \in DOMAIN refunds : ~ WillTell(t, j)
  BY <1>2 DEF RefundsIInv, JobsOK, PlaceOK, WillTell
<1>8. WillTell(t, i)'
  BY <1>4, <1>5 DEF WillTell
<1> QED
  BY <1>1, <1>2, <1>3, <1>4, <1>5, <1>6, <1>7, <1>8, JobMoves

\* ReadRefund keeps the invariant.
LEMMA ReadRefundOK ==
  ASSUME RefundsIInv, NEW t \in Tasks, ReadRefund(t)
  PROVE  RefundsIInv'
<1> DEFINE i == tasks[t].refund
           failed == refunds[i].failed
           task == [tasks[t] EXCEPT !.failed = failed, !.pc = "read_charge"]
<1>1. /\ Become(t, task) /\ UNCHANGED <<ending, booking, row, told, refunds, key, events, faults>>
      /\ tasks[t].pc = "read_refund"
  BY DEF ReadRefund, At
<1>2. /\ tasks[t] \in TaskType /\ PlaceOK(t) /\ SawOK(t) /\ events \subseteq DOMAIN refunds
      /\ AmountRefunded \in Nat /\ faults \in Nat /\ faults \in 0 .. MaxFaults
  BY TaskFacts, ChargeFacts DEF RefundsIInv, JobsOK, TypeOK
<1>3. i \in DOMAIN refunds /\ failed \in BOOLEAN
  BY <1>1, <1>2, ChargeFacts DEF PlaceOK, RefundsIInv
<1> HIDE DEF failed
<1>4. /\ task \in TaskType /\ task.op = tasks[t].op /\ task.pc = "read_charge" /\ task.refund = i
      /\ task.seen = tasks[t].seen /\ task.failed = failed
  BY <1>2, <1>3 DEF TaskType
<1> HIDE DEF task
<1>5. tasks'[t] = task
  BY <1>1, Moved DEF RefundsIInv
<1>6. AsksOK(t)' /\ PlaceOK(t)' /\ SawOK(t)'
  BY <1>1, <1>2, <1>4, <1>5, ChargeAlone DEF AsksOK, PlaceOK, SawOK
<1>7. \A j \in DOMAIN refunds : refunds[j].failed /\ WillTell(t, j) => WillTell(t, j)'
  BY <1>4, <1>5 DEF WillTell, failed
<1> QED
  BY <1>1, <1>2, <1>4, <1>6, <1>7, JobMoves

\* ReadCharge keeps the invariant.
LEMMA ReadChargeOK ==
  ASSUME RefundsIInv, NEW t \in Tasks, ReadCharge(t)
  PROVE  RefundsIInv'
<1> DEFINE task == [tasks[t] EXCEPT !.seen = AmountRefunded, !.pc = "write"]
<1>1. /\ Become(t, task) /\ UNCHANGED <<ending, booking, row, told, refunds, key, events, faults>>
      /\ tasks[t].pc = "read_charge"
  BY DEF ReadCharge, At
<1>2. /\ tasks[t] \in TaskType /\ PlaceOK(t) /\ SawOK(t) /\ events \subseteq DOMAIN refunds
      /\ AmountRefunded \in Nat /\ faults \in Nat /\ faults \in 0 .. MaxFaults
      /\ AmountRefunded <= Amount /\ Amount \in Nat
  BY TaskFacts, ChargeFacts DEF RefundsIInv, JobsOK, TypeOK, ChargeOK
<1>3. AmountRefunded \in 0 .. Amount
  BY <1>2
<1>4. /\ task \in TaskType /\ task.op = tasks[t].op /\ task.pc = "write"
      /\ task.refund = tasks[t].refund /\ task.seen = AmountRefunded /\ task.failed = tasks[t].failed
  BY <1>2, <1>3 DEF TaskType
<1> HIDE DEF task
<1>5. tasks'[t] = task
  BY <1>1, Moved DEF RefundsIInv
<1>6. AsksOK(t)' /\ PlaceOK(t)' /\ SawOK(t)'
  BY <1>1, <1>2, <1>4, <1>5, ChargeAlone DEF AsksOK, PlaceOK, SawOK
<1>7. \A j \in DOMAIN refunds : WillTell(t, j) => WillTell(t, j)'
  BY <1>1, <1>4, <1>5 DEF WillTell
<1> QED
  BY <1>1, <1>2, <1>4, <1>6, <1>7, JobMoves

\* Write keeps the invariant.
LEMMA WriteOK ==
  ASSUME RefundsIInv, NEW t \in Tasks, Write(t)
  PROVE  RefundsIInv'
<1>0. PICK i \in 0 .. MaxRefunds : i = tasks[t].refund
  BY TaskFacts DEF RefundsIInv
<1> DEFINE seen == tasks[t].seen
<1>1. /\ tasks[t].pc = "write" /\ Become(t, Idle)
      /\ UNCHANGED <<ending, booking, refunds, key, events, faults>>
      /\ told' = IF tasks[t].failed THEN Tell(i) ELSE told
      /\ row' = [row EXCEPT !.flag = Flag(row, seen)]
  BY <1>0 DEF Write, At
<1>2. /\ PlaceOK(t) /\ SawOK(t) /\ events \subseteq DOMAIN refunds /\ seen \in Nat
      /\ AmountRefunded \in Nat /\ Due \in 0 .. Amount /\ Amount \in Nat
      /\ row \in RowType /\ told \in Seq(0 .. MaxRefunds) /\ ToldOnce /\ RowOK /\ i \in 0 .. MaxRefunds
  BY TaskFacts, ChargeFacts DEF RefundsIInv, JobsOK, TypeOK, RowType
<1>3. i \in DOMAIN refunds /\ i # 0
  BY <1>0, <1>1, <1>2 DEF PlaceOK
<1>4. AmountRefunded' = AmountRefunded /\ Due' = Due /\ NoneFailed' = NoneFailed
  BY <1>1, ChargeAlone
<1>5. /\ told' \in Seq(0 .. MaxRefunds) /\ ToldOnce' /\ (told' = <<>> => told = <<>>)
      /\ \A j : Told(j) => Told(j)'
      /\ \A j : Told(j)' => Told(j) \/ j = i
      /\ tasks[t].failed => Told(i)'
  <2>1. CASE tasks[t].failed /\ ~ Told(i)
    <3>1. told' = Append(told, i)
      BY <1>1, <2>1 DEF Tell, Told
    <3> QED
      BY <1>2, <2>1, <3>1, ToldMore
  <2>2. CASE ~ (tasks[t].failed /\ ~ Told(i))
    <3>1. told' = told
      BY <1>1, <2>2 DEF Tell, Told
    <3> QED
      BY <1>2, <2>2, <3>1 DEF Told, ToldOnce
  <2> QED
    BY <2>1, <2>2
<1>6. /\ row' \in RowType /\ row'.settled = row.settled /\ row'.refunded_minor = row.refunded_minor
      /\ row'.flag = Flag(row, seen)
  <2> DEFINE flag == Flag(row, seen)
  <2>1. flag \in BOOLEAN
    BY <1>2 DEF Flag, RowType
  <2>2. row' = [row EXCEPT !.flag = flag]
    BY <1>1
  <2> HIDE DEF flag
  <2>3. row' \in RowType /\ row'.settled = row.settled /\ row'.refunded_minor = row.refunded_minor /\ row'.flag = flag
    BY <1>2, <2>1, <2>2 DEF RowType
  <2> QED
    BY <2>3 DEF flag
<1>7. RowOK'
  <2>1. Told(0)' => row'.settled
    BY <1>2, <1>3, <1>5, <1>6 DEF RowOK
  <2>2. ASSUME NoneFailed, row.settled, AmountRefunded < Due
        PROVE  row'.flag
    <3>1. seen <= AmountRefunded /\ row.refunded_minor = Due
      BY <1>2, <2>2 DEF SawOK, RowOK
    <3>2. seen < Due
      BY <1>2, <2>2, <3>1
    <3> QED
      BY <1>6, <2>2, <3>1, <3>2 DEF Flag
  <2> QED
    BY <1>2, <1>4, <1>6, <2>1, <2>2 DEF RowOK
<1>8. AsksOK(t)' /\ PlaceOK(t)' /\ SawOK(t)'
  BY <1>1, <1>2, <1>4, IdleOK
<1>9. \A j \in DOMAIN refunds : WillTell(t, j) => Told(j)'
  BY <1>0, <1>1, <1>5 DEF WillTell
<1>10. FailuresKnown'
  BY <1>1, <1>5, <1>9, StillKnown
<1>11. key' \in KeyType /\ KeyOK'
  BY <1>1, <1>4 DEF RefundsIInv, TypeOK, KeyType, KeyOK
<1> QED
  BY <1>1, <1>2, <1>5, <1>6, <1>7, <1>8, <1>10, <1>11, FaultFacts, IdleType, JobStep

\* An event job that stops leaves its event to be tried again.
LEMMA DropOK ==
  ASSUME RefundsIInv, NEW t \in Tasks, Drop(t)
  PROVE  RefundsIInv'
<1>1. /\ Become(t, Idle) /\ UNCHANGED <<ending, booking, row, told, refunds, key>> /\ Fault
      /\ events' = IF tasks[t].op = "event" THEN events \cup {tasks[t].refund} ELSE events
  BY DEF Drop
<1>2. PlaceOK(t) /\ events \subseteq DOMAIN refunds /\ AmountRefunded \in Nat
  BY ChargeFacts DEF RefundsIInv, JobsOK
<1>3. events' \subseteq DOMAIN refunds /\ events \subseteq events'
  BY <1>1, <1>2 DEF PlaceOK
<1>4. \A i \in DOMAIN refunds : WillTell(t, i) => i \in events'
  BY <1>1 DEF WillTell
<1>5. AsksOK(t)' /\ PlaceOK(t)' /\ SawOK(t)'
  BY <1>1, <1>2, IdleOK, ChargeAlone
<1> QED
  BY <1>1, <1>3, <1>4, <1>5, FaultFacts, IdleType, JobMoves

\* TimesOut keeps the invariant.
LEMMA TimesOutOK ==
  ASSUME RefundsIInv, NEW t \in Tasks, TimesOut(t)
  PROVE  RefundsIInv'
<1>1. /\ UNCHANGED <<ending, booking, row, told, refunds, key, tasks>> /\ Fault
      /\ events' = events \cup {tasks[t].refund} /\ tasks[t].op = "event"
  BY DEF TimesOut
<1>2. Become(t, tasks[t]) /\ tasks[t] \in TaskType
  BY <1>1 DEF Become, RefundsIInv, TypeOK
<1>3. /\ AsksOK(t) /\ PlaceOK(t) /\ SawOK(t) /\ events \subseteq DOMAIN refunds
      /\ Cardinality(Ours) \in Nat /\ faults' = faults + 1 /\ faults \in Nat
  BY <1>1, ChargeFacts, FaultFacts DEF RefundsIInv, JobsOK
<1>4. events' \subseteq DOMAIN refunds /\ events \subseteq events'
  BY <1>1, <1>3 DEF PlaceOK
<1>5. AsksOK(t)' /\ PlaceOK(t)' /\ SawOK(t)'
  BY <1>1, <1>3, ChargeAlone DEF AsksOK, PlaceOK, SawOK
<1>6. \A i \in DOMAIN refunds : WillTell(t, i) => WillTell(t, i)'
  BY <1>1 DEF WillTell
<1> QED
  BY <1>1, <1>2, <1>4, <1>5, <1>6, FaultFacts, JobMoves

-----------------------------------------------------------------------------
(* The charge grows, or a refund on it fails *)

\* The refunds are settle's and the business's: no more than the two bounds allow.
LEMMA ChargeBounded ==
  ASSUME NEW rs \in Seq(RefundType),
         Cardinality({i \in DOMAIN rs : rs[i].ours}) <= MaxFaults + 1,
         Cardinality({i \in DOMAIN rs : ~ rs[i].ours}) <= MaxByHand
  PROVE  DOMAIN rs \subseteq RefundIds
<1> DEFINE mine == {i \in DOMAIN rs : rs[i].ours}
           theirs == {i \in DOMAIN rs : ~ rs[i].ours}
<1>1. DOMAIN rs = 1 .. Len(rs) /\ Len(rs) \in Nat
  OBVIOUS
<1>2. IsFiniteSet(DOMAIN rs) /\ Cardinality(DOMAIN rs) = Len(rs)
  BY <1>1, FS_Interval
<1>3. IsFiniteSet(mine) /\ IsFiniteSet(theirs)
  BY <1>2, FS_Subset
<1>4. DOMAIN rs = mine \cup theirs /\ mine \cap theirs = {}
  OBVIOUS
<1>5. Cardinality(mine) \in Nat /\ Cardinality(theirs) \in Nat
  BY <1>3, FS_CardinalityType
<1> HIDE DEF mine, theirs
<1>6. Cardinality(mine \cup theirs) =
        Cardinality(mine) + Cardinality(theirs) - Cardinality(mine \cap theirs)
  BY <1>3, FS_Union
<1>7. Cardinality(mine \cap theirs) = 0
  BY <1>4, FS_EmptySet
<1>8. Len(rs) = Cardinality(mine) + Cardinality(theirs)
  BY <1>2, <1>4, <1>5, <1>6, <1>7
<1>9. Cardinality(mine) <= MaxFaults + 1 /\ Cardinality(theirs) <= MaxByHand
  BY DEF mine, theirs
<1>10. Len(rs) <= MaxRefunds /\ MaxRefunds \in Nat
  BY <1>5, <1>8, <1>9, RefundsAssumption DEF MaxRefunds
<1> QED
  BY <1>1, <1>10 DEF RefundIds

\* A new refund leaves what was known of the earlier ones.
LEMMA ChargeGrows ==
  ASSUME RefundsIInv, NEW amount \in 1 .. Amount, NEW ours \in BOOLEAN, NewRefund(amount, ours),
         amount <= Amount - AmountRefunded, UNCHANGED <<ending, booking, row, told, faults>>,
         tasks' \in [Tasks -> TaskType],
         \A t \in Tasks, i \in DOMAIN refunds : WillTell(t, i) => WillTell(t, i)',
         key' \in KeyType, KeyOK', JobsOK',
         ours => /\ Cardinality(Ours) <= faults
                 /\ AmountRefunded + amount < Due => Cardinality(Ours) < faults
                 /\ OursKept + amount <= Due,
         ~ ours => Cardinality(ByHand) < MaxByHand
  PROVE  RefundsIInv'
<1> DEFINE n == Len(refunds) + 1
<1>1. /\ refunds' \in Seq(RefundType) /\ DOMAIN refunds' = DOMAIN refunds \cup {n}
      /\ \A i \in DOMAIN refunds : refunds'[i] = refunds[i]
      /\ AmountRefunded' = AmountRefunded + amount
      /\ OursKept' = IF ours THEN OursKept + amount ELSE OursKept
      /\ Cardinality(Ours)' = IF ours THEN Cardinality(Ours) + 1 ELSE Cardinality(Ours)
      /\ Cardinality(ByHand)' = IF ours THEN Cardinality(ByHand) ELSE Cardinality(ByHand) + 1
      /\ Due' = Due /\ (NoneFailed' <=> NoneFailed)
      /\ ~ refunds'[n].failed
  BY ChargeAdded DEF RefundsIInv
<1>2. /\ Cardinality(Ours) \in Nat /\ Cardinality(ByHand) \in Nat /\ AmountRefunded \in Nat
      /\ Amount \in Nat /\ faults \in Nat /\ Due \in Nat /\ OursKept \in Nat
      /\ MaxByHand \in Nat /\ faults \in 0 .. MaxFaults /\ MaxFaults \in Nat
  BY ChargeFacts, FaultFacts, RefundsAssumption DEF RefundsIInv
<1>3. ChargeOK'
  BY <1>1, <1>2 DEF RefundsIInv, ChargeOK
<1>4. NeverRefundedTwice'
  <2>1. OursKept <= Due
    BY DEF RefundsIInv, NeverRefundedTwice, OursKept
  <2>2. OursKept' <= Due'
    BY <1>1, <1>2, <2>1
  <2> QED
    BY <2>2 DEF NeverRefundedTwice, OursKept
<1>5. DOMAIN refunds' \subseteq RefundIds
  <2>1. Cardinality(Ours)' <= MaxFaults + 1 /\ Cardinality(ByHand)' <= MaxByHand
    BY <1>1, <1>2, <1>3 DEF ChargeOK
  <2> QED
    BY <1>1, <2>1, ChargeBounded DEF Ours, ByHand
<1>6. events' \subseteq DOMAIN refunds' /\ events \subseteq events'
  BY <1>1 DEF NewRefund, RefundsIInv
<1>7. TypeOK'
  BY <1>1, <1>5, <1>6 DEF RefundsIInv, TypeOK, RefundType, KeyType
<1>8. FailuresKnown'
  <2> SUFFICES ASSUME NEW i \in DOMAIN refunds', refunds'[i].failed
               PROVE  Told(i)' \/ i \in events' \/ \E t \in Tasks : WillTell(t, i)'
    BY DEF FailuresKnown
  <2>1. i \in DOMAIN refunds /\ refunds[i].failed
    BY <1>1
  <2>2. Told(i) \/ i \in events \/ \E t \in Tasks : WillTell(t, i)
    BY <2>1 DEF RefundsIInv, FailuresKnown
  <2> QED
    BY <1>6, <2>1, <2>2 DEF Told
<1>9. RowOK' /\ ToldOnce'
  BY <1>1, <1>2 DEF RefundsIInv, RowOK, ToldOnce, Told
<1> QED
  BY <1>3, <1>4, <1>6, <1>7, <1>8, <1>9 DEF RefundsIInv

\* HandRefund keeps the invariant.
LEMMA HandRefundOK ==
  ASSUME RefundsIInv, HandRefund
  PROVE  RefundsIInv'
<1>1. PICK amount \in HandAmounts : amount <= Amount - AmountRefunded /\ NewRefund(amount, FALSE)
  BY DEF HandRefund
<1>2. /\ UNCHANGED <<ending, booking, row, told, key, tasks, faults>>
      /\ Cardinality(ByHand) < MaxByHand
  BY DEF HandRefund, ByHand
<1>3. amount \in 1 .. Amount /\ AmountRefunded \in Nat /\ Amount \in Nat
  BY <1>1, ChargeFacts, RefundsAssumption DEF RefundsIInv
<1>4. /\ DOMAIN refunds \subseteq DOMAIN refunds' /\ AmountRefunded' = AmountRefunded + amount
      /\ OursKept' = OursKept /\ Cardinality(Ours)' = Cardinality(Ours)
      /\ Due' = Due /\ (NoneFailed' <=> NoneFailed)
  BY <1>1, <1>2, <1>3, ChargeAdded DEF RefundsIInv
<1>5. KeyOK'
  BY <1>2, <1>3, <1>4, ChargeFacts DEF RefundsIInv, KeyOK
<1>6. JobsOK'
  <2> SUFFICES ASSUME NEW t \in Tasks
               PROVE  AsksOK(t)' /\ PlaceOK(t)' /\ SawOK(t)'
    BY DEF JobsOK
  <2>1. /\ AsksOK(t) /\ PlaceOK(t) /\ SawOK(t) /\ tasks[t].seen \in Nat /\ Due \in Nat
    BY ChargeFacts, TaskFacts DEF RefundsIInv, JobsOK
  <2>2. AsksOK(t)'
    BY <1>2, <1>3, <1>4, <2>1 DEF AsksOK
  <2>3. PlaceOK(t)'
    BY <1>2, <1>4, <2>1 DEF PlaceOK
  <2>4. SawOK(t)'
    BY <1>2, <1>3, <1>4, <2>1 DEF SawOK
  <2> QED
    BY <2>2, <2>3, <2>4
<1>7. \A t \in Tasks, i \in DOMAIN refunds : WillTell(t, i) => WillTell(t, i)'
  BY <1>2 DEF WillTell
<1>8. tasks' \in [Tasks -> TaskType] /\ key' \in KeyType
  BY <1>2 DEF RefundsIInv, TypeOK, KeyType
<1> QED
  BY <1>1, <1>2, <1>3, <1>5, <1>6, <1>7, <1>8, ChargeGrows

\* Only a request that Stripe has no answer for makes a refund, and its job saw all of settle's.
LEMMA RefundFirstOK ==
  ASSUME RefundsIInv, NEW t \in Tasks, RefundFirst(t)
  PROVE  RefundsIInv'
<1>0. PICK ask, n : ask = Ask(t) /\ n = Len(refunds) + 1
  OBVIOUS
<1>1. tasks[t].pc = "refund" /\ ~ key.answered /\ UNCHANGED <<ending, booking, row, told, faults>>
  BY DEF RefundFirst, At, KeyStored
<1>2. /\ AsksOK(t) /\ SawOK(t) /\ tasks[t].seen \in Nat /\ AmountRefunded \in Nat /\ OursKept \in Nat
      /\ Amount \in Nat /\ Due \in 0 .. Amount /\ Cardinality(Ours) \in Nat
      /\ tasks[t].seen < Due
  BY <1>1, ChargeFacts, TaskFacts DEF RefundsIInv, JobsOK, AsksOK
<1>3. ask \in 1 .. Amount /\ ask = Due - tasks[t].seen
  BY <1>0, <1>2 DEF Ask
<1>4. CASE ~ (ask <= Amount - AmountRefunded)
  <2>1. /\ UNCHANGED <<refunds, events>> /\ Answered(t, 0)
        /\ key' = [amount |-> Ask(t), refund |-> 0, answered |-> TRUE]
    BY <1>0, <1>4 DEF RefundFirst
  <2>2. faults' \in 0 .. MaxFaults /\ faults' >= faults
    BY <1>1, FaultFacts
  <2> QED
    BY <1>1, <2>1, <2>2, RefusedOK
<1>5. CASE ask <= Amount - AmountRefunded
  <2>1. /\ NewRefund(ask, TRUE) /\ Answered(t, n)
        /\ key' = [amount |-> ask, refund |-> n, answered |-> TRUE]
    BY <1>0, <1>5 DEF RefundFirst
  <2>2. /\ DOMAIN refunds' = DOMAIN refunds \cup {n}
        /\ AmountRefunded' = AmountRefunded + ask
        /\ OursKept' = OursKept + ask /\ Cardinality(Ours)' = Cardinality(Ours) + 1
        /\ Due' = Due /\ (NoneFailed' <=> NoneFailed)
    BY <1>0, <1>1, <1>3, <2>1, ChargeAdded DEF RefundsIInv
  <2>3. /\ Cardinality(Ours) <= faults /\ faults \in 0 .. MaxFaults /\ MaxFaults \in Nat
        /\ AmountRefunded + ask < Due => Cardinality(Ours) < faults
        /\ OursKept + ask <= Due
    BY <1>1, <1>2, <1>3, FaultFacts, RefundsAssumption DEF AsksOK
  <2>4. n \in 0 .. MaxRefunds /\ n # 0
    <3>1. Cardinality(ByHand) <= MaxByHand /\ Cardinality(Ours) <= MaxFaults
      BY <1>2, <2>3 DEF RefundsIInv, ChargeOK
    <3>2. Cardinality(ByHand)' = Cardinality(ByHand) /\ refunds' \in Seq(RefundType)
      BY <1>1, <1>3, <2>1, ChargeAdded DEF RefundsIInv
    <3>3. Cardinality(Ours)' <= MaxFaults + 1 /\ Cardinality(ByHand)' <= MaxByHand
      BY <1>2, <2>2, <2>3, <3>1, <3>2
    <3>4. n \in RefundIds
      BY <2>2, <3>2, <3>3, ChargeBounded DEF Ours, ByHand
    <3> QED
      BY <3>4, RefundNumbers DEF RefundIds
  <2>5. NoneFailed' => tasks[t].seen <= AmountRefunded' /\ AmountRefunded' >= Due
    BY <1>2, <1>3, <2>2 DEF SawOK
  <2>6. /\ AsksOK(t)' /\ PlaceOK(t)' /\ SawOK(t)' /\ tasks[t].op # "event"
        /\ \E task \in TaskType : Become(t, task) /\ tasks'[t] = task
    <3>1. AmountRefunded' \in Nat /\ n \in DOMAIN refunds' \cup {0}
      BY <1>2, <1>3, <2>2
    <3> QED
      BY <1>1, <2>1, <2>2, <2>4, <2>5, <3>1, AnsweredFacts
  <2>7. PICK task \in TaskType : Become(t, task)
    BY <2>6
  <2>8. key' \in KeyType /\ key'.answered /\ key'.refund = n
    BY <1>3, <2>1, <2>4 DEF KeyType
  <2>9. KeyOK'
    BY <2>2, <2>5, <2>8 DEF KeyOK
  <2>10. JobsOK'
    <3> SUFFICES ASSUME NEW u \in Tasks, u # t
                 PROVE  AsksOK(u)' /\ PlaceOK(u)' /\ SawOK(u)'
      BY <2>6 DEF JobsOK
    <3>1. tasks'[u] = tasks[u]
      BY <2>7, Moved DEF RefundsIInv
    <3>2. AsksOK(u) /\ PlaceOK(u) /\ SawOK(u) /\ tasks[u].seen \in Nat
      BY TaskFacts DEF RefundsIInv, JobsOK
    <3>3. AsksOK(u)'
      BY <2>2, <2>8, <3>1, <3>2 DEF AsksOK
    <3>4. PlaceOK(u)'
      BY <2>2, <3>1, <3>2 DEF PlaceOK
    <3>5. SawOK(u)'
      BY <1>1, <1>2, <1>3, <2>2, <3>1, <3>2 DEF SawOK
    <3> QED
      BY <3>3, <3>4, <3>5
  <2>11. \A u \in Tasks, i \in DOMAIN refunds : WillTell(u, i) => WillTell(u, i)'
    <3>1. \A u \in Tasks : u # t => tasks'[u] = tasks[u]
      BY <2>7, Moved DEF RefundsIInv
    <3> QED
      BY <2>6, <3>1 DEF WillTell
  <2>12. tasks' \in [Tasks -> TaskType]
    BY <2>7 DEF Become, RefundsIInv, TypeOK
  <2> QED
    BY <1>1, <1>3, <1>5, <2>1, <2>3, <2>8, <2>9, <2>10, <2>11, <2>12, ChargeGrows
<1> QED
  BY <1>4, <1>5

\* RefundFails keeps the invariant.
LEMMA RefundFailsOK ==
  ASSUME RefundsIInv, NEW i \in DOMAIN refunds, RefundFails(i)
  PROVE  RefundsIInv'
<1>1. /\ UNCHANGED <<ending, booking, row, told, key, tasks>> /\ Fault
      /\ events' = events \cup {i}
  BY DEF RefundFails
<1>2. /\ refunds' \in Seq(RefundType) /\ DOMAIN refunds' = DOMAIN refunds
      /\ refunds'[i].failed /\ \A j \in DOMAIN refunds : j # i => refunds'[j] = refunds[j]
      /\ AmountRefunded' \in Nat /\ AmountRefunded' <= AmountRefunded
      /\ OursKept' \in Nat /\ OursKept' <= OursKept
      /\ Cardinality(Ours)' = Cardinality(Ours) /\ Cardinality(ByHand)' = Cardinality(ByHand)
      /\ Due' = Due /\ ~ NoneFailed'
  BY ChargeFailed DEF RefundsIInv
<1>3. /\ Cardinality(Ours) \in Nat /\ AmountRefunded \in Nat /\ OursKept \in Nat /\ Due \in Nat
      /\ faults \in Nat /\ faults' = faults + 1 /\ faults' \in 0 .. MaxFaults /\ Amount \in Nat
  BY <1>1, ChargeFacts, FaultFacts DEF RefundsIInv
<1>4. ChargeOK'
  BY <1>2, <1>3 DEF RefundsIInv, ChargeOK
<1>5. NeverRefundedTwice'
  <2>1. OursKept <= Due
    BY DEF RefundsIInv, NeverRefundedTwice, OursKept
  <2>2. OursKept' <= Due'
    BY <1>2, <1>3, <2>1
  <2> QED
    BY <2>2 DEF NeverRefundedTwice, OursKept
<1>6. TypeOK'
  BY <1>1, <1>2, <1>3 DEF RefundsIInv, TypeOK, RefundType
<1>7. JobsOK'
  <2> SUFFICES ASSUME NEW t \in Tasks
               PROVE  AsksOK(t)' /\ PlaceOK(t)' /\ SawOK(t)'
    BY DEF JobsOK
  <2>1. /\ AsksOK(t) /\ PlaceOK(t) /\ SawOK(t) /\ tasks[t].seen \in Nat
    BY TaskFacts DEF RefundsIInv, JobsOK
  <2>2. AsksOK(t)'
    BY <1>1, <1>2, <1>3, <2>1 DEF AsksOK
  <2>3. PlaceOK(t)'
    BY <1>1, <1>2, <2>1 DEF PlaceOK
  <2>4. SawOK(t)'
    BY <1>1, <1>2, <2>1 DEF SawOK
  <2> QED
    BY <2>2, <2>3, <2>4
<1>8. KeyOK' /\ RowOK' /\ ToldOnce'
  BY <1>1, <1>2 DEF RefundsIInv, KeyOK, RowOK, ToldOnce, Told
<1>9. FailuresKnown'
  BY <1>1, <1>2 DEF RefundsIInv, FailuresKnown, Told, WillTell
<1>10. events' \subseteq DOMAIN refunds'
  BY <1>1, <1>2 DEF RefundsIInv
<1> QED
  BY <1>4, <1>5, <1>6, <1>7, <1>8, <1>9, <1>10 DEF RefundsIInv

-----------------------------------------------------------------------------
(* The sweep, the key, and the specification *)

\* Sweep keeps the invariant.
LEMMA SweepOK ==
  ASSUME RefundsIInv, UNCHANGED <<ending, row, told, refunds, key, events, tasks, faults>>,
         booking' \in {booking, "ended"}
  PROVE  RefundsIInv'
<1>1. ChargeOK' /\ NeverRefundedTwice' /\ KeyOK' /\ RowOK' /\ ToldOnce'
  BY ChargeAlone DEF RefundsIInv, ChargeOK, NeverRefundedTwice, OursKept, KeyOK, RowOK, ToldOnce, Told
<1>2. JobsOK'
  BY ChargeAlone DEF RefundsIInv, JobsOK, AsksOK, PlaceOK, SawOK
<1>3. FailuresKnown' /\ TypeOK'
  BY DEF RefundsIInv, FailuresKnown, Told, WillTell, TypeOK
<1> QED
  BY <1>1, <1>2, <1>3 DEF RefundsIInv

\* KeyExpires keeps the invariant.
LEMMA KeyExpiresOK ==
  ASSUME RefundsIInv, KeyExpires
  PROVE  RefundsIInv'
<1>1. /\ UNCHANGED <<ending, booking, row, told, refunds, events, tasks, faults>>
      /\ \A t \in Tasks : tasks[t].pc = "idle"
      /\ key' = Unanswered
  BY DEF KeyExpires, At
<1>2. key' \in KeyType /\ key'.refund = 0
  BY <1>1, RefundNumbers, RefundsAssumption DEF Unanswered, KeyType
<1>3. ChargeOK' /\ NeverRefundedTwice' /\ RowOK' /\ ToldOnce'
  BY <1>1, ChargeAlone DEF RefundsIInv, ChargeOK, NeverRefundedTwice, OursKept, RowOK, ToldOnce, Told
<1>4. JobsOK'
  BY <1>1, ChargeAlone DEF RefundsIInv, JobsOK, AsksOK, PlaceOK, SawOK
<1>5. FailuresKnown' /\ TypeOK' /\ KeyOK'
  BY <1>1, <1>2 DEF RefundsIInv, FailuresKnown, Told, WillTell, TypeOK, KeyType, KeyOK
<1> QED
  BY <1>1, <1>3, <1>4, <1>5 DEF RefundsIInv

\* The invariant holds at the start.
LEMMA RefundsInit ==
  ASSUME Init
  PROVE  RefundsIInv
<1>1. /\ ending \in [pct : Percentages, held : BOOLEAN] /\ booking \in {"awaiting_payment", "ended"}
      /\ row = [settled |-> FALSE, refunded_minor |-> 0, flag |-> FALSE]
      /\ told = <<>> /\ refunds = <<>> /\ key = Unanswered /\ events = {}
      /\ tasks = [t \in Tasks |-> Idle] /\ faults = 0
  BY DEF Init
<1>2. MaxRefunds \in Nat /\ Amount \in Nat /\ MaxFaults \in Nat /\ MaxByHand \in Nat
  BY RefundsAssumption DEF MaxRefunds
<1>3. DOMAIN refunds = {} /\ refunds \in Seq(RefundType) /\ DOMAIN told = {} /\ told \in Seq(0 .. MaxRefunds)
  BY <1>1
<1>4. key \in KeyType /\ key.refund = 0 /\ row \in RowType /\ ~ row.settled
  BY <1>1, <1>2 DEF Unanswered, KeyType, RowType
<1>5. tasks \in [Tasks -> TaskType] /\ \A t \in Tasks : tasks[t] = Idle
  BY <1>1, IdleType
<1>6. TypeOK
  BY <1>1, <1>2, <1>3, <1>4, <1>5 DEF TypeOK, RefundType, KeyType, RowType
<1>7. Ours = {} /\ ByHand = {} /\ Cardinality({}) = 0
  BY <1>3, FS_EmptySet DEF Ours, ByHand
<1>8. AmountRefunded = 0 /\ OursKept = 0
  <2>1. AmountIn(refunds, {}) = 0
    <3>1. {u \in {} \X (1 .. Amount) : u[2] <= refunds[u[1]].amount} = {}
      OBVIOUS
    <3> QED
      BY <3>1, <1>7 DEF AmountIn
  <2>2. /\ {i \in DOMAIN refunds : ~ refunds[i].failed} = {}
        /\ {i \in DOMAIN refunds : refunds[i].ours /\ ~ refunds[i].failed} = {}
    BY <1>3
  <2> QED
    BY <2>1, <2>2 DEF AmountRefunded, OursKept, AmountOf, AmountIn
<1>9. ChargeOK
  BY <1>1, <1>2, <1>7, <1>8 DEF ChargeOK
<1>10. NeverRefundedTwice
  BY <1>6, <1>8, DueFacts DEF NeverRefundedTwice, OursKept
<1>11. JobsOK
  BY <1>5, <1>8, IdleType DEF JobsOK, AsksOK, PlaceOK, SawOK
<1>12. KeyOK /\ FailuresKnown /\ RowOK /\ ToldOnce /\ events \subseteq DOMAIN refunds
  BY <1>1, <1>3, <1>4 DEF KeyOK, FailuresKnown, RowOK, ToldOnce, Told
<1> QED
  BY <1>6, <1>9, <1>10, <1>11, <1>12 DEF RefundsIInv

\* Every step keeps the invariant.
LEMMA RefundsNext ==
  ASSUME RefundsIInv, [Next]_vars
  PROVE  RefundsIInv'
<1>1. ASSUME NEW t \in Tasks, Step(t)
      PROVE  RefundsIInv'
  BY <1>1, RetrieveOK, RefundAgainOK, RefundFirstOK, RefundRefusedOK, AgainOK, RecordOK, ReadRefundOK,
     ReadChargeOK, WriteOK DEF Step
<1>2. ASSUME NEW t \in Tasks, BeginRefund(t) \/ BeginEvent(t) \/ Drop(t) \/ TimesOut(t)
      PROVE  RefundsIInv'
  BY <1>2, BeginRefundOK, BeginEventOK, DropOK, TimesOutOK
<1>3. ASSUME Sweep \/ UNCHANGED vars
      PROVE  RefundsIInv'
  BY <1>3, SweepOK DEF Sweep, vars
<1> QED
  BY <1>1, <1>2, <1>3, RefundFailsOK, HandRefundOK, KeyExpiresOK DEF Next

\* The inductive invariant, of every reachable state.
LEMMA RefundsInvariant == Spec => []RefundsIInv
<1>1. Init => RefundsIInv
  BY RefundsInit
<1>2. RefundsIInv /\ [Next]_vars => RefundsIInv'
  BY RefundsNext
<1> QED
  BY <1>1, <1>2, PTL DEF Spec

\* What settle sends and Stripe keeps is never more than the ending owes, for any amount, percentage
\* and number of jobs: _refund asks for the shortfall it read, and the payment's idempotency key lets
\* one such request through until every job that read before it is done.
THEOREM OwedAtMost == Spec => []NeverRefundedTwice
<1>1. RefundsIInv => NeverRefundedTwice
  BY DEF RefundsIInv
<1> QED
  BY <1>1, RefundsInvariant, PTL

\* Each failed refund is told to the business once, and when no job is left a settled payment that
\* fell short is flagged or told of: no order of Record, refund events, retries and faults loses it.
THEOREM RefundsSound == Spec => []RefundsInv
<1>1. ASSUME RefundsIInv, Quiet, row.settled, AmountRefunded < Due, told = <<>>
      PROVE  row.flag
  <2>1. \A i : ~ Told(i)
    BY <1>1 DEF Told
  <2>2. \A t \in Tasks, i \in DOMAIN refunds : ~ WillTell(t, i)
    BY <1>1 DEF Quiet, At, RefundsIInv, JobsOK, PlaceOK, WillTell
  <2>3. NoneFailed
    BY <1>1, <2>1, <2>2 DEF Quiet, RefundsIInv, FailuresKnown, NoneFailed
  <2> QED
    BY <1>1, <2>3 DEF RefundsIInv, RowOK
<1>2. RefundsIInv => RefundsInv
  BY <1>1 DEF RefundsIInv, RefundsInv, ShortfallIsKnown
<1> QED
  BY <1>2, RefundsInvariant, PTL

=============================================================================
