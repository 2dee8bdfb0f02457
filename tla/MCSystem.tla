------------------------------ MODULE MCSystem ------------------------------
(***************************************************************************)
(* The booking e-mails, the rate limits, the calendar, the services, the    *)
(* erasure ledger and the currency, for TLC.  They keep tables of their     *)
(* own, so a behaviour is one of one of them, the part chosen at the start. *)
(***************************************************************************)
EXTENDS BookingMail, Limits, Calendar, Services, Ledger, Currency, TLC

VARIABLE part

Parts == {"mail", "limits", "calendar", "services", "ledger", "currency"}

systemVars ==
  <<part, mailVars, limitVars, calendarVars, serviceVars, ledgerVars, currencyVars>>

NoJump == [at |-> 0, by |-> 0]

\* Requests are numbers here.  Of the initial states that differ in names alone, one.
HostNo == [h1 |-> 1, h2 |-> 2, h3 |-> 3]

InOrder ==
  LET host(q) == HostNo[requests[q].host] IN
  /\ \A q \in Requests : \A h \in 1 .. host(q) - 1 : \E r \in Requests : host(r) = h
  /\ \A q, r \in Requests :
       q < r => \/ host(q) < host(r)
                \/ host(q) = host(r) /\ (requests[q].proven => requests[r].proven)

SystemInit ==
  /\ part \in Parts
  /\ MailInit /\ LimitsInit /\ CalendarInit /\ ServicesInit /\ LedgerInit /\ CurrencyInit
  /\ InOrder
  /\ part # "mail" => booking.status = "pending" /\ money = "none"
  /\ part # "limits" => \A q \in Requests : requests[q].host = "h1" /\ requests[q].proven
  /\ part # "calendar" => jump = NoJump

\* Bounds: a second thread only for the retry of a run that timed out; of moves, cut-off runs and the
\* erasure two in one behaviour, and no move of a paid booking; while a late run goes on no time passes,
\* no refund moves on, and the booking is where it was placed.
RetryBeside ==
  \A v, w \in Mailers :
    hands[v].pc # "idle" /\ hands[w].pc # "idle" =>
      hands[v].template = hands[w].template /\ hands[v].suffix = hands[w].suffix

TwoOf ==
  /\ booking.stamp + crashes + (IF client.opened \/ client.erased THEN 1 ELSE 0) <= 2
  /\ money # "none" => booking.stamp = 0

SomeLate == \E w \in Mailers : hands[w].late

StillBeside ==
  SomeLate =>
    /\ UNCHANGED <<reached, begun>> /\ money' \in {money, Owed}
    /\ client'.hold = client.hold \/ client'.erased # client.erased

StepMail ==
  /\ part = "mail" /\ MailNext /\ RetryBeside' /\ TwoOf' /\ StillBeside /\ (SomeLate => booking.stamp = 0)'
  /\ UNCHANGED <<part, limitVars, calendarVars, serviceVars, ledgerVars, currencyVars>>

StepLimits ==
  /\ part = "limits" /\ LimitsNext
  /\ UNCHANGED <<part, mailVars, calendarVars, serviceVars, ledgerVars, currencyVars>>

\* Bound: an opening week is being saved beside one appointment at the most; it reads and writes none.
SavedBeside == Cardinality(booked) = MaxBookings => LockWeek

StepCalendar ==
  /\ part = "calendar" /\ CalendarNext /\ SavedBeside'
  /\ UNCHANGED <<part, mailVars, limitVars, serviceVars, ledgerVars, currencyVars>>

\* Bound: the photo and the performers, which no definition reads together, one of them at a time.
OneHalf ==
  \/ performers = {} /\ roster = Workers /\ ~ assigning.on
  \/ photoKey = NoPhoto /\ \A s \in Edits : saving[s] = IdleEdit

StepServices ==
  /\ part = "services" /\ ServicesNext /\ OneHalf'
  /\ UNCHANGED <<part, mailVars, limitVars, calendarVars, ledgerVars, currencyVars>>

StepLedger ==
  /\ part = "ledger" /\ LedgerNext
  /\ UNCHANGED <<part, mailVars, limitVars, calendarVars, serviceVars, currencyVars>>

StepCurrency ==
  /\ part = "currency" /\ CurrencyNext
  /\ UNCHANGED <<part, mailVars, limitVars, calendarVars, serviceVars, ledgerVars>>

SystemNext == StepMail \/ StepLimits \/ StepCalendar \/ StepServices \/ StepLedger \/ StepCurrency

SystemSpec == SystemInit /\ [][SystemNext]_systemVars

LimitOf == [verify |-> 2, placed |-> 1, unproven |-> 1]

TwoServices ==
  [cut |-> [duration |-> 3, buffer |-> NoOverride], tint |-> [duration |-> 2, buffer |-> 0]]

\* A day without a change of the clocks, and one of each kind.
ThreeJumps == {NoJump, [at |-> 4, by |-> 2], [at |-> 4, by |-> -2]}

SomeWeeks == {{}, {<<1, 10>>}, {<<3, 6>>, <<6, 9>>}}

SomeOpenings == {{<<0, 5>>}, {<<5, 7>>, <<8, 10>>}}

SomeBlocks == {[kind |-> "hours", from |-> 4, to |-> 5], [kind |-> "days", from |-> 0, to |-> 0]}

\* No code tells two requests apart.
Interchangeable == Permutations(Savers)

=============================================================================
