----------------------------- MODULE MailProofs -----------------------------
(***************************************************************************)
(* The e-mails of a booking, for any number of threads, moves, crashes and  *)
(* timeouts.                                                                *)
(***************************************************************************)
EXTENDS BookingMail, TLAPS

-----------------------------------------------------------------------------
(* The inductive invariant *)

\* A run with the job m, on time and this far, in the hands h.
TimelyAt(h, m, pc) ==
  \E w \in Mailers :
    h[w].pc = pc /\ ~ h[w].late /\ h[w].template = m.template /\ h[w].suffix = m.suffix

\* A dedupe key names one job; the reminder of a time that is not near waits.
MailsOK ==
  /\ \A m, n \in mails : Key(m) = Key(n) => m = n
  /\ \A m \in mails :
       m.template = "booking_reminder" =>
         m.suffix = m.starts /\ (m.suffix \notin reached => m.state = "queued")

\* A run's job is there; that of a run on time is queued, and no other such run's.
HandsOK ==
  /\ \A w \in Mailers : hands[w].pc = "idle" => hands[w].template = "none"
  /\ \A w \in Mailers : hands[w].pc # "idle" =>
       \E m \in mails :
         /\ Has(w, m) /\ (~ hands[w].late => m.state = "queued")
         /\ m.template = "booking_reminder" => m.suffix \in reached
  /\ \A v, w \in Mailers :
       hands[v].pc # "idle" /\ hands[w].pc # "idle" /\ ~ hands[v].late /\ ~ hands[w].late
         /\ hands[v].template = hands[w].template /\ hands[v].suffix = hands[w].suffix => v = w

\* One handover by a run on time is recorded or about to be; and none while another such run is still to
\* hand the message over, whatever late runs have marked sent in between.
Tally(m, h) ==
  /\ m.recorded <= 1
  /\ (m.outbox # "sent" \/ TimelyAt(h, m, "ready")) /\ ~ TimelyAt(h, m, "delivered") => m.recorded = 0
  /\ TimelyAt(h, m, "delivered") => m.recorded = 1

CountsOK == \A m \in mails : Tally(m, hands)

OpenStatus == {"pending", "lapsed", "confirmed"}

\* Money is owed, and a hold kept, for a booking that ended.
HoldsOK ==
  /\ booking.status \in OpenStatus =>
       /\ money \in {"none", "paid"} /\ \A m \in mails : m.template \notin HOLD_TEMPLATES
       /\ client.erased => client.hold = "none"
  /\ booking.status \notin OpenStatus => money # "paid"
  /\ client.hold # "none" => client.erased
  /\ client.hold = "early" => money \in {"none", "quiet", "failed late"}

MailIInv == MailInv /\ MailsOK /\ HandsOK /\ CountsOK /\ HoldsOK

MoneyStates == {"none", "paid", "owed", "settled lately", "quiet", "failed", "failed late"}

\* The templates are among those with a status of their own.
LEMMA TemplateNames ==
  /\ "none" \notin Templates
  /\ Templates \subseteq
       {"booking_received", "booking_request", "booking_confirmed", "booking_new", "booking_reminder",
        "booking_declined", "booking_cancelled", "booking_cancelled_by_client", "booking_client_cancelled",
        "booking_expired", "booking_client_rescheduled", "booking_moved_team", "booking_refund_failed"}
<1>1. DOMAIN StatusFor =
        {"booking_received", "booking_request", "booking_confirmed", "booking_new", "booking_reminder",
         "booking_declined", "booking_cancelled", "booking_cancelled_by_client", "booking_client_cancelled",
         "booking_expired", "booking_client_rescheduled", "booking_moved_team", "booking_refund_failed"}
  BY DEF StatusFor
<1> QED
  BY <1>1, BookingMailAssumption

\* The types of the state and of the records in it, for the provers.
LEMMA MailFacts ==
  ASSUME MailIInv
  PROVE  /\ booking \in BookingType /\ client \in ClientType /\ money \in MoneyStates
         /\ mails \subseteq MailType /\ hands \in [Mailers -> HandType] /\ links \in BOOLEAN
         /\ reached \subseteq Times /\ begun \subseteq reached /\ crashes \in 0 .. MaxCrashes
         /\ booking.starts \in Times /\ booking.stamp \in 0 .. MaxStamp
         /\ \A m \in mails : /\ m \in MailType /\ m.template \in Templates /\ m.suffix \in KeySuffixes
                             /\ m.starts \in Times \cup {0} /\ m.state \in {"queued", "done", "dead"}
                             /\ m.outbox \in {"none", "pending", "sent"}
                             /\ m.recorded \in Nat
         /\ \A w \in Mailers : hands[w] \in HandType
         /\ Times \subseteq Nat \ {0} /\ MaxStamp \in Nat /\ MaxCrashes \in Nat
<1>1. /\ booking \in BookingType /\ client \in ClientType /\ money \in MoneyStates
      /\ mails \subseteq MailType /\ hands \in [Mailers -> HandType] /\ links \in BOOLEAN
      /\ reached \subseteq Times /\ begun \subseteq reached /\ crashes \in 0 .. MaxCrashes
  BY DEF MailIInv, MailInv, MailTypeOK, MoneyStates
<1>2. booking.starts \in Times /\ booking.stamp \in 0 .. MaxStamp
  BY <1>1 DEF BookingType
<1>3. \A m \in MailType : /\ m.template \in Templates /\ m.suffix \in KeySuffixes
                          /\ m.starts \in Times \cup {0} /\ m.state \in {"queued", "done", "dead"}
                          /\ m.outbox \in {"none", "pending", "sent"}
                          /\ m.recorded \in Nat
  BY DEF MailType
<1> QED
  BY <1>1, <1>2, <1>3, BookingMailAssumption

\* The parts of the invariant that a step has to account for.
LEMMA MailHolds ==
  ASSUME MailTypeOK', ErasedIsForgotten', HoldOutlastsItsMail', ReminderWaits',
         MailsOK', HandsOK', CountsOK', HoldsOK'
  PROVE  MailIInv'
BY DEF MailIInv, MailInv, AgainOnlyIfUnrecorded, CountsOK, Tally

-----------------------------------------------------------------------------
(* What is queued *)

NewMailType ==
  [template : Templates, suffix : KeySuffixes, starts : Times \cup {0}, state : {"queued"},
   outbox : {"none"}, recorded : {0}]

\* What one transaction queues: one of a template, a reminder under the time it is for.
Letters(new) ==
  /\ \A m \in new : m.template \in Templates => m \in NewMailType
  /\ \A m \in new : m.template = "booking_reminder" => m.suffix = m.starts
  /\ \A m, n \in new : m.template = n.template => m = n

\* An e-mail just queued is not handed over and not in the outbox.
LEMMA NewMailFields ==
  ASSUME NEW template, NEW suffix \in KeySuffixes, NEW starts \in Times \cup {0}
  PROVE  /\ NewMail(template, suffix, starts).template = template
         /\ NewMail(template, suffix, starts).suffix = suffix
         /\ NewMail(template, suffix, starts).starts = starts
         /\ template \in Templates => NewMail(template, suffix, starts) \in NewMailType
BY DEF NewMail, NewMailType

\* Part of what may be queued may be queued.
LEMMA FewerLetters ==
  ASSUME NEW new, NEW fewer \in SUBSET new, Letters(new)
  PROVE  Letters(fewer)
BY DEF Letters

\* What the quota lets through of what may be queued may be queued.
LEMMA CountedLetters ==
  ASSUME NEW new, NEW over \in BOOLEAN, Letters(new)
  PROVE  /\ Letters(Counted(new, over)) /\ Counted(new, over) \subseteq new
         /\ ~ over => Counted(new, over) = new
<1>1. Counted(new, over) \subseteq new /\ (~ over => Counted(new, over) = new)
  BY DEF Counted
<1> QED
  BY <1>1, FewerLetters

\* An e-mail that is no reminder may be queued by itself.
LEMMA OneLetter ==
  ASSUME NEW template, template # "booking_reminder", NEW suffix \in KeySuffixes, NEW starts \in Times \cup {0}
  PROVE  Letters({NewMail(template, suffix, starts)})
<1>1. PICK m : m = NewMail(template, suffix, starts)
  OBVIOUS
<1>2. m.template = template /\ (template \in Templates => m \in NewMailType)
  BY <1>1, NewMailFields
<1>3. Letters({m})
  BY <1>2 DEF Letters
<1> QED
  BY <1>1, <1>3

\* Two sets of different templates.
LEMMA MoreLetters ==
  ASSUME NEW new, NEW more, Letters(new), Letters(more), \A m \in new, n \in more : m.template # n.template
  PROVE  Letters(new \cup more)
BY DEF Letters

\* The reminder of a time may be queued, and is unless that time is near.
LEMMA ReminderLetters ==
  ASSUME NEW t \in Times
  PROVE  /\ Letters(Reminder(t)) /\ \A m \in Reminder(t) : m.template = "booking_reminder"
         /\ t \notin reached => \E m \in Reminder(t) : m.template = "booking_reminder" /\ m.suffix = t
<1>1. t \in KeySuffixes /\ t \in Times \cup {0}
  BY DEF KeySuffixes
<1>2. /\ NewMail("booking_reminder", t, t).template = "booking_reminder"
      /\ NewMail("booking_reminder", t, t).suffix = t /\ NewMail("booking_reminder", t, t).starts = t
      /\ "booking_reminder" \in Templates => NewMail("booking_reminder", t, t) \in NewMailType
  BY <1>1, NewMailFields
<1> QED
  BY <1>2 DEF Letters, Reminder

\* A confirmation and its reminder may be queued together.
LEMMA ToldLetters ==
  ASSUME NEW t \in Times, NEW n \in 0 .. MaxStamp
  PROVE  /\ Letters(Told(t, n))
         /\ \A m \in Told(t, n) : m.template \in {"booking_confirmed", "booking_reminder"}
         /\ t \notin reached => \E m \in Told(t, n) : m.template = "booking_reminder" /\ m.suffix = t
<1>1. n \in KeySuffixes /\ t \in Times \cup {0}
  BY DEF KeySuffixes
<1>2. /\ Letters({NewMail("booking_confirmed", n, t)})
      /\ NewMail("booking_confirmed", n, t).template = "booking_confirmed"
  <2>1. Letters({NewMail("booking_confirmed", n, t)})
    BY <1>1, OneLetter
  <2>2. NewMail("booking_confirmed", n, t).template = "booking_confirmed"
    BY <1>1, NewMailFields
  <2> QED
    BY <2>1, <2>2
<1>3. Letters({NewMail("booking_confirmed", n, t)} \cup Reminder(t))
  BY <1>2, ReminderLetters, MoreLetters
<1> QED
  BY <1>2, <1>3, ReminderLetters DEF Told

\* Queued: in the table, once, unless its key was there.
LEMMA QueueOK ==
  ASSUME MailIInv, NEW new, Letters(new), Queue(new), UNCHANGED <<hands, reached, crashes>>
  PROVE  /\ mails' \subseteq MailType /\ MailsOK' /\ HandsOK' /\ CountsOK' /\ mails \subseteq mails'
         /\ \A m \in mails' \ mails : m \in new /\ m.state = "queued"
         /\ \A m \in new : m.template \in Templates => \E n \in mails' : n.template = m.template /\ n.suffix = m.suffix
<1> DEFINE added == {m \in new : m.template \in Templates /\ \A old \in mails : Key(old) # Key(m)}
<1>1. mails' = mails \cup added
  BY DEF Queue
<1>2. \A m \in added : /\ m \in NewMailType /\ m.template \in Templates /\ m \in new
                       /\ \A old \in mails : Key(old) # Key(m)
  BY DEF Letters
<1>3. \A m \in new : m.template \in Templates => m \in added \/ \E old \in mails : Key(old) = Key(m)
  OBVIOUS
<1> HIDE DEF added
<1>4. \A m \in NewMailType : /\ m \in MailType /\ m.state = "queued" /\ m.outbox = "none"
                             /\ m.recorded = 0
  BY MailFacts DEF NewMailType, MailType
<1>5. mails' \subseteq MailType /\ mails \subseteq mails' /\ \A m \in mails' \ mails : m \in new /\ m.state = "queued"
  BY <1>1, <1>2, <1>4, MailFacts
<1>6. \A m, n \in mails' : Key(m) = Key(n) => m = n
  <2>1. ASSUME NEW m \in added, NEW n \in added, Key(m) = Key(n) PROVE m = n
    BY <1>2, <2>1 DEF Letters, Key
  <2>2. ASSUME NEW m \in mails, NEW n \in mails, Key(m) = Key(n) PROVE m = n
    BY <2>2 DEF MailIInv, MailsOK
  <2> QED
    BY <1>1, <1>2, <2>1, <2>2
<1>7. MailsOK'
  <2>1. \A m \in added : m.template = "booking_reminder" =>
                           m.suffix = m.starts /\ (m.suffix \notin reached' => m.state = "queued")
    BY <1>2, <1>4, MailFacts DEF Letters
  <2> QED
    BY <1>1, <1>6, <2>1 DEF MailIInv, MailsOK, Key
<1>8. HandsOK'
  BY <1>5 DEF MailIInv, HandsOK, Has
<1>9. CountsOK'
  <2>1. ASSUME NEW m \in added, NEW w \in Mailers, hands[w].pc # "idle" PROVE ~ Has(w, m)
    BY <1>2, <2>1 DEF MailIInv, HandsOK, Has, Key
  <2>2. \A m \in added : ~ TimelyAt(hands, m, "ready") /\ ~ TimelyAt(hands, m, "delivered")
    BY <2>1 DEF TimelyAt, Has
  <2>3. \A m \in added : Tally(m, hands)
    BY <1>2, <1>4, <2>2 DEF Tally
  <2> QED
    BY <1>1, <2>3 DEF MailIInv, CountsOK
<1>10. \A m \in new : m.template \in Templates => \E n \in mails' : n.template = m.template /\ n.suffix = m.suffix
  BY <1>1, <1>3 DEF Key
<1> QED
  BY <1>5, <1>7, <1>8, <1>9, <1>10

\* A step that touches no e-mail and no worker keeps what is said of them.
LEMMA NothingQueued ==
  ASSUME MailIInv, UNCHANGED <<mails, hands, crashes>>, reached \subseteq reached'
  PROVE  MailsOK' /\ HandsOK' /\ CountsOK'
BY DEF MailIInv, MailsOK, HandsOK, CountsOK, Has, Key

-----------------------------------------------------------------------------
(* What happens to the booking *)

\* A reminder that is queued, of a time that is not near, waits.
LEMMA RemindersWait ==
  ASSUME MailsOK',
         /\ "booking_reminder" \in Templates /\ booking'.status = "confirmed" /\ ~ client'.erased
         /\ booking'.starts \notin reached' /\ ~ booking'.unheard
         => \E n \in mails' : n.template = "booking_reminder" /\ n.suffix = booking'.starts
  PROVE  ReminderWaits'
BY DEF MailsOK, ReminderWaits

\* A booking that has not ended owes nothing, and needs no hold.
LEMMA WhileOpen ==
  ASSUME MailIInv, booking.status \in OpenStatus
  PROVE  /\ client.hold # "early" /\ money \in {"none", "paid"}
         /\ \A m \in mails : m.template \notin HOLD_TEMPLATES
         /\ client.erased => client.hold = "none"
BY DEF MailIInv, HoldsOK

\* A confirmed booking is told its time, and reminded of it unless the quota keeps that back.
LEMMA ToldStep ==
  ASSUME MailIInv, booking.status \in OpenStatus,
         NEW over \in BOOLEAN, NEW new, Letters(new), Queue(Counted(new, over)),
         \A m \in new : m.template \notin HOLD_TEMPLATES,
         UNCHANGED <<client, money, hands, links, reached, begun, crashes>>,
         booking' \in BookingType, booking'.status \in OpenStatus,
         booking'.unheard = over \/ booking'.starts \in reached \/ booking'.status # "confirmed",
         booking'.status = "confirmed" /\ booking'.starts \notin reached =>
           \E m \in new : m.template = "booking_reminder" /\ m.suffix = booking'.starts
  PROVE  MailIInv'
<1>1. Letters(Counted(new, over)) /\ Counted(new, over) \subseteq new /\ (~ over => Counted(new, over) = new)
  BY CountedLetters
<1>2. PICK queued : queued = Counted(new, over)
  OBVIOUS
<1>3. Letters(queued) /\ Queue(queued)
  BY <1>1, <1>2
<1>4. /\ mails' \subseteq MailType /\ MailsOK' /\ HandsOK' /\ CountsOK' /\ mails \subseteq mails'
      /\ \A m \in mails' \ mails : m \in queued /\ m.state = "queued"
      /\ \A m \in queued : m.template \in Templates =>
           \E n \in mails' : n.template = m.template /\ n.suffix = m.suffix
  BY <1>3, QueueOK
<1>5. MailTypeOK'
  BY <1>4, MailFacts DEF MailTypeOK, MoneyStates
<1>6. ErasedIsForgotten' /\ HoldOutlastsItsMail'
  BY WhileOpen DEF MailIInv, MailInv, ErasedIsForgotten, HoldOutlastsItsMail
<1>7. HoldsOK'
  <2>1. \A m \in mails' : m.template \notin HOLD_TEMPLATES
    BY <1>1, <1>2, <1>4, WhileOpen
  <2> QED
    BY <2>1, WhileOpen DEF MailIInv, HoldsOK
<1>8. ReminderWaits'
  <2>1. ASSUME "booking_reminder" \in Templates, booking'.status = "confirmed", booking'.starts \notin reached,
               ~ booking'.unheard
        PROVE  \E n \in mails' : n.template = "booking_reminder" /\ n.suffix = booking'.starts
    <3>1. ~ over /\ queued = new
      BY <1>1, <1>2, <2>1
    <3>2. PICK m \in new : m.template = "booking_reminder" /\ m.suffix = booking'.starts
      BY <2>1
    <3> QED
      BY <1>4, <2>1, <3>1, <3>2
  <2> QED
    BY <1>4, <2>1, RemindersWait
<1> QED
  BY <1>4, <1>5, <1>6, <1>7, <1>8, MailHolds

\* AcceptRequest keeps the invariant.
LEMMA AcceptRequestOK ==
  ASSUME MailIInv, AcceptRequest
  PROVE  MailIInv'
<1>1. booking.status = "pending" /\ UNCHANGED <<client, money, hands, links, reached, begun, crashes>>
  BY DEF AcceptRequest
<1>2. PICK over \in BOOLEAN :
        /\ booking' = [booking EXCEPT !.status = "confirmed", !.unheard = over /\ booking.starts \notin reached]
        /\ Queue(Counted(Told(booking.starts, 0), over))
  BY DEF AcceptRequest
<1>3. /\ booking' \in BookingType /\ booking'.status = "confirmed" /\ booking'.starts = booking.starts
      /\ booking'.unheard = (over /\ booking.starts \notin reached)
  BY <1>2, MailFacts DEF BookingType
<1>4. booking.starts \in Times /\ 0 \in 0 .. MaxStamp
  BY MailFacts
<1>5. /\ Letters(Told(booking.starts, 0))
      /\ \A m \in Told(booking.starts, 0) : m.template \in {"booking_confirmed", "booking_reminder"}
      /\ booking.starts \notin reached =>
           \E m \in Told(booking.starts, 0) : m.template = "booking_reminder" /\ m.suffix = booking.starts
  BY <1>4, ToldLetters
<1>6. \A m \in Told(booking.starts, 0) : m.template \notin HOLD_TEMPLATES
  BY <1>5 DEF HOLD_TEMPLATES
<1>7. booking.status \in OpenStatus /\ booking'.status \in OpenStatus
  BY <1>1, <1>3 DEF OpenStatus
<1>8. booking'.unheard = over \/ booking'.starts \in reached \/ booking'.status # "confirmed"
  BY <1>3
<1> QED
  BY <1>1, <1>2, <1>3, <1>5, <1>6, <1>7, <1>8, ToldStep

\* TeamMoves keeps the invariant.
LEMMA TeamMovesOK ==
  ASSUME MailIInv, NEW t \in Times, TeamMoves(t)
  PROVE  MailIInv'
<1> DEFINE n == booking.stamp + 1
           told == Told(t, n) \cup {NewMail("booking_moved_team", n, t)}
<1>1. /\ booking.status = "confirmed" /\ booking.stamp < MaxStamp
      /\ UNCHANGED <<client, money, hands, links, reached, begun, crashes>>
  BY DEF TeamMoves
<1>2. PICK over \in BOOLEAN :
        /\ booking' = [booking EXCEPT !.starts = t, !.stamp = n, !.unheard = over /\ t \notin reached]
        /\ Queue(IF t \in begun THEN {} ELSE Counted(told, over))
  BY DEF TeamMoves
<1>3. n \in 0 .. MaxStamp
  BY <1>1, MailFacts
<1> HIDE DEF n
<1>4. /\ booking' \in BookingType /\ booking'.status = "confirmed" /\ booking'.starts = t
      /\ booking'.unheard = (over /\ t \notin reached)
  BY <1>1, <1>2, <1>3, MailFacts DEF BookingType
<1>5. /\ Letters(Told(t, n)) /\ \A m \in Told(t, n) : m.template \in {"booking_confirmed", "booking_reminder"}
      /\ t \notin reached => \E m \in Told(t, n) : m.template = "booking_reminder" /\ m.suffix = t
  BY <1>3, ToldLetters
<1>6. n \in KeySuffixes /\ t \in Times \cup {0}
  BY <1>3 DEF KeySuffixes
<1>7. Letters({NewMail("booking_moved_team", n, t)})
  BY <1>6, OneLetter
<1>8. NewMail("booking_moved_team", n, t).template = "booking_moved_team"
  BY <1>6, NewMailFields
<1>9. Letters(told)
  BY <1>5, <1>7, <1>8, MoreLetters
<1>10. \A m \in told : m.template \notin HOLD_TEMPLATES
  BY <1>5, <1>8 DEF HOLD_TEMPLATES
<1>11. t \notin reached => \E m \in told : m.template = "booking_reminder" /\ m.suffix = t
  BY <1>5
<1>12. booking.status \in OpenStatus /\ booking'.status \in OpenStatus
  BY <1>1, <1>4 DEF OpenStatus
<1> HIDE DEF told
<1>13. CASE t \in begun
  <2>1. t \in reached
    BY <1>13, MailFacts
  <2>2. Letters({}) /\ Counted({}, over) = {}
    BY DEF Letters, Counted
  <2>3. Queue(Counted({}, over))
    BY <1>2, <1>13, <2>2
  <2> QED
    BY <1>1, <1>4, <1>12, <2>1, <2>2, <2>3, ToldStep
<1>14. CASE t \notin begun
  <2>1. Queue(Counted(told, over))
    BY <1>2, <1>14
  <2>2. booking'.unheard = over \/ booking'.starts \in reached \/ booking'.status # "confirmed"
    BY <1>4
  <2> QED
    BY <1>1, <1>4, <1>9, <1>10, <1>11, <1>12, <2>1, <2>2, ToldStep
<1> QED
  BY <1>13, <1>14

\* ClientMoves keeps the invariant.
LEMMA ClientMovesOK ==
  ASSUME MailIInv, NEW t \in Times, ClientMoves(t)
  PROVE  MailIInv'
<1> DEFINE n == booking.stamp + 1
           confirmed == booking.status = "confirmed"
           rest == IF confirmed THEN Told(t, n) ELSE {NewMail("booking_received", n, t)}
           told == {NewMail("booking_client_rescheduled", n, t)} \cup rest
<1>1. /\ booking.status \in {"confirmed", "pending"} /\ booking.stamp < MaxStamp
      /\ UNCHANGED <<client, money, hands, links, reached, begun, crashes>>
  BY DEF ClientMoves
<1>2. PICK over \in BOOLEAN :
        /\ booking' = [booking EXCEPT !.starts = t, !.stamp = n, !.unheard = over /\ confirmed /\ t \notin reached]
        /\ Queue(Counted(told, over))
  BY DEF ClientMoves
<1>3. n \in 0 .. MaxStamp
  BY <1>1, MailFacts
<1> HIDE DEF n
<1>4. /\ booking' \in BookingType /\ booking'.status = booking.status /\ booking'.starts = t
      /\ booking'.unheard = (over /\ confirmed /\ t \notin reached)
  BY <1>1, <1>2, <1>3, MailFacts DEF BookingType
<1>5. n \in KeySuffixes /\ t \in Times \cup {0}
  BY <1>3 DEF KeySuffixes
<1>6. /\ Letters({NewMail("booking_client_rescheduled", n, t)}) /\ Letters({NewMail("booking_received", n, t)})
  BY <1>5, OneLetter
<1>7. NewMail("booking_client_rescheduled", n, t).template = "booking_client_rescheduled"
  BY DEF NewMail
<1>8. NewMail("booking_received", n, t).template = "booking_received"
  BY DEF NewMail
<1>9. /\ Letters(rest)
      /\ \A m \in rest : m.template \in {"booking_confirmed", "booking_reminder", "booking_received"}
      /\ confirmed /\ t \notin reached => \E m \in rest : m.template = "booking_reminder" /\ m.suffix = t
  <2>1. CASE confirmed
    BY <1>3, <2>1, ToldLetters
  <2>2. CASE ~ confirmed
    BY <1>6, <1>8, <2>2
  <2> QED
    BY <2>1, <2>2
<1> HIDE DEF rest
<1>10. Letters(told)
  BY <1>6, <1>7, <1>9, MoreLetters
<1>11. \A m \in told : m.template \notin HOLD_TEMPLATES
  BY <1>7, <1>9 DEF HOLD_TEMPLATES
<1>12. booking'.status = "confirmed" /\ t \notin reached => \E m \in told : m.template = "booking_reminder" /\ m.suffix = t
  BY <1>4, <1>9
<1>13. booking.status \in OpenStatus /\ booking'.status \in OpenStatus
  BY <1>1, <1>4 DEF OpenStatus
<1>14. booking'.unheard = over \/ booking'.starts \in reached \/ booking'.status # "confirmed"
  BY <1>4
<1> HIDE DEF told
<1> QED
  BY <1>1, <1>2, <1>4, <1>10, <1>11, <1>12, <1>13, <1>14, ToldStep

-----------------------------------------------------------------------------
(* Endings, refunds, time and erasure *)

\* What an ending owes: what was paid, or nothing.
LEMMA EndedMoney ==
  ASSUME MailIInv, booking.status \in OpenStatus
  PROVE  Owed \in {"none", "owed"}
BY WhileOpen DEF Owed

\* The booking ends, with nothing or with what is queued for it.
LEMMA EndedStep ==
  ASSUME MailIInv, booking.status \in OpenStatus,
         UNCHANGED <<client, hands, links, reached, begun, crashes>>,
         money' = Owed, booking' \in BookingType, booking'.status \notin OpenStatus,
         mails' \subseteq MailType, MailsOK', HandsOK', CountsOK'
  PROVE  MailIInv'
<1>1. MailTypeOK'
  BY EndedMoney, MailFacts DEF MailTypeOK
<1>2. ErasedIsForgotten' /\ HoldOutlastsItsMail'
  BY WhileOpen DEF MailIInv, MailInv, ErasedIsForgotten, HoldOutlastsItsMail
<1>3. HoldsOK'
  BY EndedMoney, WhileOpen DEF MailIInv, HoldsOK
<1>4. ReminderWaits'
  BY DEF ReminderWaits, OpenStatus
<1> QED
  BY <1>1, <1>2, <1>3, <1>4, MailHolds

\* TeamEnds keeps the invariant.
LEMMA TeamEndsOK ==
  ASSUME MailIInv, NEW status \in {"declined", "cancelled_by_merchant"}, NEW meanwhile \in BOOLEAN,
         TeamEnds(status, meanwhile)
  PROVE  MailIInv'
<1> DEFINE template == IF status = "declined" THEN "booking_declined" ELSE "booking_cancelled"
<1>1. /\ booking.status \in {"pending", "confirmed"} /\ money' = Owed
      /\ UNCHANGED <<client, hands, links, reached, begun, crashes>>
      /\ booking' = [booking EXCEPT !.status = status,
                                    !.ended = IF client.erased THEN "after erasure"
                                              ELSE IF meanwhile THEN "meanwhile" ELSE "team"]
  BY DEF TeamEnds
<1>2. PICK over \in BOOLEAN : Queue(Counted({NewMail(template, 0, 0)}, over))
  BY DEF TeamEnds
<1>3. booking' \in BookingType /\ booking'.status = status
  BY <1>1, MailFacts DEF BookingType
<1>4. template # "booking_reminder" /\ 0 \in KeySuffixes
  BY MailFacts DEF KeySuffixes
<1> HIDE DEF template
<1>5. Letters({NewMail(template, 0, 0)})
  BY <1>4, OneLetter
<1>6. PICK queued : queued = Counted({NewMail(template, 0, 0)}, over)
  OBVIOUS
<1>7. Letters(queued) /\ Queue(queued)
  BY <1>2, <1>5, <1>6, CountedLetters
<1>8. mails' \subseteq MailType /\ MailsOK' /\ HandsOK' /\ CountsOK'
  BY <1>1, <1>7, QueueOK
<1>9. booking.status \in OpenStatus /\ booking'.status \notin OpenStatus
  BY <1>1, <1>3 DEF OpenStatus
<1> QED
  BY <1>1, <1>3, <1>8, <1>9, EndedStep

\* ClientCancels keeps the invariant.
LEMMA ClientCancelsOK ==
  ASSUME MailIInv, ClientCancels
  PROVE  MailIInv'
<1> DEFINE new == {NewMail("booking_cancelled_by_client", 0, 0), NewMail("booking_client_cancelled", 0, 0)}
<1>1. /\ booking.status \in {"pending", "confirmed"} /\ money' = Owed
      /\ UNCHANGED <<client, hands, links, reached, begun, crashes>>
      /\ booking' = [booking EXCEPT !.status = "cancelled_by_client"]
  BY DEF ClientCancels
<1>2. PICK over \in BOOLEAN : Queue(Counted(new, over))
  BY DEF ClientCancels
<1>3. booking' \in BookingType /\ booking'.status = "cancelled_by_client"
  BY <1>1, MailFacts DEF BookingType
<1>4. 0 \in KeySuffixes
  BY MailFacts DEF KeySuffixes
<1>5. Letters({NewMail("booking_cancelled_by_client", 0, 0)}) /\ Letters({NewMail("booking_client_cancelled", 0, 0)})
  BY <1>4, OneLetter
<1>6. /\ NewMail("booking_cancelled_by_client", 0, 0).template = "booking_cancelled_by_client"
      /\ NewMail("booking_client_cancelled", 0, 0).template = "booking_client_cancelled"
  BY DEF NewMail
<1>7. Letters({NewMail("booking_cancelled_by_client", 0, 0)} \cup {NewMail("booking_client_cancelled", 0, 0)})
  BY <1>5, <1>6, MoreLetters
<1>8. new = {NewMail("booking_cancelled_by_client", 0, 0)} \cup {NewMail("booking_client_cancelled", 0, 0)}
  OBVIOUS
<1> HIDE DEF new
<1>9. PICK queued : queued = Counted(new, over)
  OBVIOUS
<1>10. Letters(queued) /\ Queue(queued)
  BY <1>2, <1>7, <1>8, <1>9, CountedLetters
<1>11. mails' \subseteq MailType /\ MailsOK' /\ HandsOK' /\ CountsOK'
  BY <1>1, <1>10, QueueOK
<1>12. booking.status \in OpenStatus /\ booking'.status \notin OpenStatus
  BY <1>1, <1>3 DEF OpenStatus
<1> QED
  BY <1>1, <1>3, <1>11, <1>12, EndedStep

\* RequestLapses keeps the invariant.
LEMMA RequestLapsesOK ==
  ASSUME MailIInv, RequestLapses
  PROVE  MailIInv'
<1>1. /\ booking.status = "pending" /\ booking' = [booking EXCEPT !.status = "lapsed"]
      /\ UNCHANGED <<client, money, mails, hands, links, reached, begun, crashes>>
  BY DEF RequestLapses
<1>2. booking' \in BookingType /\ booking'.status = "lapsed" /\ booking'.ended = booking.ended
  BY <1>1, MailFacts DEF BookingType
<1>3. MailsOK' /\ HandsOK' /\ CountsOK'
  BY <1>1, NothingQueued
<1>4. MailTypeOK'
  BY <1>1, <1>2, MailFacts DEF MailTypeOK, MoneyStates
<1>5. booking.status \in OpenStatus /\ booking'.status \in OpenStatus
  BY <1>1, <1>2 DEF OpenStatus
<1>6. ErasedIsForgotten' /\ HoldOutlastsItsMail' /\ HoldsOK'
  BY <1>1, <1>5, WhileOpen DEF MailIInv, MailInv, ErasedIsForgotten, HoldOutlastsItsMail, HoldsOK
<1>7. ReminderWaits'
  BY <1>2 DEF ReminderWaits
<1> QED
  BY <1>3, <1>4, <1>6, <1>7, MailHolds

\* RequestExpires keeps the invariant.
LEMMA RequestExpiresOK ==
  ASSUME MailIInv, RequestExpires
  PROVE  MailIInv'
<1>1. /\ booking.status = "lapsed" /\ booking' = [booking EXCEPT !.status = "expired"] /\ money' = Owed
      /\ UNCHANGED <<client, mails, hands, links, reached, begun, crashes>>
  BY DEF RequestExpires
<1>2. booking' \in BookingType /\ booking'.status = "expired"
  BY <1>1, MailFacts DEF BookingType
<1>3. MailsOK' /\ HandsOK' /\ CountsOK'
  BY <1>1, NothingQueued
<1>4. booking.status \in OpenStatus /\ booking'.status \notin OpenStatus
  BY <1>1, <1>2 DEF OpenStatus
<1> QED
  BY <1>1, <1>2, <1>3, <1>4, MailFacts, EndedStep

\* Only the money of a booking that ended moves on.
LEMMA MoneyStep ==
  ASSUME MailIInv, UNCHANGED <<booking, client, hands, links, reached, begun, crashes>>,
         money \notin {"none", "paid"}, money' \in MoneyStates \ {"paid"},
         mails' \subseteq MailType, MailsOK', HandsOK', CountsOK',
         client.hold = "early" => money' = "failed late"
  PROVE  MailIInv'
<1>1. booking.status \notin OpenStatus
  BY DEF MailIInv, HoldsOK
<1>2. MailTypeOK'
  BY MailFacts DEF MailTypeOK, MoneyStates
<1>3. ErasedIsForgotten' /\ HoldOutlastsItsMail' /\ HoldsOK'
  BY <1>1 DEF MailIInv, MailInv, ErasedIsForgotten, HoldOutlastsItsMail, HoldsOK
<1>4. ReminderWaits'
  BY <1>1 DEF ReminderWaits, OpenStatus
<1> QED
  BY <1>2, <1>3, <1>4, MailHolds

\* RefundSettles keeps the invariant.
LEMMA RefundSettlesOK ==
  ASSUME MailIInv, RefundSettles
  PROVE  MailIInv'
<1>1. /\ money = "owed" /\ money' = "settled lately"
      /\ UNCHANGED <<booking, client, hands, links, reached, begun, crashes>>
  BY DEF RefundSettles
<1>2. mails' \subseteq MailType /\ MailsOK' /\ HandsOK' /\ CountsOK'
  <2>1. CASE booking.status = "expired"
    <3>1. PICK over \in BOOLEAN : Queue(Counted({NewMail("booking_expired", 0, 0)}, over))
      BY <2>1 DEF RefundSettles
    <3>2. 0 \in KeySuffixes
      BY MailFacts DEF KeySuffixes
    <3>3. Letters({NewMail("booking_expired", 0, 0)})
      BY <3>2, OneLetter
    <3>4. PICK queued : queued = Counted({NewMail("booking_expired", 0, 0)}, over)
      OBVIOUS
    <3>5. Letters(queued) /\ Queue(queued)
      BY <3>1, <3>3, <3>4, CountedLetters
    <3> QED
      BY <1>1, <3>5, QueueOK
  <2>2. CASE booking.status # "expired"
    BY <1>1, <2>2, NothingQueued, MailFacts DEF RefundSettles
  <2> QED
    BY <2>1, <2>2
<1>3. client.hold # "early"
  BY <1>1 DEF MailIInv, HoldsOK
<1> QED
  BY <1>1, <1>2, <1>3, MoneyStep DEF MoneyStates

\* RefundFails keeps the invariant.
LEMMA RefundFailsOK ==
  ASSUME MailIInv, RefundFails
  PROVE  MailIInv'
<1>1. /\ money \in {"owed", "settled lately", "quiet"}
      /\ money' = IF money = "quiet" THEN "failed late" ELSE "failed"
      /\ UNCHANGED <<booking, client, hands, links, reached, begun, crashes>>
  BY DEF RefundFails
<1>2. mails' \subseteq MailType /\ MailsOK' /\ HandsOK' /\ CountsOK'
  <2>1. CASE client.erased
    <3>1. Queue({NewMail("booking_refund_failed", 0, 0)})
      BY <2>1 DEF RefundFails
    <3>2. 0 \in KeySuffixes
      BY MailFacts DEF KeySuffixes
    <3>3. Letters({NewMail("booking_refund_failed", 0, 0)})
      BY <3>2, OneLetter
    <3> QED
      BY <1>1, <3>1, <3>3, QueueOK
  <2>2. CASE ~ client.erased
    BY <1>1, <2>2, NothingQueued, MailFacts DEF RefundFails
  <2> QED
    BY <2>1, <2>2
<1>3. client.hold = "early" => money' = "failed late"
  BY <1>1 DEF MailIInv, HoldsOK
<1> QED
  BY <1>1, <1>2, <1>3, MoneyStep DEF MoneyStates

\* WeekPasses keeps the invariant.
LEMMA WeekPassesOK ==
  ASSUME MailIInv, WeekPasses
  PROVE  MailIInv'
<1>1. /\ money = "settled lately" /\ money' = "quiet"
      /\ UNCHANGED <<booking, client, mails, hands, links, reached, begun, crashes>>
  BY DEF WeekPasses
<1>2. MailsOK' /\ HandsOK' /\ CountsOK' /\ mails' \subseteq MailType
  BY <1>1, NothingQueued, MailFacts
<1>3. client.hold # "early"
  BY <1>1 DEF MailIInv, HoldsOK
<1> QED
  BY <1>1, <1>2, <1>3, MoneyStep DEF MoneyStates

\* StartNears keeps the invariant.
LEMMA StartNearsOK ==
  ASSUME MailIInv, NEW t \in Times, StartNears(t)
  PROVE  MailIInv'
<1>1. /\ UNCHANGED <<booking, client, money, mails, hands, links, crashes>>
      /\ reached \subseteq reached' /\ reached' \subseteq Times /\ begun' \subseteq reached'
  BY MailFacts DEF StartNears
<1>2. MailsOK' /\ HandsOK' /\ CountsOK'
  BY <1>1, NothingQueued
<1>3. MailTypeOK'
  BY <1>1, MailFacts DEF MailTypeOK, MoneyStates
<1>4. ErasedIsForgotten' /\ HoldsOK'
  BY <1>1 DEF MailIInv, MailInv, ErasedIsForgotten, HoldsOK
<1>5. HoldOutlastsItsMail'
  BY <1>1 DEF MailIInv, MailInv, HoldOutlastsItsMail, Entitled
<1>6. ReminderWaits'
  BY <1>1 DEF MailIInv, MailInv, ReminderWaits
<1> QED
  BY <1>2, <1>3, <1>4, <1>5, <1>6, MailHolds

\* The hold's date comes, or the hold is purged: nothing else changes.
LEMMA HoldStep ==
  ASSUME MailIInv, UNCHANGED <<booking, money, mails, hands, links, reached, begun, crashes>>,
         client' \in ClientType, client'.erased = client.erased, client.hold # "none",
         client'.hold = "early" => money \in {"none", "paid", "quiet"}
                                     /\ \A m \in mails : m.state = "queued" => m.template \notin HOLD_TEMPLATES
  PROVE  MailIInv'
<1>1. MailsOK' /\ HandsOK' /\ CountsOK'
  BY NothingQueued
<1>2. MailTypeOK'
  BY MailFacts DEF MailTypeOK, MoneyStates
<1>3. client.erased /\ booking.status \notin OpenStatus /\ money # "paid"
  BY DEF MailIInv, HoldsOK
<1>4. ErasedIsForgotten'
  BY DEF MailIInv, MailInv, ErasedIsForgotten
<1>5. HoldsOK'
  BY <1>3 DEF HoldsOK
<1>6. HoldOutlastsItsMail'
  BY DEF HoldOutlastsItsMail, Entitled
<1>7. ReminderWaits'
  BY <1>3 DEF ReminderWaits
<1> QED
  BY <1>1, <1>2, <1>4, <1>5, <1>6, <1>7, MailHolds

\* HoldDate keeps the invariant.
LEMMA HoldDateOK ==
  ASSUME MailIInv, HoldDate
  PROVE  MailIInv'
<1>1. /\ client.hold = "live" /\ client' = [client EXCEPT !.hold = "late"]
      /\ UNCHANGED <<booking, money, mails, hands, links, reached, begun, crashes>>
  BY DEF HoldDate
<1>2. client' \in ClientType /\ client'.erased = client.erased /\ client'.hold = "late"
  BY <1>1, MailFacts DEF ClientType
<1> QED
  BY <1>1, <1>2, HoldStep

\* PurgeHold keeps the invariant.
LEMMA PurgeHoldOK ==
  ASSUME MailIInv, PurgeHold
  PROVE  MailIInv'
<1> DEFINE hold == IF client.hold = "late" THEN "none" ELSE "early"
<1>1. /\ client.hold \in {"live", "late"} /\ (client.hold = "late" \/ ~ HoldNeeded)
      /\ client' = [client EXCEPT !.hold = hold]
      /\ UNCHANGED <<booking, money, mails, hands, links, reached, begun, crashes>>
  BY DEF PurgeHold
<1>2. client' \in ClientType /\ client'.erased = client.erased /\ client'.hold = hold
  BY <1>1, MailFacts DEF ClientType
<1>3. ~ HoldNeeded => money \in {"none", "paid", "quiet"}
                        /\ \A m \in mails : m.state = "queued" => m.template \notin HOLD_TEMPLATES
  BY MailFacts DEF HoldNeeded, MoneyStates
<1> QED
  BY <1>1, <1>2, <1>3, HoldStep

\* OpenErase keeps the invariant.
LEMMA OpenEraseOK ==
  ASSUME MailIInv, OpenErase
  PROVE  MailIInv'
<1>1. /\ ~ client.erased /\ UNCHANGED <<money, mails, hands, links, reached, begun, crashes>>
      /\ client' = [client EXCEPT !.opened = TRUE, !.begun = begun, !.lapsed = booking.status = "lapsed"]
      /\ booking' = [booking EXCEPT !.ended = IF @ = "meanwhile" THEN "team" ELSE @]
  BY DEF OpenErase
<1>2. begun \in SUBSET Times
  BY MailFacts
<1>3. client' \in ClientType /\ ~ client'.erased /\ client'.hold = client.hold
  BY <1>1, <1>2, MailFacts DEF ClientType
<1>4. /\ booking' \in BookingType /\ booking'.status = booking.status /\ booking'.starts = booking.starts
      /\ booking'.unheard = booking.unheard
  BY <1>1, MailFacts DEF BookingType
<1>5. MailsOK' /\ HandsOK' /\ CountsOK'
  BY <1>1, NothingQueued
<1>6. MailTypeOK'
  BY <1>1, <1>3, <1>4, MailFacts DEF MailTypeOK, MoneyStates
<1>7. HoldsOK'
  BY <1>1, <1>3, <1>4 DEF MailIInv, HoldsOK
<1>8. ErasedIsForgotten'
  BY <1>3 DEF ErasedIsForgotten
<1>9. HoldOutlastsItsMail'
  BY <1>1, <1>3 DEF MailIInv, HoldsOK, HoldOutlastsItsMail
<1>10. ReminderWaits'
  BY <1>1, <1>4 DEF MailIInv, MailInv, ReminderWaits
<1> QED
  BY <1>5, <1>6, <1>7, <1>8, <1>9, <1>10, MailHolds

\* Erase keeps the invariant.
LEMMA EraseOK ==
  ASSUME MailIInv, NEW announce \in BOOLEAN, NEW since \in BOOLEAN, Erase(announce, since)
  PROVE  MailIInv'
<1> DEFINE live == \/ booking.status = "pending"
                   \/ booking.status = "lapsed" /\ (since \/ ~ client.lapsed)
                   \/ booking.status = "confirmed" /\ (since \/ booking.starts \notin client.begun)
           needed == (announce /\ live) \/ HoldNeeded \/ (live /\ money = "paid")
<1>1. /\ ~ ClientLocked /\ links' = FALSE
      /\ UNCHANGED <<hands, reached, begun, crashes>>
      /\ booking' = IF live THEN [booking EXCEPT !.status = "cancelled_by_merchant",
                                                 !.ended = IF announce THEN "announced" ELSE "reapplied"]
                    ELSE booking
      /\ money' = IF live THEN Owed ELSE money
      /\ client' = [erased |-> TRUE, opened |-> FALSE, begun |-> {}, lapsed |-> FALSE,
                    hold |-> IF needed THEN "live" ELSE "none"]
  BY DEF Erase
<1>2. IF announce /\ live THEN Queue({NewMail("booking_cancelled", 0, 0)}) ELSE UNCHANGED mails
  BY DEF Erase
<1>3. /\ client' \in ClientType /\ client'.erased = TRUE /\ client'.hold \in {"live", "none"}
      /\ client'.hold = "live" => needed
  BY <1>1 DEF ClientType
<1>4. live => booking.status \in OpenStatus
  BY DEF OpenStatus
<1>5. /\ booking' \in BookingType /\ (live => booking'.status = "cancelled_by_merchant")
      /\ (~ live => booking'.status = booking.status)
  <2>1. CASE live
    BY <1>1, <2>1, MailFacts DEF BookingType
  <2>2. CASE ~ live
    BY <1>1, <2>2, MailFacts
  <2> QED
    BY <2>1, <2>2
<1> HIDE DEF live, needed
<1>6. mails' \subseteq MailType /\ MailsOK' /\ HandsOK' /\ CountsOK' /\ (~ live => mails' = mails)
  <2>1. CASE announce /\ live
    <3>1. 0 \in KeySuffixes
      BY MailFacts DEF KeySuffixes
    <3>2. Letters({NewMail("booking_cancelled", 0, 0)})
      BY <3>1, OneLetter
    <3> QED
      BY <1>1, <1>2, <2>1, <3>2, QueueOK
  <2>2. CASE ~ (announce /\ live)
    BY <1>1, <1>2, <2>2, NothingQueued, MailFacts
  <2> QED
    BY <2>1, <2>2
<1>7. money' \in MoneyStates /\ (live => money' \in {"none", "owed"}) /\ (~ live => money' = money)
  BY <1>1, <1>4, EndedMoney, MailFacts DEF MoneyStates
<1>8. MailTypeOK'
  BY <1>1, <1>3, <1>5, <1>6, <1>7, MailFacts DEF MailTypeOK, MoneyStates
<1>9. ErasedIsForgotten'
  BY <1>1 DEF ErasedIsForgotten, ClientLocked
<1>10. HoldsOK'
  <2>1. CASE live
    <3>1. booking'.status \notin OpenStatus
      BY <1>5, <2>1 DEF OpenStatus
    <3> QED
      BY <1>3, <1>7, <2>1, <3>1 DEF HoldsOK
  <2>2. CASE ~ live
    <3>1. booking.status \in OpenStatus => ~ HoldNeeded
      BY WhileOpen DEF HoldNeeded
    <3>2. booking.status \in OpenStatus => client'.hold = "none"
      BY <1>3, <2>2, <3>1 DEF needed
    <3> QED
      BY <1>3, <1>5, <1>6, <1>7, <2>2, <3>2 DEF MailIInv, HoldsOK
  <2> QED
    BY <2>1, <2>2
<1>11. HoldOutlastsItsMail' /\ ReminderWaits'
  BY <1>3 DEF HoldOutlastsItsMail, ReminderWaits
<1> QED
  BY <1>6, <1>8, <1>9, <1>10, <1>11, MailHolds

-----------------------------------------------------------------------------
(* The workers *)

\* One job's row is written: what holds of the jobs does not depend on how far it came.
LEMMA MailWritten ==
  ASSUME MailIInv, NEW m \in mails, NEW new \in MailType, Update(m, new),
         new.template = m.template, new.suffix = m.suffix, new.starts = m.starts,
         new.state = "queued" => m.state = "queued",
         m.template = "booking_reminder" => m.suffix \in reached,
         UNCHANGED <<booking, client, money, reached, begun>>
  PROVE  /\ mails' \subseteq MailType /\ MailsOK' /\ HoldOutlastsItsMail' /\ ReminderWaits' /\ HoldsOK'
         /\ new \in mails' /\ \A n \in mails : n # m => n \in mails'
         /\ \A n \in mails' : n = new \/ (n \in mails /\ n # m /\ Key(n) # Key(m))
<1>1. mails' = (mails \ {m}) \cup {new}
  BY DEF Update
<1>2. \A n, o \in mails : Key(n) = Key(o) => n = o
  BY DEF MailIInv, MailsOK
<1>3. Key(new) = Key(m)
  BY DEF Key
<1>4. \A n \in mails' : n = new \/ (n \in mails /\ n # m /\ Key(n) # Key(m))
  BY <1>1, <1>2
<1>5. mails' \subseteq MailType /\ new \in mails' /\ \A n \in mails : n # m => n \in mails'
  BY <1>1, MailFacts
<1>6. MailsOK'
  <2>1. \A n, o \in mails' : Key(n) = Key(o) => n = o
    BY <1>2, <1>3, <1>4
  <2>2. \A n \in mails : n.template = "booking_reminder" =>
          n.suffix = n.starts /\ (n.suffix \notin reached => n.state = "queued")
    BY DEF MailIInv, MailsOK
  <2>3. \A n \in mails' : n.template = "booking_reminder" =>
          n.suffix = n.starts /\ (n.suffix \notin reached' => n.state = "queued")
    BY <1>4, <2>2
  <2> QED
    BY <2>1, <2>3 DEF MailsOK, Key
<1>7. HoldOutlastsItsMail'
  BY <1>4 DEF MailIInv, MailInv, HoldOutlastsItsMail, Entitled
<1>8. ReminderWaits'
  <2>1. ASSUME "booking_reminder" \in Templates, booking.status = "confirmed", ~ client.erased,
               booking.starts \notin reached, ~ booking.unheard
        PROVE  \E n \in mails' : n.template = "booking_reminder" /\ n.suffix = booking.starts
    <3>1. PICK n \in mails : n.template = "booking_reminder" /\ n.starts = booking.starts
      BY <2>1 DEF MailIInv, MailInv, ReminderWaits
    <3>2. n.suffix = booking.starts
      BY <3>1 DEF MailIInv, MailsOK
    <3> QED
      BY <1>5, <2>1, <3>1, <3>2
  <2> QED
    BY <1>6, <2>1, RemindersWait
<1>9. HoldsOK'
  BY <1>4 DEF MailIInv, HoldsOK
<1> QED
  BY <1>4, <1>5, <1>6, <1>7, <1>8, <1>9

\* An idle thread has no job.
LEMMA IdleHasNone ==
  ASSUME MailIInv, NEW w \in Mailers, NEW m \in mails, hands[w].pc = "idle"
  PROVE  ~ Has(w, m)
BY TemplateNames, MailFacts DEF MailIInv, HandsOK, Has

\* The job a run has; no other run on time has that of one on time.
LEMMA HeldMail ==
  ASSUME MailIInv, NEW w \in Mailers, hands[w].pc # "idle"
  PROVE  /\ Held(w) \in mails /\ Has(w, Held(w))
         /\ ~ hands[w].late => Held(w).state = "queued"
         /\ Held(w).template = "booking_reminder" => Held(w).suffix \in reached
         /\ ~ hands[w].late => \A v \in Mailers : v # w /\ Has(v, Held(w)) => hands[v].late
<1>1. PICK m \in mails :
        /\ Has(w, m) /\ (~ hands[w].late => m.state = "queued")
        /\ m.template = "booking_reminder" => m.suffix \in reached
  BY DEF MailIInv, HandsOK
<1>2. Held(w) \in mails /\ Has(w, Held(w))
  BY <1>1 DEF Held
<1>3. Held(w) = m
  BY <1>1, <1>2 DEF MailIInv, MailsOK, Key, Has
<1>4. ASSUME ~ hands[w].late, NEW v \in Mailers, v # w, Has(v, m) PROVE hands[v].late
  <2>1. hands[v].pc # "idle"
    BY <1>4, IdleHasNone
  <2> QED
    BY <1>1, <1>4, <2>1 DEF MailIInv, HandsOK, Has
<1> QED
  BY <1>1, <1>2, <1>3, <1>4

\* A thread takes a job, goes on with the one it has, or lets go of it: what is said of the other jobs
\* and runs does not change.
LEMMA WorkerStep ==
  ASSUME MailIInv, NEW w \in Mailers, NEW m \in mails, NEW new \in MailType, Update(m, new),
         new.template = m.template, new.suffix = m.suffix, new.starts = m.starts,
         new.state = "queued" => m.state = "queued",
         m.template = "booking_reminder" => m.suffix \in reached,
         hands[w].pc = "idle" \/ Has(w, m),
         NEW hand \in HandType, hands' = [hands EXCEPT ![w] = hand],
         hand.pc = "open" /\ client.erased => hand.to # "client",
         hand.pc = "idle" => hand.template = "none",
         hand.pc # "idle" =>
           /\ hand.template = m.template /\ hand.suffix = m.suffix
           /\ ~ hand.late => new.state = "queued" /\ \A v \in Mailers : v # w /\ Has(v, m) => hands[v].late,
         \/ new.state = m.state
         \/ \A v \in Mailers : v # w /\ Has(v, m) => hands[v].late,
         Tally(new, hands'),
         crashes' \in 0 .. MaxCrashes, links' \in BOOLEAN, client.erased => ~ links',
         UNCHANGED <<booking, client, money, reached, begun>>
  PROVE  MailIInv'
<1>1. /\ mails' \subseteq MailType /\ MailsOK' /\ HoldOutlastsItsMail' /\ ReminderWaits' /\ HoldsOK'
      /\ new \in mails' /\ \A n \in mails : n # m => n \in mails'
      /\ \A n \in mails' : n = new \/ (n \in mails /\ n # m /\ Key(n) # Key(m))
  BY MailWritten
<1>2. /\ hands'[w] = hand /\ \A v \in Mailers : v # w => hands'[v] = hands[v]
      /\ hands' \in [Mailers -> HandType]
  BY MailFacts
<1>3. MailTypeOK'
  BY <1>1, <1>2, MailFacts DEF MailTypeOK, MoneyStates
<1>4. ErasedIsForgotten'
  BY <1>2 DEF MailIInv, MailInv, ErasedIsForgotten
<1>5. HandsOK'
  <2>1. \A v \in Mailers : hands'[v].pc = "idle" => hands'[v].template = "none"
    BY <1>2 DEF MailIInv, HandsOK
  <2>2. ASSUME NEW v \in Mailers, hands'[v].pc # "idle"
        PROVE  \E n \in mails' :
                 /\ hands'[v].template = n.template /\ hands'[v].suffix = n.suffix
                 /\ ~ hands'[v].late => n.state = "queued"
                 /\ n.template = "booking_reminder" => n.suffix \in reached
    <3>1. CASE v = w
      BY <1>1, <1>2, <2>2, <3>1
    <3>2. CASE v # w
      <4>1. hands'[v] = hands[v]
        BY <1>2, <3>2
      <4>2. PICK n \in mails :
              /\ Has(v, n) /\ (~ hands[v].late => n.state = "queued")
              /\ n.template = "booking_reminder" => n.suffix \in reached
        BY <2>2, <4>1 DEF MailIInv, HandsOK
      <4>3. CASE n = m
        <5>1. ~ hands[v].late => new.state = "queued"
          BY <3>2, <4>2, <4>3
        <5> QED
          BY <1>1, <4>1, <4>2, <4>3, <5>1 DEF Has
      <4>4. CASE n # m
        BY <1>1, <4>1, <4>2, <4>4 DEF Has
      <4> QED
        BY <4>3, <4>4
    <3> QED
      BY <3>1, <3>2
  <2>3. ASSUME NEW u \in Mailers, NEW v \in Mailers, hands'[u].pc # "idle", hands'[v].pc # "idle",
               ~ hands'[u].late, ~ hands'[v].late,
               hands'[u].template = hands'[v].template, hands'[u].suffix = hands'[v].suffix
        PROVE  u = v
    <3>1. CASE u # w /\ v # w
      BY <1>2, <2>3, <3>1 DEF MailIInv, HandsOK
    <3>2. CASE u = w /\ v # w
      BY <1>2, <2>3, <3>2 DEF Has
    <3>3. CASE u # w /\ v = w
      BY <1>2, <2>3, <3>3 DEF Has
    <3> QED
      BY <3>1, <3>2, <3>3
  <2> QED
    BY <2>1, <2>2, <2>3 DEF HandsOK, Has
<1>6. CountsOK'
  <2>1. ASSUME NEW n \in mails', n # new PROVE Tally(n, hands')
    <3>1. n \in mails /\ Key(n) # Key(m)
      BY <1>1, <2>1
    <3>2. /\ hands[w].pc # "idle" => ~ (hands[w].template = n.template /\ hands[w].suffix = n.suffix)
          /\ hands'[w].pc # "idle" => ~ (hands'[w].template = n.template /\ hands'[w].suffix = n.suffix)
      BY <1>2, <3>1 DEF Has, Key
    <3>3. /\ TimelyAt(hands', n, "ready") <=> TimelyAt(hands, n, "ready")
          /\ TimelyAt(hands', n, "delivered") <=> TimelyAt(hands, n, "delivered")
      BY <1>2, <3>2 DEF TimelyAt
    <3>4. Tally(n, hands)
      BY <3>1 DEF MailIInv, CountsOK
    <3> QED
      BY <3>3, <3>4 DEF Tally
  <2> QED
    BY <2>1 DEF CountsOK
<1> QED
  BY <1>1, <1>3, <1>4, <1>5, <1>6, MailHolds

\* How far the job of a run on time is, is how far that run is.
LEMMA TimelyIsHere ==
  ASSUME MailIInv, NEW w \in Mailers, NEW m \in mails,
         \A v \in Mailers : v # w /\ Has(v, m) => hands[v].late,
         NEW hand, hands' = [hands EXCEPT ![w] = hand],
         hand.pc # "idle" => hand.template = m.template /\ hand.suffix = m.suffix,
         NEW pc \in {"ready", "delivered"}
  PROVE  TimelyAt(hands', m, pc) <=> hand.pc = pc /\ ~ hand.late
<1>1. hands'[w] = hand /\ \A v \in Mailers : v # w => hands'[v] = hands[v]
  BY MailFacts
<1> QED
  BY <1>1 DEF TimelyAt, Has

\* A late run says nothing of how far its job is.
LEMMA TimelyElsewhere ==
  ASSUME MailIInv, NEW w \in Mailers, NEW m, hands[w].late,
         NEW hand, hands' = [hands EXCEPT ![w] = hand], hand.pc = "idle" \/ hand.late,
         NEW pc \in {"ready", "delivered"}
  PROVE  TimelyAt(hands', m, pc) <=> TimelyAt(hands, m, pc)
<1>1. hands'[w] = hand /\ \A v \in Mailers : v # w => hands'[v] = hands[v]
  BY MailFacts
<1> QED
  BY <1>1 DEF TimelyAt

\* What is known of the tally of the job of a run on time, before its step.
LEMMA TimelyTally ==
  ASSUME MailIInv, NEW w \in Mailers, hands[w].pc # "idle", ~ hands[w].late
  PROVE  /\ hands[w].pc = "delivered" => Held(w).recorded = 1
         /\ hands[w].pc = "ready" => Held(w).recorded = 0
         /\ hands[w].pc # "delivered" /\ Held(w).outbox # "sent" => Held(w).recorded = 0
         /\ Held(w).recorded <= 1
<1> DEFINE m == Held(w)
<1>1. m \in mails /\ Has(w, m) /\ \A v \in Mailers : v # w /\ Has(v, m) => hands[v].late
  BY HeldMail
<1> HIDE DEF m
<1>2. /\ TimelyAt(hands, m, "ready") <=> hands[w].pc = "ready"
      /\ TimelyAt(hands, m, "delivered") <=> hands[w].pc = "delivered"
  BY <1>1 DEF TimelyAt, Has
<1>3. Tally(m, hands)
  BY <1>1 DEF MailIInv, CountsOK
<1>4. /\ hands[w].pc = "delivered" => m.recorded = 1
      /\ hands[w].pc = "ready" => m.recorded = 0
      /\ hands[w].pc # "delivered" /\ m.outbox # "sent" => m.recorded = 0
      /\ m.recorded <= 1
  BY <1>2, <1>3 DEF Tally
<1> QED
  BY <1>4 DEF m

\* An idle thread has no e-mail in hand.
LEMMA IdleHandType ==
  IdleHand \in HandType /\ IdleHand.pc = "idle" /\ IdleHand.template = "none" /\ ~ IdleHand.late
BY BookingMailAssumption DEF IdleHand, HandType, KeySuffixes

\* A run that goes on keeps the e-mail it has in hand.
LEMMA HandMoves ==
  ASSUME MailIInv, NEW w \in Mailers, NEW pc \in {"idle", "claimed", "open", "ready", "delivered", "marked"},
         hands' = [hands EXCEPT ![w].pc = pc]
  PROVE  \E hand \in HandType :
           /\ hands' = [hands EXCEPT ![w] = hand] /\ hand.pc = pc /\ hand.late = hands[w].late
           /\ hand.template = hands[w].template /\ hand.suffix = hands[w].suffix
<1> DEFINE hand == [hands[w] EXCEPT !.pc = pc]
<1>1. hands[w] \in HandType
  BY MailFacts
<1>2. /\ hand \in HandType /\ hand.pc = pc /\ hand.late = hands[w].late
      /\ hand.template = hands[w].template /\ hand.suffix = hands[w].suffix
  BY <1>1 DEF HandType
<1>3. hands' = [hands EXCEPT ![w] = hand]
  BY MailFacts
<1> QED
  BY <1>2, <1>3

\* Writing a row as it is writes nothing.
LEMMA SameMail ==
  ASSUME NEW m \in mails, UNCHANGED mails
  PROVE  Update(m, m)
BY DEF Update

\* A link is there, or not, as before.
LEMMA LinksKept ==
  ASSUME MailIInv, UNCHANGED <<links, crashes>>
  PROVE  links' \in BOOLEAN /\ (client.erased => ~ links') /\ crashes' \in 0 .. MaxCrashes
BY MailFacts DEF MailIInv, MailInv, ErasedIsForgotten

\* A run lets go of its job, which stays as it is where the run was late, and is done or given up where
\* it was on time: then what it handed over and did not record counts no more.
LEMMA LetsGo ==
  ASSUME MailIInv, NEW w \in Mailers, hands[w].pc # "idle", NEW new \in MailType, Update(Held(w), new),
         new.template = Held(w).template, new.suffix = Held(w).suffix, new.starts = Held(w).starts,
         new.outbox = Held(w).outbox,
         new.state = "queued" => Held(w).state = "queued",
         NEW hand \in HandType, hands' = [hands EXCEPT ![w] = hand],
         \/ hand.pc = "idle" /\ hand.template = "none"
         \/ /\ hand.late /\ hand.template = hands[w].template /\ hand.suffix = hands[w].suffix
            /\ hand.pc = hands[w].pc /\ hand.to = hands[w].to,
         hands[w].late => new = Held(w),
         ~ hands[w].late => new.recorded = IF hands[w].pc = "delivered" THEN 0 ELSE Held(w).recorded,
         crashes' \in 0 .. MaxCrashes,
         UNCHANGED <<booking, client, money, links, reached, begun>>
  PROVE  MailIInv'
<1>1. PICK m \in mails : m = Held(w) /\ Has(w, m)
  BY HeldMail
<1>2. /\ m.template = "booking_reminder" => m.suffix \in reached
      /\ ~ hands[w].late => \A v \in Mailers : v # w /\ Has(v, m) => hands[v].late
  BY <1>1, HeldMail
<1>3. /\ hand.pc = "idle" => hand.template = "none"
      /\ hand.pc # "idle" => hand.late /\ hand.template = m.template /\ hand.suffix = m.suffix
      /\ hand.pc = "open" => hand.pc = hands[w].pc /\ hand.to = hands[w].to
  BY <1>1 DEF Has
<1>4. hand.pc = "open" /\ client.erased => hand.to # "client"
  BY <1>3 DEF MailIInv, MailInv, ErasedIsForgotten
<1>5. Tally(new, hands')
  <2>1. CASE hands[w].late
    <3>1. /\ TimelyAt(hands', m, "ready") <=> TimelyAt(hands, m, "ready")
          /\ TimelyAt(hands', m, "delivered") <=> TimelyAt(hands, m, "delivered")
      BY <1>3, <2>1, TimelyElsewhere
    <3>2. Tally(m, hands)
      BY DEF MailIInv, CountsOK
    <3> QED
      BY <1>1, <2>1, <3>1, <3>2 DEF Tally
  <2>2. CASE ~ hands[w].late
    <3>1. ~ TimelyAt(hands', m, "ready") /\ ~ TimelyAt(hands', m, "delivered")
      BY <1>2, <1>3, <2>2, TimelyIsHere
    <3>2. ~ TimelyAt(hands', new, "ready") /\ ~ TimelyAt(hands', new, "delivered")
      BY <1>1, <3>1 DEF TimelyAt
    <3>3. new.recorded <= 1 /\ (new.outbox # "sent" => new.recorded = 0)
      BY <1>1, <2>2, TimelyTally
    <3> QED
      BY <3>2, <3>3 DEF Tally
  <2> QED
    BY <2>1, <2>2
<1>6. links' \in BOOLEAN /\ (client.erased => ~ links')
  BY MailFacts DEF MailIInv, MailInv, ErasedIsForgotten
<1>7. new.state = m.state \/ \A v \in Mailers : v # w /\ Has(v, m) => hands[v].late
  BY <1>1, <1>2
<1>8. /\ Update(m, new) /\ new.template = m.template /\ new.suffix = m.suffix /\ new.starts = m.starts
      /\ new.state = "queued" => m.state = "queued"
  BY <1>1
<1> QED
  BY <1>1, <1>2, <1>3, <1>4, <1>5, <1>6, <1>7, <1>8, WorkerStep

\* A handler that returns keeps the invariant.
LEMMA ReturnOK ==
  ASSUME MailIInv, NEW w \in Mailers, hands[w].pc \notin {"idle", "delivered"}, Return(w),
         UNCHANGED <<booking, client, money, links, reached, begun, crashes>>
  PROVE  MailIInv'
<1>1. PICK m \in MailType : m = Held(w) /\ m \in mails
  BY HeldMail, MailFacts
<1>2. PICK hand \in HandType : hand = IdleHand /\ hand.pc = "idle" /\ hand.template = "none"
  BY IdleHandType
<1>3. hands' = [hands EXCEPT ![w] = hand] /\ crashes' \in 0 .. MaxCrashes
  BY <1>2, MailFacts DEF Return
<1>4. CASE hands[w].late
  <2>1. Update(m, m)
    BY <1>1, <1>4, SameMail DEF Return
  <2> QED
    BY <1>1, <1>2, <1>3, <1>4, <2>1, LetsGo
<1>5. CASE ~ hands[w].late
  <2>1. PICK new : new = Done(m)
    OBVIOUS
  <2>2. Update(m, new)
    BY <1>1, <1>5, <2>1 DEF Return
  <2>3. /\ new \in MailType /\ new.template = m.template /\ new.suffix = m.suffix /\ new.starts = m.starts
        /\ new.outbox = m.outbox /\ new.state = "done" /\ new.recorded = m.recorded
    BY <2>1 DEF Done, MailType
  <2> QED
    BY <1>1, <1>2, <1>3, <1>5, <2>2, <2>3, LetsGo
<1> QED
  BY <1>4, <1>5

\* SkipMail keeps the invariant.
LEMMA SkipMailOK ==
  ASSUME MailIInv, NEW w \in Mailers, SkipMail(w)
  PROVE  MailIInv'
BY ReturnOK DEF SkipMail

\* OverQuota keeps the invariant.
LEMMA OverQuotaOK ==
  ASSUME MailIInv, NEW w \in Mailers, OverQuota(w)
  PROVE  MailIInv'
BY ReturnOK DEF OverQuota

\* CompleteMail keeps the invariant.
LEMMA CompleteMailOK ==
  ASSUME MailIInv, NEW w \in Mailers, CompleteMail(w)
  PROVE  MailIInv'
BY ReturnOK DEF CompleteMail

\* What the worker gives up: on time until now, and what it handed over is not counted any more.
LEMMA GivenUp ==
  ASSUME MailIInv, NEW w \in Mailers, NEW state \in {"queued", "dead"}, GiveUp(w, state),
         NEW hand \in HandType, hands' = [hands EXCEPT ![w] = hand],
         \/ hand.pc = "idle" /\ hand.template = "none"
         \/ /\ hand.late /\ hand.template = hands[w].template /\ hand.suffix = hands[w].suffix
            /\ hand.pc = hands[w].pc /\ hand.to = hands[w].to
  PROVE  MailIInv'
<1>1. /\ hands[w].pc # "idle" /\ ~ hands[w].late /\ crashes < MaxCrashes /\ crashes' = crashes + 1
      /\ UNCHANGED <<booking, client, money, links, reached, begun>>
  BY DEF GiveUp
<1>2. PICK m \in MailType : m = Held(w) /\ m \in mails /\ m.state = "queued"
  BY <1>1, HeldMail, MailFacts
<1>3. /\ hands[w].pc = "delivered" => m.recorded = 1
      /\ m.recorded \in Nat
  BY <1>1, <1>2, TimelyTally, MailFacts
<1>4. PICK left \in Nat : /\ left = IF hands[w].pc = "delivered" THEN m.recorded - 1 ELSE m.recorded
                          /\ left = IF hands[w].pc = "delivered" THEN 0 ELSE m.recorded
  BY <1>3
<1>5. PICK new : new = [m EXCEPT !.state = state, !.recorded = left]
  OBVIOUS
<1>6. Update(m, new)
  BY <1>2, <1>4, <1>5 DEF GiveUp
<1>7. /\ new \in MailType /\ new.template = m.template /\ new.suffix = m.suffix /\ new.starts = m.starts
      /\ new.outbox = m.outbox /\ new.recorded = left
  BY <1>5 DEF MailType
<1>8. crashes' \in 0 .. MaxCrashes
  BY <1>1, MailFacts
<1> QED
  BY <1>1, <1>2, <1>4, <1>6, <1>7, <1>8, LetsGo

\* CrashMail keeps the invariant.
LEMMA CrashMailOK ==
  ASSUME MailIInv, NEW w \in Mailers, NEW state \in {"queued", "dead"}, CrashMail(w, state)
  PROVE  MailIInv'
<1>1. PICK hand \in HandType : hand = IdleHand /\ hand.pc = "idle" /\ hand.template = "none"
  BY IdleHandType
<1>2. GiveUp(w, state) /\ hands' = [hands EXCEPT ![w] = hand]
  BY <1>1 DEF CrashMail
<1> QED
  BY <1>1, <1>2, GivenUp

\* TimeOut keeps the invariant.
LEMMA TimeOutOK ==
  ASSUME MailIInv, NEW w \in Mailers, NEW state \in {"queued", "dead"}, TimeOut(w, state)
  PROVE  MailIInv'
<1>1. hands[w] \in HandType
  BY MailFacts
<1>2. PICK hand : hand = [hands[w] EXCEPT !.late = TRUE]
  OBVIOUS
<1>3. /\ hand \in HandType /\ hand.late /\ hand.template = hands[w].template
      /\ hand.suffix = hands[w].suffix /\ hand.pc = hands[w].pc /\ hand.to = hands[w].to
  BY <1>1, <1>2 DEF HandType
<1>4. GiveUp(w, state) /\ hands' = [hands EXCEPT ![w] = hand]
  BY <1>2, MailFacts DEF TimeOut
<1> QED
  BY <1>3, <1>4, GivenUp

\* LateFails keeps the invariant.
LEMMA LateFailsOK ==
  ASSUME MailIInv, NEW w \in Mailers, LateFails(w)
  PROVE  MailIInv'
<1>1. PICK m \in MailType : m = Held(w) /\ m \in mails
  BY HeldMail, MailFacts DEF LateFails
<1>2. PICK hand \in HandType : hand = IdleHand /\ hand.pc = "idle" /\ hand.template = "none"
  BY IdleHandType
<1>3. /\ hands[w].pc # "idle" /\ hands[w].late /\ hands' = [hands EXCEPT ![w] = hand] /\ crashes' \in 0 .. MaxCrashes
      /\ UNCHANGED <<booking, client, money, mails, links, reached, begun>>
  BY <1>2, MailFacts DEF LateFails
<1>4. Update(m, m)
  BY <1>1, <1>3, SameMail
<1> QED
  BY <1>1, <1>2, <1>3, <1>4, LetsGo

\* ClaimMail keeps the invariant.
LEMMA ClaimMailOK ==
  ASSUME MailIInv, NEW w \in Mailers, NEW m \in mails, ClaimMail(w, m)
  PROVE  MailIInv'
<1>1. /\ hands[w].pc = "idle" /\ Runnable(m)
      /\ UNCHANGED <<booking, client, money, mails, links, reached, begun, crashes>>
  BY DEF ClaimMail
<1>2. /\ m.state = "queued" /\ (m.template = "booking_reminder" => m.suffix \in reached)
      /\ \A v \in Mailers : Has(v, m) => hands[v].late
  BY <1>1 DEF Runnable, InHand
<1>3. PICK hand : hand = [IdleHand EXCEPT !.pc = "claimed", !.template = m.template, !.suffix = m.suffix]
  OBVIOUS
<1>4. m.template \in Templates /\ m.suffix \in KeySuffixes /\ m \in MailType
  BY MailFacts
<1>5. /\ hand \in HandType /\ hand.pc = "claimed" /\ hand.template = m.template /\ hand.suffix = m.suffix
      /\ ~ hand.late
  BY <1>3, <1>4, IdleHandType DEF HandType
<1>6. hands' = [hands EXCEPT ![w] = hand]
  BY <1>3 DEF ClaimMail
<1>7. Tally(m, hands')
  <2>1. ~ TimelyAt(hands', m, "ready") /\ ~ TimelyAt(hands', m, "delivered")
    BY <1>2, <1>5, <1>6, TimelyIsHere
  <2>2. ~ TimelyAt(hands, m, "ready") /\ ~ TimelyAt(hands, m, "delivered")
    BY <1>2 DEF TimelyAt, Has
  <2>3. Tally(m, hands)
    BY DEF MailIInv, CountsOK
  <2> QED
    BY <2>1, <2>2, <2>3 DEF Tally
<1>8. Update(m, m) /\ links' \in BOOLEAN /\ (client.erased => ~ links') /\ crashes' \in 0 .. MaxCrashes
  BY <1>1, SameMail, LinksKept
<1> QED
  BY <1>1, <1>2, <1>4, <1>5, <1>6, <1>7, <1>8, WorkerStep

\* A run goes on with its job, not yet to hand it over.
LEMMA GoesOn ==
  ASSUME MailIInv, NEW w \in Mailers, hands[w].pc # "idle", NEW new \in MailType, Update(Held(w), new),
         new.template = Held(w).template, new.suffix = Held(w).suffix, new.starts = Held(w).starts,
         new.state = Held(w).state,
         NEW hand \in HandType, hands' = [hands EXCEPT ![w] = hand], hand.pc # "idle",
         hand.template = hands[w].template, hand.suffix = hands[w].suffix, hand.late = hands[w].late,
         hand.pc = "open" /\ client.erased => hand.to # "client",
         hands[w].late => /\ new.recorded = Held(w).recorded
                          /\ new.outbox # "sent" => Held(w).outbox # "sent",
         ~ hands[w].late =>
           /\ new.recorded <= 1
           /\ (new.outbox # "sent" \/ hand.pc = "ready") /\ hand.pc # "delivered" => new.recorded = 0
           /\ hand.pc = "delivered" => new.recorded = 1,
         links' \in BOOLEAN, client.erased => ~ links',
         UNCHANGED <<booking, client, money, reached, begun, crashes>>
  PROVE  MailIInv'
<1>1. PICK m \in mails : m = Held(w) /\ Has(w, m)
  BY HeldMail
<1>2. /\ m.template = "booking_reminder" => m.suffix \in reached
      /\ ~ hands[w].late => m.state = "queued" /\ \A v \in Mailers : v # w /\ Has(v, m) => hands[v].late
  BY <1>1, HeldMail
<1>3. /\ hand.template = m.template /\ hand.suffix = m.suffix
      /\ ~ hand.late => new.state = "queued" /\ \A v \in Mailers : v # w /\ Has(v, m) => hands[v].late
  BY <1>1, <1>2 DEF Has
<1>4. \A pc \in {"ready", "delivered"} : TimelyAt(hands', new, pc) <=> TimelyAt(hands', m, pc)
  BY <1>1 DEF TimelyAt
<1>5. Tally(new, hands')
  <2>1. CASE hands[w].late
    <3>1. /\ TimelyAt(hands', m, "ready") <=> TimelyAt(hands, m, "ready")
          /\ TimelyAt(hands', m, "delivered") <=> TimelyAt(hands, m, "delivered")
      BY <2>1, TimelyElsewhere
    <3>2. Tally(m, hands)
      BY DEF MailIInv, CountsOK
    <3> QED
      BY <1>1, <1>4, <2>1, <3>1, <3>2 DEF Tally
  <2>2. CASE ~ hands[w].late
    <3>1. /\ TimelyAt(hands', m, "ready") <=> hand.pc = "ready"
          /\ TimelyAt(hands', m, "delivered") <=> hand.pc = "delivered"
      BY <1>2, <1>3, <2>2, TimelyIsHere
    <3> QED
      BY <1>4, <2>2, <3>1 DEF Tally
  <2> QED
    BY <2>1, <2>2
<1>6. crashes' \in 0 .. MaxCrashes
  BY MailFacts
<1> QED
  BY <1>1, <1>2, <1>3, <1>5, <1>6, WorkerStep

\* OpenMail keeps the invariant.
LEMMA OpenMailOK ==
  ASSUME MailIInv, NEW w \in Mailers, OpenMail(w)
  PROVE  MailIInv'
<1>1. /\ hands[w].pc = "claimed"
      /\ UNCHANGED <<booking, client, money, mails, links, reached, begun, crashes>>
  BY DEF OpenMail
<1>2. PICK m \in MailType : m = Held(w) /\ m \in mails
  BY <1>1, HeldMail, MailFacts
<1>3. PICK to \in {"client", "hold", "team"} :
        to = IF m.template \in TeamTemplates THEN "team" ELSE IF client.erased THEN "hold" ELSE "client"
  OBVIOUS
<1>4. PICK hand : hand = [hands[w] EXCEPT !.pc = "open", !.to = to]
  OBVIOUS
<1>5. hands[w] \in HandType
  BY MailFacts
<1>6. /\ hand \in HandType /\ hand.pc = "open" /\ hand.to = to /\ hand.late = hands[w].late
      /\ hand.template = hands[w].template /\ hand.suffix = hands[w].suffix
  BY <1>4, <1>5 DEF HandType
<1>7. hands' = [hands EXCEPT ![w] = hand]
  <2>1. hands' = [hands EXCEPT ![w].pc = "open", ![w].to = to]
    BY <1>2, <1>3 DEF OpenMail
  <2> QED
    BY <1>4, <2>1, MailFacts
<1>8. client.erased => hand.to # "client"
  BY <1>3, <1>6
<1>9. ~ hands[w].late => m.recorded <= 1 /\ (m.outbox # "sent" => m.recorded = 0)
  BY <1>1, <1>2, TimelyTally
<1>10. Update(m, m) /\ links' \in BOOLEAN /\ (client.erased => ~ links')
  BY <1>1, <1>2, SameMail, LinksKept
<1> QED
  BY <1>1, <1>2, <1>6, <1>7, <1>8, <1>9, <1>10, GoesOn

\* CommitMail keeps the invariant.
LEMMA CommitMailOK ==
  ASSUME MailIInv, NEW w \in Mailers, CommitMail(w)
  PROVE  MailIInv'
<1>1. hands[w].pc = "open" /\ UNCHANGED <<booking, client, money, reached, begun, crashes>>
  BY DEF CommitMail
<1>2. Held(w) \in mails
  BY <1>1, HeldMail
<1>3. CASE AlreadySent(Held(w))
  BY <1>1, <1>3, ReturnOK DEF CommitMail
<1>4. CASE ~ AlreadySent(Held(w))
  <2>1. PICK m \in MailType : m = Held(w) /\ m.outbox \in {"none", "pending"}
    BY <1>2, <1>4, MailFacts DEF AlreadySent
  <2>2. PICK new : new = [m EXCEPT !.outbox = "pending"]
    OBVIOUS
  <2>3. Update(m, [m EXCEPT !.outbox = IF @ = "none" THEN "pending" ELSE @])
    BY <1>4, <2>1 DEF CommitMail
  <2>4. [m EXCEPT !.outbox = IF @ = "none" THEN "pending" ELSE @] = new
    BY <2>1, <2>2 DEF MailType
  <2>5. Update(Held(w), new)
    BY <2>1, <2>3, <2>4
  <2>6. /\ new \in MailType /\ new.template = m.template /\ new.suffix = m.suffix /\ new.starts = m.starts
        /\ new.state = m.state /\ new.outbox = "pending" /\ new.recorded = m.recorded
    BY <2>1, <2>2 DEF MailType
  <2>7. hands' = [hands EXCEPT ![w].pc = "ready"]
    BY <1>4 DEF CommitMail
  <2>8. PICK hand \in HandType :
          /\ hands' = [hands EXCEPT ![w] = hand] /\ hand.pc = "ready" /\ hand.late = hands[w].late
          /\ hand.template = hands[w].template /\ hand.suffix = hands[w].suffix
    BY <2>7, HandMoves
  <2>9. links' \in BOOLEAN /\ (client.erased => ~ links')
    <3>1. links' = (links \/ (hands[w].to = "client" /\ Held(w).template \in LINKED))
      BY <1>4 DEF CommitMail
    <3>2. client.erased => ~ links /\ hands[w].to # "client"
      BY <1>1 DEF MailIInv, MailInv, ErasedIsForgotten
    <3> QED
      BY <3>1, <3>2
  <2>10. m.outbox # "sent" /\ (~ hands[w].late => m.recorded = 0)
    BY <1>1, <2>1, TimelyTally
  <2>11. ~ hands[w].late =>
           /\ new.recorded <= 1
           /\ (new.outbox # "sent" \/ hand.pc = "ready") /\ hand.pc # "delivered" => new.recorded = 0
           /\ hand.pc = "delivered" => new.recorded = 1
    BY <2>6, <2>8, <2>10
  <2>12. Held(w).recorded = new.recorded /\ Held(w).outbox # "sent"
    BY <2>1, <2>6, <2>10
  <2> QED
    BY <1>1, <2>1, <2>5, <2>6, <2>8, <2>9, <2>11, <2>12, GoesOn
<1> QED
  BY <1>3, <1>4

\* Deliver keeps the invariant.
LEMMA DeliverOK ==
  ASSUME MailIInv, NEW w \in Mailers, Deliver(w)
  PROVE  MailIInv'
<1>1. /\ hands[w].pc = "ready" /\ UNCHANGED <<booking, client, money, links, reached, begun, crashes>>
      /\ hands' = [hands EXCEPT ![w].pc = "delivered"]
  BY DEF Deliver
<1>2. PICK m \in MailType : m = Held(w) /\ m \in mails
  BY <1>1, HeldMail, MailFacts
<1>3. m.recorded \in Nat /\ (~ hands[w].late => m.recorded = 0)
  BY <1>1, <1>2, TimelyTally, MailFacts
<1>4. PICK more \in Nat : more = IF hands[w].late THEN m.recorded ELSE m.recorded + 1
  BY <1>3
<1>5. PICK new : new = [m EXCEPT !.recorded = more]
  OBVIOUS
<1>6. Update(m, new)
  BY <1>2, <1>4, <1>5 DEF Deliver
<1>7. /\ new \in MailType /\ new.template = m.template /\ new.suffix = m.suffix /\ new.starts = m.starts
      /\ new.state = m.state /\ new.outbox = m.outbox /\ new.recorded = more
  BY <1>5 DEF MailType
<1>8. PICK hand \in HandType :
        /\ hands' = [hands EXCEPT ![w] = hand] /\ hand.pc = "delivered" /\ hand.late = hands[w].late
        /\ hand.template = hands[w].template /\ hand.suffix = hands[w].suffix
  BY <1>1, HandMoves
<1>9. /\ ~ hands[w].late => new.recorded = 1 /\ new.recorded <= 1
      /\ hands[w].late => new.recorded = Held(w).recorded
      /\ new.outbox = Held(w).outbox
  BY <1>2, <1>3, <1>4, <1>7
<1>10. links' \in BOOLEAN /\ (client.erased => ~ links')
  BY <1>1, LinksKept
<1>11. /\ Update(Held(w), new) /\ new.template = Held(w).template /\ new.suffix = Held(w).suffix
       /\ new.starts = Held(w).starts /\ new.state = Held(w).state
  BY <1>2, <1>6, <1>7
<1>12. /\ hand.pc # "idle" /\ hand.pc # "open" /\ hand.template = hands[w].template
       /\ hand.suffix = hands[w].suffix /\ hand.late = hands[w].late
       /\ hands' = [hands EXCEPT ![w] = hand]
  BY <1>8
<1>13. /\ hands[w].late => /\ new.recorded = Held(w).recorded
                           /\ new.outbox # "sent" => Held(w).outbox # "sent"
       /\ ~ hands[w].late =>
            /\ new.recorded <= 1
            /\ (new.outbox # "sent" \/ hand.pc = "ready") /\ hand.pc # "delivered" => new.recorded = 0
            /\ hand.pc = "delivered" => new.recorded = 1
  BY <1>8, <1>9
<1>14. hands[w].pc # "idle" /\ UNCHANGED <<booking, client, money, reached, begun, crashes>>
  BY <1>1
<1> QED
  BY <1>7, <1>10, <1>11, <1>12, <1>13, <1>14, GoesOn

\* MarkSent keeps the invariant.
LEMMA MarkSentOK ==
  ASSUME MailIInv, NEW w \in Mailers, MarkSent(w)
  PROVE  MailIInv'
<1>1. /\ hands[w].pc = "delivered" /\ UNCHANGED <<booking, client, money, links, reached, begun, crashes>>
      /\ hands' = [hands EXCEPT ![w].pc = "marked"]
  BY DEF MarkSent
<1>2. PICK m \in MailType : m = Held(w) /\ m \in mails
  BY <1>1, HeldMail, MailFacts
<1>3. ~ hands[w].late => m.recorded <= 1
  BY <1>1, <1>2, TimelyTally
<1>4. PICK new : new = [m EXCEPT !.outbox = "sent"]
  OBVIOUS
<1>5. Update(m, new)
  BY <1>2, <1>4 DEF MarkSent
<1>6. /\ new \in MailType /\ new.template = m.template /\ new.suffix = m.suffix /\ new.starts = m.starts
      /\ new.state = m.state /\ new.outbox = "sent" /\ new.recorded = m.recorded
  BY <1>4 DEF MailType
<1>7. PICK hand \in HandType :
        /\ hands' = [hands EXCEPT ![w] = hand] /\ hand.pc = "marked" /\ hand.late = hands[w].late
        /\ hand.template = hands[w].template /\ hand.suffix = hands[w].suffix
  BY <1>1, HandMoves
<1>8. links' \in BOOLEAN /\ (client.erased => ~ links')
  BY <1>1, LinksKept
<1> QED
  BY <1>1, <1>2, <1>3, <1>5, <1>6, <1>7, <1>8, GoesOn

-----------------------------------------------------------------------------
(* The theorem *)

\* announce's letters.
LEMMA FirstLetters ==
  ASSUME NEW new, NEW status \in {"pending", "confirmed"},
         new = IF status = "confirmed"
               THEN {NewMail("booking_confirmed", 0, FirstStart), NewMail("booking_new", 0, 0),
                     NewMail("booking_reminder", FirstStart, FirstStart)}
               ELSE {NewMail("booking_received", 0, 0), NewMail("booking_request", 0, 0)}
  PROVE  /\ Letters(new) /\ \A m \in new : m.template \notin HOLD_TEMPLATES
         /\ status = "confirmed" =>
              \E m \in new : m.template = "booking_reminder" /\ m.starts = FirstStart /\ m.state = "queued"
<1>1. /\ 0 \in KeySuffixes /\ FirstStart \in KeySuffixes /\ FirstStart \in Times \cup {0}
      /\ 0 \in Times \cup {0}
  BY BookingMailAssumption DEF KeySuffixes
<1>2. PICK confirmed, fresh, reminder, received, request :
        /\ confirmed = NewMail("booking_confirmed", 0, FirstStart) /\ fresh = NewMail("booking_new", 0, 0)
        /\ reminder = NewMail("booking_reminder", FirstStart, FirstStart)
        /\ received = NewMail("booking_received", 0, 0) /\ request = NewMail("booking_request", 0, 0)
  OBVIOUS
<1>3. /\ confirmed.template = "booking_confirmed" /\ fresh.template = "booking_new"
      /\ reminder.template = "booking_reminder" /\ reminder.suffix = FirstStart
      /\ reminder.starts = FirstStart /\ reminder.state = "queued"
      /\ received.template = "booking_received" /\ request.template = "booking_request"
  BY <1>2 DEF NewMail
<1>4. \A m \in {confirmed, fresh, reminder, received, request} : m.template \in Templates => m \in NewMailType
  BY <1>1, <1>2, <1>3, NewMailFields
<1>5. CASE status = "confirmed"
  <2>1. new = {confirmed, fresh, reminder}
    BY <1>2, <1>5
  <2> QED
    BY <1>3, <1>4, <2>1 DEF Letters, HOLD_TEMPLATES
<1>6. CASE status = "pending"
  <2>1. new = {received, request}
    BY <1>2, <1>6
  <2> QED
    BY <1>3, <1>4, <1>6, <2>1 DEF Letters, HOLD_TEMPLATES
<1> QED
  BY <1>5, <1>6

\* The invariant holds at the start.
LEMMA MailStart == MailInit => MailIInv
<1> SUFFICES ASSUME MailInit PROVE MailIInv
  OBVIOUS
<1>1. /\ client = [erased |-> FALSE, hold |-> "none", opened |-> FALSE, begun |-> {}, lapsed |-> FALSE]
      /\ money \in {"none", "paid"}
      /\ hands = [w \in Mailers |-> IdleHand] /\ links = FALSE /\ reached = {} /\ begun = {} /\ crashes = 0
  BY DEF MailInit
<1>2. PICK status, over, new :
        /\ status \in {"pending", "confirmed"} /\ over \in BOOLEAN
        /\ booking = [status |-> status, starts |-> FirstStart, stamp |-> 0,
                      unheard |-> over /\ status = "confirmed", ended |-> "no"]
        /\ new = IF status = "confirmed"
                 THEN {NewMail("booking_confirmed", 0, FirstStart), NewMail("booking_new", 0, 0),
                       NewMail("booking_reminder", FirstStart, FirstStart)}
                 ELSE {NewMail("booking_received", 0, 0), NewMail("booking_request", 0, 0)}
        /\ mails = {m \in Counted(new, over) : m.template \in Templates}
  BY DEF MailInit
<1>3. /\ Letters(new) /\ \A m \in new : m.template \notin HOLD_TEMPLATES
      /\ status = "confirmed" =>
           \E m \in new : m.template = "booking_reminder" /\ m.starts = FirstStart /\ m.state = "queued"
  BY <1>2, FirstLetters
<1>4. mails \subseteq new /\ (~ over => mails = {m \in new : m.template \in Templates})
  BY <1>2, <1>3, CountedLetters
<1>5. \A m \in mails : /\ m \in NewMailType /\ m.template \notin HOLD_TEMPLATES
                       /\ m.template = "booking_reminder" => m.suffix = m.starts
  BY <1>2, <1>3, <1>4 DEF Letters
<1>6. \A m \in NewMailType : /\ m \in MailType /\ m.state = "queued" /\ m.outbox = "none"
                             /\ m.recorded = 0
  BY BookingMailAssumption DEF NewMailType, MailType
<1>7. \A w \in Mailers : hands[w].pc = "idle" /\ hands[w].template = "none"
  BY <1>1, IdleHandType
<1>8. /\ booking \in BookingType /\ booking.status = status /\ booking.starts = FirstStart
      /\ booking.unheard = (over /\ status = "confirmed")
  BY <1>2, BookingMailAssumption DEF BookingType
<1>9. client \in ClientType /\ ~ client.erased /\ client.hold = "none"
  BY <1>1 DEF ClientType
<1>10. MailTypeOK
  <2>1. hands \in [Mailers -> HandType]
    BY <1>1, IdleHandType
  <2>2. mails \subseteq MailType
    BY <1>5, <1>6
  <2>3. crashes \in 0 .. MaxCrashes
    BY <1>1, BookingMailAssumption
  <2>4. links \in BOOLEAN /\ reached \subseteq Times /\ begun \subseteq reached
    BY <1>1
  <2>5. money \in {"none", "paid", "owed", "settled lately", "quiet", "failed", "failed late"}
    BY <1>1
  <2> QED
    BY <1>8, <1>9, <2>1, <2>2, <2>3, <2>4, <2>5 DEF MailTypeOK
<1>11. MailsOK
  <2>1. \A m, n \in mails : Key(m) = Key(n) => m = n
    BY <1>3, <1>4 DEF Key, Letters
  <2> QED
    BY <1>1, <1>5, <1>6, <2>1 DEF MailsOK
<1>12. HandsOK
  BY <1>7, TemplateNames DEF HandsOK
<1>13. CountsOK
  BY <1>5, <1>6, <1>7 DEF CountsOK, Tally, TimelyAt
<1>14. HoldsOK
  BY <1>1, <1>2, <1>5, <1>8, <1>9 DEF HoldsOK, OpenStatus
<1>15. ReminderWaits
  BY <1>3, <1>4, <1>8 DEF ReminderWaits
<1>16. ErasedIsForgotten /\ HoldOutlastsItsMail
  BY <1>9 DEF ErasedIsForgotten, HoldOutlastsItsMail
<1> QED
  BY <1>10, <1>11, <1>12, <1>13, <1>14, <1>15, <1>16 DEF MailIInv, MailInv, AgainOnlyIfUnrecorded, CountsOK, Tally

\* Every step keeps the invariant.
LEMMA MailPreserved == MailIInv /\ [MailNext]_mailVars => MailIInv'
<1> SUFFICES ASSUME MailIInv, [MailNext]_mailVars PROVE MailIInv'
  OBVIOUS
<1>1. CASE UNCHANGED mailVars
  <2>1. UNCHANGED <<booking, client, money, mails, hands, links, reached, begun, crashes>>
    BY <1>1 DEF mailVars
  <2>2. MailsOK' /\ HandsOK' /\ CountsOK'
    BY <2>1, NothingQueued
  <2>3. MailTypeOK' /\ ErasedIsForgotten' /\ ReminderWaits' /\ HoldsOK' /\ HoldOutlastsItsMail'
    BY <2>1 DEF MailIInv, MailInv, MailTypeOK, ErasedIsForgotten, ReminderWaits, HoldsOK,
                HoldOutlastsItsMail, Entitled
  <2> QED
    BY <2>2, <2>3, MailHolds
<1>2. CASE MailNext
  <2>1. ASSUME NEW status \in {"declined", "cancelled_by_merchant"}, NEW meanwhile \in BOOLEAN,
               TeamEnds(status, meanwhile)
        PROVE  MailIInv'
    BY <2>1, TeamEndsOK
  <2>2. ASSUME NEW t \in Times, TeamMoves(t) \/ ClientMoves(t) \/ StartNears(t) PROVE MailIInv'
    BY <2>2, TeamMovesOK, ClientMovesOK, StartNearsOK
  <2>3. ASSUME NEW announce \in BOOLEAN, NEW since \in BOOLEAN, Erase(announce, since) PROVE MailIInv'
    BY <2>3, EraseOK
  <2>4. ASSUME NEW w \in Mailers, NEW m \in mails, ClaimMail(w, m) PROVE MailIInv'
    BY <2>4, ClaimMailOK
  <2>5. ASSUME NEW w \in Mailers,
               SkipMail(w) \/ OpenMail(w) \/ CommitMail(w) \/ OverQuota(w) \/ Deliver(w) \/ MarkSent(w)
                 \/ CompleteMail(w) \/ LateFails(w)
        PROVE  MailIInv'
    BY <2>5, SkipMailOK, OpenMailOK, CommitMailOK, OverQuotaOK, DeliverOK, MarkSentOK, CompleteMailOK,
       LateFailsOK
  <2>6. ASSUME NEW w \in Mailers, NEW state \in {"queued", "dead"}, CrashMail(w, state) \/ TimeOut(w, state)
        PROVE  MailIInv'
    BY <2>6, CrashMailOK, TimeOutOK
  <2> QED
    BY <1>2, <2>1, <2>2, <2>3, <2>4, <2>5, <2>6, AcceptRequestOK, ClientCancelsOK, RequestLapsesOK,
       RequestExpiresOK, RefundSettlesOK, RefundFailsOK, WeekPassesOK, HoldDateOK, PurgeHoldOK,
       OpenEraseOK
    DEF MailNext
<1> QED
  BY <1>1, <1>2

\* However many threads send a booking's e-mails while it is accepted, moved, ended and refunded and its
\* client erased (send_booking, _outbox, _mark_sent, END_FOR_ERASURE, client_hold_needed): of the runs that
\* are on time until they record it one hands a message over, beside those cut off before or timed out, which
\* may hand it over again; an erased client has no manage link and is not being looked up to mail one, though
\* a message committed before may still go out; a hold outlasts its e-mails; and a reminder waits for the
\* time the booking has now.
THEOREM MailSound == MailSpec => []MailInv
<1>1. MailIInv => MailInv
  BY DEF MailIInv
<1> QED
  BY <1>1, MailStart, MailPreserved, PTL DEF MailSpec

=============================================================================
