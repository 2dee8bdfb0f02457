---------------------------- MODULE BookingMail ----------------------------
(***************************************************************************)
(* The e-mails of one booking, the erasure of its client and the contact    *)
(* hold that outlives it (backend/app/mail.py, bookings.email and remind,   *)
(* erasure_holds.py, END_FOR_ERASURE, and the functions of 0064 and 0078).  *)
(*                                                                          *)
(* An e-mail is a job, queued by the transaction that makes it true and run *)
(* by any worker, later, again after a failure.  The worker reads the       *)
(* booking with the client's row locked, records the message in the outbox  *)
(* and, for a client, stores a manage link, in one transaction; it hands    *)
(* the message over with none open; it marks it sent in another.  A run     *)
(* that times out goes on in its thread, beside its own retry.              *)
(***************************************************************************)
EXTENDS Naturals, FiniteSets

CONSTANTS
  Templates,      \* the templates followed; jobs never look at each other
  Times,          \* starts a booking is moved between
  FirstStart,     \* where it is placed
  Mailers,        \* the threads e-mails are sent in
  MaxStamp,       \* bound: moves
  MaxCrashes      \* bound: runs cut off or timed out

\* STATUS_FOR; "lapsed" is a pending whose expires_at has passed.
StatusFor ==
  [booking_received |-> {"pending"}, booking_request |-> {"pending"},
   booking_confirmed |-> {"confirmed"}, booking_new |-> {"confirmed"},
   booking_reminder |-> {"confirmed"}, booking_declined |-> {"declined"},
   booking_cancelled |-> {"cancelled_by_merchant"},
   booking_cancelled_by_client |-> {"cancelled_by_client"},
   booking_client_cancelled |-> {"cancelled_by_client"}, booking_expired |-> {"expired"},
   booking_client_rescheduled |-> {"confirmed", "pending", "lapsed"},
   booking_moved_team |-> {"confirmed"},
   booking_refund_failed |-> {"declined", "expired", "cancelled_by_merchant", "cancelled_by_client"}]

TeamTemplates ==
  {"booking_request", "booking_new", "booking_client_cancelled", "booking_client_rescheduled",
   "booking_moved_team"}

LINKED == {"booking_received", "booking_confirmed", "booking_reminder"}

HOLD_TEMPLATES == {"booking_cancelled", "booking_expired", "booking_refund_failed"}

ASSUME BookingMailAssumption ==
  /\ Templates \subseteq DOMAIN StatusFor
  /\ Times \subseteq Nat \ {0} /\ FirstStart \in Times /\ MaxStamp \in Nat /\ MaxCrashes \in Nat

VARIABLES
  booking,        \* the bookings row
  client,         \* the clients row and its client_erasure_holds row
  money,          \* what is owed on the booking
  mails,          \* email.booking jobs with their email_outbox rows
  hands,          \* what each thread is doing
  links,          \* there is a booking_links row
  reached,        \* the starts that are less than a day away
  begun,          \* the starts that have passed
  crashes

mailVars == <<booking, client, money, mails, hands, links, reached, begun, crashes>>

\* stamp: what sets a move's jobs apart; unheard: the quota kept back the reminder of its start;
\* ended: by whom a cancellation was; "meanwhile": by the team, with an erasure waiting for the lock, and
\* no earlier than that erasure's now().
BookingType ==
  [status : {"pending", "lapsed", "confirmed", "declined", "expired", "cancelled_by_merchant",
             "cancelled_by_client"},
   starts : Times, stamp : 0 .. MaxStamp, unheard : BOOLEAN,
   ended : {"no", "team", "meanwhile", "announced", "reapplied", "after erasure"}]

\* hold "early": purged, as no longer needed, before its date.  opened: an erasure's transaction is open,
\* and what had begun and lapsed at its now().
ClientType ==
  [erased : BOOLEAN, hold : {"none", "live", "late", "early"}, opened : BOOLEAN, begun : SUBSET Times,
   lapsed : BOOLEAN]

KeySuffixes == Times \cup (0 .. MaxStamp)

\* template and suffix are the dedupe key; starts is 0 for a payload without one.  recorded: handovers by
\* runs that marked it sent before they were cut off or timed out, or still may.
MailType ==
  [template : Templates, suffix : KeySuffixes, starts : Times \cup {0},
   state : {"queued", "done", "dead"}, outbox : {"none", "pending", "sent"},
   recorded : Nat]

\* late: the run timed out.
HandType ==
  [pc : {"idle", "claimed", "open", "ready", "delivered", "marked"}, template : Templates \cup {"none"},
   suffix : KeySuffixes, to : {"nobody", "client", "hold", "team"}, late : BOOLEAN]

IdleHand == [pc |-> "idle", template |-> "none", suffix |-> 0, to |-> "nobody", late |-> FALSE]

MailTypeOK ==
  /\ booking \in BookingType
  /\ client \in ClientType
  /\ money \in {"none", "paid", "owed", "settled lately", "quiet", "failed", "failed late"}
  /\ mails \subseteq MailType
  /\ hands \in [Mailers -> HandType]
  /\ links \in BOOLEAN
  /\ reached \subseteq Times /\ begun \subseteq reached
  /\ crashes \in 0 .. MaxCrashes

-----------------------------------------------------------------------------
(* Queueing *)

NewMail(template, suffix, starts) ==
  [template |-> template, suffix |-> suffix, starts |-> starts, state |-> "queued",
   outbox |-> "none", recorded |-> 0]

\* The dedupe key of an email.booking job.
Key(m) == <<m.template, m.suffix>>

\* jobs.enqueue: nothing where the key is taken.
Queue(new) ==
  mails' = mails \cup {m \in new : m.template \in Templates /\ \A old \in mails : Key(old) # Key(m)}

\* email: over the business's hourly quota a client's is not queued, and no reminder with it; what goes
\* through a hold is not counted.
Counted(new, over) ==
  {m \in new : over => \/ m.template \in TeamTemplates
                       \/ client.erased /\ m.template \in HOLD_TEMPLATES}

\* remind: unless the start is less than a day away.
Reminder(t) == IF t \in reached THEN {} ELSE {NewMail("booking_reminder", t, t)}

Told(starts, suffix) == {NewMail("booking_confirmed", suffix, starts)} \cup Reminder(starts)

\* announce, in the transaction that placed the booking.
MailInit ==
  /\ client = [erased |-> FALSE, hold |-> "none", opened |-> FALSE, begun |-> {}, lapsed |-> FALSE]
  /\ \E status \in {"pending", "confirmed"}, over \in BOOLEAN :
       /\ booking = [status |-> status, starts |-> FirstStart, stamp |-> 0, unheard |-> over /\ status = "confirmed",
                   ended |-> "no"]
       /\ mails = {m \in Counted(IF status = "confirmed"
                                 THEN {NewMail("booking_confirmed", 0, FirstStart),
                                       NewMail("booking_new", 0, 0),
                                       NewMail("booking_reminder", FirstStart, FirstStart)}
                                 ELSE {NewMail("booking_received", 0, 0), NewMail("booking_request", 0, 0)},
                                 over) : m.template \in Templates}
  /\ money \in {"none", "paid"}
  /\ hands = [w \in Mailers |-> IdleHand]
  /\ links = FALSE
  /\ reached = {} /\ begun = {}
  /\ crashes = 0

-----------------------------------------------------------------------------
(* What happens to the booking, each under the business's lock *)

Owed == IF money = "paid" THEN "owed" ELSE money

\* transition, to confirmed.
AcceptRequest ==
  /\ booking.status = "pending"
  /\ \E over \in BOOLEAN :
       /\ booking' = [booking EXCEPT !.status = "confirmed",
                                     !.unheard = over /\ booking.starts \notin reached]
       /\ Queue(Counted(Told(booking.starts, 0), over))
  /\ UNCHANGED <<client, money, hands, links, reached, begun, crashes>>

\* transition: declined, or cancelled by the team; of an erased client, a booking that was kept.
TeamEnds(status, meanwhile) ==
  /\ meanwhile => client.opened
  /\ IF status = "declined" THEN booking.status = "pending"
     ELSE booking.status \in {"pending", "confirmed"}
  /\ booking' = [booking EXCEPT !.status = status,
                                !.ended = IF client.erased THEN "after erasure"
                                          ELSE IF meanwhile THEN "meanwhile" ELSE "team"]
  /\ money' = Owed
  /\ \E over \in BOOLEAN :
       Queue(Counted({NewMail(IF status = "declined" THEN "booking_declined" ELSE "booking_cancelled", 0, 0)},
                     over))
  /\ UNCHANGED <<client, hands, links, reached, begun, crashes>>

\* booking_links.cancel.
ClientCancels ==
  /\ booking.status \in {"pending", "confirmed"} /\ links /\ ~ client.erased
  /\ booking.starts \notin begun
  /\ booking' = [booking EXCEPT !.status = "cancelled_by_client"]
  /\ money' = Owed
  /\ \E over \in BOOLEAN :
       Queue(Counted({NewMail("booking_cancelled_by_client", 0, 0),
                      NewMail("booking_client_cancelled", 0, 0)}, over))
  /\ UNCHANGED <<client, hands, links, reached, begun, crashes>>

\* reschedule: a member moves a confirmed booking; a move into the past tells nobody.
TeamMoves(t) ==
  LET n == booking.stamp + 1 IN
  /\ booking.status = "confirmed" /\ ~ client.erased
  /\ t # booking.starts /\ booking.stamp < MaxStamp
  /\ \E over \in BOOLEAN :
       /\ booking' = [booking EXCEPT !.starts = t, !.stamp = n, !.unheard = over /\ t \notin reached]
       /\ Queue(IF t \in begun THEN {}
                ELSE Counted(Told(t, n) \cup {NewMail("booking_moved_team", n, t)}, over))
  /\ UNCHANGED <<client, money, hands, links, reached, begun, crashes>>

\* booking_links.reschedule: the client moves it, confirmed or still a request.
ClientMoves(t) ==
  LET n == booking.stamp + 1
      confirmed == booking.status = "confirmed" IN
  /\ booking.status \in {"confirmed", "pending"} /\ links /\ ~ client.erased
  /\ t # booking.starts /\ t \notin begun /\ booking.stamp < MaxStamp
  /\ \E over \in BOOLEAN :
       /\ booking' = [booking EXCEPT !.starts = t, !.stamp = n,
                                     !.unheard = over /\ confirmed /\ t \notin reached]
       /\ Queue(Counted({NewMail("booking_client_rescheduled", n, t)}
                          \cup IF confirmed THEN Told(t, n) ELSE {NewMail("booking_received", n, t)}, over))
  /\ UNCHANGED <<client, money, hands, links, reached, begun, crashes>>

\* expires_at passes; EXPIRE gives the row back.
RequestLapses ==
  /\ booking.status = "pending"
  /\ booking' = [booking EXCEPT !.status = "lapsed"]
  /\ UNCHANGED <<client, money, mails, hands, links, reached, begun, crashes>>

RequestExpires ==
  /\ booking.status = "lapsed"
  /\ booking' = [booking EXCEPT !.status = "expired"]
  /\ money' = Owed
  /\ UNCHANGED <<client, mails, hands, links, reached, begun, crashes>>

\* payments._refund: the refund is recorded, and a client whose booking expired is told.
RefundSettles ==
  /\ money = "owed"
  /\ money' = "settled lately"
  /\ IF booking.status = "expired"
     THEN \E over \in BOOLEAN : Queue(Counted({NewMail("booking_expired", 0, 0)}, over))
     ELSE UNCHANGED mails
  /\ UNCHANGED <<booking, client, hands, links, reached, begun, crashes>>

\* It is refused, or fails later: _mail_refund_failed tells an erased client.
RefundFails ==
  /\ money \in {"owed", "settled lately", "quiet"}
  /\ money' = IF money = "quiet" THEN "failed late" ELSE "failed"
  /\ IF client.erased THEN Queue({NewMail("booking_refund_failed", 0, 0)}) ELSE UNCHANGED mails
  /\ UNCHANGED <<booking, client, hands, links, reached, begun, crashes>>

\* Time: a week since the refund settled; a start comes near, or passes; the hold's 30 days are over.
WeekPasses ==
  /\ money = "settled lately"
  /\ money' = "quiet"
  /\ UNCHANGED <<booking, client, mails, hands, links, reached, begun, crashes>>

StartNears(t) ==
  /\ LET earlier == {u \in Times : u < t} IN
     \/ t \notin reached /\ earlier \subseteq reached /\ reached' = reached \cup {t} /\ UNCHANGED begun
     \/ t \in reached \ begun /\ earlier \subseteq begun /\ begun' = begun \cup {t} /\ UNCHANGED reached
  /\ UNCHANGED <<booking, client, money, mails, hands, links, crashes>>

HoldDate ==
  /\ client.hold = "live"
  /\ client' = [client EXCEPT !.hold = "late"]
  /\ UNCHANGED <<booking, money, mails, hands, links, reached, begun, crashes>>

-----------------------------------------------------------------------------
(* Erasure *)

\* client_hold_needed: money owed or lately settled, or an e-mail through the hold still to go.
HoldNeeded ==
  \/ money \in {"owed", "settled lately", "failed", "failed late"}
  \/ \E m \in mails : m.state = "queued" /\ m.template \in HOLD_TEMPLATES

ClientLockedMutant == FALSE

\* FOR SHARE OF c: held from the look at the booking to the commit.
ClientLocked == \E w \in Mailers : hands[w].pc = "open"

\* An erasure's transaction opens: now() is taken, before it waits for the booking lock.  Again after one
\* that was rolled back.
OpenErase ==
  /\ ~ client.erased
  /\ client' = [client EXCEPT !.opened = TRUE, !.begun = begun, !.lapsed = booking.status = "lapsed"]
  /\ booking' = [booking EXCEPT !.ended = IF @ = "meanwhile" THEN "team" ELSE @]
  /\ UNCHANGED <<money, mails, hands, links, reached, begun, crashes>>

\* end_for_erasure and erase_client_core, with the locks.  An announced erasure's caller queues the
\* client's e-mail; app.ledger reapply, with the worker stopped, announces nothing, and ends what was
\* live at the first erasure too (since: the booking was, though it has begun or lapsed by now).
Erase(announce, since) ==
  LET live == \/ booking.status = "pending"
              \/ booking.status = "lapsed" /\ (since \/ ~ client.lapsed)
              \/ booking.status = "confirmed" /\ (since \/ booking.starts \notin client.begun) IN
  /\ client.opened /\ ~ ClientLocked
  /\ since => ~ announce
  /\ ~ announce => \A w \in Mailers : hands[w].pc = "idle"
  /\ booking' = IF live THEN [booking EXCEPT !.status = "cancelled_by_merchant",
                                             !.ended = IF announce THEN "announced" ELSE "reapplied"]
                ELSE booking
  /\ money' = IF live THEN Owed ELSE money
  /\ client' = [erased |-> TRUE, opened |-> FALSE, begun |-> {}, lapsed |-> FALSE,
                hold |-> IF (announce /\ live) \/ HoldNeeded \/ (live /\ money = "paid")
                         THEN "live" ELSE "none"]
  /\ IF announce /\ live THEN Queue({NewMail("booking_cancelled", 0, 0)}) ELSE UNCHANGED mails
  /\ links' = FALSE
  /\ UNCHANGED <<hands, reached, begun, crashes>>

\* erasure_holds.purge, by the sweep or the backstop job.
PurgeHold ==
  /\ client.hold \in {"live", "late"} /\ (client.hold = "late" \/ ~ HoldNeeded)
  /\ client' = [client EXCEPT !.hold = IF @ = "late" THEN "none" ELSE "early"]
  /\ UNCHANGED <<booking, money, mails, hands, links, reached, begun, crashes>>

-----------------------------------------------------------------------------
(* A thread sends one *)

Has(w, m) == hands[w].template = m.template /\ hands[w].suffix = m.suffix

\* A run that is on time has the job: the claim has pushed its due_at past the run's timeout.
InHand(m) == \E w \in Mailers : Has(w, m) /\ ~ hands[w].late

Runnable(m) ==
  m.state = "queued" /\ ~ InHand(m) /\ (m.template = "booking_reminder" => m.suffix \in reached)

\* HOLD, without its date: what an erased client is still told.
Entitled(m) ==
  /\ m.template \in HOLD_TEMPLATES
  /\ m.template = "booking_cancelled" => booking.ended \in {"team", "announced"}

\* send_booking's gates, on the row as it is now.
Goes(m) ==
  /\ booking.status \in StatusFor[m.template]
  /\ m.starts # 0 => m.starts = booking.starts
  /\ m.template = "booking_reminder" => booking.starts \notin begun
  /\ IF m.template \in TeamTemplates THEN ~ client.erased
     ELSE IF client.erased THEN Entitled(m) /\ client.hold = "live"
     ELSE m.template # "booking_refund_failed"

Done(m) == [m EXCEPT !.state = "done"]

Update(m, new) == mails' = (mails \ {m}) \cup {new}

Held(w) == CHOOSE m \in mails : Has(w, m)

\* The handler returns: the job is complete, unless the run has timed out, which nobody waits for.
Return(w) ==
  /\ hands' = [hands EXCEPT ![w] = IdleHand]
  /\ IF hands[w].late THEN UNCHANGED mails ELSE Update(Held(w), Done(Held(w)))

\* CLAIM, and a thread for the handler.
ClaimMail(w, m) ==
  /\ hands[w].pc = "idle" /\ Runnable(m)
  /\ hands' = [hands EXCEPT ![w] = [IdleHand EXCEPT !.pc = "claimed", !.template = m.template,
                                                   !.suffix = m.suffix]]
  /\ UNCHANGED <<booking, client, money, mails, links, reached, begun, crashes>>

\* Nothing to send: also to a member who has left.
SkipMail(w) ==
  /\ hands[w].pc = "claimed" /\ (~ Goes(Held(w)) \/ Held(w).template \in TeamTemplates)
  /\ Return(w)
  /\ UNCHANGED <<booking, client, money, links, reached, begun, crashes>>

OpenMail(w) ==
  /\ hands[w].pc = "claimed" /\ Goes(Held(w))
  /\ hands' = [hands EXCEPT ![w].pc = "open",
                            ![w].to = IF Held(w).template \in TeamTemplates THEN "team"
                                      ELSE IF client.erased THEN "hold" ELSE "client"]
  /\ UNCHANGED <<booking, client, money, mails, links, reached, begun, crashes>>

\* What _outbox returned.
AlreadySent(m) == m.outbox = "sent"

\* _outbox and INSERT_LINK, and the commit; a message that is marked sent ends here.
CommitMail(w) ==
  LET m == Held(w) IN
  /\ hands[w].pc = "open"
  /\ IF AlreadySent(m)
     THEN Return(w) /\ UNCHANGED links
     ELSE /\ hands' = [hands EXCEPT ![w].pc = "ready"]
          /\ Update(m, [m EXCEPT !.outbox = IF @ = "none" THEN "pending" ELSE @])
          /\ links' = (links \/ (hands[w].to = "client" /\ m.template \in LINKED))
  /\ UNCHANGED <<booking, client, money, reached, begun, crashes>>

\* The recipient's hourly quota, never a hold's.
OverQuota(w) ==
  /\ hands[w].pc = "ready" /\ hands[w].to = "client"
  /\ Return(w)
  /\ UNCHANGED <<booking, client, money, links, reached, begun, crashes>>

\* deliver.
Deliver(w) ==
  /\ hands[w].pc = "ready"
  /\ Update(Held(w), [Held(w) EXCEPT !.recorded = IF hands[w].late THEN @ ELSE @ + 1])
  /\ hands' = [hands EXCEPT ![w].pc = "delivered"]
  /\ UNCHANGED <<booking, client, money, links, reached, begun, crashes>>

\* _mark_sent.
MarkSent(w) ==
  /\ hands[w].pc = "delivered"
  /\ Update(Held(w), [Held(w) EXCEPT !.outbox = "sent"])
  /\ hands' = [hands EXCEPT ![w].pc = "marked"]
  /\ UNCHANGED <<booking, client, money, links, reached, begun, crashes>>

CompleteMail(w) ==
  /\ hands[w].pc = "marked"
  /\ Return(w)
  /\ UNCHANGED <<booking, client, money, links, reached, begun, crashes>>

\* The run is over for the worker: the job is tried again, or was tried often enough.
GiveUp(w, state) ==
  /\ hands[w].pc # "idle" /\ ~ hands[w].late /\ crashes < MaxCrashes
  /\ crashes' = crashes + 1
  /\ Update(Held(w), [Held(w) EXCEPT !.state = state,
                                     !.recorded = IF hands[w].pc = "delivered" THEN @ - 1 ELSE @])
  /\ UNCHANGED <<booking, client, money, links, reached, begun>>

\* The worker stops, or the handler raises.
CrashMail(w, state) == GiveUp(w, state) /\ hands' = [hands EXCEPT ![w] = IdleHand]

\* The kind's timeout: the thread cannot be stopped and goes on.
TimeOut(w, state) == GiveUp(w, state) /\ hands' = [hands EXCEPT ![w].late = TRUE]

\* It stops too, or raises, and nobody hears of it.
LateFails(w) ==
  /\ hands[w].pc # "idle" /\ hands[w].late
  /\ hands' = [hands EXCEPT ![w] = IdleHand]
  /\ UNCHANGED <<booking, client, money, mails, links, reached, begun, crashes>>

MailNext ==
  \/ AcceptRequest \/ ClientCancels \/ RequestLapses \/ RequestExpires
  \/ RefundSettles \/ RefundFails \/ WeekPasses \/ HoldDate \/ PurgeHold \/ OpenErase
  \/ \E status \in {"declined", "cancelled_by_merchant"}, meanwhile \in BOOLEAN : TeamEnds(status, meanwhile)
  \/ \E t \in Times : TeamMoves(t) \/ ClientMoves(t) \/ StartNears(t)
  \/ \E announce, since \in BOOLEAN : Erase(announce, since)
  \/ \E w \in Mailers, m \in mails : ClaimMail(w, m)
  \/ \E w \in Mailers : \/ SkipMail(w) \/ OpenMail(w) \/ CommitMail(w) \/ OverQuota(w)
                        \/ Deliver(w) \/ MarkSent(w) \/ CompleteMail(w) \/ LateFails(w)
  \/ \E w \in Mailers, state \in {"queued", "dead"} : CrashMail(w, state) \/ TimeOut(w, state)

MailSpec == MailInit /\ [][MailNext]_mailVars

-----------------------------------------------------------------------------
(* Properties *)

\* A message goes out a second time only where a run was cut off after it handed the message over and
\* before it recorded it (send's docstring), or had timed out and ran on beside its retry (_send's "can
\* duplicate"): of the runs on time until they record it one hands it over, also between such runs.
AgainOnlyIfUnrecorded ==
  \A m \in mails : m.recorded <= 1

\* Once the client is erased there is no manage link, and nobody is reading the address to mail one:
\* not by a job that looked at the client while the erasure was on its way (BOOKING's FOR SHARE).  A
\* message whose transaction had committed by then has the address, and may still be handed over.
ErasedIsForgotten ==
  client.erased => ~ links /\ \A w \in Mailers : hands[w].pc = "open" => hands[w].to # "client"

\* A hold is given up before its date only when no e-mail that needs it is still to go, also one that
\* is being tried again; but for a refund that fails after its week (client_hold_needed).
HoldOutlastsItsMail ==
  client.hold = "early" =>
    \A m \in mails : m.state = "queued" /\ Entitled(m) => money = "failed late"

\* A confirmed booking more than a day ahead has its reminder waiting, for the time it has now: also
\* one moved away and back again (remind's key); unless the quota kept it back.
ReminderWaits ==
  "booking_reminder" \in Templates /\ booking.status = "confirmed" /\ ~ client.erased
      /\ booking.starts \notin reached /\ ~ booking.unheard =>
    \E m \in mails : m.template = "booking_reminder" /\ m.starts = booking.starts /\ m.state = "queued"

\* No second copy but by a run cut off or timed out before it recorded its own, nothing begun for an
\* erased client's own address and no link, no hold given up under an e-mail, and the reminder of the
\* time it has now: across moves, endings, erasures, crashes and timeouts.
MailInv == MailTypeOK /\ AgainOnlyIfUnrecorded /\ ErasedIsForgotten /\ HoldOutlastsItsMail /\ ReminderWaits

=============================================================================
