# ziftbook: TLA+ models, checks and proofs

ziftbook is a booking application for small businesses: a public page where
clients ask for appointments, a console where the business answers them, a
Stripe checkout in front of some bookings, and a worker that runs background
jobs. The backend (`src/backend/app`) is Python over one PostgreSQL database.

This directory models the parts of it where several writers, a payment
provider, retries and clocks meet: the bookings and everyone who writes them,
the checkout, the refunds, the job queue and the worker's loop; who may sign in
as whom; and what the booking console rests on, from e-mails and rate limits to
the calendar, photos, the erasure ledger and the currency. Each module is a
translation of the code it names; `PROJECT.json` maps every definition to its
lines.

## 1. Inventory

### The parts and how they interact

| Part | Source | State | Operations |
|---|---|---|---|
| Bookings | `bookings.py`, `booking_links.py`, `cancellation.py` | `bookings`, `booking_events` | place (online, by a member), accept, decline, cancel, complete, no-show, correct, move, expire, end for an erasure |
| Availability | `availability.py`, `schedule.py`, `time_off.py`, `services.py` | shifts, opening hours, time off, services | compute slots, check one start |
| Settings | `business_settings.py`, `business_currency.py` | one row per business | read by every booking writer, changed by owners |
| Checkout and refunds | `payments.py`, `stripe_gateway.py` | `booking_payments`; the intents, charges and refunds at Stripe | start, resume, switch, abandon, sync, reconcile, settle, refund, refund_changed |
| Job queue, worker | `jobs.py`, `worker.py` | `jobs` | enqueue, claim, run, record, prune; sweeps between drains |
| Members, invites | `members.py`, `invites.py` | memberships, invites | change role, remove, invite, accept, revoke |
| Clients, erasure | `clients.py`, `ledger.py`, `erasure_holds.py`, migrations 0063, 0064, 0078 | clients, notes, consents, contact holds, the ledger kept outside the database | find or create, note, consent, withdraw, erase, re-apply after a restore, hold a contact |
| Sign-in | `auth.py`, `admin_auth.py`, `accounts.py`, `setup.py`, `platform_account.py`, `totp.py` | sessions, cookies, links, second factors | sign in and out, set up, sign up, reset, charge an attempt, check a code, lock |
| Limits | `limits.py` | windows in the database, in-flight slots in memory | hit, charge, refund |
| Mail | `mail.py`, `contact_email.py` | e-mail jobs, the outbox, waiting addresses | queue, gate, send, record, confirm |
| Retention | `retention.py`, migration 0074 | where the walk over the businesses stopped | clear what is past its period, in batches |
| Photos | `photos.py`, `storage.py` | media rows, objects in a bucket | upload, finalise, replace, delete |
| The rest | configuration, logging, audit, admin console, frontend, landing site | none the others depend on | |

They meet in four places.

* **The business's advisory lock.** Every writer of bookings, the removal of a
  member, time off and the writing transactions of the payment path take one
  lock per business. Handlers are therefore atomic with respect to one another,
  but PostgreSQL's `now()` is fixed when the transaction opens, *before* it
  waits for the lock. A handler can run with a clock that is behind, after
  another handler that ran with a later one.
* **Calls to Stripe.** No transaction stays open across one. A payment handler
  is a sequence of short transactions and calls, and anything may happen in
  between, in the database and at Stripe.
* **The job queue.** A webhook stores nothing but a job; ended bookings enqueue
  settle jobs; e-mails are jobs. A job is claimed with a lease by time alone,
  may run more than once, may be given up after five attempts, and runs on in
  its thread after it timed out.
* **The worker's sweeps.** Every 300 seconds lapsed holds are expired, and what
  is still unsettled gets a new settle job, keyed by the hour.

### What is hard here, and what makes each part correct

* *Bookings.* Correct when no worker is booked twice, what the slot check
  offers can be inserted, holds end and ended bookings stay ended, a sequence of
  moves cannot win back a refund, workers cannot send the business's money
  back, and erased clients and removed members have nothing to come. Hard:
  the lagging clock; the agreement of four places that decide whether a
  hold is over (the read, `EXPIRE`, the constraint, the status changes).
* *Checkout.* Correct when a client never pays twice, no charge is lost, nobody
  is booked without a payment or check that landed, and every authorisation is
  released. Hard: two browser tabs, a switch of kind, an abandon, a sweep and a
  settle job around the same intents; webhooks lost, late or repeated.
* *Refunds.* Correct when never more than is owed is sent, and what is owed and
  could not be sent is known to the business. Hard: overlapping jobs, an
  idempotency key that expires, refunds that fail days later, refunds by hand.
* *Job queue.* Correct when two live runs of one job are impossible, retries do
  not turn into skips, pruning spares work, and every job ends. Hard: the lease,
  the backoff and the give-up rule share one column.
* *Sign-in and members.* Correct when no session outlives a reset or a removal,
  one browser is one person's, a link works once, a business keeps an owner and
  the first account is the admin's. Hard: a password is hashed or verified
  between two transactions, so every check is made on what may be gone by the
  second; answers with cookies get lost.
* *Second factor.* Correct when every guess is counted and a code passes once.
  Hard: a code is charged in one transaction and checked in the next, any number
  at once.
* *E-mails and erasure.* Correct when a message that a run recorded in time is
  not sent again, no e-mail is begun for an erased client but through a hold, and
  the hold lasts until it is not needed. Hard: a job runs any time later, on a
  booking that was moved, ended or erased since, may die at any step, and goes on
  beside its own retry after it timed out.
* *Clients.* Correct when neither a withdrawal nor an erasure nor a note is undone
  by what runs beside it. Hard: three different locks.
* *Limits, calendar, services, ledger, currency.* Correct when windows count what
  happened in them, slots are the right ones on a day the clocks change, a photo
  in use is stored, who was erased stays erased across restores, and everything
  with a price is in one currency.

`PROJECT.json` lists 36 components with their status and reason, and the
hazards with the properties that cover them.

## 2. The modules

### `BookingRows`, `Bookings`

`BookingRows` holds the SQL statements of `bookings.py` as operators on one row:
`Where...` is a statement's WHERE clause, the operator beside it its SET list
with the `booking_events` row it writes. The rule engine (`decide`,
`linkDecide`) and the slot check (`SlotOffered`, `BookedRows`,
`ExclusionFree` for the database's exclusion constraint) are there too.

`Bookings` is the system. Its state and the code's:

| Variable | Stands for |
|---|---|
| `bookings` | the table, with the row's policy snapshot; `payment` is the live `booking_payments` status, `last` and `held` are read off `booking_events` |
| `settings` | the settings row, any member of `Settings`, changed at any moment |
| `removed`, `erased` | memberships with role `removed`, clients with `erased_at` |
| `clock`, `floor` | the wall clock; `floor` is the earliest moment a transaction still to come can have opened at |

An action is a whole handler, run under the lock with a `now` from `Nows`: up to
`MaxWait` behind the clock. That is the model of the frozen `now()`. A refused
request changes nothing and is no step.

| Action | Handler |
|---|---|
| `BookOnline`, `Book` | `book_online`, `book` with sweep, slot check, cap, load order and constraint |
| `Transition` | the PATCH: accept (with the start that was shown), decline, cancel, complete, no-show, correct |
| `ClientCancel`, `ClientReschedule` | the client's link, with what the page echoes back |
| `MerchantReschedule` | a move to another time or worker |
| `CardLands`, `GiveBack` | the payment path's writes on the booking |
| `Sweep` | `bookings.sweep` |
| `ReapplyErasure` | `ledger.reapply` for one entry. It runs with the application disconnected, so it raises `floor` |
| `RemoveMember`, `ChangeSettings` | `members.remove`, `update_settings` |

Which starts shifts and opening hours put up is the constant `Grid`.

### `Checkout`

One online booking from its placement to its last intent. `tasks` are handlers
in flight; each remembers what it read (`row`, `n`, `key`, `seen`), because that
is what goes stale. One action per transaction and per call: `StartCreate`,
`StartInsert`, `GiveBack`; `BeginResume`, `ResumeRetrieve`, `ResumeCancel`,
`ResumeCreate`, `ResumeInsert`, `ResumeConflict`, `ResumeAgain`, `Orphan`;
`BeginAbandon`, `AbandonCancel`, `AbandonWrite`; `BeginReconcile`, `Look`,
`Reconcile` (sync and every webhook event); `BeginSettle`, `SettlePass`,
`SettleCancel`, `SettleMark`. `StartFails` is a call or insert that failed,
whether or not it took effect. `Drop` is a handler that stops anywhere.

`hold` is the checkout's deadline as transactions see it: `running`, `grace`
(transactions that opened before it may still be waiting for the lock, so
`expires_at > now()` may be answered either way), `over`.

Stripe is the environment, modelled from how the code uses it: a create
repeated under its key is the same intent; a cancel succeeds unless money is
under way or taken; a browser that was shown a secret may confirm the intent at
any later time; a bank accepts or declines; an authorisation lapses. The
"authorisation" way of checking a card (`CHECK_WITH`) is the one modelled, as it
is the one that is on.

`OneCharge` is the abstract specification: one charge at the most, which a bank takes or
declines; nothing more is charged once a check or a payment is on record; the slot is
booked in the step that puts it on record, or expires. `Checkout` implements it under
the mapping in `KeepsToOneCharge`: a charge is under way or taken while a payment
intent is `processing` or `succeeded`, the record is the row that is `checked` or
`paid`, the slot is the booking's status. Handlers, secrets, deadlines, canceled rows
and everything about a card check before it is recorded are hidden.

### `Refunds`

One paid row of a booking that ended or whose checkout ran out. `_refund` is
`BeginRefund`, `Retrieve`, one of `RefundFirst`, `RefundAgain`, `RefundRefused`,
then `Again` and `Record`; `refund_changed` is `BeginEvent`, `ReadRefund`,
`ReadCharge`, `Write`, and follows `Record` in the same job. `key` is what
Stripe stored under `refund:{id}`; it answers the same request with the same
answer, another amount with an error, and expires when no job is running.
`HandRefund` and `RefundFails` are the business and the bank. `TimesOut` leaves
a job running beside its retry.

The percentage is a constant choice in `Init`: `cancel` records it in the same
statement that ends the booking. The kept card fee is off
(`KEEP_CARD_FEE_ON_CLIENT_CANCEL`) and is left out.

### `Jobs`

The row of one dedupe key and the runs of its attempts. Times are relative to
now, so the module has no clock to bound: `wait` is `next_attempt_at - now`,
`late` is `now - due_at`. `Claim` is the CLAIM statement together with the
decision of `_run` to skip or run; `HandlerReturns` and `Record` are separate
steps, as the code records in a transaction of its own; `RunFails` is an
exception, a timeout or a dead worker at any of these points. `JobsTick` cannot pass
a running handler's timeout. `neglect` is a history variable: how long the job
could have been claimed and nobody did.

`JobPromise` is the abstract specification: a key asked for is owed until it is
settled, is worked on by one worker at a time, and is free again only when it is
settled and nobody works on it. `Jobs` implements it under the mapping in
`KeepsItsPromise`: the promise is owed while the row is neither done nor skipped
nor out of attempts, and a worker is at it while a run inside its timeout is in
its handler.

### `WorkerLoop`

One iteration of `worker.work`: `Drain`, `PruneJobs`, `SweepHolds`,
`SweepBookings`, the retention run batch by batch, `Ping`, `WaitForPoll`. A step
may be broken for a while or for good (`Breaks`), and a failure goes where the
code's `try` sends it: a failed prune skips both sweeps, a failed sweep does not
skip the other. `RestartWorker` loses what is in memory, the walk over the
businesses included. That `run_once` until nothing is due comes to an end is
assumed.

`Worker` puts the queue, the loop and the sweep of the bookings side by side, with
the fairness of each; they share no table, so the variable `part` is chosen at the
start and only that part moves. `MCWorker` gives it its constants.

### `Sessions`, `Members`, `SecondFactor`, `ContactEmail`, `Clients`

| Module | State | What goes stale |
|---|---|---|
| `Sessions` | stored passwords, memberships, session rows, the two cookies of one browser, one sign-in on its way | the password was verified, and the old account session ended, before the transaction that starts the new one; `PasswordUnchanged` and `IsMember` are its FOR SHARE reads |
| `Members` | password hashes, roles, invites, e-mailed links with the secret last minted, two tabs | a tab has looked up a link or an invite and hashes or verifies a password; `Accepts`, `CompleteSignUp`, `TakeLink`, `CompleteSetup` look again. A reset is two steps, as its locks are: `TakeLink` deletes its link and holds the row, `Reset` deletes the address's others but those `InUse` (SKIP LOCKED) and commits. `ChangeRole`, a removal included, carries the last-owner trigger |
| `SecondFactor` | the factor, its failures and charges, sessions past it, attempts between charge and check | the factor may be wiped, enrolled again or locked in between. A code is a time step, right or wrong |
| `ContactEmail` | the address shown, the waiting one, senders' places per inbox, saves in flight | a save looks without a lock, claims a place in a transaction of its own, and writes under the row's lock |
| `Clients` | a client's record, the log of consents, the bookings with an unconfirmed tick, requests holding locks | the booking lock, FOR SHARE and FOR NO KEY UPDATE are told apart: bookings, confirmations and erasures take the first, notes the last, a member's consents the second |

### `BookingMail`, `Limits`, `Calendar`, `Services`, `Ledger`, `Currency`

| Module | State | Actions |
|---|---|---|
| `BookingMail` | one booking, its client and hold, its money, its e-mail jobs and their outbox rows, what each sending thread has in hand | the writers of the booking with what they queue; `OpenErase` (its `now()`), `Erase` (after the lock wait; `since` is a reapply at the first erasure's time), `PurgeHold`; a run's `ClaimMail`, `SkipMail`, `OpenMail`, `CommitMail`, `OverQuota`, `Deliver`, `MarkSent`, `CompleteMail`. `CrashMail` stops it; `TimeOut` leaves it going on, `late`, while the job is claimed again; `LateFails` |
| `Limits` | the counts of three windows, the in-flight slots, requests on their way through `bookings.create` | `hit` with its slots, `charge`, the placement, `refund` in the window there is then |
| `Calendar` | one worker's hours, opening hours, time off, appointments on a day whose clock may jump | replace the hours or the opening week in two steps, book a slot or by override, accept on a lagging clock, put and move time off. `MemberSlots` is the algorithm of `availability.py`: `Sorted`, the loop of `merged` and `day_shifts` (`Join` is one iteration, `Loop` all of them), `Clip`, the walk over a shift (`Grid`) and the bisection (`Overlaps`) |
| `Services` | a service's photo and performers, the bucket, Saves and delete jobs between their steps | store, save, queue a delete, look and delete, which may fail after some of the objects (`Gone`); save the performers, remove a member |
| `Ledger` | the database, its backups, the bucket, and for the history the erasures a restore took back before the ledger had them (`undone`) | erase, record, give up, dump, restore, backfill, reapply from `since` or from the start |
| `Currency` | the currency, prices, sold bookings, the Stripe account, requests between their look and their write | save a price, book what was shown, connect, change with its relabelling and its aborts |

These parts keep tables of their own, so `MCAccounts` and `MCSystem` check each
as one specification among several: the variable `part` is chosen at the start
and only that part moves. Model values are
shared between the parts, and the symmetry sets with them.

## 3. The runs

| Run | Module, bounds | Properties | Shows |
|---|---|---|---|
| `booking_life` | `MCBookings`: one worker, client and booking, 4 ticks, `MaxWait` 1, two settings that differ in auto-confirmation, free window and who may answer | `BookingsInv`, `RefundNeedsEveryStart`, `WorkersNeverRefund`, `ErasuresHold`, `ClosedStaysClosed`, `TakenUpInTime`, `CancelFavoursTheClient` | every writer on one row: the CHECK constraints hold, moves never win back a refund, workers never refund, erasure is never refused and leaves nothing to come; no step reopens a closed row, takes up a hold later than the wait for the lock, or settles a client's cancellation against them |
| `booking_slots` | `MCBookings`: two bookings of two ticks' length in three ticks | `NoDoubleBooking`, `OfferedIsFree` | no double booking; what is offered is free |
| `checkout` | `MCCheckout`: two handlers at a time, three intents, two faults: 1.2 million states | `CheckoutInv`, `NoChargeUnseen`, `NoDoubleCharge`, `RowsOnlyClose`, `KeepsToOneCharge` | the checkout keeps its promise: never two charges, no charge beside a checked card, no charge without a row, no booking without a payment or a check that landed, one live secret, settle spares a running checkout, rows only close |
| `checkout_settles` | two handlers, two intents, one fault, fair: 0.44 million states | `PaymentsSettle` | every charge recorded, every authorisation released, without any webhook being relied on |
| `refunds` | `MCRefunds`: two jobs, amount 4, refunds of 50 or 100 %, one by hand of 1, three faults, fair: 1.2 million states | `RefundsInv`, `NeverRefundedTwice`, `SettlesInTheEnd` | never more than owed, told once, no shortfall forgotten, every payment settled |
| `worker` | `MCWorker`, `Worker`: a job (lease 2, timeout 1, grace 33, retention 3); a loop with three businesses, two rows that age and two faults; one booking for the sweep; fair: 0.28 million states | `WorkerInv`, `OneLiveRun`, `SkippedOnlyIfNeglected`, `KeepsItsPromise`, `EveryJobEnds`, `LoopGoesOn`, `HoldsEnd` | the queue keeps its promise and every job ends; the ping tells the truth, the sweeps run on whatever is broken, no business is starved by retention; every hold ends |
| `accounts` | `MCAccounts`: two people, two requests in flight, two reset links: 1.07 million states | `SessionsInv`, `MembersInv`, `AccountsChangeByRight`, `FactorInv`, `NoReplay`, `ContactInv`, `ConfirmedByItsInbox`, `ClientsInv`, `OnlyTheirsToChange` | who may sign in as whom, and who may change what is kept of whom |
| `system` | `MCSystem`: one booking's e-mails and two threads sending them, three placements, a day of twelve ticks, two Saves, an erased client and three dumps in three hours, two buyers: 1.3 million states | `MailInv`, `LimitsInv`, `CalendarInv`, `ServicesInv`, `LedgerInv`, `CurrencyInv` | what the console rests on |
| `removal_race` | `MCBookings`, one booking | `RemovedHaveNothingToCome` | **violated**, see section 6 |
| `abandon_undoes_check` | `MCCheckout`, one intent, no faults | `AbandonKeepsLanded` | **violated**, see section 6 |
| `refund_flag_race` | `MCRefunds`, two jobs, one fault | `FlagIsRight` | **violated**, see section 6 |
| `admin_reset_race` | `MCSessions` | `ResetSignsOutEverywhere` | **violated**, see section 6 |

An invariant named `...Inv` is the conjunction of its component's type and the
parts defined above it, each with its own comment: `SessionsInv` is
`NoSessionOutlivesReset`, `OneBrowserOnePerson` and `SessionsEndWithMembership`;
`FactorInv` is `EveryGuessCounted`, `GuessesAreBounded` and `PassedUnderThisSecret`;
`ClientsInv` is `WithdrawalStands`, `TombstoneIsBare` and `NoNoteLost`; `MailInv`
is `AgainOnlyIfUnrecorded`, `ErasedIsForgotten`, `HoldOutlastsItsMail` and
`ReminderWaits`; and so on. `SlotsAreRight`, in `CalendarInv`, compares the slot
algorithm with a definition point by point, and `WeeksAreSeparate` says of a stored
week what `overlapping` finds out by comparing neighbours only.

**Why these bounds.** In `Bookings` no guard reads more than two rows except the
cap, which is counted and used in one step under the lock; a wait of
one tick gives a lagging clock on either side of every deadline, and windows of
0 to 2 ticks put every comparison on both of its sides. In `Checkout` the races
are between two handlers, each of any kind, and a third intent is the first that
can follow a switch back; handlers are begun over and over, so three in a row
are covered and only three *at once* are not. Two faults give a lost answer, a
killed handler, a decline or a lapse at every point, and one more during the
recovery from it. In `Refunds` amount 4 separates none, some, half and all; three
faults are enough for a job that stops, the refund it had made failing, and its
repetition stopping too, the longest chain the recovery code provides for. In
`Jobs` a grace of 33 is just above the 30 ticks of all backoffs at a lease of 2,
so a wrong backoff or grace turns into a skip. The loop's three businesses and
two batches a run make a walk that has to be resumed twice. In `Members` three
secrets are the first mint, the one that replaces it, and the one that is used;
in `SecondFactor` a lock of 2 is reached by two attempts at once; in `Clients` one
address, one tick and three entries of the log are a tick, a withdrawal and a
grant in any order; in `Limits` three requests exceed both the limit of a window
and an address's slots; in `Calendar` a jump of one grid step each way meets
shifts on both of its sides; in `Ledger` three dumps are one of a database, one of
the database restored from it, and one of what was restored before.

**Restrictions.** `booking_slots` uses `CONSTRAINT TwoRows` (nobody erased or
removed, one move of each booking; the other run has those) and `VIEW SlotView`,
which forgets the history fields and the refund anchor: with one setting and
one client, no guard reads them except to choose which refund is recorded, which
neither property reads. `checkout` uses `CONSTRAINT ThirdOrFaults`: a third intent
or faults, not both, which is the union of two smaller instances. `accounts` bounds
the members' steps by `TwoResets` (two links at one time are reset links of one
address, as only those have to do with each other, and one account gets to its third
password) and uses `CONSTRAINT AccountsBounds`: one platform admin, always the same installer, and
the other businesses write to one of the two inboxes. `system` starts from one of
the initial states that differ in the names of requests alone (`InOrder`), and
mails the two templates whose gates differ most, the reminder and the cancellation; a
second thread sends only the retry of a run that timed out (`RetryBeside`: two jobs
never look at each other), of moves, cut-off runs and the erasure two come in one
behaviour and a paid booking is not moved (`TwoOf`; a move looks at no money, nor money at
a move), and while a late run goes on the booking is where it was placed and neither
time nor a refund moves on (`StillBeside`); its
opening weeks are saved beside one appointment at the most (`SavedBeside`), of which a
save reads and writes none; and a service's performers change while nothing is being saved
to its photo, or the photo while nobody has been assigned (`OneHalf`).
Symmetry is over people, tabs, requests and handlers, which no definition tells
apart, and only in runs without liveness properties. `CHECK_DEADLOCK FALSE` is in
the Checkout, Refunds and System configurations: a checkout whose intents are all
closed, a refund that is settled, or a booking whose e-mails have all gone really
has nothing more to do.

**Fairness.** `Bookings`: time passes and the worker sweeps (every 300 seconds,
`worker.py`); no client or member is assumed to do anything. `Checkout`: a
handler that is not stopped goes on (every call has a timeout); the hold lapses;
a bank answers a payment under way; and `BeginSettle` is strongly fair because
`UNSETTLED` re-arms it every hour under a new key, whatever became of the last
job. Neither the browser nor any webhook is assumed. `Refunds`: the same, and
event jobs are strongly fair because the queue retries them; faults are bounded
by `MaxFaults`, standing for "not every attempt fails for ever". `Jobs`: some
worker is up often enough to claim, and no run stays in one step for ever.
`WorkerLoop`: the loop goes on from step to step, as every call in it has a
timeout; what stays broken for good is the antecedent of `LoopGoesOn`, not assumed
away.

Each property of a passing run has a mutant in `PROJECT.json`: a change of one
mapped definition, such as a dropped guard or an off-by-one, under which TLC finds
the property violated. The mutated forms stand before the definitions they
change, with the suffix `Mutant`.

## 4. What is proved

With TLAPS, for every value of the constants that the named assumption of the
component's module allows. Every safety property of a passing run is proved. The
bounds of the runs stay in the modules as constants, but all that is assumed of
one is that it is a natural number, in some places a positive one, and of three
sets that are counted (`Requests`, `Attempts`, `Prices`) that they are finite.
So the theorems hold for every number of handlers, intents, retries or rows.
Each proof follows one pattern: an inductive invariant named `...IInv`, checked
with TLC on the run's bounds first; one lemma per action; a lemma that puts the
actions together; and the theorem.

**`BookingsProofs`** (`BookingsAssumption`: the settings are well typed, durations
positive, times natural numbers).

* `BookingsSound`, `NeverDoubleBooked`, `RefundAnchored`, `OffersAreFree`
  and the action properties `EndedStaysEnded`, `NoLateTakeUp`, `CancelInFavour`, from
  `IInv == TypeOK /\ Good(bookings)`: rows are typed, each is `RowOK`, and the table
  is `Apart`. `RowOK` strengthens the CHECK constraints with "the anchor is at or
  below every start held", without which `RefundNeedsEveryStart` is not inductive: a
  move that lowers nothing must still leave the anchor below a start left three
  moves ago.
* The argument goes statement by statement. Each row lemma shows that a
  statement writes a typed row that is `RowOK` and either `Stays` (same
  interval, and occupying only if it was) or passed `ExclusionFree`. Three table
  lemmas (`RewriteGood`, `MoveGood`, `AppendGood`) lift this to the table, one
  lemma per action applies them, and `NextGood` combines them. The clock a
  handler runs on appears nowhere in `Good`, which is why no lag can break it.
* `WorkersKeepTheMoney` and `ErasedForGood` need more of each row (`RowsIInv`).
  `MoneyOK`: a payment is open only on a running checkout or on one the system
  ended, so what lands later never lands on a row a worker ended. `PastOK`: what is
  completed has started. `GoneOK`: what an erased client still has was over, or had
  lapsed, at `floor`, for every transaction still to come; a completed row counts,
  because an owner may correct it back to confirmed. `StepRewritten` says once what
  a step can do to a row (`Answered`, `Withdrawn`, `Shifted`, `Landed` or swept, on
  one clock from `Nows`), and the two invariants follow row by row.

**`JobsProofs`** (`JobsAssumption`: the timeout is below the lease, every backoff
together below the grace, the lease below the retention, as the comments on
`JobKind` demand; `WorkerLoopAssumption`: the periods are positive).

* `QueueInvariant`, `LeaseKeepsApart`, `PruneIsSafe`, `NoSkipWithoutNeglect`, and
  `QueueKeepsItsPromise`: the initial states of `Jobs` map to those of
  `JobPromise`, and every step to a step or a stutter. `PruneIsSafe` is the case of
  it that is argued about most.
* `IInv` adds to the type: a running attempt is the latest and its remaining
  timeout is below the remaining lease (`Leased`); no run outlives its row
  (`NoRowNoRun`); a job's lateness is its backoffs plus its neglect
  (`LateForAReason`); skips have that reason (`SkipsForAReason`). `OneLiveRun`
  alone is not inductive: a state with one run and an expired lease satisfies it.
* `PingTellsTheTruth`, of the composition `Worker`. A ping's meaning is decided
  three steps before it, so `LoopIInv` says of the whole way there that an iteration
  past its sweeps and still `healthy` has swept lately (`SweptOK`), and that no
  business has more to clear than has come of age (`AgedOK`).

**`CheckoutProofs`** (`CheckoutAssumption`: at least one intent).
`ChargesAreSeen`, `ClientPaysOnce`, `CheckoutSound`, the action property
`RowsCloseOnce` and the refinement `ClientIsChargedOnce`, for any number of handlers
at once.

* `CheckoutIInv` says what each handler in flight may rely on, which is the whole
  argument: a row is canceled only after its intent is (`RowsOK`); a secret is out
  only with its row (`IntentsOK`); what a handler read may be stale, except where it
  goes by it. `ResumeOK`, `AbandonOK` and `SettleOK`: the row a handler is about to
  close has an ended intent. `ReconcileOK`: an answer of Stripe's that is final is
  still true when it is written. Together: a second intent is born only after the
  first can no longer be confirmed, so there are never two charges.
* The lemmas on "what every step does" (`RowsKept`, `IntentsKept`) say that rows
  stay, that one no longer open is not moved and that ended intents stay ended; with
  them what a handler relies on survives every step of every other handler at once,
  and each action has only its own handler to account for.
* `ClientIsChargedOnce`. Most steps change neither charges nor record
  and give the slot back at the most (`QuietKeeps`). What remains are the browser and
  the bank (`StripeStep`) and `Reconcile` (`ReconcileRecords`), and what they need is
  `LiveAlone`: beside an intent that can still be confirmed no other takes money, and
  while it is a payment that has not, nothing is on record.

**`RefundsProofs`** (`RefundsAssumption`: percentages up to 100, refunds by hand
positive). `OwedAtMost` and `RefundsSound`, for any amount, number of jobs and
faults.

* `NeverRefundedTwice` bounds what was sent by what is owed. That a stored key
  answers a second request with the first refund is not enough, as keys expire:
  `AsksOK` adds that a job which is the first to ask under a fresh key saw all that
  settle had sent, and `ChargeOK` that every refund of settle's but the first makes
  good for a fault. `KeyOK`, `SawOK` and `RowOK` relate key, jobs and row as long
  as no refund failed; `FailuresKnown` says that a failed one was told, or waits
  for a job that will tell it.
* Amounts are counted unit by unit, as the cardinality of a set of pairs, so that
  sums are reasoned about with the theorems on finite sets.

**`MailProofs`** (`BookingMailAssumption`). `MailSound`. `MailIInv` adds to `MailInv`
that a dedupe key names one job and the reminder of a time that is not near waits
(`MailsOK`); that a run's job is there, and that of a run on time is no other such run's
(`HandsOK`); that a message counted as recorded is marked sent or in the hand that is
about to mark it, and none is counted while a run on time has yet to hand it over,
whatever late runs deliver and mark in between (`CountsOK`); and when money can be owed
and a hold kept at all (`HoldsOK`). `HoldOutlastsItsMail` needs the last: a hold is given up
by looking at the money alone, so the money must tell of every e-mail to come.

**`AccountsProofs`** (`SessionsAssumption`, `SecondFactorAssumption`,
`ContactEmailAssumption`, `MembersAssumption`, `ClientsAssumption`).

* `SessionsSound`. The rows bound to one another and the stored passwords are
  `RowsOK`; `OneBrowserOnePerson` also needs that an answer on its way is as good as
  the cookies it will replace, at any moment it may arrive.
* `FactorSound`, `CodesPassOnce`. `FactorInv` is inductive as it stands: a charge is
  of an attempt in flight, and each step that takes one away looks at the code or
  gives it back. The proof is a count of finite sets.
* `ContactSound`, `InboxConfirms`. `PlacesOK`: who queued a link has a place at the
  inbox. `WaitingOK`: the secret that works is the newest, and went to the address
  that waits.
* `MembersSound`, `ChangedByRight` (the other reset links die but for those in use,
  section 6). `LinksOK`: a secret that opens something is the
  newest minted for it, of one row only, and unused. `TabsOK` and `SetupOK`: what a
  tab has looked up was looked up after the setup, before which there is no business
  to belong to.
* `ClientsSound`, `TheirsToChange`. `LocksOK` and `AskedOK` state what the two row
  locks and the booking lock are for: what a request read under its lock is still so
  when it writes. `ConfirmingOK`: a withdrawal newer than the tick being confirmed
  was written during the confirmation, the one exception of section 6.

**`ConsoleProofs`** (`ServicesAssumption`, `LimitsAssumption`: finitely many requests;
`LedgerAssumption`: the margin covers the lag of a long erasure; `CurrencyAssumption`).

* `ServicesSound`. A Save that stored its photo still has it, or lost it to a delete
  that had looked before (`SavesOK`); a delete goes on only from such a look
  (`DeletesOK`); members being assigned are locked (`AssigningOK`).
* `LimitsSound`. `KeyOK` counts, per window, the requests an attempt was counted for
  and those about to give theirs back: each is in `hits`, or a stray took its place.
  Without those about to give back, a refund could take away another's attempt.
* `LedgerSound`. `DumpsOK`: what a dump lacks was not committed at the dump it goes
  back to, or is one of the two exceptions; `RestoredOK` and `ServingOK` carry that
  through a restore to the end of reapply. The second exception came out
  of the proof, and takes three dumps to meet: a restore takes back an erasure that the
  ledger does not have yet; a dump that still has it is restored later, and the ledger
  gets its entry; then a dump from in between is restored and reapplied from a `since`
  after that entry. It is `undone`, and the run has three dumps.
* `CurrencySound`. `CurrencyIInv`: while a change holds the business's row nothing is
  sold and no account is connected, and a buyer who has read a price read the one
  shown.

**`CalendarProofs`** (`CalendarAssumption`: weeks are finite sets of intervals within
the day, durations positive, and the clock changes on the slot grid, by less than the
day. Steps divide the hour, so that is every change of whole hours;
`business_settings.py` 82-83 notes the half hour that is not). `CalendarSound`: what
`member_slots` computes, proved against its definition for every day, and what is
booked from it.

* *Sorting.* `Sorted` puts an interval at the place given by how many come before it.
  `SortedLists`: these places are all different and fill `1 .. n`, so the list has
  every interval once, in order.
* *The loop.* `LoopExists` and `LoopEquation`: the recursive function is there and obeys
  its equation, by the least number at which it would not. By the same argument
  (`Least`), after `n` intervals the loop covers exactly the points of those `n`
  (`MergedCovers`), the list it built goes up without touching, and for shifts that do
  not overlap it leaves every start and end a start and end of one given
  (`DayShiftsTimes`, `DayShiftsApart`). `NeighboursSuffice`: a sorted week whose
  neighbours do not overlap has no two shifts that do.
* *The bisection.* In a list that goes up without touching, the blocks that end by
  `from` are the first ones; so the next is the only one that has to be looked at
  (`OverlapsMeets`).
* *The clock.* `ToUtcIs` gives `to_utc` in closed form, before, in and after a skipped or
  repeated hour; `UtcGrows` and `AnchorPast` follow. `GridVisits`: what a shift's walk
  visits are the starts in it that the clock shows on the grid, the ones before the
  anchor in a repeated hour included. `ClippedGrids`: cutting in local time gives the
  starts that fit a shift and the opening hours as instants.
* *The steps.* `CalendarIInv` keeps the stored weeks without overlaps, a save in flight
  alone and as it was checked (`SavesInTurn`), times in order and finitely many rows
  (`ProperTimes`), and that a request came from a slot (`RequestsAreSlots`).
  `BuffersHold` is kept by a booking because the slot it took is clear of both its
  neighbours' buffers, which is `OverlapsMeets` on the lists `MemberSlots` reads on
  the transaction's clock; `SlotsAreRight` and `SlotsOnce` then follow in each state.

## 5. What is only model-checked

* All liveness: `HoldsEnd`, `PaymentsSettle`, `SettlesInTheEnd`, `EveryJobEnds`,
  `LoopGoesOn`. Fairness is outside the prover's reach.
* The four properties of section 6 that are violated.

## 6. Where the code and its comments disagree

* **`removal_race`.** `members.remove` says the lock stops a booking that races
  the removal. It orders the two, but an accept that opened before a request's
  deadline and got the lock after a removal that opened past it still finds the
  request live on its own clock, and confirms it: the removed member has an
  appointment to come. `bookings.py` 708-715 keeps that clock on purpose, so the
  place to look is the removal.
* **`abandon_undoes_check`.** `abandon` says it never undoes a check that
  landed. A landed check is an authorisation, which Stripe does cancel; if its
  event has not been recorded here yet, it is undone and the booking expires.
  No money is involved, the client was leaving anyway.
* **`refund_flag_race`.** `SET_REFUND_FLAG` says event order does not matter. The
  amount is read before the lock, so a job that read earlier may write later and
  clear a flag that was right. With one job at a time the flag is right;
  `ShortfallIsKnown` shows that in the race too, the business was told of the
  failure.
* **`admin_reset_race`.** `reset_password`'s comment says that a reset signs the
  person out everywhere. `start_admin_session` compares the stored hash without a
  lock in the statement that inserts the row, unlike the business and the account
  session, which read it FOR SHARE. A reset that commits between that statement
  and its commit deletes no row it cannot see.

Met while modelling, stated as exceptions in the properties and not as runs:

* A placement reserved in one window and given back in the next
  (`limits.py` 167-171) takes one off a count it was never in, so that window lets
  one more through; `bookings.py` 1375-1377 reads as if the count were exact. It
  is `stray` in `PlacementsBounded`.
* A delete that looked while nobody used a photo, and a Save of the same upload
  that stored it before the delete went on (`photos.py` 355-358): `lost` in
  `PhotoIsThere`.
* `confirm_consents` promises what was ticked "minus any later withdrawal"
  (`booking_links.py` 617-619). A member's withdrawal takes no booking lock: one
  written between the confirmation's look and its insert is overridden by it. It
  is `during` in `WithdrawalStands`.
* A database restored from a dump that cut an erasure in two, and dumped again
  before it was reapplied, lets `check_window` accept a `since` that is too late:
  `CutInTwo` in `ErasedStaysErased`.
* An erasure whose `erasure.ledger` job was still queued when the database was restored
  to a point before it is unknown to the ledger. If a dump that has it is restored
  later, the ledger gets its entry, dated before dumps that never had it: `undone` in
  `ErasedStaysErased`.
* A second reset link that is being used while a first one commits is not deleted with
  the others and resets the password again (`SKIP LOCKED` in `reset_password`, whose
  comment says why): `InUse` in `PasswordsChangeByReset`.
* A message is handed over twice where a run was cut off between the handover and its
  record (`send`'s docstring), and where a run that timed out goes on and hands it over
  beside its retry (`mail.py` 155-156): a late run's handover is not in `recorded`, and
  one that is cut off is taken out of it, in `AgainOnlyIfUnrecorded`.
* A message whose transaction committed before its client was erased has the address in
  memory and is still handed over; `ErasedIsForgotten` speaks of runs that still read.
* A team's cancellation committed while an erasure waits for the lock is later than the
  erasure's `now()`, so its e-mail finds no way through the hold (`HOLD` compares the two,
  `mail.py` 448): the client is not told. `HoldOutlastsItsMail` speaks of `Entitled`
  e-mails, and a cancellation `meanwhile` is none.
* A refund that fails after its week finds the contact hold given up: `failed late`
  in `HoldOutlastsItsMail`.

And without bearing on a property: a calendar file's SEQUENCE (`mail.py` 644-645)
counts the client's changes, which a merchant's move leaves alone; "both at 10
means this code locked it" (`admin_auth.py` 379-381) is logged for two codes, charged
to 10 before and after a pass that gave one back; `check_window` may refuse a right bucket whose newest entry is gone
(`ledger.py` 210-212); two moves in transactions that opened at the same instant
share an e-mail's dedupe key (`bookings.py` 2053); `auth.resolve` documents a race
of its own as accepted.

## 7. What is not modelled

* Rendering, transport, hashing, image processing, the frontend and the landing
  site: no state of their own that another part depends on. Logging, tracing, audit
  rows and the browser's security reports: written, and read by no handler.
* Read routes, exports, search of clients and bookings.
* `booking_holds` of the booking page.
* Erasure by an owner: no route calls `erase_client` yet, so the one caller of its
  core, `ledger.reapply`, is what is modelled in `Bookings`; `Clients` and
  `BookingMail` have the core's effects beside the other writers too, as its
  comments describe the caller to come.
* Of the ledger: entries that cannot be read (`--skip-key`), the wrong bucket, and
  entries old enough for the bucket to drop them.
* A change of `timezone`, `buffer_pct`, step or a service's duration after a booking:
  `Calendar`'s jump, `Pct`, `Step` and `Services` never change. `update_settings`
  (`business_settings.py` 187-217) may change the first two, which moves whole-day blocks
  and buffers under appointments that stay where they are; `CalendarInv` is about fixed
  settings.
* A payment whose amount or currency is not its row's (`payments.py` 741-745): `reconcile`
  logs it and leaves the row open; the code makes every intent with its row's.
* The two objects `finalize` stores one after the other (`photos.py` 347-348) are one step.
* Row-level security: every module is about one business.
* The SetupIntent way of checking a card and the kept card fee, both off.
* The platform tables' own retention statements, which share the budget of the
  walk that is modelled.
* The parts of `accounts` and of `system` are not composed with one another: what
  one needs of another is in it as an action (a removal in `Sessions`, `Services`
  and `Bookings`, an erasure in `BookingMail`, `Clients`, `Ledger` and `Bookings`).

## 8. Plan

What is left: the erasure across components. `Bookings`, `Clients`, `BookingMail` and
`Ledger` each have their own erase action; one specification that composes them would
say that they mean the same step.
