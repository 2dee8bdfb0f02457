--------------------------- MODULE SecondFactor ---------------------------
(***************************************************************************)
(* One platform admin: the admin sessions, the TOTP factor and the codes    *)
(* tried against it (backend/app/admin_auth.py, admin.py and the database   *)
(* functions of migrations 0037, 0039, 0083 and 0084).                      *)
(*                                                                          *)
(* A code is charged in one transaction and checked in another: any number  *)
(* of attempts are between the two at once, and one may be cut off there.   *)
(* A function of the database is one step; it finds the admin through a     *)
(* live session, and locks the row.                                         *)
(*                                                                          *)
(* Time is what it ends: a charge (2 minutes), a ticket (1 hour), a session *)
(* (30 idle minutes, 8 hours), and one failure per 8 hours, which due       *)
(* counts until a charge takes them off.  step is the TOTP step.            *)
(***************************************************************************)
EXTENDS Naturals, FiniteSets

CONSTANTS
  AdminSessions,  \* session tokens
  NoToken,        \* no session
  Attempts,       \* codes being tried at one time
  Lock,           \* the wrong codes that lock the factor: 10
  RecoveryCodes,  \* the recovery codes of one enrolment
  MaxStep,        \* bound: TOTP steps
  MaxSecrets,     \* bound: enrolments begun
  MaxLeaks        \* bound: leaks of a failure

ASSUME SecondFactorAssumption ==
  /\ Lock \in Nat \ {0} /\ MaxStep \in Nat \ {0} /\ MaxSecrets \in Nat /\ MaxLeaks \in Nat
  /\ NoToken \notin AdminSessions /\ IsFiniteSet(Attempts)

VARIABLES
  admin,          \* the platform_admins row
  sessions,       \* admin_sessions
  factor,         \* the second_factors row
  charges,        \* factor.charges: the attempts counted and not yet checked
  attempts,       \* codes being tried
  step,           \* the current TOTP step
  tried           \* history: wrong codes looked at and failures leaked since the count was reset

factorVars == <<admin, sessions, factor, charges, attempts, step, tried>>

\* secret numbers the secrets begun; under is the secret a session's second factor was passed with.
SessionType == [live : BOOLEAN, under : 0 .. MaxSecrets]

NoSession == [live |-> FALSE, under |-> 0]

FactorType ==
  [ticket : BOOLEAN, secret : 0 .. MaxSecrets, issued : 0 .. MaxSecrets, confirmed : BOOLEAN,
   last_step : 0 .. MaxStep + 1, failed : 0 .. Lock, due : 0 .. MaxLeaks,
   codes : SUBSET RecoveryCodes]

\* right is the step whose code was typed, 0 for a wrong code; secret what it was matched with.
AttemptType ==
  [pc : {"idle", "read", "charged"}, kind : {"pass", "enrol"}, session : AdminSessions \cup {NoToken},
   secret : 0 .. MaxSecrets, right : 0 .. MaxStep + 1]

FactorTypeOK ==
  /\ admin \in BOOLEAN
  /\ sessions \in [AdminSessions -> SessionType]
  /\ factor \in FactorType
  /\ charges \subseteq Attempts
  /\ attempts \in [Attempts -> AttemptType]
  /\ step \in 1 .. MaxStep
  /\ tried \in [wrong : Nat, leaked : Nat]

Untried == [wrong |-> 0, leaked |-> 0]

IdleAttempt == [pc |-> "idle", kind |-> "pass", session |-> NoToken, secret |-> 0, right |-> 0]

FactorInit ==
  /\ admin = TRUE
  /\ sessions = [s \in AdminSessions |-> NoSession]
  /\ factor = [ticket |-> FALSE, secret |-> 0, issued |-> 0, confirmed |-> FALSE, last_step |-> 0,
               failed |-> 0, due |-> 0, codes |-> {}]
  /\ charges = {}
  /\ attempts = [a \in Attempts |-> IdleAttempt]
  /\ step = 1
  /\ tried = Untried

-----------------------------------------------------------------------------
(* Sessions *)

\* sign_in, once the password is verified (Sessions has that part): start_admin_session for an admin,
\* and the browser's old session ends.  A token is random: none in use, or in an attempt's hands.
AdminSignIn(s, old) ==
  /\ admin
  /\ ~ sessions[s].live /\ \A a \in Attempts : attempts[a].pc # "idle" => attempts[a].session # s
  /\ sessions' = [x \in AdminSessions |->
                    IF x = s THEN [live |-> TRUE, under |-> 0]
                    ELSE IF x \in old THEN NoSession ELSE sessions[x]]
  /\ UNCHANGED <<admin, factor, charges, attempts, step, tried>>

\* sign_out, or the session ran out.
EndSession(s) ==
  /\ sessions[s].live
  /\ sessions' = [sessions EXCEPT ![s] = NoSession]
  /\ UNCHANGED <<admin, factor, charges, attempts, step, tried>>

\* reset_password signs the admin out everywhere.
ResetSignsOut ==
  /\ sessions' = [s \in AdminSessions |-> NoSession]
  /\ UNCHANGED <<admin, factor, charges, attempts, step, tried>>

\* app.admin grant and revoke: the sessions go with the platform_admins row, the factor stays.
Grant ==
  /\ ~ admin
  /\ admin' = TRUE
  /\ UNCHANGED <<sessions, factor, charges, attempts, step, tried>>

Revoke ==
  /\ admin
  /\ admin' = FALSE
  /\ sessions' = [s \in AdminSessions |-> NoSession]
  /\ UNCHANGED <<factor, charges, attempts, step, tried>>

-----------------------------------------------------------------------------
(* Enrolment *)

IssueMutant ==
  /\ admin
  /\ factor' = [factor EXCEPT !.ticket = TRUE, !.secret = 0, !.confirmed = FALSE, !.last_step = 0,
                              !.failed = 0, !.codes = {}]
  /\ sessions' = [s \in AdminSessions |-> NoSession]
  /\ tried' = Untried
  /\ UNCHANGED <<admin, charges, attempts, step>>

\* app.admin enrol: ISSUE_TICKET wipes the factor and the attempts in flight, and every session ends.
IssueTicket ==
  /\ admin
  /\ factor' = [factor EXCEPT !.ticket = TRUE, !.secret = 0, !.confirmed = FALSE, !.last_step = 0,
                              !.failed = 0, !.codes = {}]
  /\ charges' = {}
  /\ sessions' = [s \in AdminSessions |-> NoSession]
  /\ tried' = Untried
  /\ UNCHANGED <<admin, attempts, step>>

\* begin_totp_enrolment, as 0084 has it: a new secret, the count kept, attempts in flight voided.
BeginEnrolment(s) ==
  /\ sessions[s].live /\ ~ factor.confirmed /\ factor.ticket /\ factor.failed < Lock
  /\ factor.issued < MaxSecrets
  /\ factor' = [factor EXCEPT !.secret = factor.issued + 1, !.issued = @ + 1, !.last_step = 0]
  /\ charges' = {}
  /\ UNCHANGED <<admin, sessions, attempts, step, tried>>

-----------------------------------------------------------------------------
(* A code is tried: the secret is read, the attempt charged, the code checked *)

\* _secret, in the first transaction.  right: what the typed code is a code for.
ReadSecret(a, s, kind, right) ==
  /\ attempts[a].pc = "idle"
  /\ sessions[s].live /\ factor.secret # 0
  /\ kind = "pass" => factor.confirmed
  /\ right = 0 \/ (right + 1 >= step /\ right <= step + 1)
  /\ attempts' = [attempts EXCEPT ![a] = [pc |-> "read", kind |-> kind, session |-> s,
                                          secret |-> factor.secret, right |-> right]]
  /\ UNCHANGED <<admin, sessions, factor, charges, step, tried>>

\* The row charge_second_factor or charge_totp_enrolment locks: none without a live session.
Chargeable(a) ==
  /\ sessions[attempts[a].session].live
  /\ IF attempts[a].kind = "pass" THEN factor.confirmed
     ELSE ~ factor.confirmed /\ factor.secret # 0 /\ factor.ticket

\* The failures that leaked away by now; an enrolment's count does not leak.
Leaked(a) ==
  IF attempts[a].kind = "enrol" THEN 0
  ELSE IF factor.due < factor.failed THEN factor.due ELSE factor.failed

Unlocked == factor.failed < Lock

\* The attempt counts as a failure before its code is looked at.
Charge(a) ==
  /\ attempts[a].pc = "read"
  /\ Chargeable(a) /\ Unlocked
  /\ factor' = [factor EXCEPT !.failed = factor.failed - Leaked(a) + 1,
                              !.due = IF attempts[a].kind = "pass" THEN 0 ELSE @]
  /\ charges' = charges \cup {a}
  /\ attempts' = [attempts EXCEPT ![a].pc = "charged"]
  /\ tried' = [tried EXCEPT !.leaked = @ + Leaked(a)]
  /\ UNCHANGED <<admin, sessions, step>>

\* locked, or none: or the request is cut off, and its charge is one nobody will check.
Stop(a) ==
  /\ attempts[a].pc # "idle"
  /\ attempts' = [attempts EXCEPT ![a] = IdleAttempt]
  /\ charges' = charges \ {a}
  /\ UNCHANGED <<admin, sessions, factor, step, tried>>

\* A charge is live for 2 minutes; its check never came, and the count keeps it.
ChargeExpires(a) ==
  /\ a \in charges
  /\ charges' = charges \ {a}
  /\ UNCHANGED <<admin, sessions, factor, attempts, step, tried>>

InWindow(n) == n # 0 /\ n + 1 >= step /\ n <= step + 1

GoodCodeMutant(a) ==
  /\ attempts[a].secret = factor.secret
  /\ InWindow(attempts[a].right)

\* The proof is of this secret, the step is new and within one of now.
GoodCode(a) ==
  /\ attempts[a].secret = factor.secret
  /\ InWindow(attempts[a].right)
  /\ attempts[a].kind = "pass" => attempts[a].right > factor.last_step

Finish(a) ==
  /\ charges' = charges \ {a}
  /\ attempts' = [attempts EXCEPT ![a] = IdleAttempt]

AtCheck(a) == attempts[a].pc = "charged" /\ Chargeable(a) /\ a \in charges

\* check_second_factor, passed: it gives back the one attempt its charge counted.
Passes(a) ==
  /\ AtCheck(a) /\ attempts[a].kind = "pass" /\ GoodCode(a)
  /\ factor' = [factor EXCEPT !.last_step = attempts[a].right,
                              !.failed = IF @ = 0 THEN 0 ELSE @ - 1]
  /\ sessions' = [sessions EXCEPT ![attempts[a].session].under = factor.secret]
  /\ Finish(a)
  /\ UNCHANGED <<admin, step, tried>>

\* check_totp_enrolment's row: nothing is left of the count.
EnrolledFactor(a) ==
  [factor EXCEPT !.confirmed = TRUE, !.last_step = attempts[a].right, !.failed = 0, !.due = 0,
                 !.ticket = FALSE, !.codes = RecoveryCodes]

\* confirm_enrolment, enrolled: every other session ends.
Enrols(a) ==
  /\ AtCheck(a) /\ attempts[a].kind = "enrol" /\ GoodCode(a)
  /\ factor' = EnrolledFactor(a)
  /\ sessions' = [s \in AdminSessions |->
                    IF s = attempts[a].session
                    THEN [sessions[s] EXCEPT !.under = factor.secret] ELSE NoSession]
  /\ charges' = {}
  /\ attempts' = [attempts EXCEPT ![a] = IdleAttempt]
  /\ tried' = Untried
  /\ UNCHANGED <<admin, step>>

\* Either check, failed: the charge is used up and stays counted.
Fails(a) ==
  /\ AtCheck(a) /\ ~ GoodCode(a)
  /\ Finish(a)
  /\ tried' = [tried EXCEPT !.wrong = @ + 1]
  /\ UNCHANGED <<admin, sessions, factor, step>>

\* use_recovery_code's row: a lock is lifted to one below it.
RecoveredFactor(code) ==
  LET locked == factor.failed = Lock IN
  [factor EXCEPT !.codes = @ \ {code}, !.failed = IF locked THEN Lock - 1 ELSE @,
                 !.due = IF locked THEN 0 ELSE @]

\* pass_second_factor with a recovery code; lifting a lock voids the attempts in flight.
UseRecoveryCode(s, code) ==
  LET locked == factor.failed = Lock IN
  /\ sessions[s].live /\ factor.confirmed /\ code \in factor.codes
  /\ factor' = RecoveredFactor(code)
  /\ charges' = IF locked THEN {} ELSE charges
  /\ tried' = IF locked THEN [wrong |-> Lock - 1, leaked |-> 0] ELSE tried
  /\ sessions' = [sessions EXCEPT ![s].under = factor.secret]
  /\ UNCHANGED <<admin, attempts, step>>

-----------------------------------------------------------------------------
(* Time *)

NextStep ==
  /\ step < MaxStep
  /\ step' = step + 1
  /\ UNCHANGED <<admin, sessions, factor, charges, attempts, tried>>

TicketExpires ==
  /\ factor.ticket
  /\ factor' = [factor EXCEPT !.ticket = FALSE]
  /\ UNCHANGED <<admin, sessions, charges, attempts, step, tried>>

\* Eight hours since the anchor.  A count that is empty has none.
LeakDue ==
  /\ factor.confirmed /\ factor.failed > 0 /\ tried.leaked + factor.due < MaxLeaks
  /\ factor' = [factor EXCEPT !.due = @ + 1]
  /\ UNCHANGED <<admin, sessions, charges, attempts, step, tried>>

FactorNext ==
  \/ ResetSignsOut \/ Grant \/ Revoke \/ IssueTicket
  \/ \E s \in AdminSessions, old \in SUBSET AdminSessions :
       Cardinality(old) <= 1 /\ AdminSignIn(s, old)
  \/ \E s \in AdminSessions : EndSession(s) \/ BeginEnrolment(s)
  \/ \E s \in AdminSessions, code \in RecoveryCodes : UseRecoveryCode(s, code)
  \/ \E a \in Attempts, s \in AdminSessions, kind \in {"pass", "enrol"}, right \in 0 .. MaxStep + 1 :
       ReadSecret(a, s, kind, right)
  \/ \E a \in Attempts : Charge(a) \/ Stop(a) \/ ChargeExpires(a) \/ Passes(a) \/ Enrols(a) \/ Fails(a)
  \/ NextStep \/ TicketExpires \/ LeakDue

FactorSpec == FactorInit /\ [][FactorNext]_factorVars

-----------------------------------------------------------------------------
(* Properties *)

\* Every wrong code looked at, and every one in flight, is in the count, but for those that leaked
\* away: however many are tried at once, cut off between charge and check, or let to expire, and
\* however often the enrolment is begun again (0083, 0084).
EveryGuessCounted ==
  tried.wrong + Cardinality(charges) <= factor.failed + tried.leaked

\* What it is for: no more wrong codes are looked at than the lock allows, and one for each leak.
GuessesAreBounded ==
  tried.wrong + Cardinality(charges) <= Lock + tried.leaked

\* Nobody is past the second factor but with the secret that is confirmed now: a code or a session
\* from before the operator wiped the factor is worth nothing after it (ISSUE_TICKET, enrol).
PassedUnderThisSecret ==
  \A s \in AdminSessions :
    sessions[s].under # 0 => factor.confirmed /\ sessions[s].under = factor.secret

\* A code passes once: two browsers that send the same one at once do not both get in.
NoReplay ==
  [][factor.confirmed /\ factor'.confirmed =>
       /\ factor'.last_step >= factor.last_step
       /\ (\E a \in Attempts : Passes(a)) => factor'.last_step > factor.last_step]_factorVars

\* The count of failures misses no guess, and what passed, passed under the secret of now.
FactorInv == FactorTypeOK /\ EveryGuessCounted /\ GuessesAreBounded /\ PassedUnderThisSecret

=============================================================================
