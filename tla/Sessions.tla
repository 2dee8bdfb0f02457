----------------------------- MODULE Sessions -----------------------------
(***************************************************************************)
(* Signing in: the business session and the account session of one browser, *)
(* and the admin session (backend/app/auth.py, platform_account.py, the     *)
(* sessions' part of accounts.py and members.py, the functions of 0009,     *)
(* 0037 and 0057).                                                          *)
(*                                                                          *)
(* The password is verified with no transaction open; the session is then   *)
(* started in one that first reads the stored hash FOR SHARE, so it is one  *)
(* step against a reset and a removal, which wait for it or come first.     *)
(* start_admin_session takes no such lock: its row is inserted in one step  *)
(* and committed in another.  A browser does one thing at a time; any       *)
(* answer may be lost on its way to it.                                     *)
(***************************************************************************)
EXTENDS Naturals, FiniteSets

CONSTANTS
  People,         \* accounts
  BusinessTokens, \* the tokens of sessions,
  AccountTokens,  \* of account_sessions
  AdminTokens,    \* and of admin_sessions
  Nil,            \* no token, no person
  MaxPassword     \* bound: passwords of one person

Tokens == BusinessTokens \cup AccountTokens \cup AdminTokens

ASSUME SessionsAssumption ==
  /\ MaxPassword \in Nat \ {0} /\ Tokens \subseteq Nat /\ Nil \notin Tokens /\ Nil \notin People
  /\ BusinessTokens \cap AccountTokens = {} /\ BusinessTokens \cap AdminTokens = {}
  /\ AccountTokens \cap AdminTokens = {}

VARIABLES
  stored,         \* password_credentials: the version of each person's hash
  members,        \* the people with a membership that is not removed
  platformAdmins, \* platform_admins
  rows,           \* sessions, account_sessions and admin_sessions, by token
  cookies,        \* the browser's two cookies
  request         \* what the browser is doing

sessionVars == <<stored, members, platformAdmins, rows, cookies, request>>

\* version: the stored hash it was started with; by: account_sessions.started_by.
RowType ==
  [kind : {"none", "business", "account", "admin", "admin uncommitted"},
   person : People \cup {Nil}, version : 0 .. MaxPassword, by : Tokens \cup {Nil}]

NoRow == [kind |-> "none", person |-> Nil, version |-> 0, by |-> Nil]

\* business and account: the tokens an answer sets.
RequestType ==
  [pc : {"idle", "verified", "answered", "leaving", "account ended"},
   at : {"business", "account"}, person : People \cup {Nil}, version : 0 .. MaxPassword,
   business : Tokens \cup {Nil}, account : Tokens \cup {Nil}]

NoRequest ==
  [pc |-> "idle", at |-> "business", person |-> Nil, version |-> 0, business |-> Nil, account |-> Nil]

SessionsTypeOK ==
  /\ stored \in [People -> 1 .. MaxPassword]
  /\ members \subseteq People
  /\ platformAdmins \subseteq People
  /\ rows \in [Tokens -> RowType]
  /\ cookies \in [business : Tokens \cup {Nil}, account : Tokens \cup {Nil}]
  /\ request \in RequestType

SessionsInit ==
  /\ stored = [p \in People |-> 1]
  /\ members = People
  /\ platformAdmins = {}
  /\ rows = [t \in Tokens |-> NoRow]
  /\ cookies = [business |-> Nil, account |-> Nil]
  /\ request = NoRequest

-----------------------------------------------------------------------------
(* Rows *)

\* The foreign key of started_by deletes an account session with its business session.
Without(gone) ==
  [t \in Tokens |-> IF t \in gone \/ (rows[t].by \in gone /\ rows[rows[t].by].kind = "business")
                    THEN NoRow ELSE rows[t]]

Of(p, kinds) == {t \in Tokens : rows[t].person = p /\ rows[t].kind \in kinds}

Held(t) ==
  \/ rows[t].kind # "none" \/ t \in {cookies.business, cookies.account, request.business, request.account}
  \/ \E x \in Tokens : rows[x].by = t

\* secrets.token_urlsafe: a token nobody holds.  Which one makes no difference: the table's least.
Fresh(t, table) ==
  ~ Held(t) /\ \A x \in table : x < t => Held(x)

-----------------------------------------------------------------------------
(* Signing in *)

\* check_credentials, the password right: whoever's account session this browser held ends, in a
\* transaction of its own.
CheckCredentials(at, p) ==
  /\ request.pc = "idle"
  /\ rows' = Without({cookies.account} \cap Tokens)
  /\ request' = [NoRequest EXCEPT !.pc = "verified", !.at = at, !.person = p, !.version = stored[p]]
  /\ UNCHANGED <<stored, members, platformAdmins, cookies>>

PasswordUnchangedMutant == TRUE

\* password_unchanged, FOR SHARE in the transaction that starts the session.
PasswordUnchanged == request.version = stored[request.person]

\* 401 invalid_credentials, 403 no_tenant or account_unavailable: nothing of the transaction stays,
\* and the answer clears the account cookie.
Refused ==
  /\ cookies' = [cookies EXCEPT !.account = Nil]
  /\ request' = NoRequest
  /\ UNCHANGED <<stored, members, platformAdmins, rows>>

\* create: the membership FOR SHARE, in the same transaction.
IsMember(p) == p \in members

\* start_account_session.
AccountRow(p, by) == [kind |-> "account", person |-> p, version |-> request.version, by |-> by]

\* sign_in and start: the business session, and the account session bound to it but for an admin.
StartBusiness(t, a) ==
  LET p == request.person
      account == IF p \in platformAdmins THEN {} ELSE {a} IN
  /\ request.pc = "verified" /\ request.at = "business"
  /\ PasswordUnchanged /\ IsMember(p)
  /\ Fresh(t, BusinessTokens) /\ Fresh(a, AccountTokens)
  /\ rows' = [x \in Tokens |->
                IF x = t THEN [kind |-> "business", person |-> p, version |-> request.version, by |-> Nil]
                ELSE IF x \in account THEN AccountRow(p, t)
                ELSE Without({cookies.business, cookies.account} \cap Tokens)[x]]
  /\ request' = [request EXCEPT !.pc = "answered", !.business = t,
                                !.account = IF account = {} THEN Nil ELSE a]
  /\ UNCHANGED <<stored, members, platformAdmins, cookies>>

BusinessRefused ==
  /\ request.pc = "verified" /\ request.at = "business"
  /\ ~ PasswordUnchanged \/ ~ IsMember(request.person)
  /\ Refused

\* end_other_persons_business_session.
Others(p) == {cookies.business} \cap {t \in Tokens : rows[t].kind = "business" /\ rows[t].person # p}

\* platform_account.sign_in.
StartAccount(a) ==
  LET p == request.person IN
  /\ request.pc = "verified" /\ request.at = "account"
  /\ PasswordUnchanged /\ p \notin platformAdmins
  /\ Fresh(a, AccountTokens)
  /\ rows' = [Without(Others(p) \cup ({cookies.account} \cap Tokens)) EXCEPT
                ![a] = AccountRow(p, Nil)]
  /\ request' = [request EXCEPT !.pc = "answered", !.account = a,
                                !.business = IF Others(p) = {} THEN cookies.business ELSE Nil]
  /\ UNCHANGED <<stored, members, platformAdmins, cookies>>

AccountRefused ==
  /\ request.pc = "verified" /\ request.at = "account"
  /\ ~ PasswordUnchanged \/ request.person \in platformAdmins
  /\ Refused

\* set_cookies: with no account session for a platform admin, whose account cookie is cleared.
Answer ==
  /\ request.pc = "answered"
  /\ cookies' = [business |-> request.business, account |-> request.account]
  /\ request' = NoRequest
  /\ UNCHANGED <<stored, members, platformAdmins, rows>>

\* The request, or its answer, is lost: what was committed stays.
Lost ==
  /\ request.pc # "idle"
  /\ request' = NoRequest
  /\ UNCHANGED <<stored, members, platformAdmins, rows, cookies>>

-----------------------------------------------------------------------------
(* Signing out *)

\* end_browser_sessions, one transaction per kind, the account first.
EndAccountSession ==
  /\ request.pc \in {"idle", "leaving"}
  /\ rows' = Without({cookies.account} \cap Tokens)
  /\ request' = [NoRequest EXCEPT !.pc = "account ended"]
  /\ UNCHANGED <<stored, members, platformAdmins, cookies>>

EndBusinessSession ==
  /\ request.pc = "account ended"
  /\ rows' = Without({cookies.business} \cap Tokens)
  /\ cookies' = [business |-> Nil, account |-> Nil]
  /\ request' = NoRequest
  /\ UNCHANGED <<stored, members, platformAdmins>>

\* sign_out_everywhere, of either router: by a live session of the browser.
SignOutEverywhere(t) ==
  /\ request.pc = "idle"
  /\ t \in {cookies.business, cookies.account} \cap Tokens /\ rows[t].kind # "none"
  /\ rows' = Without(Of(rows[t].person, {"business", "account"}))
  /\ cookies' = [business |-> Nil, account |-> Nil]
  /\ UNCHANGED <<stored, members, platformAdmins, request>>

\* complete_password_reset: reset_password ends every session there is to see, and then this browser
\* signs out, whoever was signed in on it; or the link was opened on another device.
ResetPassword(p, here) ==
  /\ stored[p] < MaxPassword
  /\ here => request.pc = "idle"
  /\ stored' = [stored EXCEPT ![p] = @ + 1]
  /\ rows' = Without(Of(p, {"business", "account", "admin"}))
  /\ request' = IF here THEN [NoRequest EXCEPT !.pc = "leaving"] ELSE request
  /\ UNCHANGED <<members, platformAdmins, cookies>>

-----------------------------------------------------------------------------
(* What others do to a session *)

\* members.remove and change_role end the member's business sessions, with the membership locked.
RemoveMember(p) ==
  /\ p \in members
  /\ members' = members \ {p}
  /\ rows' = Without(Of(p, {"business"}))
  /\ UNCHANGED <<stored, platformAdmins, cookies, request>>

\* accept_invite revives a membership.
Revive(p) ==
  /\ p \notin members
  /\ members' = members \cup {p}
  /\ UNCHANGED <<stored, platformAdmins, rows, cookies, request>>

\* app.admin grant ends the account sessions.
GrantAdmin(p) ==
  /\ p \notin platformAdmins
  /\ platformAdmins' = platformAdmins \cup {p}
  /\ rows' = Without(Of(p, {"account"}))
  /\ UNCHANGED <<stored, members, cookies, request>>

\* Idle or past its absolute end: the row is purged with the next sign-in, or swept.
Expire(t) ==
  /\ rows[t].kind \in {"business", "account", "admin"}
  /\ rows' = Without({t})
  /\ UNCHANGED <<stored, members, platformAdmins, cookies, request>>

\* admin_auth.sign_in and start_admin_session: the stored hash is compared, without a lock, by the
\* statement that inserts the row.
InsertAdminSession(p, t) ==
  /\ p \in platformAdmins /\ Fresh(t, AdminTokens) /\ Of(p, {"admin", "admin uncommitted"}) = {}
  /\ rows' = [rows EXCEPT ![t] = [kind |-> "admin uncommitted", person |-> p,
                                  version |-> stored[p], by |-> Nil]]
  /\ UNCHANGED <<stored, members, platformAdmins, cookies, request>>

CommitAdminSession(t) ==
  /\ rows[t].kind = "admin uncommitted"
  /\ rows' = [rows EXCEPT ![t].kind = "admin"]
  /\ UNCHANGED <<stored, members, platformAdmins, cookies, request>>

SessionsNext ==
  \/ \E p \in People, at \in {"business", "account"} : CheckCredentials(at, p)
  \/ \E t \in BusinessTokens, a \in AccountTokens : StartBusiness(t, a)
  \/ \E a \in AccountTokens : StartAccount(a)
  \/ \E t \in Tokens : SignOutEverywhere(t) \/ Expire(t) \/ CommitAdminSession(t)
  \/ BusinessRefused \/ AccountRefused \/ Answer \/ Lost \/ EndAccountSession \/ EndBusinessSession
  \/ \E p \in People, here \in BOOLEAN : ResetPassword(p, here)
  \/ \E p \in People : RemoveMember(p) \/ Revive(p) \/ GrantAdmin(p)
  \/ \E p \in People, t \in AdminTokens : InsertAdminSession(p, t)

SessionsSpec == SessionsInit /\ [][SessionsNext]_sessionVars

-----------------------------------------------------------------------------
(* Properties *)

\* No business or account session outlives a reset of the password it was started with: not one
\* whose password was verified before the reset and that starts after it (0009's docstring).
NoSessionOutlivesReset ==
  \A t \in Tokens : rows[t].kind \in {"business", "account"} => rows[t].version = stored[rows[t].person]

\* One browser, one person (start_account's docstring): the sessions behind its two cookies are never two
\* people's, whichever way each was started, refused, cut off or ended.
OneBrowserOnePerson ==
  LET live == {t \in {cookies.business, cookies.account} \cap Tokens : rows[t].kind # "none"} IN
  \A s, t \in live : rows[s].person = rows[t].person

\* A console sign-in's account session is there only with its business session, so a member who is
\* removed keeps none on the shop's device (0057, started_by); and a business session is a member's.
SessionsEndWithMembership ==
  \A t \in Tokens :
    /\ rows[t].kind = "business" => rows[t].person \in members
    /\ rows[t].by # Nil => rows[rows[t].by].kind = "business" /\ rows[t].person \in members

\* What reset_password's comment says, of the admin sessions too: the person is signed out everywhere.
ResetSignsOutEverywhere ==
  \A t \in Tokens : rows[t].kind = "admin" => rows[t].version = stored[rows[t].person]

\* No session that should have ended, and no browser with two people's: after any race of sign-ins with
\* resets, removals, grants and lost answers.
SessionsInv ==
  SessionsTypeOK /\ NoSessionOutlivesReset /\ OneBrowserOnePerson /\ SessionsEndWithMembership

=============================================================================
