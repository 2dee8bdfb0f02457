------------------------------ MODULE Members ------------------------------
(***************************************************************************)
(* Who has an account and who belongs to one business: the first-run setup, *)
(* sign-up and reset links, invites and roles (backend/app/setup.py,        *)
(* accounts.py, invites.py, members.py, mail.py's link jobs and the         *)
(* functions of 0014, 0032, 0037, 0038, 0045, 0056 and 0059).               *)
(*                                                                          *)
(* A handler reads in one transaction, hashes or verifies a password with   *)
(* none open, and writes in a second: a tab is between the two.  Each       *)
(* function of the database locks the row it uses up, so it is one step;    *)
(* but a reset also deletes rows that others may have locked, so it is two. *)
(* A secret is a number: the job that mails a link mints the next one, and  *)
(* the row keeps it as its hash.                                            *)
(***************************************************************************)
EXTENDS Naturals, FiniteSets

CONSTANTS
  Persons,        \* the email addresses
  NoPerson,       \* nobody
  Tabs,           \* requests at one time
  LinkIds,        \* email_tokens rows
  MaxHash,        \* bound: passwords of one account
  MaxSecret       \* bound: links mailed

ASSUME MembersAssumption ==
  /\ MaxHash \in Nat \ {0} /\ MaxSecret \in Nat
  /\ NoPerson \notin Persons

VARIABLES
  hashes,         \* password_credentials: the version of each account's hash, 0: no account
  installer,      \* the platform admin the setup made
  roles,          \* memberships of the business
  invites,        \* invites of the business, by email
  links,          \* email_tokens
  minted,         \* secrets mailed so far
  tabs,           \* requests between their two transactions
  uses            \* history: what each secret did

memberVars == <<hashes, installer, roles, invites, links, minted, tabs, uses>>

Purposes == {"sign_up", "account_sign_up", "password_reset"}

\* open: there is a row; hash: the secret that accepts it, 0 until its job has run.
InviteType == [open : BOOLEAN, hash : 0 .. MaxSecret]

NoInvite == [open |-> FALSE, hash |-> 0]

LinkType == [purpose : Purposes \cup {"none"}, person : Persons \cup {NoPerson}, hash : 0 .. MaxSecret]

NoLink == [purpose |-> "none", person |-> NoPerson, hash |-> 0]

\* secret: the link's; version: the hash it verified, 0 where it makes a new account.
TabType ==
  [pc : {"idle", "setup", "link", "reset", "accept", "manage"}, person : Persons \cup {NoPerson},
   secret : 0 .. MaxSecret, version : 0 .. MaxHash]

IdleTab == [pc |-> "idle", person |-> NoPerson, secret |-> 0, version |-> 0]

MembersTypeOK ==
  /\ hashes \in [Persons -> 0 .. MaxHash]
  /\ installer \in Persons \cup {NoPerson}
  /\ roles \in [Persons -> {"none", "owner", "worker", "removed"}]
  /\ invites \in [Persons -> InviteType]
  /\ links \in [LinkIds -> LinkType]
  /\ minted \in 0 .. MaxSecret
  /\ tabs \in [Tabs -> TabType]
  /\ uses \in [1 .. MaxSecret -> SUBSET {"account", "reset", "joined"}]

MembersInit ==
  /\ hashes = [p \in Persons |-> 0]
  /\ installer = NoPerson
  /\ roles = [p \in Persons |-> "none"]
  /\ invites = [p \in Persons |-> NoInvite]
  /\ links = [l \in LinkIds |-> NoLink]
  /\ minted = 0
  /\ tabs = [x \in Tabs |-> IdleTab]
  /\ uses = [n \in 1 .. MaxSecret |-> {}]

\* needs_setup.
NeedsSetup == \A p \in Persons : hashes[p] = 0

Close(x) == tabs' = [tabs EXCEPT ![x] = IdleTab]

-----------------------------------------------------------------------------
(* The first account *)

\* setup.complete: the token is right and setup is needed; then the password is hashed.
BeginSetup(x, p) ==
  /\ tabs[x].pc = "idle" /\ NeedsSetup
  /\ tabs' = [tabs EXCEPT ![x] = [IdleTab EXCEPT !.pc = "setup", !.person = p]]
  /\ UNCHANGED <<hashes, installer, roles, invites, links, minted, uses>>

\* complete_setup, under LOCK TABLE users: needed again, or 409 already_set_up.
CompleteSetup(x) ==
  /\ tabs[x].pc = "setup"
  /\ IF NeedsSetup
     THEN /\ hashes' = [hashes EXCEPT ![tabs[x].person] = 1]
          /\ installer' = tabs[x].person
     ELSE UNCHANGED <<hashes, installer>>
  /\ Close(x)
  /\ UNCHANGED <<roles, invites, links, minted, uses>>

-----------------------------------------------------------------------------
(* Links by e-mail *)

\* send_link: a row and its job, whether or not the address has an account.
SendLink(l, purpose, p) ==
  /\ links[l].purpose = "none"
  /\ links' = [links EXCEPT ![l] = [purpose |-> purpose, person |-> p, hash |-> 0]]
  /\ UNCHANGED <<hashes, installer, roles, invites, minted, tabs, uses>>

\* The rows a secret opens: at most one.
Opens(n) == {l \in LinkIds : n # 0 /\ links[l].purpose # "none" /\ links[l].hash = n}

\* The row is locked by the reset that is using it up.
InUse(l) == \E x \in Tabs : tabs[x].pc = "reset" /\ l \in Opens(tabs[x].secret)

\* send_token and mint_email_token: a sign-up of a known address and a reset of an unknown one lose
\* their row; any other run mails a new secret, and the one before stops working.
SendToken(l) ==
  LET known == hashes[links[l].person] # 0 IN
  /\ links[l].purpose # "none" /\ ~ InUse(l) /\ minted < MaxSecret
  /\ IF known = (links[l].purpose = "password_reset")
     THEN links' = [links EXCEPT ![l].hash = minted + 1] /\ minted' = minted + 1
     ELSE links' = [links EXCEPT ![l] = NoLink] /\ UNCHANGED minted
  /\ UNCHANGED <<hashes, installer, roles, invites, tabs, uses>>

\* expires_at passes, and a later request deletes the row; what is using it has looked already.
LinkExpires(l) ==
  /\ links[l].purpose # "none" /\ ~ InUse(l)
  /\ links' = [links EXCEPT ![l] = NoLink]
  /\ UNCHANGED <<hashes, installer, roles, invites, minted, tabs, uses>>

OpenLinkMutant(x, l) ==
  /\ tabs[x].pc = "idle" /\ links[l].purpose # "none" /\ links[l].hash # 0
  /\ tabs' = [tabs EXCEPT ![x] = [IdleTab EXCEPT !.pc = "link", !.secret = links[l].hash]]
  /\ UNCHANGED <<hashes, installer, roles, invites, links, minted, uses>>

\* live_token, before the password is hashed; a sign-up only once setup is done.
OpenLink(x, l) ==
  /\ tabs[x].pc = "idle" /\ links[l].purpose # "none" /\ links[l].hash # 0
  /\ links[l].purpose # "password_reset" => ~ NeedsSetup
  /\ tabs' = [tabs EXCEPT ![x] = [IdleTab EXCEPT !.pc = "link", !.secret = links[l].hash]]
  /\ UNCHANGED <<hashes, installer, roles, invites, links, minted, uses>>

\* A business sign-up makes its owner's business; the first one is the one modelled.
WithOwner(l) ==
  IF links[l].purpose = "sign_up" /\ \A q \in Persons : roles[q] = "none"
  THEN [roles EXCEPT ![links[l].person] = "owner"] ELSE roles

\* complete_sign_up and complete_account_sign_up: the link is used up, also for an address that has
\* an account by now.
CompleteSignUp(x, l) ==
  LET p == links[l].person IN
  /\ tabs[x].pc = "link" /\ l \in Opens(tabs[x].secret) /\ links[l].purpose # "password_reset"
  /\ links' = [links EXCEPT ![l] = NoLink]
  /\ IF hashes[p] = 0
     THEN /\ hashes' = [hashes EXCEPT ![p] = 1]
          /\ roles' = WithOwner(l)
          /\ uses' = [uses EXCEPT ![tabs[x].secret] = @ \cup {"account"}]
     ELSE UNCHANGED <<hashes, roles, uses>>
  /\ Close(x)
  /\ UNCHANGED <<installer, invites, minted>>

\* reset_password's first statement: the link is deleted, its row locked until the commit.
TakeLink(x, l) ==
  /\ tabs[x].pc = "link" /\ l \in Opens(tabs[x].secret) /\ links[l].purpose = "password_reset"
  /\ ~ InUse(l)
  /\ tabs' = [tabs EXCEPT ![x].pc = "reset"]
  /\ UNCHANGED <<hashes, installer, roles, invites, links, minted, uses>>

\* The other reset links of the address that a reset by l deletes: SKIP LOCKED leaves one that is
\* being used itself at this moment.
DiesWith(k, l) ==
  /\ links[k].purpose = "password_reset" /\ links[k].person = links[l].person
  /\ ~ InUse(k)

\* The rest of reset_password and its commit.  For an address without an account the link is used up
\* and nothing else.
Reset(x, l) ==
  LET p == links[l].person
      known == hashes[p] # 0 IN
  /\ tabs[x].pc = "reset" /\ l \in Opens(tabs[x].secret) /\ links[l].purpose = "password_reset"
  /\ hashes[p] < MaxHash
  /\ hashes' = IF known THEN [hashes EXCEPT ![p] = @ + 1] ELSE hashes
  /\ links' = [k \in LinkIds |-> IF k = l \/ (known /\ DiesWith(k, l)) THEN NoLink ELSE links[k]]
  /\ uses' = IF known THEN [uses EXCEPT ![tabs[x].secret] = @ \cup {"reset"}] ELSE uses
  /\ Close(x)
  /\ UNCHANGED <<installer, roles, invites, minted>>

\* invalid_token: used up, or replaced, since the look; or the request is cut off and rolled back.
GiveUp(x) ==
  /\ tabs[x].pc # "idle"
  /\ Close(x)
  /\ UNCHANGED <<hashes, installer, roles, invites, links, minted, uses>>

-----------------------------------------------------------------------------
(* Owners: a request carries the role its session had *)

\* resolve and owner, in a transaction of their own.
Manage(x, me) ==
  /\ tabs[x].pc = "idle" /\ roles[me] = "owner"
  /\ tabs' = [tabs EXCEPT ![x] = [IdleTab EXCEPT !.pc = "manage", !.person = me]]
  /\ UNCHANGED <<hashes, installer, roles, invites, links, minted, uses>>

\* invites.create: a new id and no hash, so the link of the invite before is dead, and so is its job,
\* which finds no row by the old id.
Invite(x, p) ==
  /\ tabs[x].pc = "manage" /\ roles[p] \notin {"owner", "worker"}
  /\ invites' = [invites EXCEPT ![p] = [open |-> TRUE, hash |-> 0]]
  /\ Close(x)
  /\ UNCHANGED <<hashes, installer, roles, links, minted, uses>>

\* invites.revoke.
RevokeInvite(x, p) ==
  /\ tabs[x].pc = "manage" /\ invites[p].open
  /\ invites' = [invites EXCEPT ![p] = NoInvite]
  /\ Close(x)
  /\ UNCHANGED <<hashes, installer, roles, links, minted, uses>>

\* target: the caller, still an owner, and another live member, both rows locked.
Target(me, p) == roles[me] = "owner" /\ me # p /\ roles[p] \in {"owner", "worker"}

\* keep_an_owner: the trigger refuses the change that leaves none.
KeepsAnOwner(after) == \E p \in Persons : after[p] = "owner"

\* change_role and remove (its bookings are in module Bookings).
ChangeRole(x, p, role) ==
  LET after == [roles EXCEPT ![p] = role] IN
  /\ tabs[x].pc = "manage" /\ Target(tabs[x].person, p)
  /\ roles[p] # role /\ KeepsAnOwner(after)
  /\ roles' = after
  /\ Close(x)
  /\ UNCHANGED <<hashes, installer, invites, links, minted, uses>>

-----------------------------------------------------------------------------
(* Invites *)

\* send_invite mints and mails; run again, it mails another secret.
SendInvite(p) ==
  /\ invites[p].open /\ minted < MaxSecret
  /\ invites' = [invites EXCEPT ![p].hash = minted + 1]
  /\ minted' = minted + 1
  /\ UNCHANGED <<hashes, installer, roles, links, tabs, uses>>

\* accept, up to the second transaction: find, then a new password hashed or the stored one verified.
FindInvite(x, p) ==
  /\ tabs[x].pc = "idle" /\ invites[p].hash # 0
  /\ tabs' = [tabs EXCEPT ![x] = [pc |-> "accept", person |-> p, secret |-> invites[p].hash,
                                  version |-> hashes[p]]]
  /\ UNCHANGED <<hashes, installer, roles, invites, links, minted, uses>>

AcceptsMutant(x) ==
  LET p == tabs[x].person IN
  /\ tabs[x].pc = "accept" /\ invites[p].open
  /\ tabs[x].version # 0 => hashes[p] = tabs[x].version
  /\ tabs[x].version = 0 => hashes[p] = 0

\* password_unchanged, and accept_invite's own look at the row and the account.
Accepts(x) ==
  LET p == tabs[x].person IN
  /\ tabs[x].pc = "accept" /\ invites[p].hash = tabs[x].secret
  /\ hashes[p] = tabs[x].version

\* accept_invite: the account is made, or stays as it is; a removed member comes back as a worker, a
\* member keeps the role, and the invite is used up.
AcceptInvite(x) ==
  LET p == tabs[x].person
      joins == roles[p] \in {"none", "removed"} IN
  /\ Accepts(x)
  /\ hashes' = [hashes EXCEPT ![p] = IF @ = 0 THEN 1 ELSE @]
  /\ invites' = [invites EXCEPT ![p] = NoInvite]
  /\ roles' = [roles EXCEPT ![p] = IF joins THEN "worker" ELSE @]
  /\ uses' = [uses EXCEPT ![tabs[x].secret] = @ \cup {"joined"}]
  /\ Close(x)
  /\ UNCHANGED <<installer, links, minted>>

MembersNext ==
  \/ \E x \in Tabs, p \in Persons :
       BeginSetup(x, p) \/ Manage(x, p) \/ Invite(x, p) \/ RevokeInvite(x, p) \/ FindInvite(x, p)
  \/ \E x \in Tabs : CompleteSetup(x) \/ GiveUp(x) \/ AcceptInvite(x)
  \/ \E x \in Tabs, p \in Persons, role \in {"owner", "worker", "removed"} : ChangeRole(x, p, role)
  \/ \E x \in Tabs, l \in LinkIds : OpenLink(x, l) \/ CompleteSignUp(x, l) \/ TakeLink(x, l) \/ Reset(x, l)
  \/ \E l \in LinkIds, purpose \in Purposes, p \in Persons : SendLink(l, purpose, p)
  \/ \E l \in LinkIds : SendToken(l) \/ LinkExpires(l)
  \/ \E p \in Persons : SendInvite(p)

MembersSpec == MembersInit /\ [][MembersNext]_memberVars

-----------------------------------------------------------------------------
(* Properties *)

\* The first account of an install is the platform admin's: no sign-up, invite or second setup that
\* ran at the same time gets in before it or beside it (complete_setup's lock, sign-up's 409).
FirstIsTheAdmin == installer' # installer => NeedsSetup

\* Somebody has an account only where somebody is the admin.
NobodyBeforeTheAdmin == (\E p \in Persons : hashes[p] # 0) => installer # NoPerson

\* A secret works once and for one thing: two tabs with the same link, a link of an invite that was
\* revoked or sent again, one mailed by a job that ran twice.
SecretsWorkOnce ==
  \A n \in 1 .. MaxSecret :
    uses'[n] # uses[n] =>
      /\ uses[n] = {}
      /\ \/ \E l \in LinkIds : links[l].hash = n /\ links'[l] = NoLink
         \/ \E p \in Persons : invites[p].hash = n /\ invites'[p] = NoInvite

\* An account's password changes only with a reset link of its own address, which is gone then: an
\* invite or a second sign-up never changes it.  And with it dies every other reset link but one that
\* another request was already using up, which resets the password again (reset_password's SKIP LOCKED).
PasswordsChangeByReset ==
  \A p \in Persons :
    hashes[p] # 0 /\ hashes'[p] # hashes[p] =>
      /\ \E l \in LinkIds :
           links[l].purpose = "password_reset" /\ links[l].person = p /\ InUse(l) /\ links'[l] = NoLink
      /\ \A l \in LinkIds : links'[l].purpose = "password_reset" /\ links'[l].person = p => InUse(l)'

\* Whoever changes a role is an owner when it changes, not only when their request began: of two
\* owners who demote each other one is refused.  And the business keeps an owner.
OwnersDecide ==
  /\ (\E p \in Persons : roles[p] = "owner") => \E p \in Persons : roles'[p] = "owner"
  /\ \A x \in Tabs : tabs[x].pc = "manage" /\ tabs'[x].pc = "idle" /\ roles' # roles =>
       roles[tabs[x].person] = "owner" /\ roles'[tabs[x].person] = "owner"

\* The tables, the tabs and the secrets are as the handlers can make them, and the admin came first.
MembersInv == MembersTypeOK /\ NobodyBeforeTheAdmin

\* Nobody gets an account, a password or a role but in the way meant for it, at the moment of the
\* change and not only when the request began.
AccountsChangeByRight ==
  [][FirstIsTheAdmin /\ SecretsWorkOnce /\ PasswordsChangeByReset /\ OwnersDecide]_memberVars

=============================================================================
