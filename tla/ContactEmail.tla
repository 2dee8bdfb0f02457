--------------------------- MODULE ContactEmail ---------------------------
(***************************************************************************)
(* The contact e-mail of one business (backend/app/contact_email.py, the    *)
(* email.contact_email job of mail.py, the functions of 0086 and the tables *)
(* of 0088 and 0094): an address waits until its inbox confirms it, and few *)
(* businesses a day may send one inbox a link.                              *)
(*                                                                          *)
(* A save looks without a lock at what it will do, claims a place at the    *)
(* inbox in a transaction of its own, and then changes the row under its    *)
(* lock: other owners' saves, a confirmation and the mailer fall between    *)
(* the three.  A refusal at the end rolls the change back; the claim stays. *)
(*                                                                          *)
(* Time is what it ends: a link (24 hours), a claim (5 minutes, and no      *)
(* request of the API lasts as long), a link's place at the inbox (a day).  *)
(***************************************************************************)
EXTENDS Naturals, FiniteSets, Sequences

CONSTANTS
  Businesses,
  This,           \* the one modelled in full; of the others, their places at the inboxes
  Addresses,      \* inboxes
  NoAddress,      \* no address
  OwnInbox,       \* the address its owner signs in with
  Saves,          \* requests at one time
  MaxSenders,     \* BUSINESSES_PER_ADDRESS_A_DAY: 3
  MaxMailed       \* bound: links mailed

ASSUME ContactEmailAssumption ==
  /\ MaxSenders \in Nat /\ MaxMailed \in Nat
  /\ This \in Businesses /\ NoAddress \notin Addresses
  /\ OwnInbox \in Addresses \cup {NoAddress}

VARIABLES
  contact,        \* settings.contact_email: what clients see
  waiting,        \* contact_email_requests
  confirmations,  \* contact_email_confirmations
  senders,        \* contact_email_senders
  saves,          \* requests
  mailed,         \* the links sent so far: whose, to whom
  queued,         \* history: the businesses that queued a link to an inbox today
  exempted        \* history: the businesses that have their place at an inbox by right

contactVars == <<contact, waiting, confirmations, senders, saves, mailed, queued, exempted>>

WaitingType ==
  [email : Addresses \cup {NoAddress}, live : BOOLEAN, hash : 0 .. MaxMailed,
   requester : {"nobody", "owner", "former owner"}]

NotWaiting == [email |-> NoAddress, live |-> FALSE, hash |-> 0, requester |-> "nobody"]

SaveType ==
  [pc : {"idle", "claim", "write"}, kind : {"change", "resend"}, email : Addresses \cup {NoAddress}, claimed : BOOLEAN]

IdleSave ==
  [pc |-> "idle", kind |-> "change", email |-> NoAddress, claimed |-> FALSE]

ContactTypeOK ==
  /\ contact \in Addresses \cup {NoAddress}
  /\ waiting \in WaitingType
  /\ confirmations \subseteq Addresses
  /\ senders \in [Addresses -> [Businesses -> {"none", "claimed", "linked"}]]
  /\ saves \in [Saves -> SaveType]
  /\ mailed \in Seq(Addresses) /\ Len(mailed) <= MaxMailed
  /\ queued \in [Addresses -> SUBSET Businesses]
  /\ exempted \in [Addresses -> SUBSET Businesses]

\* 0088: an address saved before confirmation existed waits, with no link due and nobody's.
ContactInit ==
  /\ contact = NoAddress
  /\ \E moved \in Addresses \cup {NoAddress} : waiting = [NotWaiting EXCEPT !.email = moved]
  /\ confirmations = {}
  /\ senders = [a \in Addresses |-> [b \in Businesses |-> "none"]]
  /\ saves = [x \in Saves |-> IdleSave]
  /\ mailed = << >>
  /\ queued = [a \in Addresses |-> {}]
  /\ exempted = [a \in Addresses |-> {}]

-----------------------------------------------------------------------------
(* A save *)

\* WILL_SEND, read without a lock.
WillSend(a) ==
  a # NoAddress /\ a # contact /\ ~ (waiting.email = a /\ waiting.live)

\* change, up to the claim; NoAddress clears.
BeginChange(x, a) ==
  /\ saves[x].pc = "idle"
  /\ saves' = [saves EXCEPT ![x] =
                 [pc |-> IF WillSend(a) THEN "claim" ELSE "write", kind |-> "change",
                  email |-> a, claimed |-> FALSE]]
  /\ UNCHANGED <<contact, waiting, confirmations, senders, mailed, queued, exempted>>

\* resend, up to the claim: the waiting address is read without a lock.
BeginResend(x) ==
  /\ saves[x].pc = "idle" /\ waiting.email # NoAddress
  /\ saves' = [saves EXCEPT ![x] =
                 [pc |-> "claim", kind |-> "resend",
                  email |-> waiting.email, claimed |-> FALSE]]
  /\ UNCHANGED <<contact, waiting, confirmations, senders, mailed, queued, exempted>>

Senders(a) == {b \in Businesses : senders[a][b] # "none"}

Exempt(x) ==
  \/ saves[x].email = OwnInbox
  \/ saves[x].email \in confirmations

\* SENDERS: counted from rows, under the inbox's lock.
Claimable(x) ==
  LET a == saves[x].email IN
  senders[a][This] # "none" \/ Exempt(x) \/ Cardinality(Senders(a) \ {This}) < MaxSenders

\* _claim: a row that is counted keeps what it counts for.
Claim(x) ==
  LET a == saves[x].email IN
  /\ saves[x].pc = "claim" /\ Claimable(x)
  /\ senders' = [senders EXCEPT ![a][This] = IF @ = "linked" THEN @ ELSE "claimed"]
  /\ saves' = [saves EXCEPT ![x].pc = "write", ![x].claimed = TRUE]
  /\ exempted' = IF Exempt(x) THEN [exempted EXCEPT ![a] = @ \cup {This}] ELSE exempted
  /\ UNCHANGED <<contact, waiting, confirmations, mailed, queued>>

\* 429 at the claim or at the business's own limits, 409 no_contact_email_request, 503 busy: what the
\* transaction did is undone.
Refuse(x) ==
  /\ saves[x].pc # "idle"
  /\ saves' = [saves EXCEPT ![x] = IdleSave]
  /\ UNCHANGED <<contact, waiting, confirmations, senders, mailed, queued, exempted>>

\* send_link: the place is kept for the day, and the job will mail the address that waits.
SendContactLink(x, a) ==
  /\ senders[saves[x].email][This] # "none"
  /\ senders' = [senders EXCEPT ![saves[x].email][This] = "linked"]
  /\ queued' = [queued EXCEPT ![a] = @ \cup {This}]

Outcome(a) ==
  CASE a = NoAddress -> "cleared"
    [] a # NoAddress /\ a = contact -> "kept"
    [] a # NoAddress /\ a # contact /\ waiting.email = a /\ waiting.live -> "unchanged"
    [] OTHER -> "requested"

NewRequestMutant(a) == [email |-> a, live |-> TRUE, hash |-> waiting.hash, requester |-> "owner"]

\* A new id and no hash: the link before is dead, and so is its job.
NewRequest(a) == [email |-> a, live |-> TRUE, hash |-> 0, requester |-> "owner"]

\* change_contact_email, under the row's lock, and the rest of change.
Change(x) ==
  LET a == saves[x].email
      outcome == Outcome(a) IN
  /\ saves[x].pc = "write" /\ saves[x].kind = "change"
  /\ (outcome = "requested") = saves[x].claimed
  /\ contact' = IF outcome = "cleared" THEN NoAddress ELSE contact
  /\ waiting' = CASE outcome \in {"cleared", "kept"} -> NotWaiting
                  [] outcome = "requested" -> NewRequest(a)
                  [] OTHER -> waiting
  /\ IF outcome = "requested" THEN SendContactLink(x, a) ELSE UNCHANGED <<senders, queued>>
  /\ saves' = [saves EXCEPT ![x] = IdleSave]
  /\ UNCHANGED <<confirmations, mailed, exempted>>

ResendableMutant(x) == waiting.email # NoAddress

\* The row that resend_contact_email locked still waits for the address that was claimed.
Resendable(x) == waiting.email = saves[x].email

\* resend_contact_email and the rest of resend.
Resend(x) ==
  LET a == waiting.email IN
  /\ saves[x].pc = "write" /\ saves[x].kind = "resend" /\ Resendable(x)
  /\ waiting' = NewRequest(a)
  /\ SendContactLink(x, a)
  /\ saves' = [saves EXCEPT ![x] = IdleSave]
  /\ UNCHANGED <<contact, confirmations, mailed, exempted>>

\* cancel_contact_email.
CancelRequest ==
  /\ waiting.email # NoAddress
  /\ waiting' = NotWaiting
  /\ UNCHANGED <<contact, confirmations, senders, saves, mailed, queued, exempted>>

-----------------------------------------------------------------------------
(* The link *)

\* send_contact_email and mint_contact_email_token; run again, it mails another one.
MintContactLink ==
  /\ waiting.live /\ Len(mailed) < MaxMailed
  /\ waiting' = [waiting EXCEPT !.hash = Len(mailed) + 1]
  /\ mailed' = Append(mailed, waiting.email)
  /\ UNCHANGED <<contact, confirmations, senders, saves, queued, exempted>>

\* confirm_contact_email: by whoever has the link, while the owner who asked for it is one.
ConfirmContact(n) ==
  /\ waiting.hash = n /\ waiting.live /\ waiting.requester = "owner"
  /\ contact' = waiting.email
  /\ waiting' = NotWaiting
  /\ confirmations' = confirmations \cup {waiting.email}
  /\ UNCHANGED <<senders, saves, mailed, queued, exempted>>

ContactLinkExpires ==
  /\ waiting.live
  /\ waiting' = [waiting EXCEPT !.live = FALSE]
  /\ UNCHANGED <<contact, confirmations, senders, saves, mailed, queued, exempted>>

\* LIVE and PURGE_SENDERS: a claim no request holds any more, or a link a day old, unless a claim of
\* the same business is being used.
PlaceLapses(a, b) ==
  /\ senders[a][b] # "none"
  /\ LET held == \E x \in Saves : b = This /\ saves[x].claimed /\ saves[x].email = a IN
     /\ senders[a][b] = "claimed" => ~ held
     /\ senders' = [senders EXCEPT ![a][b] = IF held THEN "claimed" ELSE "none"]
     /\ exempted' = IF held THEN exempted ELSE [exempted EXCEPT ![a] = @ \ {b}]
  /\ queued' = [queued EXCEPT ![a] = @ \ {b}]
  /\ UNCHANGED <<contact, waiting, confirmations, saves, mailed>>

\* The same code for another business: it claims a place, and queues a link from it.
OtherClaims(a, b) ==
  /\ b # This /\ senders[a][b] = "none" /\ Cardinality(Senders(a)) < MaxSenders
  /\ senders' = [senders EXCEPT ![a][b] = "claimed"]
  /\ UNCHANGED <<contact, waiting, confirmations, saves, mailed, queued, exempted>>

OtherLinks(a, b) ==
  /\ b # This /\ senders[a][b] # "none"
  /\ senders' = [senders EXCEPT ![a][b] = "linked"]
  /\ queued' = [queued EXCEPT ![a] = @ \cup {b}]
  /\ UNCHANGED <<contact, waiting, confirmations, saves, mailed, exempted>>

\* The owner who asked is demoted or removed, or comes back (Members has the rules).
RequesterChanges ==
  /\ waiting.requester # "nobody"
  /\ waiting' = [waiting EXCEPT !.requester = IF @ = "owner" THEN "former owner" ELSE "owner"]
  /\ UNCHANGED <<contact, confirmations, senders, saves, mailed, queued, exempted>>

ContactNext ==
  \/ \E x \in Saves, a \in Addresses \cup {NoAddress} : BeginChange(x, a)
  \/ \E x \in Saves : BeginResend(x) \/ Claim(x) \/ Refuse(x) \/ Change(x) \/ Resend(x)
  \/ CancelRequest \/ MintContactLink \/ ContactLinkExpires \/ RequesterChanges
  \/ \E n \in DOMAIN mailed : ConfirmContact(n)
  \/ \E a \in Addresses, b \in Businesses : PlaceLapses(a, b) \/ OtherClaims(a, b) \/ OtherLinks(a, b)

ContactSpec == ContactInit /\ [][ContactNext]_contactVars

-----------------------------------------------------------------------------
(* Properties *)

\* In a day at most MaxSenders businesses queue a link to one inbox, those not counted that have a
\* right to it: whatever saves of several businesses, and of two owners of one, run at once, are
\* refused between the claim and the lock, or find another address there than the one claimed.
InboxNotFlooded ==
  \A a \in Addresses : Cardinality(queued[a] \ exempted[a]) <= MaxSenders

\* An address becomes the one clients see only by a link mailed to that very inbox, the newest one:
\* a link sent before the address was changed, resent or cleared confirms nothing.
ConfirmedByItsInbox ==
  [][contact' \notin {contact, NoAddress} => mailed # << >> /\ mailed[Len(mailed)] = contact']_contactVars

\* The address, its waiting request and the saves in flight are consistent, and no inbox is flooded.
ContactInv == ContactTypeOK /\ InboxNotFlooded

=============================================================================
