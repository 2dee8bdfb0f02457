----------------------------- MODULE MCAccounts -----------------------------
(***************************************************************************)
(* The sessions, the members, the second factor, the contact e-mail and the *)
(* clients, for TLC.  They keep tables of their own, so a behaviour is one  *)
(* of one of them, the part chosen at the start; they share model values.   *)
(***************************************************************************)
EXTENDS Sessions, Members, SecondFactor, ContactEmail, Clients, TLC

CONSTANT Installer   \* the person who sets the platform up: by symmetry, always the same

VARIABLE part

Parts == {"sessions", "members", "factor", "contact", "clients"}

accountVars == <<part, sessionVars, memberVars, factorVars, contactVars, clientVars>>

AccountsInit ==
  /\ part \in Parts
  /\ SessionsInit /\ MembersInit /\ FactorInit /\ ContactInit /\ ClientsInit
  /\ part # "contact" => waiting.email = NoAddress

StepSessions ==
  /\ part = "sessions" /\ SessionsNext
  /\ UNCHANGED <<part, memberVars, factorVars, contactVars, clientVars>>

\* Bound: two links at one time are reset links of one address, since only those have to do with
\* each other; and one account gets to its third password.
TwoResets ==
  LET there == {l \in LinkIds : links[l].purpose # "none"} IN
  /\ Cardinality(there) > 1 =>
       \A l \in there : links[l].purpose = "password_reset" /\ links[l].person = Installer
  /\ \A p \in Persons \ {Installer} : hashes[p] < MaxHash

StepMembers ==
  /\ part = "members" /\ MembersNext /\ TwoResets'
  /\ UNCHANGED <<part, sessionVars, factorVars, contactVars, clientVars>>

StepFactor ==
  /\ part = "factor" /\ FactorNext
  /\ UNCHANGED <<part, sessionVars, memberVars, contactVars, clientVars>>

StepContact ==
  /\ part = "contact" /\ ContactNext
  /\ UNCHANGED <<part, sessionVars, memberVars, factorVars, clientVars>>

StepClients ==
  /\ part = "clients" /\ ClientsNext
  /\ UNCHANGED <<part, sessionVars, memberVars, factorVars, contactVars>>

AccountsNext == StepSessions \/ StepMembers \/ StepFactor \/ StepContact \/ StepClients

AccountsSpec == AccountsInit /\ [][AccountsNext]_accountVars

\* Bounds of the run: one platform admin among the people who sign in; the other businesses send
\* links to one of the two inboxes.
AccountsBounds ==
  /\ installer \in {NoPerson, Installer}
  /\ Cardinality(platformAdmins) <= 1
  /\ \A b \in Businesses \ {This} : senders[OwnInbox][b] = "none"

\* No code tells two people, two admin sessions, or two requests apart.
Interchangeable == Permutations(People) \cup Permutations(Tabs)

=============================================================================
