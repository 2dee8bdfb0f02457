------------------------------ MODULE Clients -------------------------------
(***************************************************************************)
(* The record a business keeps of one client (backend/app/clients.py), by   *)
(* the e-mail address it was made for: found or created by bookings, its    *)
(* notes written by the team, its consents ticked at a booking, confirmed   *)
(* through the link and withdrawn, and all of it erased (0063, 0064).       *)
(*                                                                          *)
(* Bookings, confirmations and erasures take the business's booking lock;   *)
(* the team's notes and consents lock the client's row alone.  A request is *)
(* two steps: what it locks and reads, and what it writes when it commits.  *)
(* One purpose of consent, and the account of the address.                  *)
(***************************************************************************)
EXTENDS Naturals, Sequences

CONSTANTS
  Asked,                 \* requests on their way
  MaxRecords,            \* bounds: rows of clients, bookings with a tick, rows written to the log,
  MaxTicks, MaxLog,      \* and sessions of the account
  MaxSessions

ASSUME ClientsAssumption ==
  MaxRecords \in Nat /\ MaxTicks \in Nat /\ MaxLog \in Nat /\ MaxSessions \in Nat

VARIABLES
  records,               \* clients
  consentLog,            \* consents, and the created events' ticks, by their insertion clocks
  ticks,                 \* bookings with a tick: the client, whether its link is live, confirmed
  session,               \* the account's session, 0: none
  asked,
  sent                   \* history: of each record's notes, the value last sent

clientVars == <<records, consentLog, ticks, session, asked, sent>>

Notes == {"client_note", "internal_note"}

NoNotes == [k \in Notes |-> 0]

RecordType ==
  [state : {"none", "live", "erased"}, linked : BOOLEAN, name : {"", "guest", "person", "merchant"},
   notes : [Notes -> 0 .. 1]]

Blank(state) == [state |-> state, linked |-> FALSE, name |-> "", notes |-> NoNotes]

\* during: history, the bookings whose ticks were being confirmed when a withdrawal was written.
EntryType ==
  [at : 1 .. MaxLog, kind : {"tick", "grant", "withdrawal"}, client : 1 .. MaxRecords, booking : 0 .. MaxTicks,
   during : SUBSET (1 .. MaxTicks)]

LogEntry(at, kind, c, b) == [at |-> at, kind |-> kind, client |-> c, booking |-> b, during |-> {}]

TickType == [client : 1 .. MaxRecords, live : BOOLEAN, confirmed : BOOLEAN]

AskedType ==
  [pc : {"idle", "booking", "placing", "confirming", "consenting", "noting"},
   proof : 0 .. MaxSessions, on : 0 .. MaxRecords + MaxTicks, notes : [Notes -> 0 .. 1]]

NotAsked == [pc |-> "idle", proof |-> 0, on |-> 0, notes |-> NoNotes]

ClientsTypeOK ==
  /\ records \in [1 .. MaxRecords -> RecordType]
  /\ consentLog \subseteq EntryType
  /\ ticks \in Seq(TickType) /\ Len(ticks) <= MaxTicks
  /\ session \in 0 .. MaxSessions
  /\ asked \in [Asked -> AskedType]
  /\ sent \in [1 .. MaxRecords -> [Notes -> 0 .. 1]]

ClientsInit ==
  /\ records = [c \in 1 .. MaxRecords |-> Blank("none")]
  /\ consentLog = {} /\ ticks = << >> /\ session = 0
  /\ asked = [x \in Asked |-> NotAsked]
  /\ sent = [c \in 1 .. MaxRecords |-> NoNotes]

-----------------------------------------------------------------------------
(* Locks *)

At(pcs) == {x \in Asked : asked[x].pc \in pcs}

\* LOCK: the business's booking lock.
BookingLock == At({"placing", "confirming"}) = {}

\* A row that another transaction holds FOR SHARE cannot be changed; one that it holds FOR NO KEY
\* UPDATE cannot be read FOR SHARE either.
ShareFree(c) == \A x \in At({"noting"}) : asked[x].on # c

RowFree(c) == \A x \in At({"noting", "consenting"}) : asked[x].on # c

Ends(x) == asked' = [asked EXCEPT ![x] = NotAsked]

\* clock_timestamp(): later than every row that is there.
Clock ==
  {at \in 1 .. MaxLog :
     (\A e \in consentLog : e.at < at) /\ (at = 1 \/ \E e \in consentLog : e.at = at - 1)}

Becomes(x, pc, proof, on, notes) ==
  asked' = [asked EXCEPT ![x] = [pc |-> pc, proof |-> proof, on |-> on, notes |-> notes]]

-----------------------------------------------------------------------------
(* A booking on the page: find_or_create *)

\* The rows that hold the address: erasing takes it away, so the next booking makes a new row.
Found == {c \in 1 .. MaxRecords : records[c].state = "live"}

NextRecord == {c \in 1 .. MaxRecords : records[c].state = "none" /\ \A d \in 1 .. c - 1 : records[d].state # "none"}

\* Step 0, a transaction of its own: the session whose verified address is the typed one, or a guest.
BeginBooking(x, signedIn) ==
  /\ asked[x].pc = "idle" /\ (signedIn => session # 0)
  /\ Becomes(x, "booking", IF signedIn THEN session ELSE 0, 0, NoNotes)
  /\ UNCHANGED <<records, consentLog, ticks, session, sent>>

ProofHeldMutant(proof) == TRUE

\* The proof's session is still live, and held FOR KEY SHARE to the end of the booking.
ProofHeld(proof) == proof = 0 \/ proof = session

HoldSession(x) ==
  /\ asked[x].pc = "booking" /\ BookingLock
  /\ IF ProofHeld(asked[x].proof) THEN Becomes(x, "placing", asked[x].proof, 0, NoNotes) ELSE Ends(x)
  /\ UNCHANGED <<records, consentLog, ticks, session, sent>>

\* REFRESH, for a proven address, and KEEP.
Upserted(r, proven) ==
  IF r.state = "none" THEN [Blank("live") EXCEPT !.linked = proven, !.name = IF proven THEN "person" ELSE "guest"]
  ELSE IF proven THEN [r EXCEPT !.linked = TRUE, !.name = "person"]
  ELSE r

\* tick: the purpose was ticked; a proven client who left it unticked withdraws, a guest cannot.
PlaceForClient(x, tick) ==
  /\ asked[x].pc = "placing"
  /\ \E c \in IF Found # {} THEN Found ELSE NextRecord, at \in Clock :
       /\ RowFree(c)
       /\ records' = [records EXCEPT ![c] = Upserted(@, asked[x].proof # 0)]
       /\ \/ /\ tick /\ Len(ticks) < MaxTicks
             /\ ticks' = Append(ticks, [client |-> c, live |-> TRUE, confirmed |-> FALSE])
             /\ consentLog' = consentLog \cup {LogEntry(at, "tick", c, Len(ticks) + 1)}
          \/ /\ ~ tick /\ UNCHANGED ticks
             /\ consentLog' = IF asked[x].proof = 0 THEN consentLog
                              ELSE consentLog \cup {LogEntry(at, "withdrawal", c, 0)}
  /\ Ends(x) /\ UNCHANGED <<session, sent>>

\* No slot, over the cap, an unknown policy version, the database gone: nothing is written.
ClientRefused(x) ==
  /\ asked[x].pc # "idle" /\ Ends(x)
  /\ UNCHANGED <<records, consentLog, ticks, session, sent>>

-----------------------------------------------------------------------------
(* The confirmation of a tick, through the booking's link *)

WithdrawnSince(b) ==
  \E t, w \in consentLog :
    /\ t.at < w.at /\ t.kind = "tick" /\ t.booking = b
    /\ w.kind = "withdrawal" /\ w.client = ticks[b].client

PendingConsentsMutant(b) == ~ ticks[b].confirmed

PendingConsents(b) == ~ ticks[b].confirmed /\ ~ WithdrawnSince(b)

\* resolve: a booking that has ended, or a client's that was erased, has no live link.
BeginConfirm(x, b) ==
  /\ asked[x].pc = "idle" /\ BookingLock /\ ticks[b].live /\ PendingConsents(b)
  /\ Becomes(x, "confirming", 0, b, NoNotes)
  /\ UNCHANGED <<records, consentLog, ticks, session, sent>>

\* clients_erased_children: nothing new attaches to an erased client.
Attaches(c) == records[c].state # "erased" /\ ShareFree(c)

ConfirmConsents(x) ==
  LET b == asked[x].on IN
  /\ asked[x].pc = "confirming" /\ Attaches(ticks[b].client)
  /\ \E at \in Clock : consentLog' = consentLog \cup {LogEntry(at, "grant", ticks[b].client, b)}
  /\ ticks' = [ticks EXCEPT ![b].confirmed = TRUE]
  /\ Ends(x) /\ UNCHANGED <<records, session, sent>>

\* The booking is cancelled, declined or lapsed, or its start has come.
LinkEnds(b) ==
  /\ BookingLock /\ ticks[b].live /\ ticks' = [ticks EXCEPT ![b].live = FALSE]
  /\ UNCHANGED <<records, consentLog, session, asked, sent>>

-----------------------------------------------------------------------------
(* The team *)

\* insert: a plain INSERT, refused for an address that is on file.
CreateClient(c) ==
  /\ Found = {} /\ c \in NextRecord
  /\ records' = [records EXCEPT ![c] = [Blank("live") EXCEPT !.name = "merchant"]]
  /\ UNCHANGED <<consentLog, ticks, session, asked, sent>>

\* add_consents: the row FOR SHARE, then what the member says the client granted or withdrew.
BeginConsents(x, c) ==
  /\ asked[x].pc = "idle" /\ records[c].state = "live" /\ ShareFree(c)
  /\ Becomes(x, "consenting", 0, c, NoNotes)
  /\ UNCHANGED <<records, consentLog, ticks, session, sent>>

AddConsents(x, granted) ==
  LET c == asked[x].on IN
  /\ asked[x].pc = "consenting" /\ Attaches(c)
  /\ \E at \in Clock : consentLog' = consentLog \cup
       {IF granted THEN LogEntry(at, "grant", c, 0)
        ELSE [LogEntry(at, "withdrawal", c, 0) EXCEPT !.during = {asked[y].on : y \in At({"confirming"})}]}
  /\ Ends(x) /\ UNCHANGED <<records, ticks, session, sent>>

\* update_client's FOR NO KEY UPDATE.
Locks(c) == RowFree(c)

BeginNotes(x, c) ==
  /\ asked[x].pc = "idle" /\ records[c].state = "live" /\ Locks(c)
  /\ Becomes(x, "noting", 0, c, records[c].notes)
  /\ UNCHANGED <<records, consentLog, ticks, session, sent>>

\* Both notes are written, the one not sent as it was read; a worker's request leaves internal_note.
UpdateClient(x, k, value, owner) ==
  LET c == asked[x].on
      after == [asked[x].notes EXCEPT ![k] = value]
  IN
  /\ asked[x].pc = "noting" /\ records[c].state = "live"
  /\ k = "internal_note" => owner
  /\ records' = [records EXCEPT ![c].notes =
       IF owner THEN after ELSE [@ EXCEPT !["client_note"] = after["client_note"]]]
  /\ sent' = [sent EXCEPT ![c][k] = value]
  /\ Ends(x) /\ UNCHANGED <<consentLog, ticks, session>>

-----------------------------------------------------------------------------
(* The erasure, and the account's sessions *)

Tombstone(c) ==
  /\ records' = [records EXCEPT ![c] = Blank("erased")]
  /\ ticks' = [b \in DOMAIN ticks |-> IF ticks[b].client = c THEN [ticks[b] EXCEPT !.live = FALSE] ELSE ticks[b]]
  /\ sent' = [sent EXCEPT ![c] = NoNotes]
  /\ UNCHANGED <<session, asked>>

\* erase_client_core: the row is blanked, the consents and the links go; the events stay.  Its callers are
\* erase_client, which no route calls yet, and ledger.reapply, while the API is stopped.
EraseClient(c) ==
  /\ BookingLock /\ records[c].state = "live" /\ RowFree(c) /\ Tombstone(c)
  /\ consentLog' = {e \in consentLog : e.kind = "tick" \/ e.client # c}

\* A new secret is none that a request still carries.
SignsIn ==
  /\ session = 0
  /\ LET free == {n \in 1 .. MaxSessions : \A x \in Asked : asked[x].proof # n} IN
     session' \in {n \in free : \A o \in free : n <= o}
  /\ UNCHANGED <<records, consentLog, ticks, asked, sent>>

\* A sign-out or a reset waits for a booking that holds the session.
SessionEnds ==
  /\ session # 0 /\ \A x \in At({"placing"}) : asked[x].proof # session
  /\ session' = 0
  /\ UNCHANGED <<records, consentLog, ticks, asked, sent>>

ClientsNext ==
  \/ \E x \in Asked :
       \/ \E yes \in BOOLEAN : BeginBooking(x, yes) \/ PlaceForClient(x, yes) \/ AddConsents(x, yes)
       \/ HoldSession(x) \/ ClientRefused(x) \/ ConfirmConsents(x)
       \/ \E b \in DOMAIN ticks : BeginConfirm(x, b)
       \/ \E c \in 1 .. MaxRecords : BeginConsents(x, c) \/ BeginNotes(x, c)
       \/ \E k \in Notes, value \in 0 .. 1, owner \in BOOLEAN : UpdateClient(x, k, value, owner)
  \/ \E b \in DOMAIN ticks : LinkEnds(b)
  \/ \E c \in 1 .. MaxRecords : CreateClient(c) \/ EraseClient(c)
  \/ SignsIn \/ SessionEnds

ClientsSpec == ClientsInit /\ [][ClientsNext]_clientVars

-----------------------------------------------------------------------------
(* Properties *)

\* A tick confirmed later is no grant over a withdrawal that came after the tick (D11), but for one that
\* a member wrote, without the booking lock, between the confirmation's look and its own row.
WithdrawalStands ==
  \A g \in consentLog :
    g.kind = "grant" /\ g.booking # 0 =>
      ~ \E t, w \in consentLog :
          /\ t.at < w.at /\ w.at < g.at /\ t.kind = "tick" /\ t.booking = g.booking
          /\ w.kind = "withdrawal" /\ w.client = g.client /\ g.booking \notin w.during

\* An erased client has no consent on file, given before, during or after the erasure (0063).
TombstoneIsBare ==
  \A e \in consentLog : records[e.client].state = "erased" => e.kind = "tick"

\* Two members who change a client's two notes at once both keep what they sent (update_client).
NoNoteLost == \A c \in 1 .. MaxRecords : records[c].notes = sent[c]

\* A record is rewritten, or linked to an account, only by a booking of that account whose session is
\* live when the booking commits: never by a guest, nor after a sign-out or a reset (find_or_create).
OnlyTheirsToChange ==
  [][\A c \in 1 .. MaxRecords :
       LET was == records[c] is == records'[c] IN
       is.state = "live" /\ (is.linked # was.linked \/ (was.state = "live" /\ is.name # was.name)) =>
         \E x \in At({"placing"}) : asked[x].proof = session /\ session # 0 /\ asked'[x].pc = "idle"]_clientVars

\* Of two requests about one client at once neither undoes the other: a withdrawal, an erasure and a
\* note stand whatever runs beside them.
ClientsInv == ClientsTypeOK /\ WithdrawalStands /\ TombstoneIsBare /\ NoNoteLost

=============================================================================
