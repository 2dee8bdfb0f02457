------------------------------- MODULE Ledger -------------------------------
(***************************************************************************)
(* The erasure ledger (backend/app/ledger.py and the ledger's half of       *)
(* storage.py), across backups and restores of the database.                *)
(*                                                                          *)
(* A restore brings back whom it has not erased yet; the ledger, outside    *)
(* the database, names them, and reapply erases them again before the API   *)
(* and the worker start.  Time is in hours; no entry grows old enough here  *)
(* for the bucket to drop it.  A client the restored database never had is  *)
(* nothing to reapply, so every client is there from the start.             *)
(***************************************************************************)
EXTENDS Naturals, FiniteSets

CONSTANTS
  Subjects,           \* clients
  Lag,                \* how long a transaction takes, from its now() to its commit, at most
  Margin,             \* --since is the restore point less this
  MaxHour, MaxBackups \* bounds

ASSUME LedgerAssumption ==
  /\ Margin \in Nat /\ Lag \in 0 .. Margin
  /\ MaxHour \in Nat \ {0} /\ MaxBackups \in Nat

VARIABLES
  hour,
  database,           \* what a restore rewinds
  backups,            \* nightly dumps
  bucket,             \* the ledger
  serving,            \* the API and the worker run
  point,              \* the restore point, of a database not reapplied yet
  undone              \* erasures a restore took back before the ledger had them, that a dump still has

ledgerVars == <<hour, database, backups, bucket, serving, point, undone>>

Hours == 0 .. MaxHour

\* An erasure: which client, and the now() of the transaction.
Entry == [subject : Subjects, at : 1 .. MaxHour]

\* erased: clients.erased_at, 0 for NULL.  newest: of the records NEWEST_GLOBAL and NEWEST_IN_BUSINESS
\* look at.  queue: erasure.ledger jobs.
DatabaseType == [erased : [Subjects -> Hours], newest : Hours, queue : SUBSET Entry]

LedgerTypeOK ==
  /\ hour \in 1 .. MaxHour /\ point \in Hours /\ serving \in BOOLEAN
  /\ database \in DatabaseType
  /\ backups \subseteq [database : DatabaseType, at : Hours]
  /\ bucket \subseteq Entry /\ undone \subseteq Entry

LedgerInit ==
  /\ hour = 1 /\ point = 0 /\ serving = TRUE
  /\ database = [erased |-> [c \in Subjects |-> 0], newest |-> 0, queue |-> {}]
  /\ backups = {} /\ bucket = {} /\ undone = {}

Later(at) == IF at > database.newest THEN at ELSE database.newest

-----------------------------------------------------------------------------
(* The API and the worker *)

\* The erase core and ledger.enqueue, in one transaction that opened at at.
EraseSubject(c, at) ==
  /\ serving /\ database.erased[c] = 0 /\ at \in 1 .. hour /\ hour <= at + Lag
  /\ database' = [erased |-> [database.erased EXCEPT ![c] = at], newest |-> Later(at),
                  queue |-> database.queue \cup {[subject |-> c, at |-> at]}]
  /\ UNCHANGED <<hour, backups, bucket, serving, point, undone>>

\* record: ledger_write writes the entry unless it is there, and the job is complete; the worker may
\* stop in between.
RecordErasure(e, completes) ==
  /\ serving /\ e \in database.queue
  /\ bucket' = bucket \cup {e}
  /\ database' = IF completes THEN [database EXCEPT !.queue = @ \ {e}, !.newest = hour] ELSE database
  /\ UNCHANGED <<hour, backups, serving, point, undone>>

RecordGivesUp(e) ==
  /\ serving /\ e \in database.queue
  /\ database' = [database EXCEPT !.queue = @ \ {e}]
  /\ UNCHANGED <<hour, backups, bucket, serving, point, undone>>

\* backfill: a job of its own for every client erased from since on.
Backfill(since) ==
  /\ LET from == {c \in Subjects : database.erased[c] # 0 /\ database.erased[c] >= since} IN
     database' = [database EXCEPT !.queue = @ \cup {[subject |-> c, at |-> database.erased[c]] : c \in from}]
  /\ UNCHANGED <<hour, backups, bucket, serving, point, undone>>

\* Anything else they record.
Activity ==
  /\ serving
  /\ database' = [database EXCEPT !.newest = hour]
  /\ UNCHANGED <<hour, backups, bucket, serving, point, undone>>

HourPasses ==
  /\ hour < MaxHour /\ hour' = hour + 1
  /\ UNCHANGED <<database, backups, bucket, serving, point, undone>>

-----------------------------------------------------------------------------
(* Backups, restores and the reapply *)

\* The dump runs whatever else does: also between a restore and its reapply.
Backup ==
  /\ Cardinality(backups) < MaxBackups
  /\ backups' = backups \cup {[database |-> database, at |-> hour]}
  /\ UNCHANGED <<hour, database, bucket, serving, point, undone>>

Restore(b) ==
  /\ database' = b.database /\ point' = b.at /\ serving' = FALSE
  /\ UNCHANGED <<hour, backups, bucket, undone>>

\* read: the entries from since on, 0 for all of them.
Listed(since) == {e \in bucket : e.at >= since}

InWindowMutant(since) == TRUE

\* check_window: since is not after everything the restored database holds.
InWindow(since) == since <= database.newest

\* check_window: the listing has one of the erasures that the database records, if it records any.
RightBucket(since) ==
  LET recorded == {c \in Subjects : database.erased[c] # 0 /\ database.erased[c] >= since} IN
  recorded # {} => \E e \in Listed(since) : e.subject \in recorded

\* For the history: the erasures that a dump knows of and the ledger, and with it reapply, does not.
OnlyInADump == {e \in Entry \ bucket : \E b \in backups : b.database.erased[e.subject] = e.at}

\* reapply, with nobody connected: all in one transaction, at its own time.  Then both are started.
Reapply(since) ==
  LET again == {c \in Subjects : database.erased[c] = 0 /\ \E e \in Listed(since) : e.subject = c} IN
  /\ ~ serving
  /\ InWindow(since) /\ RightBucket(since)
  /\ database' = [database EXCEPT !.erased = [c \in Subjects |-> IF c \in again THEN hour ELSE @[c]],
                                  !.newest = hour]
  /\ serving' = TRUE /\ point' = 0
  /\ undone' = undone \cup {e \in OnlyInADump : database'.erased[e.subject] = 0}
  /\ UNCHANGED <<hour, backups, bucket>>

LedgerNext ==
  \/ \E c \in Subjects, at \in 1 .. MaxHour : EraseSubject(c, at)
  \/ \E e \in database.queue : RecordGivesUp(e) \/ \E completes \in BOOLEAN : RecordErasure(e, completes)
  \/ \E since \in 1 .. hour : Backfill(since)
  \/ Activity \/ HourPasses \/ Backup
  \/ \E b \in backups : Restore(b)
  \/ \E since \in {0, IF point > Margin THEN point - Margin ELSE 0} : Reapply(since)

LedgerSpec == LedgerInit /\ [][LedgerNext]_ledgerVars

-----------------------------------------------------------------------------
(* Properties *)

\* A dump cut e in two, open as it was dumped and committed after; what that dump restored was dumped
\* again, not reapplied yet; and the --since of this second dump is after e, but not refused.
CutInTwo(e) ==
  \E b, again \in backups :
    /\ b.at <= e.at + Lag /\ again.database.newest = b.database.newest
    /\ again.database.erased[e.subject] = 0
    /\ e.at + Margin < again.at /\ again.at <= again.database.newest + Margin

\* Whoever the ledger names is erased while the API and the worker run, however often and to whichever
\* backup the database was restored, one of a restored database not reapplied yet too, and whether
\* reapply reads the whole ledger or from the restore point's hour on (check_window).  But for an
\* erasure that was cut in two and dumped so again, and for one that a restore took back before the
\* ledger had it, recorded only when a dump that still had it was restored in turn.
ErasedStaysErased ==
  serving => \A e \in bucket : database.erased[e.subject] # 0 \/ CutInTwo(e) \/ e \in undone

\* The ledger, the database and its backups are as the tools make them, and an erasure outlives a restore.
LedgerInv == LedgerTypeOK /\ ErasedStaysErased

=============================================================================
