------------------------------ MODULE Services ------------------------------
(***************************************************************************)
(* A service: who performs it and its photo (backend/app/services.py,       *)
(* photos.py and the media half of storage.py).                             *)
(*                                                                          *)
(* A Save reads the row, stores the photo's variants with no transaction    *)
(* open, and writes the row in a second transaction, on what it finds there *)
(* under the row's lock.  A photo no longer wanted is deleted by a job, any *)
(* time later, which looks whether the service uses it and then deletes.    *)
(***************************************************************************)
EXTENDS Naturals, FiniteSets

CONSTANTS
  Uploads, Edits,     \* uploads of the business; Saves on their way
  Workers,            \* memberships
  MaxDeletes          \* bound: media.delete jobs queued in a lifetime

VARIABLES
  photoKey,           \* services.photo_key
  media,              \* uploads whose variants are in the media bucket
  saving,             \* update_service requests
  deletes,            \* media.delete jobs: [1 .. MaxDeletes -> job]
  orphans,            \* variants a Save left, or a job gave up on
  lost,               \* uploads a delete took while a Save that had stored them was on its way
  performers,         \* service_workers
  roster,             \* memberships whose role is not removed
  assigning           \* what assign_workers has locked and is about to write

serviceVars == <<photoKey, media, saving, deletes, orphans, lost, performers, roster, assigning>>

NoPhoto == "no photo"

ASSUME ServicesAssumption == MaxDeletes \in Nat /\ NoPhoto \notin Uploads

Photos == Uploads \cup {NoPhoto}

IdleEdit == [pc |-> "idle", upload |-> NoPhoto]

\* linked: the service used the photo when the job looked.
NoDelete == [pc |-> "none", upload |-> NoPhoto, linked |-> FALSE]

ServicesTypeOK ==
  /\ photoKey \in Photos
  /\ media \subseteq Uploads /\ orphans \subseteq Uploads /\ lost \subseteq Uploads
  /\ saving \in [Edits -> [pc : {"idle", "checked", "stored"}, upload : Photos]]
  /\ deletes \in [1 .. MaxDeletes -> [pc : {"none", "queued", "deleting", "done"}, upload : Photos,
                                       linked : BOOLEAN]]
  /\ performers \subseteq Workers /\ roster \subseteq Workers
  /\ assigning \in [on : BOOLEAN, ids : SUBSET Workers]

\* create_service: the service and its workers in one transaction, no photo yet.
ServicesInit ==
  /\ photoKey = NoPhoto /\ media = {} /\ orphans = {} /\ lost = {}
  /\ saving = [s \in Edits |-> IdleEdit]
  /\ deletes = [j \in 1 .. MaxDeletes |-> NoDelete]
  /\ performers = {} /\ roster = Workers
  /\ assigning = [on |-> FALSE, ids |-> {}]

staffVars == <<performers, roster, assigning>>

-----------------------------------------------------------------------------
(* The photo *)

\* update_service's first transaction: a Save of what is there already goes no further.
BeginSave(s, upload) ==
  /\ saving[s].pc = "idle" /\ upload # photoKey
  /\ saving' = [saving EXCEPT ![s] = [pc |-> IF upload = NoPhoto THEN "stored" ELSE "checked",
                                      upload |-> upload]]
  /\ UNCHANGED <<photoKey, media, deletes, orphans, lost, staffVars>>

\* photos.finalize.
StorePhoto(s) ==
  /\ saving[s].pc = "checked"
  /\ media' = media \cup {saving[s].upload}
  /\ lost' = lost \ {saving[s].upload}
  /\ saving' = [saving EXCEPT ![s].pc = "stored"]
  /\ UNCHANGED <<photoKey, deletes, orphans, staffVars>>

\* The Save fails, before or after the variants were stored.
FailSave(s) ==
  /\ saving[s].pc # "idle"
  /\ orphans' = IF saving[s].pc = "stored" THEN orphans \cup ({saving[s].upload} \cap Uploads) ELSE orphans
  /\ saving' = [saving EXCEPT ![s] = IdleEdit]
  /\ UNCHANGED <<photoKey, media, deletes, lost, staffVars>>

\* jobs.enqueue under a key nobody has used.
QueueDelete(upload) ==
  \E j \in 1 .. MaxDeletes :
    /\ deletes[j].pc = "none" /\ \A i \in 1 .. j - 1 : deletes[i].pc # "none"
    /\ deletes' = [deletes EXCEPT ![j] = [NoDelete EXCEPT !.pc = "queued", !.upload = upload]]

\* update_service's second transaction, under FOR NO KEY UPDATE.  Another Save may have set this very
\* upload, or removed the photo, meanwhile.
CommitSave(s) ==
  /\ saving[s].pc = "stored"
  /\ photoKey' = saving[s].upload
  /\ IF photoKey \in {NoPhoto, saving[s].upload} THEN UNCHANGED deletes ELSE QueueDelete(photoKey)
  /\ saving' = [saving EXCEPT ![s] = IdleEdit]
  /\ UNCHANGED <<media, orphans, lost, staffVars>>

InUseMutant(upload) == FALSE

\* media_delete's look at the services.
InUse(upload) == photoKey = upload

LookBeforeDelete(j) ==
  /\ deletes[j].pc = "queued"
  /\ deletes' = [deletes EXCEPT ![j].pc = IF InUse(deletes[j].upload) THEN "done" ELSE "deleting",
                               ![j].linked = (photoKey = deletes[j].upload)]
  /\ UNCHANGED <<photoKey, media, saving, orphans, lost, staffVars>>

\* The upload's photo is no longer whole in the bucket.
Gone(j) ==
  LET upload == deletes[j].upload IN
  /\ media' = media \ {upload}
  /\ lost' = IF ~ deletes[j].linked
                  /\ (photoKey = upload \/ \E s \in Edits : saving[s] = [pc |-> "stored", upload |-> upload])
             THEN lost \cup {upload} ELSE lost

\* delete_prefix; it may fail and be tried again, or for the last time.
DeleteMedia(j) ==
  /\ deletes[j].pc = "deleting" /\ Gone(j)
  /\ orphans' = orphans \ {deletes[j].upload}
  /\ deletes' = [deletes EXCEPT ![j].pc = "done"]
  /\ UNCHANGED <<photoKey, saving, staffVars>>

\* It deletes nothing, or some of the upload's objects: the photo is gone, the rest is still there.
FailDelete(j, pc, partly) ==
  /\ deletes[j].pc = "deleting"
  /\ IF partly THEN Gone(j) ELSE UNCHANGED <<media, lost>>
  /\ deletes' = [deletes EXCEPT ![j].pc = pc]
  /\ orphans' = IF pc = "done" THEN orphans \cup {deletes[j].upload} ELSE orphans
  /\ UNCHANGED <<photoKey, saving, staffVars>>

-----------------------------------------------------------------------------
(* Who performs it *)

photoVars == <<photoKey, media, saving, deletes, orphans, lost>>

\* replace_workers: lock_members, which answers only for current members; then the write.
LockMembers(ids) ==
  /\ ~ assigning.on /\ ids \subseteq roster
  /\ assigning' = [on |-> TRUE, ids |-> ids]
  /\ UNCHANGED <<performers, roster, photoVars>>

AssignWorkers ==
  /\ assigning.on
  /\ performers' = assigning.ids
  /\ assigning' = [on |-> FALSE, ids |-> {}]
  /\ UNCHANGED <<roster, photoVars>>

\* A membership that lock_members holds: target's FOR UPDATE waits.
RowLocked(m) == assigning.on /\ m \in assigning.ids

\* members.remove, of what is about services; and the member is invited back.
RemoveWorker(m) ==
  /\ m \in roster /\ ~ RowLocked(m)
  /\ performers' = performers \ {m}
  /\ roster' = roster \ {m}
  /\ UNCHANGED <<assigning, photoVars>>

RejoinWorker(m) ==
  /\ m \notin roster
  /\ roster' = roster \cup {m}
  /\ UNCHANGED <<performers, assigning, photoVars>>

ServicesNext ==
  \/ \E s \in Edits : StorePhoto(s) \/ FailSave(s) \/ CommitSave(s) \/ \E u \in Photos : BeginSave(s, u)
  \/ \E j \in 1 .. MaxDeletes :
       LookBeforeDelete(j) \/ DeleteMedia(j) \/ \E pc \in {"queued", "done"}, partly \in BOOLEAN : FailDelete(j, pc, partly)
  \/ \E ids \in SUBSET Workers : LockMembers(ids)
  \/ AssignWorkers
  \/ \E m \in Workers : RemoveWorker(m) \/ RejoinWorker(m)

ServicesSpec == ServicesInit /\ [][ServicesNext]_serviceVars

-----------------------------------------------------------------------------
(* Properties *)

\* A service's photo is in the bucket, but for one way to lose it: a delete that looked while the
\* service did not use the photo, and deleted after a Save of that photo had stored it (media_delete).
PhotoIsThere == photoKey \in Uploads => photoKey \in media \cup lost

\* Every stored photo is used, about to be, or about to be deleted, however Saves of the same upload
\* and its deletes follow each other; but for what a failed Save or a job that gave up left behind.
StoredHasAKeeper ==
  \A u \in media \ orphans :
    \/ u = photoKey
    \/ \E s \in Edits : saving[s] = [pc |-> "stored", upload |-> u]
    \/ \E j \in 1 .. MaxDeletes : deletes[j].upload = u /\ deletes[j].pc \in {"queued", "deleting"}

\* Only a current member performs a service, also one removed while the workers were being saved
\* (lock_members).
PerformersAreMembers == performers \subseteq roster

\* A service's photo is stored, a stored photo is kept for something, and who performs it is a member.
ServicesInv == ServicesTypeOK /\ PhotoIsThere /\ StoredHasAKeeper /\ PerformersAreMembers

=============================================================================
