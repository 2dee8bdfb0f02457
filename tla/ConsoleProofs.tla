--------------------------- MODULE ConsoleProofs ---------------------------
(***************************************************************************)
(* What the console rests on, for any number of requests, Saves, jobs and   *)
(* members: a service's photo and workers, the counts of the rate limits,   *)
(* the erasures that backups and the ledger keep apart, and the currency.   *)
(***************************************************************************)
EXTENDS Services, Limits, Ledger, Currency, FiniteSetTheorems, TLAPS

-----------------------------------------------------------------------------
(* Services: the inductive invariant *)

\* A Save that stored its photo still has it in the bucket, or lost it to a delete that looked earlier.
SavesOK ==
  \A s \in Edits :
    /\ saving[s].pc = "checked" => saving[s].upload \in Uploads
    /\ saving[s].pc = "stored" /\ saving[s].upload \in Uploads => saving[s].upload \in media \cup lost

\* A delete goes on only when the service did not use the photo at its look.
DeletesOK ==
  \A j \in 1 .. MaxDeletes :
    deletes[j].pc \in {"queued", "deleting"} => deletes[j].upload \in Uploads /\ ~ deletes[j].linked

\* Who is being assigned was locked, so is not removed meanwhile.
AssigningOK == assigning.on => assigning.ids \subseteq roster

ServicesIInv == ServicesInv /\ SavesOK /\ DeletesOK /\ AssigningOK

SaveType == [pc : {"idle", "checked", "stored"}, upload : Photos]

DeleteType == [pc : {"none", "queued", "deleting", "done"}, upload : Photos, linked : BOOLEAN]

\* The types of the state and of the records in it, for the provers.
LEMMA ServicesFacts ==
  ASSUME ServicesIInv
  PROVE  /\ saving \in [Edits -> SaveType] /\ deletes \in [1 .. MaxDeletes -> DeleteType]
         /\ \A s \in Edits : saving[s] \in SaveType /\ saving[s].upload \in Photos
         /\ \A j \in 1 .. MaxDeletes : deletes[j] \in DeleteType /\ deletes[j].upload \in Photos
         /\ photoKey \in Photos /\ media \subseteq Uploads /\ orphans \subseteq Uploads /\ lost \subseteq Uploads
         /\ NoPhoto \notin Uploads
<1>1. saving \in [Edits -> SaveType] /\ deletes \in [1 .. MaxDeletes -> DeleteType]
  BY DEF ServicesIInv, ServicesInv, ServicesTypeOK, SaveType, DeleteType
<1>2. /\ \A s \in Edits : saving[s] \in SaveType /\ saving[s].upload \in Photos
      /\ \A j \in 1 .. MaxDeletes : deletes[j] \in DeleteType /\ deletes[j].upload \in Photos
  BY <1>1 DEF SaveType, DeleteType
<1> QED
  BY <1>1, <1>2, ServicesAssumption DEF ServicesIInv, ServicesInv, ServicesTypeOK

\* A stored Save is the record StoredHasAKeeper looks for.
LEMMA StoredRecord ==
  ASSUME NEW save \in SaveType
  PROVE  \A u : save = [pc |-> "stored", upload |-> u] <=> save.pc = "stored" /\ save.upload = u
BY DEF SaveType

\* A step of the photo's half leaves the workers alone.
LEMMA PhotoStep ==
  ASSUME ServicesIInv, UNCHANGED staffVars,
         photoKey' \in Photos, media' \subseteq Uploads, orphans' \subseteq Uploads, lost' \subseteq Uploads,
         saving' \in [Edits -> SaveType], deletes' \in [1 .. MaxDeletes -> DeleteType],
         PhotoIsThere', SavesOK', DeletesOK',
         \A u \in media' \ orphans' :
           \/ u = photoKey'
           \/ \E s \in Edits : saving'[s].pc = "stored" /\ saving'[s].upload = u
           \/ \E j \in 1 .. MaxDeletes : deletes'[j].upload = u /\ deletes'[j].pc \in {"queued", "deleting"}
  PROVE  ServicesIInv'
<1>1. ServicesTypeOK'
  BY DEF ServicesIInv, ServicesInv, ServicesTypeOK, SaveType, DeleteType, staffVars
<1>2. StoredHasAKeeper'
  BY StoredRecord DEF StoredHasAKeeper
<1>3. PerformersAreMembers' /\ AssigningOK'
  BY DEF ServicesIInv, ServicesInv, PerformersAreMembers, AssigningOK, staffVars
<1> QED
  BY <1>1, <1>2, <1>3 DEF ServicesIInv, ServicesInv

\* What keeps, or will delete, a stored photo that no failure left behind.
LEMMA Keepers ==
  ASSUME ServicesIInv
  PROVE  \A u \in media \ orphans :
           \/ u = photoKey
           \/ \E s \in Edits : saving[s].pc = "stored" /\ saving[s].upload = u
           \/ \E j \in 1 .. MaxDeletes : deletes[j].upload = u /\ deletes[j].pc \in {"queued", "deleting"}
<1> SUFFICES ASSUME NEW u \in media \ orphans
             PROVE  \/ u = photoKey
                    \/ \E s \in Edits : saving[s].pc = "stored" /\ saving[s].upload = u
                    \/ \E j \in 1 .. MaxDeletes : deletes[j].upload = u /\ deletes[j].pc \in {"queued", "deleting"}
  OBVIOUS
<1>1. \/ u = photoKey
      \/ \E s \in Edits : saving[s] = [pc |-> "stored", upload |-> u]
      \/ \E j \in 1 .. MaxDeletes : deletes[j].upload = u /\ deletes[j].pc \in {"queued", "deleting"}
  BY DEF ServicesIInv, ServicesInv, StoredHasAKeeper
<1>2. ASSUME NEW s \in Edits, saving[s] = [pc |-> "stored", upload |-> u]
      PROVE  saving[s].pc = "stored" /\ saving[s].upload = u
  BY <1>2
<1> QED
  BY <1>1, <1>2

-----------------------------------------------------------------------------
(* Services: the steps *)

\* BeginSave keeps the invariant.
LEMMA BeginSaveOK ==
  ASSUME ServicesIInv, NEW s \in Edits, NEW upload \in Photos, BeginSave(s, upload)
  PROVE  ServicesIInv'
<1> DEFINE new == [pc |-> IF upload = NoPhoto THEN "stored" ELSE "checked", upload |-> upload]
<1>1. /\ saving[s].pc = "idle" /\ saving' = [saving EXCEPT ![s] = new]
      /\ UNCHANGED <<photoKey, media, deletes, orphans, lost>> /\ UNCHANGED staffVars
  BY DEF BeginSave
<1>2. /\ new \in SaveType /\ new.upload = upload /\ (new.pc = "stored" => upload \notin Uploads)
      /\ (new.pc = "checked" => upload \in Uploads)
  BY ServicesAssumption DEF SaveType, Photos
<1> HIDE DEF new
<1>3. /\ saving' \in [Edits -> SaveType] /\ saving'[s] = new
      /\ \A r \in Edits : r # s => saving'[r] = saving[r]
  BY <1>1, <1>2, ServicesFacts
<1>4. PhotoIsThere' /\ DeletesOK'
  BY <1>1 DEF ServicesIInv, ServicesInv, PhotoIsThere, DeletesOK
<1>5. SavesOK'
  BY <1>1, <1>2, <1>3 DEF ServicesIInv, SavesOK
<1>6. \A u \in media' \ orphans' :
           \/ u = photoKey'
           \/ \E r \in Edits : saving'[r].pc = "stored" /\ saving'[r].upload = u
           \/ \E j \in 1 .. MaxDeletes : deletes'[j].upload = u /\ deletes'[j].pc \in {"queued", "deleting"}
  BY <1>1, <1>3, Keepers
<1> QED
  BY <1>1, <1>3, <1>4, <1>5, <1>6, ServicesFacts, PhotoStep

\* StorePhoto keeps the invariant.
LEMMA StorePhotoOK ==
  ASSUME ServicesIInv, NEW s \in Edits, StorePhoto(s)
  PROVE  ServicesIInv'
<1> DEFINE upload == saving[s].upload
           new == [saving[s] EXCEPT !.pc = "stored"]
<1>1. /\ saving[s].pc = "checked" /\ saving' = [saving EXCEPT ![s] = new]
      /\ media' = media \cup {upload} /\ lost' = lost \ {upload}
      /\ UNCHANGED <<photoKey, deletes, orphans>> /\ UNCHANGED staffVars
  BY DEF StorePhoto
<1>2. upload \in Uploads
  BY <1>1 DEF ServicesIInv, SavesOK
<1>3. new \in SaveType /\ new.upload = upload /\ new.pc = "stored"
  BY ServicesFacts DEF SaveType
<1> HIDE DEF new
<1>4. /\ saving' \in [Edits -> SaveType] /\ saving'[s] = new
      /\ \A r \in Edits : r # s => saving'[r] = saving[r]
  BY <1>1, <1>3, ServicesFacts
<1>5. PhotoIsThere' /\ DeletesOK'
  BY <1>1 DEF ServicesIInv, ServicesInv, PhotoIsThere, DeletesOK
<1>6. SavesOK'
  BY <1>1, <1>2, <1>3, <1>4 DEF ServicesIInv, SavesOK
<1>7. \A u \in media' \ orphans' :
           \/ u = photoKey'
           \/ \E r \in Edits : saving'[r].pc = "stored" /\ saving'[r].upload = u
           \/ \E j \in 1 .. MaxDeletes : deletes'[j].upload = u /\ deletes'[j].pc \in {"queued", "deleting"}
  BY <1>1, <1>3, <1>4, Keepers
<1>8. media' \subseteq Uploads /\ lost' \subseteq Uploads
  BY <1>1, <1>2, ServicesFacts
<1> QED
  BY <1>1, <1>4, <1>5, <1>6, <1>7, <1>8, ServicesFacts, PhotoStep

\* A Save that ends leaves the others.
LEMMA SaveEnds ==
  ASSUME ServicesIInv, NEW s \in Edits, saving' = [saving EXCEPT ![s] = IdleEdit]
  PROVE  /\ saving' \in [Edits -> SaveType] /\ saving'[s].pc = "idle"
         /\ \A r \in Edits : r # s => saving'[r] = saving[r]
<1>1. IdleEdit \in SaveType /\ IdleEdit.pc = "idle"
  BY DEF IdleEdit, SaveType, Photos
<1> QED
  BY <1>1, ServicesFacts

\* FailSave keeps the invariant.
LEMMA FailSaveOK ==
  ASSUME ServicesIInv, NEW s \in Edits, FailSave(s)
  PROVE  ServicesIInv'
<1> DEFINE upload == saving[s].upload
<1>1. /\ saving' = [saving EXCEPT ![s] = IdleEdit]
      /\ orphans' = IF saving[s].pc = "stored" THEN orphans \cup ({upload} \cap Uploads) ELSE orphans
      /\ UNCHANGED <<photoKey, media, deletes, lost>> /\ UNCHANGED staffVars
  BY DEF FailSave
<1>2. /\ saving' \in [Edits -> SaveType] /\ saving'[s].pc = "idle"
      /\ \A r \in Edits : r # s => saving'[r] = saving[r]
  BY <1>1, SaveEnds
<1>3. PhotoIsThere' /\ DeletesOK'
  BY <1>1 DEF ServicesIInv, ServicesInv, PhotoIsThere, DeletesOK
<1>4. SavesOK'
  BY <1>1, <1>2 DEF ServicesIInv, SavesOK
<1>5. /\ orphans' \subseteq Uploads /\ orphans \subseteq orphans'
      /\ saving[s].pc = "stored" /\ upload \in Uploads => upload \in orphans'
  BY <1>1, ServicesFacts
<1>6. \A u \in media' \ orphans' :
           \/ u = photoKey'
           \/ \E r \in Edits : saving'[r].pc = "stored" /\ saving'[r].upload = u
           \/ \E j \in 1 .. MaxDeletes : deletes'[j].upload = u /\ deletes'[j].pc \in {"queued", "deleting"}
  BY <1>1, <1>2, <1>5, Keepers, ServicesFacts
<1> QED
  BY <1>1, <1>2, <1>3, <1>4, <1>5, <1>6, ServicesFacts, PhotoStep

\* A delete job whose state a step writes.
LEMMA DeleteWritten ==
  ASSUME ServicesIInv, NEW j \in 1 .. MaxDeletes, NEW new \in DeleteType, deletes' = [deletes EXCEPT ![j] = new],
         new.pc \in {"queued", "deleting"} => new.upload \in Uploads /\ ~ new.linked
  PROVE  /\ deletes' \in [1 .. MaxDeletes -> DeleteType] /\ deletes'[j] = new
         /\ \A i \in 1 .. MaxDeletes : i # j => deletes'[i] = deletes[i]
         /\ DeletesOK'
<1>1. /\ deletes' \in [1 .. MaxDeletes -> DeleteType] /\ deletes'[j] = new
      /\ \A i \in 1 .. MaxDeletes : i # j => deletes'[i] = deletes[i]
  BY ServicesFacts
<1> QED
  BY <1>1 DEF ServicesIInv, DeletesOK

\* CommitSave keeps the invariant.
LEMMA CommitSaveOK ==
  ASSUME ServicesIInv, NEW s \in Edits, CommitSave(s)
  PROVE  ServicesIInv'
<1> DEFINE upload == saving[s].upload
<1>1. /\ saving[s].pc = "stored" /\ photoKey' = upload /\ saving' = [saving EXCEPT ![s] = IdleEdit]
      /\ UNCHANGED <<media, orphans, lost>> /\ UNCHANGED staffVars
  BY DEF CommitSave
<1>2. /\ saving' \in [Edits -> SaveType] /\ saving'[s].pc = "idle"
      /\ \A r \in Edits : r # s => saving'[r] = saving[r]
  BY <1>1, SaveEnds
<1>3. PhotoIsThere' /\ SavesOK' /\ photoKey' \in Photos
  BY <1>1, <1>2, ServicesFacts DEF ServicesIInv, ServicesInv, PhotoIsThere, SavesOK
<1>4. CASE photoKey \in {NoPhoto, upload}
  <2>1. deletes' = deletes
    BY <1>4 DEF CommitSave
  <2>2. DeletesOK'
    BY <2>1 DEF ServicesIInv, DeletesOK
  <2>3. \A u \in media' \ orphans' :
           \/ u = photoKey'
           \/ \E r \in Edits : saving'[r].pc = "stored" /\ saving'[r].upload = u
           \/ \E j \in 1 .. MaxDeletes : deletes'[j].upload = u /\ deletes'[j].pc \in {"queued", "deleting"}
    BY <1>1, <1>2, <1>4, <2>1, Keepers, ServicesFacts
  <2> QED
    BY <1>1, <1>2, <1>3, <2>1, <2>2, <2>3, ServicesFacts, PhotoStep
<1>5. CASE photoKey \notin {NoPhoto, upload}
  <2> DEFINE new == [NoDelete EXCEPT !.pc = "queued", !.upload = photoKey]
  <2>1. PICK j \in 1 .. MaxDeletes : deletes[j].pc = "none" /\ deletes' = [deletes EXCEPT ![j] = new]
    BY <1>5 DEF CommitSave, QueueDelete
  <2>2. photoKey \in Uploads
    BY <1>5, ServicesFacts DEF Photos
  <2>3. new \in DeleteType /\ new.pc = "queued" /\ new.upload = photoKey /\ new.linked = FALSE
    BY <2>2 DEF NoDelete, DeleteType, Photos
  <2> HIDE DEF new
  <2>4. /\ deletes' \in [1 .. MaxDeletes -> DeleteType] /\ deletes'[j] = new
        /\ \A i \in 1 .. MaxDeletes : i # j => deletes'[i] = deletes[i]
        /\ DeletesOK'
    BY <2>1, <2>2, <2>3, DeleteWritten
  <2>5. \A u \in media' \ orphans' :
           \/ u = photoKey'
           \/ \E r \in Edits : saving'[r].pc = "stored" /\ saving'[r].upload = u
           \/ \E i \in 1 .. MaxDeletes : deletes'[i].upload = u /\ deletes'[i].pc \in {"queued", "deleting"}
    BY <1>1, <1>2, <2>1, <2>3, <2>4, Keepers
  <2> QED
    BY <1>1, <1>2, <1>3, <2>4, <2>5, ServicesFacts, PhotoStep
<1> QED
  BY <1>4, <1>5

\* A step of media.delete leaves the Saves as they are: what is left to show of it.
LEMMA DeleteStep ==
  ASSUME ServicesIInv, UNCHANGED <<photoKey, saving>>, UNCHANGED staffVars,
         media' \subseteq media, orphans' \subseteq Uploads, lost \subseteq lost', lost' \subseteq Uploads,
         deletes' \in [1 .. MaxDeletes -> DeleteType], DeletesOK',
         \A u \in media \ media' :
           /\ photoKey = u => u \in lost'
           /\ \A s \in Edits : saving[s].pc = "stored" /\ saving[s].upload = u => u \in lost',
         \A u \in media' \ orphans' :
           \/ u \in media \ orphans /\ (\A j \in 1 .. MaxDeletes :
                deletes[j].upload = u /\ deletes[j].pc \in {"queued", "deleting"} =>
                  deletes'[j].upload = u /\ deletes'[j].pc \in {"queued", "deleting"})
           \/ u = photoKey
  PROVE  ServicesIInv'
<1>1. PhotoIsThere' /\ SavesOK'
  BY ServicesFacts DEF ServicesIInv, ServicesInv, PhotoIsThere, SavesOK
<1>2. \A u \in media' \ orphans' :
           \/ u = photoKey'
           \/ \E r \in Edits : saving'[r].pc = "stored" /\ saving'[r].upload = u
           \/ \E i \in 1 .. MaxDeletes : deletes'[i].upload = u /\ deletes'[i].pc \in {"queued", "deleting"}
  BY Keepers
<1>3. media' \subseteq Uploads /\ photoKey' \in Photos /\ saving' \in [Edits -> SaveType]
  BY ServicesFacts
<1> QED
  BY <1>1, <1>2, <1>3, PhotoStep

\* LookBeforeDelete keeps the invariant.
LEMMA LookBeforeDeleteOK ==
  ASSUME ServicesIInv, NEW j \in 1 .. MaxDeletes, LookBeforeDelete(j)
  PROVE  ServicesIInv'
<1> DEFINE job == deletes[j]
           new == [job EXCEPT !.pc = IF photoKey = job.upload THEN "done" ELSE "deleting",
                              !.linked = (photoKey = job.upload)]
<1>1. /\ job.pc = "queued" /\ deletes' = [deletes EXCEPT ![j] = new]
      /\ UNCHANGED <<photoKey, media, saving, orphans, lost>> /\ UNCHANGED staffVars
  BY ServicesFacts DEF LookBeforeDelete, InUse, DeleteType
<1>2. job.upload \in Uploads /\ job \in DeleteType
  BY <1>1, ServicesFacts DEF ServicesIInv, DeletesOK
<1>3. /\ new \in DeleteType /\ new.upload = job.upload
      /\ new.pc \in {"queued", "deleting"} => new.upload \in Uploads /\ ~ new.linked
      /\ photoKey = job.upload \/ new.pc = "deleting"
  BY <1>2 DEF DeleteType
<1> HIDE DEF new
<1>4. /\ deletes' \in [1 .. MaxDeletes -> DeleteType] /\ deletes'[j] = new
      /\ \A i \in 1 .. MaxDeletes : i # j => deletes'[i] = deletes[i]
      /\ DeletesOK'
  BY <1>1, <1>3, DeleteWritten
<1>5. \A u \in media' \ orphans' :
        \/ u \in media \ orphans /\ (\A i \in 1 .. MaxDeletes :
             deletes[i].upload = u /\ deletes[i].pc \in {"queued", "deleting"} =>
               deletes'[i].upload = u /\ deletes'[i].pc \in {"queued", "deleting"})
        \/ u = photoKey
  BY <1>1, <1>3, <1>4
<1> QED
  BY <1>1, <1>4, <1>5, ServicesFacts, DeleteStep

\* Deleting from an upload whose job has looked: a photo in use at that moment is noted as lost.
LEMMA GoneFacts ==
  ASSUME ServicesIInv, NEW j \in 1 .. MaxDeletes, deletes[j].pc = "deleting", Gone(j)
  PROVE  /\ media' \subseteq media /\ lost \subseteq lost' /\ lost' \subseteq Uploads
         /\ \A u \in media \ media' :
              /\ photoKey = u => u \in lost'
              /\ \A s \in Edits : saving[s].pc = "stored" /\ saving[s].upload = u => u \in lost'
<1> DEFINE job == deletes[j]
<1>1. job.upload \in Uploads /\ ~ job.linked
  BY ServicesFacts DEF ServicesIInv, DeletesOK
<1>2. /\ lost \subseteq lost' /\ lost' \subseteq Uploads
      /\ photoKey = job.upload \/ (\E s \in Edits : saving[s] = [pc |-> "stored", upload |-> job.upload]) =>
           job.upload \in lost'
  BY <1>1, ServicesFacts DEF Gone
<1>3. \A s \in Edits : saving[s].pc = "stored" /\ saving[s].upload = job.upload => job.upload \in lost'
  BY <1>2, ServicesFacts, StoredRecord
<1>4. media' \subseteq media /\ \A u \in media \ media' : u = job.upload
  BY DEF Gone
<1> QED
  BY <1>2, <1>3, <1>4

\* DeleteMedia keeps the invariant.
LEMMA DeleteMediaOK ==
  ASSUME ServicesIInv, NEW j \in 1 .. MaxDeletes, DeleteMedia(j)
  PROVE  ServicesIInv'
<1> DEFINE job == deletes[j]
           new == [job EXCEPT !.pc = "done"]
<1>1. /\ job.pc = "deleting" /\ deletes' = [deletes EXCEPT ![j] = new]
      /\ media' = media \ {job.upload} /\ orphans' = orphans \ {job.upload}
      /\ UNCHANGED <<photoKey, saving>> /\ UNCHANGED staffVars
  BY DEF DeleteMedia, Gone
<1>2. job.upload \in Uploads /\ ~ job.linked /\ job \in DeleteType
  BY <1>1, ServicesFacts DEF ServicesIInv, DeletesOK
<1>3. new \in DeleteType /\ new.upload = job.upload /\ new.pc = "done"
  BY <1>2 DEF DeleteType
<1> HIDE DEF new
<1>4. /\ deletes' \in [1 .. MaxDeletes -> DeleteType] /\ deletes'[j] = new
      /\ \A i \in 1 .. MaxDeletes : i # j => deletes'[i] = deletes[i]
      /\ DeletesOK'
  BY <1>1, <1>3, DeleteWritten
<1>5. /\ media' \subseteq media /\ lost \subseteq lost' /\ lost' \subseteq Uploads
      /\ \A u \in media \ media' :
           /\ photoKey = u => u \in lost'
           /\ \A s \in Edits : saving[s].pc = "stored" /\ saving[s].upload = u => u \in lost'
  BY <1>1, GoneFacts DEF DeleteMedia
<1>6. \A u \in media' \ orphans' : u \in media \ orphans /\ u # job.upload
  BY <1>1
<1>7. \A u \in media' \ orphans' :
        \/ u \in media \ orphans /\ (\A i \in 1 .. MaxDeletes :
             deletes[i].upload = u /\ deletes[i].pc \in {"queued", "deleting"} =>
               deletes'[i].upload = u /\ deletes'[i].pc \in {"queued", "deleting"})
        \/ u = photoKey
  BY <1>4, <1>6
<1>8. orphans' \subseteq Uploads
  BY <1>1, ServicesFacts
<1> QED
  BY <1>1, <1>4, <1>5, <1>7, <1>8, DeleteStep

\* FailDelete keeps the invariant.
LEMMA FailDeleteOK ==
  ASSUME ServicesIInv, NEW j \in 1 .. MaxDeletes, NEW pc \in {"queued", "done"}, NEW partly \in BOOLEAN,
         FailDelete(j, pc, partly)
  PROVE  ServicesIInv'
<1> DEFINE job == deletes[j]
           new == [job EXCEPT !.pc = pc]
<1>1. /\ job.pc = "deleting" /\ deletes' = [deletes EXCEPT ![j] = new]
      /\ orphans' = IF pc = "done" THEN orphans \cup {job.upload} ELSE orphans
      /\ UNCHANGED <<photoKey, saving>> /\ UNCHANGED staffVars
  BY DEF FailDelete
<1>2. job.upload \in Uploads /\ ~ job.linked /\ job \in DeleteType
  BY <1>1, ServicesFacts DEF ServicesIInv, DeletesOK
<1>3. new \in DeleteType /\ new.upload = job.upload /\ new.pc = pc /\ new.linked = job.linked
  BY <1>2 DEF DeleteType
<1> HIDE DEF new
<1>4. /\ deletes' \in [1 .. MaxDeletes -> DeleteType] /\ deletes'[j] = new
      /\ \A i \in 1 .. MaxDeletes : i # j => deletes'[i] = deletes[i]
      /\ DeletesOK'
  BY <1>1, <1>2, <1>3, DeleteWritten
<1>5. /\ media' \subseteq media /\ lost \subseteq lost' /\ lost' \subseteq Uploads
      /\ \A u \in media \ media' :
           /\ photoKey = u => u \in lost'
           /\ \A s \in Edits : saving[s].pc = "stored" /\ saving[s].upload = u => u \in lost'
  <2>1. CASE partly
    BY <2>1, <1>1, GoneFacts DEF FailDelete
  <2>2. CASE ~ partly
    BY <2>2, ServicesFacts DEF FailDelete
  <2> QED
    BY <2>1, <2>2
<1>6. orphans' \subseteq Uploads /\ \A u \in media' \ orphans' : u \in media \ orphans /\ (u = job.upload => pc = "queued")
  BY <1>1, <1>2, <1>5, ServicesFacts
<1>7. \A u \in media' \ orphans' :
        \/ u \in media \ orphans /\ (\A i \in 1 .. MaxDeletes :
             deletes[i].upload = u /\ deletes[i].pc \in {"queued", "deleting"} =>
               deletes'[i].upload = u /\ deletes'[i].pc \in {"queued", "deleting"})
        \/ u = photoKey
  BY <1>3, <1>4, <1>6
<1> QED
  BY <1>1, <1>4, <1>5, <1>6, <1>7, DeleteStep

\* A step of the workers' half leaves the photo alone.
LEMMA StaffStep ==
  ASSUME ServicesIInv, UNCHANGED photoVars,
         performers' \subseteq roster', roster' \subseteq Workers,
         assigning' \in [on : BOOLEAN, ids : SUBSET Workers], assigning'.on => assigning'.ids \subseteq roster'
  PROVE  ServicesIInv'
<1>1. ServicesTypeOK' /\ PerformersAreMembers' /\ AssigningOK'
  BY DEF ServicesIInv, ServicesInv, ServicesTypeOK, PerformersAreMembers, AssigningOK, photoVars
<1>2. PhotoIsThere' /\ StoredHasAKeeper' /\ SavesOK' /\ DeletesOK'
  BY DEF ServicesIInv, ServicesInv, PhotoIsThere, StoredHasAKeeper, SavesOK, DeletesOK, photoVars
<1> QED
  BY <1>1, <1>2 DEF ServicesIInv, ServicesInv

\* Assigning, removing and taking back members keeps the invariant.
LEMMA StaffOK ==
  ASSUME ServicesIInv,
         \/ \E ids \in SUBSET Workers : LockMembers(ids)
         \/ AssignWorkers
         \/ \E m \in Workers : RemoveWorker(m) \/ RejoinWorker(m)
  PROVE  ServicesIInv'
<1>1. /\ performers \subseteq roster /\ roster \subseteq Workers
      /\ assigning \in [on : BOOLEAN, ids : SUBSET Workers] /\ (assigning.on => assigning.ids \subseteq roster)
  BY DEF ServicesIInv, ServicesInv, ServicesTypeOK, PerformersAreMembers, AssigningOK
<1>2. ASSUME NEW ids \in SUBSET Workers, LockMembers(ids)
      PROVE  ServicesIInv'
  BY <1>1, <1>2, StaffStep DEF LockMembers
<1>3. ASSUME AssignWorkers
      PROVE  ServicesIInv'
  BY <1>1, <1>3, StaffStep DEF AssignWorkers
<1>4. ASSUME NEW m \in Workers, RemoveWorker(m)
      PROVE  ServicesIInv'
  BY <1>1, <1>4, StaffStep DEF RemoveWorker, RowLocked
<1>5. ASSUME NEW m \in Workers, RejoinWorker(m)
      PROVE  ServicesIInv'
  BY <1>1, <1>5, StaffStep DEF RejoinWorker
<1> QED
  BY <1>2, <1>3, <1>4, <1>5

\* The invariant holds at the start.
LEMMA ServicesStart == ServicesInit => ServicesIInv
<1> SUFFICES ASSUME ServicesInit PROVE ServicesIInv
  OBVIOUS
<1>1. ServicesTypeOK
  BY DEF ServicesInit, ServicesTypeOK, Photos, IdleEdit, NoDelete
<1>2. PhotoIsThere /\ StoredHasAKeeper /\ PerformersAreMembers /\ SavesOK /\ AssigningOK
  BY ServicesAssumption
  DEF ServicesInit, PhotoIsThere, StoredHasAKeeper, PerformersAreMembers, SavesOK, AssigningOK, IdleEdit
<1>3. DeletesOK
  BY DEF ServicesInit, DeletesOK, NoDelete
<1> QED
  BY <1>1, <1>2, <1>3 DEF ServicesIInv, ServicesInv

\* Every step keeps the invariant.
LEMMA ServicesPreserved == ServicesIInv /\ [ServicesNext]_serviceVars => ServicesIInv'
<1> SUFFICES ASSUME ServicesIInv, [ServicesNext]_serviceVars PROVE ServicesIInv'
  OBVIOUS
<1>1. CASE UNCHANGED serviceVars
  <2>1. UNCHANGED photoVars /\ UNCHANGED staffVars
    BY <1>1 DEF serviceVars, photoVars, staffVars
  <2>2. /\ performers' \subseteq roster' /\ roster' \subseteq Workers
        /\ assigning' \in [on : BOOLEAN, ids : SUBSET Workers] /\ (assigning'.on => assigning'.ids \subseteq roster')
    BY <2>1 DEF ServicesIInv, ServicesInv, ServicesTypeOK, PerformersAreMembers, AssigningOK, staffVars
  <2> QED
    BY <2>1, <2>2, StaffStep
<1>2. ASSUME NEW s \in Edits,
             StorePhoto(s) \/ FailSave(s) \/ CommitSave(s) \/ \E u \in Photos : BeginSave(s, u)
      PROVE  ServicesIInv'
  BY <1>2, StorePhotoOK, FailSaveOK, CommitSaveOK, BeginSaveOK
<1>3. ASSUME NEW j \in 1 .. MaxDeletes,
             LookBeforeDelete(j) \/ DeleteMedia(j) \/
             \E pc \in {"queued", "done"}, partly \in BOOLEAN : FailDelete(j, pc, partly)
      PROVE  ServicesIInv'
  BY <1>3, LookBeforeDeleteOK, DeleteMediaOK, FailDeleteOK
<1> QED
  BY <1>1, <1>2, <1>3, StaffOK DEF ServicesNext

\* However Saves of the same upload, their failures and the delete jobs follow each other
\* (services.update_service, photos.finalize, media_delete): a service's photo is in the bucket unless a
\* delete that had looked earlier took it, every stored photo is used, about to be, about to be deleted or
\* left by a failure, and only current members perform a service (lock_members against members.remove).
THEOREM ServicesSound == ServicesSpec => []ServicesInv
<1>1. ServicesIInv => ServicesInv
  BY DEF ServicesIInv
<1> QED
  BY <1>1, ServicesStart, ServicesPreserved, PTL DEF ServicesSpec

-----------------------------------------------------------------------------
(* Rate limits: the inductive invariant *)

Granted == {"reserved", "placing", "placed"}

\* The requests an attempt counted in the window of k is for, and those about to give theirs back.
Committed(k) == {q \in Requests : requests[q].pc \in Granted /\ requests[q].in[k] = counted[k].start}

Returning(k) ==
  {q \in Requests : requests[q].pc = "giving" /\ k \in requests[q].reserved /\ requests[q].in[k] = counted[k].start}

\* Every one of them is counted, or a stray took its place; the windows only move forward.
KeyOK(k) ==
  /\ Cardinality(Committed(k) \cup Returning(k)) <= counted[k].hits + counted[k].stray
  /\ Cardinality(Committed(k)) <= Limit[k] + counted[k].stray
  /\ counted[k].start = NoWindow - Window \/ counted[k].start \in 0 .. MaxClock
  /\ \A q \in Requests :
       /\ requests[q].in[k] = NoWindow \/ requests[q].in[k] <= counted[k].start
       /\ k \in requests[q].reserved => requests[q].in[k] # NoWindow
       /\ requests[q].pc \in {"new", "hitting"} => requests[q].in[k] = NoWindow

LimitsIInv == LimitsTypeOK /\ SlotsAreCalls /\ \A k \in LimitKeys : KeyOK(k)

Row == [start : NoWindow - Window .. MaxClock, hits : Nat, stray : Nat]

\* The types of the state, of the records in it and of the bounds, for the provers.
LEMMA LimitsFacts ==
  ASSUME LimitsIInv
  PROVE  /\ clock \in 0 .. MaxClock /\ counted \in [LimitKeys -> Row] /\ inFlight \in [Buckets -> Nat]
         /\ requests \in [Requests -> RequestType]
         /\ LimitKeys = Placements \cup {"unproven"}
         /\ \A k \in LimitKeys :
              /\ Limit[k] \in Nat /\ counted[k] \in Row
              /\ counted[k].start \in Int /\ counted[k].hits \in Nat /\ counted[k].stray \in Nat
         /\ \A q \in Requests :
              /\ requests[q] \in RequestType /\ requests[q].host \in Hosts /\ requests[q].now \in 0 .. MaxClock
              /\ requests[q].reserved \in SUBSET LimitKeys
              /\ \A k \in LimitKeys : requests[q].in[k] \in NoWindow .. MaxClock
         /\ NoWindow = -1 /\ NoWindow - Window \in Int /\ Window \in Nat \ {0} /\ MaxClock \in Nat
<1>1. /\ clock \in 0 .. MaxClock /\ counted \in [LimitKeys -> Row] /\ inFlight \in [Buckets -> Nat]
      /\ requests \in [Requests -> RequestType]
  BY DEF LimitsIInv, LimitsTypeOK, Row
<1>2. /\ LimitKeys = Placements \cup {"unproven"} /\ \A k \in LimitKeys : Limit[k] \in Nat
      /\ Window \in Nat \ {0} /\ MaxClock \in Nat
  BY LimitsAssumption DEF LimitKeys
<1>3. NoWindow = -1 /\ NoWindow - Window \in Int
  BY <1>2 DEF NoWindow
<1>4. \A k \in LimitKeys : /\ counted[k] \in Row
                           /\ counted[k].start \in Int /\ counted[k].hits \in Nat /\ counted[k].stray \in Nat
  BY <1>1, <1>2, <1>3 DEF Row
<1>5. \A q \in Requests :
        /\ requests[q] \in RequestType /\ requests[q].host \in Hosts /\ requests[q].now \in 0 .. MaxClock
        /\ requests[q].reserved \in SUBSET LimitKeys
        /\ requests[q].in \in [LimitKeys -> NoWindow .. MaxClock]
  BY <1>1 DEF RequestType
<1> QED
  BY <1>1, <1>2, <1>3, <1>4, <1>5

\* The requests counted in a window are finitely many.
LEMMA GroupsAreFinite ==
  ASSUME NEW k
  PROVE  /\ IsFiniteSet(Committed(k) \cup Returning(k)) /\ IsFiniteSet(Committed(k))
         /\ Cardinality(Committed(k) \cup Returning(k)) \in Nat /\ Cardinality(Committed(k)) \in Nat
         /\ Cardinality(Committed(k)) <= Cardinality(Committed(k) \cup Returning(k))
<1>1. IsFiniteSet(Committed(k) \cup Returning(k))
  <2>1. Committed(k) \cup Returning(k) \subseteq Requests
    BY DEF Committed, Returning
  <2> QED
    BY <2>1, LimitsAssumption, FS_Subset
<1>2. IsFiniteSet(Committed(k)) /\ Cardinality(Committed(k)) <= Cardinality(Committed(k) \cup Returning(k))
  BY <1>1, FS_Subset
<1> QED
  BY <1>1, <1>2, FS_CardinalityType

\* A step that counts nothing for k, and moves no request into its groups.
LEMMA QuietKey ==
  ASSUME LimitsIInv, NEW k \in LimitKeys, counted'[k] = counted[k],
         \A r \in Requests :
           /\ requests'[r].in[k] = requests[r].in[k]
           /\ k \in requests'[r].reserved => k \in requests[r].reserved
           /\ requests'[r].pc \in {"new", "hitting"} => requests[r].pc \in {"new", "hitting"}
           /\ requests'[r].pc \in Granted => requests[r].pc \in Granted \/ requests[r].in[k] = NoWindow
           /\ requests'[r].pc = "giving" =>
                requests[r].pc \in Granted \cup {"giving"} \/ requests[r].in[k] = NoWindow
  PROVE  KeyOK(k)'
<1>1. KeyOK(k) /\ counted[k].start # NoWindow
  <2>1. KeyOK(k)
    BY DEF LimitsIInv
  <2>2. counted[k].start = NoWindow - Window \/ counted[k].start \in 0 .. MaxClock
    BY <2>1 DEF KeyOK
  <2>3. NoWindow = -1 /\ Window \in Nat \ {0}
    BY LimitsFacts
  <2> QED
    BY <2>1, <2>2, <2>3
<1>2. Committed(k)' \subseteq Committed(k)
  BY <1>1 DEF Committed
<1>3. Committed(k)' \cup Returning(k)' \subseteq Committed(k) \cup Returning(k)
  BY <1>1 DEF Committed, Returning
<1>4. /\ Cardinality(Committed(k)') <= Cardinality(Committed(k))
      /\ Cardinality(Committed(k)' \cup Returning(k)') <= Cardinality(Committed(k) \cup Returning(k))
      /\ Cardinality(Committed(k)') \in Nat /\ Cardinality(Committed(k)' \cup Returning(k)') \in Nat
  BY <1>2, <1>3, GroupsAreFinite, FS_Subset, FS_CardinalityType
<1>5. /\ Cardinality(Committed(k)' \cup Returning(k)') <= counted'[k].hits + counted'[k].stray
      /\ Cardinality(Committed(k)') <= Limit[k] + counted'[k].stray
  BY <1>1, <1>4, GroupsAreFinite, LimitsFacts DEF KeyOK
<1>6. /\ counted'[k].start = NoWindow - Window \/ counted'[k].start \in 0 .. MaxClock
      /\ \A r \in Requests :
           /\ requests'[r].in[k] = NoWindow \/ requests'[r].in[k] <= counted'[k].start
           /\ k \in requests'[r].reserved => requests'[r].in[k] # NoWindow
           /\ requests'[r].pc \in {"new", "hitting"} => requests'[r].in[k] = NoWindow
  BY <1>1 DEF KeyOK
<1> QED
  BY <1>5, <1>6 DEF KeyOK

\* HIT: the same window one attempt fuller, or a new one of a later time.
LEMMA HitRow ==
  ASSUME LimitsIInv, NEW k \in LimitKeys, NEW now \in 0 .. MaxClock, NEW row, row = Hit(counted[k], now)
  PROVE  /\ row \in Row /\ row.start \in 0 .. MaxClock
         /\ \/ row.start = counted[k].start /\ row.hits = counted[k].hits + 1 /\ row.stray = counted[k].stray
            \/ row.start > counted[k].start /\ row.hits = 1 /\ row.stray = 0
<1>1. /\ counted[k] \in Row /\ counted[k].start \in Int /\ counted[k].hits \in Nat /\ counted[k].stray \in Nat
      /\ NoWindow = -1 /\ Window \in Nat \ {0} /\ MaxClock \in Nat
  BY LimitsFacts
<1>2. counted[k].start = NoWindow - Window \/ counted[k].start \in 0 .. MaxClock
  BY DEF LimitsIInv, KeyOK
<1>3. CASE Live(counted[k], now)
  <2>1. row = [counted[k] EXCEPT !.hits = counted[k].hits + 1]
    BY <1>3 DEF Hit
  <2>2. counted[k].start > now - Window
    BY <1>3 DEF Live
  <2>3. counted[k].start \in 0 .. MaxClock
    BY <1>1, <1>2, <2>2
  <2>4. counted[k].hits + 1 \in Nat
    BY <1>1
  <2>5. row \in Row /\ row.start = counted[k].start /\ row.hits = counted[k].hits + 1 /\ row.stray = counted[k].stray
    BY <1>1, <2>1, <2>4 DEF Row
  <2> QED
    BY <2>3, <2>5
<1>4. CASE ~ Live(counted[k], now)
  <2>1. row = [start |-> now, hits |-> 1, stray |-> 0]
    BY <1>4 DEF Hit
  <2>2. ~ (counted[k].start > now - Window)
    BY <1>4 DEF Live
  <2>3. now > counted[k].start /\ now \in NoWindow - Window .. MaxClock
    BY <1>1, <2>2
  <2> QED
    BY <2>1, <2>3 DEF Row
<1> QED
  BY <1>3, <1>4

\* One more element makes a finite set at most one larger.
LEMMA OneMore ==
  ASSUME NEW S, IsFiniteSet(S), NEW x
  PROVE  /\ IsFiniteSet(S \cup {x}) /\ Cardinality(S \cup {x}) \in Nat
         /\ Cardinality(S \cup {x}) <= Cardinality(S) + 1
<1>1. /\ IsFiniteSet(S \cup {x})
      /\ Cardinality(S \cup {x}) = IF x \in S THEN Cardinality(S) ELSE Cardinality(S) + 1
  BY FS_AddElement
<1>2. Cardinality(S) \in Nat
  BY FS_CardinalityType
<1> QED
  BY <1>1, <1>2

\* A key charged for q: q is one more of its window, and within the limit unless it gives back.
LEMMA ChargedKey ==
  ASSUME LimitsIInv, NEW k \in LimitKeys, NEW q \in Requests, NEW now \in 0 .. MaxClock,
         counted'[k] = Hit(counted[k], now),
         \A r \in Requests : r # q => requests'[r] = requests[r],
         requests'[q].in[k] = counted'[k].start, requests'[q].pc \in Granted \cup {"giving"},
         requests'[q].pc \in Granted => counted'[k].hits <= Limit[k]
  PROVE  KeyOK(k)'
<1>1. PICK row : row = counted'[k]
  OBVIOUS
<1>2. /\ row \in Row /\ row.start \in 0 .. MaxClock
      /\ \/ row.start = counted[k].start /\ row.hits = counted[k].hits + 1 /\ row.stray = counted[k].stray
         \/ row.start > counted[k].start /\ row.hits = 1 /\ row.stray = 0
  BY <1>1, HitRow
<1>3. row.hits \in Nat /\ row.stray \in Nat /\ Limit[k] \in Nat
  BY <1>2, LimitsFacts DEF Row
<1>4. KeyOK(k)
  BY DEF LimitsIInv
<1>5. /\ IsFiniteSet(Committed(k)' \cup Returning(k)') /\ IsFiniteSet(Committed(k)')
      /\ Cardinality(Committed(k)' \cup Returning(k)') \in Nat /\ Cardinality(Committed(k)') \in Nat
      /\ Cardinality(Committed(k)') <= Cardinality(Committed(k)' \cup Returning(k)')
  <2>1. Committed(k)' \cup Returning(k)' \subseteq Requests
    BY DEF Committed, Returning
  <2> QED
    BY <2>1, LimitsAssumption, FS_Subset, FS_CardinalityType
<1>6. /\ Cardinality(Committed(k)' \cup Returning(k)') <= row.hits + row.stray
      /\ q \notin Committed(k)' => Cardinality(Committed(k)') <= Limit[k] + row.stray
  <2>1. CASE row.start = counted[k].start /\ row.hits = counted[k].hits + 1 /\ row.stray = counted[k].stray
    <3>1. /\ Committed(k)' \cup Returning(k)' \subseteq (Committed(k) \cup Returning(k)) \cup {q}
          /\ q \notin Committed(k)' => Committed(k)' \subseteq Committed(k)
      BY <1>1, <2>1 DEF Committed, Returning
    <3>2. /\ Cardinality((Committed(k) \cup Returning(k)) \cup {q}) <= Cardinality(Committed(k) \cup Returning(k)) + 1
          /\ IsFiniteSet((Committed(k) \cup Returning(k)) \cup {q})
          /\ Cardinality((Committed(k) \cup Returning(k)) \cup {q}) \in Nat
      BY OneMore, GroupsAreFinite
    <3>3. Cardinality(Committed(k)' \cup Returning(k)') <= Cardinality((Committed(k) \cup Returning(k)) \cup {q})
      BY <3>1, <3>2, FS_Subset
    <3>4. q \notin Committed(k)' => Cardinality(Committed(k)') <= Cardinality(Committed(k))
      BY <3>1, GroupsAreFinite, FS_Subset
    <3>5. /\ Cardinality(Committed(k) \cup Returning(k)) <= counted[k].hits + counted[k].stray
          /\ Cardinality(Committed(k)) <= Limit[k] + counted[k].stray
          /\ counted[k].hits \in Nat /\ counted[k].stray \in Nat
      BY <1>4, LimitsFacts DEF KeyOK
    <3> QED
      BY <1>3, <1>5, <2>1, <3>2, <3>3, <3>4, <3>5, GroupsAreFinite
  <2>2. CASE row.start > counted[k].start /\ row.hits = 1 /\ row.stray = 0
    <3>1. \A r \in Requests : r # q => requests'[r].in[k] # row.start
      BY <1>2, <1>4, <2>2, LimitsFacts DEF KeyOK
    <3>2. Committed(k)' \cup Returning(k)' \subseteq {q}
      BY <1>1, <3>1 DEF Committed, Returning
    <3>3. Cardinality({q}) = 1 /\ IsFiniteSet({q})
      BY FS_Singleton
    <3>4. Cardinality(Committed(k)' \cup Returning(k)') <= 1
      BY <3>2, <3>3, FS_Subset
    <3>5. q \notin Committed(k)' => Cardinality(Committed(k)') = 0
      <4>1. q \notin Committed(k)' => Committed(k)' = {}
        BY <3>2
      <4> QED
        BY <4>1, FS_EmptySet
    <3> QED
      BY <1>3, <2>2, <3>4, <3>5
  <2> QED
    BY <1>2, <2>1, <2>2
<1>7. q \in Committed(k)' => row.hits <= Limit[k]
  BY <1>1 DEF Committed
<1>8. Cardinality(Committed(k)') <= Limit[k] + row.stray
  BY <1>3, <1>5, <1>6, <1>7
<1>9. \A r \in Requests :
        /\ requests'[r].in[k] = NoWindow \/ requests'[r].in[k] <= row.start
        /\ k \in requests'[r].reserved => requests'[r].in[k] # NoWindow
        /\ requests'[r].pc \in {"new", "hitting"} => requests'[r].in[k] = NoWindow
  <2>1. ASSUME NEW r \in Requests, r # q
        PROVE  /\ requests'[r].in[k] = NoWindow \/ requests'[r].in[k] <= row.start
               /\ k \in requests'[r].reserved => requests'[r].in[k] # NoWindow
               /\ requests'[r].pc \in {"new", "hitting"} => requests'[r].in[k] = NoWindow
    BY <1>2, <1>4, <2>1, LimitsFacts DEF KeyOK
  <2>2. /\ requests'[q].in[k] = NoWindow \/ requests'[q].in[k] <= row.start
        /\ k \in requests'[q].reserved => requests'[q].in[k] # NoWindow
        /\ requests'[q].pc \in {"new", "hitting"} => requests'[q].in[k] = NoWindow
    BY <1>1, <1>2 DEF NoWindow, Granted
  <2> QED
    BY <2>1, <2>2
<1> QED
  BY <1>1, <1>2, <1>6, <1>8, <1>9 DEF KeyOK

\* REFUND of a charge q still had: of its own window, or of an earlier one and so a stray.
LEMMA RefundedKey ==
  ASSUME LimitsIInv, NEW k \in LimitKeys, NEW q \in Requests, requests[q].pc = "giving",
         counted'[k] = IF k \in requests[q].reserved THEN Refund(counted[k], q, k) ELSE counted[k],
         \A r \in Requests : r # q => requests'[r] = requests[r],
         requests'[q].in[k] = requests[q].in[k], requests'[q].reserved = {}, requests'[q].pc = "refused"
  PROVE  KeyOK(k)' /\ counted'[k] \in Row
<1>1. CASE counted'[k] = counted[k]
  <2>1. KeyOK(k)'
    BY <1>1, QuietKey DEF Granted
  <2> QED
    BY <1>1, <2>1, LimitsFacts
<1>2. CASE counted'[k] # counted[k]
  <2> DEFINE own == requests[q].in[k] = counted[k].start
             stray == IF own THEN counted[k].stray ELSE counted[k].stray + 1
             row == [counted[k] EXCEPT !.hits = counted[k].hits - 1, !.stray = stray]
  <2>1. k \in requests[q].reserved /\ KeyOK(k)
    BY <1>2 DEF LimitsIInv
  <2>2. requests[q].in[k] # NoWindow
    BY <2>1 DEF KeyOK
  <2>3. counted[k].hits > 0 /\ counted'[k] = row
    BY <1>2, <2>1, <2>2 DEF Refund
  <2>4. counted[k] \in Row /\ counted[k].hits - 1 \in Nat /\ counted[k].stray \in Nat /\ stray \in Nat
    BY <2>3, LimitsFacts
  <2> HIDE DEF stray
  <2>5. /\ row \in Row /\ row.start = counted[k].start /\ row.hits = counted[k].hits - 1
        /\ row.stray = stray
    BY <2>4 DEF Row
  <2> HIDE DEF row
  <2>6. /\ Committed(k)' = Committed(k)
        /\ Returning(k)' = Returning(k) \ {q} /\ q \notin Committed(k) /\ (own => q \in Returning(k))
    BY <2>1, <2>3, <2>5 DEF Committed, Returning, Granted
  <2>7. IsFiniteSet(Committed(k) \cup Returning(k)) /\ Cardinality(Committed(k) \cup Returning(k)) \in Nat
        /\ Cardinality(Committed(k)) \in Nat
    BY GroupsAreFinite
  <2>8. CASE own
    <3>1. Committed(k)' \cup Returning(k)' = (Committed(k) \cup Returning(k)) \ {q} /\ q \in Committed(k) \cup Returning(k)
      BY <2>6, <2>8
    <3>2. Cardinality((Committed(k) \cup Returning(k)) \ {q}) = Cardinality(Committed(k) \cup Returning(k)) - 1
      BY <2>7, <3>1, FS_RemoveElement
    <3>3. /\ Cardinality(Committed(k)' \cup Returning(k)') <= counted'[k].hits + counted'[k].stray
          /\ Cardinality(Committed(k)') <= Limit[k] + counted'[k].stray
      <4>1. /\ Cardinality(Committed(k) \cup Returning(k)) <= counted[k].hits + counted[k].stray
            /\ Cardinality(Committed(k)) <= Limit[k] + counted[k].stray
        BY <2>1 DEF KeyOK
      <4>2. counted'[k].hits = counted[k].hits - 1 /\ counted'[k].stray = counted[k].stray
        BY <2>3, <2>5, <2>8 DEF stray
      <4>3. counted[k].hits \in Nat /\ counted[k].stray \in Nat
        BY LimitsFacts
      <4>4. /\ Cardinality(Committed(k)' \cup Returning(k)') = Cardinality(Committed(k) \cup Returning(k)) - 1
            /\ Cardinality(Committed(k)') = Cardinality(Committed(k))
        BY <2>6, <3>1, <3>2
      <4> QED
        BY <2>7, <4>1, <4>2, <4>3, <4>4
    <3>4. /\ counted'[k].start = NoWindow - Window \/ counted'[k].start \in 0 .. MaxClock
          /\ \A r \in Requests :
               /\ requests'[r].in[k] = NoWindow \/ requests'[r].in[k] <= counted'[k].start
               /\ k \in requests'[r].reserved => requests'[r].in[k] # NoWindow
               /\ requests'[r].pc \in {"new", "hitting"} => requests'[r].in[k] = NoWindow
      BY <2>1, <2>3, <2>5 DEF KeyOK
    <3> QED
      BY <2>3, <2>5, <3>3, <3>4 DEF KeyOK
  <2>9. CASE ~ own
    <3>1. Committed(k)' \cup Returning(k)' \subseteq Committed(k) \cup Returning(k)
      BY <2>6
    <3>2. Cardinality(Committed(k)' \cup Returning(k)') <= Cardinality(Committed(k) \cup Returning(k))
          /\ Cardinality(Committed(k)' \cup Returning(k)') \in Nat
      BY <2>7, <3>1, FS_Subset, FS_CardinalityType
    <3>3. /\ Cardinality(Committed(k)' \cup Returning(k)') <= counted'[k].hits + counted'[k].stray
          /\ Cardinality(Committed(k)') <= Limit[k] + counted'[k].stray
      <4>1. /\ Cardinality(Committed(k) \cup Returning(k)) <= counted[k].hits + counted[k].stray
            /\ Cardinality(Committed(k)) <= Limit[k] + counted[k].stray
        BY <2>1 DEF KeyOK
      <4>2. counted'[k].hits = counted[k].hits - 1 /\ counted'[k].stray = counted[k].stray + 1
        BY <2>3, <2>5, <2>9 DEF stray
      <4>3. counted[k].hits \in Nat /\ counted[k].stray \in Nat /\ Limit[k] \in Nat
        BY LimitsFacts
      <4> QED
        BY <2>6, <2>7, <3>2, <4>1, <4>2, <4>3
    <3>4. /\ counted'[k].start = NoWindow - Window \/ counted'[k].start \in 0 .. MaxClock
          /\ \A r \in Requests :
               /\ requests'[r].in[k] = NoWindow \/ requests'[r].in[k] <= counted'[k].start
               /\ k \in requests'[r].reserved => requests'[r].in[k] # NoWindow
               /\ requests'[r].pc \in {"new", "hitting"} => requests'[r].in[k] = NoWindow
      BY <2>1, <2>3, <2>5 DEF KeyOK
    <3> QED
      BY <2>3, <2>5, <3>3, <3>4 DEF KeyOK
  <2> QED
    BY <2>8, <2>9
<1> QED
  BY <1>1, <1>2

\* The calls of hit() a bucket's slots are held by.
Calls(b) == {q \in Requests : requests[q].pc = "hitting" /\ b \in BucketsOf(requests[q].host)}

\* A bucket's slots are the calls inside it, and within their limit.
LEMMA SlotsFacts ==
  ASSUME LimitsIInv, NEW b \in Buckets
  PROVE  /\ IsFiniteSet(Calls(b)) /\ Cardinality(Calls(b)) \in Nat
         /\ inFlight[b] \in Nat /\ inFlight[b] = Cardinality(Calls(b))
         /\ inFlight[b] <= IF b = "network" THEN MAX_IN_FLIGHT_PER_48 ELSE MAX_IN_FLIGHT
         /\ MAX_IN_FLIGHT \in Nat \ {0} /\ MAX_IN_FLIGHT_PER_48 \in Nat \ {0}
<1>1. Calls(b) \subseteq Requests
  BY DEF Calls
<1>2. IsFiniteSet(Calls(b)) /\ Cardinality(Calls(b)) \in Nat
  BY <1>1, LimitsAssumption, FS_Subset, FS_CardinalityType
<1>3. inFlight[b] \in Nat
  BY LimitsFacts
<1>4. /\ inFlight[b] = Cardinality(Calls(b))
      /\ inFlight[b] <= IF b = "network" THEN MAX_IN_FLIGHT_PER_48 ELSE MAX_IN_FLIGHT
  BY DEF LimitsIInv, SlotsAreCalls, Calls
<1> QED
  BY <1>2, <1>3, <1>4, LimitsAssumption

\* A step that begins and ends no call.
LEMMA SlotsKept ==
  ASSUME LimitsIInv, UNCHANGED inFlight,
         \A r \in Requests : /\ requests'[r].host = requests[r].host
                             /\ requests'[r].pc = "hitting" <=> requests[r].pc = "hitting"
  PROVE  SlotsAreCalls'
<1> SUFFICES ASSUME NEW b \in Buckets
             PROVE  /\ inFlight'[b] = Cardinality(Calls(b)')
                    /\ inFlight'[b] <= IF b = "network" THEN MAX_IN_FLIGHT_PER_48 ELSE MAX_IN_FLIGHT
  BY DEF SlotsAreCalls, Calls
<1>1. Calls(b)' = Calls(b)
  BY DEF Calls
<1> QED
  BY <1>1, SlotsFacts

\* _slot is taken as a call begins, below the caps.
LEMMA SlotTaken ==
  ASSUME LimitsIInv, NEW q \in Requests, requests[q].pc = "new", ~ Full(requests[q].host),
         Take(requests[q].host), requests'[q].pc = "hitting", requests'[q].host = requests[q].host,
         \A r \in Requests : r # q => requests'[r] = requests[r]
  PROVE  SlotsAreCalls' /\ inFlight' \in [Buckets -> Nat]
<1> DEFINE host == requests[q].host
<1>1. host \in Hosts /\ host \in Buckets /\ "network" \in Buckets
  BY LimitsFacts DEF Buckets
<1>2. \A b \in Buckets : inFlight'[b] = inFlight[b] + IF b \in BucketsOf(host) THEN 1 ELSE 0
  BY DEF Take
<1>3. inFlight' \in [Buckets -> Nat]
  <2>1. \A b \in Buckets : inFlight[b] + (IF b \in BucketsOf(host) THEN 1 ELSE 0) \in Nat
    BY SlotsFacts
  <2> QED
    BY <2>1 DEF Take
<1>4. ASSUME NEW b \in Buckets
      PROVE  /\ inFlight'[b] = Cardinality(Calls(b)')
             /\ inFlight'[b] <= IF b = "network" THEN MAX_IN_FLIGHT_PER_48 ELSE MAX_IN_FLIGHT
  <2>1. CASE b \in BucketsOf(host)
    <3>1. Calls(b)' = Calls(b) \cup {q} /\ q \notin Calls(b)
      BY <2>1 DEF Calls
    <3>2. Cardinality(Calls(b) \cup {q}) = Cardinality(Calls(b)) + 1
      BY <3>1, SlotsFacts, FS_AddElement
    <3>3. inFlight'[b] = inFlight[b] + 1
      BY <1>2, <2>1
    <3>4. inFlight[b] < IF b = "network" THEN MAX_IN_FLIGHT_PER_48 ELSE MAX_IN_FLIGHT
      <4>1. inFlight[b] \in Nat /\ MAX_IN_FLIGHT \in Nat /\ MAX_IN_FLIGHT_PER_48 \in Nat
        BY SlotsFacts
      <4> QED
        BY <2>1, <4>1 DEF Full, BucketsOf
    <3> QED
      BY <3>1, <3>2, <3>3, <3>4, SlotsFacts
  <2>2. CASE b \notin BucketsOf(host)
    <3>1. Calls(b)' = Calls(b)
      BY <2>2 DEF Calls
    <3>2. inFlight'[b] = inFlight[b]
      <4>1. inFlight'[b] = inFlight[b] + 0
        BY <1>2, <2>2
      <4> QED
        BY <4>1, SlotsFacts
    <3> QED
      BY <3>1, <3>2, SlotsFacts
  <2> QED
    BY <2>1, <2>2
<1> QED
  BY <1>3, <1>4 DEF SlotsAreCalls, Calls

\* _slot is given up as a call ends, however it ends.
LEMMA SlotReleased ==
  ASSUME LimitsIInv, NEW q \in Requests, requests[q].pc = "hitting", Release(requests[q].host),
         requests'[q].pc # "hitting",
         \A r \in Requests : r # q => requests'[r] = requests[r]
  PROVE  SlotsAreCalls' /\ inFlight' \in [Buckets -> Nat]
<1> DEFINE host == requests[q].host
<1>1. \A b \in Buckets : inFlight'[b] = inFlight[b] - IF b \in BucketsOf(host) THEN 1 ELSE 0
  BY DEF Release
<1>2. ASSUME NEW b \in Buckets
      PROVE  /\ inFlight'[b] = Cardinality(Calls(b)') /\ inFlight'[b] \in Nat
             /\ inFlight'[b] <= IF b = "network" THEN MAX_IN_FLIGHT_PER_48 ELSE MAX_IN_FLIGHT
  <2>1. CASE b \in BucketsOf(host)
    <3>1. Calls(b)' = Calls(b) \ {q} /\ q \in Calls(b)
      BY <2>1 DEF Calls
    <3>2. /\ Cardinality(Calls(b) \ {q}) = Cardinality(Calls(b)) - 1
          /\ Cardinality(Calls(b) \ {q}) \in Nat
      BY <3>1, SlotsFacts, FS_RemoveElement, FS_CardinalityType
    <3>3. inFlight'[b] = inFlight[b] - 1
      BY <1>1, <2>1
    <3> QED
      BY <3>1, <3>2, <3>3, SlotsFacts
  <2>2. CASE b \notin BucketsOf(host)
    <3>1. Calls(b)' = Calls(b)
      BY <2>2 DEF Calls
    <3>2. inFlight'[b] = inFlight[b]
      <4>1. inFlight'[b] = inFlight[b] - 0
        BY <1>1, <2>2
      <4> QED
        BY <4>1, SlotsFacts
    <3> QED
      BY <3>1, <3>2, SlotsFacts
  <2> QED
    BY <2>1, <2>2
<1>3. inFlight' \in [Buckets -> Nat]
  BY <1>2 DEF Release
<1> QED
  BY <1>2, <1>3 DEF SlotsAreCalls, Calls

-----------------------------------------------------------------------------
(* Rate limits: the steps *)

\* Writing one request leaves the others.
LEMMA RequestWritten ==
  ASSUME LimitsIInv, NEW q \in Requests, NEW new \in RequestType, requests' = [requests EXCEPT ![q] = new]
  PROVE  /\ requests' \in [Requests -> RequestType] /\ requests'[q] = new
         /\ \A r \in Requests : r # q => requests'[r] = requests[r]
BY LimitsFacts

\* The parts of the invariant that a step has to account for.
LEMMA LimitsHold ==
  ASSUME clock' \in 0 .. MaxClock, counted' \in [LimitKeys -> Row], inFlight' \in [Buckets -> Nat],
         requests' \in [Requests -> RequestType], SlotsAreCalls', \A k \in LimitKeys : KeyOK(k)'
  PROVE  LimitsIInv'
BY DEF LimitsIInv, LimitsTypeOK, Row

\* What every step that counts nothing may do to a request.
Quietly(old, new) ==
  /\ new.in = old.in /\ new.reserved \subseteq old.reserved
  /\ new.pc \in {"new", "hitting"} => old.pc \in {"new", "hitting"}
  /\ new.pc \in Granted => old.pc \in Granted
  /\ new.pc = "giving" => old.pc \in Granted \cup {"giving"}

\* A step that counts nothing, and after which no request is counted that was not, keeps the invariant.
LEMMA QuietStep ==
  ASSUME LimitsIInv, UNCHANGED counted, clock' \in 0 .. MaxClock,
         requests' \in [Requests -> RequestType], inFlight' \in [Buckets -> Nat], SlotsAreCalls',
         \A r \in Requests : Quietly(requests[r], requests'[r])
  PROVE  LimitsIInv'
<1>1. ASSUME NEW k \in LimitKeys PROVE KeyOK(k)'
  BY QuietKey DEF Quietly
<1> QED
  BY <1>1, LimitsFacts, LimitsHold

\* A step of one request that counts nothing, and begins and ends no call.
LEMMA QuietRequest ==
  ASSUME LimitsIInv, UNCHANGED <<clock, counted, inFlight>>,
         NEW q \in Requests, NEW new \in RequestType, requests' = [requests EXCEPT ![q] = new],
         new.host = requests[q].host, new.pc # "hitting", requests[q].pc # "hitting",
         Quietly(requests[q], new)
  PROVE  LimitsIInv'
<1>1. /\ requests' \in [Requests -> RequestType] /\ requests'[q] = new
      /\ \A r \in Requests : r # q => requests'[r] = requests[r]
  BY RequestWritten
<1>2. \A r \in Requests : Quietly(requests[r], requests'[r])
  BY <1>1 DEF Quietly
<1>3. SlotsAreCalls'
  BY <1>1, SlotsKept
<1> QED
  BY <1>1, <1>2, <1>3, LimitsFacts, QuietStep

\* BeginHit keeps the invariant.
LEMMA BeginHitOK ==
  ASSUME LimitsIInv, NEW q \in Requests, BeginHit(q)
  PROVE  LimitsIInv'
<1> DEFINE new == [requests[q] EXCEPT !.pc = "hitting", !.now = clock]
<1>1. /\ requests[q].pc = "new" /\ ~ Full(requests[q].host) /\ Take(requests[q].host)
      /\ requests' = [requests EXCEPT ![q] = new] /\ UNCHANGED <<clock, counted>>
  BY DEF BeginHit
<1>2. /\ new \in RequestType /\ new.pc = "hitting" /\ new.host = requests[q].host
      /\ new.in = requests[q].in /\ new.reserved = requests[q].reserved
  BY LimitsFacts DEF RequestType
<1> HIDE DEF new
<1>3. /\ requests' \in [Requests -> RequestType] /\ requests'[q] = new
      /\ \A r \in Requests : r # q => requests'[r] = requests[r]
  BY <1>1, <1>2, RequestWritten
<1>4. SlotsAreCalls' /\ inFlight' \in [Buckets -> Nat]
  BY <1>1, <1>2, <1>3, SlotTaken
<1>5. \A r \in Requests : Quietly(requests[r], requests'[r])
  BY <1>1, <1>2, <1>3 DEF Quietly, Granted
<1> QED
  BY <1>1, <1>3, <1>4, <1>5, LimitsFacts, QuietStep

\* FailHit keeps the invariant.
LEMMA FailHitOK ==
  ASSUME LimitsIInv, NEW q \in Requests, FailHit(q)
  PROVE  LimitsIInv'
<1> DEFINE new == [requests[q] EXCEPT !.pc = "refused"]
<1>1. /\ requests[q].pc = "hitting" /\ Release(requests[q].host)
      /\ requests' = [requests EXCEPT ![q] = new] /\ UNCHANGED <<clock, counted>>
  BY DEF FailHit
<1>2. /\ new \in RequestType /\ new.pc = "refused"
      /\ new.in = requests[q].in /\ new.reserved = requests[q].reserved
  BY LimitsFacts DEF RequestType
<1> HIDE DEF new
<1>3. /\ requests' \in [Requests -> RequestType] /\ requests'[q] = new
      /\ \A r \in Requests : r # q => requests'[r] = requests[r]
  BY <1>1, <1>2, RequestWritten
<1>4. SlotsAreCalls' /\ inFlight' \in [Buckets -> Nat]
  BY <1>1, <1>2, <1>3, SlotReleased
<1>5. \A r \in Requests : Quietly(requests[r], requests'[r])
  BY <1>1, <1>2, <1>3 DEF Quietly, Granted
<1> QED
  BY <1>1, <1>3, <1>4, <1>5, LimitsFacts, QuietStep

\* Refused at the cap, carried on, placed or not: the pc alone changes.
LEMMA MovedOn ==
  ASSUME LimitsIInv, NEW q \in Requests, NEW pc \in {"reserved", "placing", "giving", "placed", "refused"},
         requests' = [requests EXCEPT ![q].pc = pc], UNCHANGED <<clock, counted, inFlight>>,
         requests[q].pc \in Granted \/ (pc = "refused" /\ requests[q].pc # "hitting")
  PROVE  LimitsIInv'
<1> DEFINE new == [requests[q] EXCEPT !.pc = pc]
<1>1. requests' = [requests EXCEPT ![q] = new]
  OBVIOUS
<1>2. /\ new \in RequestType /\ new.pc = pc /\ new.host = requests[q].host
      /\ new.in = requests[q].in /\ new.reserved = requests[q].reserved
  BY LimitsFacts DEF RequestType
<1> HIDE DEF new
<1>3. Quietly(requests[q], new) /\ new.pc # "hitting" /\ requests[q].pc # "hitting"
  BY <1>2 DEF Quietly, Granted
<1> QED
  BY <1>1, <1>2, <1>3, QuietRequest

\* The placements, or the unproven booking, are counted for q.
LEMMA ChargedStep ==
  ASSUME LimitsIInv, NEW q \in Requests, NEW keys \in SUBSET LimitKeys, NEW now \in 0 .. MaxClock,
         NEW pc \in {"reserved", "placing", "giving"},
         ChargeKeys(keys, now), Reserving(q, keys, pc), UNCHANGED clock,
         requests[q].pc \in Granted \/ (requests[q].pc = "hitting" /\ pc # "placing"),
         pc # "giving" => \A k \in keys : counted'[k].hits <= Limit[k],
         inFlight' \in [Buckets -> Nat],
         \A r \in Requests : r # q => requests'[r] = requests[r],
         SlotsAreCalls'
  PROVE  LimitsIInv'
<1>1. \A k \in LimitKeys : counted'[k] = IF k \in keys THEN Hit(counted[k], now) ELSE counted[k]
  BY DEF ChargeKeys
<1>2. \A k \in keys : counted'[k] \in Row /\ counted'[k].start \in 0 .. MaxClock
  BY <1>1, HitRow
<1>3. counted' \in [LimitKeys -> Row]
  BY <1>1, <1>2, LimitsFacts DEF ChargeKeys
<1> DEFINE in == [k \in LimitKeys |-> IF k \in keys THEN counted'[k].start ELSE requests[q].in[k]]
           new == [requests[q] EXCEPT !.pc = pc, !.reserved = requests[q].reserved \cup keys, !.in = in]
<1>4. requests' = [requests EXCEPT ![q] = new]
  BY DEF Reserving
<1>5. in \in [LimitKeys -> NoWindow .. MaxClock]
  BY <1>2, LimitsFacts
<1>6. \A k \in LimitKeys : in[k] = IF k \in keys THEN counted'[k].start ELSE requests[q].in[k]
  OBVIOUS
<1> HIDE DEF in
<1>7. /\ new \in RequestType /\ new.pc = pc /\ new.host = requests[q].host
      /\ new.reserved = requests[q].reserved \cup keys /\ new.in = in
  BY <1>5, LimitsFacts DEF RequestType
<1> HIDE DEF new
<1>8. requests' \in [Requests -> RequestType] /\ requests'[q] = new
  BY <1>4, <1>7, RequestWritten
<1>9. ASSUME NEW k \in LimitKeys PROVE KeyOK(k)'
  <2>1. CASE k \in keys
    <3>1. requests'[q].in[k] = counted'[k].start
      BY <1>6, <1>7, <1>8, <2>1
    <3>2. requests'[q].pc \in Granted \cup {"giving"} /\ (requests'[q].pc \in Granted => counted'[k].hits <= Limit[k])
      BY <1>7, <1>8, <2>1 DEF Granted
    <3> QED
      BY <1>1, <2>1, <3>1, <3>2, ChargedKey
  <2>2. CASE k \notin keys
    <3>1. counted'[k] = counted[k]
      BY <1>1, <2>2
    <3>2. /\ requests'[q].in[k] = requests[q].in[k]
          /\ k \in requests'[q].reserved => k \in requests[q].reserved
          /\ requests'[q].pc \notin {"new", "hitting"}
      BY <1>6, <1>7, <1>8, <2>2
    <3>3. requests[q].pc \in Granted \/ requests[q].in[k] = NoWindow
      BY DEF LimitsIInv, KeyOK
    <3> QED
      BY <3>1, <3>2, <3>3, QuietKey
  <2> QED
    BY <2>1, <2>2
<1> QED
  BY <1>3, <1>8, <1>9, LimitsFacts, LimitsHold

\* EndHit keeps the invariant.
LEMMA EndHitOK ==
  ASSUME LimitsIInv, NEW q \in Requests, EndHit(q)
  PROVE  LimitsIInv'
<1> DEFINE over == \E k \in Placements : counted'[k].hits > Limit[k]
<1>1. PICK pc \in {"reserved", "giving"} : pc = IF over THEN "giving" ELSE "reserved"
  OBVIOUS
<1>2. /\ requests[q].pc = "hitting" /\ ChargeKeys(Placements, requests[q].now)
      /\ Reserving(q, Placements, pc) /\ Release(requests[q].host) /\ UNCHANGED clock
  BY <1>1 DEF EndHit
<1>3. requests[q].now \in 0 .. MaxClock /\ Placements \in SUBSET LimitKeys
  BY LimitsFacts
<1>4. \A k \in Placements : counted'[k].hits \in Int /\ Limit[k] \in Int
  <2>1. ASSUME NEW k \in Placements PROVE counted'[k].hits \in Int /\ Limit[k] \in Int
    <3>1. k \in LimitKeys /\ counted'[k] = Hit(counted[k], requests[q].now)
      BY <1>2, <1>3, <2>1 DEF ChargeKeys
    <3>2. counted'[k] \in Row
      BY <1>3, <3>1, HitRow
    <3> QED
      BY <3>1, <3>2, LimitsFacts DEF Row
  <2> QED
    BY <2>1
<1>5. pc # "giving" => \A k \in Placements : counted'[k].hits <= Limit[k]
  BY <1>1, <1>4
<1>6. \A r \in Requests : r # q => requests'[r] = requests[r]
  BY <1>2, LimitsFacts DEF Reserving
<1>7. SlotsAreCalls' /\ inFlight' \in [Buckets -> Nat]
  <2>1. requests'[q].pc = pc
    BY <1>2, LimitsFacts DEF Reserving, RequestType
  <2>2. pc # "hitting"
    OBVIOUS
  <2> QED
    BY <1>2, <1>6, <2>1, <2>2, SlotReleased
<1> QED
  BY <1>2, <1>3, <1>5, <1>6, <1>7, ChargedStep

\* ReserveUnproven keeps the invariant.
LEMMA ReserveUnprovenOK ==
  ASSUME LimitsIInv, NEW q \in Requests, ReserveUnproven(q)
  PROVE  LimitsIInv'
<1> DEFINE over == counted'["unproven"].hits > Limit["unproven"]
<1>1. requests[q].pc = "reserved" /\ requests[q].pc \in Granted /\ UNCHANGED <<clock, inFlight>>
  BY DEF ReserveUnproven, Granted
<1>2. CASE UNCHANGED counted /\ requests' = [requests EXCEPT ![q].pc = "giving"]
  BY <1>1, <1>2, MovedOn
<1>3. CASE /\ ChargeKeys({"unproven"}, clock)
           /\ Reserving(q, {"unproven"}, IF over THEN "giving" ELSE "placing")
  <2>1. PICK pc \in {"placing", "giving"} : pc = IF over THEN "giving" ELSE "placing"
    OBVIOUS
  <2>2. ChargeKeys({"unproven"}, clock) /\ Reserving(q, {"unproven"}, pc)
    BY <1>3, <2>1
  <2>3. clock \in 0 .. MaxClock /\ {"unproven"} \in SUBSET LimitKeys /\ "unproven" \in LimitKeys
    BY LimitsFacts
  <2>4. counted'["unproven"].hits \in Int /\ Limit["unproven"] \in Int
    <3>1. counted'["unproven"] = Hit(counted["unproven"], clock)
      BY <2>2, <2>3 DEF ChargeKeys
    <3>2. counted'["unproven"] \in Row
      BY <2>3, <3>1, HitRow
    <3> QED
      BY <2>3, <3>2, LimitsFacts DEF Row
  <2>5. pc # "giving" => \A k \in {"unproven"} : counted'[k].hits <= Limit[k]
    BY <2>1, <2>4
  <2>6. \A r \in Requests : r # q => requests'[r] = requests[r]
    BY <2>2, LimitsFacts DEF Reserving
  <2>7. requests'[q].pc = pc /\ requests'[q].host = requests[q].host
    BY <2>2, LimitsFacts DEF Reserving, RequestType
  <2>8. SlotsAreCalls' /\ inFlight' \in [Buckets -> Nat]
    BY <1>1, <2>6, <2>7, LimitsFacts, SlotsKept
  <2> QED
    BY <1>1, <2>2, <2>3, <2>5, <2>6, <2>8, ChargedStep
<1> QED
  BY <1>2, <1>3 DEF ReserveUnproven

\* GiveBack keeps the invariant.
LEMMA GiveBackOK ==
  ASSUME LimitsIInv, NEW q \in Requests, GiveBack(q)
  PROVE  LimitsIInv'
<1> DEFINE new == [requests[q] EXCEPT !.pc = "refused", !.reserved = {}]
<1>1. /\ requests[q].pc = "giving" /\ requests' = [requests EXCEPT ![q] = new] /\ UNCHANGED <<clock, inFlight>>
      /\ \/ counted' = [k \in LimitKeys |-> IF k \in requests[q].reserved THEN Refund(counted[k], q, k)
                                            ELSE counted[k]]
         \/ UNCHANGED counted
  BY DEF GiveBack
<1>2. /\ new \in RequestType /\ new.pc = "refused" /\ new.host = requests[q].host
      /\ new.in = requests[q].in /\ new.reserved = {}
  BY LimitsFacts DEF RequestType
<1> HIDE DEF new
<1>3. /\ requests' \in [Requests -> RequestType] /\ requests'[q] = new
      /\ \A r \in Requests : r # q => requests'[r] = requests[r]
  BY <1>1, <1>2, RequestWritten
<1>4. CASE UNCHANGED counted
  <2>1. Quietly(requests[q], new)
    BY <1>2 DEF Quietly, Granted
  <2> QED
    BY <1>1, <1>2, <1>4, <2>1, QuietRequest
<1>5. CASE counted' = [k \in LimitKeys |-> IF k \in requests[q].reserved THEN Refund(counted[k], q, k)
                                           ELSE counted[k]]
  <2>1. ASSUME NEW k \in LimitKeys PROVE KeyOK(k)' /\ counted'[k] \in Row
    <3>1. counted'[k] = IF k \in requests[q].reserved THEN Refund(counted[k], q, k) ELSE counted[k]
      BY <1>5
    <3> QED
      BY <1>1, <1>2, <1>3, <3>1, RefundedKey
  <2>2. counted' \in [LimitKeys -> Row]
    BY <1>5, <2>1
  <2>3. SlotsAreCalls'
    BY <1>1, <1>2, <1>3, SlotsKept
  <2> QED
    BY <1>1, <1>3, <2>1, <2>2, <2>3, LimitsFacts, LimitsHold
<1> QED
  BY <1>1, <1>4, <1>5

\* Restart keeps the invariant.
LEMMA RestartOK ==
  ASSUME LimitsIInv, Restart
  PROVE  LimitsIInv'
<1>1. /\ requests' = [q \in Requests |-> IF requests[q].pc = "placed" THEN requests[q]
                                         ELSE [requests[q] EXCEPT !.pc = "refused"]]
      /\ inFlight' = [b \in Buckets |-> 0] /\ UNCHANGED <<clock, counted>>
  BY DEF Restart
<1>2. ASSUME NEW q \in Requests
      PROVE  /\ requests'[q] \in RequestType /\ requests'[q].pc # "hitting"
             /\ Quietly(requests[q], requests'[q])
  <2>1. requests[q] \in RequestType
    BY LimitsFacts
  <2>2. CASE requests[q].pc = "placed"
    BY <1>1, <2>1, <2>2 DEF Quietly
  <2>3. CASE requests[q].pc # "placed"
    <3> DEFINE new == [requests[q] EXCEPT !.pc = "refused"]
    <3>1. requests'[q] = new
      BY <1>1, <2>3
    <3>2. /\ new \in RequestType /\ new.pc = "refused"
          /\ new.in = requests[q].in /\ new.reserved = requests[q].reserved
      BY <2>1 DEF RequestType
    <3> HIDE DEF new
    <3> QED
      BY <3>1, <3>2 DEF Quietly, Granted
  <2> QED
    BY <2>2, <2>3
<1>3. SlotsAreCalls'
  <2> SUFFICES ASSUME NEW b \in Buckets
               PROVE  /\ inFlight'[b] = Cardinality(Calls(b)')
                      /\ inFlight'[b] <= IF b = "network" THEN MAX_IN_FLIGHT_PER_48 ELSE MAX_IN_FLIGHT
    BY DEF SlotsAreCalls, Calls
  <2>1. Calls(b)' = {}
    BY <1>2 DEF Calls
  <2> QED
    BY <1>1, <2>1, FS_EmptySet, LimitsAssumption
<1>4. requests' \in [Requests -> RequestType] /\ inFlight' \in [Buckets -> Nat]
  BY <1>1, <1>2
<1> QED
  BY <1>1, <1>2, <1>3, <1>4, LimitsFacts, QuietStep

\* The invariant holds at the start.
LEMMA LimitsStart == LimitsInit => LimitsIInv
<1> SUFFICES ASSUME LimitsInit PROVE LimitsIInv
  OBVIOUS
<1>1. /\ clock = 0 /\ counted = [k \in LimitKeys |-> [start |-> NoWindow - Window, hits |-> 0, stray |-> 0]]
      /\ inFlight = [b \in Buckets |-> 0]
  BY DEF LimitsInit
<1>2. Window \in Nat \ {0} /\ MaxClock \in Nat /\ NoWindow = -1 /\ \A k \in LimitKeys : Limit[k] \in Nat
  BY LimitsAssumption DEF NoWindow, LimitKeys
<1>3. \A q \in Requests : \E h \in Hosts, p \in BOOLEAN :
        requests[q] = [pc |-> "new", host |-> h, proven |-> p, now |-> 0, reserved |-> {},
                       in |-> [k \in LimitKeys |-> NoWindow]]
  BY DEF LimitsInit
<1>4. \A q \in Requests :
        /\ requests[q] \in RequestType /\ requests[q].pc = "new" /\ requests[q].reserved = {}
        /\ \A k \in LimitKeys : requests[q].in[k] = NoWindow
  <2>1. ASSUME NEW q \in Requests
        PROVE  /\ requests[q] \in RequestType /\ requests[q].pc = "new" /\ requests[q].reserved = {}
               /\ \A k \in LimitKeys : requests[q].in[k] = NoWindow
    <3>1. PICK h \in Hosts, p \in BOOLEAN :
            requests[q] = [pc |-> "new", host |-> h, proven |-> p, now |-> 0, reserved |-> {},
                           in |-> [k \in LimitKeys |-> NoWindow]]
      BY <1>3
    <3>2. [k \in LimitKeys |-> NoWindow] \in [LimitKeys -> NoWindow .. MaxClock] /\ 0 \in 0 .. MaxClock
      BY <1>2
    <3>3. requests[q] \in RequestType
      BY <3>1, <3>2 DEF RequestType
    <3> QED
      BY <3>1, <3>3
  <2> QED
    BY <2>1
<1>5. LimitsTypeOK
  <2>1. [start |-> NoWindow - Window, hits |-> 0, stray |-> 0] \in [start : NoWindow - Window .. MaxClock, hits : Nat, stray : Nat]
    BY <1>2
  <2>2. requests \in [Requests -> RequestType]
    BY <1>4 DEF LimitsInit
  <2> QED
    BY <1>1, <1>2, <2>1, <2>2 DEF LimitsTypeOK
<1>6. SlotsAreCalls
  <2> SUFFICES ASSUME NEW b \in Buckets
               PROVE  /\ inFlight[b] = Cardinality(Calls(b))
                      /\ inFlight[b] <= IF b = "network" THEN MAX_IN_FLIGHT_PER_48 ELSE MAX_IN_FLIGHT
    BY DEF SlotsAreCalls, Calls
  <2>1. Calls(b) = {}
    BY <1>4 DEF Calls
  <2> QED
    BY <1>1, <2>1, FS_EmptySet, LimitsAssumption
<1>7. ASSUME NEW k \in LimitKeys PROVE KeyOK(k)
  <2>1. Committed(k) = {} /\ Returning(k) = {} /\ Committed(k) \cup Returning(k) = {}
    BY <1>4 DEF Committed, Returning, Granted
  <2>2. counted[k].start = NoWindow - Window /\ counted[k].hits = 0 /\ counted[k].stray = 0
    BY <1>1
  <2>3. Cardinality({}) = 0
    BY FS_EmptySet
  <2>4. /\ Cardinality(Committed(k) \cup Returning(k)) <= counted[k].hits + counted[k].stray
        /\ Cardinality(Committed(k)) <= Limit[k] + counted[k].stray
    BY <1>2, <2>1, <2>2, <2>3
  <2> QED
    BY <1>4, <2>2, <2>4 DEF KeyOK
<1> QED
  BY <1>5, <1>6, <1>7 DEF LimitsIInv

\* Every step keeps the invariant.
LEMMA LimitsPreserved == LimitsIInv /\ [LimitsNext]_limitVars => LimitsIInv'
<1> SUFFICES ASSUME LimitsIInv, [LimitsNext]_limitVars PROVE LimitsIInv'
  OBVIOUS
<1>1. ASSUME UNCHANGED <<counted, inFlight, requests>>, clock' \in 0 .. MaxClock
      PROVE  LimitsIInv'
  <2>1. SlotsAreCalls'
    BY <1>1, SlotsKept
  <2>2. \A r \in Requests : Quietly(requests[r], requests'[r])
    BY <1>1 DEF Quietly
  <2> QED
    BY <1>1, <2>1, <2>2, LimitsFacts, QuietStep
<1>2. CASE UNCHANGED limitVars
  BY <1>1, <1>2, LimitsFacts DEF limitVars
<1>3. CASE TimePasses
  <2>1. clock' \in 0 .. MaxClock
    BY <1>3, LimitsFacts DEF TimePasses
  <2> QED
    BY <1>1, <1>3, <2>1 DEF TimePasses
<1>4. ASSUME NEW q \in Requests,
             \/ BeginHit(q) \/ RefuseAtCap(q) \/ EndHit(q) \/ FailHit(q)
             \/ ReserveUnproven(q) \/ SkipUnproven(q) \/ PlaceBooking(q) \/ GiveBack(q)
      PROVE  LimitsIInv'
  <2>1. CASE RefuseAtCap(q)
    BY <2>1, MovedOn DEF RefuseAtCap
  <2>2. CASE SkipUnproven(q)
    BY <2>2, MovedOn DEF SkipUnproven, Granted
  <2>3. CASE PlaceBooking(q)
    BY <2>3, MovedOn DEF PlaceBooking, Granted
  <2> QED
    BY <1>4, <2>1, <2>2, <2>3, BeginHitOK, EndHitOK, FailHitOK, ReserveUnprovenOK, GiveBackOK
<1> QED
  BY <1>2, <1>3, <1>4, RestartOK DEF LimitsNext

\* However many requests for a booking race, at any limits and windows (limits.hit, _charge, give_back and
\* _slot, as bookings.create calls them): a slot is held exactly while a call runs, also when its
\* transaction fails or the process stops, and no more bookings are placed in a window than its limit but
\* for one more by each refund of an earlier window's attempt that reached it.
THEOREM LimitsSound == LimitsSpec => []LimitsInv
<1>1. LimitsIInv => LimitsInv
  <2> SUFFICES ASSUME LimitsIInv PROVE LimitsInv
    OBVIOUS
  <2>1. ASSUME NEW k \in LimitKeys
        PROVE  Cardinality(PlacedIn(k, counted[k].start)) <= Limit[k] + counted[k].stray
    <3>1. PlacedIn(k, counted[k].start) \subseteq Committed(k)
      BY DEF PlacedIn, Committed, Granted
    <3>2. /\ Cardinality(PlacedIn(k, counted[k].start)) <= Cardinality(Committed(k))
          /\ Cardinality(PlacedIn(k, counted[k].start)) \in Nat /\ Cardinality(Committed(k)) \in Nat
      BY <3>1, GroupsAreFinite, FS_Subset, FS_CardinalityType
    <3>3. Cardinality(Committed(k)) <= Limit[k] + counted[k].stray
      BY DEF LimitsIInv, KeyOK
    <3> QED
      BY <3>2, <3>3, LimitsFacts
  <2> QED
    BY <2>1 DEF LimitsIInv, LimitsInv, PlacementsBounded
<1> QED
  BY <1>1, LimitsStart, LimitsPreserved, PTL DEF LimitsSpec

-----------------------------------------------------------------------------
(* The erasure ledger: the inductive invariant *)

\* The erasures anything knows of: the ledger, the database, or a dump of it.
Known ==
  bucket \cup {e \in Entry : \/ database.erased[e.subject] = e.at
                             \/ \E b \in backups : b.database.erased[e.subject] = e.at}

\* e was open, or not yet begun, when the records up to newest were dumped.
OpenAtDump(newest, e) == \E o \in backups : o.database.newest = newest /\ o.at <= e.at + Lag

\* An erasure.ledger job is of an erasure its own database records.
QueuesOK ==
  /\ \A e \in database.queue : database.erased[e.subject] = e.at
  /\ \A b \in backups : b.at <= hour /\ \A e \in b.database.queue : b.database.erased[e.subject] = e.at

\* What a dump lacks was not committed at the dump it goes back to, or is one of the exceptions.
DumpsOK ==
  \A b \in backups, e \in Known :
    b.database.erased[e.subject] # 0 \/ CutInTwo(e) \/ e \in undone \/ OpenAtDump(b.database.newest, e)

\* Until it is reapplied, a restored database records what its dump records.
RestoredOK ==
  ~ serving => \E b \in backups : /\ b.at = point /\ b.database.newest = database.newest
                                  /\ b.database.erased = database.erased

ServingOK == serving => \A e \in Known : database.erased[e.subject] # 0 \/ CutInTwo(e) \/ e \in undone

LedgerIInv == LedgerTypeOK /\ QueuesOK /\ DumpsOK /\ RestoredOK /\ ServingOK

\* The types of the state, of the records in it and of the bounds, for the provers.
LEMMA LedgerFacts ==
  ASSUME LedgerIInv
  PROVE  /\ hour \in 1 .. MaxHour /\ point \in Hours /\ serving \in BOOLEAN
         /\ database \in DatabaseType /\ backups \subseteq [database : DatabaseType, at : Hours]
         /\ bucket \subseteq Entry /\ undone \subseteq Entry
         /\ database.erased \in [Subjects -> Hours] /\ database.newest \in Hours /\ database.queue \subseteq Entry
         /\ \A b \in backups : /\ b.database \in DatabaseType /\ b.database.erased \in [Subjects -> Hours]
                               /\ b.database.newest \in Hours /\ b.database.queue \subseteq Entry /\ b.at \in Hours
         /\ \A e \in Entry : e.subject \in Subjects /\ e.at \in 1 .. MaxHour /\ e.at # 0
         /\ Known \subseteq Entry
         /\ Margin \in Nat /\ Lag \in Nat /\ Lag <= Margin /\ MaxHour \in Nat \ {0}
<1>1. /\ hour \in 1 .. MaxHour /\ point \in Hours /\ serving \in BOOLEAN
      /\ database \in DatabaseType /\ backups \subseteq [database : DatabaseType, at : Hours]
      /\ bucket \subseteq Entry /\ undone \subseteq Entry
  BY DEF LedgerIInv, LedgerTypeOK
<1>2. \A db \in DatabaseType : db.erased \in [Subjects -> Hours] /\ db.newest \in Hours /\ db.queue \subseteq Entry
  BY DEF DatabaseType
<1>3. \A b \in backups : b.database \in DatabaseType /\ b.at \in Hours
  BY <1>1
<1>4. \A e \in Entry : e.subject \in Subjects /\ e.at \in 1 .. MaxHour /\ e.at # 0
  BY DEF Entry
<1>5. Known \subseteq Entry
  BY <1>1 DEF Known
<1> QED
  BY <1>1, <1>2, <1>3, <1>4, <1>5, LedgerAssumption

\* Dumps are kept: what excuses an erasure goes on excusing it.
LEMMA ExcusesKept ==
  ASSUME backups \subseteq backups', NEW e, NEW newest
  PROVE  /\ CutInTwo(e) => CutInTwo(e)'
         /\ OpenAtDump(newest, e) => OpenAtDump(newest, e)'
BY DEF CutInTwo, OpenAtDump

\* The parts of the invariant that a step has to account for.
LEMMA LedgerHold ==
  ASSUME LedgerTypeOK', QueuesOK', DumpsOK', RestoredOK', ServingOK'
  PROVE  LedgerIInv'
BY DEF LedgerIInv

\* A step that erases nobody, and writes to the ledger only what the queue holds.
LEMMA QuietLedger ==
  ASSUME LedgerIInv, UNCHANGED <<backups, serving, point, undone>>, LedgerTypeOK', hour <= hour',
         bucket' \subseteq bucket \cup database.queue, database'.erased = database.erased,
         \A e \in database'.queue : database'.erased[e.subject] = e.at,
         ~ serving => database'.newest = database.newest
  PROVE  LedgerIInv'
<1>1. Known' \subseteq Known
  BY LedgerFacts DEF Known, LedgerIInv, QueuesOK
<1>2. \A e, newest : /\ CutInTwo(e) => CutInTwo(e)'
                     /\ OpenAtDump(newest, e) => OpenAtDump(newest, e)'
  BY ExcusesKept
<1>3. QueuesOK'
  <2>1. hour' \in Int /\ hour \in Int /\ \A b \in backups : b.at \in Int /\ b.at <= hour
    BY LedgerFacts DEF LedgerIInv, LedgerTypeOK, QueuesOK, Hours
  <2> QED
    BY <2>1 DEF LedgerIInv, QueuesOK
<1>4. DumpsOK'
  BY <1>1, <1>2 DEF LedgerIInv, DumpsOK
<1>5. RestoredOK'
  BY DEF LedgerIInv, RestoredOK
<1>6. ServingOK'
  BY <1>1, <1>2 DEF LedgerIInv, ServingOK
<1> QED
  BY <1>3, <1>4, <1>5, <1>6, LedgerHold

-----------------------------------------------------------------------------
(* The erasure ledger: the steps *)

\* RecordErasure keeps the invariant.
LEMMA RecordErasureOK ==
  ASSUME LedgerIInv, NEW e \in database.queue, NEW completes \in BOOLEAN, RecordErasure(e, completes)
  PROVE  LedgerIInv'
<1>1. /\ serving /\ bucket' = bucket \cup {e} /\ UNCHANGED <<hour, backups, serving, point, undone>>
      /\ database' = IF completes THEN [database EXCEPT !.queue = database.queue \ {e}, !.newest = hour]
                     ELSE database
  BY DEF RecordErasure
<1>2. hour \in Hours /\ database.queue \ {e} \in SUBSET Entry /\ e \in Entry
  BY LedgerFacts DEF Hours
<1>3. database' \in DatabaseType /\ database'.erased = database.erased /\ database'.queue \subseteq database.queue
  <2>1. CASE completes
    <3>1. database' = [database EXCEPT !.queue = database.queue \ {e}, !.newest = hour]
      BY <1>1, <2>1
    <3>2. database' \in DatabaseType /\ database'.erased = database.erased /\ database'.queue = database.queue \ {e}
      BY <1>2, <3>1, LedgerFacts DEF DatabaseType
    <3> QED
      BY <3>2
  <2>2. CASE ~ completes
    BY <1>1, <2>2, LedgerFacts
  <2> QED
    BY <2>1, <2>2
<1>4. LedgerTypeOK'
  BY <1>1, <1>2, <1>3, LedgerFacts DEF LedgerTypeOK
<1>5. \A x \in database'.queue : database'.erased[x.subject] = x.at
  BY <1>3 DEF LedgerIInv, QueuesOK
<1> QED
  BY <1>1, <1>3, <1>4, <1>5, LedgerFacts, QuietLedger

\* RecordGivesUp keeps the invariant.
LEMMA RecordGivesUpOK ==
  ASSUME LedgerIInv, NEW e \in database.queue, RecordGivesUp(e)
  PROVE  LedgerIInv'
<1>1. /\ UNCHANGED <<hour, backups, bucket, serving, point, undone>>
      /\ database' = [database EXCEPT !.queue = database.queue \ {e}]
  BY DEF RecordGivesUp
<1>2. database' \in DatabaseType /\ database'.erased = database.erased /\ database'.newest = database.newest
      /\ database'.queue \subseteq database.queue
  BY <1>1, LedgerFacts DEF DatabaseType
<1>3. LedgerTypeOK'
  BY <1>1, <1>2, LedgerFacts DEF LedgerTypeOK
<1>4. \A x \in database'.queue : database'.erased[x.subject] = x.at
  BY <1>2 DEF LedgerIInv, QueuesOK
<1> QED
  BY <1>1, <1>2, <1>3, <1>4, LedgerFacts, QuietLedger

\* Backfill keeps the invariant.
LEMMA BackfillOK ==
  ASSUME LedgerIInv, NEW since \in 1 .. hour, Backfill(since)
  PROVE  LedgerIInv'
<1> DEFINE from == {c \in Subjects : database.erased[c] # 0 /\ database.erased[c] >= since}
           new == {[subject |-> c, at |-> database.erased[c]] : c \in from}
<1>1. /\ UNCHANGED <<hour, backups, bucket, serving, point, undone>>
      /\ database' = [database EXCEPT !.queue = database.queue \cup new]
  BY DEF Backfill
<1>2. \A x \in new : x \in Entry /\ database.erased[x.subject] = x.at
  BY LedgerFacts DEF Entry, Hours
<1> HIDE DEF new
<1>3. database' \in DatabaseType /\ database'.erased = database.erased /\ database'.newest = database.newest
      /\ database'.queue = database.queue \cup new
  BY <1>1, <1>2, LedgerFacts DEF DatabaseType
<1>4. LedgerTypeOK'
  BY <1>1, <1>3, LedgerFacts DEF LedgerTypeOK
<1>5. \A x \in database'.queue : database'.erased[x.subject] = x.at
  BY <1>2, <1>3 DEF LedgerIInv, QueuesOK
<1> QED
  BY <1>1, <1>3, <1>4, <1>5, LedgerFacts, QuietLedger

\* Activity keeps the invariant.
LEMMA ActivityOK ==
  ASSUME LedgerIInv, Activity
  PROVE  LedgerIInv'
<1>1. /\ serving /\ database' = [database EXCEPT !.newest = hour]
      /\ UNCHANGED <<hour, backups, bucket, serving, point, undone>>
  BY DEF Activity
<1>2. hour \in Hours
  BY LedgerFacts DEF Hours
<1>3. database' \in DatabaseType /\ database'.erased = database.erased /\ database'.queue = database.queue
  BY <1>1, <1>2, LedgerFacts DEF DatabaseType
<1>4. LedgerTypeOK'
  BY <1>1, <1>3, LedgerFacts DEF LedgerTypeOK
<1>5. \A x \in database'.queue : database'.erased[x.subject] = x.at
  BY <1>3 DEF LedgerIInv, QueuesOK
<1> QED
  BY <1>1, <1>3, <1>4, <1>5, LedgerFacts, QuietLedger

\* HourPasses keeps the invariant.
LEMMA HourPassesOK ==
  ASSUME LedgerIInv, HourPasses
  PROVE  LedgerIInv'
<1>1. hour < MaxHour /\ hour' = hour + 1 /\ UNCHANGED <<database, backups, bucket, serving, point, undone>>
  BY DEF HourPasses
<1>2. hour' \in 1 .. MaxHour /\ hour <= hour'
  BY <1>1, LedgerFacts
<1>3. LedgerTypeOK'
  BY <1>1, <1>2, LedgerFacts DEF LedgerTypeOK
<1>4. \A x \in database'.queue : database'.erased[x.subject] = x.at
  BY <1>1 DEF LedgerIInv, QueuesOK
<1> QED
  BY <1>1, <1>2, <1>3, <1>4, QuietLedger

\* An erasure of now is open at every dump there is.
LEMMA OpenNow ==
  ASSUME LedgerIInv, NEW e \in Entry, hour <= e.at + Lag
  PROVE  \A b \in backups : OpenAtDump(b.database.newest, e)
<1>1. \A b \in backups : b.at <= hour /\ b.at \in Int /\ hour \in Int /\ e.at \in Int /\ Lag \in Int
  BY LedgerFacts DEF LedgerIInv, QueuesOK, Hours
<1>2. \A b \in backups : b.at <= e.at + Lag
  BY <1>1
<1> QED
  BY <1>2 DEF OpenAtDump

\* EraseSubject keeps the invariant.
LEMMA EraseSubjectOK ==
  ASSUME LedgerIInv, NEW c \in Subjects, NEW at \in 1 .. MaxHour, EraseSubject(c, at)
  PROVE  LedgerIInv'
<1> DEFINE new == [subject |-> c, at |-> at]
           newest == Later(at)
<1>1. /\ serving /\ database.erased[c] = 0 /\ hour <= at + Lag
      /\ database' = [erased |-> [database.erased EXCEPT ![c] = at], newest |-> newest,
                      queue |-> database.queue \cup {new}]
      /\ UNCHANGED <<hour, backups, bucket, serving, point, undone>>
  BY DEF EraseSubject
<1>2. new \in Entry /\ new.subject = c /\ new.at = at /\ at \in Hours /\ newest \in Hours
  BY LedgerFacts DEF Entry, Hours, Later
<1> HIDE DEF new, newest
<1>3. /\ database'.erased = [database.erased EXCEPT ![c] = at] /\ database'.newest = newest
      /\ database'.queue = database.queue \cup {new}
  BY <1>1
<1>4. /\ database'.erased \in [Subjects -> Hours] /\ database'.erased[c] = at
      /\ \A d \in Subjects : d # c => database'.erased[d] = database.erased[d]
  BY <1>2, <1>3, LedgerFacts
<1>5. database' \in DatabaseType
  BY <1>1, <1>2, <1>4, LedgerFacts DEF DatabaseType
<1>6. LedgerTypeOK'
  BY <1>1, <1>5, LedgerFacts DEF LedgerTypeOK
<1>7. QueuesOK'
  <2>1. \A e \in database.queue : e.subject # c
    BY <1>1, LedgerFacts DEF LedgerIInv, QueuesOK
  <2>2. \A e \in database'.queue : database'.erased[e.subject] = e.at
    BY <1>2, <1>3, <1>4, <2>1, LedgerFacts DEF LedgerIInv, QueuesOK
  <2> QED
    BY <1>1, <2>2 DEF LedgerIInv, QueuesOK
<1>8. Known' \subseteq Known \cup {new}
  <2>1. ASSUME NEW e \in Entry, database'.erased[e.subject] = e.at, e.subject = c
        PROVE  e = new
    BY <1>4, <2>1 DEF Entry, new
  <2>2. ASSUME NEW e \in Entry, database'.erased[e.subject] = e.at, e.subject # c
        PROVE  e \in Known
    BY <1>4, <2>2, LedgerFacts DEF Known
  <2> QED
    BY <1>1, <2>1, <2>2 DEF Known
<1>9. \A e, n : /\ CutInTwo(e) => CutInTwo(e)'
                /\ OpenAtDump(n, e) => OpenAtDump(n, e)'
  BY <1>1, ExcusesKept
<1>10. DumpsOK'
  <2>1. \A b \in backups : OpenAtDump(b.database.newest, new)
    BY <1>1, <1>2, OpenNow
  <2> QED
    BY <1>1, <1>8, <1>9, <2>1 DEF LedgerIInv, DumpsOK
<1>11. ServingOK'
  <2>1. ASSUME NEW e \in Known, database.erased[e.subject] # 0
        PROVE  database'.erased[e.subject] # 0
    BY <1>1, <1>4, <2>1, LedgerFacts
  <2>2. database'.erased[new.subject] # 0
    BY <1>2, <1>4, LedgerFacts
  <2> QED
    BY <1>1, <1>8, <1>9, <2>1, <2>2 DEF LedgerIInv, ServingOK
<1>12. RestoredOK'
  BY <1>1 DEF RestoredOK
<1> QED
  BY <1>6, <1>7, <1>10, <1>11, <1>12, LedgerHold

\* A dump of a database that serves lacks what that database lacks; one of a restored database goes back
\* to the dump it was restored from.
LEMMA BackupOK ==
  ASSUME LedgerIInv, Backup
  PROVE  LedgerIInv'
<1> DEFINE new == [database |-> database, at |-> hour]
<1>1. backups' = backups \cup {new} /\ UNCHANGED <<hour, database, bucket, serving, point, undone>>
  BY DEF Backup
<1>2. new.database = database /\ new.at = hour /\ hour \in Hours
  BY LedgerFacts DEF Hours
<1>3. new \in [database : DatabaseType, at : Hours]
  BY <1>2, LedgerFacts
<1> HIDE DEF new
<1>4. LedgerTypeOK'
  BY <1>1, <1>3, LedgerFacts DEF LedgerTypeOK
<1>5. QueuesOK'
  <2>1. new.at <= hour
    BY <1>2, LedgerFacts
  <2> QED
    BY <1>1, <1>2, <2>1 DEF LedgerIInv, QueuesOK
<1>6. Known' \subseteq Known
  BY <1>1, <1>2 DEF Known
<1>7. \A e, n : /\ CutInTwo(e) => CutInTwo(e)'
                /\ OpenAtDump(n, e) => OpenAtDump(n, e)'
  BY <1>1, ExcusesKept
<1>8. ASSUME NEW e \in Known
      PROVE  database.erased[e.subject] # 0 \/ CutInTwo(e) \/ e \in undone \/ OpenAtDump(database.newest, e)
  <2>1. CASE serving
    BY <2>1 DEF LedgerIInv, ServingOK
  <2>2. CASE ~ serving
    <3>1. PICK b \in backups : b.database.newest = database.newest /\ b.database.erased = database.erased
      BY <2>2 DEF LedgerIInv, RestoredOK
    <3>2. b.database.erased[e.subject] # 0 \/ CutInTwo(e) \/ e \in undone \/ OpenAtDump(b.database.newest, e)
      BY <3>1 DEF LedgerIInv, DumpsOK
    <3> QED
      BY <3>1, <3>2
  <2> QED
    BY <2>1, <2>2
<1>9. DumpsOK'
  <2> SUFFICES ASSUME NEW b \in backups', NEW e \in Known'
               PROVE  b.database.erased[e.subject] # 0 \/ CutInTwo(e)' \/ e \in undone'
                        \/ OpenAtDump(b.database.newest, e)'
    BY DEF DumpsOK, OpenAtDump
  <2>1. CASE b \in backups
    BY <1>1, <1>6, <1>7, <2>1 DEF LedgerIInv, DumpsOK
  <2>2. CASE b = new
    BY <1>1, <1>2, <1>6, <1>7, <1>8, <2>2
  <2> QED
    BY <1>1, <2>1, <2>2
<1>10. ServingOK'
  BY <1>1, <1>6, <1>7 DEF LedgerIInv, ServingOK
<1>11. RestoredOK'
  BY <1>1 DEF LedgerIInv, RestoredOK
<1> QED
  BY <1>4, <1>5, <1>9, <1>10, <1>11, LedgerHold

\* Restore keeps the invariant.
LEMMA RestoreOK ==
  ASSUME LedgerIInv, NEW b \in backups, Restore(b)
  PROVE  LedgerIInv'
<1>1. /\ database' = b.database /\ point' = b.at /\ serving' = FALSE
      /\ UNCHANGED <<hour, backups, bucket, undone>>
  BY DEF Restore
<1>2. LedgerTypeOK'
  BY <1>1, LedgerFacts DEF LedgerTypeOK
<1>3. QueuesOK'
  BY <1>1 DEF LedgerIInv, QueuesOK
<1>4. Known' \subseteq Known
  BY <1>1 DEF Known
<1>5. \A e, n : /\ CutInTwo(e) => CutInTwo(e)'
                /\ OpenAtDump(n, e) => OpenAtDump(n, e)'
  BY <1>1, ExcusesKept
<1>6. DumpsOK'
  BY <1>1, <1>4, <1>5 DEF LedgerIInv, DumpsOK
<1>7. RestoredOK' /\ ServingOK'
  BY <1>1 DEF RestoredOK, ServingOK
<1> QED
  BY <1>2, <1>3, <1>6, <1>7, LedgerHold

\* The entries that --since leaves out were erased already, or are one of the exceptions.
LEMMA ReapplyOK ==
  ASSUME LedgerIInv, NEW since \in {0, IF point > Margin THEN point - Margin ELSE 0}, Reapply(since)
  PROVE  LedgerIInv'
<1> DEFINE again == {c \in Subjects : database.erased[c] = 0 /\ \E e \in Listed(since) : e.subject = c}
           erased == [c \in Subjects |-> IF c \in again THEN hour ELSE database.erased[c]]
<1>1. /\ ~ serving /\ InWindow(since) /\ serving' = TRUE /\ point' = 0
      /\ database' = [database EXCEPT !.erased = erased, !.newest = hour]
      /\ undone' = undone \cup {e \in OnlyInADump : database'.erased[e.subject] = 0}
      /\ UNCHANGED <<hour, backups, bucket>>
  BY DEF Reapply
<1>2. hour \in Hours /\ 0 \in Hours /\ hour # 0
  BY LedgerFacts DEF Hours
<1>3. /\ erased \in [Subjects -> Hours]
      /\ \A c \in Subjects : c \in again => erased[c] = hour
      /\ \A c \in Subjects : c \notin again => erased[c] = database.erased[c]
  BY <1>2, LedgerFacts
<1>4. \A c \in Subjects : c \in again => database.erased[c] = 0
  OBVIOUS
<1>5. \A e \in bucket : e.at >= since /\ database.erased[e.subject] = 0 => e.subject \in again
  BY LedgerFacts DEF Listed
<1> HIDE DEF again, erased
<1>6. /\ database' \in DatabaseType /\ database'.erased = erased /\ database'.newest = hour
      /\ database'.queue = database.queue
  BY <1>1, <1>2, <1>3, LedgerFacts DEF DatabaseType
<1>7. undone \subseteq undone' /\ undone' \subseteq Entry
  BY <1>1, LedgerFacts DEF OnlyInADump
<1>8. LedgerTypeOK'
  BY <1>1, <1>2, <1>6, <1>7, LedgerFacts DEF LedgerTypeOK
<1>9. QueuesOK'
  <2>1. \A e \in database.queue : e.subject \notin again
    BY <1>4, LedgerFacts DEF LedgerIInv, QueuesOK
  <2> QED
    BY <1>1, <1>3, <1>6, <2>1, LedgerFacts DEF LedgerIInv, QueuesOK
<1>10. \A e, n : /\ CutInTwo(e) => CutInTwo(e)'
                 /\ OpenAtDump(n, e) => OpenAtDump(n, e)'
  BY <1>1, ExcusesKept
<1>11. ASSUME NEW e \in Known' PROVE e \in Known \/ (e.at = hour /\ erased[e.subject] = hour /\ e \in Entry)
  <2>1. \/ e \in bucket
        \/ e \in Entry /\ database'.erased[e.subject] = e.at
        \/ e \in Entry /\ \E b \in backups : b.database.erased[e.subject] = e.at
    BY <1>1, <1>11 DEF Known
  <2>2. CASE e \in Entry /\ database'.erased[e.subject] = e.at
    <3>1. e.subject \in Subjects /\ erased[e.subject] = e.at
      BY <1>6, <2>2, LedgerFacts
    <3>2. CASE e.subject \in again
      BY <1>3, <2>2, <3>1, <3>2
    <3>3. CASE e.subject \notin again
      BY <1>3, <2>2, <3>1, <3>3 DEF Known
    <3> QED
      BY <3>2, <3>3
  <2>3. CASE e \in bucket \/ (e \in Entry /\ \E b \in backups : b.database.erased[e.subject] = e.at)
    BY <2>3 DEF Known
  <2> QED
    BY <2>1, <2>2, <2>3
<1>12. DumpsOK'
  <2> SUFFICES ASSUME NEW b \in backups, NEW e \in Known'
               PROVE  b.database.erased[e.subject] # 0 \/ CutInTwo(e)' \/ e \in undone'
                        \/ OpenAtDump(b.database.newest, e)'
    BY <1>1 DEF DumpsOK, OpenAtDump
  <2>1. CASE e \in Known
    BY <1>7, <1>10, <2>1 DEF LedgerIInv, DumpsOK
  <2>2. CASE e.at = hour /\ e \in Entry
    <3>1. hour <= e.at + Lag
      BY <2>2, LedgerFacts
    <3> QED
      BY <1>10, <2>2, <3>1, OpenNow
  <2> QED
    BY <1>11, <2>1, <2>2
<1>13. ASSUME NEW e \in bucket, e.at < since, database.erased[e.subject] = 0
       PROVE  CutInTwo(e) \/ e \in undone
  <2>1. PICK r \in backups : /\ r.at = point /\ r.database.newest = database.newest
                             /\ r.database.erased = database.erased
    BY <1>1 DEF LedgerIInv, RestoredOK
  <2>2. e \in Known /\ e \in Entry
    BY LedgerFacts DEF Known
  <2>3. CutInTwo(e) \/ e \in undone \/ OpenAtDump(database.newest, e)
    BY <1>13, <2>1, <2>2 DEF LedgerIInv, DumpsOK
  <2>4. ASSUME OpenAtDump(database.newest, e) PROVE CutInTwo(e)
    <3>1. PICK o \in backups : o.database.newest = database.newest /\ o.at <= e.at + Lag
      BY <2>4 DEF OpenAtDump
    <3>2. e.at \in Int /\ point \in Int /\ database.newest \in Int /\ Margin \in Nat
      BY <2>2, LedgerFacts DEF Hours
    <3>3. since = point - Margin /\ since <= database.newest
      BY <1>1, <1>13, <2>2, <3>2, LedgerFacts DEF InWindow
    <3>4. e.at + Margin < r.at /\ r.at <= r.database.newest + Margin
      BY <1>13, <2>1, <3>2, <3>3
    <3> QED
      BY <1>13, <2>1, <3>1, <3>4 DEF CutInTwo
  <2> QED
    BY <2>3, <2>4
<1>14. ASSUME NEW e \in Known PROVE erased[e.subject] # 0 \/ CutInTwo(e) \/ e \in undone'
  <2>1. e \in Entry /\ e.subject \in Subjects /\ e.at \in Int /\ since \in Int /\ e.at # 0
    BY LedgerFacts DEF Hours
  <2>2. CASE database.erased[e.subject] # 0
    BY <1>3, <1>4, <2>1, <2>2
  <2>3. CASE e \in bucket /\ database.erased[e.subject] = 0
    <3>1. CASE e.at >= since
      BY <1>2, <1>3, <1>5, <2>1, <2>3, <3>1
    <3>2. CASE e.at < since
      BY <1>7, <1>13, <2>3, <3>2
    <3> QED
      BY <2>1, <3>1, <3>2
  <2>4. CASE e \notin bucket /\ database.erased[e.subject] = 0
    <3>1. e \in OnlyInADump
      BY <2>1, <2>4 DEF Known, OnlyInADump
    <3> QED
      BY <1>1, <1>6, <3>1
  <2> QED
    BY <2>2, <2>3, <2>4
<1>15. ServingOK'
  BY <1>2, <1>6, <1>10, <1>11, <1>14 DEF ServingOK
<1>16. RestoredOK'
  BY <1>1 DEF RestoredOK
<1> QED
  BY <1>8, <1>9, <1>12, <1>15, <1>16, LedgerHold

\* The invariant holds at the start.
LEMMA LedgerStart == LedgerInit => LedgerIInv
<1> SUFFICES ASSUME LedgerInit PROVE LedgerIInv
  OBVIOUS
<1>1. /\ hour = 1 /\ point = 0 /\ serving = TRUE /\ backups = {} /\ bucket = {} /\ undone = {}
      /\ database = [erased |-> [c \in Subjects |-> 0], newest |-> 0, queue |-> {}]
  BY DEF LedgerInit
<1>2. LedgerTypeOK
  BY <1>1, LedgerAssumption DEF LedgerTypeOK, DatabaseType, Hours
<1>3. Known = {}
  <2>1. \A e \in Entry : database.erased[e.subject] # e.at
    BY <1>1 DEF Entry
  <2> QED
    BY <1>1, <2>1 DEF Known
<1> QED
  BY <1>1, <1>2, <1>3 DEF LedgerIInv, QueuesOK, DumpsOK, RestoredOK, ServingOK

\* Every step keeps the invariant.
LEMMA LedgerPreserved == LedgerIInv /\ [LedgerNext]_ledgerVars => LedgerIInv'
<1> SUFFICES ASSUME LedgerIInv, [LedgerNext]_ledgerVars PROVE LedgerIInv'
  OBVIOUS
<1>1. CASE UNCHANGED ledgerVars
  <2>1. UNCHANGED <<hour, database, backups, bucket, serving, point, undone>>
    BY <1>1 DEF ledgerVars
  <2>2. LedgerTypeOK' /\ hour <= hour'
    BY <2>1, LedgerFacts DEF LedgerTypeOK
  <2>3. \A x \in database'.queue : database'.erased[x.subject] = x.at
    BY <2>1 DEF LedgerIInv, QueuesOK
  <2> QED
    BY <2>1, <2>2, <2>3, QuietLedger
<1>2. ASSUME NEW e \in database.queue, RecordGivesUp(e) \/ \E completes \in BOOLEAN : RecordErasure(e, completes)
      PROVE  LedgerIInv'
  BY <1>2, RecordGivesUpOK, RecordErasureOK
<1> QED
  BY <1>1, <1>2, EraseSubjectOK, BackfillOK, ActivityOK, HourPassesOK, BackupOK, RestoreOK, ReapplyOK
  DEF LedgerNext

\* However often the database is dumped and restored, and however many erasures are recorded, given up or
\* backfilled meanwhile (ledger.enqueue, record, backfill, read, check_window and reapply): while the API
\* runs, whoever the ledger names is erased, but for an erasure cut in two by a dump that was dumped again,
\* and one a restore took back before the ledger had it.
THEOREM LedgerSound == LedgerSpec => []LedgerInv
<1>1. LedgerIInv => LedgerInv
  <2>1. bucket \subseteq Known
    BY DEF Known
  <2> QED
    BY <2>1 DEF LedgerIInv, LedgerInv, ServingOK, ErasedStaysErased
<1> QED
  BY <1>1, LedgerStart, LedgerPreserved, PTL DEF LedgerSpec

-----------------------------------------------------------------------------
(* The currency *)

\* The inductive invariant.  What the last two conjuncts add: while a change holds the business's row
\* there is nothing it could strand, and a booking that has read its price has read the one shown.
CurrencyIInv ==
  /\ CurrencyTypeOK
  /\ OneCurrency /\ BookedAsShown
  /\ change.pc \in {"asked", "locked"} => change.to \in Currencies /\ changes < MaxChanges
  /\ BusinessLocked => sold = {} /\ payee = None
  /\ \A b \in Buyers : buyers[b].pc = "reading" => AsShown(buyers[b].shown, buyers[b].price)

\* The records of no change, no buyer and no connect are well formed.
LEMMA CurrencyFacts ==
  /\ None \notin Currencies
  /\ NoChange \in [pc : {"idle", "asked", "locked"}, to : Maybe, confirmed : 0 .. Cardinality(Prices)]
  /\ NoBuyer \in [pc : {"idle", "shown", "reading"}, shown : Maybe, price : Maybe]
  /\ NoConnect \in [pc : {"idle", "seen", "made"}, seen : Maybe]
<1>1. Cardinality(Prices) \in Nat
  BY CurrencyAssumption, FS_CardinalityType
<1> QED
  BY <1>1, CurrencyAssumption DEF None, Maybe, NoChange, NoBuyer, NoConnect

\* The invariant holds at the start.
LEMMA CurrencyInitOK == CurrencyInit => CurrencyIInv
<1> SUFFICES ASSUME CurrencyInit PROVE CurrencyIInv
  OBVIOUS
<1>1. currency \in Currencies
  BY CurrencyAssumption DEF CurrencyInit
<1>2. CurrencyTypeOK
  BY <1>1, CurrencyFacts, CurrencyAssumption DEF CurrencyInit, CurrencyTypeOK, Maybe
<1>3. Saved = {}
  BY DEF Saved, CurrencyInit
<1> QED
  BY <1>2, <1>3 DEF CurrencyInit, CurrencyIInv, OneCurrency, BookedAsShown, BusinessLocked, NoChange, NoBuyer

\* SavePrice keeps the invariant.
LEMMA SavePriceKeeps ==
  ASSUME CurrencyIInv, NEW s \in Prices, SavePrice(s)
  PROVE  CurrencyIInv'
<1> USE DEF SavePrice, CurrencyIInv
<1>1. CurrencyTypeOK'
  BY DEF CurrencyTypeOK, Maybe
<1>2. \A x \in Saved' : prices'[x] = currency'
  BY DEF Saved, OneCurrency, CurrencyTypeOK
<1> QED
  BY <1>1, <1>2 DEF OneCurrency, BookedAsShown, BusinessLocked, AsShown

\* ShowPrice keeps the invariant.
LEMMA ShowPriceKeeps ==
  ASSUME CurrencyIInv, NEW b \in Buyers, NEW s \in Prices, NEW sends \in BOOLEAN, ShowPrice(b, s, sends)
  PROVE  CurrencyIInv'
<1> DEFINE buyer == [NoBuyer EXCEPT !.pc = "shown", !.shown = IF sends THEN prices[s] ELSE None]
<1> USE DEF ShowPrice, CurrencyIInv
<1>1. buyer \in [pc : {"idle", "shown", "reading"}, shown : Maybe, price : Maybe] /\ buyer.pc = "shown"
  BY DEF CurrencyTypeOK, NoBuyer, Maybe
<1> HIDE DEF buyer
<1>2. buyers' = [buyers EXCEPT ![b] = buyer]
  BY DEF buyer
<1>3. CurrencyTypeOK'
  BY <1>1, <1>2 DEF CurrencyTypeOK
<1>4. \A x \in Buyers : buyers'[x].pc = "reading" => AsShown(buyers'[x].shown, buyers'[x].price)
  BY <1>1, <1>2 DEF CurrencyTypeOK
<1> QED
  BY <1>3, <1>4 DEF OneCurrency, BookedAsShown, BusinessLocked, AsShown, Saved

\* ReadPrice keeps the invariant.
LEMMA ReadPriceKeeps ==
  ASSUME CurrencyIInv, NEW b \in Buyers, NEW s \in Prices, ReadPrice(b, s)
  PROVE  CurrencyIInv'
<1> DEFINE buyer == IF AsShown(buyers[b].shown, prices[s])
                    THEN [buyers[b] EXCEPT !.pc = "reading", !.price = prices[s]] ELSE NoBuyer
<1> USE DEF ReadPrice, CurrencyIInv
<1>1. /\ buyer \in [pc : {"idle", "shown", "reading"}, shown : Maybe, price : Maybe]
      /\ buyer.pc = "reading" => AsShown(buyer.shown, buyer.price)
  BY CurrencyFacts DEF CurrencyTypeOK, NoBuyer
<1>2. buyers' = [buyers EXCEPT ![b] = buyer]
  BY DEF CurrencyTypeOK
<1> HIDE DEF buyer
<1>3. CurrencyTypeOK'
  BY <1>1, <1>2 DEF CurrencyTypeOK
<1>4. \A x \in Buyers : buyers'[x].pc = "reading" => AsShown(buyers'[x].shown, buyers'[x].price)
  BY <1>1, <1>2 DEF CurrencyTypeOK
<1> QED
  BY <1>3, <1>4 DEF OneCurrency, BookedAsShown, BusinessLocked, AsShown, Saved

\* Once the commit comes the price read is the business's currency, or the foreign key refuses.
LEMMA InsertBookingKeeps ==
  ASSUME CurrencyIInv, NEW b \in Buyers, InsertBooking(b)
  PROVE  CurrencyIInv'
<1> DEFINE new == [currency |-> currency, shown |-> buyers[b].shown]
<1> USE DEF InsertBooking, CurrencyIInv
<1>1. new \in [currency : Currencies, shown : Maybe]
  BY DEF CurrencyTypeOK
<1>2. CurrencyTypeOK'
  BY <1>1, CurrencyFacts DEF CurrencyTypeOK
<1>3. OneCurrency'
  BY DEF OneCurrency, Saved
<1>4. BookedAsShown'
  BY DEF BookedAsShown, AsShown
<1>5. \A x \in Buyers : buyers'[x].pc = "reading" => AsShown(buyers'[x].shown, buyers'[x].price)
  BY DEF CurrencyTypeOK, NoBuyer
<1> QED
  BY <1>2, <1>3, <1>4, <1>5 DEF BusinessLocked, AsShown

\* BookingFails keeps the invariant.
LEMMA BookingFailsKeeps ==
  ASSUME CurrencyIInv, NEW b \in Buyers, BookingFails(b)
  PROVE  CurrencyIInv'
<1> USE DEF BookingFails, CurrencyIInv
<1>1. CurrencyTypeOK'
  BY CurrencyFacts DEF CurrencyTypeOK
<1>2. \A x \in Buyers : buyers'[x].pc = "reading" => AsShown(buyers'[x].shown, buyers'[x].price)
  BY DEF CurrencyTypeOK, NoBuyer
<1> QED
  BY <1>1, <1>2 DEF OneCurrency, BookedAsShown, BusinessLocked, AsShown, Saved

\* Each step of connect keeps the invariant: the account is stored only in the currency there is then.
LEMMA ConnectKeeps ==
  ASSUME CurrencyIInv, NEW o \in Connects, SeeBusiness(o) \/ CreateAccount(o) \/ StoreAccount(o)
  PROVE  CurrencyIInv'
<1> USE CurrencyFacts DEF CurrencyIInv
<1>1. CASE SeeBusiness(o)
  <2>1. CurrencyTypeOK'
    BY <1>1 DEF SeeBusiness, CurrencyTypeOK, Maybe
  <2> QED
    BY <1>1, <2>1 DEF SeeBusiness, OneCurrency, BookedAsShown, BusinessLocked, AsShown, Saved
<1>2. CASE CreateAccount(o)
  <2>1. CurrencyTypeOK'
    BY <1>2 DEF CreateAccount, CurrencyTypeOK
  <2> QED
    BY <1>2, <2>1 DEF CreateAccount, OneCurrency, BookedAsShown, BusinessLocked, AsShown, Saved
<1>3. CASE StoreAccount(o)
  <2>1. CurrencyTypeOK'
    BY <1>3 DEF StoreAccount, CurrencyTypeOK
  <2>2. OneCurrency'
    BY <1>3 DEF StoreAccount, AccountFits, OneCurrency, Saved
  <2> QED
    BY <1>3, <2>1, <2>2 DEF StoreAccount, BookedAsShown, BusinessLocked, AsShown
<1> QED
  BY <1>1, <1>2, <1>3

\* AskChange keeps the invariant.
LEMMA AskChangeKeeps ==
  ASSUME CurrencyIInv, NEW to \in Currencies, NEW confirmed \in 0 .. Cardinality(Prices),
         AskChange(to, confirmed)
  PROVE  CurrencyIInv'
<1> USE DEF AskChange, CurrencyIInv
<1>1. CurrencyTypeOK'
  BY DEF CurrencyTypeOK, Maybe
<1> QED
  BY <1>1 DEF OneCurrency, BookedAsShown, BusinessLocked, AsShown, Saved

\* LockBusiness keeps the invariant.
LEMMA LockBusinessKeeps ==
  ASSUME CurrencyIInv, LockBusiness
  PROVE  CurrencyIInv'
<1> USE DEF LockBusiness, CurrencyIInv
<1>1. CurrencyTypeOK'
  BY CurrencyFacts DEF CurrencyTypeOK
<1>2. change'.pc \in {"asked", "locked"} =>
        change'.pc = "locked" /\ change'.to = change.to /\ sold = {} /\ payee = None
  BY DEF NoChange, CurrencyTypeOK
<1> QED
  BY <1>1, <1>2 DEF OneCurrency, BookedAsShown, BusinessLocked, AsShown, Saved

\* The change: nothing is sold and nobody is paid while it holds the row, and every price goes along.
LEMMA CommitChangeKeeps ==
  ASSUME CurrencyIInv, CommitChange
  PROVE  CurrencyIInv'
<1> USE DEF CommitChange, CurrencyIInv
<1>1. change.to \in Currencies /\ sold = {} /\ payee = None
  BY DEF BusinessLocked
<1>2. changes' \in 0 .. MaxChanges
  BY CurrencyAssumption DEF CurrencyTypeOK
<1>3. CurrencyTypeOK'
  BY <1>1, <1>2, CurrencyFacts DEF CurrencyTypeOK, Maybe
<1>4. OneCurrency'
  BY <1>1, CurrencyFacts DEF OneCurrency, Saved, None
<1> QED
  BY <1>1, <1>3, <1>4 DEF BookedAsShown, BusinessLocked, AsShown, NoChange

\* AbortChange keeps the invariant.
LEMMA AbortChangeKeeps ==
  ASSUME CurrencyIInv, AbortChange
  PROVE  CurrencyIInv'
<1> USE DEF AbortChange, CurrencyIInv
<1>1. CurrencyTypeOK'
  BY CurrencyFacts DEF CurrencyTypeOK
<1> QED
  BY <1>1 DEF OneCurrency, BookedAsShown, BusinessLocked, AsShown, Saved, NoChange

\* Every step keeps the invariant.
LEMMA CurrencyNextKeeps ==
  ASSUME CurrencyIInv, [CurrencyNext]_currencyVars
  PROVE  CurrencyIInv'
<1>1. CASE CurrencyNext
  BY <1>1, SavePriceKeeps, ShowPriceKeeps, ReadPriceKeeps, InsertBookingKeeps, BookingFailsKeeps,
     ConnectKeeps, AskChangeKeeps, LockBusinessKeeps, CommitChangeKeeps, AbortChangeKeeps
     DEF CurrencyNext
<1>2. CASE UNCHANGED currencyVars
  BY <1>2 DEF currencyVars, CurrencyIInv, CurrencyTypeOK, OneCurrency, BookedAsShown, BusinessLocked,
              AsShown, Saved
<1> QED
  BY <1>1, <1>2

\* Wherever a change of the currency falls between a look at the business and the write that follows, a
\* call to Stripe included: the prices, the bookings and the Stripe account are in its currency, and a
\* booking is in the one the client was shown (change_currency, create and connect).
THEOREM CurrencySound == CurrencySpec => []CurrencyInv
<1>1. CurrencyIInv => CurrencyInv
  BY DEF CurrencyIInv, CurrencyInv
<1> QED
  BY <1>1, CurrencyInitOK, CurrencyNextKeeps, PTL DEF CurrencySpec

=============================================================================
