---------------------------- MODULE IntakeProofs ----------------------------
(***************************************************************************)
(* Theorems about Intake, for any medias, buckets, uploads and faults, and *)
(* any number of finalise and delete requests.                             *)
(***************************************************************************)
EXTENDS Intake, TLAPS

-----------------------------------------------------------------------------
(* What holds whatever fails and overlaps *)

\* A row of m, in the table or in the hands of a request: the worker has not
\* touched it.
RowOf(m, row) ==
  /\ row \in Row
  /\ row.key.media = m
  /\ row.optimised = FALSE
  /\ row.variants = <<>>
  /\ row.status = "completed" => row.meta \in Blobs /\ row.key.ext # ""

\* The key a finalise saves under.
KeyOf(s) == FileKey(s.id, MimeTypeToExtension(s.info.type))

\* What a finalise knows, at each program counter.
FinaliserLocal(s) ==
  /\ s.pc # "idle" => /\ s.id \in Medias
                      /\ s.dest \in Buckets
                      /\ RowOf(s.id, s.media)
                      /\ s.media.status = "pending"
  /\ s.pc \in {"read", "save", "unstage", "update", "undo", "enqueue"} =>
       s.info \in U!Info /\ s.info.type \in AllowedMimeTypes
  /\ s.pc \in {"save", "unstage", "update", "undo"} => s.meta \in Blobs

DeleterLocal(s) ==
  /\ s.pc # "idle" => s.id \in Medias /\ RowOf(s.id, s.media)
  /\ s.pc = "variants" => s.i # 0
  /\ s.answer = "ok" => s.id \in Medias

\* A media nobody has asked for yet: no request can be at work on it.
Known(m, links) == links[m] # "unused"

RowsOK ==
  /\ db \in [Medias -> Row \cup {NoRow}]
  /\ \A m \in Medias : db[m] # NoRow => RowOf(m, db[m]) /\ Known(m, link)

StoresOK ==
  /\ store \in [Buckets -> [Key -> Object \cup {NoObject}]]
  /\ tasks \in [Task -> Nat]
  /\ link \in [Medias -> U!LinkState]

FinalisersOK ==
  /\ fin \in [Finalisers -> U!FinaliserState]
  /\ \A f \in Finalisers :
       /\ FinaliserLocal(fin[f])
       /\ fin[f].pc # "idle" => Known(fin[f].id, link)

\* What was deleted is gone for good: its id is not handed out a second time.
DeletersOK ==
  /\ del \in [Deleters -> DeleterState]
  /\ \A d \in Deleters :
       /\ DeleterLocal(del[d])
       /\ del[d].pc # "idle" \/ del[d].answer = "ok" => Known(del[d].id, link)
       /\ del[d].pc \in {"uncache", "uncache_etag"} \/ del[d].answer = "ok" =>
            db[del[d].id] = NoRow

RacesOK ==
  /\ raced \subseteq Medias
  /\ \A m \in raced : Known(m, link)
  /\ \A m \in Medias : Finalising(m) /\ Deleting(m) => m \in raced

IInv == RowsOK /\ StoresOK /\ FinalisersOK /\ DeletersOK /\ RacesOK

-----------------------------------------------------------------------------
(* What holds when clients finalise a media once at a time *)

\* The calls whose failure leaves a file, or a completed media without a task.
FilesAreKept == Faults \cap {"undo", "save_unsure", "crash"} = {}
TasksAreKept == Faults \cap {"enqueue", "mark", "crash"} = {}

Alone ==
  \A f, g \in Finalisers :
    fin[f].pc # "idle" /\ fin[g].pc # "idle" /\ fin[f].id = fin[g].id => f = g

\* The row a finalise at work may find: deleted meanwhile, or left as the finalise
\* itself has written it.
HoldsRow(s, row, races) ==
  /\ row = NoRow => s.id \in races
  /\ row # NoRow =>
       /\ s.pc \in {"stat", "read", "save", "unstage", "update"} =>
            row.status = "pending"
       /\ s.pc \in {"undo", "cleanup", "mark"} =>
            row.status \in {"pending", "completed"}
       /\ s.pc = "enqueue" =>
            row.status = "completed" /\ row.bucket = s.dest /\ row.key = KeyOf(s)

\* Outside the staging key, m has no file but the one under k in b.
OnlyFile(m, b, k, files) ==
  \A c \in Buckets, e \in Extensions \ {""} :
    files[c][FileKey(m, e)] # NoObject => c = b /\ FileKey(m, e) = k

NoFile(m, files) ==
  \A c \in Buckets, e \in Extensions \ {""} : files[c][FileKey(m, e)] = NoObject

HoldsFiles(s, files) ==
  /\ s.pc \in {"stat", "read", "save", "cleanup", "mark"} => NoFile(s.id, files)
  /\ s.pc \in {"unstage", "update", "undo", "enqueue"} =>
       OnlyFile(s.id, s.dest, KeyOf(s), files)

Holds(s, row, files, queued, races) ==
  /\ HoldsRow(s, row, races)
  /\ FilesAreKept => HoldsFiles(s, files)
  /\ TasksAreKept => queued = 0

\* What a media no finalise is at work on has left: files its row names, unless it
\* was deleted in a race, and one task if it was accepted.
RestFiles(m, row, files, races) ==
  \/ row = NoRow /\ m \in races
  \/ row # NoRow /\ row.status = "completed" /\ OnlyFile(m, row.bucket, row.key, files)
  \/ NoFile(m, files)

RestTasks(row, queued) ==
  IF row = NoRow THEN queued <= 1
  ELSE queued = IF row.status = "completed" THEN 1 ELSE 0

Rest(m, row, files, queued, races) ==
  /\ FilesAreKept => RestFiles(m, row, files, races)
  /\ TasksAreKept => RestTasks(row, queued)

\* What a delete request that raced with no finalise has gone through is gone.
Clears(s, row, files) ==
  s.pc \in {"variants", "row"} =>
    /\ row # NoRow => row = s.media
    /\ s.pc = "row" /\ s.media.status = "completed" =>
         files[s.media.bucket][s.media.key] = NoObject

WorksOn(s, m) == s.pc # "idle" /\ s.id = m

Queued(m) == tasks[OptimiseTask(m)]

CalmInv ==
  /\ IInv
  /\ Alone
  /\ \A m \in Medias, f \in Finalisers :
       WorksOn(fin[f], m) => Holds(fin[f], db[m], store, Queued(m), raced)
  /\ \A m \in Medias : ~Finalising(m) => Rest(m, db[m], store, Queued(m), raced)
  /\ \A m \in Medias : ~Known(m, link) => Queued(m) = 0
  /\ \A m \in Medias, d \in Deleters :
       WorksOn(del[d], m) /\ m \notin raced => Clears(del[d], db[m], store)

-----------------------------------------------------------------------------
(* Facts about the data *)

\* The operators of Upload are those of the modules it shares with Deletion.
LEMMA SameData ==
  /\ U!Row = Row /\ U!Key = Key /\ U!Object = Object /\ U!Task = Task
  /\ U!Extensions = Extensions
  /\ U!AllowedMimeTypes = AllowedMimeTypes /\ U!MimeTypes = MimeTypes
<1>1. U!Extensions = Extensions
  BY DEF U!Extensions, Extensions
<1>2. U!AllowedMimeTypes = AllowedMimeTypes
  BY DEF U!AllowedMimeTypes, AllowedMimeTypes
<1>3. U!MimeTypes = MimeTypes
  BY <1>2 DEF U!MimeTypes, MimeTypes
<1>4. U!Key = Key
  BY <1>1 DEF U!Key, Key
<1>5. U!Object = Object
  BY <1>3 DEF U!Object, Object
<1>6. U!Task = Task
  BY DEF U!Task, Task, U!TaskKinds, TaskKinds
<1>7. U!Variant = Variant
  BY <1>4 DEF U!Variant, Variant
<1>8. U!Row = Row
  BY <1>2, <1>4, <1>7 DEF U!Row, Row, U!Status, Status
<1> QED
  BY <1>1, <1>2, <1>3, <1>4, <1>5, <1>6, <1>8

LEMMA UploadFacts ==
  /\ Uploads \subseteq Object
  /\ Faults \subseteq U!AllFaults
  /\ Nil \notin Medias /\ Nil \notin Buckets
  BY SameData, IntakeAssumption DEF U!UploadAssumption

LEMMA NilFacts == NoRow \notin Row /\ NoObject \notin Object /\ Nil \notin Row
  BY NilAssumption

LEMMA FileKeyFacts ==
  ASSUME NEW m \in Medias, NEW e \in Extensions
  PROVE  /\ FileKey(m, e) \in Key
         /\ FileKey(m, e).media = m
         /\ FileKey(m, e).ext = e
  BY DEF FileKey, Key

LEMMA RawKeyFacts ==
  ASSUME NEW m \in Medias
  PROVE  /\ U!RawKey(m) = FileKey(m, "")
         /\ FileKey(m, "") \in Key
         /\ FileKey(m, "").media = m
         /\ FileKey(m, "").ext = ""
  BY FileKeyFacts DEF U!RawKey, U!FileKey, FileKey, Extensions

LEMMA MimeFacts ==
  ASSUME NEW mime \in AllowedMimeTypes
  PROVE  /\ U!MimeTypeToExtension(mime) = MimeTypeToExtension(mime)
         /\ MimeTypeToExtension(mime) \in Extensions \ {""}
         /\ mime \in MimeTypes
  BY DEF AllowedMimeTypes, MimeTypeToExtension, U!MimeTypeToExtension,
         Extensions, MimeTypes

LEMMA RowFacts ==
  ASSUME NEW m, NEW row, RowOf(m, row)
  PROVE  /\ row \in Row
         /\ row.key \in Key /\ row.key.media = m
         /\ row.bucket \in Buckets
         /\ row.status \in {"pending", "completed", "failed"}
         /\ row # NoRow
  BY NilFacts DEF RowOf, Row, Status

LEMMA NewRowFacts ==
  ASSUME NEW m \in Medias
  PROVE  /\ RowOf(m, U!PendingRow(m))
         /\ U!PendingRow(m).status = "pending"
<1>1. <<>> \in Seq(Variant)
  OBVIOUS
<1> QED
  BY <1>1, RawKeyFacts, BucketsAssumption
  DEF U!PendingRow, RowOf, Row, Status

\* The row moveFile writes.
CompletedOf(s) ==
  [s.media EXCEPT !.key = KeyOf(s), !.bucket = s.dest, !.status = "completed",
                  !.size = s.info.size, !.mime = s.info.type, !.meta = s.meta]

LEMMA KeyFacts ==
  ASSUME NEW s, FinaliserLocal(s),
         s.pc \in {"read", "save", "unstage", "update", "undo", "enqueue"}
  PROVE  /\ KeyOf(s) \in Key
         /\ KeyOf(s).media = s.id
         /\ KeyOf(s).ext # ""
         /\ KeyOf(s).ext \in Extensions
         /\ KeyOf(s) = FileKey(s.id, KeyOf(s).ext)
<1>1. s.id \in Medias /\ s.info.type \in AllowedMimeTypes
  BY DEF FinaliserLocal
<1>2. PICK e \in Extensions \ {""} : e = MimeTypeToExtension(s.info.type)
  BY <1>1, MimeFacts
<1>3. KeyOf(s) = FileKey(s.id, e)
  BY <1>2 DEF KeyOf
<1>4. /\ FileKey(s.id, e) \in Key
      /\ FileKey(s.id, e).media = s.id
      /\ FileKey(s.id, e).ext = e
  BY <1>1, FileKeyFacts
<1> QED
  BY <1>3, <1>4

LEMMA CompletedFacts ==
  ASSUME NEW s, FinaliserLocal(s), s.pc = "update"
  PROVE  /\ RowOf(s.id, CompletedOf(s))
         /\ CompletedOf(s).status = "completed"
         /\ CompletedOf(s).bucket = s.dest
         /\ CompletedOf(s).key = KeyOf(s)
         /\ CompletedOf(s).meta = s.meta
<1>1. /\ s.dest \in Buckets /\ s.meta \in Blobs
      /\ s.info.type \in AllowedMimeTypes /\ s.info.size \in Nat
      /\ RowOf(s.id, s.media)
  BY DEF FinaliserLocal, U!Info
<1>2. KeyOf(s) \in Key /\ KeyOf(s).media = s.id /\ KeyOf(s).ext # ""
  BY KeyFacts
<1> QED
  BY <1>1, <1>2 DEF CompletedOf, RowOf, Row, Status

LEMMA FailedFacts ==
  ASSUME NEW s, FinaliserLocal(s), s.pc = "mark"
  PROVE  /\ RowOf(s.id, [s.media EXCEPT !.status = "failed"])
         /\ [s.media EXCEPT !.status = "failed"].status = "failed"
  BY DEF FinaliserLocal, RowOf, Row, Status

\* A finalise at work, in the terms of the database and storage it shares.
LEMMA AtWork ==
  ASSUME FinalisersOK, NEW f \in Finalisers, fin[f].pc # "idle"
  PROVE  /\ fin[f] \in U!FinaliserState
         /\ FinaliserLocal(fin[f])
         /\ fin[f].id \in Medias
         /\ fin[f].dest \in Buckets
         /\ RowOf(fin[f].id, fin[f].media)
         /\ fin[f].media.status = "pending"
         /\ Known(fin[f].id, link)
         /\ fin[f].pc \in {"read", "save", "unstage", "update", "undo", "enqueue"} =>
              U!NewKey(f) = KeyOf(fin[f])
         /\ U!CompletedRow(f) = CompletedOf(fin[f]) \/ fin[f].pc # "update"
<1>1. FinaliserLocal(fin[f]) /\ fin[f] \in U!FinaliserState /\ Known(fin[f].id, link)
  BY DEF FinalisersOK
<1>2. ASSUME fin[f].pc \in {"read", "save", "unstage", "update", "undo", "enqueue"}
      PROVE  U!NewKey(f) = KeyOf(fin[f])
  BY <1>1, <1>2, MimeFacts DEF U!NewKey, KeyOf, U!FileKey, FileKey, FinaliserLocal
<1>3. fin[f].pc = "update" => U!CompletedRow(f) = CompletedOf(fin[f])
  BY <1>2 DEF U!CompletedRow, CompletedOf
<1> QED
  BY <1>1, <1>2, <1>3 DEF FinaliserLocal

-----------------------------------------------------------------------------
(* The steps of a finalise, in the same terms: what it is before and after its *)
(* call, and what the call does                                                *)

Probed(s, t) ==
  /\ \/ s.pc = "stat" /\ t.pc \in {"read", "cleanup"}
     \/ s.pc = "read" /\ t.pc \in {"save", "cleanup"}
  /\ UNCHANGED <<db, store, tasks>>

Saved(s, t) ==
  /\ s.pc = "save"
  /\ \/ /\ \E o \in Object : StoreSave(s.dest, KeyOf(s), o)
        /\ \/ t.pc = "unstage"
           \/ t.pc = "cleanup" /\ "save_unsure" \in Faults
     \/ UNCHANGED store /\ t.pc = "cleanup"
  /\ UNCHANGED <<db, tasks>>

Unstaged(s, t) ==
  /\ \/ s.pc = "unstage" /\ t.pc = "update"
     \/ s.pc = "cleanup" /\ t.pc = "mark"
  /\ StoreRemove(Staging, s.media.key) \/ UNCHANGED store
  /\ UNCHANGED <<db, tasks>>

Updated(s, t) ==
  /\ s.pc = "update"
  /\ \/ RepoUpdate(s.id, CompletedOf(s)) /\ t.pc \in {"enqueue", "undo"}
     \/ UNCHANGED db /\ t.pc = "undo"
  /\ UNCHANGED <<store, tasks>>

Undone(s, t) ==
  /\ s.pc = "undo" /\ t.pc = "cleanup"
  /\ \/ StoreRemove(s.dest, KeyOf(s))
     \/ "undo" \in Faults /\ UNCHANGED store
  /\ UNCHANGED <<db, tasks>>

Enqueued(s, t) ==
  /\ s.pc = "enqueue" /\ t.pc = "idle"
  /\ \/ Enqueue(OptimiseTask(s.id))
     \/ "enqueue" \in Faults /\ UNCHANGED tasks
  /\ UNCHANGED <<db, store>>

Marked(s, t) ==
  /\ s.pc = "mark" /\ t.pc = "idle"
  /\ \/ RepoUpdate(s.id, [s.media EXCEPT !.status = "failed"])
     \/ "mark" \in Faults /\ UNCHANGED db
  /\ UNCHANGED <<store, tasks>>

Call(s, t) ==
  \/ Probed(s, t) \/ Saved(s, t) \/ Unstaged(s, t) \/ Updated(s, t)
  \/ Undone(s, t) \/ Enqueued(s, t) \/ Marked(s, t)

\* Finalise f is t after the step; it is at work on the same media as before.
Becomes(f, t) ==
  /\ t \in U!FinaliserState /\ FinaliserLocal(t)
  /\ fin' = [fin EXCEPT ![f] = t]
  /\ link' = link
  /\ t.id = fin[f].id
  /\ t.pc # "idle" => t.dest = fin[f].dest
  /\ t.pc # "idle" /\ fin[f].pc # "stat" => KeyOf(t) = KeyOf(fin[f])

LEMMA GotoBecomes ==
  ASSUME FinalisersOK, NEW f \in Finalisers, fin[f].pc # "idle",
         NEW pc \in U!Active, U!Goto(f, pc), UNCHANGED link,
         FinaliserLocal([fin[f] EXCEPT !.pc = pc])
  PROVE  \E t : Becomes(f, t) /\ t.pc = pc
<1> DEFINE t == [fin[f] EXCEPT !.pc = pc]
<1>1. fin[f] \in U!FinaliserState
  BY DEF FinalisersOK
<1>2. /\ t.pc = pc /\ t.id = fin[f].id /\ t.dest = fin[f].dest
      /\ t.info = fin[f].info
  BY <1>1 DEF U!FinaliserState
<1>3. t \in U!FinaliserState
  BY <1>1 DEF U!FinaliserState
<1>4. fin' = [fin EXCEPT ![f] = t]
  BY DEF U!Goto
<1>5. FinaliserLocal(t)
  OBVIOUS
<1> HIDE DEF t
<1>6. KeyOf(t) = KeyOf(fin[f])
  BY <1>2 DEF KeyOf
<1>7. Becomes(f, t)
  BY <1>2, <1>3, <1>4, <1>5, <1>6 DEF Becomes
<1> QED
  BY <1>2, <1>7

LEMMA CleanupBecomes ==
  ASSUME FinalisersOK, NEW f \in Finalisers, fin[f].pc # "idle",
         NEW pc \in {"cleanup", "mark"}, U!Goto(f, pc), UNCHANGED link
  PROVE  \E t : Becomes(f, t) /\ t.pc = pc
<1>1. fin[f] \in U!FinaliserState /\ FinaliserLocal(fin[f])
  BY AtWork
<1>2. FinaliserLocal([fin[f] EXCEPT !.pc = pc])
  BY <1>1 DEF FinaliserLocal, U!FinaliserState
<1>3. pc \in U!Active
  BY DEF U!Active
<1> QED
  BY <1>2, <1>3, GotoBecomes

LEMMA FinishBecomes ==
  ASSUME FinalisersOK, NEW f \in Finalisers, fin[f].pc # "idle",
         NEW reply \in U!Reply, U!Finish(f, reply), UNCHANGED link
  PROVE  \E t : Becomes(f, t) /\ t.pc = "idle"
<1> DEFINE t == U!Idle(reply, fin[f].id)
<1>1. fin[f].id \in Medias
  BY AtWork
<1>2. t \in U!FinaliserState /\ t.pc = "idle" /\ t.id = fin[f].id
  BY <1>1 DEF U!Idle, U!FinaliserState
<1>3. fin' = [fin EXCEPT ![f] = t]
  BY DEF U!Finish
<1> HIDE DEF t
<1>4. FinaliserLocal(t)
  BY <1>2 DEF FinaliserLocal
<1> QED
  BY <1>2, <1>3, <1>4 DEF Becomes

LEMMA StagedFacts ==
  ASSUME FinalisersOK, StoresOK, NEW f \in Finalisers, fin[f].pc # "idle",
         U!Staged(f) # NoObject
  PROVE  U!Staged(f).type \in MimeTypes /\ U!Staged(f).blob \in Blobs
<1>1. fin[f].media.key \in Key /\ Staging \in Buckets
  BY AtWork, RowFacts, BucketsAssumption
<1>2. U!Staged(f) \in Object
  BY <1>1 DEF U!Staged, StoresOK
<1> QED
  BY <1>2 DEF Object

LEMMA StatFileIs ==
  ASSUME FinalisersOK, StoresOK, NEW f \in Finalisers, U!StatFile(f)
  PROVE  \E t : Becomes(f, t) /\ Probed(fin[f], t)
<1>1. fin[f].pc = "stat" /\ UNCHANGED <<db, store, tasks, link>>
  BY DEF U!StatFile
<1>2. CASE U!Goto(f, "cleanup")
  <2>1. PICK t : Becomes(f, t) /\ t.pc = "cleanup"
    BY <1>1, <1>2, CleanupBecomes
  <2> QED
    BY <1>1, <2>1 DEF Probed
<1>3. CASE ~U!Goto(f, "cleanup")
  <2>1. /\ U!Staged(f) # NoObject
        /\ U!IsMimeTypeAllowed(U!Staged(f).type)
        /\ fin' = [fin EXCEPT ![f].pc = "read",
                     ![f].info = [type |-> U!Staged(f).type,
                                  size |-> Size[U!Staged(f).blob]]]
    BY <1>3 DEF U!StatFile
  <2>2. U!Staged(f).type \in AllowedMimeTypes
    BY <2>1, SameData DEF U!IsMimeTypeAllowed
  <2> DEFINE i == [type |-> U!Staged(f).type, size |-> Size[U!Staged(f).blob]]
  <2>3. i \in U!Info /\ i.type \in AllowedMimeTypes
    BY <1>1, <2>1, <2>2, StagedFacts, SameData, BlobsAssumption DEF U!Info
  <2>4. fin' = [fin EXCEPT ![f].pc = "read", ![f].info = i]
    BY <2>1
  <2> HIDE DEF i
  <2> DEFINE t == [fin[f] EXCEPT !.pc = "read", !.info = i]
  <2>5. fin[f] \in U!FinaliserState /\ FinaliserLocal(fin[f])
    BY <1>1, AtWork
  <2>6. t \in U!FinaliserState
    BY <2>3, <2>5 DEF U!FinaliserState, U!Active
  <2>7. /\ t.pc = "read" /\ t.info = i /\ t.id = fin[f].id
        /\ t.dest = fin[f].dest /\ t.media = fin[f].media
    BY <2>5 DEF U!FinaliserState
  <2>8. fin' = [fin EXCEPT ![f] = t]
    BY <2>4, <2>5 DEF FinalisersOK
  <2> HIDE DEF t
  <2>9. FinaliserLocal(t)
    BY <1>1, <2>3, <2>5, <2>7 DEF FinaliserLocal
  <2> QED
    BY <1>1, <2>6, <2>7, <2>8, <2>9 DEF Becomes, Probed
<1> QED
  BY <1>2, <1>3

LEMMA ReadMetadataIs ==
  ASSUME FinalisersOK, StoresOK, NEW f \in Finalisers, U!ReadMetadata(f)
  PROVE  \E t : Becomes(f, t) /\ Probed(fin[f], t)
<1>1. fin[f].pc = "read" /\ UNCHANGED <<db, store, tasks, link>>
  BY DEF U!ReadMetadata
<1>2. CASE U!Goto(f, "cleanup")
  <2>1. PICK t : Becomes(f, t) /\ t.pc = "cleanup"
    BY <1>1, <1>2, CleanupBecomes
  <2> QED
    BY <1>1, <2>1 DEF Probed
<1>3. CASE ~U!Goto(f, "cleanup")
  <2>1. /\ U!Staged(f) # NoObject
        /\ fin' = [fin EXCEPT ![f].pc = "save", ![f].meta = U!Staged(f).blob]
    BY <1>3 DEF U!ReadMetadata
  <2>2. PICK blob \in Blobs : blob = U!Staged(f).blob
    BY <1>1, <2>1, StagedFacts
  <2> DEFINE t == [fin[f] EXCEPT !.pc = "save", !.meta = blob]
  <2>3. fin[f] \in U!FinaliserState /\ FinaliserLocal(fin[f])
    BY <1>1, AtWork
  <2>4. t \in U!FinaliserState
    BY <2>3 DEF U!FinaliserState, U!Active
  <2>5. /\ t.pc = "save" /\ t.info = fin[f].info /\ t.id = fin[f].id
        /\ t.dest = fin[f].dest /\ t.media = fin[f].media /\ t.meta = blob
    BY <2>3 DEF U!FinaliserState
  <2>6. fin' = [fin EXCEPT ![f] = t]
    BY <2>1, <2>2, <2>3 DEF FinalisersOK
  <2> HIDE DEF t
  <2>7. FinaliserLocal(t) /\ KeyOf(t) = KeyOf(fin[f])
    BY <1>1, <2>3, <2>5 DEF FinaliserLocal, KeyOf
  <2> QED
    BY <1>1, <2>4, <2>5, <2>6, <2>7 DEF Becomes, Probed
<1> QED
  BY <1>2, <1>3

LEMMA SaveFileIs ==
  ASSUME FinalisersOK, StoresOK, NEW f \in Finalisers, U!SaveFile(f)
  PROVE  \E t : Becomes(f, t) /\ Saved(fin[f], t)
<1>1. fin[f].pc = "save" /\ UNCHANGED <<db, tasks, link>>
  BY DEF U!SaveFile
<1>2. /\ fin[f] \in U!FinaliserState /\ FinaliserLocal(fin[f])
      /\ U!NewKey(f) = KeyOf(fin[f])
  BY <1>1, AtWork
<1>3. CASE /\ U!Rewinds(f)
           /\ U!StoreSave(fin[f].dest, U!NewKey(f), U!SavedObject(f))
  <2>1. U!SavedObject(f) \in Object
    BY <1>1, <1>2, <1>3, StagedFacts, MimeFacts
    DEF U!SavedObject, U!Rewinds, FinaliserLocal, Object
  <2>2. \E o \in Object : StoreSave(fin[f].dest, KeyOf(fin[f]), o)
    BY <1>2, <1>3, <2>1 DEF U!StoreSave, StoreSave
  <2>3. CASE U!Goto(f, "unstage")
    <3>1. FinaliserLocal([fin[f] EXCEPT !.pc = "unstage"])
      BY <1>1, <1>2 DEF FinaliserLocal, U!FinaliserState
    <3>2. PICK t : Becomes(f, t) /\ t.pc = "unstage"
      BY <1>1, <2>3, <3>1, GotoBecomes DEF U!Active
    <3> QED
      BY <1>1, <2>2, <3>2 DEF Saved
  <2>4. CASE "save_unsure" \in Faults /\ U!Goto(f, "cleanup")
    <3>1. PICK t : Becomes(f, t) /\ t.pc = "cleanup"
      BY <1>1, <2>4, CleanupBecomes
    <3> QED
      BY <1>1, <2>2, <2>4, <3>1 DEF Saved
  <2>5. CASE U!Goto(f, "cleanup") /\ UNCHANGED store
    <3>1. PICK t : Becomes(f, t) /\ t.pc = "cleanup"
      BY <1>1, <2>5, CleanupBecomes
    <3> QED
      BY <1>1, <2>5, <3>1 DEF Saved
  <2> QED
    BY <1>3, <2>3, <2>4, <2>5 DEF U!SaveFile
<1>4. CASE U!Goto(f, "cleanup") /\ UNCHANGED store
  <2>1. PICK t : Becomes(f, t) /\ t.pc = "cleanup"
    BY <1>1, <1>4, CleanupBecomes
  <2> QED
    BY <1>1, <1>4, <2>1 DEF Saved
<1> QED
  BY <1>3, <1>4 DEF U!SaveFile

LEMMA RemoveStagedIs ==
  ASSUME FinalisersOK, NEW f \in Finalisers,
         U!RemoveStaged(f) \/ U!CleanupFile(f)
  PROVE  \E t : Becomes(f, t) /\ Unstaged(fin[f], t)
<1>1. /\ fin[f].pc # "idle"
      /\ StoreRemove(Staging, fin[f].media.key) \/ UNCHANGED store
      /\ UNCHANGED <<db, tasks, link>>
  BY DEF U!RemoveStaged, U!CleanupFile, U!StoreRemove, StoreRemove
<1>2. CASE U!RemoveStaged(f)
  <2>1. fin[f].pc = "unstage" /\ U!Goto(f, "update")
    BY <1>2 DEF U!RemoveStaged
  <2>2. FinaliserLocal([fin[f] EXCEPT !.pc = "update"])
    BY <1>1, <2>1, AtWork DEF FinaliserLocal, U!FinaliserState
  <2>3. PICK t : Becomes(f, t) /\ t.pc = "update"
    BY <1>1, <2>1, <2>2, GotoBecomes DEF U!Active
  <2> QED
    BY <1>1, <2>1, <2>3 DEF Unstaged
<1>3. CASE U!CleanupFile(f)
  <2>1. fin[f].pc = "cleanup" /\ U!Goto(f, "mark")
    BY <1>3 DEF U!CleanupFile
  <2>2. PICK t : Becomes(f, t) /\ t.pc = "mark"
    BY <1>1, <2>1, CleanupBecomes
  <2> QED
    BY <1>1, <2>1, <2>2 DEF Unstaged
<1> QED
  BY <1>2, <1>3

LEMMA UpdateRowIs ==
  ASSUME FinalisersOK, NEW f \in Finalisers, U!UpdateRow(f)
  PROVE  \E t : Becomes(f, t) /\ Updated(fin[f], t)
<1>1. fin[f].pc = "update" /\ UNCHANGED <<store, tasks, link>>
  BY DEF U!UpdateRow
<1>2. /\ fin[f] \in U!FinaliserState /\ FinaliserLocal(fin[f])
      /\ U!CompletedRow(f) = CompletedOf(fin[f])
  BY <1>1, AtWork
<1>3. PICK pc \in {"enqueue", "undo"} :
        /\ U!Goto(f, pc)
        /\ \/ U!RepoUpdate(fin[f].id, U!CompletedRow(f))
           \/ UNCHANGED db /\ pc = "undo"
  BY DEF U!UpdateRow
<1>4. FinaliserLocal([fin[f] EXCEPT !.pc = pc])
  BY <1>1, <1>2 DEF FinaliserLocal, U!FinaliserState
<1>5. PICK t : Becomes(f, t) /\ t.pc = pc
  <2>1. pc \in U!Active /\ fin[f].pc # "idle" /\ UNCHANGED link
    BY <1>1 DEF U!Active
  <2> QED
    BY <1>3, <1>4, <2>1, GotoBecomes
<1>6. RepoUpdate(fin[f].id, CompletedOf(fin[f])) \/ (UNCHANGED db /\ pc = "undo")
  BY <1>2, <1>3 DEF U!RepoUpdate, U!UpdatedRow, RepoUpdate, UpdatedRow
<1> QED
  BY <1>1, <1>5, <1>6 DEF Updated

LEMMA UndoSaveIs ==
  ASSUME FinalisersOK, NEW f \in Finalisers, U!UndoSave(f)
  PROVE  \E t : Becomes(f, t) /\ Undone(fin[f], t)
<1>1. /\ fin[f].pc = "undo" /\ U!Goto(f, "cleanup")
      /\ UNCHANGED <<db, tasks, link>>
  BY DEF U!UndoSave
<1>2. PICK t : Becomes(f, t) /\ t.pc = "cleanup"
  BY <1>1, CleanupBecomes
<1>3. U!NewKey(f) = KeyOf(fin[f])
  BY <1>1, AtWork
<1>4. \/ StoreRemove(fin[f].dest, KeyOf(fin[f]))
      \/ "undo" \in Faults /\ UNCHANGED store
  BY <1>3 DEF U!UndoSave, U!StoreRemove, StoreRemove
<1> QED
  BY <1>1, <1>2, <1>4 DEF Undone

LEMMA EnqueueIs ==
  ASSUME FinalisersOK, NEW f \in Finalisers, U!EnqueueOptimiseMedia(f)
  PROVE  \E t : Becomes(f, t) /\ Enqueued(fin[f], t)
<1>1. /\ fin[f].pc = "enqueue" /\ U!Finish(f, "ok")
      /\ UNCHANGED <<db, store, link>>
  BY DEF U!EnqueueOptimiseMedia
<1>2. PICK t : Becomes(f, t) /\ t.pc = "idle"
  BY <1>1, FinishBecomes DEF U!Reply
<1>3. \/ Enqueue(OptimiseTask(fin[f].id))
      \/ "enqueue" \in Faults /\ UNCHANGED tasks
  BY DEF U!EnqueueOptimiseMedia, U!Enqueue, Enqueue, U!OptimiseTask, OptimiseTask
<1> QED
  BY <1>1, <1>2, <1>3 DEF Enqueued

LEMMA MarkAsFailedIs ==
  ASSUME FinalisersOK, NEW f \in Finalisers, U!MarkAsFailed(f)
  PROVE  \E t : Becomes(f, t) /\ Marked(fin[f], t)
<1>1. /\ fin[f].pc = "mark" /\ U!Finish(f, "error")
      /\ UNCHANGED <<store, tasks, link>>
  BY DEF U!MarkAsFailed
<1>2. PICK t : Becomes(f, t) /\ t.pc = "idle"
  BY <1>1, FinishBecomes DEF U!Reply
<1>3. \/ RepoUpdate(fin[f].id, [fin[f].media EXCEPT !.status = "failed"])
      \/ "mark" \in Faults /\ UNCHANGED db
  BY DEF U!MarkAsFailed, U!FailedRow, U!RepoUpdate, U!UpdatedRow,
         RepoUpdate, UpdatedRow
<1> QED
  BY <1>1, <1>2, <1>3 DEF Marked

LEMMA FinaliserStepIs ==
  ASSUME FinalisersOK, StoresOK, NEW f \in Finalisers, U!FinaliserStep(f)
  PROVE  \E t : Becomes(f, t) /\ Call(fin[f], t)
BY StatFileIs, ReadMetadataIs, SaveFileIs, RemoveStagedIs, UpdateRowIs,
   UndoSaveIs, EnqueueIs, MarkAsFailedIs
DEF U!FinaliserStep, Call

-----------------------------------------------------------------------------
(* IInv is inductive *)

\* No id is forgotten, and no row comes back.
Persist ==
  \A m \in Medias : Known(m, link) =>
    /\ Known(m, link')
    /\ db[m] = NoRow => db'[m] = NoRow

LEMMA IInvInit == Init => IInv
<1> SUFFICES ASSUME Init PROVE IInv
  OBVIOUS
<1>1. /\ db = [m \in Medias |-> NoRow]
      /\ store = [b \in Buckets |-> [k \in Key |-> NoObject]]
      /\ tasks = [t \in Task |-> 0]
      /\ link = [m \in Medias |-> "unused"]
      /\ fin = [f \in Finalisers |-> U!Idle("none", Nil)]
      /\ del = [d \in Deleters |-> IdleDeleter("none", Nil)]
      /\ raced = {}
  BY SameData DEF Init, U!Init, U!BackendInit, DeletionInit
<1>2. RowsOK /\ StoresOK
  BY <1>1 DEF RowsOK, StoresOK, U!LinkState
<1>3. FinalisersOK
  <2>1. U!Idle("none", Nil) \in U!FinaliserState
    BY DEF U!Idle, U!FinaliserState, U!Reply
  <2>2. U!Idle("none", Nil).pc = "idle"
    BY DEF U!Idle
  <2> QED
    BY <1>1, <2>1, <2>2 DEF FinalisersOK, FinaliserLocal
<1>4. DeletersOK
  <2>1. IdleDeleter("none", Nil) \in DeleterState
    BY DEF IdleDeleter, DeleterState, Answers
  <2>2. /\ IdleDeleter("none", Nil).pc = "idle"
        /\ IdleDeleter("none", Nil).answer = "none"
    BY DEF IdleDeleter
  <2> QED
    BY <1>1, <2>1, <2>2 DEF DeletersOK, DeleterLocal
<1>5. RacesOK
  <2>1. \A f \in Finalisers : fin[f].pc = "idle"
    BY <1>1 DEF U!Idle
  <2> QED
    BY <1>1, <2>1 DEF RacesOK, Finalising
<1> QED
  BY <1>2, <1>3, <1>4, <1>5 DEF IInv

LEMMA FinaliserMoves ==
  ASSUME FinalisersOK, Persist, NEW f \in Finalisers, NEW t \in U!FinaliserState,
         FinaliserLocal(t), t.pc # "idle" => Known(t.id, link'),
         fin' = [fin EXCEPT ![f] = t]
  PROVE  FinalisersOK'
<1>1. fin' \in [Finalisers -> U!FinaliserState]
  BY DEF FinalisersOK
<1>2. \A g \in Finalisers : fin'[g] = IF g = f THEN t ELSE fin[g]
  BY DEF FinalisersOK
<1>3. ASSUME NEW g \in Finalisers
      PROVE  /\ FinaliserLocal(fin'[g])
             /\ fin'[g].pc # "idle" => Known(fin'[g].id, link')
  <2>1. CASE g = f
    BY <1>2, <2>1
  <2>2. CASE g # f
    <3>1. fin'[g] = fin[g]
      BY <1>2, <2>2
    <3>2. FinaliserLocal(fin[g]) /\ (fin[g].pc # "idle" => Known(fin[g].id, link))
      BY DEF FinalisersOK
    <3>3. fin[g].pc # "idle" => fin[g].id \in Medias
      BY <3>2 DEF FinaliserLocal
    <3> QED
      BY <3>1, <3>2, <3>3 DEF Persist
  <2> QED
    BY <2>1, <2>2
<1> QED
  BY <1>1, <1>3 DEF FinalisersOK, Known

LEMMA FinalisersStay ==
  ASSUME FinalisersOK, Persist, UNCHANGED fin
  PROVE  FinalisersOK'
<1>1. ASSUME NEW g \in Finalisers, fin[g].pc # "idle"
      PROVE  Known(fin[g].id, link')
  BY <1>1 DEF FinalisersOK, FinaliserLocal, Persist
<1> QED
  BY <1>1 DEF FinalisersOK, Known

LEMMA DeleterMoves ==
  ASSUME DeletersOK, Persist, NEW d \in Deleters, NEW t \in DeleterState,
         DeleterLocal(t),
         t.pc # "idle" \/ t.answer = "ok" => Known(t.id, link'),
         t.pc \in {"uncache", "uncache_etag"} \/ t.answer = "ok" =>
           db'[t.id] = NoRow,
         del' = [del EXCEPT ![d] = t]
  PROVE  DeletersOK'
<1>1. del' \in [Deleters -> DeleterState]
  BY DEF DeletersOK
<1>2. \A c \in Deleters : del'[c] = IF c = d THEN t ELSE del[c]
  BY DEF DeletersOK
<1>3. ASSUME NEW c \in Deleters
      PROVE  /\ DeleterLocal(del'[c])
             /\ del'[c].pc # "idle" \/ del'[c].answer = "ok" =>
                  Known(del'[c].id, link')
             /\ del'[c].pc \in {"uncache", "uncache_etag"} \/ del'[c].answer = "ok" =>
                  db'[del'[c].id] = NoRow
  <2>1. CASE c = d
    BY <1>2, <2>1
  <2>2. CASE c # d
    <3>1. del'[c] = del[c]
      BY <1>2, <2>2
    <3>2. /\ DeleterLocal(del[c])
          /\ del[c].pc # "idle" \/ del[c].answer = "ok" => Known(del[c].id, link)
          /\ del[c].pc \in {"uncache", "uncache_etag"} \/ del[c].answer = "ok" =>
               db[del[c].id] = NoRow
      BY DEF DeletersOK
    <3>3. del[c].pc # "idle" \/ del[c].answer = "ok" => del[c].id \in Medias
      BY <3>2 DEF DeleterLocal
    <3> QED
      BY <3>1, <3>2, <3>3 DEF Persist
  <2> QED
    BY <2>1, <2>2
<1> QED
  BY <1>1, <1>3 DEF DeletersOK, Known

LEMMA DeletersStay ==
  ASSUME DeletersOK, Persist, UNCHANGED del
  PROVE  DeletersOK'
<1>1. ASSUME NEW c \in Deleters
      PROVE  /\ del[c].pc # "idle" \/ del[c].answer = "ok" => Known(del[c].id, link')
             /\ del[c].pc \in {"uncache", "uncache_etag"} \/ del[c].answer = "ok" =>
                  db'[del[c].id] = NoRow
  BY DEF DeletersOK, DeleterLocal, Persist
<1> QED
  BY <1>1 DEF DeletersOK, Known

LEMMA RacesNoted ==
  ASSUME RacesOK, FinalisersOK', Persist, NoteRaces
  PROVE  RacesOK' /\ raced \subseteq raced'
<1>1. raced' = raced \cup {m \in Medias : Finalising(m)' /\ Deleting(m)'}
  BY DEF NoteRaces
<1>2. ASSUME NEW m \in Medias, Finalising(m)' PROVE Known(m, link)'
  BY <1>2 DEF Finalising, FinalisersOK
<1>3. ASSUME NEW m \in raced' PROVE Known(m, link)'
  BY <1>1, <1>2 DEF RacesOK, Persist, Known
<1> QED
  BY <1>1, <1>3 DEF RacesOK

LEMMA UpdateKept ==
  ASSUME RowsOK, NEW n \in Medias, NEW row, RowOf(n, row), RepoUpdate(n, row),
         UNCHANGED link
  PROVE  RowsOK' /\ Persist
<1>1. \A m \in Medias : db'[m] = IF m = n THEN UpdatedRow(db[n], row) ELSE db[m]
  BY DEF RepoUpdate, RowsOK
<1>2. db' \in [Medias -> Row \cup {NoRow}]
  BY RowFacts DEF RepoUpdate, RowsOK, UpdatedRow
<1>3. \A m \in Medias : db'[m] # NoRow => RowOf(m, db'[m]) /\ Known(m, link)'
  BY <1>1 DEF RowsOK, UpdatedRow, Known
<1>4. Persist
  BY <1>1 DEF Persist, UpdatedRow, Known
<1> QED
  BY <1>2, <1>3, <1>4 DEF RowsOK

LEMMA RowsStay ==
  ASSUME RowsOK, UNCHANGED <<db, link>>
  PROVE  RowsOK' /\ Persist
  BY DEF RowsOK, Persist, Known

LEMMA StoreKept ==
  ASSUME StoresOK, UNCHANGED <<tasks, link>>, NEW b, NEW k, NEW o \in Object,
         StoreSave(b, k, o) \/ StoreRemove(b, k) \/ UNCHANGED store
  PROVE  StoresOK'
  BY DEF StoresOK, StoreSave, StoreRemove

LEMMA RemoveKept ==
  ASSUME StoresOK, UNCHANGED <<tasks, link>>, NEW b, NEW k,
         StoreRemove(b, k) \/ UNCHANGED store
  PROVE  StoresOK'
  BY DEF StoresOK, StoreRemove

LEMMA StoresStay ==
  ASSUME StoresOK, UNCHANGED <<store, tasks, link>>
  PROVE  StoresOK'
  BY DEF StoresOK

\* What every step of Upload keeps.
Kept == RowsOK' /\ StoresOK' /\ FinalisersOK' /\ Persist

LEMMA CallKept ==
  ASSUME IInv, NEW f \in Finalisers, NEW t, Becomes(f, t), Call(fin[f], t)
  PROVE  Kept
<1>1. RowsOK /\ StoresOK /\ FinalisersOK
  BY DEF IInv
<1>2. fin[f].pc # "idle" /\ UNCHANGED link
  BY DEF Becomes, Call, Probed, Saved, Unstaged, Updated, Undone, Enqueued, Marked
<1>3. FinaliserLocal(fin[f]) /\ fin[f].id \in Medias /\ Known(fin[f].id, link)
  BY <1>1, <1>2, AtWork
<1>4. RowsOK' /\ Persist
  <2>1. CASE UNCHANGED db
    BY <1>1, <1>2, <2>1, RowsStay
  <2>2. CASE fin[f].pc = "update" /\ RepoUpdate(fin[f].id, CompletedOf(fin[f]))
    BY <1>1, <1>2, <1>3, <2>2, CompletedFacts, UpdateKept
  <2>3. CASE /\ fin[f].pc = "mark"
             /\ RepoUpdate(fin[f].id, [fin[f].media EXCEPT !.status = "failed"])
    BY <1>1, <1>2, <1>3, <2>3, FailedFacts, UpdateKept
  <2> QED
    BY <2>1, <2>2, <2>3
    DEF Call, Probed, Saved, Unstaged, Updated, Undone, Enqueued, Marked
<1>5. FinalisersOK'
  <2>1. t \in U!FinaliserState /\ FinaliserLocal(t) /\ t.id = fin[f].id
        /\ fin' = [fin EXCEPT ![f] = t]
    BY DEF Becomes
  <2>2. Known(t.id, link')
    BY <1>2, <1>3, <2>1
  <2> QED
    BY <1>1, <1>4, <2>1, <2>2, FinaliserMoves
<1>6. StoresOK'
  <2>1. CASE UNCHANGED <<store, tasks>>
    BY <1>1, <1>2, <2>1, StoresStay
  <2>2. CASE Saved(fin[f], t)
    BY <1>1, <1>2, <2>2, <2>1, StoreKept DEF Saved
  <2>3. CASE Unstaged(fin[f], t) \/ Undone(fin[f], t)
    BY <1>1, <1>2, <2>3, RemoveKept DEF Unstaged, Undone
  <2>4. CASE Enqueued(fin[f], t)
    <3>1. OptimiseTask(fin[f].id) \in Task
      BY <1>3 DEF OptimiseTask, Task, TaskKinds
    <3> QED
      BY <1>1, <1>2, <2>1, <2>4, <3>1 DEF Enqueued, Enqueue, StoresOK
  <2> QED
    BY <2>1, <2>2, <2>3, <2>4 DEF Call, Probed, Updated, Marked
<1> QED
  BY <1>4, <1>5, <1>6 DEF Kept

\* The steps of the link.
LEMMA CreateRowKept ==
  ASSUME IInv, NEW m \in Medias, U!CreateRow(m)
  PROVE  Kept
<1>1. RowsOK /\ StoresOK /\ FinalisersOK
  BY DEF IInv
<1>2. /\ link[m] = "unused" /\ UNCHANGED <<store, tasks, fin>>
      /\ \E l \in {"minting", "dead"} : link' = [link EXCEPT ![m] = l]
      /\ db' = db \/ db' = [db EXCEPT ![m] = U!PendingRow(m)]
  BY DEF U!CreateRow, U!RepoCreate
<1>3. link' \in [Medias -> U!LinkState] /\ link'[m] # "unused"
      /\ \A n \in Medias \ {m} : link'[n] = link[n]
  BY <1>1, <1>2 DEF StoresOK, U!LinkState
<1>4. RowOf(m, U!PendingRow(m)) /\ U!PendingRow(m) \in Row
  BY NewRowFacts DEF RowOf
<1>5. Persist
  BY <1>1, <1>2, <1>3 DEF Persist, Known, RowsOK
<1>6. RowsOK'
  <2>1. db' \in [Medias -> Row \cup {NoRow}]
    BY <1>1, <1>2, <1>4 DEF RowsOK
  <2>2. ASSUME NEW n \in Medias, db'[n] # NoRow
        PROVE  RowOf(n, db'[n]) /\ Known(n, link')
    BY <1>1, <1>2, <1>3, <1>4, <2>2 DEF RowsOK, Known
  <2> QED
    BY <2>1, <2>2 DEF RowsOK, Known
<1>7. StoresOK'
  BY <1>1, <1>2, <1>3 DEF StoresOK
<1>8. FinalisersOK'
  BY <1>1, <1>2, <1>5, FinalisersStay
<1> QED
  BY <1>5, <1>6, <1>7, <1>8 DEF Kept

LEMMA LinkKept ==
  ASSUME IInv, NEW m \in Medias, U!Presign(m) \/ U!Expire(m)
  PROVE  Kept
<1>1. RowsOK /\ StoresOK /\ FinalisersOK
  BY DEF IInv
<1>2. /\ link[m] # "unused" /\ UNCHANGED <<db, store, tasks, fin>>
      /\ \E l \in {"live", "dead"} : link' = [link EXCEPT ![m] = l]
  BY DEF U!Presign, U!Expire
<1>3. /\ link' \in [Medias -> U!LinkState]
      /\ \A n \in Medias : Known(n, link') <=> Known(n, link)
  BY <1>1, <1>2 DEF StoresOK, U!LinkState, Known
<1>4. Persist
  BY <1>2, <1>3 DEF Persist
<1>5. RowsOK'
  BY <1>1, <1>2, <1>3 DEF RowsOK, Known
<1>6. StoresOK' /\ FinalisersOK'
  BY <1>1, <1>2, <1>3, <1>4, FinalisersStay DEF StoresOK
<1> QED
  BY <1>4, <1>5, <1>6 DEF Kept

LEMMA PutKept ==
  ASSUME IInv, NEW m \in Medias, NEW o \in Uploads, U!Put(m, o)
  PROVE  /\ Kept
         /\ store' = [store EXCEPT ![Staging][FileKey(m, "")] = o]
<1>1. RowsOK /\ StoresOK /\ FinalisersOK
  BY DEF IInv
<1>2. /\ UNCHANGED <<db, tasks, link, fin>> /\ o \in Object
      /\ store' = [store EXCEPT ![Staging][FileKey(m, "")] = o]
  BY RawKeyFacts, UploadFacts DEF U!Put, U!StoreSave
<1>3. RowsOK' /\ Persist
  BY <1>1, <1>2, RowsStay
<1>4. StoresOK'
  BY <1>1, <1>2, StoreKept DEF StoreSave
<1>5. FinalisersOK'
  BY <1>1, <1>2, <1>3, FinalisersStay
<1> QED
  BY <1>2, <1>3, <1>4, <1>5 DEF Kept

\* A finalise begins, is answered at once, or dies.
LEMMA BeginKept ==
  ASSUME IInv, NEW f \in Finalisers, NEW m \in Medias, NEW b \in Buckets,
         U!BeginFinalise(f, m, b)
  PROVE  /\ Kept
         /\ \E t : /\ fin' = [fin EXCEPT ![f] = t]
                   /\ t.pc = "stat" /\ t.id = m
<1>1. RowsOK /\ StoresOK /\ FinalisersOK
  BY DEF IInv
<1>2. /\ db[m] # NoRow /\ db[m].status = "pending"
      /\ UNCHANGED <<db, store, tasks, link>>
  BY DEF U!BeginFinalise
<1>3. RowOf(m, db[m]) /\ Known(m, link) /\ db[m] \in Row
  BY <1>1, <1>2, RowFacts DEF RowsOK
<1> DEFINE t == [U!Idle("none", m) EXCEPT !.pc = "stat", !.dest = b,
                                          !.media = db[m]]
<1>4. fin' = [fin EXCEPT ![f] = t]
  BY DEF U!BeginFinalise
<1>5. /\ t.pc = "stat" /\ t.id = m /\ t.dest = b /\ t.media = db[m]
      /\ t \in U!FinaliserState
  BY <1>3, SameData DEF U!Idle, U!FinaliserState, U!Active, U!Reply
<1> HIDE DEF t
<1>6. FinaliserLocal(t)
  BY <1>2, <1>3, <1>5 DEF FinaliserLocal
<1>7. RowsOK' /\ Persist /\ StoresOK'
  BY <1>1, <1>2, RowsStay, StoresStay
<1>8. Known(t.id, link')
  BY <1>2, <1>3, <1>5
<1>9. FinalisersOK'
  BY <1>1, <1>4, <1>5, <1>6, <1>7, <1>8, FinaliserMoves
<1> QED
  BY <1>4, <1>5, <1>7, <1>9 DEF Kept

LEMMA IdleKept ==
  ASSUME IInv, NEW f \in Finalisers,
         (\E m \in Medias : U!ReplyAtOnce(f, m)) \/ U!Crash(f)
  PROVE  /\ Kept
         /\ UNCHANGED <<db, store, tasks, link>>
         /\ \E t : fin' = [fin EXCEPT ![f] = t] /\ t.pc = "idle"
<1>1. RowsOK /\ StoresOK /\ FinalisersOK
  BY DEF IInv
<1>2. UNCHANGED <<db, store, tasks, link>>
  BY DEF U!ReplyAtOnce, U!Crash
<1>3. PICK reply \in U!Reply, n \in Medias \cup {Nil} :
        fin' = [fin EXCEPT ![f] = U!Idle(reply, n)]
  <2>1. CASE U!Crash(f)
    <3>1. "none" \in U!Reply
      BY DEF U!Reply
    <3> QED
      BY <2>1, <3>1 DEF U!Crash
  <2>2. ASSUME NEW m \in Medias, U!ReplyAtOnce(f, m)
        PROVE  \E reply \in U!Reply, n \in Medias \cup {Nil} :
                 fin' = [fin EXCEPT ![f] = U!Idle(reply, n)]
    <3>1. U!EarlyReply(m) \in U!Reply /\ "error" \in U!Reply
      BY DEF U!EarlyReply, U!Reply
    <3> QED
      BY <2>2, <3>1 DEF U!ReplyAtOnce
  <2> QED
    BY <2>1, <2>2
<1> DEFINE t == U!Idle(reply, n)
<1>4. t \in U!FinaliserState /\ t.pc = "idle"
  BY DEF U!Idle, U!FinaliserState
<1>5. fin' = [fin EXCEPT ![f] = t]
  BY <1>3
<1> HIDE DEF t
<1>6. FinaliserLocal(t)
  BY <1>4 DEF FinaliserLocal
<1>7. RowsOK' /\ Persist /\ StoresOK'
  BY <1>1, <1>2, RowsStay, StoresStay
<1>8. FinalisersOK'
  BY <1>1, <1>4, <1>5, <1>6, <1>7, FinaliserMoves
<1> QED
  BY <1>2, <1>4, <1>5, <1>7, <1>8 DEF Kept

LEMMA UploadStepKept ==
  ASSUME IInv, U!Next
  PROVE  Kept
<1>1. FinalisersOK /\ StoresOK
  BY DEF IInv
<1>2. ASSUME NEW f \in Finalisers, U!FinaliserStep(f) PROVE Kept
  BY <1>1, <1>2, FinaliserStepIs, CallKept
<1> QED
  BY <1>2, CreateRowKept, LinkKept, PutKept, BeginKept, IdleKept DEF U!Next

\* The steps of a delete request.
KeptByDelete == RowsOK' /\ StoresOK' /\ DeletersOK' /\ Persist

\* A delete request at work: the worker has made no variants yet.
LEMMA AtDelete ==
  ASSUME DeletersOK, NEW d \in Deleters, del[d].pc # "idle"
  PROVE  /\ del[d] \in DeleterState
         /\ DeleterLocal(del[d])
         /\ del[d].id \in Medias
         /\ RowOf(del[d].id, del[d].media)
         /\ Known(del[d].id, link)
         /\ del[d].pc = "variants" => ~(del[d].i <= Len(del[d].media.variants))
         /\ del[d].media.variants = <<>>
<1>1. del[d] \in DeleterState /\ DeleterLocal(del[d]) /\ Known(del[d].id, link)
  BY DEF DeletersOK
<1>2. del[d].id \in Medias /\ RowOf(del[d].id, del[d].media)
  BY <1>1 DEF DeleterLocal
<1>3. del[d].media.variants = <<>>
  BY <1>2 DEF RowOf
<1>4. del[d].i \in Nat /\ (del[d].pc = "variants" => del[d].i # 0)
  BY <1>1 DEF DeleterState, DeleterLocal
<1>5. Len(del[d].media.variants) = 0
  BY <1>3
<1> QED
  BY <1>1, <1>2, <1>3, <1>4, <1>5

\* A request goes on to its next call with the locals it has.
LEMMA GoOnMoves ==
  ASSUME DeletersOK, Persist, NEW d \in Deleters, del[d].pc # "idle",
         NEW pc \in {"row", "uncache", "uncache_etag"}, GoOn(d, pc),
         pc # "row" => db'[del[d].id] = NoRow
  PROVE  DeletersOK'
<1> DEFINE t == [del[d] EXCEPT !.pc = pc]
<1>1. del' = [del EXCEPT ![d] = t]
  BY DEF GoOn
<1>2. /\ del[d] \in DeleterState /\ DeleterLocal(del[d]) /\ Known(del[d].id, link)
      /\ del[d].id \in Medias
  BY AtDelete
<1>3. /\ t \in DeleterState /\ t.pc = pc /\ t.id = del[d].id
      /\ t.media = del[d].media /\ t.answer = del[d].answer
  BY <1>2 DEF DeleterState
<1> HIDE DEF t
<1>4. DeleterLocal(t)
  BY <1>2, <1>3 DEF DeleterLocal
<1>5. Known(t.id, link')
  BY <1>2, <1>3 DEF Persist
<1>6. del[d].answer = "ok" => db'[t.id] = NoRow
  BY <1>2, <1>3 DEF DeletersOK, Persist
<1> QED
  BY <1>1, <1>3, <1>4, <1>5, <1>6, DeleterMoves

LEMMA AnswerMoves ==
  ASSUME DeletersOK, Persist, NEW d \in Deleters, NEW answer \in Answers,
         NEW n \in Medias \cup {Nil}, del' = [del EXCEPT ![d] = IdleDeleter(answer, n)],
         answer = "ok" => n \in Medias /\ Known(n, link') /\ db'[n] = NoRow
  PROVE  DeletersOK'
<1> DEFINE t == IdleDeleter(answer, n)
<1>1. t \in DeleterState /\ t.pc = "idle" /\ t.answer = answer /\ t.id = n
  BY DEF IdleDeleter, DeleterState
<1>2. del' = [del EXCEPT ![d] = t]
  OBVIOUS
<1> HIDE DEF t
<1>3. DeleterLocal(t)
  BY <1>1 DEF DeleterLocal
<1> QED
  BY <1>1, <1>2, <1>3, DeleterMoves

LEMMA BeginDeleteKept ==
  ASSUME IInv, NEW d \in Deleters, NEW m \in Medias, BeginRemove(d, m)
  PROVE  KeptByDelete
<1>1. RowsOK /\ StoresOK /\ DeletersOK
  BY DEF IInv
<1>2. Known(m, link) /\ UNCHANGED <<db, store, tasks, link, fin>>
  BY DEF BeginRemove, BeginDelete, Known
<1>3. RowsOK' /\ Persist /\ StoresOK'
  BY <1>1, <1>2, RowsStay, StoresStay
<1>4. CASE \E answer \in {"not_found", "error"} :
             del' = [del EXCEPT ![d] = IdleDeleter(answer, m)]
  <2>1. DeletersOK'
    BY <1>1, <1>3, <1>4, AnswerMoves DEF Answers
  <2> QED
    BY <1>3, <2>1 DEF KeptByDelete
<1>5. CASE /\ db[m] # NoRow
           /\ del' = [del EXCEPT ![d] = [IdleDeleter("none", m) EXCEPT
                        !.pc = "variants", !.media = db[m], !.i = 1]]
  <2> DEFINE t == [IdleDeleter("none", m) EXCEPT
                     !.pc = "variants", !.media = db[m], !.i = 1]
  <2>1. RowOf(m, db[m]) /\ db[m] \in Row
    BY <1>1, <1>5, RowFacts DEF RowsOK
  <2>2. /\ t.pc = "variants" /\ t.id = m /\ t.media = db[m] /\ t.i = 1
        /\ t.answer = "none" /\ t \in DeleterState
    BY <2>1 DEF IdleDeleter, DeleterState, Answers
  <2>3. del' = [del EXCEPT ![d] = t]
    BY <1>5
  <2> HIDE DEF t
  <2>4. DeleterLocal(t)
    BY <2>1, <2>2 DEF DeleterLocal
  <2>5. Known(t.id, link')
    BY <1>2, <2>2
  <2>6. DeletersOK'
    BY <1>1, <1>3, <2>2, <2>3, <2>4, <2>5, DeleterMoves
  <2> QED
    BY <1>3, <2>6 DEF KeptByDelete
<1> QED
  BY <1>4, <1>5 DEF BeginRemove, BeginDelete

LEMMA RemoveObjectKept ==
  ASSUME IInv, NEW d \in Deleters, RemoveObject(d), UNCHANGED <<link, fin>>
  PROVE  KeptByDelete
<1>1. RowsOK /\ StoresOK /\ DeletersOK
  BY DEF IInv
<1>2. del[d].pc = "variants" /\ UNCHANGED <<db, tasks, link>>
  BY DEF RemoveObject
<1>3. RowsOK' /\ Persist
  BY <1>1, <1>2, RowsStay
<1>4. StoresOK'
  BY <1>1, <1>2, RemoveKept DEF RemoveObject
<1>5. CASE GoOn(d, "row")
  BY <1>1, <1>2, <1>3, <1>4, <1>5, GoOnMoves DEF KeptByDelete
<1>6. CASE Answer(d, "error")
  <2>1. del[d].id \in Medias
    BY <1>1, <1>2, AtDelete
  <2>2. DeletersOK'
    BY <1>1, <1>3, <1>6, <2>1, AnswerMoves DEF Answer, Answers
  <2> QED
    BY <1>3, <1>4, <2>2 DEF KeptByDelete
<1> QED
  BY <1>5, <1>6 DEF RemoveObject

LEMMA DeleteRowKept ==
  ASSUME IInv, NEW d \in Deleters, DeleteRow(d), UNCHANGED <<link, fin>>
  PROVE  KeptByDelete
<1>1. RowsOK /\ StoresOK /\ DeletersOK
  BY DEF IInv
<1>2. del[d].pc = "row" /\ UNCHANGED <<store, tasks, link>>
  BY DEF DeleteRow
<1>3. StoresOK'
  BY <1>1, <1>2, StoresStay
<1>4. del[d].id \in Medias
  BY <1>1, <1>2, AtDelete
<1>5. CASE RepoDelete(del[d].id) /\ GoOn(d, "uncache")
  <2>1. /\ db' = [db EXCEPT ![del[d].id] = NoRow]
        /\ db'[del[d].id] = NoRow
    BY <1>1, <1>4, <1>5 DEF RepoDelete, RowsOK
  <2>2. RowsOK' /\ Persist
    BY <1>1, <1>2, <1>4, <2>1 DEF RowsOK, Persist, Known
  <2>3. DeletersOK'
    BY <1>1, <1>2, <1>5, <2>1, <2>2, GoOnMoves
  <2> QED
    BY <1>3, <2>2, <2>3 DEF KeptByDelete
<1>6. CASE Answer(d, "error") /\ UNCHANGED db
  <2>1. RowsOK' /\ Persist
    BY <1>1, <1>2, <1>6, RowsStay
  <2>2. DeletersOK'
    BY <1>1, <1>4, <1>6, <2>1, AnswerMoves DEF Answer, Answers
  <2> QED
    BY <1>3, <2>1, <2>2 DEF KeptByDelete
<1> QED
  BY <1>5, <1>6 DEF DeleteRow

LEMMA UncacheKept ==
  ASSUME IInv, NEW d \in Deleters, UncacheDetails(d) \/ UncacheEtag(d),
         UNCHANGED <<link, fin>>
  PROVE  KeptByDelete
<1>1. RowsOK /\ StoresOK /\ DeletersOK
  BY DEF IInv
<1>2. del[d].pc \in {"uncache", "uncache_etag"} /\ UNCHANGED <<db, store, tasks, link>>
  BY DEF UncacheDetails, UncacheEtag
<1>3. RowsOK' /\ Persist /\ StoresOK'
  BY <1>1, <1>2, RowsStay, StoresStay
<1>4. /\ del[d].id \in Medias /\ Known(del[d].id, link') /\ db'[del[d].id] = NoRow
      /\ del[d].pc # "idle"
  BY <1>1, <1>2, AtDelete DEF DeletersOK
<1>5. CASE GoOn(d, "uncache_etag")
  BY <1>1, <1>3, <1>4, <1>5, GoOnMoves DEF KeptByDelete
<1>6. CASE Answer(d, "ok")
  <2>1. DeletersOK'
    BY <1>1, <1>3, <1>4, <1>6, AnswerMoves DEF Answer, Answers
  <2> QED
    BY <1>3, <2>1 DEF KeptByDelete
<1> QED
  BY <1>5, <1>6 DEF UncacheDetails, UncacheEtag

LEMMA DieKept ==
  ASSUME IInv, NEW d \in Deleters, DieDeleting(d), UNCHANGED <<link, fin>>
  PROVE  KeptByDelete
<1>1. RowsOK /\ StoresOK /\ DeletersOK
  BY DEF IInv
<1>2. UNCHANGED <<db, store, tasks, link>>
  BY DEF DieDeleting
<1>3. RowsOK' /\ Persist /\ StoresOK'
  BY <1>1, <1>2, RowsStay, StoresStay
<1>4. DeletersOK'
  BY <1>1, <1>3, AnswerMoves DEF DieDeleting, Answers
<1> QED
  BY <1>3, <1>4 DEF KeptByDelete

LEMMA DeleteStepKept ==
  ASSUME IInv, NEW d \in Deleters,
         \/ \E m \in Medias : BeginRemove(d, m)
         \/ Remove(d)
         \/ DieRemoving(d)
  PROVE  KeptByDelete /\ UNCHANGED <<link, fin>>
<1>1. UNCHANGED <<link, fin>>
  BY DEF BeginRemove, Remove, DieRemoving
<1>2. ~RemoveVariant(d)
  <2>1. SUFFICES ASSUME RemoveVariant(d) PROVE FALSE
    OBVIOUS
  <2>2. DeletersOK /\ del[d].pc = "variants" /\ del[d].i <= Len(del[d].media.variants)
    BY <2>1 DEF RemoveVariant, IInv
  <2> QED
    BY <2>2, AtDelete
<1>3. CASE Remove(d)
  BY <1>1, <1>2, <1>3, RemoveObjectKept, DeleteRowKept, UncacheKept
  DEF Remove, DeleterStep
<1> QED
  BY <1>1, <1>3, BeginDeleteKept, DieKept DEF DieRemoving

LEMMA IInvNext == IInv /\ [Next]_vars => IInv'
<1> SUFFICES ASSUME IInv, [Next]_vars PROVE IInv'
  OBVIOUS
<1>1. FinalisersOK /\ DeletersOK /\ RacesOK
  BY DEF IInv
<1>2. CASE UploadStep
  <2>1. Kept /\ UNCHANGED del /\ NoteRaces
    BY <1>2, UploadStepKept DEF UploadStep
  <2>2. DeletersOK' /\ RacesOK'
    BY <1>1, <2>1, DeletersStay, RacesNoted DEF Kept
  <2> QED
    BY <2>1, <2>2 DEF Kept, IInv
<1>3. ASSUME NEW d \in Deleters,
             \/ \E m \in Medias : BeginRemove(d, m)
             \/ Remove(d)
             \/ DieRemoving(d)
      PROVE  IInv'
  <2>1. KeptByDelete /\ UNCHANGED <<link, fin>> /\ NoteRaces
    BY <1>3, DeleteStepKept DEF BeginRemove, Remove, DieRemoving
  <2>2. FinalisersOK'
    BY <1>1, <2>1, FinalisersStay DEF KeptByDelete
  <2>3. RacesOK'
    BY <1>1, <2>1, <2>2, RacesNoted DEF KeptByDelete
  <2> QED
    BY <2>1, <2>2, <2>3 DEF KeptByDelete, IInv
<1>4. CASE UNCHANGED vars
  <2>1. UNCHANGED <<db, store, tasks, link, fin, del, raced>>
    BY <1>4 DEF vars
  <2> QED
    BY <2>1 DEF IInv, RowsOK, StoresOK, FinalisersOK, DeletersOK, RacesOK, Known,
                Finalising, Deleting
<1> QED
  BY <1>2, <1>3, <1>4 DEF Next

\* Whatever fails and overlaps, requests keep to IInv.
THEOREM IntakeInvariant == Spec => []IInv
<1> QED
  BY IInvInit, IInvNext, PTL DEF Spec

\* The types of the tables and of the requests' locals.
THEOREM IntakeTypeCorrect == Spec => []TypeOK
<1>1. IInv => TypeOK
  <2> SUFFICES ASSUME IInv PROVE TypeOK
    OBVIOUS
  <2>1. U!BackendTypeOK
    BY SameData DEF IInv, RowsOK, StoresOK, U!BackendTypeOK
  <2>2. U!TypeOK
    BY <2>1 DEF IInv, StoresOK, FinalisersOK, U!TypeOK
  <2> QED
    BY <2>2 DEF IInv, DeletersOK, RacesOK, DeletionTypeOK, TypeOK
<1> QED
  BY <1>1, IntakeInvariant, PTL

\* A media whose deletion was answered 204 has no row and gets none, not even from
\* a finalise that read the row before it was deleted.
THEOREM DeletedIsNotFinalised == Spec => []DeletedHasNoRow
<1>1. IInv => DeletedHasNoRow
  BY DEF IInv, DeletersOK, DeletedHasNoRow
<1> QED
  BY <1>1, IntakeInvariant, PTL

-----------------------------------------------------------------------------
(* What one step leaves of the files and the queue *)

\* m has gained no file outside the staging key.
Fewer(m, files, left) ==
  \A b \in Buckets, k \in Key :
    k.media = m /\ k.ext # "" /\ files[b][k] = NoObject => left[b][k] = NoObject

LEMMA FewerFiles ==
  ASSUME NEW m \in Medias, NEW files, NEW left, Fewer(m, files, left)
  PROVE  /\ NoFile(m, files) => NoFile(m, left)
         /\ \A b, k : OnlyFile(m, b, k, files) => OnlyFile(m, b, k, left)
<1>1. ASSUME NEW c \in Buckets, NEW e \in Extensions \ {""},
             files[c][FileKey(m, e)] = NoObject
      PROVE  left[c][FileKey(m, e)] = NoObject
  <2>1. /\ FileKey(m, e) \in Key
        /\ FileKey(m, e).media = m
        /\ FileKey(m, e).ext # ""
    BY FileKeyFacts
  <2> QED
    BY <1>1, <2>1 DEF Fewer
<1> QED
  BY <1>1 DEF NoFile, OnlyFile

LEMMA HoldsStays ==
  ASSUME NEW s, s.id \in Medias, NEW row, NEW files, NEW left, NEW queued,
         NEW races, NEW more, races \subseteq more,
         Holds(s, row, files, queued, races), Fewer(s.id, files, left)
  PROVE  Holds(s, row, left, queued, more)
<1>1. HoldsRow(s, row, more)
  BY DEF Holds, HoldsRow
<1>2. HoldsFiles(s, files) => HoldsFiles(s, left)
  BY FewerFiles DEF HoldsFiles
<1> QED
  BY <1>1, <1>2 DEF Holds

LEMMA RestStays ==
  ASSUME NEW m \in Medias, NEW row, NEW files, NEW left, NEW queued,
         NEW races, NEW more, races \subseteq more,
         Rest(m, row, files, queued, races), Fewer(m, files, left)
  PROVE  Rest(m, row, left, queued, more)
<1>1. RestFiles(m, row, files, races) => RestFiles(m, row, left, more)
  BY FewerFiles DEF RestFiles
<1> QED
  BY <1>1 DEF Rest

LEMMA ClearsStays ==
  ASSUME NEW s, s.pc # "idle" => RowOf(s.id, s.media), NEW row, NEW rest \in {row, NoRow},
         NEW files, NEW left, Clears(s, row, files), Fewer(s.id, files, left)
  PROVE  Clears(s, rest, left)
<1>1. s.pc \in {"variants", "row"} =>
        /\ s.media.key \in Key /\ s.media.key.media = s.id
        /\ s.media.bucket \in Buckets
        /\ s.media.status = "completed" => s.media.key.ext # ""
  BY RowFacts DEF RowOf
<1> QED
  BY <1>1 DEF Clears, Fewer

LEMMA RemovedFewer ==
  ASSUME StoresOK, NEW b, NEW k, StoreRemove(b, k) \/ UNCHANGED store,
         NEW m \in Medias
  PROVE  Fewer(m, store, store')
  BY DEF StoresOK, StoreRemove, Fewer

\* A file is saved, of another media or under the staging key.
LEMMA SavedFewer ==
  ASSUME StoresOK, NEW b, NEW k, NEW o, StoreSave(b, k, o),
         NEW m \in Medias, k.media # m \/ k.ext = ""
  PROVE  Fewer(m, store, store')
  BY DEF StoresOK, StoreSave, Fewer

LEMMA SameFewer ==
  ASSUME NEW m, UNCHANGED store
  PROVE  Fewer(m, store, store')
  BY DEF Fewer

LEMMA SavedOnly ==
  ASSUME StoresOK, NEW m \in Medias, NEW b \in Buckets, NEW k \in Key,
         k.media = m, NEW o, StoreSave(b, k, o), NoFile(m, store)
  PROVE  OnlyFile(m, b, k, store')
<1>1. ASSUME NEW c \in Buckets, NEW e \in Extensions \ {""},
             ~(c = b /\ FileKey(m, e) = k)
      PROVE  store'[c][FileKey(m, e)] = NoObject
  <2>1. FileKey(m, e) \in Key
    BY FileKeyFacts
  <2>2. store'[c][FileKey(m, e)] = store[c][FileKey(m, e)]
    BY <1>1, <2>1 DEF StoreSave, StoresOK
  <2> QED
    BY <2>2 DEF NoFile
<1> QED
  BY <1>1 DEF OnlyFile

LEMMA RemovedNone ==
  ASSUME StoresOK, NEW m \in Medias, NEW b \in Buckets, NEW k \in Key,
         StoreRemove(b, k), OnlyFile(m, b, k, store)
  PROVE  NoFile(m, store')
<1>1. ASSUME NEW c \in Buckets, NEW e \in Extensions \ {""}
      PROVE  store'[c][FileKey(m, e)] = NoObject
  <2>1. FileKey(m, e) \in Key
    BY FileKeyFacts
  <2>2. CASE c = b /\ FileKey(m, e) = k
    BY <2>1, <2>2 DEF StoreRemove, StoresOK
  <2>3. CASE ~(c = b /\ FileKey(m, e) = k)
    <3>1. store'[c][FileKey(m, e)] = store[c][FileKey(m, e)]
      BY <2>1, <2>3 DEF StoreRemove, StoresOK
    <3> QED
      BY <2>3, <3>1 DEF OnlyFile
  <2> QED
    BY <2>2, <2>3
<1> QED
  BY <1>1 DEF NoFile

LEMMA OptimiseTaskFacts ==
  ASSUME NEW m \in Medias
  PROVE  /\ OptimiseTask(m) \in Task
         /\ OptimiseTask(m).media = m
  BY DEF OptimiseTask, Task, TaskKinds

-----------------------------------------------------------------------------
(* CalmInv is inductive: the steps of a finalise *)

LEMMA CalmInvInit == Init => CalmInv
<1> SUFFICES ASSUME Init PROVE CalmInv
  OBVIOUS
<1>1. IInv
  BY IInvInit
<1>2. /\ store = [b \in Buckets |-> [k \in Key |-> NoObject]]
      /\ tasks = [t \in Task |-> 0]
      /\ fin = [f \in Finalisers |-> U!Idle("none", Nil)]
      /\ del = [d \in Deleters |-> IdleDeleter("none", Nil)]
      /\ db = [m \in Medias |-> NoRow]
  BY SameData DEF Init, U!Init, U!BackendInit, DeletionInit
<1>3. /\ \A f \in Finalisers : fin[f].pc = "idle"
      /\ \A d \in Deleters : del[d].pc = "idle"
  BY <1>2 DEF U!Idle, IdleDeleter
<1>4. ASSUME NEW m \in Medias
      PROVE  Queued(m) = 0 /\ NoFile(m, store) /\ db[m] = NoRow
  BY <1>2, FileKeyFacts, OptimiseTaskFacts DEF Queued, NoFile
<1>5. ASSUME NEW m \in Medias PROVE Rest(m, db[m], store, Queued(m), raced)
  BY <1>4 DEF Rest, RestFiles, RestTasks
<1> QED
  BY <1>1, <1>3, <1>4, <1>5 DEF CalmInv, Alone, WorksOn

\* A step of finalise f, at work on n before or after it, when it is t: it
\* concerns n only, and no other finalise is at work on n.
Turn(f, n, t) ==
  /\ raced \subseteq raced' /\ del' = del /\ link' = link
  /\ fin' = [fin EXCEPT ![f] = t]
  /\ fin[f].pc # "idle" => fin[f].id = n
  /\ t.pc # "idle" => t.id = n
  /\ fin[f].pc # "idle" \/ t.pc # "idle"
  /\ \A g \in Finalisers \ {f} : fin[g].pc # "idle" => fin[g].id # n
  /\ \A m \in Medias \ {n} : /\ db'[m] = db[m]
                             /\ Queued(m)' = Queued(m)
                             /\ Fewer(m, store, store')
  /\ IF t.pc # "idle" THEN Holds(t, db'[n], store', Queued(n)', raced')
                      ELSE Rest(n, db'[n], store', Queued(n)', raced')

LEMMA FinaliseCalm ==
  ASSUME CalmInv, IInv', NEW f \in Finalisers, NEW t, NEW n \in Medias,
         Turn(f, n, t)
  PROVE  CalmInv'
<1>0. /\ raced \subseteq raced' /\ del' = del /\ link' = link
      /\ fin' = [fin EXCEPT ![f] = t]
      /\ fin[f].pc # "idle" => fin[f].id = n
      /\ t.pc # "idle" => t.id = n
      /\ fin[f].pc # "idle" \/ t.pc # "idle"
      /\ \A g \in Finalisers \ {f} : fin[g].pc # "idle" => fin[g].id # n
      /\ \A m \in Medias \ {n} : /\ db'[m] = db[m]
                                 /\ Queued(m)' = Queued(m)
                                 /\ Fewer(m, store, store')
      /\ t.pc # "idle" => Holds(t, db'[n], store', Queued(n)', raced')
      /\ t.pc = "idle" => Rest(n, db'[n], store', Queued(n)', raced')
  BY DEF Turn
<1> USE <1>0
<1>1. FinalisersOK /\ DeletersOK /\ RacesOK /\ FinalisersOK' /\ RacesOK'
  BY DEF CalmInv, IInv
<1>2. \A g \in Finalisers : fin'[g] = IF g = f THEN t ELSE fin[g]
  BY <1>1 DEF FinalisersOK
<1>3. \A g \in Finalisers : fin[g].pc # "idle" => fin[g].id \in Medias
  BY <1>1 DEF FinalisersOK, FinaliserLocal
<1>4. Alone'
  BY <1>2 DEF CalmInv, Alone
<1>5. ASSUME NEW m \in Medias, NEW g \in Finalisers, WorksOn(fin'[g], m)
      PROVE  Holds(fin'[g], db'[m], store', Queued(m)', raced')
  <2>1. CASE g = f
    <3>1. fin'[g] = t /\ t.pc # "idle" /\ m = n
      BY <1>2, <1>5, <2>1 DEF WorksOn
    <3> QED
      BY <3>1
  <2>2. CASE g # f
    <3>1. fin'[g] = fin[g] /\ WorksOn(fin[g], m) /\ m # n
      BY <1>2, <1>5, <2>2 DEF WorksOn
    <3>2. Holds(fin[g], db[m], store, Queued(m), raced)
      BY <3>1 DEF CalmInv
    <3>3. /\ fin[g].id \in Medias /\ db'[m] = db[m] /\ Queued(m)' = Queued(m)
          /\ Fewer(fin[g].id, store, store')
      BY <3>1 DEF WorksOn
    <3>4. Holds(fin[g], db[m], store', Queued(m), raced')
      BY <3>2, <3>3, HoldsStays
    <3> QED
      BY <3>1, <3>3, <3>4
  <2> QED
    BY <2>1, <2>2
<1>6. ASSUME NEW m \in Medias, ~Finalising(m)'
      PROVE  Rest(m, db'[m], store', Queued(m)', raced')
  <2>1. CASE m = n
    <3>1. fin'[f] = t
      BY <1>2
    <3>2. t.pc = "idle"
      BY <1>6, <2>1, <3>1 DEF Finalising
    <3> QED
      BY <2>1, <3>2
  <2>2. CASE m # n
    <3>1. ~Finalising(m)
      BY <1>2, <1>6, <2>2 DEF Finalising
    <3>2. Rest(m, db[m], store, Queued(m), raced)
      BY <3>1 DEF CalmInv
    <3> QED
      BY <2>2, <3>2, RestStays
  <2> QED
    BY <2>1, <2>2
<1>7. ASSUME NEW m \in Medias, ~Known(m, link') PROVE Queued(m)' = 0
  <2>1. Known(n, link')
    <3>1. CASE fin[f].pc # "idle"
      BY <1>1, <3>1 DEF FinalisersOK
    <3>2. CASE t.pc # "idle"
      BY <1>1, <1>2, <3>2 DEF FinalisersOK, Known
    <3> QED
      BY <3>1, <3>2
  <2> QED
    BY <1>7, <2>1 DEF CalmInv
<1>8. ASSUME NEW m \in Medias, NEW d \in Deleters, WorksOn(del[d], m),
             m \notin raced'
      PROVE  Clears(del[d], db'[m], store')
  <2>1. RowOf(del[d].id, del[d].media) /\ del[d].id = m
    BY <1>1, <1>8, AtDelete DEF WorksOn
  <2>2. m # n
    <3>1. Deleting(m) /\ Deleting(m)'
      BY <1>8 DEF Deleting, WorksOn
    <3>2. Finalising(n) \/ Finalising(n)'
      BY <1>2 DEF Finalising
    <3> QED
      BY <1>1, <1>8, <3>1, <3>2 DEF RacesOK
  <2>3. Clears(del[d], db[m], store)
    BY <1>8 DEF CalmInv
  <2>4. db'[m] = db[m] /\ Fewer(del[d].id, store, store')
    BY <2>1, <2>2
  <2> QED
    BY <2>1, <2>3, <2>4, ClearsStays
<1>9. del' = del /\ IInv'
  OBVIOUS
<1> QED
  BY <1>4, <1>5, <1>6, <1>7, <1>8, <1>9 DEF CalmInv

\* A finalise at work, in a calm state.
LEMMA CalmAtWork ==
  ASSUME CalmInv, NEW f \in Finalisers, fin[f].pc # "idle"
  PROVE  \E n \in Medias :
           /\ fin[f].id = n
           /\ \A g \in Finalisers \ {f} : fin[g].pc # "idle" => fin[g].id # n
           /\ Holds(fin[f], db[n], store, Queued(n), raced)
           /\ db[n] # NoRow => RowOf(n, db[n])
<1>1. fin[f].id \in Medias
  BY AtWork DEF CalmInv, IInv
<1> DEFINE n == fin[f].id
<1>2. \A g \in Finalisers \ {f} : fin[g].pc # "idle" => fin[g].id # n
  BY DEF CalmInv, Alone
<1>3. Holds(fin[f], db[n], store, Queued(n), raced)
  BY <1>1 DEF CalmInv, WorksOn
<1>4. db[n] # NoRow => RowOf(n, db[n])
  BY <1>1 DEF CalmInv, IInv, RowsOK
<1> QED
  BY <1>1, <1>2, <1>3, <1>4

\* The call of f concerns its media n only.
LEMMA CallCalm ==
  ASSUME CalmInv, IInv', raced \subseteq raced', UNCHANGED del,
         NEW f \in Finalisers, NEW t, Becomes(f, t), fin[f].pc # "idle",
         NEW n \in Medias, fin[f].id = n,
         \A g \in Finalisers \ {f} : fin[g].pc # "idle" => fin[g].id # n,
         \A m \in Medias \ {n} : /\ db'[m] = db[m]
                                 /\ Queued(m)' = Queued(m)
                                 /\ Fewer(m, store, store'),
         t.pc # "idle" => Holds(t, db'[n], store', Queued(n)', raced'),
         t.pc = "idle" => Rest(n, db'[n], store', Queued(n)', raced')
  PROVE  CalmInv'
<1>1. Turn(f, n, t)
  BY DEF Becomes, Turn
<1> QED
  BY <1>1, FinaliseCalm

LEMMA ProbedCalm ==
  ASSUME CalmInv, IInv', raced \subseteq raced', UNCHANGED del,
         NEW f \in Finalisers, NEW t, Becomes(f, t), Probed(fin[f], t)
  PROVE  CalmInv'
<1>1. /\ fin[f].pc \in {"stat", "read"} /\ t.pc \in {"read", "save", "cleanup"}
      /\ UNCHANGED <<db, store, tasks>>
  BY DEF Probed
<1>2. PICK n \in Medias :
        /\ fin[f].id = n
        /\ \A g \in Finalisers \ {f} : fin[g].pc # "idle" => fin[g].id # n
        /\ Holds(fin[f], db[n], store, Queued(n), raced)
  BY <1>1, CalmAtWork
<1>3. t.id = n
  BY <1>2 DEF Becomes
<1>4. HoldsRow(t, db[n], raced')
  BY <1>1, <1>2, <1>3 DEF Holds, HoldsRow
<1>5. HoldsFiles(fin[f], store) => HoldsFiles(t, store)
  BY <1>1, <1>2, <1>3 DEF HoldsFiles
<1>6. Holds(t, db[n], store, Queued(n), raced')
  BY <1>2, <1>4, <1>5 DEF Holds
<1>7. \A m \in Medias : /\ db'[m] = db[m] /\ Queued(m)' = Queued(m)
                        /\ Fewer(m, store, store')
  BY <1>1, SameFewer DEF Queued
<1> QED
  BY <1>1, <1>2, <1>6, <1>7, CallCalm

LEMMA SavedCalm ==
  ASSUME CalmInv, IInv', raced \subseteq raced', UNCHANGED del,
         NEW f \in Finalisers, NEW t, Becomes(f, t), Saved(fin[f], t)
  PROVE  CalmInv'
<1>1. /\ fin[f].pc = "save" /\ t.pc \in {"unstage", "cleanup"}
      /\ UNCHANGED <<db, tasks>>
  BY DEF Saved
<1>2. PICK n \in Medias :
        /\ fin[f].id = n
        /\ \A g \in Finalisers \ {f} : fin[g].pc # "idle" => fin[g].id # n
        /\ Holds(fin[f], db[n], store, Queued(n), raced)
  BY <1>1, CalmAtWork
<1>3. /\ FinaliserLocal(fin[f]) /\ fin[f].dest \in Buckets
      /\ KeyOf(fin[f]) \in Key /\ KeyOf(fin[f]).media = n
      /\ StoresOK
  <2>1. FinaliserLocal(fin[f]) /\ fin[f].dest \in Buckets
    BY <1>1, AtWork DEF CalmInv, IInv
  <2> QED
    BY <1>1, <1>2, <2>1, KeyFacts DEF CalmInv, IInv
<1>4. t.id = n /\ t.dest = fin[f].dest /\ KeyOf(t) = KeyOf(fin[f])
  BY <1>1, <1>2 DEF Becomes
<1>5. HoldsRow(t, db[n], raced')
  BY <1>1, <1>2, <1>4 DEF Holds, HoldsRow
<1>6. FilesAreKept => HoldsFiles(t, store')
  <2>1. SUFFICES ASSUME FilesAreKept PROVE HoldsFiles(t, store')
    OBVIOUS
  <2>2. NoFile(n, store)
    BY <1>1, <1>2, <2>1 DEF Holds, HoldsFiles
  <2>3. CASE t.pc = "unstage"
    <3>1. PICK o : StoreSave(fin[f].dest, KeyOf(fin[f]), o)
      BY <1>1, <2>3 DEF Saved
    <3>2. OnlyFile(n, fin[f].dest, KeyOf(fin[f]), store')
      BY <1>3, <2>2, <3>1, SavedOnly
    <3> QED
      BY <1>4, <2>3, <3>2 DEF HoldsFiles
  <2>4. CASE t.pc = "cleanup" /\ UNCHANGED store
    BY <1>4, <2>2, <2>4 DEF HoldsFiles
  <2> QED
    BY <2>1, <2>3, <2>4 DEF Saved, FilesAreKept
<1>7. db' = db /\ \A m \in Medias : Queued(m)' = Queued(m)
  BY <1>1 DEF Queued
<1>8. Holds(t, db'[n], store', Queued(n)', raced')
  BY <1>2, <1>5, <1>6, <1>7 DEF Holds
<1>9. ASSUME NEW m \in Medias \ {n} PROVE Fewer(m, store, store')
  <2>1. CASE UNCHANGED store
    BY <2>1, SameFewer
  <2>2. CASE \E o \in Object : StoreSave(fin[f].dest, KeyOf(fin[f]), o)
    BY <1>3, <2>2, SavedFewer
  <2> QED
    BY <2>1, <2>2 DEF Saved
<1> QED
  BY <1>1, <1>2, <1>7, <1>8, <1>9, CallCalm

LEMMA UnstagedCalm ==
  ASSUME CalmInv, IInv', raced \subseteq raced', UNCHANGED del,
         NEW f \in Finalisers, NEW t, Becomes(f, t), Unstaged(fin[f], t)
  PROVE  CalmInv'
<1>1. /\ \/ fin[f].pc = "unstage" /\ t.pc = "update"
         \/ fin[f].pc = "cleanup" /\ t.pc = "mark"
      /\ UNCHANGED <<db, tasks>>
  BY DEF Unstaged
<1>2. PICK n \in Medias :
        /\ fin[f].id = n
        /\ \A g \in Finalisers \ {f} : fin[g].pc # "idle" => fin[g].id # n
        /\ Holds(fin[f], db[n], store, Queued(n), raced)
  BY <1>1, CalmAtWork
<1>3. t.id = n /\ t.dest = fin[f].dest /\ KeyOf(t) = KeyOf(fin[f])
  BY <1>1, <1>2 DEF Becomes
<1>4. \A m \in Medias : Fewer(m, store, store')
  BY RemovedFewer DEF Unstaged, CalmInv, IInv
<1>5. Holds(t, db[n], store, Queued(n), raced)
  BY <1>1, <1>2, <1>3 DEF Holds, HoldsRow, HoldsFiles
<1>6. Holds(t, db[n], store', Queued(n), raced')
  BY <1>3, <1>4, <1>5, HoldsStays
<1>7. db' = db /\ \A m \in Medias : Queued(m)' = Queued(m)
  BY <1>1 DEF Queued
<1> QED
  BY <1>1, <1>2, <1>4, <1>6, <1>7, CallCalm

LEMMA UpdatedCalm ==
  ASSUME CalmInv, IInv', raced \subseteq raced', UNCHANGED del,
         NEW f \in Finalisers, NEW t, Becomes(f, t), Updated(fin[f], t)
  PROVE  CalmInv'
<1>1. /\ fin[f].pc = "update" /\ t.pc \in {"enqueue", "undo"}
      /\ UNCHANGED <<store, tasks>>
  BY DEF Updated
<1>2. PICK n \in Medias :
        /\ fin[f].id = n
        /\ \A g \in Finalisers \ {f} : fin[g].pc # "idle" => fin[g].id # n
        /\ Holds(fin[f], db[n], store, Queued(n), raced)
        /\ db[n] # NoRow => RowOf(n, db[n])
  BY <1>1, CalmAtWork
<1>3. t.id = n /\ t.dest = fin[f].dest /\ KeyOf(t) = KeyOf(fin[f])
  BY <1>1, <1>2 DEF Becomes
<1>4. FinaliserLocal(fin[f]) /\ RowsOK
  BY <1>1, AtWork DEF CalmInv, IInv
<1>5. \A m \in Medias \ {n} : db'[m] = db[m]
  BY <1>2, <1>4 DEF Updated, RepoUpdate, RowsOK
<1>6. HoldsRow(t, db'[n], raced')
  <2>1. HoldsRow(fin[f], db[n], raced)
    BY <1>2 DEF Holds
  <2>2. CASE UNCHANGED db /\ t.pc = "undo"
    BY <1>1, <1>2, <1>3, <2>1, <2>2 DEF HoldsRow
  <2>3. CASE RepoUpdate(n, CompletedOf(fin[f]))
    <3>1. PICK row : /\ row = CompletedOf(fin[f]) /\ row # NoRow
                     /\ row.status = "completed" /\ row.bucket = t.dest
                     /\ row.key = KeyOf(t)
      BY <1>1, <1>3, <1>4, CompletedFacts, RowFacts
    <3>2. db'[n] = IF db[n] = NoRow THEN NoRow ELSE row
      BY <1>4, <2>3, <3>1 DEF RepoUpdate, UpdatedRow, RowsOK
    <3>3. db[n] = NoRow => n \in raced'
      BY <1>2, <2>1 DEF HoldsRow
    <3> QED
      BY <1>1, <1>3, <3>1, <3>2, <3>3 DEF HoldsRow
  <2> QED
    BY <1>2, <2>2, <2>3 DEF Updated
<1>7. HoldsFiles(fin[f], store) => HoldsFiles(t, store)
  BY <1>1, <1>2, <1>3 DEF HoldsFiles
<1>8. \A m \in Medias : Queued(m)' = Queued(m) /\ Fewer(m, store, store')
  BY <1>1, SameFewer DEF Queued
<1>9. Holds(t, db'[n], store', Queued(n)', raced')
  BY <1>1, <1>2, <1>6, <1>7, <1>8 DEF Holds
<1> QED
  BY <1>1, <1>2, <1>5, <1>8, <1>9, CallCalm

LEMMA UndoneCalm ==
  ASSUME CalmInv, IInv', raced \subseteq raced', UNCHANGED del,
         NEW f \in Finalisers, NEW t, Becomes(f, t), Undone(fin[f], t)
  PROVE  CalmInv'
<1>1. fin[f].pc = "undo" /\ t.pc = "cleanup" /\ UNCHANGED <<db, tasks>>
  BY DEF Undone
<1>2. PICK n \in Medias :
        /\ fin[f].id = n
        /\ \A g \in Finalisers \ {f} : fin[g].pc # "idle" => fin[g].id # n
        /\ Holds(fin[f], db[n], store, Queued(n), raced)
  BY <1>1, CalmAtWork
<1>3. t.id = n
  BY <1>2 DEF Becomes
<1>4. \A m \in Medias : Fewer(m, store, store')
  BY RemovedFewer DEF Undone, CalmInv, IInv
<1>5. HoldsRow(t, db[n], raced')
  BY <1>1, <1>2, <1>3 DEF Holds, HoldsRow
<1>6. FilesAreKept => HoldsFiles(t, store')
  <2>1. SUFFICES ASSUME FilesAreKept PROVE HoldsFiles(t, store')
    OBVIOUS
  <2>2. OnlyFile(n, fin[f].dest, KeyOf(fin[f]), store)
    BY <1>1, <1>2, <2>1 DEF Holds, HoldsFiles
  <2>3. StoreRemove(fin[f].dest, KeyOf(fin[f]))
    BY <2>1 DEF Undone, FilesAreKept
  <2>4. FinaliserLocal(fin[f]) /\ fin[f].dest \in Buckets /\ StoresOK
    BY <1>1, AtWork DEF CalmInv, IInv
  <2>5. KeyOf(fin[f]) \in Key
    BY <1>1, <2>4, KeyFacts
  <2>6. NoFile(n, store')
    BY <2>2, <2>3, <2>4, <2>5, RemovedNone
  <2> QED
    BY <1>1, <1>3, <2>6 DEF HoldsFiles
<1>7. db' = db /\ \A m \in Medias : Queued(m)' = Queued(m)
  BY <1>1 DEF Queued
<1>8. Holds(t, db'[n], store', Queued(n)', raced')
  BY <1>2, <1>5, <1>6, <1>7 DEF Holds
<1> QED
  BY <1>1, <1>2, <1>4, <1>7, <1>8, CallCalm

LEMMA EnqueuedCalm ==
  ASSUME CalmInv, IInv', raced \subseteq raced', UNCHANGED del,
         NEW f \in Finalisers, NEW t, Becomes(f, t), Enqueued(fin[f], t)
  PROVE  CalmInv'
<1>1. fin[f].pc = "enqueue" /\ t.pc = "idle" /\ UNCHANGED <<db, store>>
  BY DEF Enqueued
<1>2. PICK n \in Medias :
        /\ fin[f].id = n
        /\ \A g \in Finalisers \ {f} : fin[g].pc # "idle" => fin[g].id # n
        /\ Holds(fin[f], db[n], store, Queued(n), raced)
  BY <1>1, CalmAtWork
<1>3. \A m \in Medias \ {n} : Queued(m)' = Queued(m)
  BY <1>2, OptimiseTaskFacts DEF Enqueued, Enqueue, Queued, CalmInv, IInv, StoresOK
<1>4. TasksAreKept => Queued(n) = 0 /\ Queued(n)' = 1
  <2>1. SUFFICES ASSUME TasksAreKept PROVE Queued(n) = 0 /\ Queued(n)' = 1
    OBVIOUS
  <2>2. Enqueue(OptimiseTask(n))
    BY <1>2, <2>1 DEF Enqueued, TasksAreKept
  <2>3. Queued(n) = 0
    BY <1>2, <2>1 DEF Holds
  <2> QED
    BY <2>2, <2>3, OptimiseTaskFacts DEF Enqueue, Queued, CalmInv, IInv, StoresOK
<1>5. HoldsRow(fin[f], db[n], raced)
  BY <1>2 DEF Holds
<1>6. HoldsFiles(fin[f], store) => RestFiles(n, db[n], store, raced')
  BY <1>1, <1>2, <1>5 DEF HoldsFiles, HoldsRow, RestFiles
<1>7. Queued(n)' = 1 => RestTasks(db[n], Queued(n)')
  BY <1>1, <1>5 DEF HoldsRow, RestTasks
<1>8. Rest(n, db[n], store, Queued(n)', raced')
  BY <1>2, <1>4, <1>6, <1>7 DEF Holds, Rest
<1>9. db' = db /\ store' = store /\ \A m \in Medias : Fewer(m, store, store')
  BY <1>1, SameFewer
<1> QED
  BY <1>1, <1>2, <1>3, <1>8, <1>9, CallCalm

LEMMA MarkedCalm ==
  ASSUME CalmInv, IInv', raced \subseteq raced', UNCHANGED del,
         NEW f \in Finalisers, NEW t, Becomes(f, t), Marked(fin[f], t)
  PROVE  CalmInv'
<1>1. fin[f].pc = "mark" /\ t.pc = "idle" /\ UNCHANGED <<store, tasks>>
  BY DEF Marked
<1>2. PICK n \in Medias :
        /\ fin[f].id = n
        /\ \A g \in Finalisers \ {f} : fin[g].pc # "idle" => fin[g].id # n
        /\ Holds(fin[f], db[n], store, Queued(n), raced)
  BY <1>1, CalmAtWork
<1>3. FinaliserLocal(fin[f]) /\ RowsOK
  BY <1>1, AtWork DEF CalmInv, IInv
<1>4. PICK row : /\ row = [fin[f].media EXCEPT !.status = "failed"]
                 /\ row.status = "failed"
  BY <1>1, <1>3, FailedFacts
<1>5. \A m \in Medias \ {n} : db'[m] = db[m]
  BY <1>2, <1>3 DEF Marked, RepoUpdate, RowsOK
<1>6. TasksAreKept => db'[n] = IF db[n] = NoRow THEN NoRow ELSE row
  BY <1>2, <1>3, <1>4 DEF Marked, TasksAreKept, RepoUpdate, UpdatedRow, RowsOK
<1>7. TasksAreKept => RestTasks(db'[n], Queued(n))
  <2>1. SUFFICES ASSUME TasksAreKept PROVE RestTasks(db'[n], Queued(n))
    OBVIOUS
  <2>2. Queued(n) = 0
    BY <1>2, <2>1 DEF Holds
  <2>3. db'[n] = NoRow \/ db'[n].status = "failed"
    BY <1>4, <1>6, <2>1
  <2> QED
    BY <2>2, <2>3 DEF RestTasks
<1>8. HoldsFiles(fin[f], store) => RestFiles(n, db'[n], store, raced')
  BY <1>1, <1>2 DEF HoldsFiles, RestFiles
<1>9. Rest(n, db'[n], store, Queued(n), raced')
  BY <1>2, <1>7, <1>8 DEF Holds, Rest
<1>10. /\ store' = store
       /\ \A m \in Medias : Queued(m)' = Queued(m) /\ Fewer(m, store, store')
  BY <1>1, SameFewer DEF Queued
<1> QED
  BY <1>1, <1>2, <1>5, <1>9, <1>10, CallCalm

LEMMA FinaliserStepCalm ==
  ASSUME CalmInv, IInv', raced \subseteq raced', UNCHANGED del,
         NEW f \in Finalisers, U!FinaliserStep(f)
  PROVE  CalmInv'
<1>1. FinalisersOK /\ StoresOK
  BY DEF CalmInv, IInv
<1>2. PICK t : Becomes(f, t) /\ Call(fin[f], t)
  BY <1>1, FinaliserStepIs
<1> QED
  BY <1>2, ProbedCalm, SavedCalm, UnstagedCalm, UpdatedCalm, UndoneCalm,
     EnqueuedCalm, MarkedCalm DEF Call

-----------------------------------------------------------------------------
(* CalmInv is inductive: links, the beginning and the end of a finalise *)

\* A media at rest stays so while more races are noted.
LEMMA SameRest ==
  ASSUME CalmInv, NEW m \in Medias, ~Finalising(m), raced \subseteq raced'
  PROVE  Rest(m, db[m], store, Queued(m), raced')
<1>1. Rest(m, db[m], store, Queued(m), raced)
  BY DEF CalmInv
<1>2. Fewer(m, store, store)
  BY DEF Fewer
<1> QED
  BY <1>1, <1>2, RestStays

\* No request moves: at most a new media gets its row, or a staged file is saved.
LEMMA LinksCalm ==
  ASSUME CalmInv, IInv', raced \subseteq raced', UNCHANGED <<fin, del, tasks>>,
         \A m \in Medias : Fewer(m, store, store'),
         \A m \in Medias : Known(m, link) => Known(m, link'),
         \A m \in Medias :
           \/ db'[m] = db[m]
           \/ ~Known(m, link) /\ db'[m] # NoRow /\ db'[m].status = "pending"
  PROVE  CalmInv'
<1>1. FinalisersOK /\ DeletersOK /\ RacesOK /\ RowsOK
  BY DEF CalmInv, IInv
<1>2. \A m \in Medias : Queued(m)' = Queued(m)
  BY DEF Queued
<1>3. Alone'
  BY DEF CalmInv, Alone
<1>4. ASSUME NEW m \in Medias, NEW f \in Finalisers, WorksOn(fin[f], m)
      PROVE  Holds(fin[f], db'[m], store', Queued(m)', raced')
  <2>1. Known(m, link) /\ fin[f].id = m
    BY <1>1, <1>4 DEF WorksOn, FinalisersOK
  <2>2. Holds(fin[f], db[m], store, Queued(m), raced)
    BY <1>4 DEF CalmInv
  <2>3. Holds(fin[f], db[m], store', Queued(m), raced')
    BY <2>1, <2>2, HoldsStays
  <2> QED
    BY <1>2, <2>1, <2>3
<1>5. ASSUME NEW m \in Medias, ~Finalising(m)
      PROVE  Rest(m, db'[m], store', Queued(m)', raced')
  <2>1. Rest(m, db[m], store, Queued(m), raced)
    BY <1>5 DEF CalmInv
  <2>2. Rest(m, db[m], store', Queued(m), raced')
    BY <2>1, RestStays
  <2>3. CASE db'[m] = db[m]
    BY <1>2, <2>2, <2>3
  <2>4. CASE ~Known(m, link) /\ db'[m] # NoRow /\ db'[m].status = "pending"
    <3>1. db[m] = NoRow /\ m \notin raced /\ Queued(m) = 0
      BY <1>1, <2>4 DEF RowsOK, RacesOK, CalmInv
    <3>2. FilesAreKept => NoFile(m, store)
      BY <2>1, <3>1 DEF Rest, RestFiles
    <3>3. FilesAreKept => NoFile(m, store')
      BY <3>2, FewerFiles
    <3> QED
      BY <1>2, <2>4, <3>1, <3>3 DEF Rest, RestFiles, RestTasks
  <2> QED
    BY <2>3, <2>4
<1>6. \A m \in Medias : ~Known(m, link') => Queued(m)' = 0
  BY <1>2 DEF CalmInv
<1>7. ASSUME NEW m \in Medias, NEW d \in Deleters, WorksOn(del[d], m),
             m \notin raced'
      PROVE  Clears(del[d], db'[m], store')
  <2>1. RowOf(del[d].id, del[d].media) /\ del[d].id = m /\ Known(m, link)
    BY <1>1, <1>7, AtDelete DEF WorksOn
  <2>2. Clears(del[d], db[m], store) /\ db'[m] = db[m]
    BY <1>7, <2>1 DEF CalmInv
  <2> QED
    BY <2>1, <2>2, ClearsStays
<1>8. fin' = fin /\ del' = del /\ \A m \in Medias : Finalising(m)' <=> Finalising(m)
  BY DEF Finalising
<1> QED
  BY <1>3, <1>4, <1>5, <1>6, <1>7, <1>8 DEF CalmInv

LEMMA CreateRowCalm ==
  ASSUME CalmInv, IInv', raced \subseteq raced', UNCHANGED del,
         NEW m \in Medias, U!CreateRow(m)
  PROVE  CalmInv'
<1>1. RowsOK /\ StoresOK
  BY DEF CalmInv, IInv
<1>2. /\ link[m] = "unused" /\ UNCHANGED <<store, tasks, fin>>
      /\ \E l \in {"minting", "dead"} : link' = [link EXCEPT ![m] = l]
      /\ db' = db \/ db' = [db EXCEPT ![m] = U!PendingRow(m)]
  BY DEF U!CreateRow, U!RepoCreate
<1>3. U!PendingRow(m) # NoRow /\ U!PendingRow(m).status = "pending"
  BY NewRowFacts, RowFacts
<1>4. \A n \in Medias : \/ db'[n] = db[n]
                        \/ /\ ~Known(n, link) /\ db'[n] # NoRow
                           /\ db'[n].status = "pending"
  BY <1>1, <1>2, <1>3 DEF RowsOK, Known
<1>5. \A n \in Medias : Known(n, link) => Known(n, link')
  BY <1>1, <1>2 DEF StoresOK, Known
<1>6. \A n \in Medias : Fewer(n, store, store')
  BY <1>2, SameFewer
<1> QED
  BY <1>2, <1>4, <1>5, <1>6, LinksCalm

LEMMA LinkCalm ==
  ASSUME CalmInv, IInv', raced \subseteq raced', UNCHANGED del,
         NEW m \in Medias, U!Presign(m) \/ U!Expire(m)
  PROVE  CalmInv'
<1>1. StoresOK
  BY DEF CalmInv, IInv
<1>2. /\ link[m] # "unused" /\ UNCHANGED <<db, store, tasks, fin>>
      /\ \E l \in {"live", "dead"} : link' = [link EXCEPT ![m] = l]
  BY DEF U!Presign, U!Expire
<1>3. \A n \in Medias : Known(n, link) => Known(n, link')
  BY <1>1, <1>2 DEF StoresOK, Known
<1>4. \A n \in Medias : Fewer(n, store, store') /\ db'[n] = db[n]
  BY <1>2, SameFewer
<1> QED
  BY <1>2, <1>3, <1>4, LinksCalm

LEMMA PutCalm ==
  ASSUME CalmInv, IInv', raced \subseteq raced', UNCHANGED del,
         NEW m \in Medias, NEW o \in Uploads, U!Put(m, o)
  PROVE  CalmInv'
<1>1. StoresOK /\ IInv
  BY DEF CalmInv, IInv
<1>2. UNCHANGED <<db, tasks, link, fin>>
  BY DEF U!Put
<1>3. StoreSave(Staging, FileKey(m, ""), o) /\ FileKey(m, "").ext = ""
  BY <1>1, PutKept, RawKeyFacts DEF StoreSave
<1>4. \A n \in Medias : Fewer(n, store, store') /\ db'[n] = db[n]
  BY <1>1, <1>2, <1>3, SavedFewer
<1>5. \A n \in Medias : Known(n, link) => Known(n, link')
  BY <1>2
<1> QED
  BY <1>2, <1>4, <1>5, LinksCalm

LEMMA BeginCalm ==
  ASSUME ExclusiveFinalise, CalmInv, IInv', raced \subseteq raced', UNCHANGED del,
         NEW f \in Finalisers, NEW m \in Medias, NEW b \in Buckets,
         U!BeginFinalise(f, m, b)
  PROVE  CalmInv'
<1>1. IInv
  BY DEF CalmInv
<1>2. /\ fin[f].pc = "idle" /\ db[m] # NoRow /\ db[m].status = "pending"
      /\ \A g \in Finalisers : fin[g].pc # "idle" => fin[g].id # m
      /\ UNCHANGED <<db, store, tasks, link>>
  BY DEF U!BeginFinalise, U!MayFinalise
<1>3. PICK t : fin' = [fin EXCEPT ![f] = t] /\ t.pc = "stat" /\ t.id = m
  BY <1>1, BeginKept
<1>4. Rest(m, db[m], store, Queued(m), raced')
  BY <1>2, SameRest DEF Finalising
<1>5. Holds(t, db[m], store, Queued(m), raced')
  <2>1. HoldsRow(t, db[m], raced')
    BY <1>2, <1>3 DEF HoldsRow
  <2>2. RestFiles(m, db[m], store, raced') => HoldsFiles(t, store)
    BY <1>2, <1>3 DEF RestFiles, HoldsFiles
  <2>3. RestTasks(db[m], Queued(m)) => Queued(m) = 0
    BY <1>2 DEF RestTasks
  <2> QED
    BY <1>4, <2>1, <2>2, <2>3 DEF Rest, Holds
<1>6. \A n \in Medias : db'[n] = db[n] /\ Queued(n)' = Queued(n)
                        /\ Fewer(n, store, store')
  BY <1>2, SameFewer DEF Queued
<1>7. Holds(t, db'[m], store', Queued(m)', raced')
  BY <1>2, <1>5, <1>6
<1>8. Turn(f, m, t)
  BY <1>2, <1>3, <1>6, <1>7 DEF Turn
<1> QED
  BY <1>8, FinaliseCalm

\* A finalise answered at once has changed nothing.
LEMMA ReplyCalm ==
  ASSUME CalmInv, IInv', raced \subseteq raced', UNCHANGED del,
         NEW f \in Finalisers, NEW m \in Medias, U!ReplyAtOnce(f, m)
  PROVE  CalmInv'
<1>1. IInv /\ FinalisersOK
  BY DEF CalmInv, IInv
<1>2. fin[f].pc = "idle" /\ UNCHANGED <<db, store, tasks, link>>
  BY DEF U!ReplyAtOnce
<1>3. PICK t : fin' = [fin EXCEPT ![f] = t] /\ t.pc = "idle"
  BY <1>1, IdleKept
<1>4. \A g \in Finalisers : fin'[g] = IF g = f THEN t ELSE fin[g]
  BY <1>1, <1>3 DEF FinalisersOK
<1>5. \A n \in Medias : Fewer(n, store, store')
  BY <1>2, SameFewer
<1>6. Alone'
  BY <1>2, <1>3, <1>4 DEF CalmInv, Alone
<1>7. ASSUME NEW n \in Medias, NEW g \in Finalisers, WorksOn(fin'[g], n)
      PROVE  Holds(fin'[g], db'[n], store', Queued(n)', raced')
  <2>1. fin'[g] = fin[g] /\ WorksOn(fin[g], n) /\ Queued(n)' = Queued(n)
    BY <1>2, <1>3, <1>4, <1>7 DEF WorksOn, Queued
  <2>2. Holds(fin[g], db[n], store, Queued(n), raced) /\ fin[g].id = n
    BY <2>1 DEF CalmInv, WorksOn
  <2>3. Holds(fin[g], db[n], store', Queued(n), raced')
    BY <1>5, <2>2, HoldsStays
  <2> QED
    BY <1>2, <2>1, <2>3
<1>8. ASSUME NEW n \in Medias, ~Finalising(n)'
      PROVE  Rest(n, db'[n], store', Queued(n)', raced')
  <2>1. ~Finalising(n) /\ Queued(n)' = Queued(n)
    BY <1>2, <1>3, <1>4, <1>8 DEF Finalising, Queued
  <2>2. Rest(n, db[n], store, Queued(n), raced')
    BY <2>1, SameRest
  <2> QED
    BY <1>2, <2>1, <2>2
<1>9. \A n \in Medias : ~Known(n, link') => Queued(n)' = 0
  BY <1>2 DEF CalmInv, Queued
<1>10. ASSUME NEW n \in Medias, NEW d \in Deleters, WorksOn(del[d], n),
              n \notin raced'
       PROVE  Clears(del[d], db'[n], store')
  <2>1. Clears(del[d], db[n], store)
    BY <1>10 DEF CalmInv
  <2> QED
    BY <1>2, <2>1
<1>11. del' = del
  OBVIOUS
<1> QED
  BY <1>6, <1>7, <1>8, <1>9, <1>10, <1>11 DEF CalmInv

\* A finalise cut off may leave anything: CalmInv promises nothing of its media then.
LEMMA CrashCalm ==
  ASSUME CalmInv, IInv', raced \subseteq raced', UNCHANGED del,
         NEW f \in Finalisers, U!Crash(f)
  PROVE  CalmInv'
<1>1. IInv
  BY DEF CalmInv
<1>2. /\ "crash" \in Faults /\ fin[f].pc # "idle"
      /\ UNCHANGED <<db, store, tasks, link>>
  BY DEF U!Crash
<1>3. PICK t : fin' = [fin EXCEPT ![f] = t] /\ t.pc = "idle"
  BY <1>1, IdleKept
<1>4. PICK n \in Medias :
        /\ fin[f].id = n
        /\ \A g \in Finalisers \ {f} : fin[g].pc # "idle" => fin[g].id # n
  BY <1>2, CalmAtWork
<1>5. Rest(n, db'[n], store', Queued(n)', raced')
  BY <1>2 DEF Rest, FilesAreKept, TasksAreKept
<1>6. \A m \in Medias : db'[m] = db[m] /\ Queued(m)' = Queued(m)
                        /\ Fewer(m, store, store')
  BY <1>2, SameFewer DEF Queued
<1>7. Turn(f, n, t)
  BY <1>2, <1>3, <1>4, <1>5, <1>6 DEF Turn
<1> QED
  BY <1>7, FinaliseCalm

LEMMA UploadStepCalm ==
  ASSUME ExclusiveFinalise, CalmInv, IInv', raced \subseteq raced', UNCHANGED del,
         U!Next
  PROVE  CalmInv'
BY CreateRowCalm, LinkCalm, PutCalm, BeginCalm, ReplyCalm, CrashCalm,
   FinaliserStepCalm DEF U!Next

-----------------------------------------------------------------------------
(* CalmInv is inductive: the steps of a delete request *)

\* Delete request d is t after the step.  A row it deletes leaves no file behind
\* when no finalise is at work on the media.
LEMMA DeleteCalm ==
  ASSUME CalmInv, IInv', raced \subseteq raced', UNCHANGED <<fin, link, tasks>>,
         NEW d \in Deleters, NEW t, del' = [del EXCEPT ![d] = t],
         \A m \in Medias : Fewer(m, store, store'),
         \A m \in Medias :
           \/ db'[m] = db[m]
           \/ /\ db'[m] = NoRow /\ Deleting(m)
              /\ ~Finalising(m) => Rest(m, NoRow, store', Queued(m), raced'),
         \A m \in Medias :
           WorksOn(t, m) /\ m \notin raced' => Clears(t, db'[m], store')
  PROVE  CalmInv'
<1>1. FinalisersOK /\ DeletersOK /\ RacesOK
  BY DEF CalmInv, IInv
<1>2. \A m \in Medias : Queued(m)' = Queued(m)
  BY DEF Queued
<1>3. Alone'
  BY DEF CalmInv, Alone
<1>4. ASSUME NEW m \in Medias, NEW f \in Finalisers, WorksOn(fin[f], m)
      PROVE  Holds(fin[f], db'[m], store', Queued(m)', raced')
  <2>1. Holds(fin[f], db[m], store, Queued(m), raced) /\ fin[f].id = m
    BY <1>4 DEF CalmInv, WorksOn
  <2>2. Holds(fin[f], db[m], store', Queued(m), raced')
    BY <2>1, HoldsStays
  <2>3. CASE db'[m] = db[m]
    BY <1>2, <2>2, <2>3
  <2>4. CASE db'[m] = NoRow /\ Deleting(m)
    <3>1. m \in raced'
      BY <1>1, <1>4, <2>4 DEF RacesOK, Finalising, WorksOn
    <3> QED
      BY <1>2, <2>1, <2>2, <2>4, <3>1 DEF Holds, HoldsRow
  <2> QED
    BY <2>3, <2>4
<1>5. ASSUME NEW m \in Medias, ~Finalising(m)
      PROVE  Rest(m, db'[m], store', Queued(m)', raced')
  <2>1. Rest(m, db[m], store, Queued(m), raced)
    BY <1>5 DEF CalmInv
  <2>2. Rest(m, db[m], store', Queued(m), raced')
    BY <2>1, RestStays
  <2> QED
    BY <1>2, <1>5, <2>2
<1>6. \A m \in Medias : ~Known(m, link') => Queued(m)' = 0
  BY <1>2 DEF CalmInv
<1>7. \A c \in Deleters : del'[c] = IF c = d THEN t ELSE del[c]
  BY <1>1 DEF DeletersOK
<1>8. ASSUME NEW m \in Medias, NEW c \in Deleters, WorksOn(del'[c], m),
             m \notin raced'
      PROVE  Clears(del'[c], db'[m], store')
  <2>1. CASE c = d
    BY <1>7, <1>8, <2>1
  <2>2. CASE c # d
    <3>1. del'[c] = del[c] /\ WorksOn(del[c], m)
      BY <1>7, <1>8, <2>2
    <3>2. RowOf(del[c].id, del[c].media) /\ del[c].id = m
      BY <1>1, <3>1, AtDelete DEF WorksOn
    <3>3. Clears(del[c], db[m], store)
      BY <1>8, <3>1 DEF CalmInv
    <3>4. db'[m] \in {db[m], NoRow}
      OBVIOUS
    <3> QED
      BY <3>1, <3>2, <3>3, <3>4, ClearsStays
  <2> QED
    BY <2>1, <2>2
<1>9. fin' = fin /\ \A m \in Medias : Finalising(m)' <=> Finalising(m)
  BY DEF Finalising
<1> QED
  BY <1>3, <1>4, <1>5, <1>6, <1>8, <1>9 DEF CalmInv

\* A request that only moves on, or is done.
LEMMA MoveOnCalm ==
  ASSUME CalmInv, IInv', raced \subseteq raced',
         UNCHANGED <<fin, link, tasks, db, store>>,
         NEW d \in Deleters, NEW t, del' = [del EXCEPT ![d] = t],
         t.pc \notin {"variants", "row"}
  PROVE  CalmInv'
<1>1. \A m \in Medias : Fewer(m, store, store') /\ db'[m] = db[m]
  BY SameFewer
<1>2. \A m \in Medias : Clears(t, db'[m], store')
  BY DEF Clears
<1> QED
  BY <1>1, <1>2, DeleteCalm

LEMMA AnswerIs ==
  ASSUME NEW d \in Deleters, NEW answer, NEW n,
         del' = [del EXCEPT ![d] = IdleDeleter(answer, n)]
  PROVE  \E t : del' = [del EXCEPT ![d] = t] /\ t.pc = "idle"
<1> DEFINE t == IdleDeleter(answer, n)
<1>1. t.pc = "idle"
  BY DEF IdleDeleter
<1> QED
  BY <1>1

LEMMA GoOnIs ==
  ASSUME DeletersOK, NEW d \in Deleters, NEW pc, GoOn(d, pc)
  PROVE  \E t : /\ del' = [del EXCEPT ![d] = t]
                /\ t.pc = pc /\ t.id = del[d].id /\ t.media = del[d].media
<1> DEFINE t == [del[d] EXCEPT !.pc = pc]
<1>1. del[d] \in DeleterState
  BY DEF DeletersOK
<1>2. t.pc = pc /\ t.id = del[d].id /\ t.media = del[d].media
  BY <1>1 DEF DeleterState
<1>3. del' = [del EXCEPT ![d] = t]
  BY DEF GoOn
<1> QED
  BY <1>2, <1>3

LEMMA BeginDeleteCalm ==
  ASSUME CalmInv, IInv', raced \subseteq raced',
         NEW d \in Deleters, NEW m \in Medias, BeginRemove(d, m)
  PROVE  CalmInv'
<1>1. UNCHANGED <<db, store, tasks, link, fin>>
  BY DEF BeginRemove, BeginDelete
<1>2. CASE \E answer : del' = [del EXCEPT ![d] = IdleDeleter(answer, m)]
  <2>1. PICK t : del' = [del EXCEPT ![d] = t] /\ t.pc = "idle"
    BY <1>2, AnswerIs
  <2> QED
    BY <1>1, <2>1, MoveOnCalm
<1>3. CASE del' = [del EXCEPT ![d] = [IdleDeleter("none", m) EXCEPT
                     !.pc = "variants", !.media = db[m], !.i = 1]]
  <2> DEFINE t == [IdleDeleter("none", m) EXCEPT
                     !.pc = "variants", !.media = db[m], !.i = 1]
  <2>1. t.pc = "variants" /\ t.id = m /\ t.media = db[m]
    BY DEF IdleDeleter
  <2>2. del' = [del EXCEPT ![d] = t]
    BY <1>3
  <2> HIDE DEF t
  <2>3. \A n \in Medias : Fewer(n, store, store') /\ db'[n] = db[n]
    BY <1>1, SameFewer
  <2>4. \A n \in Medias : WorksOn(t, n) => Clears(t, db'[n], store')
    BY <2>1, <2>3 DEF WorksOn, Clears
  <2> QED
    BY <1>1, <2>2, <2>3, <2>4, DeleteCalm
<1> QED
  BY <1>2, <1>3 DEF BeginRemove, BeginDelete

LEMMA RemoveObjectCalm ==
  ASSUME CalmInv, IInv', raced \subseteq raced', UNCHANGED <<link, fin>>,
         NEW d \in Deleters, RemoveObject(d)
  PROVE  CalmInv'
<1>1. DeletersOK /\ StoresOK
  BY DEF CalmInv, IInv
<1>2. del[d].pc = "variants" /\ UNCHANGED <<db, tasks>>
  BY DEF RemoveObject
<1>3. CASE Answer(d, "error") /\ UNCHANGED store
  <2>1. PICK t : del' = [del EXCEPT ![d] = t] /\ t.pc = "idle"
    BY <1>3, AnswerIs DEF Answer
  <2> QED
    BY <1>2, <1>3, <2>1, MoveOnCalm
<1>4. CASE /\ StoreRemove(del[d].media.bucket, del[d].media.key)
           /\ GoOn(d, "row")
  <2>1. PICK t : /\ del' = [del EXCEPT ![d] = t]
                 /\ t.pc = "row" /\ t.id = del[d].id /\ t.media = del[d].media
    BY <1>1, <1>4, GoOnIs
  <2>2. \A m \in Medias : Fewer(m, store, store') /\ db'[m] = db[m]
    BY <1>1, <1>2, <1>4, RemovedFewer
  <2>3. store'[t.media.bucket][t.media.key] = NoObject
    <3>1. t.media.bucket \in Buckets /\ t.media.key \in Key
      BY <1>1, <1>2, <2>1, AtDelete, RowFacts
    <3> QED
      BY <1>1, <1>4, <2>1, <3>1 DEF StoreRemove, StoresOK
  <2>4. ASSUME NEW m \in Medias, WorksOn(t, m), m \notin raced'
        PROVE  Clears(t, db'[m], store')
    <3>1. WorksOn(del[d], m) /\ m \notin raced
      BY <1>2, <2>1, <2>4 DEF WorksOn
    <3>2. Clears(del[d], db[m], store)
      BY <3>1 DEF CalmInv
    <3> QED
      BY <1>2, <2>1, <2>2, <2>3, <3>2 DEF Clears
  <2> QED
    BY <1>2, <2>1, <2>2, <2>4, DeleteCalm
<1> QED
  BY <1>3, <1>4 DEF RemoveObject

\* The row deleted is the one the request has read, unless a finalise completed it
\* meanwhile; its file is gone before it.
LEMMA DeleteRowCalm ==
  ASSUME CalmInv, IInv', raced \subseteq raced', UNCHANGED <<link, fin>>,
         NEW d \in Deleters, DeleteRow(d)
  PROVE  CalmInv'
<1>1. DeletersOK /\ StoresOK /\ RowsOK
  BY DEF CalmInv, IInv
<1>2. del[d].pc = "row" /\ UNCHANGED <<store, tasks>>
  BY DEF DeleteRow
<1>3. CASE Answer(d, "error") /\ UNCHANGED db
  <2>1. PICK t : del' = [del EXCEPT ![d] = t] /\ t.pc = "idle"
    BY <1>3, AnswerIs DEF Answer
  <2> QED
    BY <1>2, <1>3, <2>1, MoveOnCalm
<1>4. CASE RepoDelete(del[d].id) /\ GoOn(d, "uncache")
  <2>1. PICK n \in Medias : n = del[d].id /\ Deleting(n) /\ WorksOn(del[d], n)
    BY <1>1, <1>2, AtDelete DEF Deleting, WorksOn
  <2>2. PICK t : del' = [del EXCEPT ![d] = t] /\ t.pc = "uncache"
    BY <1>1, <1>4, GoOnIs
  <2>3. db'[n] = NoRow /\ \A m \in Medias \ {n} : db'[m] = db[m]
    BY <1>1, <1>4, <2>1 DEF RepoDelete, RowsOK
  <2>4. ASSUME ~Finalising(n) PROVE Rest(n, NoRow, store, Queued(n), raced')
    <3>1. Rest(n, db[n], store, Queued(n), raced')
      BY <2>4, SameRest
    <3>2. n \notin raced => Clears(del[d], db[n], store)
      BY <2>1 DEF CalmInv
    <3>3. RestFiles(n, db[n], store, raced') => RestFiles(n, NoRow, store, raced')
      <4>1. CASE db[n] = NoRow \/ n \in raced'
        BY <4>1 DEF RestFiles
      <4>2. CASE db[n] # NoRow /\ n \notin raced'
        <5>1. /\ db[n] = del[d].media
              /\ db[n].status = "completed" =>
                   store[db[n].bucket][db[n].key] = NoObject
          BY <1>2, <3>2, <4>2 DEF Clears
        <5>2. db[n].status = "completed" /\ OnlyFile(n, db[n].bucket, db[n].key, store)
                => NoFile(n, store)
          BY <5>1 DEF OnlyFile, NoFile
        <5> QED
          BY <4>2, <5>2 DEF RestFiles
      <4> QED
        BY <4>1, <4>2
    <3>4. RestTasks(db[n], Queued(n)) => RestTasks(NoRow, Queued(n))
      BY DEF RestTasks
    <3> QED
      BY <3>1, <3>3, <3>4 DEF Rest
  <2>5. \A m \in Medias :
          \/ db'[m] = db[m]
          \/ /\ db'[m] = NoRow /\ Deleting(m)
             /\ ~Finalising(m) => Rest(m, NoRow, store', Queued(m), raced')
    BY <1>2, <2>1, <2>3, <2>4
  <2>6. \A m \in Medias : Fewer(m, store, store') /\ Clears(t, db'[m], store')
    BY <1>2, <2>2, SameFewer DEF Clears
  <2> QED
    BY <1>2, <2>2, <2>5, <2>6, DeleteCalm
<1> QED
  BY <1>3, <1>4 DEF DeleteRow

LEMMA UncacheCalm ==
  ASSUME CalmInv, IInv', raced \subseteq raced', UNCHANGED <<link, fin>>,
         NEW d \in Deleters, UncacheDetails(d) \/ UncacheEtag(d) \/ DieDeleting(d)
  PROVE  CalmInv'
<1>1. DeletersOK /\ UNCHANGED <<db, store, tasks>>
  BY DEF CalmInv, IInv, UncacheDetails, UncacheEtag, DieDeleting
<1>2. PICK t : del' = [del EXCEPT ![d] = t] /\ t.pc \in {"idle", "uncache_etag"}
  <2>1. CASE GoOn(d, "uncache_etag")
    BY <1>1, <2>1, GoOnIs
  <2>2. CASE \E answer, n : del' = [del EXCEPT ![d] = IdleDeleter(answer, n)]
    BY <2>2, AnswerIs
  <2> QED
    BY <2>1, <2>2 DEF UncacheDetails, UncacheEtag, DieDeleting, Answer
<1> QED
  BY <1>1, <1>2, MoveOnCalm

LEMMA DeleteStepCalm ==
  ASSUME CalmInv, IInv', raced \subseteq raced', NEW d \in Deleters,
         \/ \E m \in Medias : BeginRemove(d, m)
         \/ Remove(d)
         \/ DieRemoving(d)
  PROVE  CalmInv'
<1>1. ~RemoveVariant(d)
  <2>1. SUFFICES ASSUME RemoveVariant(d) PROVE FALSE
    OBVIOUS
  <2>2. /\ DeletersOK /\ del[d].pc = "variants"
        /\ del[d].i <= Len(del[d].media.variants)
    BY <2>1 DEF RemoveVariant, CalmInv, IInv
  <2> QED
    BY <2>2, AtDelete
<1>2. CASE Remove(d)
  BY <1>1, <1>2, RemoveObjectCalm, DeleteRowCalm, UncacheCalm
  DEF Remove, DeleterStep
<1>3. CASE DieRemoving(d)
  BY <1>3, UncacheCalm DEF DieRemoving
<1> QED
  BY <1>2, <1>3, BeginDeleteCalm

LEMMA CalmInvNext ==
  ASSUME ExclusiveFinalise
  PROVE  CalmInv /\ [Next]_vars => CalmInv'
<1> SUFFICES ASSUME CalmInv, [Next]_vars PROVE CalmInv'
  OBVIOUS
<1>1. IInv /\ IInv' /\ RacesOK
  BY IInvNext DEF CalmInv, IInv
<1>2. CASE UploadStep
  <2>1. raced \subseteq raced' /\ UNCHANGED del /\ U!Next
    BY <1>2 DEF UploadStep, NoteRaces
  <2> QED
    BY <1>1, <2>1, UploadStepCalm
<1>3. ASSUME NEW d \in Deleters,
             \/ \E m \in Medias : BeginRemove(d, m)
             \/ Remove(d)
             \/ DieRemoving(d)
      PROVE  CalmInv'
  <2>1. raced \subseteq raced'
    BY <1>3 DEF BeginRemove, Remove, DieRemoving, NoteRaces
  <2> QED
    BY <1>1, <1>3, <2>1, DeleteStepCalm
<1>4. CASE UNCHANGED vars
  <2>1. UNCHANGED <<db, store, tasks, link, fin, del, raced>>
    BY <1>4 DEF vars
  <2>2. \A m \in Medias : /\ Fewer(m, store, store') /\ db'[m] = db[m]
                          /\ Known(m, link) => Known(m, link')
    BY <2>1, SameFewer
  <2> QED
    BY <1>1, <2>1, <2>2, LinksCalm
<1> QED
  BY <1>2, <1>3, <1>4 DEF Next

-----------------------------------------------------------------------------
(* What a media is left with *)

LEMMA CalmInvariant ==
  ASSUME ExclusiveFinalise
  PROVE  Spec => []CalmInv
<1>1. CalmInv /\ [Next]_vars => CalmInv'
  BY CalmInvNext
<1> QED
  BY <1>1, CalmInvInit, PTL DEF Spec

\* A refused upload leaves nothing outside the staging key, whichever call of its
\* finalise has failed, and although the media may be deleted at any moment, if
\* the saved file can be removed again and no process dies.
THEOREM RefusedUploadsLeaveNothing ==
  ASSUME ExclusiveFinalise, FilesAreKept
  PROVE  Spec => []RefusedLeavesNothing
<1>1. CalmInv => RefusedLeavesNothing
  <2> SUFFICES ASSUME CalmInv, NEW m \in Medias, db[m] # NoRow,
                      db[m].status = "failed"
               PROVE  NoFile(m, store)
    BY DEF RefusedLeavesNothing, NoFile
  <2>1. CASE Finalising(m)
    <3>1. PICK f \in Finalisers : fin[f].pc # "idle" /\ fin[f].id = m
      BY <2>1 DEF Finalising
    <3>2. HoldsRow(fin[f], db[m], raced)
      BY <3>1 DEF CalmInv, WorksOn, Holds
    <3>3. fin[f].pc \in U!Active
      BY <3>1 DEF CalmInv, IInv, FinalisersOK, U!FinaliserState
    <3> QED
      BY <3>2, <3>3 DEF HoldsRow, U!Active
  <2>2. CASE ~Finalising(m)
    BY <2>2 DEF CalmInv, Rest, RestFiles
  <2> QED
    BY <2>1, <2>2
<1> QED
  BY <1>1, CalmInvariant, PTL

\* However often a finalise is repeated and whatever makes it fail, an accepted
\* media is queued for optimisation once and a refused one never, if the queue
\* takes the task, the refusal is written and no process dies.
THEOREM TasksAreQueuedOnce ==
  ASSUME ExclusiveFinalise, TasksAreKept
  PROVE  Spec => []QueuedOnce
<1>1. CalmInv => QueuedOnce
  BY DEF CalmInv, Rest, RestTasks, QueuedOnce, Queued
<1> QED
  BY <1>1, CalmInvariant, PTL

\* At rest every file outside the staging key is one a row names: neither a failed
\* finalise nor a delete request that is cut off anywhere leaves a file nobody
\* knows of, unless the two worked on the media at once.
THEOREM NoFilesAreOrphaned ==
  ASSUME ExclusiveFinalise, FilesAreKept
  PROVE  Spec => []NoOrphans
<1>1. CalmInv => NoOrphans
  BY DEF CalmInv, Rest, RestFiles, OnlyFile, NoFile, NoOrphans
<1> QED
  BY <1>1, CalmInvariant, PTL

-----------------------------------------------------------------------------
(* Intake implements MediaLifecycle *)

Content(m) == IF Stage(m) = "completed" THEN Origin[db[m].meta] ELSE Nil

StageOf == [m \in Medias |-> Stage(m)]
ContentOf == [m \in Medias |-> Content(m)]

\* A finalise here takes its work back.
Back == {"undo", "cleanup", "mark"}

\* The stage of a row while the only finalise that may be at work on it is s.
Shown(s, row) == IF s.pc \in Back THEN "pending" ELSE row.status

\* How the stage follows from the row.
StageIs(m) ==
  /\ db[m] = NoRow => /\ Stage(m) = IF Known(m, link) THEN "gone" ELSE "none"
                      /\ Content(m) = Nil
  /\ db[m] # NoRow =>
       /\ Stage(m) = IF Undoing(m) THEN "pending" ELSE db[m].status
       /\ Stage(m) \in {"pending", "completed", "failed"}
       /\ Stage(m) # "completed" => Content(m) = Nil
       /\ Stage(m) = "completed" => Content(m) \in Blobs

LEMMA StageFacts == RowsOK => \A m \in Medias : StageIs(m)
<1> SUFFICES ASSUME RowsOK, NEW m \in Medias PROVE StageIs(m)
  OBVIOUS
<1>1. CASE db[m] = NoRow
  BY <1>1 DEF StageIs, Stage, U!Stage, Content, Known
<1>2. CASE db[m] # NoRow
  <2>1. RowOf(m, db[m]) /\ db[m].status \in {"pending", "completed", "failed"}
    BY <1>2, RowFacts DEF RowsOK
  <2>2. Stage(m) = IF Undoing(m) THEN "pending" ELSE db[m].status
    BY <1>2, <2>1 DEF Stage, U!Stage, RowOf
  <2>3. Stage(m) = "completed" => db[m].meta \in Blobs
    BY <2>1, <2>2 DEF RowOf
  <2>4. Stage(m) = "completed" => Content(m) \in Blobs
    BY <2>3, BlobsAssumption DEF Content
  <2>5. Stage(m) # "completed" => Content(m) = Nil
    BY DEF Content
  <2> QED
    BY <1>2, <2>1, <2>2, <2>4, <2>5 DEF StageIs
<1> QED
  BY <1>1, <1>2

LEMMA StageAfter == RowsOK' => \A m \in Medias : StageIs(m)'
<1>1. (RowsOK => \A m \in Medias : StageIs(m))'
  BY StageFacts, PTL
<1> QED
  BY <1>1

\* What a step leaves of media m.
Untouched(m) ==
  /\ db'[m] = db[m]
  /\ Known(m, link') <=> Known(m, link)
  /\ db[m] # NoRow /\ db[m].status # "pending" => (Undoing(m)' <=> Undoing(m))

LEMMA UntouchedStays ==
  ASSUME RowsOK, RowsOK', NEW m \in Medias, Untouched(m)
  PROVE  Stage(m)' = Stage(m) /\ Content(m)' = Content(m)
<1>1. Stage(m)' = Stage(m)
  <2>1. CASE db[m] = NoRow
    BY <2>1 DEF Untouched, Stage, U!Stage, Known
  <2>2. CASE db[m] # NoRow
    <3>1. StageIs(m) /\ StageIs(m)'
      BY StageFacts, StageAfter
    <3> QED
      BY <2>2, <3>1 DEF Untouched, StageIs
  <2> QED
    BY <2>1, <2>2
<1> QED
  BY <1>1 DEF Untouched, Content

LEMMA Stutters ==
  ASSUME RowsOK, RowsOK', \A m \in Medias : Untouched(m)
  PROVE  UNCHANGED L!vars
<1>1. \A m \in Medias : Stage(m)' = Stage(m) /\ Content(m)' = Content(m)
  BY UntouchedStays
<1>2. StageOf' = StageOf /\ ContentOf' = ContentOf
  BY <1>1 DEF StageOf, ContentOf
<1> QED
  BY <1>2 DEF L!vars, StageOf, ContentOf, Content

\* A step that concerns media n only is a step of its life.
LEMMA Moves ==
  ASSUME RowsOK, RowsOK', NEW n \in Medias, \A m \in Medias \ {n} : Untouched(m),
         \/ Stage(n)' = Stage(n) /\ Content(n)' = Content(n)
         \/ /\ Stage(n) = "none" /\ Stage(n)' \in {"pending", "gone"}
            /\ Content(n)' = Content(n)
         \/ /\ Stage(n) = "pending" /\ Stage(n)' = "completed"
            /\ Content(n)' \in Blobs
         \/ /\ Stage(n) = "pending" /\ Stage(n)' = "failed"
            /\ Content(n)' = Content(n)
         \/ /\ Stage(n) \in {"pending", "completed", "failed"} /\ Stage(n)' = "gone"
            /\ Content(n)' = Nil
  PROVE  [L!Next]_(L!vars)
<1>1. \A m \in Medias \ {n} : Stage(m)' = Stage(m) /\ Content(m)' = Content(m)
  BY UntouchedStays
<1>2. /\ StageOf' = [StageOf EXCEPT ![n] = Stage(n)']
      /\ ContentOf' = [ContentOf EXCEPT ![n] = Content(n)']
      /\ StageOf[n] = Stage(n)
  BY <1>1 DEF StageOf, ContentOf
<1>3. Content(n)' = Content(n) => ContentOf' = ContentOf
  BY <1>1 DEF ContentOf
<1>4. CASE Stage(n)' = Stage(n) /\ Content(n)' = Content(n)
  <2>1. StageOf' = StageOf /\ ContentOf' = ContentOf
    BY <1>1, <1>4 DEF StageOf, ContentOf
  <2> QED
    BY <2>1 DEF L!vars, StageOf, ContentOf, Content
<1>5. CASE /\ Stage(n) = "none" /\ Stage(n)' \in {"pending", "gone"}
           /\ Content(n)' = Content(n)
  <2>1. L!Register(n) \/ L!Drop(n)
    BY <1>2, <1>3, <1>5
    DEF L!Register, L!Drop, L!Move, StageOf, ContentOf, Content
  <2> QED
    BY <2>1 DEF L!Next
<1>6. CASE /\ Stage(n) = "pending" /\ Stage(n)' = "completed"
           /\ Content(n)' \in Blobs
  <2>1. L!Accept(n)
    BY <1>2, <1>6 DEF L!Accept, L!Move, StageOf, ContentOf, Content
  <2> QED
    BY <2>1 DEF L!Next
<1>7. CASE /\ Stage(n) = "pending" /\ Stage(n)' = "failed"
           /\ Content(n)' = Content(n)
  <2>1. L!Refuse(n)
    BY <1>2, <1>3, <1>7 DEF L!Refuse, L!Move, StageOf, ContentOf, Content
  <2> QED
    BY <2>1 DEF L!Next
<1>8. CASE /\ Stage(n) \in {"pending", "completed", "failed"} /\ Stage(n)' = "gone"
           /\ Content(n)' = Nil
  <2>1. L!Delete(n)
    BY <1>2, <1>8 DEF L!Delete, L!Move, L!Stage, StageOf, ContentOf, Content
  <2> QED
    BY <2>1 DEF L!Next
<1> QED
  BY <1>4, <1>5, <1>6, <1>7, <1>8

LEMMA LifecycleInit == Init => L!Init
<1> SUFFICES ASSUME Init PROVE L!Init
  OBVIOUS
<1>1. /\ db = [m \in Medias |-> NoRow]
      /\ link = [m \in Medias |-> "unused"]
  BY DEF Init, U!Init, U!BackendInit
<1>2. ASSUME NEW m \in Medias PROVE Stage(m) = "none" /\ Content(m) = Nil
  BY <1>1 DEF Stage, U!Stage, Content
<1>3. /\ StageOf = [m \in Medias |-> "none"]
      /\ ContentOf = [m \in Medias |-> Nil]
  BY <1>2 DEF StageOf, ContentOf
<1> QED
  BY <1>3 DEF L!Init, StageOf, ContentOf, Content

\* No finalise takes work back that did not before, nor the other way round.
LEMMA RowsLeft ==
  ASSUME RowsOK, RowsOK', db' = db,
         \A m \in Medias : Known(m, link') <=> Known(m, link),
         \A m \in Medias : Undoing(m)' <=> Undoing(m)
  PROVE  [L!Next]_(L!vars)
<1>1. \A m \in Medias : Untouched(m)
  BY DEF Untouched
<1> QED
  BY <1>1, Stutters

LEMMA CreateRowLives ==
  ASSUME RowsOK, RowsOK', StoresOK, NEW m \in Medias, U!CreateRow(m)
  PROVE  [L!Next]_(L!vars)
<1>1. /\ link[m] = "unused" /\ UNCHANGED fin
      /\ \E l \in {"minting", "dead"} : link' = [link EXCEPT ![m] = l]
      /\ db' = db \/ db' = [db EXCEPT ![m] = U!PendingRow(m)]
  BY DEF U!CreateRow, U!RepoCreate
<1>2. U!PendingRow(m) # NoRow /\ U!PendingRow(m).status = "pending"
  BY NewRowFacts, RowFacts
<1>3. db[m] = NoRow /\ ~Known(m, link) /\ Known(m, link')
  BY <1>1 DEF RowsOK, StoresOK, Known
<1>4. ASSUME NEW n \in Medias \ {m} PROVE Untouched(n)
  BY <1>1 DEF Untouched, RowsOK, StoresOK, Known, Undoing
<1>5. StageIs(m) /\ StageIs(m)'
  BY StageFacts, StageAfter
<1>6. Stage(m) = "none" /\ Content(m) = Nil
  BY <1>3, <1>5 DEF StageIs
<1>7. Stage(m)' \in {"pending", "gone"} /\ Content(m)' = Nil
  <2>1. CASE db'[m] = NoRow
    BY <1>3, <1>5, <2>1 DEF StageIs
  <2>2. CASE db'[m] # NoRow
    <3>1. db'[m].status = "pending"
      BY <1>1, <1>2, <1>3, <2>2 DEF RowsOK
    <3> QED
      BY <1>5, <2>2, <3>1 DEF StageIs
  <2> QED
    BY <2>1, <2>2
<1> QED
  BY <1>4, <1>6, <1>7, Moves

LEMMA LinkLives ==
  ASSUME RowsOK, RowsOK', StoresOK, NEW m \in Medias,
         U!Presign(m) \/ U!Expire(m) \/ \E o \in Uploads : U!Put(m, o)
  PROVE  [L!Next]_(L!vars)
<1>1. UNCHANGED <<db, fin>>
  BY DEF U!Presign, U!Expire, U!Put
<1>2. \A n \in Medias : Known(n, link') <=> Known(n, link)
  BY DEF U!Presign, U!Expire, U!Put, StoresOK, Known
<1>3. \A n \in Medias : Undoing(n)' <=> Undoing(n)
  BY <1>1 DEF Undoing
<1> QED
  BY <1>1, <1>2, <1>3, RowsLeft

\* A finalise that neither starts nor stops to take its work back.
LEMMA ForthLives ==
  ASSUME RowsOK, RowsOK', FinalisersOK, db' = db, link' = link,
         NEW f \in Finalisers, NEW t, fin' = [fin EXCEPT ![f] = t],
         \/ fin[f].pc \notin Back /\ t.pc \notin Back
         \/ t.id = fin[f].id /\ fin[f].pc \in Back /\ t.pc \in Back
  PROVE  [L!Next]_(L!vars)
<1>1. \A g \in Finalisers : fin'[g] = IF g = f THEN t ELSE fin[g]
  BY DEF FinalisersOK
<1>2. ASSUME NEW m \in Medias PROVE Undoing(m)' <=> Undoing(m)
  BY <1>1 DEF Undoing, Back
<1>3. \A m \in Medias : Known(m, link') <=> Known(m, link)
  OBVIOUS
<1> QED
  BY <1>2, <1>3, RowsLeft

\* Finalise f, the only one at work on n, is t after the step: what it shows of its
\* media stays the same, or it accepts or refuses it.
Decides(f, n, t) ==
  /\ link' = link /\ fin' = [fin EXCEPT ![f] = t]
  /\ fin[f].id = n
  /\ t.pc \in Back => t.id = n
  /\ \A g \in Finalisers \ {f} : fin[g].pc # "idle" => fin[g].id # n
  /\ \A m \in Medias \ {n} : db'[m] = db[m]
  /\ db[n] = NoRow => db'[n] = NoRow
  /\ db[n] # NoRow =>
       /\ db'[n] # NoRow
       /\ \/ /\ Shown(t, db'[n]) = Shown(fin[f], db[n])
             /\ Shown(t, db'[n]) = "completed" => db'[n] = db[n]
          \/ /\ Shown(fin[f], db[n]) = "pending"
             /\ Shown(t, db'[n]) \in {"completed", "failed"}

LEMMA FinaliseLives ==
  ASSUME RowsOK, RowsOK', FinalisersOK, NEW f \in Finalisers, NEW t,
         NEW n \in Medias, Decides(f, n, t)
  PROVE  [L!Next]_(L!vars)
<1>0. /\ link' = link /\ fin' = [fin EXCEPT ![f] = t]
      /\ fin[f].id = n
      /\ t.pc \in Back => t.id = n
      /\ \A g \in Finalisers \ {f} : fin[g].pc # "idle" => fin[g].id # n
      /\ \A m \in Medias \ {n} : db'[m] = db[m]
      /\ db[n] = NoRow => db'[n] = NoRow
      /\ db[n] # NoRow =>
           /\ db'[n] # NoRow
           /\ \/ /\ Shown(t, db'[n]) = Shown(fin[f], db[n])
                 /\ Shown(t, db'[n]) = "completed" => db'[n] = db[n]
              \/ /\ Shown(fin[f], db[n]) = "pending"
                 /\ Shown(t, db'[n]) \in {"completed", "failed"}
  BY DEF Decides
<1> USE <1>0
<1>1. \A g \in Finalisers : fin'[g] = IF g = f THEN t ELSE fin[g]
  BY DEF FinalisersOK
<1>2. ASSUME NEW m \in Medias \ {n} PROVE Untouched(m)
  <2>1. Undoing(m)' <=> Undoing(m)
    BY <1>1 DEF Undoing, Back
  <2> QED
    BY <2>1 DEF Untouched
<1>3. Undoing(n) <=> fin[f].pc \in Back
  BY DEF Undoing, Back
<1>4. Undoing(n)' <=> t.pc \in Back
  BY <1>1 DEF Undoing, Back
<1>5. StageIs(n) /\ StageIs(n)'
  BY StageFacts, StageAfter
<1>6. CASE db[n] = NoRow
  <2>1. Stage(n)' = Stage(n) /\ Content(n)' = Content(n)
    BY <1>5, <1>6 DEF StageIs
  <2> QED
    BY <1>2, <2>1, Moves
<1>7. CASE db[n] # NoRow
  <2>1. /\ Stage(n) = Shown(fin[f], db[n])
        /\ Stage(n)' = Shown(t, db'[n])
    BY <1>3, <1>4, <1>5, <1>7 DEF StageIs, Shown
  <2>2. CASE Shown(t, db'[n]) = Shown(fin[f], db[n])
    <3>1. Stage(n)' = Stage(n)
      BY <2>1, <2>2
    <3>2. Content(n)' = Content(n)
      <4>1. CASE Stage(n)' = "completed"
        <5>1. db'[n] = db[n]
          BY <1>7, <2>1, <2>2, <4>1
        <5> QED
          BY <3>1, <5>1 DEF Content
      <4>2. CASE Stage(n)' # "completed"
        BY <3>1, <4>2 DEF Content
      <4> QED
        BY <4>1, <4>2
    <3> QED
      BY <1>2, <3>1, <3>2, Moves
  <2>3. CASE /\ Shown(fin[f], db[n]) = "pending"
             /\ Shown(t, db'[n]) \in {"completed", "failed"}
    <3>1. /\ Stage(n) = "pending" /\ Content(n) = Nil
          /\ Stage(n)' \in {"completed", "failed"}
          /\ Stage(n)' = "completed" => Content(n)' \in Blobs
          /\ Stage(n)' = "failed" => Content(n)' = Nil
      BY <1>5, <1>7, <2>1, <2>3 DEF StageIs
    <3> QED
      BY <1>2, <3>1, Moves
  <2> QED
    BY <1>7, <2>2, <2>3
<1> QED
  BY <1>6, <1>7

LEMMA CallLives ==
  ASSUME CalmInv, RowsOK', NEW f \in Finalisers, NEW t, Becomes(f, t),
         Call(fin[f], t)
  PROVE  [L!Next]_(L!vars)
<1>1. RowsOK /\ FinalisersOK /\ link' = link /\ fin' = [fin EXCEPT ![f] = t]
  BY DEF CalmInv, IInv, Becomes
<1>2. fin[f].pc # "idle" /\ t.id = fin[f].id
  BY DEF Call, Probed, Saved, Unstaged, Updated, Undone, Enqueued, Marked, Becomes
<1>3. PICK n \in Medias :
        /\ fin[f].id = n
        /\ \A g \in Finalisers \ {f} : fin[g].pc # "idle" => fin[g].id # n
        /\ Holds(fin[f], db[n], store, Queued(n), raced)
        /\ db[n] # NoRow => RowOf(n, db[n])
  BY <1>2, CalmAtWork
<1>4. HoldsRow(fin[f], db[n], raced) /\ FinaliserLocal(fin[f])
  BY <1>2, <1>3, AtWork DEF Holds, CalmInv, IInv
<1>5. CASE Probed(fin[f], t) \/ Saved(fin[f], t)
  <2>1. /\ fin[f].pc \in {"stat", "read", "save"} /\ db' = db
        /\ t.pc \in {"read", "save", "unstage", "cleanup"}
    BY <1>5 DEF Probed, Saved
  <2>2. db[n] # NoRow => db[n].status = "pending"
    BY <1>4, <2>1 DEF HoldsRow
  <2>3. db[n] # NoRow => Shown(t, db'[n]) = "pending" /\ Shown(fin[f], db[n]) = "pending"
    BY <2>1, <2>2 DEF Shown
  <2>4. Decides(f, n, t)
    BY <1>1, <1>2, <1>3, <2>1, <2>3 DEF Decides
  <2> QED
    BY <1>1, <2>4, FinaliseLives
<1>6. CASE Unstaged(fin[f], t) \/ Undone(fin[f], t) \/ Enqueued(fin[f], t)
  <2>1. /\ db' = db
        /\ \/ fin[f].pc \notin Back /\ t.pc \notin Back
           \/ fin[f].pc \in Back /\ t.pc \in Back
    BY <1>6 DEF Unstaged, Undone, Enqueued, Back
  <2> QED
    BY <1>1, <1>2, <2>1, ForthLives
<1>7. CASE Updated(fin[f], t)
  <2>1. /\ fin[f].pc = "update" /\ t.pc \in {"enqueue", "undo"}
        /\ db[n] # NoRow => Shown(fin[f], db[n]) = "pending"
    BY <1>4, <1>7 DEF Updated, HoldsRow, Shown, Back
  <2>2. CASE UNCHANGED db /\ t.pc = "undo"
    <3>1. Shown(t, db'[n]) = "pending" /\ db' = db
      BY <2>2 DEF Shown, Back
    <3>2. Decides(f, n, t)
      BY <1>1, <1>2, <1>3, <2>1, <3>1 DEF Decides
    <3> QED
      BY <1>1, <3>2, FinaliseLives
  <2>3. CASE RepoUpdate(n, CompletedOf(fin[f]))
    <3>1. PICK row : /\ row = CompletedOf(fin[f]) /\ row # NoRow
                     /\ row.status = "completed"
      BY <1>4, <2>1, CompletedFacts, RowFacts
    <3>2. /\ db'[n] = IF db[n] = NoRow THEN NoRow ELSE row
          /\ \A m \in Medias \ {n} : db'[m] = db[m]
      BY <1>1, <2>3, <3>1 DEF RepoUpdate, UpdatedRow, RowsOK
    <3>3. db[n] # NoRow => Shown(t, db'[n]) = IF t.pc = "undo" THEN "pending"
                                              ELSE "completed"
      BY <2>1, <3>1, <3>2 DEF Shown, Back
    <3>4. Decides(f, n, t)
      BY <1>1, <1>2, <1>3, <2>1, <3>1, <3>2, <3>3 DEF Decides
    <3> QED
      BY <1>1, <3>4, FinaliseLives
  <2> QED
    BY <1>3, <1>7, <2>2, <2>3 DEF Updated
<1>8. CASE Marked(fin[f], t)
  <2>1. /\ fin[f].pc = "mark" /\ t.pc = "idle"
        /\ db[n] # NoRow =>
             Shown(fin[f], db[n]) = "pending" /\ db[n].status \in {"pending", "completed"}
    BY <1>4, <1>8 DEF Marked, HoldsRow, Shown, Back
  <2>2. CASE UNCHANGED db
    <3>1. db' = db /\ Shown(t, db'[n]) = db[n].status
      BY <2>1, <2>2 DEF Shown, Back
    <3>2. Decides(f, n, t)
      BY <1>1, <1>2, <1>3, <2>1, <3>1 DEF Decides
    <3> QED
      BY <1>1, <3>2, FinaliseLives
  <2>3. CASE RepoUpdate(n, [fin[f].media EXCEPT !.status = "failed"])
    <3>1. PICK row : /\ row = [fin[f].media EXCEPT !.status = "failed"]
                     /\ row # NoRow /\ row.status = "failed"
      BY <1>4, <2>1, FailedFacts, RowFacts
    <3>2. /\ db'[n] = IF db[n] = NoRow THEN NoRow ELSE row
          /\ \A m \in Medias \ {n} : db'[m] = db[m]
      BY <1>1, <2>3, <3>1 DEF RepoUpdate, UpdatedRow, RowsOK
    <3>3. db[n] # NoRow => Shown(t, db'[n]) = "failed"
      BY <2>1, <3>1, <3>2 DEF Shown, Back
    <3>4. Decides(f, n, t)
      BY <1>1, <1>2, <1>3, <2>1, <3>1, <3>2, <3>3 DEF Decides
    <3> QED
      BY <1>1, <3>4, FinaliseLives
  <2> QED
    BY <1>3, <1>8, <2>2, <2>3 DEF Marked
<1> QED
  BY <1>5, <1>6, <1>7, <1>8 DEF Call

\* A finalise that dies while it takes back an update that was applied leaves the
\* media accepted.
LEMMA CrashLives ==
  ASSUME CalmInv, RowsOK', NEW f \in Finalisers, U!Crash(f)
  PROVE  [L!Next]_(L!vars)
<1>1. RowsOK /\ FinalisersOK /\ IInv
  BY DEF CalmInv, IInv
<1>2. fin[f].pc # "idle" /\ db' = db /\ link' = link
  BY DEF U!Crash
<1>3. PICK t : fin' = [fin EXCEPT ![f] = t] /\ t.pc = "idle"
  BY <1>1, IdleKept
<1>4. PICK n \in Medias :
        /\ fin[f].id = n
        /\ \A g \in Finalisers \ {f} : fin[g].pc # "idle" => fin[g].id # n
        /\ Holds(fin[f], db[n], store, Queued(n), raced)
  BY <1>2, CalmAtWork
<1>5. /\ Shown(t, db'[n]) = db[n].status
      /\ t.pc \notin Back
  BY <1>2, <1>3 DEF Shown, Back
<1>6. CASE fin[f].pc \in Back
  <2>1. db[n] # NoRow => db[n].status \in {"pending", "completed"}
    BY <1>4, <1>6 DEF Holds, HoldsRow, Back
  <2>2. Shown(fin[f], db[n]) = "pending"
    BY <1>6 DEF Shown
  <2>3. Decides(f, n, t)
    BY <1>1, <1>2, <1>3, <1>4, <1>5, <2>1, <2>2 DEF Decides
  <2> QED
    BY <1>1, <2>3, FinaliseLives
<1>7. CASE fin[f].pc \notin Back
  BY <1>1, <1>2, <1>3, <1>5, <1>7, ForthLives
<1> QED
  BY <1>6, <1>7

LEMMA UploadStepLives ==
  ASSUME CalmInv, RowsOK', U!Next
  PROVE  [L!Next]_(L!vars)
<1>1. RowsOK /\ StoresOK /\ FinalisersOK /\ IInv
  BY DEF CalmInv, IInv
<1>2. ASSUME NEW f \in Finalisers, U!FinaliserStep(f) PROVE [L!Next]_(L!vars)
  BY <1>1, <1>2, FinaliserStepIs, CallLives
<1>3. ASSUME NEW f \in Finalisers, NEW m \in Medias, U!ReplyAtOnce(f, m)
      PROVE  [L!Next]_(L!vars)
  <2>1. fin[f].pc \notin Back /\ db' = db /\ link' = link
    BY <1>3 DEF U!ReplyAtOnce, Back
  <2>2. PICK t : fin' = [fin EXCEPT ![f] = t] /\ t.pc \notin Back
    BY <1>1, <1>3, IdleKept DEF Back
  <2> QED
    BY <1>1, <2>1, <2>2, ForthLives
<1>4. ASSUME NEW f \in Finalisers, NEW m \in Medias, NEW b \in Buckets,
             U!BeginFinalise(f, m, b)
      PROVE  [L!Next]_(L!vars)
  <2>1. fin[f].pc \notin Back /\ db' = db /\ link' = link
    BY <1>4 DEF U!BeginFinalise, Back
  <2>2. PICK t : fin' = [fin EXCEPT ![f] = t] /\ t.pc \notin Back
    BY <1>1, <1>4, BeginKept DEF Back
  <2> QED
    BY <1>1, <2>1, <2>2, ForthLives
<1> QED
  BY <1>1, <1>2, <1>3, <1>4, CreateRowLives, LinkLives, CrashLives DEF U!Next

\* Only the deletion of a row concerns the life of a media, and it ends it.
LEMMA DeleteStepLives ==
  ASSUME CalmInv, RowsOK', NEW d \in Deleters,
         \/ \E m \in Medias : BeginRemove(d, m)
         \/ Remove(d)
         \/ DieRemoving(d)
  PROVE  [L!Next]_(L!vars)
<1>1. RowsOK /\ DeletersOK
  BY DEF CalmInv, IInv
<1>2. link' = link /\ fin' = fin
  BY DEF BeginRemove, Remove, DieRemoving
<1>3. \A m \in Medias : /\ Known(m, link') <=> Known(m, link)
                        /\ Undoing(m)' <=> Undoing(m)
  BY <1>2 DEF Undoing
<1>4. CASE db' = db
  BY <1>1, <1>3, <1>4, RowsLeft
<1>5. CASE db' # db
  <2>1. del[d].pc = "row" /\ RepoDelete(del[d].id)
    BY <1>5 DEF BeginRemove, Remove, DieRemoving, BeginDelete, DeleterStep,
                RemoveVariant, RemoveObject, DeleteRow, UncacheDetails, UncacheEtag,
                DieDeleting
  <2>2. PICK n \in Medias : n = del[d].id /\ Known(n, link)
    BY <1>1, <2>1, AtDelete
  <2>3. db'[n] = NoRow /\ \A m \in Medias \ {n} : db'[m] = db[m]
    BY <1>1, <2>1, <2>2 DEF RepoDelete, RowsOK
  <2>4. \A m \in Medias \ {n} : Untouched(m)
    BY <1>3, <2>3 DEF Untouched
  <2>5. StageIs(n) /\ StageIs(n)'
    BY <1>1, StageFacts, StageAfter
  <2>6. Stage(n)' = "gone" /\ Content(n)' = Nil
    BY <1>2, <2>2, <2>3, <2>5 DEF StageIs
  <2>7. \/ Stage(n) \in {"pending", "completed", "failed"}
        \/ Stage(n) = "gone" /\ Content(n) = Nil
    BY <2>2, <2>5 DEF StageIs
  <2> QED
    BY <1>1, <2>4, <2>6, <2>7, Moves
<1> QED
  BY <1>4, <1>5

LEMMA LifecycleNext ==
  ASSUME CalmInv, IInv', [Next]_vars
  PROVE  [L!Next]_(L!vars)
<1>1. RowsOK /\ RowsOK'
  BY DEF CalmInv, IInv
<1>2. CASE UploadStep
  BY <1>1, <1>2, UploadStepLives DEF UploadStep
<1>3. ASSUME NEW d \in Deleters,
             \/ \E m \in Medias : BeginRemove(d, m)
             \/ Remove(d)
             \/ DieRemoving(d)
      PROVE  [L!Next]_(L!vars)
  BY <1>1, <1>3, DeleteStepLives
<1>4. CASE UNCHANGED vars
  <2>1. db' = db /\ link' = link /\ fin' = fin
    BY <1>4 DEF vars
  <2>2. \A m \in Medias : /\ Known(m, link') <=> Known(m, link)
                          /\ Undoing(m)' <=> Undoing(m)
    BY <2>1 DEF Undoing
  <2> QED
    BY <1>1, <2>1, <2>2, RowsLeft
<1> QED
  BY <1>2, <1>3, <1>4 DEF Next

\* A media is accepted or refused once and deleted for good, whatever fails, dies or
\* is deleted meanwhile: a finalise still at work neither brings a deleted media
\* back nor accepts one twice, even if it takes back an update that was applied.
THEOREM IntakeKeepsLifecycle ==
  ASSUME ExclusiveFinalise
  PROVE  Spec => KeepsLifecycle
<1>1. Init => L!Init
  BY LifecycleInit
<1>2. CalmInv /\ [Next]_vars => CalmInv' /\ [L!Next]_(L!vars)
  <2>1. CalmInv /\ [Next]_vars => CalmInv'
    BY CalmInvNext
  <2>2. CalmInv' => IInv'
    BY DEF CalmInv
  <2> QED
    BY <2>1, <2>2, LifecycleNext
<1>3. Spec => L!Spec
  BY <1>1, <1>2, CalmInvInit, PTL DEF Spec, L!Spec
<1> QED
  BY <1>3 DEF KeepsLifecycle
=============================================================================
