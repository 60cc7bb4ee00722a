---------------------------- MODULE UploadProofs ----------------------------
(***************************************************************************)
(* Theorems about Upload, for any medias, buckets, uploads and faults, and *)
(* any number of finalise requests at once.                                *)
(***************************************************************************)
EXTENDS Upload, TLAPS

-----------------------------------------------------------------------------
(* What a running finalise knows *)

\* The local variables of a request are those its program counter promises:
\* its copy of the row is a pending one, a type and a size that reached `read`
\* were accepted, a content that reached `save` parsed under that type.
LocalsOf(s) ==
  /\ s.pc # "idle" => /\ s.id \in Medias
                      /\ s.dest \in Buckets
                      /\ s.media = PendingRow(s.id)
  /\ s.pc \in {"read", "save", "unstage", "update", "undo"} =>
       /\ s.info \in Info
       /\ IsMimeTypeAllowed(s.info.type)
       /\ SizeAllowed(s.info.size)
  /\ s.pc \in {"save", "unstage", "update", "undo"} =>
       /\ s.meta \in Blobs
       /\ Decodable(s.info.type, s.meta)

Locals == \A f \in Finalisers : LocalsOf(fin[f])

WellFormed(m, row) ==
  IF row.status = "completed"
  THEN /\ IsMimeTypeAllowed(row.mime)
       /\ row.key = FileKey(m, MimeTypeToExtension(row.mime))
       /\ row.size \in MinFileSize..MaxFileSize
       /\ Decodable(row.mime, row.meta)
  ELSE row = [PendingRow(m) EXCEPT !.status = row.status]

\* The inductive invariant: TypeOK and RowWellFormed need Locals, because the
\* row a finalise writes is made of its local variables.
RowInv == TypeOK /\ RowWellFormed /\ Locals

-----------------------------------------------------------------------------
(* Facts about the data *)

LEMMA MimeTypeFacts ==
  ASSUME NEW mime \in AllowedMimeTypes
  PROVE  /\ MimeTypeToExtension(mime) \in Extensions
         /\ MimeTypeToExtension(mime) # ""
         /\ mime \in MimeTypes
  BY DEF AllowedMimeTypes, MimeTypeToExtension, Extensions, MimeTypes

LEMMA FileKeyType ==
  ASSUME NEW m \in Medias, NEW e \in Extensions
  PROVE  FileKey(m, e) \in Key
  BY DEF FileKey, Key

LEMMA PendingRowFacts ==
  ASSUME NEW m \in Medias
  PROVE  /\ PendingRow(m) \in Row
         /\ PendingRow(m).status = "pending"
         /\ PendingRow(m).key = RawKey(m)
         /\ PendingRow(m).bucket = Staging
         /\ WellFormed(m, PendingRow(m))
<1>1. RawKey(m) \in Key
  BY FileKeyType DEF RawKey, Extensions
<1>2. <<>> \in Seq(Variant)
  OBVIOUS
<1> QED
  BY <1>1, <1>2, BucketsAssumption
  DEF PendingRow, Row, Status, WellFormed

LEMMA NilFacts == NoRow \notin Row /\ NoObject \notin Object /\ Nil \notin Row
  BY NilAssumption

LEMMA CompletedRowFacts ==
  ASSUME NEW f \in Finalisers, fin[f] \in FinaliserState, LocalsOf(fin[f]),
         fin[f].pc \in {"unstage", "update", "undo"}
  PROVE  /\ CompletedRow(f) \in Row
         /\ CompletedRow(f).status = "completed"
         /\ WellFormed(fin[f].id, CompletedRow(f))
<1>1. /\ fin[f].id \in Medias
      /\ fin[f].dest \in Buckets
      /\ fin[f].media = PendingRow(fin[f].id)
      /\ fin[f].info \in Info
      /\ fin[f].info.type \in AllowedMimeTypes
      /\ SizeAllowed(fin[f].info.size)
      /\ fin[f].meta \in Blobs
      /\ Decodable(fin[f].info.type, fin[f].meta)
  BY DEF LocalsOf, IsMimeTypeAllowed
<1>2. NewKey(f) \in Key
  BY <1>1, MimeTypeFacts, FileKeyType DEF NewKey
<1>3. fin[f].info.size \in Nat
  BY <1>1 DEF Info
<1>4. fin[f].media \in Row
  BY <1>1, PendingRowFacts
<1>5. fin[f].info.size \in MinFileSize..MaxFileSize
  BY <1>1, <1>3, SizesAssumption DEF SizeAllowed
<1> QED
  BY <1>1, <1>2, <1>3, <1>4, <1>5
  DEF CompletedRow, Row, Status, WellFormed, NewKey, IsMimeTypeAllowed

LEMMA FailedRowFacts ==
  ASSUME NEW f \in Finalisers, LocalsOf(fin[f]), fin[f].pc # "idle"
  PROVE  /\ FailedRow(f) \in Row
         /\ WellFormed(fin[f].id, FailedRow(f))
<1>1. fin[f].id \in Medias /\ fin[f].media = PendingRow(fin[f].id)
  BY DEF LocalsOf
<1> QED
  BY <1>1, PendingRowFacts DEF FailedRow, WellFormed, Row, Status, PendingRow

-----------------------------------------------------------------------------
(* One call of the service changes one entry of one store *)

DbOK == db \in [Medias -> Row \cup {NoRow}] /\ RowWellFormed
FinOK == fin \in [Finalisers -> FinaliserState] /\ Locals
StoreOK == store \in [Buckets -> [Key -> Object \cup {NoObject}]]
TasksOK == tasks \in [Task -> Nat]
LinkOK == link \in [Medias -> LinkState]

LEMMA RowInvSplit == RowInv <=> DbOK /\ FinOK /\ StoreOK /\ TasksOK /\ LinkOK
  BY DEF RowInv, TypeOK, BackendTypeOK, DbOK, FinOK, StoreOK, TasksOK, LinkOK

LEMMA RowInvSplitNext ==
  RowInv' <=> DbOK' /\ FinOK' /\ StoreOK' /\ TasksOK' /\ LinkOK'
  BY DEF RowInv, TypeOK, BackendTypeOK, DbOK, FinOK, StoreOK, TasksOK, LinkOK

LEMMA DbStep ==
  ASSUME DbOK, NEW m \in Medias, NEW row \in Row, WellFormed(m, row),
         RepoCreate(m, row) \/ RepoUpdate(m, row) \/ UNCHANGED db
  PROVE  DbOK'
<1>1. db' \in [Medias -> Row \cup {NoRow}]
  BY DEF DbOK, RepoCreate, RepoUpdate, UpdatedRow
<1>2. ASSUME NEW n \in Medias, db'[n] # NoRow
      PROVE  WellFormed(n, db'[n])
  <2>1. CASE db'[n] = db[n]
    BY <1>2, <2>1 DEF DbOK, RowWellFormed, WellFormed
  <2>2. CASE n = m /\ db'[n] = row
    BY <2>2
  <2> QED
    BY <1>2, <2>1, <2>2 DEF DbOK, RepoCreate, RepoUpdate, UpdatedRow
<1> QED
  BY <1>1, <1>2 DEF DbOK, RowWellFormed, WellFormed

LEMMA FinStep ==
  ASSUME FinOK, NEW f \in Finalisers, NEW s \in FinaliserState, LocalsOf(s),
         fin' = [fin EXCEPT ![f] = s]
  PROVE  FinOK'
<1>1. fin' \in [Finalisers -> FinaliserState]
  BY DEF FinOK
<1>2. ASSUME NEW g \in Finalisers
      PROVE  LocalsOf(fin'[g])
  BY DEF FinOK, Locals
<1> QED
  BY <1>1, <1>2 DEF FinOK, Locals

\* Going on to another call, when the local variables are already what the
\* next program counter promises.
LEMMA GotoStep ==
  ASSUME FinOK, NEW f \in Finalisers, NEW pc \in Active, Goto(f, pc),
         LocalsOf([fin[f] EXCEPT !.pc = pc])
  PROVE  FinOK'
<1> DEFINE s == [fin[f] EXCEPT !.pc = pc]
<1>1. s \in FinaliserState
  BY DEF FinOK, FinaliserState
<1>2. fin' = [fin EXCEPT ![f] = s]
  BY DEF Goto
<1> QED
  BY <1>1, <1>2, FinStep

LEMMA GotoCleanup ==
  ASSUME FinOK, NEW f \in Finalisers, fin[f].pc # "idle",
         NEW pc \in {"cleanup", "mark", "enqueue"}, Goto(f, pc)
  PROVE  FinOK'
<1>1. LocalsOf(fin[f]) /\ fin[f] \in FinaliserState
  BY DEF FinOK, Locals
<1>2. LocalsOf([fin[f] EXCEPT !.pc = pc])
  BY <1>1 DEF LocalsOf, FinaliserState
<1> QED
  BY <1>2, GotoStep DEF Active

LEMMA FinishStep ==
  ASSUME FinOK, NEW f \in Finalisers, NEW reply \in Reply,
         NEW m \in Medias \cup {Nil}, fin' = [fin EXCEPT ![f] = Idle(reply, m)]
  PROVE  FinOK'
<1>1. Idle(reply, m) \in FinaliserState
  BY DEF Idle, FinaliserState
<1>2. LocalsOf(Idle(reply, m))
  BY DEF Idle, LocalsOf
<1> QED
  BY <1>1, <1>2, FinStep

LEMMA StoreStep ==
  ASSUME StoreOK, NEW b \in Buckets, NEW k \in Key, NEW o \in Object,
         StoreSave(b, k, o) \/ StoreRemove(b, k) \/ UNCHANGED store
  PROVE  StoreOK'
  BY DEF StoreOK, StoreSave, StoreRemove

LEMMA RemoveStep ==
  ASSUME StoreOK, NEW b \in Buckets, NEW k \in Key,
         StoreRemove(b, k) \/ UNCHANGED store
  PROVE  StoreOK'
  BY DEF StoreOK, StoreRemove

LEMMA TasksStep ==
  ASSUME TasksOK, NEW t \in Task, Enqueue(t) \/ UNCHANGED tasks
  PROVE  TasksOK'
  BY DEF TasksOK, Enqueue

-----------------------------------------------------------------------------
(* The invariant is inductive *)

LEMMA RowInvInit == Init => RowInv
<1> SUFFICES ASSUME Init PROVE RowInv
  OBVIOUS
<1>1. DbOK
  BY DEF Init, BackendInit, DbOK, RowWellFormed
<1>2. FinOK
  <2>1. \A f \in Finalisers : fin[f] = Idle("none", Nil)
    BY DEF Init
  <2>2. Idle("none", Nil) \in FinaliserState /\ LocalsOf(Idle("none", Nil))
    BY DEF Idle, FinaliserState, Reply, LocalsOf
  <2> QED
    BY <2>1, <2>2 DEF Init, FinOK, Locals
<1>3. StoreOK /\ TasksOK /\ LinkOK
  BY DEF Init, BackendInit, StoreOK, TasksOK, LinkOK, LinkState
<1> QED
  BY <1>1, <1>2, <1>3, RowInvSplit

\* The steps of the link and of the client.
LEMMA LinkStepInv ==
  ASSUME RowInv, NEW m \in Medias,
         \/ CreateRow(m) \/ Presign(m) \/ Expire(m)
         \/ \E o \in Uploads : Put(m, o)
  PROVE  RowInv'
<1> USE RowInvSplit, RowInvSplitNext
<1>1. CASE CreateRow(m)
  <2>1. DbOK'
    BY <1>1, DbStep, PendingRowFacts DEF CreateRow
  <2>2. FinOK' /\ StoreOK' /\ TasksOK' /\ LinkOK'
    BY <1>1 DEF CreateRow, FinOK, Locals, StoreOK, TasksOK, LinkOK, LinkState
  <2> QED
    BY <2>1, <2>2
<1>2. CASE Presign(m) \/ Expire(m)
  BY <1>2 DEF Presign, Expire, DbOK, RowWellFormed, FinOK, Locals, StoreOK,
              TasksOK, LinkOK, LinkState
<1>3. CASE \E o \in Uploads : Put(m, o)
  <2>1. PICK o \in Uploads : Put(m, o)
    BY <1>3
  <2>2. StoreOK'
    <3>1. RawKey(m) \in Key
      BY FileKeyType DEF RawKey, Extensions
    <3> QED
      BY <2>1, <3>1, StoreStep, UploadAssumption, BucketsAssumption DEF Put
  <2>3. DbOK' /\ FinOK' /\ TasksOK' /\ LinkOK'
    BY <2>1 DEF Put, DbOK, RowWellFormed, FinOK, Locals, TasksOK, LinkOK
  <2> QED
    BY <2>2, <2>3
<1> QED
  BY <1>1, <1>2, <1>3

LEMMA BeginInv ==
  ASSUME RowInv, NEW f \in Finalisers, NEW m \in Medias,
         \/ \E b \in Buckets : BeginFinalise(f, m, b)
         \/ ReplyAtOnce(f, m)
  PROVE  RowInv'
<1> USE RowInvSplit, RowInvSplitNext
<1>1. CASE \E b \in Buckets : BeginFinalise(f, m, b)
  <2>1. PICK b \in Buckets : BeginFinalise(f, m, b)
    BY <1>1
  <2> DEFINE s == [Idle("none", m) EXCEPT !.pc = "stat", !.dest = b,
                                          !.media = db[m]]
  <2>2. db[m] \in Row /\ db[m] = PendingRow(m)
    BY <2>1, PendingRowFacts
    DEF BeginFinalise, DbOK, RowWellFormed, PendingRow
  <2>3. s \in FinaliserState /\ LocalsOf(s)
    BY <2>2 DEF FinaliserState, LocalsOf, Idle, Active, Reply
  <2>4. FinOK'
    BY <2>1, <2>3, FinStep DEF BeginFinalise
  <2> QED
    BY <2>1, <2>4 DEF BeginFinalise, DbOK, RowWellFormed, StoreOK, TasksOK,
                      LinkOK
<1>2. CASE ReplyAtOnce(f, m)
  <2>1. EarlyReply(m) \in Reply /\ "error" \in Reply
    BY DEF EarlyReply, Reply
  <2>2. FinOK'
    BY <1>2, <2>1, FinishStep DEF ReplyAtOnce
  <2> QED
    BY <1>2, <2>2 DEF ReplyAtOnce, DbOK, RowWellFormed, StoreOK, TasksOK,
                      LinkOK
<1> QED
  BY <1>1, <1>2

LEMMA FinaliserStepInv ==
  ASSUME RowInv, NEW f \in Finalisers, FinaliserStep(f)
  PROVE  RowInv'
<1> USE RowInvSplit, RowInvSplitNext
<1>1. fin[f] \in FinaliserState /\ LocalsOf(fin[f])
  BY DEF FinOK, Locals
<1>2. /\ fin[f].pc # "idle"
      /\ fin[f].id \in Medias
      /\ fin[f].media = PendingRow(fin[f].id)
      /\ fin[f].media.key = RawKey(fin[f].id)
      /\ RawKey(fin[f].id) \in Key
      /\ fin[f].dest \in Buckets
      /\ Staging \in Buckets
  <2>1. fin[f].pc # "idle"
    BY DEF FinaliserStep, StatFile, ReadMetadata, SaveFile, RemoveStaged,
           UpdateRow, UndoSave, EnqueueOptimiseMedia, CleanupFile, MarkAsFailed
  <2> QED
    BY <2>1, <1>1, PendingRowFacts, FileKeyType, BucketsAssumption
    DEF LocalsOf, RawKey, Extensions
<1>3. Staged(f) \in Object \cup {NoObject}
  BY <1>2 DEF StoreOK, Staged
<1>4. ASSUME fin[f].pc \in {"read", "save", "unstage", "update", "undo"}
      PROVE  NewKey(f) \in Key
  BY <1>1, <1>2, <1>4, MimeTypeFacts, FileKeyType
  DEF LocalsOf, NewKey, IsMimeTypeAllowed
<1>5. CASE StatFile(f)
  <2>1. CASE Goto(f, "cleanup")
    BY <1>2, <1>5, <2>1, GotoCleanup
    DEF StatFile, DbOK, RowWellFormed, StoreOK, TasksOK, LinkOK
  <2>2. CASE ~Goto(f, "cleanup")
    <3> DEFINE s == [fin[f] EXCEPT !.pc = "read",
                       !.info = [type |-> Staged(f).type,
                                 size |-> Size[Staged(f).blob]]]
    <3>1. /\ fin' = [fin EXCEPT ![f] = s]
          /\ Staged(f) # NoObject
          /\ SizeAllowed(Size[Staged(f).blob])
          /\ IsMimeTypeAllowed(Staged(f).type)
      BY <1>5, <2>2 DEF StatFile
    <3>2. s.info \in Info
      BY <1>1, <1>3, <3>1, BlobsAssumption DEF Info, Object, FinaliserState
    <3>3. s \in FinaliserState /\ LocalsOf(s)
      BY <1>1, <1>2, <3>1, <3>2 DEF FinaliserState, LocalsOf, Active
    <3>4. FinOK'
      BY <3>1, <3>3, FinStep
    <3> QED
      BY <1>5, <3>4
      DEF StatFile, DbOK, RowWellFormed, StoreOK, TasksOK, LinkOK
  <2> QED
    BY <2>1, <2>2
<1>6. CASE ReadMetadata(f)
  <2>1. CASE Goto(f, "cleanup")
    BY <1>2, <1>6, <2>1, GotoCleanup
    DEF ReadMetadata, DbOK, RowWellFormed, StoreOK, TasksOK, LinkOK
  <2>2. CASE ~Goto(f, "cleanup")
    <3> DEFINE s == [fin[f] EXCEPT !.pc = "save", !.meta = Staged(f).blob]
    <3>1. /\ fin' = [fin EXCEPT ![f] = s]
          /\ Staged(f) # NoObject
          /\ Decodable(fin[f].info.type, Staged(f).blob)
          /\ fin[f].pc = "read"
      BY <1>6, <2>2 DEF ReadMetadata
    <3>2. Staged(f).blob \in Blobs
      BY <1>3, <3>1 DEF Object
    <3>3. s \in FinaliserState /\ LocalsOf(s)
      BY <1>1, <1>2, <3>1, <3>2 DEF FinaliserState, LocalsOf, Active
    <3>4. FinOK'
      BY <3>1, <3>3, FinStep
    <3> QED
      BY <1>6, <3>4
      DEF ReadMetadata, DbOK, RowWellFormed, StoreOK, TasksOK, LinkOK
  <2> QED
    BY <2>1, <2>2
<1>7. CASE SaveFile(f)
  <2>1. FinOK'
    <3>1. CASE Goto(f, "cleanup")
      BY <1>2, <3>1, GotoCleanup
    <3>2. CASE Goto(f, "unstage")
      <4>1. LocalsOf([fin[f] EXCEPT !.pc = "unstage"])
        BY <1>1, <1>7 DEF SaveFile, LocalsOf, FinaliserState
      <4> QED
        BY <3>2, <4>1, GotoStep DEF Active
    <3> QED
      BY <1>7, <3>1, <3>2 DEF SaveFile
  <2>2. StoreOK'
    <3>1. CASE UNCHANGED store
      BY <3>1 DEF StoreOK
    <3>2. CASE Rewinds(f) /\ StoreSave(fin[f].dest, NewKey(f), SavedObject(f))
      <4>1. SavedObject(f) \in Object
        BY <1>1, <1>3, <1>7, <3>2 DEF SavedObject, SaveFile, LocalsOf, Info,
                                      Object, Rewinds
      <4>2. NewKey(f) \in Key
        BY <1>4, <1>7 DEF SaveFile
      <4> QED
        BY <1>2, <3>2, <4>1, <4>2, StoreStep
    <3> QED
      BY <1>7, <3>1, <3>2 DEF SaveFile
  <2> QED
    BY <1>7, <2>1, <2>2 DEF SaveFile, DbOK, RowWellFormed, TasksOK, LinkOK
<1>8. CASE RemoveStaged(f)
  <2>1. FinOK'
    <3>1. LocalsOf([fin[f] EXCEPT !.pc = "update"])
      BY <1>1, <1>8 DEF RemoveStaged, LocalsOf, FinaliserState
    <3> QED
      BY <1>8, <3>1, GotoStep DEF RemoveStaged, Active
  <2>2. StoreOK'
    BY <1>2, <1>8, RemoveStep DEF RemoveStaged
  <2> QED
    BY <1>8, <2>1, <2>2 DEF RemoveStaged, DbOK, RowWellFormed, TasksOK, LinkOK
<1>9. CASE UpdateRow(f)
  <2>1. FinOK'
    <3>1. CASE Goto(f, "enqueue")
      BY <1>2, <3>1, GotoCleanup
    <3>2. CASE Goto(f, "undo")
      <4>1. LocalsOf([fin[f] EXCEPT !.pc = "undo"])
        BY <1>1, <1>9 DEF UpdateRow, LocalsOf, FinaliserState
      <4> QED
        BY <3>2, <4>1, GotoStep DEF Active
    <3> QED
      BY <1>9, <3>1, <3>2 DEF UpdateRow
  <2>2. DbOK'
    BY <1>1, <1>2, <1>9, CompletedRowFacts, DbStep DEF UpdateRow
  <2> QED
    BY <1>9, <2>1, <2>2 DEF UpdateRow, StoreOK, TasksOK, LinkOK
<1>10. CASE UndoSave(f)
  <2>1. FinOK'
    BY <1>2, <1>10, GotoCleanup DEF UndoSave
  <2>2. StoreOK'
    BY <1>2, <1>4, <1>10, RemoveStep DEF UndoSave
  <2> QED
    BY <1>10, <2>1, <2>2 DEF UndoSave, DbOK, RowWellFormed, TasksOK, LinkOK
<1>11. CASE EnqueueOptimiseMedia(f)
  <2>1. FinOK'
    BY <1>2, <1>11, FinishStep DEF EnqueueOptimiseMedia, Finish, Reply
  <2>2. TasksOK'
    BY <1>2, <1>11, TasksStep
    DEF EnqueueOptimiseMedia, OptimiseTask, Task, TaskKinds
  <2> QED
    BY <1>11, <2>1, <2>2
    DEF EnqueueOptimiseMedia, DbOK, RowWellFormed, StoreOK, LinkOK
<1>12. CASE CleanupFile(f)
  <2>1. FinOK'
    BY <1>2, <1>12, GotoCleanup DEF CleanupFile
  <2>2. StoreOK'
    BY <1>2, <1>12, RemoveStep DEF CleanupFile
  <2> QED
    BY <1>12, <2>1, <2>2 DEF CleanupFile, DbOK, RowWellFormed, TasksOK, LinkOK
<1>13. CASE MarkAsFailed(f)
  <2>1. FinOK'
    BY <1>2, <1>13, FinishStep DEF MarkAsFailed, Finish, Reply
  <2>2. DbOK'
    BY <1>1, <1>2, <1>13, FailedRowFacts, DbStep DEF MarkAsFailed
  <2> QED
    BY <1>13, <2>1, <2>2 DEF MarkAsFailed, StoreOK, TasksOK, LinkOK
<1> QED
  BY <1>5, <1>6, <1>7, <1>8, <1>9, <1>10, <1>11, <1>12, <1>13
  DEF FinaliserStep

LEMMA CrashInv ==
  ASSUME RowInv, NEW f \in Finalisers, Crash(f)
  PROVE  RowInv'
<1>1. FinOK'
  BY RowInvSplit, FinishStep DEF Crash, Reply
<1> QED
  BY <1>1, RowInvSplit, RowInvSplitNext
  DEF Crash, DbOK, RowWellFormed, StoreOK, TasksOK, LinkOK

LEMMA RowInvNext == RowInv /\ [Next]_vars => RowInv'
<1> SUFFICES ASSUME RowInv, [Next]_vars PROVE RowInv'
  OBVIOUS
<1>1. CASE UNCHANGED vars
  BY <1>1 DEF vars, RowInv, TypeOK, BackendTypeOK, RowWellFormed, Locals
<1>2. CASE Next
  BY <1>2, LinkStepInv, BeginInv, FinaliserStepInv, CrashInv DEF Next
<1> QED
  BY <1>1, <1>2

THEOREM RowInvariant == Spec => []RowInv
  BY RowInvInit, RowInvNext, PTL DEF Spec

\* Every variable keeps its type, whatever fails and however requests overlap.
THEOREM TypeCorrect == Spec => []TypeOK
<1>1. RowInv => TypeOK
  BY DEF RowInv
<1> QED
  BY <1>1, RowInvariant, PTL

\* No interleaving of stale full-row updates ever produces a row that mixes a
\* pending and a completed media, or a completed one outside the limits.
THEOREM RowsAreWellFormed == Spec => []RowWellFormed
<1>1. RowInv => RowWellFormed
  BY DEF RowInv
<1> QED
  BY <1>1, RowInvariant, PTL

-----------------------------------------------------------------------------
(* Clients that finalise a media once at a time                            *)
(*                                                                         *)
(* CompletedIsStored needs to know what a running finalise has done so far:*)
(* up to its own update the row is still the pending one it read, and from *)
(* the save to the update the object it saved is where the row will point. *)
(* Both need that no other request works on the same media.                *)

StoredAt(m) ==
  db[m] # NoRow /\ db[m].status = "completed" =>
    LET o == store[db[m].bucket][db[m].key]
    IN  /\ o # NoObject
        /\ o.type = db[m].mime
        /\ o.blob = db[m].meta
        /\ Size[o.blob] = db[m].size

Completed(m) == db[m] # NoRow /\ db[m].status = "completed"

HeldBy(f) ==
  /\ fin[f].pc \in Active \ {"enqueue"} => db[fin[f].id] = fin[f].media
  /\ fin[f].pc = "enqueue" => Completed(fin[f].id)
  /\ fin[f].pc \in {"unstage", "update"} =>
       /\ store[fin[f].dest][NewKey(f)] =
            [type |-> fin[f].info.type, blob |-> fin[f].meta]
       /\ Size[fin[f].meta] = fin[f].info.size

AcceptedBy(f) == fin[f].reply = "ok" => fin[f].id \in Medias /\ Completed(fin[f].id)

Alone == \A f, g \in Finalisers :
           f # g /\ fin[f].pc # "idle" /\ fin[g].pc # "idle" =>
             fin[f].id # fin[g].id

StoreInv ==
  /\ RowInv
  /\ Alone
  /\ \A m \in Medias : StoredAt(m)
  /\ \A f \in Finalisers : HeldBy(f) /\ AcceptedBy(f)

LEMMA FileKeyFacts ==
  ASSUME NEW m \in Medias, NEW e \in Extensions, NEW n \in Medias,
         NEW d \in Extensions
  PROVE  /\ FileKey(m, e).media = m
         /\ FileKey(m, e).ext = e
         /\ FileKey(m, e) = FileKey(n, d) => m = n /\ e = d
  BY DEF FileKey

\* The key of a completed row is one of its own media, and not the staging key.
LEMMA CompletedKey ==
  ASSUME RowInv, NEW m \in Medias, Completed(m)
  PROVE  /\ db[m].bucket \in Buckets
         /\ db[m].key \in Key
         /\ db[m].key.media = m
         /\ db[m].key.ext # ""
<1>1. db[m] \in Row
  BY DEF RowInv, TypeOK, BackendTypeOK, Completed
<1>2. /\ db[m].mime \in AllowedMimeTypes
      /\ db[m].key = FileKey(m, MimeTypeToExtension(db[m].mime))
  BY DEF RowInv, RowWellFormed, Completed, IsMimeTypeAllowed
<1>3. db[m].bucket \in Buckets /\ db[m].key \in Key
  BY <1>1 DEF Row
<1>4. db[m].key.media = m /\ db[m].key.ext # ""
  <2> DEFINE e == MimeTypeToExtension(db[m].mime)
  <2>1. e \in Extensions /\ e # "" /\ db[m].key = FileKey(m, e)
    BY <1>2, MimeTypeFacts
  <2> HIDE DEF e
  <2>2. FileKey(m, e).media = m /\ FileKey(m, e).ext = e
    BY <2>1, FileKeyFacts
  <2> QED
    BY <2>1, <2>2
<1> QED
  BY <1>3, <1>4

LEMMA NewKeyFacts ==
  ASSUME RowInv, NEW f \in Finalisers,
         fin[f].pc \in {"read", "save", "unstage", "update", "undo"}
  PROVE  /\ fin[f].id \in Medias
         /\ fin[f].dest \in Buckets
         /\ NewKey(f) \in Key
         /\ NewKey(f).media = fin[f].id
         /\ NewKey(f).ext # ""
<1>1. LocalsOf(fin[f])
  BY DEF RowInv, Locals
<1>2. /\ fin[f].id \in Medias
      /\ fin[f].dest \in Buckets
      /\ fin[f].info.type \in AllowedMimeTypes
  BY <1>1 DEF LocalsOf, IsMimeTypeAllowed
<1> DEFINE e == MimeTypeToExtension(fin[f].info.type)
           n == fin[f].id
<1>3. n \in Medias /\ e \in Extensions /\ e # ""
  BY <1>2, MimeTypeFacts
<1>4. NewKey(f) = FileKey(n, e)
  BY DEF NewKey
<1> HIDE DEF e, n
<1>5. FileKey(n, e) \in Key
  BY <1>3, FileKeyType
<1>6. FileKey(n, e).media = n /\ FileKey(n, e).ext = e
  BY <1>3, FileKeyFacts
<1> QED
  BY <1>2, <1>3, <1>4, <1>5, <1>6 DEF n

\* A step on behalf of media n leaves what is known of the others alone.
LEMMA OtherMedias ==
  ASSUME StoreInv, RowInv', NEW n \in Medias, NEW f \in Finalisers,
         \A m \in Medias \ {n} : db'[m] = db[m],
         Completed(n) => db'[n] = db[n],
         \A b \in Buckets, k \in Key :
           k.media # n => store'[b][k] = store[b][k],
         \A g \in Finalisers \ {f} :
           /\ fin'[g] = fin[g]
           /\ fin[g].pc # "idle" => fin[g].id # n
  PROVE  /\ \A m \in Medias \ {n} : StoredAt(m)'
         /\ \A g \in Finalisers \ {f} : HeldBy(g)' /\ AcceptedBy(g)'
<1>0. RowInv
  BY DEF StoreInv
<1>1. ASSUME NEW m \in Medias \ {n}
      PROVE  StoredAt(m)'
  <2>1. CASE Completed(m)
    <3> DEFINE b == db[m].bucket
               k == db[m].key
    <3>1. b \in Buckets /\ k \in Key /\ k.media # n
      BY <1>0, <2>1, CompletedKey
    <3> HIDE DEF b, k
    <3>2. store'[b][k] = store[b][k]
      BY <3>1
    <3>3. store'[db[m].bucket][db[m].key] = store[db[m].bucket][db[m].key]
      BY <3>2 DEF b, k
    <3> QED
      BY <3>3 DEF StoreInv, StoredAt
  <2>2. CASE ~Completed(m)
    BY <2>2 DEF Completed, StoredAt
  <2> QED
    BY <2>1, <2>2
<1>2. ASSUME NEW g \in Finalisers \ {f}
      PROVE  HeldBy(g)' /\ AcceptedBy(g)'
  <2>1. fin'[g] = fin[g] /\ HeldBy(g) /\ AcceptedBy(g)
    BY DEF StoreInv
  <2>2. NewKey(g)' = NewKey(g)
    BY <2>1 DEF NewKey
  <2>3. CASE fin[g].pc # "idle"
    <3>1. fin[g].id \in Medias /\ fin[g].id # n
      BY <1>0, <2>3 DEF RowInv, Locals, LocalsOf
    <3>2. db'[fin[g].id] = db[fin[g].id]
      BY <3>1
    <3>3. fin[g].pc \in {"unstage", "update"} =>
            store'[fin[g].dest][NewKey(g)] = store[fin[g].dest][NewKey(g)]
      BY <1>0, <3>1, NewKeyFacts
    <3> QED
      BY <2>1, <2>2, <3>2, <3>3 DEF HeldBy, AcceptedBy, Completed
  <2>4. CASE fin[g].pc = "idle"
    <3>1. HeldBy(g)'
      BY <2>1, <2>4 DEF HeldBy, Active
    <3>2. AcceptedBy(g)'
      BY <2>1 DEF AcceptedBy, Completed
    <3> QED
      BY <3>1, <3>2
  <2> QED
    BY <2>3, <2>4
<1> QED
  BY <1>1, <1>2

\* When nothing but staging keys changed in the storage, completed rows and
\* saved objects are where they were.
LEMMA StagingOnly ==
  ASSUME StoreInv, UNCHANGED db,
         \A b \in Buckets, k \in Key : k.ext # "" => store'[b][k] = store[b][k]
  PROVE  /\ \A m \in Medias : StoredAt(m)'
         /\ \A f \in Finalisers : fin'[f] = fin[f] => HeldBy(f)' /\ AcceptedBy(f)'
<1>0. RowInv
  BY DEF StoreInv
<1>1. ASSUME NEW m \in Medias
      PROVE  StoredAt(m)'
  <2>1. CASE Completed(m)
    <3> DEFINE b == db[m].bucket
               k == db[m].key
    <3>1. b \in Buckets /\ k \in Key /\ k.ext # ""
      BY <1>0, <2>1, CompletedKey
    <3> HIDE DEF b, k
    <3>2. store'[b][k] = store[b][k]
      BY <3>1
    <3>3. store'[db[m].bucket][db[m].key] = store[db[m].bucket][db[m].key]
      BY <3>2 DEF b, k
    <3> QED
      BY <3>3 DEF StoreInv, StoredAt
  <2>2. CASE ~Completed(m)
    BY <2>2 DEF Completed, StoredAt
  <2> QED
    BY <2>1, <2>2
<1>2. ASSUME NEW f \in Finalisers, fin'[f] = fin[f]
      PROVE  HeldBy(f)' /\ AcceptedBy(f)'
  <2>1. HeldBy(f) /\ AcceptedBy(f)
    BY DEF StoreInv
  <2>2. NewKey(f)' = NewKey(f)
    BY <1>2 DEF NewKey
  <2>3. fin[f].pc \in {"unstage", "update"} =>
          store'[fin[f].dest][NewKey(f)] = store[fin[f].dest][NewKey(f)]
    BY <1>0, NewKeyFacts
  <2> QED
    BY <1>2, <2>1, <2>2, <2>3 DEF HeldBy, AcceptedBy, Completed
<1> QED
  BY <1>1, <1>2

LEMMA StoreInvInit == Init => StoreInv
<1> SUFFICES ASSUME Init PROVE StoreInv
  OBVIOUS
<1>1. \A f \in Finalisers : fin[f] = Idle("none", Nil)
  BY DEF Init
<1>2. \A m \in Medias : db[m] = NoRow
  BY DEF Init, BackendInit
<1> QED
  BY <1>1, <1>2, RowInvInit
  DEF StoreInv, Alone, StoredAt, HeldBy, AcceptedBy, Idle, Active

LEMMA LinkStepStored ==
  ASSUME StoreInv, RowInv', NEW m \in Medias,
         \/ CreateRow(m) \/ Presign(m) \/ Expire(m)
         \/ \E o \in Uploads : Put(m, o)
  PROVE  StoreInv'
<1>0. fin' = fin /\ Alone'
  BY DEF CreateRow, Presign, Expire, Put, StoreInv, Alone
<1>1. CASE UNCHANGED db
  <2>1. \A b \in Buckets, k \in Key : k.ext # "" => store'[b][k] = store[b][k]
    <3>1. CASE UNCHANGED store
      BY <3>1
    <3>2. CASE \E o \in Uploads : StoreSave(Staging, RawKey(m), o)
      <4>1. RawKey(m).ext = ""
        BY DEF RawKey, FileKey
      <4>2. store \in [Buckets -> [Key -> Object \cup {NoObject}]]
        BY DEF StoreInv, RowInv, TypeOK, BackendTypeOK
      <4>3. PICK o \in Uploads :
              store' = [store EXCEPT ![Staging][RawKey(m)] = o]
        BY <3>2 DEF StoreSave
      <4> QED
        BY <4>1, <4>2, <4>3, BucketsAssumption
    <3> QED
      BY <3>1, <3>2 DEF CreateRow, Presign, Expire, Put
  <2> QED
    BY <1>0, <1>1, <2>1, StagingOnly DEF StoreInv
<1>2. CASE db[m] = NoRow /\ RepoCreate(m, PendingRow(m)) /\ UNCHANGED store
  <2>0. db \in [Medias -> Row \cup {NoRow}] /\ RowInv
    BY DEF StoreInv, RowInv, TypeOK, BackendTypeOK
  <2>1. /\ \A n \in Medias \ {m} : db'[n] = db[n]
        /\ db'[m] = PendingRow(m)
    BY <1>2, <2>0 DEF RepoCreate
  <2>2. ASSUME NEW n \in Medias
        PROVE  StoredAt(n)'
    BY <1>2, <2>1, PendingRowFacts DEF StoreInv, StoredAt
  <2>3. ASSUME NEW f \in Finalisers
        PROVE  HeldBy(f)' /\ AcceptedBy(f)'
    <3>1. HeldBy(f) /\ AcceptedBy(f) /\ LocalsOf(fin[f])
      BY <2>0 DEF StoreInv, RowInv, Locals
    <3>2. fin[f].pc # "idle" => fin[f].id \in Medias /\ fin[f].id # m
      <4>1. SUFFICES ASSUME fin[f].pc # "idle", fin[f].id = m PROVE FALSE
        BY <3>1 DEF LocalsOf
      <4>2. fin[f].pc \in Active
        BY <2>0, <4>1 DEF RowInv, TypeOK, FinaliserState
      <4>3. db[m] = fin[f].media \/ db[m] # NoRow
        BY <3>1, <4>1, <4>2 DEF HeldBy, Completed
      <4>4. fin[f].media \in Row
        BY <3>1, <4>1, PendingRowFacts DEF LocalsOf
      <4> QED
        BY <1>2, <4>3, <4>4, NilFacts
    <3>3. NewKey(f)' = NewKey(f)
      BY <1>0 DEF NewKey
    <3>4. HeldBy(f)'
      BY <1>0, <1>2, <2>1, <3>1, <3>2, <3>3 DEF HeldBy, Completed, Active
    <3>5. AcceptedBy(f)'
      BY <1>0, <1>2, <2>1, <3>1 DEF AcceptedBy, Completed
    <3> QED
      BY <3>4, <3>5
  <2> QED
    BY <1>0, <2>2, <2>3 DEF StoreInv
<1> QED
  BY <1>1, <1>2 DEF CreateRow, Presign, Expire, Put

\* A request that becomes, stays or stops being the only one on its media.
LEMMA AloneStep ==
  ASSUME StoreInv, NEW f \in Finalisers,
         \A g \in Finalisers \ {f} : fin'[g] = fin[g],
         \/ fin'[f].pc = "idle"
         \/ \A g \in Finalisers \ {f} :
              fin[g].pc # "idle" => fin[g].id # fin'[f].id
  PROVE  Alone'
  BY DEF StoreInv, Alone

\* How a request's own state changes.
LEMMA GotoFields ==
  ASSUME fin \in [Finalisers -> FinaliserState], NEW f \in Finalisers, NEW pc,
         Goto(f, pc)
  PROVE  /\ fin'[f].pc = pc
         /\ fin'[f].id = fin[f].id       /\ fin'[f].dest = fin[f].dest
         /\ fin'[f].media = fin[f].media /\ fin'[f].reply = fin[f].reply
         /\ fin'[f].info = fin[f].info   /\ fin'[f].meta = fin[f].meta
  BY DEF Goto, FinaliserState

LEMMA ProbeFields ==
  ASSUME fin \in [Finalisers -> FinaliserState], NEW f \in Finalisers,
         StatFile(f) \/ ReadMetadata(f)
  PROVE  /\ fin'[f].pc \in {"read", "save", "cleanup"}
         /\ fin'[f].id = fin[f].id
         /\ fin'[f].media = fin[f].media
         /\ fin'[f].reply = fin[f].reply
<1>1. CASE Goto(f, "cleanup")
  BY <1>1, GotoFields
<1>2. CASE \E info : fin' = [fin EXCEPT ![f].pc = "read", ![f].info = info]
  BY <1>2 DEF FinaliserState
<1>3. CASE \E meta : fin' = [fin EXCEPT ![f].pc = "save", ![f].meta = meta]
  BY <1>3 DEF FinaliserState
<1> QED
  BY <1>1, <1>2, <1>3 DEF StatFile, ReadMetadata

LEMMA SameId ==
  ASSUME fin \in [Finalisers -> FinaliserState], NEW f \in Finalisers,
         FinaliserStep(f)
  PROVE  fin'[f].id = fin[f].id
<1>1. CASE StatFile(f) \/ ReadMetadata(f)
  BY <1>1, ProbeFields
<1>2. CASE \E pc \in Active : Goto(f, pc)
  BY <1>2, GotoFields
<1>3. CASE \E reply \in Reply : Finish(f, reply)
  BY <1>3 DEF Finish, Idle
<1> QED
  BY <1>1, <1>2, <1>3
  DEF FinaliserStep, SaveFile, RemoveStaged, UpdateRow, UndoSave,
      EnqueueOptimiseMedia, CleanupFile, MarkAsFailed, Active, Reply

LEMMA BeginStored ==
  ASSUME ExclusiveFinalise, StoreInv, RowInv', NEW f \in Finalisers,
         NEW m \in Medias,
         \/ \E b \in Buckets : BeginFinalise(f, m, b)
         \/ ReplyAtOnce(f, m)
  PROVE  StoreInv'
<1>0. fin \in [Finalisers -> FinaliserState]
  BY DEF StoreInv, RowInv, TypeOK
<1>1. /\ UNCHANGED <<db, store>>
      /\ \A g \in Finalisers \ {f} : fin'[g] = fin[g]
      /\ \A g \in Finalisers : fin[g].pc # "idle" => fin[g].id # m
  BY <1>0 DEF BeginFinalise, ReplyAtOnce, MayFinalise
<1>2. /\ \A n \in Medias : StoredAt(n)'
      /\ \A g \in Finalisers \ {f} : HeldBy(g)' /\ AcceptedBy(g)'
  BY <1>1, StagingOnly
<1>3. CASE \E b \in Buckets : BeginFinalise(f, m, b)
  <2>1. PICK b \in Buckets : BeginFinalise(f, m, b)
    BY <1>3
  <2>2. /\ fin'[f].pc = "stat" /\ fin'[f].id = m
        /\ fin'[f].media = db[m] /\ fin'[f].reply = "none"
    BY <1>0, <2>1 DEF BeginFinalise, Idle
  <2>3. HeldBy(f)' /\ AcceptedBy(f)'
    BY <1>1, <2>2 DEF HeldBy, AcceptedBy
  <2>4. Alone'
    BY <1>1, <2>2, AloneStep
  <2> QED
    BY <1>2, <2>3, <2>4 DEF StoreInv
<1>4. CASE ReplyAtOnce(f, m)
  <2>1. PICK reply :
          /\ fin'[f] = Idle(reply, m)
          /\ reply = "ok" => Completed(m)
    <3>1. CASE fin' = [fin EXCEPT ![f] = Idle("error", m)]
      BY <1>0, <3>1
    <3>2. CASE fin' = [fin EXCEPT ![f] = Idle(EarlyReply(m), m)]
      <4>1. EarlyReply(m) = "ok" => Completed(m)
        BY DEF EarlyReply, Completed
      <4> QED
        BY <1>0, <3>2, <4>1
    <3> QED
      BY <1>4, <3>1, <3>2 DEF ReplyAtOnce
  <2>2. fin'[f].pc = "idle" /\ fin'[f].id = m /\ fin'[f].reply = reply
    BY <2>1 DEF Idle
  <2>3. HeldBy(f)' /\ AcceptedBy(f)'
    BY <1>1, <2>1, <2>2 DEF HeldBy, AcceptedBy, Completed, Active
  <2>4. Alone'
    BY <1>1, <2>2, AloneStep
  <2> QED
    BY <1>2, <2>3, <2>4 DEF StoreInv
<1> QED
  BY <1>3, <1>4

LEMMA FinaliserStepStored ==
  ASSUME "update_unsure" \notin Faults, StoreInv, RowInv',
         NEW f \in Finalisers, FinaliserStep(f)
  PROVE  StoreInv'
<1>1. /\ db \in [Medias -> Row \cup {NoRow}]
      /\ store \in [Buckets -> [Key -> Object \cup {NoObject}]]
      /\ fin \in [Finalisers -> FinaliserState]
      /\ fin[f] \in FinaliserState
      /\ LocalsOf(fin[f])
      /\ RowInv
  BY DEF StoreInv, RowInv, TypeOK, BackendTypeOK, Locals
<1>a. fin[f].pc \in Active
  BY DEF FinaliserStep, StatFile, ReadMetadata, SaveFile, RemoveStaged,
         UpdateRow, UndoSave, EnqueueOptimiseMedia, CleanupFile,
         MarkAsFailed, Active
<1>b. PICK n \in Medias : n = fin[f].id
  BY <1>1, <1>a DEF LocalsOf, Active
<1>2. /\ fin[f].pc \in Active
      /\ n \in Medias
      /\ n = fin[f].id
      /\ fin[f].media = PendingRow(n)
      /\ fin[f].media.key = RawKey(n)
      /\ fin[f].dest \in Buckets
  BY <1>1, <1>a, <1>b, PendingRowFacts DEF LocalsOf, Active
<1>3. /\ HeldBy(f)
      /\ \A g \in Finalisers \ {f} : fin[g].pc # "idle" => fin[g].id # n
  BY <1>2 DEF StoreInv, Alone, Active
<1>4. fin[f].pc # "enqueue" => db[n] = PendingRow(n) /\ ~Completed(n)
  BY <1>2, <1>3, PendingRowFacts DEF HeldBy, Completed
<1>5. \A g \in Finalisers \ {f} : fin'[g] = fin[g]
  BY <1>1 DEF FinaliserStep, StatFile, ReadMetadata, SaveFile, RemoveStaged,
           UpdateRow, UndoSave, EnqueueOptimiseMedia, CleanupFile,
           MarkAsFailed, Goto, Finish
<1>6. /\ RawKey(n).media = n
      /\ RawKey(n).ext = ""
  BY DEF RawKey, FileKey
<1>7. fin'[f].id = n
  BY <1>2, <1>1, SameId
<1>8. Alone'
  BY <1>3, <1>5, <1>7, AloneStep
<1>9. SUFFICES ASSUME TRUE
               PROVE  /\ \A m \in Medias : StoredAt(m)'
                      /\ \A g \in Finalisers : HeldBy(g)' /\ AcceptedBy(g)'
  BY <1>8 DEF StoreInv
<1>10. CASE StatFile(f) \/ ReadMetadata(f)
  <2>1. UNCHANGED <<db, store>>
    BY <1>10 DEF StatFile, ReadMetadata
  <2>2. /\ fin'[f].pc \in {"read", "save", "cleanup"}
        /\ fin'[f].media = fin[f].media
        /\ fin'[f].reply = fin[f].reply
        /\ fin[f].pc # "enqueue"
    BY <1>1, <1>10, ProbeFields DEF StatFile, ReadMetadata
  <2>3. HeldBy(f)' /\ AcceptedBy(f)'
    <3>1. AcceptedBy(f)
      BY DEF StoreInv
    <3> QED
      BY <1>2, <1>3, <1>4, <1>7, <2>1, <2>2, <3>1
      DEF HeldBy, AcceptedBy, Completed, Active
  <2> QED
    BY <1>5, <2>1, <2>3, StagingOnly
<1>11. CASE RemoveStaged(f) \/ CleanupFile(f)
  <2>1. /\ UNCHANGED db
        /\ fin[f].pc # "enqueue"
        /\ StoreRemove(Staging, RawKey(n)) \/ UNCHANGED store
    BY <1>2, <1>11 DEF RemoveStaged, CleanupFile
  <2>2. \A b \in Buckets, k \in Key : k.ext # "" => store'[b][k] = store[b][k]
    BY <1>1, <1>6, <2>1, BucketsAssumption DEF StoreRemove
  <2>3. /\ \/ fin[f].pc = "unstage" /\ fin'[f].pc = "update"
           \/ fin'[f].pc = "mark"
        /\ fin'[f].media = fin[f].media /\ fin'[f].reply = fin[f].reply
        /\ fin'[f].info = fin[f].info   /\ fin'[f].meta = fin[f].meta
        /\ fin'[f].dest = fin[f].dest
    BY <1>1, <1>11, GotoFields DEF RemoveStaged, CleanupFile
  <2>4. HeldBy(f)' /\ AcceptedBy(f)'
    <3>1. AcceptedBy(f)
      BY DEF StoreInv
    <3>2. NewKey(f)' = NewKey(f)
      BY <1>2, <1>7, <2>3 DEF NewKey
    <3>3. fin[f].pc = "unstage" =>
            store'[fin[f].dest][NewKey(f)] = store[fin[f].dest][NewKey(f)]
      BY <1>1, <1>2, <2>2, NewKeyFacts
    <3> QED
      BY <1>2, <1>3, <1>4, <1>7, <2>1, <2>3, <3>1, <3>2, <3>3
      DEF HeldBy, AcceptedBy, Completed, Active
  <2> QED
    BY <1>5, <2>1, <2>2, <2>4, StagingOnly
<1>12. CASE EnqueueOptimiseMedia(f)
  <2>1. /\ UNCHANGED <<db, store>>
        /\ fin[f].pc = "enqueue"
        /\ fin'[f] = Idle("ok", n)
    BY <1>2, <1>1, <1>12 DEF EnqueueOptimiseMedia, Finish
  <2>2. HeldBy(f)' /\ AcceptedBy(f)'
    BY <1>2, <1>3, <2>1 DEF HeldBy, AcceptedBy, Completed, Idle, Active
  <2> QED
    BY <1>5, <2>1, <2>2, StagingOnly
<1>13. CASE SaveFile(f) \/ UndoSave(f) \/ UpdateRow(f) \/ MarkAsFailed(f)
  <2>1. fin[f].pc # "enqueue" /\ ~Completed(n)
    BY <1>4, <1>13 DEF SaveFile, UndoSave, UpdateRow, MarkAsFailed
  <2>2. \A m \in Medias \ {n} : db'[m] = db[m]
    BY <1>1, <1>2, <1>13
    DEF SaveFile, UndoSave, UpdateRow, MarkAsFailed, RepoUpdate
  <2>3. \A b \in Buckets, k \in Key : k.media # n => store'[b][k] = store[b][k]
    <3>1. CASE SaveFile(f) \/ UndoSave(f)
      <4>1. /\ NewKey(f).media = n
            /\ NewKey(f) \in Key
        BY <1>2, <1>1, <3>1, NewKeyFacts DEF SaveFile, UndoSave
      <4>2. PICK o : \/ store' = [store EXCEPT ![fin[f].dest][NewKey(f)] = o]
                     \/ UNCHANGED store
        BY <3>1 DEF SaveFile, UndoSave, StoreSave, StoreRemove
      <4> QED
        BY <1>1, <1>2, <4>1, <4>2
    <3>2. CASE UpdateRow(f) \/ MarkAsFailed(f)
      BY <3>2 DEF UpdateRow, MarkAsFailed
    <3> QED
      BY <1>13, <3>1, <3>2
  <2>4. /\ \A m \in Medias \ {n} : StoredAt(m)'
        /\ \A g \in Finalisers \ {f} : HeldBy(g)' /\ AcceptedBy(g)'
    BY <1>2, <1>3, <1>5, <2>1, <2>2, <2>3, OtherMedias
  <2>5. fin[f].reply # "ok"
    BY <1>2, <2>1 DEF StoreInv, AcceptedBy
  <2>6. StoredAt(n)' /\ HeldBy(f)' /\ AcceptedBy(f)'
    <3>1. CASE SaveFile(f) \/ UndoSave(f)
      <4>1. db' = db /\ StoredAt(n)'
        BY <2>1, <3>1 DEF SaveFile, UndoSave, StoredAt, Completed
      <4>2. CASE Goto(f, "cleanup")
        <5>1. /\ fin'[f].pc = "cleanup" /\ fin'[f].media = fin[f].media
              /\ fin'[f].reply = fin[f].reply
          BY <1>1, <4>2, GotoFields
        <5> QED
          BY <1>2, <1>4, <1>7, <2>1, <2>5, <4>1, <5>1
          DEF HeldBy, AcceptedBy
      <4>3. CASE SaveFile(f) /\ Goto(f, "unstage")
        <5>1. /\ fin'[f].pc = "unstage" /\ fin'[f].media = fin[f].media
              /\ fin'[f].reply = fin[f].reply /\ fin'[f].info = fin[f].info
              /\ fin'[f].dest = fin[f].dest   /\ fin'[f].meta = fin[f].meta
          BY <1>1, <4>3, GotoFields
        <5>2. NewKey(f)' = NewKey(f)
          BY <1>2, <1>7, <5>1 DEF NewKey
        <5>3. ~Goto(f, "cleanup")
          BY <1>1, <5>1, GotoFields
        <5>4. /\ Rewinds(f)
              /\ StoreSave(fin[f].dest, NewKey(f), SavedObject(f))
          BY <4>3, <5>3 DEF SaveFile
        <5>5. /\ SavedObject(f) =
                   [type |-> fin[f].info.type, blob |-> fin[f].meta]
              /\ Size[fin[f].meta] = fin[f].info.size
          BY <5>4 DEF Rewinds, SavedObject
        <5>6. NewKey(f) \in Key
          BY <1>1, <4>3, NewKeyFacts DEF SaveFile
        <5>7. store'[fin[f].dest][NewKey(f)] =
                [type |-> fin[f].info.type, blob |-> fin[f].meta]
          BY <1>1, <1>2, <5>4, <5>5, <5>6 DEF StoreSave
        <5> QED
          BY <1>2, <1>4, <1>7, <2>1, <2>5, <4>1, <5>1, <5>2, <5>5, <5>7
          DEF HeldBy, AcceptedBy
      <4> QED
        BY <3>1, <4>1, <4>2, <4>3 DEF SaveFile, UndoSave
    <3>2. CASE UpdateRow(f)
      <4>1. CASE Goto(f, "undo") /\ UNCHANGED db
        <5>1. /\ fin'[f].pc = "undo" /\ fin'[f].media = fin[f].media
              /\ fin'[f].reply = fin[f].reply
          BY <1>1, <4>1, GotoFields
        <5>2. StoredAt(n)'
          BY <2>1, <4>1 DEF StoredAt, Completed
        <5> QED
          BY <1>2, <1>4, <1>7, <2>1, <2>5, <4>1, <5>1, <5>2
          DEF HeldBy, AcceptedBy
      <4>2. CASE Goto(f, "enqueue") /\ RepoUpdate(n, CompletedRow(f))
        <5>1. fin'[f].pc = "enqueue" /\ fin'[f].reply = fin[f].reply
          BY <1>1, <4>2, GotoFields
        <5>2. db'[n] = CompletedRow(f)
          BY <1>1, <1>2, <1>4, <2>1, <4>2, PendingRowFacts, NilFacts
          DEF RepoUpdate, UpdatedRow
        <5>3. /\ CompletedRow(f) \in Row
              /\ CompletedRow(f).status = "completed"
          BY <1>1, <3>2, CompletedRowFacts DEF UpdateRow
        <5>4. /\ CompletedRow(f).bucket = fin[f].dest
              /\ CompletedRow(f).key = NewKey(f)
              /\ CompletedRow(f).mime = fin[f].info.type
              /\ CompletedRow(f).meta = fin[f].meta
              /\ CompletedRow(f).size = fin[f].info.size
          BY <1>2 DEF CompletedRow, PendingRow
        <5>5. /\ store' = store
              /\ store[fin[f].dest][NewKey(f)] =
                   [type |-> fin[f].info.type, blob |-> fin[f].meta]
              /\ Size[fin[f].meta] = fin[f].info.size
          BY <1>3, <3>2 DEF UpdateRow, HeldBy
        <5>6. store[fin[f].dest][NewKey(f)] # NoObject
          <6>1. [type |-> fin[f].info.type, blob |-> fin[f].meta] \in Object
            BY <1>1, <3>2 DEF UpdateRow, LocalsOf, Info, Object
          <6> QED
            BY <5>5, <6>1, NilFacts
        <5>7. Completed(n)'
          BY <5>2, <5>3, NilFacts DEF Completed
        <5>8. StoredAt(n)'
          BY <5>2, <5>4, <5>5, <5>6 DEF StoredAt
        <5>9. HeldBy(f)' /\ AcceptedBy(f)'
          BY <1>7, <2>5, <5>1, <5>7 DEF HeldBy, AcceptedBy
        <5> QED
          BY <5>8, <5>9
      <4> QED
        BY <1>2, <3>2, <4>1, <4>2 DEF UpdateRow
    <3>3. CASE MarkAsFailed(f)
      <4>1. fin'[f] = Idle("error", n)
        BY <1>2, <1>1, <3>3 DEF MarkAsFailed, Finish
      <4>2. fin'[f].pc = "idle" /\ fin'[f].reply = "error"
        BY <4>1 DEF Idle
      <4>3. ~Completed(n)'
        <5>1. FailedRow(f).status = "failed"
          BY <1>2 DEF FailedRow, PendingRow
        <5> QED
          BY <1>1, <1>2, <2>1, <3>3, <5>1
          DEF MarkAsFailed, RepoUpdate, UpdatedRow, Completed
      <4> QED
        BY <4>2, <4>3 DEF StoredAt, Completed, HeldBy, AcceptedBy, Active
    <3> QED
      BY <1>13, <3>1, <3>2, <3>3
  <2>7. \A m \in Medias : StoredAt(m)'
    BY <2>4, <2>6
  <2>8. \A g \in Finalisers : HeldBy(g)' /\ AcceptedBy(g)'
    BY <2>4, <2>6
  <2> QED
    BY <2>7, <2>8
<1> QED
  BY <1>10, <1>11, <1>12, <1>13 DEF FinaliserStep

LEMMA CrashStored ==
  ASSUME StoreInv, RowInv', NEW f \in Finalisers, Crash(f)
  PROVE  StoreInv'
<1>1. /\ UNCHANGED <<db, store>>
      /\ \A g \in Finalisers \ {f} : fin'[g] = fin[g]
      /\ fin'[f] = Idle("none", Nil)
  BY DEF Crash, StoreInv, RowInv, TypeOK
<1>2. /\ \A n \in Medias : StoredAt(n)'
      /\ \A g \in Finalisers \ {f} : HeldBy(g)' /\ AcceptedBy(g)'
  BY <1>1, StagingOnly
<1>3. fin'[f].pc = "idle" /\ fin'[f].reply = "none"
  BY <1>1 DEF Idle
<1>4. HeldBy(f)' /\ AcceptedBy(f)'
  BY <1>3 DEF HeldBy, AcceptedBy, Active
<1>5. Alone'
  BY <1>1, <1>3, AloneStep
<1> QED
  BY <1>2, <1>4, <1>5 DEF StoreInv

LEMMA StoreInvNext ==
  ASSUME ExclusiveFinalise, "update_unsure" \notin Faults
  PROVE  StoreInv /\ [Next]_vars => StoreInv'
<1> SUFFICES ASSUME StoreInv, [Next]_vars PROVE StoreInv'
  OBVIOUS
<1>1. RowInv'
  BY RowInvNext DEF StoreInv
<1>2. CASE UNCHANGED vars
  BY <1>1, <1>2
  DEF vars, StoreInv, Alone, StoredAt, HeldBy, AcceptedBy, Completed, NewKey
<1>3. CASE Next
  BY <1>1, <1>3, LinkStepStored, BeginStored, FinaliserStepStored, CrashStored
  DEF Next
<1> QED
  BY <1>2, <1>3

\* A completed row describes the object it points to, for any number of medias,
\* uploads and requests, whatever call fails and whenever a process dies, as
\* long as finalises of one media do not overlap and the database does not
\* report as failed an update it applied.
THEOREM CompletedMediasAreStored ==
  ASSUME ExclusiveFinalise, "update_unsure" \notin Faults
  PROVE  Spec => []CompletedIsStored
<1>1. StoreInv => CompletedIsStored
  BY DEF StoreInv, CompletedIsStored, StoredAt
<1> QED
  BY <1>1, StoreInvInit, StoreInvNext, PTL DEF Spec

\* A media whose finalise was answered 204 is, and stays, completed.
THEOREM AcceptedMediasAreCompleted ==
  ASSUME ExclusiveFinalise, "update_unsure" \notin Faults
  PROVE  Spec => []AcceptedIsCompleted
<1>1. StoreInv => AcceptedIsCompleted
  BY DEF StoreInv, AcceptedBy, Completed, AcceptedIsCompleted
<1> QED
  BY <1>1, StoreInvInit, StoreInvNext, PTL DEF Spec

-----------------------------------------------------------------------------
(* Overlapping finalises                                                   *)
(*                                                                         *)
(* Two finalises of one media may save to the same key, and either may     *)
(* write its row last.  The key tells the type, so whichever object is     *)
(* there has the type of every row that names it; and a saved object is    *)
(* only taken away again by a request whose update of the row failed.      *)

Backs(b, k, type) == store[b][k] # NoObject /\ store[b][k].type = type

HasSaved(f) ==
  fin[f].pc \in {"unstage", "update"} =>
    Backs(fin[f].dest, NewKey(f), fin[f].info.type)

BackedInv ==
  /\ RowInv
  /\ \A f \in Finalisers : fin[f].pc # "undo" /\ HasSaved(f)
  /\ \A m \in Medias : Completed(m) => Backs(db[m].bucket, db[m].key, db[m].mime)

LEMMA ExtensionsDiffer ==
  ASSUME NEW x \in AllowedMimeTypes, NEW y \in AllowedMimeTypes,
         MimeTypeToExtension(x) = MimeTypeToExtension(y)
  PROVE  x = y
  BY DEF AllowedMimeTypes, MimeTypeToExtension

\* The key under which the object of a type is kept.
LEMMA TypedKeys ==
  ASSUME NEW m \in Medias, NEW x \in AllowedMimeTypes
  PROVE  /\ FileKey(m, MimeTypeToExtension(x)) \in Key
         /\ \A n \in Medias :
              /\ FileKey(m, MimeTypeToExtension(x)) # RawKey(n)
              /\ \A y \in AllowedMimeTypes :
                   FileKey(m, MimeTypeToExtension(x))
                     = FileKey(n, MimeTypeToExtension(y)) => x = y
<1>1. MimeTypeToExtension(x) \in Extensions /\ MimeTypeToExtension(x) # ""
  BY MimeTypeFacts
<1>2. FileKey(m, MimeTypeToExtension(x)) \in Key
  BY <1>1, FileKeyType
<1>3. ASSUME NEW n \in Medias
      PROVE  FileKey(m, MimeTypeToExtension(x)) # RawKey(n)
  <2>1. FileKey(m, MimeTypeToExtension(x)).ext = MimeTypeToExtension(x)
    BY DEF FileKey
  <2>2. RawKey(n).ext = ""
    BY DEF RawKey, FileKey
  <2> QED
    BY <1>1, <2>1, <2>2
<1>4. ASSUME NEW n \in Medias, NEW y \in AllowedMimeTypes,
             FileKey(m, MimeTypeToExtension(x)) = FileKey(n, MimeTypeToExtension(y))
      PROVE  x = y
  <2>1. /\ FileKey(m, MimeTypeToExtension(x)).ext = MimeTypeToExtension(x)
        /\ FileKey(n, MimeTypeToExtension(y)).ext = MimeTypeToExtension(y)
    BY DEF FileKey
  <2>2. MimeTypeToExtension(x) = MimeTypeToExtension(y)
    BY <1>4, <2>1
  <2> QED
    BY <2>2, ExtensionsDiffer
<1> QED
  BY <1>2, <1>3, <1>4

\* What SaveFile puts in the storage has the type its key stands for.
LEMMA SavesItsType ==
  ASSUME RowInv, NEW f \in Finalisers, fin[f].pc = "save", Rewinds(f)
  PROVE  /\ SavedObject(f) \in Object
         /\ SavedObject(f).type = fin[f].info.type
<1>1. LocalsOf(fin[f])
  BY DEF RowInv, Locals
<1>2. fin[f].info.type \in MimeTypes /\ fin[f].meta \in Blobs
  BY <1>1 DEF LocalsOf, Info
<1>3. Staged(f).blob = fin[f].meta
  BY DEF Rewinds
<1> QED
  BY <1>2, <1>3 DEF SavedObject, Object

\* The only changes of the storage: a staged file that comes or goes, a file
\* that is saved, and one that is taken away after a failed update.
StoreMoves ==
  \/ UNCHANGED store
  \/ \E m \in Medias, o \in Object \cup {NoObject} : StoreSave(Staging, RawKey(m), o)
  \/ \E f \in Finalisers : /\ fin[f].pc = "save"
                           /\ Rewinds(f)
                           /\ StoreSave(fin[f].dest, NewKey(f), SavedObject(f))
  \/ \E f \in Finalisers : fin[f].pc = "undo"

LEMMA StepMoves ==
  ASSUME RowInv, [Next]_vars
  PROVE  StoreMoves
<1>1. ASSUME NEW m \in Medias,
             CreateRow(m) \/ Presign(m) \/ Expire(m) \/ \E o \in Uploads : Put(m, o)
      PROVE  StoreMoves
  BY <1>1, UploadAssumption DEF StoreMoves, CreateRow, Presign, Expire, Put
<1>2. ASSUME NEW f \in Finalisers, NEW m \in Medias,
             (\E b \in Buckets : BeginFinalise(f, m, b)) \/ ReplyAtOnce(f, m)
      PROVE  StoreMoves
  BY <1>2 DEF StoreMoves, BeginFinalise, ReplyAtOnce
<1>3. ASSUME NEW f \in Finalisers, RemoveStaged(f) \/ CleanupFile(f)
      PROVE  StoreMoves
  <2>1. fin[f].pc # "idle" /\ LocalsOf(fin[f])
    BY <1>3 DEF RemoveStaged, CleanupFile, RowInv, Locals
  <2>2. PICK n \in Medias : n = fin[f].id
    BY <2>1 DEF LocalsOf
  <2>3. fin[f].media.key = RawKey(n)
    BY <2>1, <2>2, PendingRowFacts DEF LocalsOf
  <2>4. StoreSave(Staging, RawKey(n), NoObject) \/ UNCHANGED store
    BY <1>3, <2>3 DEF RemoveStaged, CleanupFile, StoreRemove, StoreSave
  <2> QED
    BY <2>4 DEF StoreMoves
<1>4. ASSUME NEW f \in Finalisers,
             \/ StatFile(f) \/ ReadMetadata(f) \/ SaveFile(f) \/ UpdateRow(f)
             \/ UndoSave(f) \/ EnqueueOptimiseMedia(f) \/ MarkAsFailed(f)
             \/ Crash(f)
      PROVE  StoreMoves
  BY <1>4 DEF StoreMoves, StatFile, ReadMetadata, SaveFile, UpdateRow, UndoSave,
              EnqueueOptimiseMedia, MarkAsFailed, Crash
<1>5. CASE UNCHANGED vars
  BY <1>5 DEF vars, StoreMoves
<1> QED
  BY <1>1, <1>2, <1>3, <1>4, <1>5 DEF Next, FinaliserStep

\* A file under the key of its type stays, or makes room for one of its type.
LEMMA FilesStay ==
  ASSUME BackedInv, [Next]_vars,
         NEW b \in Buckets, NEW m \in Medias, NEW type \in AllowedMimeTypes,
         Backs(b, FileKey(m, MimeTypeToExtension(type)), type)
  PROVE  Backs(b, FileKey(m, MimeTypeToExtension(type)), type)'
<1> DEFINE k == FileKey(m, MimeTypeToExtension(type))
<1>1. /\ k \in Key
      /\ store \in [Buckets -> [Key -> Object \cup {NoObject}]]
      /\ RowInv
  BY TypedKeys DEF BackedInv, RowInv, TypeOK, BackendTypeOK
<1>2. CASE UNCHANGED store
  BY <1>2 DEF Backs
<1>3. CASE \E n \in Medias, o \in Object \cup {NoObject} :
             StoreSave(Staging, RawKey(n), o)
  <2>1. PICK n \in Medias, o \in Object \cup {NoObject} :
          store' = [store EXCEPT ![Staging][RawKey(n)] = o]
    BY <1>3 DEF StoreSave
  <2>2. k # RawKey(n)
    BY TypedKeys
  <2> HIDE DEF k
  <2>3. store'[b][k] = store[b][k]
    BY <1>1, <2>1, <2>2, BucketsAssumption
  <2> QED
    BY <2>3 DEF Backs, k
<1>4. CASE \E f \in Finalisers :
             /\ fin[f].pc = "save"
             /\ Rewinds(f)
             /\ StoreSave(fin[f].dest, NewKey(f), SavedObject(f))
  <2>1. PICK f \in Finalisers :
          /\ fin[f].pc = "save"
          /\ Rewinds(f)
          /\ store' = [store EXCEPT ![fin[f].dest][NewKey(f)] = SavedObject(f)]
    BY <1>4 DEF StoreSave
  <2>2. /\ fin[f].id \in Medias
        /\ fin[f].dest \in Buckets
        /\ fin[f].info.type \in AllowedMimeTypes
    BY <1>1, <2>1 DEF RowInv, Locals, LocalsOf, IsMimeTypeAllowed
  <2>3. k = NewKey(f) => type = fin[f].info.type
    BY <2>2, TypedKeys DEF NewKey
  <2>4. SavedObject(f) # NoObject /\ SavedObject(f).type = fin[f].info.type
    BY <1>1, <2>1, SavesItsType, NilFacts
  <2> HIDE DEF k
  <2>5. NewKey(f) \in Key
    BY <1>1, <2>1, NewKeyFacts
  <2>6. store'[b][k] = IF b = fin[f].dest /\ k = NewKey(f) THEN SavedObject(f)
                       ELSE store[b][k]
    BY <1>1, <2>1, <2>2, <2>5
  <2> QED
    BY <2>3, <2>4, <2>6 DEF Backs, k
<1> QED
  BY <1>1, <1>2, <1>3, <1>4, StepMoves DEF StoreMoves, BackedInv

LEMMA HasSavedStays ==
  ASSUME BackedInv, [Next]_vars, NEW g \in Finalisers, fin'[g] = fin[g]
  PROVE  HasSaved(g)'
<1>1. HasSaved(g) /\ LocalsOf(fin[g])
  BY DEF BackedInv, RowInv, Locals
<1>2. NewKey(g)' = NewKey(g)
  BY DEF NewKey
<1>3. CASE fin[g].pc \in {"unstage", "update"}
  <2>1. PICK n \in Medias, type \in AllowedMimeTypes, b \in Buckets :
          n = fin[g].id /\ type = fin[g].info.type /\ b = fin[g].dest
    BY <1>1, <1>3 DEF LocalsOf, IsMimeTypeAllowed
  <2>2. NewKey(g) = FileKey(n, MimeTypeToExtension(type))
    BY <2>1 DEF NewKey
  <2>3. Backs(b, FileKey(n, MimeTypeToExtension(type)), type)
    BY <1>1, <1>3, <2>1, <2>2 DEF HasSaved
  <2>4. Backs(b, FileKey(n, MimeTypeToExtension(type)), type)'
    BY <2>3, FilesStay
  <2> QED
    BY <1>2, <2>1, <2>2, <2>4 DEF HasSaved, Backs
<1>4. CASE fin[g].pc \notin {"unstage", "update"}
  BY <1>4 DEF HasSaved
<1> QED
  BY <1>3, <1>4

LEMMA RowStaysBacked ==
  ASSUME BackedInv, [Next]_vars, NEW m \in Medias, Completed(m), db'[m] = db[m]
  PROVE  Backs(db[m].bucket, db[m].key, db[m].mime)'
<1>1. Backs(db[m].bucket, db[m].key, db[m].mime) /\ RowInv
  BY DEF BackedInv
<1>2. PICK type \in AllowedMimeTypes, b \in Buckets :
        /\ type = db[m].mime
        /\ b = db[m].bucket
        /\ db[m].key = FileKey(m, MimeTypeToExtension(type))
  BY <1>1, CompletedKey DEF RowInv, RowWellFormed, Completed, IsMimeTypeAllowed
<1>3. Backs(b, FileKey(m, MimeTypeToExtension(type)), type)'
  BY <1>1, <1>2, FilesStay
<1> QED
  BY <1>2, <1>3 DEF Backs

LEMMA BackedKept ==
  ASSUME BackedInv, RowInv', [Next]_vars, NEW f \in Finalisers,
         \A g \in Finalisers \ {f} : fin'[g] = fin[g],
         fin'[f].pc # "undo", HasSaved(f)',
         \A m \in Medias : Completed(m)' =>
           \/ db'[m] = db[m]
           \/ Backs(db[m].bucket, db[m].key, db[m].mime)'
  PROVE  BackedInv'
<1>1. ASSUME NEW g \in Finalisers \ {f}
      PROVE  fin'[g].pc # "undo" /\ HasSaved(g)'
  BY HasSavedStays DEF BackedInv
<1>2. ASSUME NEW m \in Medias, Completed(m)', db'[m] = db[m]
      PROVE  Backs(db[m].bucket, db[m].key, db[m].mime)'
  BY <1>2, RowStaysBacked DEF Completed
<1> QED
  BY <1>1, <1>2 DEF BackedInv

\* The steps that neither save an object nor write a completed row.
LEMMA PlainStepBacked ==
  ASSUME BackedInv, RowInv', [Next]_vars, NEW f \in Finalisers,
         \A g \in Finalisers \ {f} : fin'[g] = fin[g],
         fin'[f].pc \notin {"unstage", "update", "undo"},
         \A m \in Medias : Completed(m)' => db'[m] = db[m]
  PROVE  BackedInv'
<1>1. HasSaved(f)'
  BY DEF HasSaved
<1> QED
  BY <1>1, BackedKept

LEMMA LinkStepBacked ==
  ASSUME BackedInv, RowInv', [Next]_vars, NEW m \in Medias,
         \/ CreateRow(m) \/ Presign(m) \/ Expire(m)
         \/ \E o \in Uploads : Put(m, o)
  PROVE  BackedInv'
<1>1. fin' = fin
  BY DEF CreateRow, Presign, Expire, Put
<1>2. \A n \in Medias : Completed(n)' => db'[n] = db[n]
  <2>1. CASE UNCHANGED db
    BY <2>1
  <2>2. CASE RepoCreate(m, PendingRow(m))
    BY <2>2, PendingRowFacts
    DEF RepoCreate, Completed, BackedInv, RowInv, TypeOK, BackendTypeOK
  <2> QED
    BY <2>1, <2>2 DEF CreateRow, Presign, Expire, Put
<1>3. \A f \in Finalisers : fin'[f].pc # "undo" /\ HasSaved(f)'
  BY <1>1, HasSavedStays DEF BackedInv
<1>4. ASSUME NEW n \in Medias, Completed(n)'
      PROVE  Backs(db[n].bucket, db[n].key, db[n].mime)'
  BY <1>2, <1>4, RowStaysBacked DEF Completed
<1> QED
  BY <1>3, <1>4 DEF BackedInv

LEMMA BeginBacked ==
  ASSUME BackedInv, RowInv', [Next]_vars, NEW f \in Finalisers,
         \/ \E m \in Medias, b \in Buckets : BeginFinalise(f, m, b)
         \/ \E m \in Medias : ReplyAtOnce(f, m)
         \/ Crash(f)
  PROVE  BackedInv'
<1>1. fin \in [Finalisers -> FinaliserState]
  BY DEF BackedInv, RowInv, TypeOK
<1>2. UNCHANGED db /\ \A g \in Finalisers \ {f} : fin'[g] = fin[g]
  BY <1>1 DEF BeginFinalise, ReplyAtOnce, Crash
<1>3. CASE \E m \in Medias, b \in Buckets : BeginFinalise(f, m, b)
  <2>1. fin'[f].pc = "stat"
    BY <1>1, <1>3 DEF BeginFinalise, Idle
  <2> QED
    BY <1>2, <2>1, PlainStepBacked
<1>4. CASE (\E m \in Medias : ReplyAtOnce(f, m)) \/ Crash(f)
  <2>1. \E reply, m : fin'[f] = Idle(reply, m)
    BY <1>1, <1>4 DEF ReplyAtOnce, Crash
  <2>2. fin'[f].pc = "idle"
    BY <2>1 DEF Idle
  <2> QED
    BY <1>2, <2>2, PlainStepBacked
<1> QED
  BY <1>3, <1>4

LEMMA FinaliserStepBacked ==
  ASSUME Faults \cap {"update", "update_unsure"} = {},
         BackedInv, RowInv', [Next]_vars, NEW f \in Finalisers, FinaliserStep(f)
  PROVE  BackedInv'
<1>1. /\ db \in [Medias -> Row \cup {NoRow}]
      /\ store \in [Buckets -> [Key -> Object \cup {NoObject}]]
      /\ fin \in [Finalisers -> FinaliserState]
      /\ fin[f] \in FinaliserState
      /\ LocalsOf(fin[f])
      /\ RowInv
  BY DEF BackedInv, RowInv, TypeOK, BackendTypeOK, Locals
<1>2. /\ fin[f].pc \in Active \ {"undo"}
      /\ \A g \in Finalisers \ {f} : fin'[g] = fin[g]
  BY <1>1 DEF FinaliserStep, StatFile, ReadMetadata, SaveFile, RemoveStaged,
           UpdateRow, UndoSave, EnqueueOptimiseMedia, CleanupFile, MarkAsFailed,
           Active, Goto, Finish, BackedInv
<1>3. CASE StatFile(f) \/ ReadMetadata(f)
  <2>1. UNCHANGED db
    BY <1>3 DEF StatFile, ReadMetadata
  <2> QED
    BY <1>1, <1>2, <1>3, <2>1, ProbeFields, PlainStepBacked
<1>4. CASE CleanupFile(f) \/ EnqueueOptimiseMedia(f)
  <2>1. UNCHANGED db
    BY <1>4 DEF CleanupFile, EnqueueOptimiseMedia
  <2>2. CASE CleanupFile(f)
    BY <1>1, <1>2, <2>1, <2>2, GotoFields, PlainStepBacked DEF CleanupFile
  <2>3. CASE EnqueueOptimiseMedia(f)
    <3>1. fin'[f].pc = "idle"
      BY <1>1, <2>3 DEF EnqueueOptimiseMedia, Finish, Idle
    <3> QED
      BY <1>2, <2>1, <3>1, PlainStepBacked
  <2> QED
    BY <1>4, <2>2, <2>3
<1>5. CASE MarkAsFailed(f)
  <2>1. fin'[f].pc = "idle"
    BY <1>1, <1>5 DEF MarkAsFailed, Finish, Idle
  <2>2. PICK n \in Medias : n = fin[f].id /\ fin[f].media = PendingRow(n)
    BY <1>1, <1>2 DEF LocalsOf, Active
  <2>3. FailedRow(f).status = "failed"
    BY <2>2 DEF FailedRow, PendingRow
  <2>4. \A m \in Medias : Completed(m)' => db'[m] = db[m]
    BY <1>1, <1>5, <2>2, <2>3, NilFacts
    DEF MarkAsFailed, RepoUpdate, UpdatedRow, Completed
  <2> QED
    BY <1>2, <2>1, <2>4, PlainStepBacked
<1>6. CASE SaveFile(f)
  <2>1. fin[f].pc = "save" /\ UNCHANGED db
    BY <1>6 DEF SaveFile
  <2>2. CASE Goto(f, "cleanup")
    BY <1>1, <1>2, <2>1, <2>2, GotoFields, PlainStepBacked
  <2>3. CASE ~Goto(f, "cleanup")
    <3>1. /\ Rewinds(f)
          /\ StoreSave(fin[f].dest, NewKey(f), SavedObject(f))
          /\ Goto(f, "unstage")
      BY <1>6, <2>3 DEF SaveFile
    <3>2. /\ fin'[f].pc = "unstage"
          /\ NewKey(f)' = NewKey(f)
          /\ fin'[f].dest = fin[f].dest
          /\ fin'[f].info = fin[f].info
      BY <1>1, <3>1, GotoFields DEF NewKey
    <3>3. SavedObject(f) # NoObject /\ SavedObject(f).type = fin[f].info.type
      BY <1>1, <2>1, <3>1, SavesItsType, NilFacts
    <3>4. store'[fin[f].dest][NewKey(f)] = SavedObject(f)
      <4>1. NewKey(f) \in Key /\ fin[f].dest \in Buckets
        BY <1>1, <2>1, NewKeyFacts
      <4> QED
        BY <1>1, <3>1, <4>1 DEF StoreSave
    <3>5. HasSaved(f)'
      BY <3>2, <3>3, <3>4 DEF HasSaved, Backs
    <3> QED
      BY <1>2, <2>1, <3>2, <3>5, BackedKept
  <2> QED
    BY <2>2, <2>3
<1>7. CASE RemoveStaged(f)
  <2>1. fin[f].pc = "unstage" /\ UNCHANGED db /\ Goto(f, "update")
    BY <1>7 DEF RemoveStaged
  <2>2. /\ fin'[f].pc = "update"
        /\ fin'[f].id = fin[f].id
        /\ fin'[f].dest = fin[f].dest
        /\ fin'[f].info = fin[f].info
    BY <1>1, <2>1, GotoFields
  <2>3. PICK n \in Medias, type \in AllowedMimeTypes, b \in Buckets :
          n = fin[f].id /\ type = fin[f].info.type /\ b = fin[f].dest
    BY <1>1, <2>1 DEF LocalsOf, IsMimeTypeAllowed
  <2>4. /\ NewKey(f) = FileKey(n, MimeTypeToExtension(type))
        /\ NewKey(f)' = NewKey(f)
    BY <2>2, <2>3 DEF NewKey
  <2>5. Backs(b, FileKey(n, MimeTypeToExtension(type)), type)
    BY <2>1, <2>3, <2>4 DEF BackedInv, HasSaved
  <2>6. Backs(b, FileKey(n, MimeTypeToExtension(type)), type)'
    BY <2>5, FilesStay
  <2>7. HasSaved(f)'
    BY <2>2, <2>3, <2>4, <2>6 DEF HasSaved, Backs
  <2> QED
    BY <1>2, <2>1, <2>2, <2>7, BackedKept
<1>8. CASE UpdateRow(f)
  <2>1. /\ fin[f].pc = "update"
        /\ RepoUpdate(fin[f].id, CompletedRow(f))
        /\ Goto(f, "enqueue")
        /\ UNCHANGED store
    BY <1>8 DEF UpdateRow
  <2>2. fin'[f].pc = "enqueue"
    BY <1>1, <2>1, GotoFields
  <2>3. PICK n \in Medias : n = fin[f].id /\ fin[f].media = PendingRow(n)
    BY <1>1, <1>2 DEF LocalsOf, Active
  <2>4. Backs(fin[f].dest, NewKey(f), fin[f].info.type)
    BY <2>1 DEF BackedInv, HasSaved
  <2>5. /\ CompletedRow(f).bucket = fin[f].dest
        /\ CompletedRow(f).key = NewKey(f)
        /\ CompletedRow(f).mime = fin[f].info.type
    BY <2>3 DEF CompletedRow, PendingRow
  <2>6. \A m \in Medias : \/ db'[m] = db[m]
                          \/ db'[m] = CompletedRow(f)
    BY <1>1, <2>1, <2>3 DEF RepoUpdate, UpdatedRow
  <2>7. \A m \in Medias : \/ db'[m] = db[m]
                          \/ Backs(db[m].bucket, db[m].key, db[m].mime)'
    BY <2>1, <2>4, <2>5, <2>6 DEF Backs
  <2>8. HasSaved(f)'
    BY <2>2 DEF HasSaved
  <2> QED
    BY <1>2, <2>2, <2>7, <2>8, BackedKept
<1>9. ~UndoSave(f)
  BY <1>2 DEF UndoSave
<1> QED
  BY <1>3, <1>4, <1>5, <1>6, <1>7, <1>8, <1>9 DEF FinaliserStep

LEMMA BackedInvInit == Init => BackedInv
<1> SUFFICES ASSUME Init PROVE BackedInv
  OBVIOUS
<1>1. \A f \in Finalisers : fin[f] = Idle("none", Nil)
  BY DEF Init
<1>2. \A m \in Medias : db[m] = NoRow
  BY DEF Init, BackendInit
<1> QED
  BY <1>1, <1>2, RowInvInit DEF BackedInv, HasSaved, Completed, Idle

LEMMA BackedInvNext ==
  ASSUME Faults \cap {"update", "update_unsure"} = {}
  PROVE  BackedInv /\ [Next]_vars => BackedInv'
<1> SUFFICES ASSUME BackedInv, [Next]_vars PROVE BackedInv'
  OBVIOUS
<1>1. RowInv'
  BY RowInvNext DEF BackedInv
<1>2. CASE UNCHANGED vars
  BY <1>1, <1>2 DEF vars, BackedInv, HasSaved, Completed, Backs, NewKey
<1>3. CASE Next
  BY <1>1, <1>3, LinkStepBacked, BeginBacked, FinaliserStepBacked
  DEF Next
<1> QED
  BY <1>2, <1>3

\* However many finalises of a media overlap, with each other and with uploads,
\* to whatever buckets, and whichever of their calls fail, a completed row names
\* a file of its type, as long as the updates of the row succeed.
THEOREM CompletedMediasAreBacked ==
  ASSUME Faults \cap {"update", "update_unsure"} = {}
  PROVE  Spec => []CompletedIsBacked
<1>1. BackedInv => CompletedIsBacked
  BY DEF BackedInv, Completed, Backs, CompletedIsBacked
<1> QED
  BY <1>1, BackedInvInit, BackedInvNext, PTL DEF Spec

-----------------------------------------------------------------------------
(* Upload implements MediaLifecycle, when clients finalise a media once at a *)
(* time: the object a completed row names is then the one that was accepted  *)

StageOf == [m \in Medias |-> Stage(m)]
ContentOf == [m \in Medias |-> Content(m)]

LEMMA StageFacts ==
  ASSUME RowInv, NEW m \in Medias
  PROVE  /\ Completed(m) <=> Stage(m) \in {"completed", "optimised"}
         /\ ~Completed(m) => Content(m) = Nil
         /\ db[m] # NoRow /\ ~Completed(m) => Stage(m) = db[m].status
<1>1. db[m] # NoRow => db[m].status \in Status
  BY DEF RowInv, TypeOK, BackendTypeOK, Row
<1>2. Completed(m) <=> Stage(m) \in {"completed", "optimised"}
  BY <1>1 DEF Completed, Stage, Status
<1>3. ~Completed(m) => Content(m) = Nil
  BY <1>2 DEF Content
<1> QED
  BY <1>1, <1>2, <1>3 DEF Completed, Stage

\* What a step leaves of media m: its row, and the objects a row may name.
Untouched(m) ==
  /\ db'[m] = db[m]
  /\ link'[m] = "unused" <=> link[m] = "unused"
  /\ Completed(m) =>
       \A b \in Buckets, k \in Key :
         k.media = m /\ k.ext # "" => store'[b][k] = store[b][k]

LEMMA UntouchedStays ==
  ASSUME RowInv, NEW m \in Medias, Untouched(m)
  PROVE  Stage(m)' = Stage(m) /\ Content(m)' = Content(m)
<1>1. Stage(m)' = Stage(m)
  BY DEF Untouched, Stage
<1>2. CASE Completed(m)
  <2> DEFINE b == db[m].bucket
             k == db[m].key
  <2>1. b \in Buckets /\ k \in Key /\ k.media = m /\ k.ext # ""
    BY <1>2, CompletedKey
  <2> HIDE DEF b, k
  <2>2. store'[b][k] = store[b][k]
    BY <1>2, <2>1 DEF Untouched
  <2> QED
    BY <1>1, <2>2 DEF Untouched, Content, b, k
<1>3. CASE ~Completed(m)
  BY <1>1, <1>3, StageFacts DEF Content
<1> QED
  BY <1>1, <1>2, <1>3

LEMMA Stutters ==
  ASSUME RowInv, \A m \in Medias : Untouched(m)
  PROVE  UNCHANGED L!vars
<1>1. \A m \in Medias : Stage(m)' = Stage(m) /\ Content(m)' = Content(m)
  BY UntouchedStays
<1>2. StageOf' = StageOf /\ ContentOf' = ContentOf
  BY <1>1 DEF StageOf, ContentOf
<1> QED
  BY <1>2 DEF L!vars, StageOf, ContentOf

LEMMA Moves ==
  ASSUME RowInv, NEW n \in Medias, \A m \in Medias \ {n} : Untouched(m)
  PROVE  /\ StageOf' = [StageOf EXCEPT ![n] = Stage(n)']
         /\ ContentOf' = [ContentOf EXCEPT ![n] = Content(n)']
<1>1. \A m \in Medias \ {n} : Stage(m)' = Stage(m) /\ Content(m)' = Content(m)
  BY UntouchedStays
<1> QED
  BY <1>1 DEF StageOf, ContentOf

LEMMA LifecycleInit == Init => L!Init
<1> SUFFICES ASSUME Init PROVE L!Init
  OBVIOUS
<1>1. ASSUME NEW m \in Medias PROVE Stage(m) = "none" /\ Content(m) = Nil
  BY DEF Init, BackendInit, Stage, Content
<1>2. /\ StageOf = [m \in Medias |-> "none"]
      /\ ContentOf = [m \in Medias |-> Nil]
  BY <1>1 DEF StageOf, ContentOf
<1> QED
  BY <1>2 DEF L!Init, StageOf, ContentOf

\* Of the stored objects only staged ones change.
LEMMA StagedIsUntouched ==
  ASSUME RowInv, NEW n \in Medias, NEW o,
         \/ UNCHANGED store
         \/ store' = [store EXCEPT ![Staging][RawKey(n)] = o]
  PROVE  \A b \in Buckets, k \in Key : k.ext # "" => store'[b][k] = store[b][k]
<1>1. RawKey(n).ext = ""
  BY DEF RawKey, FileKey
<1>2. store \in [Buckets -> [Key -> Object \cup {NoObject}]]
  BY DEF RowInv, TypeOK, BackendTypeOK
<1> QED
  BY <1>1, <1>2, BucketsAssumption

LEMMA LinkStepLives ==
  ASSUME RowInv, RowInv', NEW m \in Medias,
         \/ CreateRow(m) \/ Presign(m) \/ Expire(m)
         \/ \E o \in Uploads : Put(m, o)
  PROVE  [L!Next]_(L!vars)
<1>1. /\ db \in [Medias -> Row \cup {NoRow}]
      /\ link \in [Medias -> LinkState]
  BY DEF RowInv, TypeOK, BackendTypeOK
<1>2. CASE Presign(m) \/ Expire(m) \/ \E o \in Uploads : Put(m, o)
  <2>1. /\ db' = db
        /\ \A n \in Medias : link'[n] = "unused" <=> link[n] = "unused"
    BY <1>1, <1>2 DEF Presign, Expire, Put
  <2>2. PICK o : \/ UNCHANGED store
                 \/ store' = [store EXCEPT ![Staging][RawKey(m)] = o]
    BY <1>2 DEF Presign, Expire, Put, StoreSave
  <2>3. \A b \in Buckets, k \in Key : k.ext # "" => store'[b][k] = store[b][k]
    BY <2>2, StagedIsUntouched
  <2>4. \A n \in Medias : Untouched(n)
    BY <2>1, <2>3 DEF Untouched
  <2> QED
    BY <2>4, Stutters
<1>3. CASE CreateRow(m)
  <2>1. /\ link[m] = "unused" /\ link'[m] # "unused"
        /\ \A n \in Medias \ {m} : Untouched(n)
    BY <1>1, <1>3 DEF CreateRow, RepoCreate, Untouched
  <2>2. /\ StageOf' = [StageOf EXCEPT ![m] = Stage(m)']
        /\ ContentOf' = [ContentOf EXCEPT ![m] = Content(m)']
    BY <2>1, Moves
  <2>3. CASE db[m] = NoRow
    <3>1. Stage(m) = "none" /\ Content(m) = Nil
      BY <2>1, <2>3 DEF Stage, Content
    <3>2. \/ Stage(m)' = "pending" /\ Content(m)' = Nil
          \/ Stage(m)' = "gone" /\ Content(m)' = Nil
      <4>1. CASE RepoCreate(m, PendingRow(m))
        <5>1. db'[m] = PendingRow(m)
          BY <1>1, <4>1 DEF RepoCreate
        <5> QED
          BY <5>1, PendingRowFacts, NilFacts DEF Stage, Content
      <4>2. CASE UNCHANGED db
        BY <2>1, <2>3, <4>2 DEF Stage, Content
      <4> QED
        BY <1>3, <4>1, <4>2 DEF CreateRow
    <3>3. UNCHANGED ContentOf
      BY <2>2, <3>1, <3>2 DEF ContentOf
    <3>4. L!Register(m) \/ L!Drop(m)
      BY <2>2, <3>1, <3>2, <3>3
      DEF L!Register, L!Drop, L!Move, StageOf, ContentOf
    <3> QED
      BY <3>4 DEF L!Next
  <2>4. CASE db[m] # NoRow
    <3>1. UNCHANGED <<db, store>>
      BY <1>3, <2>4 DEF CreateRow
    <3>2. Stage(m)' = Stage(m) /\ Content(m)' = Content(m)
      BY <2>4, <3>1 DEF Stage, Content
    <3>3. UNCHANGED <<StageOf, ContentOf>>
      BY <2>2, <3>2 DEF StageOf, ContentOf
    <3> QED
      BY <3>3 DEF L!vars, StageOf, ContentOf
  <2> QED
    BY <2>3, <2>4
<1> QED
  BY <1>2, <1>3

\* Up to its own update a request finds the row as it read it.
LEMMA HeldRow ==
  ASSUME StoreInv, NEW f \in Finalisers, fin[f].pc \in Active \ {"enqueue"}
  PROVE  \E n \in Medias : /\ n = fin[f].id
                           /\ fin[f].media = PendingRow(n)
                           /\ fin[f].media.key = RawKey(n)
                           /\ db[n] = PendingRow(n)
                           /\ ~Completed(n)
                           /\ Stage(n) = "pending"
                           /\ Content(n) = Nil
<1>1. RowInv /\ LocalsOf(fin[f]) /\ HeldBy(f)
  BY DEF StoreInv, RowInv, Locals
<1>2. PICK n \in Medias : n = fin[f].id /\ fin[f].media = PendingRow(n)
  BY <1>1 DEF LocalsOf, Active
<1>3. db[n] = PendingRow(n)
  BY <1>1, <1>2 DEF HeldBy
<1>4. ~Completed(n) /\ db[n] # NoRow
  BY <1>3, PendingRowFacts, NilFacts DEF Completed
<1>5. Stage(n) = "pending" /\ Content(n) = Nil
  BY <1>1, <1>3, <1>4, StageFacts, PendingRowFacts
<1> QED
  BY <1>2, <1>3, <1>4, <1>5, PendingRowFacts

LEMMA StoreStepLives ==
  ASSUME StoreInv, NEW f \in Finalisers,
         RemoveStaged(f) \/ CleanupFile(f) \/ SaveFile(f) \/ UndoSave(f)
  PROVE  UNCHANGED L!vars
<1>1. /\ store \in [Buckets -> [Key -> Object \cup {NoObject}]]
      /\ RowInv
      /\ UNCHANGED <<db, link>>
  BY DEF StoreInv, RowInv, TypeOK, BackendTypeOK, RemoveStaged, CleanupFile,
         SaveFile, UndoSave
<1>2. PICK n \in Medias : /\ fin[f].media.key = RawKey(n)
                          /\ n = fin[f].id
                          /\ ~Completed(n)
  BY HeldRow DEF RemoveStaged, CleanupFile, SaveFile, UndoSave, Active
<1>3. CASE RemoveStaged(f) \/ CleanupFile(f)
  <2>1. \/ UNCHANGED store
        \/ store' = [store EXCEPT ![Staging][RawKey(n)] = NoObject]
    BY <1>2, <1>3 DEF RemoveStaged, CleanupFile, StoreRemove
  <2>2. \A b \in Buckets, k \in Key : k.ext # "" => store'[b][k] = store[b][k]
    BY <1>1, <2>1, StagedIsUntouched
  <2> QED
    BY <1>1, <2>2, Stutters DEF Untouched
<1>4. CASE SaveFile(f) \/ UndoSave(f)
  <2>1. NewKey(f) \in Key /\ NewKey(f).media = n /\ fin[f].dest \in Buckets
    BY <1>1, <1>2, <1>4, NewKeyFacts DEF SaveFile, UndoSave
  <2>2. PICK o : \/ UNCHANGED store
                 \/ store' = [store EXCEPT ![fin[f].dest][NewKey(f)] = o]
    BY <1>4 DEF SaveFile, UndoSave, StoreSave, StoreRemove
  <2>3. \A b \in Buckets, k \in Key : k.media # n => store'[b][k] = store[b][k]
    BY <1>1, <2>1, <2>2
  <2>4. \A m \in Medias : Untouched(m)
    BY <1>1, <1>2, <2>3 DEF Untouched
  <2> QED
    BY <1>1, <2>4, Stutters
<1> QED
  BY <1>3, <1>4

\* The accepted content is the one the request read, and has saved.
LEMMA UpdateRowLives ==
  ASSUME "update_unsure" \notin Faults, StoreInv, RowInv', NEW f \in Finalisers,
         UpdateRow(f)
  PROVE  [L!Next]_(L!vars)
<1>1. /\ db \in [Medias -> Row \cup {NoRow}]
      /\ fin[f].pc = "update"
      /\ LocalsOf(fin[f])
      /\ RowInv
      /\ UNCHANGED <<store, link>>
  BY DEF StoreInv, RowInv, TypeOK, BackendTypeOK, Locals, UpdateRow
<1>2. PICK n \in Medias : /\ n = fin[f].id
                          /\ fin[f].media = PendingRow(n)
                          /\ db[n] = PendingRow(n)
                          /\ Stage(n) = "pending"
                          /\ Content(n) = Nil
  BY <1>1, HeldRow DEF Active
<1>3. CASE UNCHANGED db
  BY <1>1, <1>3, Stutters DEF Untouched
<1>4. CASE RepoUpdate(fin[f].id, CompletedRow(f))
  <2>1. /\ \A m \in Medias \ {n} : Untouched(m)
        /\ db'[n] = CompletedRow(f)
    BY <1>1, <1>2, <1>4, PendingRowFacts, NilFacts
    DEF RepoUpdate, UpdatedRow, Untouched
  <2>2. /\ CompletedRow(f) # NoRow
        /\ CompletedRow(f).status = "completed"
        /\ CompletedRow(f).bucket = fin[f].dest
        /\ CompletedRow(f).key = NewKey(f)
    <3>1. fin[f] \in FinaliserState
      BY DEF StoreInv, RowInv, TypeOK
    <3>2. CompletedRow(f) \in Row /\ CompletedRow(f).status = "completed"
      BY <1>1, <3>1, CompletedRowFacts
    <3> QED
      BY <1>2, <3>2, NilFacts DEF CompletedRow, PendingRow
  <2>3. CompletedRow(f).optimised = FALSE
    BY <1>2 DEF CompletedRow, PendingRow
  <2>4. Stage(n)' = "completed"
    BY <2>1, <2>2, <2>3 DEF Stage
  <2>5. PICK blob \in Blobs : /\ store[fin[f].dest][NewKey(f)].blob = blob
                              /\ store[fin[f].dest][NewKey(f)] # NoObject
    <3>1. store[fin[f].dest][NewKey(f)] =
            [type |-> fin[f].info.type, blob |-> fin[f].meta]
      BY <1>1 DEF StoreInv, HeldBy
    <3>2. fin[f].meta \in Blobs /\ fin[f].info.type \in MimeTypes
      BY <1>1 DEF LocalsOf, Info
    <3>3. [type |-> fin[f].info.type, blob |-> fin[f].meta] \in Object
      BY <3>2 DEF Object
    <3> QED
      BY <3>1, <3>2, <3>3, NilFacts
  <2>6. Content(n)' = Origin[blob] /\ Origin[blob] \in Blobs
    BY <1>1, <2>1, <2>2, <2>4, <2>5, BlobsAssumption DEF Content
  <2>7. /\ StageOf' = [StageOf EXCEPT ![n] = "completed"]
        /\ ContentOf' = [ContentOf EXCEPT ![n] = Origin[blob]]
    BY <1>1, <2>1, <2>4, <2>6, Moves
  <2>8. StageOf[n] = "pending"
    BY <1>2 DEF StageOf
  <2>9. L!Accept(n)
    BY <2>6, <2>7, <2>8 DEF L!Accept, L!Move, StageOf, ContentOf
  <2> QED
    BY <2>9 DEF L!Next
<1> QED
  BY <1>2, <1>3, <1>4 DEF UpdateRow

LEMMA MarkAsFailedLives ==
  ASSUME StoreInv, RowInv', NEW f \in Finalisers, MarkAsFailed(f)
  PROVE  [L!Next]_(L!vars)
<1>1. /\ db \in [Medias -> Row \cup {NoRow}]
      /\ fin[f].pc = "mark"
      /\ RowInv
      /\ UNCHANGED <<store, link>>
  BY DEF StoreInv, RowInv, TypeOK, BackendTypeOK, MarkAsFailed
<1>2. PICK n \in Medias : /\ n = fin[f].id
                          /\ fin[f].media = PendingRow(n)
                          /\ db[n] = PendingRow(n)
                          /\ Stage(n) = "pending"
                          /\ Content(n) = Nil
  BY <1>1, HeldRow DEF Active
<1>3. CASE UNCHANGED db
  BY <1>1, <1>3, Stutters DEF Untouched
<1>4. CASE RepoUpdate(fin[f].id, FailedRow(f))
  <2>1. /\ \A m \in Medias \ {n} : Untouched(m)
        /\ db'[n] = FailedRow(f)
    BY <1>1, <1>2, <1>4, PendingRowFacts, NilFacts
    DEF RepoUpdate, UpdatedRow, Untouched
  <2>2. FailedRow(f) # NoRow
    <3>1. LocalsOf(fin[f])
      BY <1>1 DEF RowInv, Locals
    <3> QED
      BY <1>1, <3>1, FailedRowFacts, NilFacts
  <2>3. FailedRow(f).status = "failed"
    BY <1>2 DEF FailedRow, PendingRow
  <2>4. Stage(n)' = "failed" /\ Content(n)' = Nil
    BY <2>1, <2>2, <2>3 DEF Stage, Content
  <2>5. StageOf[n] = "pending" /\ ContentOf[n] = Nil
    BY <1>2 DEF StageOf, ContentOf
  <2>6. /\ StageOf' = [StageOf EXCEPT ![n] = "failed"]
        /\ ContentOf' = ContentOf
    BY <1>1, <2>1, <2>4, <2>5, Moves DEF ContentOf
  <2>7. L!Refuse(n)
    BY <2>5, <2>6 DEF L!Refuse, L!Move, StageOf, ContentOf
  <2> QED
    BY <2>7 DEF L!Next
<1> QED
  BY <1>2, <1>3, <1>4 DEF MarkAsFailed

LEMMA LifecycleNext ==
  ASSUME "update_unsure" \notin Faults, StoreInv, StoreInv', [Next]_vars
  PROVE  [L!Next]_(L!vars)
<1>1. RowInv /\ RowInv'
  BY DEF StoreInv
<1>2. CASE UNCHANGED <<db, store, link>>
  BY <1>1, <1>2, Stutters DEF Untouched
<1>3. ASSUME NEW m \in Medias,
             CreateRow(m) \/ Presign(m) \/ Expire(m) \/ \E o \in Uploads : Put(m, o)
      PROVE  [L!Next]_(L!vars)
  BY <1>1, <1>3, LinkStepLives
<1>4. ASSUME NEW f \in Finalisers, FinaliserStep(f) PROVE [L!Next]_(L!vars)
  <2>1. CASE StatFile(f) \/ ReadMetadata(f) \/ EnqueueOptimiseMedia(f)
    BY <1>2, <2>1 DEF StatFile, ReadMetadata, EnqueueOptimiseMedia
  <2> QED
    BY <1>1, <1>4, <2>1, StoreStepLives, UpdateRowLives, MarkAsFailedLives
    DEF FinaliserStep
<1>5. ASSUME NEW f \in Finalisers,
             \/ \E m \in Medias, b \in Buckets : BeginFinalise(f, m, b)
             \/ \E m \in Medias : ReplyAtOnce(f, m)
             \/ Crash(f)
      PROVE  [L!Next]_(L!vars)
  BY <1>2, <1>5 DEF BeginFinalise, ReplyAtOnce, Crash
<1>6. CASE UNCHANGED vars
  BY <1>2, <1>6 DEF vars
<1> QED
  BY <1>3, <1>4, <1>5, <1>6 DEF Next

\* Every media is accepted or refused once, and what is stored for it from then
\* on is the content it was accepted with, for any number of uploads and of
\* requests, whatever fails and whenever a process dies.
THEOREM UploadsKeepLifecycle ==
  ASSUME ExclusiveFinalise, "update_unsure" \notin Faults
  PROVE  Spec => KeepsLifecycle
<1>1. Init => L!Init
  BY LifecycleInit
<1>2. StoreInv /\ StoreInv' /\ [Next]_vars => [L!Next]_(L!vars)
  BY LifecycleNext
<1>3. Spec => L!Spec
  BY <1>1, <1>2, StoreInvInit, StoreInvNext, PTL DEF Spec, L!Spec
<1> QED
  BY <1>3 DEF KeepsLifecycle
=============================================================================
