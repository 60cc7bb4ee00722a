---------------------------- MODULE ServiceProofs ----------------------------
(***************************************************************************)
(* Theorems about Service, for any medias, contents, configured widths,    *)
(* lifetimes and faults, and any number of workers and requests.           *)
(***************************************************************************)
EXTENDS Service, TLAPS

-----------------------------------------------------------------------------
(* What holds whatever fails and overlaps *)

\* A row of m, in the table or in the hands of a task.
RowOf(m, row) ==
  /\ row \in Row
  /\ row.mime \in AllowedMimeTypes
  /\ row.meta \in Blobs
  /\ row.key = FileKey(m, MimeTypeToExtension(row.mime))
  /\ \A i \in 1..Len(row.variants) : row.variants[i].key.media = m

\* What a worker knows, at each program counter.
TaskLocal(s) ==
  s.pc # "idle" =>
    /\ s.task \in Task
    /\ RowOf(s.task.media, s.media)
    /\ s.pc \in {"save_temp", "save_variant"} => s.blob # Nil
    /\ s.pc \in {"variant", "save_variant", "stat_variant"} =>
         s.i \in 1..Len(P!TargetWidths)

\* An entry of the cache expires before its links do.
Valid(e) == e # Nil => ~Expired(e)

\* What a reader holds was valid when it was last looked at.
ReaderLocal(s) ==
  /\ s.pc # "idle" => s.id \in Medias
  /\ s.pc = "render" => s.media # Nil
  /\ s.raw # Nil => s.raw.life >= Margin
  /\ s.etag # Nil => s.etag.life >= Margin
  /\ s.pc \in {"fill", "fill_etag"} =>
       s.raw # Nil /\ s.etag = s.raw /\ ~Expired(s.raw)
  /\ s.pc = "reply" => s.raw # Nil /\ s.etag # Nil

DeleterLocal(s, rows) ==
  /\ s.pc # "idle" => s.id \in Medias /\ RowOf(s.id, s.media)
  /\ s.pc = "variants" => s.i # 0
  /\ s.answer # "none" => s.id \in Medias
  /\ s.answer = "ok" \/ s.pc \in {"uncache", "uncache_etag"} => rows[s.id] = NoRow

RowsOK ==
  /\ db \in [Medias -> Row \cup {NoRow}]
  /\ \A m \in Medias : db[m] # NoRow => RowOf(m, db[m])

FilesOK == store \in [Buckets -> [Key -> Object \cup {NoObject}]]

QueueOK ==
  /\ tasks \in [Task -> Nat]
  /\ backlog \in P!BacklogState
  /\ crashes \in 0..MaxCrashes
  /\ backlogs \in 0..MaxBacklogs

WorkersOK ==
  /\ wk \in [Workers -> P!WorkerState]
  /\ \A w \in Workers : TaskLocal(wk[w])

CacheOK ==
  /\ CacheTypeOK
  /\ \A m \in Medias : Valid(details[m]) /\ Valid(etags[m])

ReadersOK ==
  /\ get \in [Readers -> ReaderState]
  /\ \A r \in Readers : ReaderLocal(get[r])

DeletersOK ==
  /\ del \in [Deleters -> DeleterState]
  /\ \A d \in Deleters : DeleterLocal(del[d], db)
  /\ failed \subseteq Medias

IInv ==
  /\ RowsOK /\ FilesOK /\ QueueOK /\ WorkersOK
  /\ CacheOK /\ ReadersOK /\ DeletersOK

\* The type and key an optimise task gives its row.
NewMime(row) == IF IsImage(row.mime) THEN "image/webp" ELSE row.mime

NewKeyOf(m, row) ==
  IF NewMime(row) = row.mime THEN row.key
  ELSE FileKey(m, MimeTypeToExtension(NewMime(row)))

TempOf(m, row) == TempKey(m, NewKeyOf(m, row).ext)

-----------------------------------------------------------------------------
(* Facts about the data *)

LEMMA NilFacts ==
  /\ NoRow \notin Row /\ NoObject \notin Object
  /\ Nil \notin Row /\ Nil \notin Blobs /\ Nil \notin Rendering
  BY NilAssumption, CacheAssumption

LEMMA MimeFacts ==
  ASSUME NEW mime \in AllowedMimeTypes
  PROVE  /\ MimeTypeToExtension(mime) \in Extensions
         /\ mime \in MimeTypes
  BY DEF AllowedMimeTypes, MimeTypeToExtension, Extensions, MimeTypes

LEMMA WebpFacts ==
  /\ "image/webp" \in AllowedMimeTypes
  /\ MimeTypeToExtension("image/webp") = ".webp"
  BY DEF AllowedMimeTypes, MimeTypeToExtension

LEMMA FileKeyFacts ==
  ASSUME NEW m \in Medias, NEW e \in Extensions
  PROVE  /\ FileKey(m, e) \in Key
         /\ FileKey(m, e).media = m
         /\ FileKey(m, e).kind = "file"
         /\ FileKey(m, e).ext = e
  BY DEF FileKey, Key

LEMMA TempKeyFacts ==
  ASSUME NEW m \in Medias, NEW e \in Extensions
  PROVE  /\ TempKey(m, e) \in Key
         /\ TempKey(m, e).media = m
         /\ TempKey(m, e).kind = "temp"
  BY DEF TempKey, Key

LEMMA VariantKeyFacts ==
  ASSUME NEW m \in Medias, NEW w \in Widths
  PROVE  /\ VariantKey(m, w) \in Key
         /\ VariantKey(m, w).media = m
         /\ VariantKey(m, w).kind = "variant"
  BY DEF VariantKey, Key

LEMMA TargetFacts ==
  ASSUME NEW i \in 1..Len(P!TargetWidths)
  PROVE  /\ P!TargetWidths[i] \in Widths
         /\ P!TargetWidths[i] \in Nat
         /\ P!TargetWidths[i] > 0
<1>1. P!TargetWidths \in Seq(Widths)
  BY TasksAssumption DEF P!PipelineAssumption
<1>2. PICK ws \in Seq(Widths) : ws = P!TargetWidths
  BY <1>1
<1>3. i \in 1..Len(ws)
  BY <1>2
<1>4. PICK t \in Widths : t = ws[i]
  BY <1>3
<1>5. t \in Nat /\ t > 0
  BY SizesAssumption
<1> QED
  BY <1>2, <1>4, <1>5

LEMMA WidthsAreFinite == Len(P!TargetWidths) \in Nat
  BY TasksAssumption DEF P!PipelineAssumption

\* Cutting the fraction off loses less than a pixel.
LEMMA DivFacts ==
  ASSUME NEW a \in Nat, NEW c \in Nat \ {0}
  PROVE  /\ a \div c \in Nat
         /\ a >= c => a \div c > 0
  BY Z3

LEMMA RowOfFacts ==
  ASSUME NEW m \in Medias, NEW row, RowOf(m, row)
  PROVE  /\ row \in Row
         /\ row.bucket \in Buckets
         /\ row.key \in Key /\ row.key.media = m /\ row.key.kind = "file"
         /\ row.mime \in AllowedMimeTypes
         /\ row.meta \in Blobs
         /\ row.variants \in Seq(Variant)
         /\ row.size \in Nat \cup {Nil}
         /\ \A i \in 1..Len(row.variants) : /\ row.variants[i] \in Variant
                                            /\ row.variants[i].key \in Key
                                            /\ row.variants[i].key.media = m
<1>1. row \in Row /\ row.key = FileKey(m, MimeTypeToExtension(row.mime))
      /\ row.mime \in AllowedMimeTypes /\ row.meta \in Blobs
  BY DEF RowOf
<1>2. row.bucket \in Buckets /\ row.variants \in Seq(Variant)
      /\ row.size \in Nat \cup {Nil}
  BY <1>1 DEF Row
<1>3. ASSUME NEW i \in 1..Len(row.variants)
      PROVE  row.variants[i] \in Variant /\ row.variants[i].key \in Key
             /\ row.variants[i].key.media = m
  <2>1. row.variants[i] \in Variant
    BY <1>2
  <2> QED
    BY <2>1 DEF Variant, RowOf
<1> QED
  BY <1>1, <1>2, <1>3, MimeFacts, FileKeyFacts

\* A row of m with other variants, size or status is one.
LEMMA NewRowFacts ==
  ASSUME NEW m \in Medias, NEW row, RowOf(m, row)
  PROVE  /\ NewMime(row) \in AllowedMimeTypes
         /\ NewKeyOf(m, row) = FileKey(m, MimeTypeToExtension(NewMime(row)))
         /\ NewKeyOf(m, row) \in Key
         /\ NewKeyOf(m, row).media = m
         /\ NewKeyOf(m, row).kind = "file"
         /\ NewKeyOf(m, row).ext \in Extensions
         /\ TempOf(m, row) \in Key
         /\ TempOf(m, row).media = m
         /\ TempOf(m, row).kind = "temp"
<1>1. row.mime \in AllowedMimeTypes
      /\ row.key = FileKey(m, MimeTypeToExtension(row.mime))
  BY DEF RowOf
<1>2. NewMime(row) \in AllowedMimeTypes
  BY <1>1, WebpFacts DEF NewMime
<1>3. NewKeyOf(m, row) = FileKey(m, MimeTypeToExtension(NewMime(row)))
  BY <1>1 DEF NewKeyOf
<1>4. MimeTypeToExtension(NewMime(row)) \in Extensions
  BY <1>2, MimeFacts
<1>5. /\ NewKeyOf(m, row) \in Key
      /\ NewKeyOf(m, row).media = m
      /\ NewKeyOf(m, row).kind = "file"
      /\ NewKeyOf(m, row).ext \in Extensions
  BY <1>3, <1>4, FileKeyFacts
<1>6. /\ TempOf(m, row) \in Key
      /\ TempOf(m, row).media = m
      /\ TempOf(m, row).kind = "temp"
  BY <1>5, TempKeyFacts DEF TempOf
<1> QED
  BY <1>2, <1>3, <1>5, <1>6

-----------------------------------------------------------------------------
(* Calls, whoever makes them *)

\* No row comes back.
Gone == \A m \in Medias : db[m] = NoRow => db'[m] = NoRow

LEMMA SaveType ==
  ASSUME FilesOK, NEW b, NEW k, NEW o \in Object,
         StoreSave(b, k, o) \/ StoreRemove(b, k) \/ UNCHANGED store
  PROVE  FilesOK'
  BY DEF FilesOK, StoreSave, StoreRemove

LEMMA UpdateType ==
  ASSUME RowsOK, NEW m \in Medias, NEW row, RowOf(m, row), RepoUpdate(m, row)
  PROVE  RowsOK' /\ Gone
<1>1. row \in Row
  BY DEF RowOf
<1>2. \A n \in Medias : db'[n] = IF n = m THEN UpdatedRow(db[m], row) ELSE db[n]
  BY DEF RepoUpdate, RowsOK
<1>3. db' \in [Medias -> Row \cup {NoRow}]
  BY <1>1 DEF RepoUpdate, RowsOK, UpdatedRow
<1>4. \A n \in Medias : db'[n] # NoRow => RowOf(n, db'[n])
  BY <1>2 DEF RowsOK, UpdatedRow
<1> QED
  BY <1>2, <1>3, <1>4 DEF RowsOK, UpdatedRow, Gone

LEMMA DeleteType ==
  ASSUME RowsOK, NEW m \in Medias, RepoDelete(m)
  PROVE  RowsOK' /\ Gone /\ db'[m] = NoRow
  BY DEF RowsOK, RepoDelete, Gone

LEMMA RowsStay ==
  ASSUME RowsOK, UNCHANGED db
  PROVE  RowsOK' /\ Gone
  BY DEF RowsOK, Gone

LEMMA CacheStays ==
  ASSUME CacheOK, UNCHANGED <<details, etags>>
  PROVE  CacheOK'
  BY DEF CacheOK, CacheTypeOK

LEMMA DropDetails ==
  ASSUME CacheOK, NEW m \in Medias,
         \/ DeleteMediaDetails(m) /\ UNCHANGED etags
         \/ DeleteEtagMediaDetails(m) /\ UNCHANGED details
         \/ UNCHANGED <<details, etags>>
  PROVE  CacheOK'
  BY DEF CacheOK, CacheTypeOK, DeleteMediaDetails, DeleteEtagMediaDetails, Valid

LEMMA QueueStays ==
  ASSUME QueueOK, NEW t \in Task,
         tasks' = [tasks EXCEPT ![t] = @ + 1] \/ UNCHANGED tasks,
         UNCHANGED <<backlog, crashes, backlogs>>
  PROVE  QueueOK'
  BY DEF QueueOK

-----------------------------------------------------------------------------
(* The steps of a worker *)

TasksInv == RowsOK /\ FilesOK /\ QueueOK /\ WorkersOK /\ CacheOK

\* The operators of Pipeline are those of the modules it shares with Service.
LEMMA SameData ==
  /\ P!Task = Task
  /\ P!Row = Row
<1>1. P!Task = Task
  BY DEF P!Task, Task, P!TaskKinds, TaskKinds
<1>2. P!Key = Key
  BY DEF P!Key, Key, P!Extensions, Extensions
<1>3. P!Variant = Variant
  BY <1>2 DEF P!Variant, Variant
<1>4. P!Row = Row
  BY <1>2, <1>3 DEF P!Row, Row, P!AllowedMimeTypes, AllowedMimeTypes, P!Status, Status
<1> QED
  BY <1>1, <1>4

LEMMA WorkerStateIs ==
  P!WorkerState =
    [pc : P!Busy \cup {"idle"}, task : Task \cup {Nil}, media : Row \cup {Nil},
     blob : Blobs \cup {Nil}, size : Nat \cup {Nil}, i : Nat]
  BY SameData DEF P!WorkerState

LEMMA AtWork ==
  ASSUME WorkersOK, NEW w \in Workers, wk[w].pc # "idle"
  PROVE  /\ wk[w] \in P!WorkerState
         /\ TaskLocal(wk[w])
         /\ wk[w].task \in Task
         /\ wk[w].task.media \in Medias
         /\ P!Media(w) = wk[w].task.media
         /\ RowOf(wk[w].task.media, wk[w].media)
         /\ P!NewMimeType(w) = NewMime(wk[w].media)
         /\ P!NewKey(w) = NewKeyOf(wk[w].task.media, wk[w].media)
         /\ P!Temp(w) = TempOf(wk[w].task.media, wk[w].media)
<1>1. wk[w] \in P!WorkerState /\ TaskLocal(wk[w])
  BY DEF WorkersOK
<1>2. wk[w].task \in Task /\ RowOf(wk[w].task.media, wk[w].media)
  BY <1>1 DEF TaskLocal
<1>3. wk[w].task.media \in Medias
  BY <1>2 DEF Task
<1>4. P!Media(w) = wk[w].task.media
  BY DEF P!Media
<1>5. P!NewMimeType(w) = NewMime(wk[w].media)
  BY DEF P!NewMimeType, NewMime, P!IsImage, IsImage
<1>6. P!NewKey(w) = NewKeyOf(wk[w].task.media, wk[w].media)
  BY <1>4, <1>5 DEF P!NewKey, NewKeyOf, P!FileKey, FileKey,
     P!MimeTypeToExtension, MimeTypeToExtension
<1>7. P!Temp(w) = TempOf(wk[w].task.media, wk[w].media)
  BY <1>4, <1>6 DEF P!Temp, TempOf, P!TempKey, TempKey
<1> QED
  BY <1>1, <1>2, <1>3, <1>4, <1>5, <1>6, <1>7

LEMMA WorkerMoves ==
  ASSUME WorkersOK, NEW w \in Workers, NEW s \in P!WorkerState, TaskLocal(s),
         wk' = [wk EXCEPT ![w] = s]
  PROVE  WorkersOK'
<1>1. wk' \in [Workers -> P!WorkerState]
  BY DEF WorkersOK
<1>2. \A v \in Workers : wk'[v] = IF v = w THEN s ELSE wk[v]
  BY DEF WorkersOK
<1> QED
  BY <1>1, <1>2 DEF WorkersOK

LEMMA IdleFacts == P!IdleWorker \in P!WorkerState /\ TaskLocal(P!IdleWorker)
  BY DEF P!IdleWorker, P!WorkerState, TaskLocal

\* A worker goes on to its next call with the locals it has.
LEMMA GotoStep ==
  ASSUME WorkersOK, NEW w \in Workers, wk[w].pc # "idle", NEW pc \in P!Busy,
         P!Goto(w, pc),
         pc \in {"save_temp", "save_variant"} => wk[w].blob # Nil,
         pc \in {"variant", "save_variant", "stat_variant"} =>
           wk[w].i \in 1..Len(P!TargetWidths)
  PROVE  WorkersOK'
<1> DEFINE s == [wk[w] EXCEPT !.pc = pc]
<1>1. wk' = [wk EXCEPT ![w] = s]
  BY DEF P!Goto, WorkersOK
<1>2. wk[w] \in P!WorkerState /\ TaskLocal(wk[w])
  BY AtWork
<1>3. s \in P!WorkerState
  BY <1>2 DEF P!WorkerState
<1>4. /\ s.pc = pc /\ s.task = wk[w].task /\ s.media = wk[w].media
      /\ s.blob = wk[w].blob /\ s.i = wk[w].i
  BY <1>2 DEF P!WorkerState
<1> HIDE DEF s
<1>5. TaskLocal(s)
  BY <1>2, <1>4 DEF TaskLocal
<1> QED
  BY <1>1, <1>3, <1>5, WorkerMoves

LEMMA FailStep ==
  ASSUME WorkersOK, QueueOK, NEW w \in Workers, wk[w].pc # "idle", P!Fail(w),
         UNCHANGED <<backlog, crashes, backlogs>>
  PROVE  WorkersOK' /\ QueueOK'
<1>1. wk[w].task \in Task
  BY AtWork
<1>2. WorkersOK'
  BY IdleFacts, WorkerMoves DEF P!Fail
<1>3. QueueOK'
  BY <1>1, QueueStays DEF P!Fail, P!Requeue
<1> QED
  BY <1>2, <1>3

LEMMA StartStep ==
  ASSUME TasksInv, NEW w \in Workers, NEW t \in Task, P!Start(w, t)
  PROVE  TasksInv' /\ Gone
<1> USE DEF TasksInv
<1>1. UNCHANGED <<db, store, details, etags, backlog, crashes, backlogs>>
  BY DEF P!Start
<1>2. RowsOK' /\ Gone /\ FilesOK' /\ CacheOK'
  BY <1>1, RowsStay, CacheStays DEF FilesOK
<1>3. QueueOK'
  <2>1. tasks[t] \in Nat /\ tasks[t] > 0
    BY DEF QueueOK, P!Start
  <2>2. tasks' = [tasks EXCEPT ![t] = @ - 1] \/ UNCHANGED tasks
    BY DEF P!Start
  <2> QED
    BY <1>1, <2>1, <2>2 DEF QueueOK
<1>4. WorkersOK'
  <2>1. CASE UNCHANGED wk
    BY <2>1 DEF WorkersOK
  <2>2. CASE /\ P!Startable(t)
             /\ wk' = [wk EXCEPT ![w] = [P!IdleWorker EXCEPT
                   !.pc = P!FirstPC(t), !.task = t, !.media = db[t.media],
                   !.i = 1]]
    <3> DEFINE s == [P!IdleWorker EXCEPT
                   !.pc = P!FirstPC(t), !.task = t, !.media = db[t.media], !.i = 1]
    <3>1. wk' = [wk EXCEPT ![w] = s]
      BY <2>2
    <3>2. /\ s.pc = P!FirstPC(t) /\ s.task = t /\ s.media = db[t.media]
          /\ s.i = 1
      BY DEF P!IdleWorker
    <3>3. t.media \in Medias
      BY DEF Task
    <3>4. RowOf(t.media, db[t.media]) /\ db[t.media] \in Row
      BY <2>2, <3>3 DEF P!Startable, RowsOK, RowOf
    <3>5. P!FirstPC(t) \in {"open", "update_variants", "variant"}
          /\ (P!FirstPC(t) = "variant" => P!TargetWidths # <<>>)
      BY DEF P!FirstPC
    <3>6. P!FirstPC(t) = "variant" => 1 \in 1..Len(P!TargetWidths)
      <4>1. P!TargetWidths \in Seq(Widths)
        BY TasksAssumption DEF P!PipelineAssumption
      <4> QED
        BY <3>5, <4>1
    <3>7. s \in P!WorkerState
      BY <3>4, <3>5, WorkerStateIs
      DEF P!IdleWorker, P!Busy, P!OptimisePC, P!ResizePC
    <3> HIDE DEF s
    <3>8. TaskLocal(s)
      BY <3>2, <3>4, <3>5, <3>6 DEF TaskLocal
    <3> QED
      BY <3>1, <3>7, <3>8, WorkerMoves
  <2> QED
    BY <2>1, <2>2 DEF P!Start
<1> QED
  BY <1>2, <1>3, <1>4

LEMMA CrashStep ==
  ASSUME TasksInv, NEW w \in Workers, P!Crash(w)
  PROVE  TasksInv' /\ Gone
<1> USE DEF TasksInv
<1>1. UNCHANGED <<db, store, details, etags, backlog, backlogs>>
      /\ wk[w].pc # "idle"
  BY DEF P!Crash
<1>2. RowsOK' /\ Gone /\ FilesOK' /\ CacheOK'
  BY <1>1, RowsStay, CacheStays DEF FilesOK
<1>3. WorkersOK'
  BY IdleFacts, WorkerMoves DEF P!Crash
<1>4. wk[w].task \in Task
  BY <1>1, AtWork
<1>5. crashes' \in 0..MaxCrashes
  BY TasksAssumption DEF P!PipelineAssumption, P!Crash, QueueOK
<1>6. tasks' \in [Task -> Nat]
  BY <1>4 DEF P!Crash, P!Requeue, QueueOK
<1> QED
  BY <1>1, <1>2, <1>3, <1>5, <1>6 DEF QueueOK

\* A call on the storage or the queue, after which the worker goes on or fails.
LEMMA StoreCall ==
  ASSUME TasksInv, NEW w \in Workers, wk[w].pc # "idle",
         UNCHANGED <<db, details, etags, backlog, crashes, backlogs>>,
         FilesOK',
         \/ P!Fail(w)
         \/ WorkersOK' /\ (UNCHANGED tasks \/
              \E t \in Task : tasks' = [tasks EXCEPT ![t] = @ + 1])
  PROVE  TasksInv' /\ Gone
<1> USE DEF TasksInv
<1>1. RowsOK' /\ Gone /\ CacheOK'
  BY RowsStay, CacheStays
<1>2. wk[w].task \in Task
  BY AtWork
<1>3. WorkersOK' /\ QueueOK'
  <2>1. CASE P!Fail(w)
    BY <2>1, FailStep
  <2>2. CASE WorkersOK' /\ UNCHANGED tasks
    BY <1>2, <2>2, QueueStays
  <2>3. CASE WorkersOK' /\ \E t \in Task : tasks' = [tasks EXCEPT ![t] = @ + 1]
    BY <2>3, QueueStays
  <2> QED
    BY <2>1, <2>2, <2>3
<1> QED
  BY <1>1, <1>3

\* What a task finds in the storage.
LEMMA HereFacts ==
  ASSUME FilesOK, WorkersOK, NEW w \in Workers, wk[w].pc # "idle", NEW k \in Key
  PROVE  /\ P!Here(w, k) = store[wk[w].media.bucket][k]
         /\ P!Here(w, k) # NoObject =>
              P!Here(w, k) \in Object /\ P!Here(w, k).blob \in Blobs
         /\ P!Original(w) = store[wk[w].media.bucket][wk[w].media.key]
         /\ P!Original(w) # NoObject =>
              P!Original(w) \in Object /\ P!Original(w).blob \in Blobs
<1>1. wk[w].media.bucket \in Buckets /\ wk[w].media.key \in Key
  BY AtWork, RowOfFacts
<1>2. P!Here(w, k) = store[wk[w].media.bucket][k]
      /\ P!Original(w) = store[wk[w].media.bucket][wk[w].media.key]
  BY DEF P!Here, P!Original
<1> QED
  BY <1>1, <1>2 DEF FilesOK, Object

\* A worker notes what it read.
LEMMA NoteStep ==
  ASSUME WorkersOK, NEW w \in Workers, wk[w].pc # "idle", NEW s \in P!WorkerState,
         wk' = [wk EXCEPT ![w] = s],
         s.task = wk[w].task, s.media = wk[w].media, s.i = wk[w].i,
         s.pc \in {"save_temp", "save_variant"} => s.blob # Nil,
         s.pc \in {"variant", "save_variant", "stat_variant"} =>
           s.i \in 1..Len(P!TargetWidths)
  PROVE  WorkersOK'
<1>1. TaskLocal(wk[w])
  BY AtWork
<1>2. TaskLocal(s)
  BY <1>1 DEF TaskLocal
<1> QED
  BY <1>2, WorkerMoves

LEMMA PcFacts ==
  {"open", "save_temp", "copy_temp", "remove_temp", "remove_old", "stat", "update",
   "enqueue", "variant", "save_variant", "stat_variant", "update_variants",
   "uncache", "uncache_etag"} \subseteq P!Busy
  BY DEF P!Busy, P!OptimisePC, P!ResizePC, P!UncachePC

LEMMA OpenOriginalStep ==
  ASSUME TasksInv, NEW w \in Workers, P!OpenOriginal(w)
  PROVE  TasksInv' /\ Gone
<1> USE DEF TasksInv
<1>1. wk[w].pc # "idle"
      /\ UNCHANGED <<db, store, details, etags, backlog, crashes, backlogs>>
  BY DEF P!OpenOriginal
<1>2. FilesOK'
  BY <1>1 DEF FilesOK
<1>3. CASE P!Fail(w)
  BY <1>1, <1>2, <1>3, StoreCall
<1>4. CASE /\ P!Original(w) # NoObject
           /\ wk' = [wk EXCEPT ![w].pc = "save_temp",
                               ![w].blob = P!Original(w).blob]
           /\ UNCHANGED tasks
  <2>1. wk[w].media.key \in Key
    BY <1>1, AtWork, RowOfFacts
  <2>2. P!Original(w).blob \in Blobs
    BY <1>1, <1>4, <2>1, HereFacts
  <2>3. PICK b \in Blobs : b = P!Original(w).blob
    BY <2>2
  <2>4. wk[w] \in P!WorkerState
    BY <1>1, AtWork
  <2> DEFINE s == [wk[w] EXCEPT !.pc = "save_temp", !.blob = b]
  <2>5. wk' = [wk EXCEPT ![w] = s]
    BY <1>4, <2>3, <2>4, WorkerStateIs DEF WorkersOK
  <2>6. s \in P!WorkerState
    BY <2>4, WorkerStateIs, PcFacts
  <2>7. /\ s.pc = "save_temp" /\ s.blob = b /\ s.task = wk[w].task
        /\ s.media = wk[w].media /\ s.i = wk[w].i
    BY <2>4, WorkerStateIs
  <2> HIDE DEF s
  <2>8. WorkersOK'
    BY <1>1, <2>5, <2>6, <2>7, NoteStep, NilFacts
  <2> QED
    BY <1>1, <1>2, <1>4, <2>8, StoreCall
<1> QED
  BY <1>3, <1>4 DEF P!OpenOriginal

LEMMA SaveTempStep ==
  ASSUME TasksInv, NEW w \in Workers, P!SaveTemp(w)
  PROVE  TasksInv' /\ Gone
<1> USE DEF TasksInv
<1>1. wk[w].pc = "save_temp" /\ wk[w].pc # "idle"
      /\ UNCHANGED <<db, details, etags, backlog, crashes, backlogs>>
  BY DEF P!SaveTemp
<1>2. CASE P!Fail(w) /\ UNCHANGED store
  <2>1. FilesOK'
    BY <1>2 DEF FilesOK
  <2> QED
    BY <1>1, <1>2, <2>1, StoreCall
<1>3. CASE /\ P!StoreSave(wk[w].media.bucket, P!Temp(w),
                [type |-> P!NewMimeType(w), blob |-> Packed[wk[w].blob]])
           /\ P!Goto(w, "copy_temp")
           /\ UNCHANGED tasks
  <2>1. wk[w].blob \in Blobs
    BY <1>1, AtWork, WorkerStateIs DEF TaskLocal
  <2>2. P!NewMimeType(w) \in MimeTypes
    BY <1>1, AtWork, NewRowFacts, MimeFacts
  <2>3. PICK o \in Object :
           o = [type |-> P!NewMimeType(w), blob |-> Packed[wk[w].blob]]
    BY <2>1, <2>2, TasksAssumption DEF P!PipelineAssumption, Object
  <2>4. StoreSave(wk[w].media.bucket, P!Temp(w), o)
    BY <1>3, <2>3 DEF P!StoreSave, StoreSave
  <2>5. FilesOK'
    BY <2>4, SaveType
  <2>6. WorkersOK'
    BY <1>1, <1>3, GotoStep, PcFacts
  <2> QED
    BY <1>1, <1>3, <2>5, <2>6, StoreCall
<1> QED
  BY <1>2, <1>3 DEF P!SaveTemp

LEMMA CopyTempStep ==
  ASSUME TasksInv, NEW w \in Workers, P!CopyTemp(w)
  PROVE  TasksInv' /\ Gone
<1> USE DEF TasksInv
<1>1. wk[w].pc = "copy_temp" /\ wk[w].pc # "idle"
      /\ UNCHANGED <<db, details, etags, backlog, crashes, backlogs>>
  BY DEF P!CopyTemp
<1>2. CASE P!Fail(w) /\ UNCHANGED store
  <2>1. FilesOK'
    BY <1>2 DEF FilesOK
  <2> QED
    BY <1>1, <1>2, <2>1, StoreCall
<1>3. CASE /\ P!Here(w, P!Temp(w)) # NoObject
           /\ P!StoreSave(wk[w].media.bucket, P!NewKey(w), P!Here(w, P!Temp(w)))
           /\ P!Goto(w, "remove_temp")
           /\ UNCHANGED tasks
  <2>1. P!Temp(w) \in Key
    BY <1>1, AtWork, NewRowFacts
  <2>2. PICK o \in Object : o = P!Here(w, P!Temp(w))
    BY <1>1, <1>3, <2>1, HereFacts
  <2>3. StoreSave(wk[w].media.bucket, P!NewKey(w), o)
    BY <1>3, <2>2 DEF P!StoreSave, StoreSave
  <2>4. FilesOK'
    BY <2>3, SaveType
  <2>5. WorkersOK'
    BY <1>1, <1>3, GotoStep, PcFacts
  <2> QED
    BY <1>1, <1>3, <2>4, <2>5, StoreCall
<1> QED
  BY <1>2, <1>3 DEF P!CopyTemp

LEMMA RemoveType ==
  ASSUME FilesOK, NEW b, NEW k,
         P!StoreRemove(b, k) \/ UNCHANGED store
  PROVE  FilesOK'
  BY DEF FilesOK, P!StoreRemove

LEMMA RemoveTempStep ==
  ASSUME TasksInv, NEW w \in Workers, P!RemoveTemp(w)
  PROVE  TasksInv' /\ Gone
<1> USE DEF TasksInv
<1>1. wk[w].pc # "idle"
      /\ UNCHANGED <<db, tasks, details, etags, backlog, crashes, backlogs>>
  BY DEF P!RemoveTemp
<1>2. FilesOK'
  BY RemoveType DEF P!RemoveTemp
<1>3. PICK pc \in {"remove_old", "stat"} : P!Goto(w, pc)
  BY DEF P!RemoveTemp
<1>4. WorkersOK'
  BY <1>1, <1>3, GotoStep, PcFacts
<1> QED
  BY <1>1, <1>2, <1>4, StoreCall

LEMMA RemoveOldStep ==
  ASSUME TasksInv, NEW w \in Workers, P!RemoveOld(w)
  PROVE  TasksInv' /\ Gone
<1> USE DEF TasksInv
<1>1. wk[w].pc # "idle"
      /\ UNCHANGED <<db, tasks, details, etags, backlog, crashes, backlogs>>
  BY DEF P!RemoveOld
<1>2. FilesOK'
  BY RemoveType DEF P!RemoveOld
<1>3. WorkersOK'
  BY <1>1, GotoStep, PcFacts DEF P!RemoveOld
<1> QED
  BY <1>1, <1>2, <1>3, StoreCall

LEMMA StatNewStep ==
  ASSUME TasksInv, NEW w \in Workers, P!StatNew(w)
  PROVE  TasksInv' /\ Gone
<1> USE DEF TasksInv
<1>1. wk[w].pc # "idle"
      /\ UNCHANGED <<db, store, details, etags, backlog, crashes, backlogs>>
  BY DEF P!StatNew
<1>2. FilesOK'
  BY <1>1 DEF FilesOK
<1>3. CASE P!Fail(w)
  BY <1>1, <1>2, <1>3, StoreCall
<1>4. CASE /\ P!Here(w, P!NewKey(w)) # NoObject
           /\ wk' = [wk EXCEPT ![w].pc = "update",
                               ![w].size = Size[P!Here(w, P!NewKey(w)).blob]]
           /\ UNCHANGED tasks
  <2>1. P!NewKey(w) \in Key
    BY <1>1, AtWork, NewRowFacts
  <2>2. P!Here(w, P!NewKey(w)).blob \in Blobs
    BY <1>1, <1>4, <2>1, HereFacts
  <2>3. PICK n \in Nat : n = Size[P!Here(w, P!NewKey(w)).blob]
    BY <2>2, BlobsAssumption
  <2>4. wk[w] \in P!WorkerState
    BY <1>1, AtWork
  <2> DEFINE s == [wk[w] EXCEPT !.pc = "update", !.size = n]
  <2>5. wk' = [wk EXCEPT ![w] = s]
    BY <1>4, <2>3, <2>4, WorkerStateIs DEF WorkersOK
  <2>6. s \in P!WorkerState
    BY <2>4, WorkerStateIs, PcFacts
  <2>7. /\ s.pc = "update" /\ s.task = wk[w].task
        /\ s.media = wk[w].media /\ s.i = wk[w].i
    BY <2>4, WorkerStateIs
  <2> HIDE DEF s
  <2>8. WorkersOK'
    BY <1>1, <2>5, <2>6, <2>7, NoteStep
  <2> QED
    BY <1>1, <1>2, <1>4, <2>8, StoreCall
<1> QED
  BY <1>3, <1>4 DEF P!StatNew

LEMMA UpdateOptimisedStep ==
  ASSUME TasksInv, NEW w \in Workers, P!UpdateOptimised(w)
  PROVE  TasksInv' /\ Gone
<1> USE DEF TasksInv
<1> DEFINE m == wk[w].task.media
           row == [wk[w].media EXCEPT !.optimised = TRUE, !.size = wk[w].size,
                       !.mime = NewMime(wk[w].media),
                       !.key = NewKeyOf(m, wk[w].media)]
<1>1. wk[w].pc # "idle"
      /\ UNCHANGED <<store, details, etags, backlog, crashes, backlogs>>
  BY DEF P!UpdateOptimised
<1>2. FilesOK' /\ CacheOK'
  BY <1>1, CacheStays DEF FilesOK
<1>3. CASE P!Fail(w) /\ UNCHANGED db
  BY <1>1, <1>2, <1>3, StoreCall
<1>4. CASE /\ P!RepoUpdate(P!Media(w), P!OptimisedRow(w))
           /\ P!Goto(w, IF P!IsImage(P!NewMimeType(w)) THEN "enqueue" ELSE "uncache")
           /\ UNCHANGED tasks
  <2>1. m \in Medias /\ RowOf(m, wk[w].media) /\ P!Media(w) = m
        /\ wk[w].task \in Task
    BY <1>1, AtWork
  <2>2. P!OptimisedRow(w) = row
    BY <1>1, AtWork DEF P!OptimisedRow
  <2>3. wk[w].size \in Nat \cup {Nil}
    BY <1>1, AtWork, WorkerStateIs
  <2>4. NewMime(wk[w].media) \in AllowedMimeTypes
        /\ NewKeyOf(m, wk[w].media) \in Key
        /\ NewKeyOf(m, wk[w].media)
             = FileKey(m, MimeTypeToExtension(NewMime(wk[w].media)))
    BY <2>1, NewRowFacts
  <2>5. wk[w].media \in Row /\ wk[w].media.meta \in Blobs
    BY <2>1, RowOfFacts
  <2>6. RowOf(m, row)
    <3>1. row \in Row
      BY <2>3, <2>4, <2>5 DEF Row
    <3>2. row.mime = NewMime(wk[w].media) /\ row.meta = wk[w].media.meta
          /\ row.key = NewKeyOf(m, wk[w].media)
          /\ row.variants = wk[w].media.variants
      BY <2>5 DEF Row
    <3>3. \A i \in 1..Len(wk[w].media.variants) :
            wk[w].media.variants[i].key.media = m
      BY <2>1 DEF RowOf
    <3> QED
      BY <2>4, <2>5, <3>1, <3>2, <3>3 DEF RowOf
  <2> HIDE DEF m, row
  <2>7. RepoUpdate(m, row)
    BY <1>4, <2>1, <2>2 DEF P!RepoUpdate, RepoUpdate, P!UpdatedRow, UpdatedRow
  <2>8. RowsOK' /\ Gone
    BY <2>1, <2>6, <2>7, UpdateType
  <2>9. PICK pc \in {"enqueue", "uncache"} : P!Goto(w, pc)
    BY <1>4
  <2>10. WorkersOK'
    BY <1>1, <2>9, GotoStep, PcFacts
  <2>11. QueueOK'
    BY <1>1, <1>4, <2>1, QueueStays
  <2> QED
    BY <1>2, <2>8, <2>10, <2>11
<1> QED
  BY <1>3, <1>4 DEF P!UpdateOptimised

LEMMA EnqueueResizeStep ==
  ASSUME TasksInv, NEW w \in Workers, P!EnqueueResizeImage(w)
  PROVE  TasksInv' /\ Gone
<1> USE DEF TasksInv
<1>1. wk[w].pc # "idle"
      /\ UNCHANGED <<db, store, details, etags, backlog, crashes, backlogs>>
  BY DEF P!EnqueueResizeImage
<1>2. FilesOK'
  BY <1>1 DEF FilesOK
<1>3. WorkersOK'
  BY <1>1, GotoStep, PcFacts DEF P!EnqueueResizeImage
<1>4. P!ResizeTask(P!Media(w)) \in Task
  BY <1>1, AtWork DEF P!ResizeTask, Task, TaskKinds
<1>5. \/ UNCHANGED tasks
      \/ \E t \in Task : tasks' = [tasks EXCEPT ![t] = @ + 1]
  BY <1>4 DEF P!EnqueueResizeImage, P!Enqueue
<1> QED
  BY <1>1, <1>2, <1>3, <1>5, StoreCall

LEMMA AtWidth ==
  ASSUME WorkersOK, NEW w \in Workers,
         wk[w].pc \in {"variant", "save_variant", "stat_variant"}
  PROVE  /\ wk[w].i \in 1..Len(P!TargetWidths)
         /\ P!Target(w) = P!TargetWidths[wk[w].i]
         /\ P!Target(w) \in Nat /\ P!Target(w) > 0
         /\ P!WidthKey(w) = VariantKey(wk[w].task.media, P!TargetWidths[wk[w].i])
         /\ P!WidthKey(w) \in Key
         /\ P!WidthKey(w).media = wk[w].task.media
         /\ P!WidthKey(w).kind = "variant"
         /\ P!FullWidth(w) = ImageWidth[wk[w].media.meta]
         /\ P!FullHeight(w) = ImageHeight[wk[w].media.meta]
         /\ P!FullWidth(w) \in Nat \ {0}
         /\ P!FullHeight(w) \in Nat \ {0}
<1>1. wk[w].pc # "idle"
  OBVIOUS
<1>2. wk[w].i \in 1..Len(P!TargetWidths)
  BY <1>1, AtWork DEF TaskLocal
<1>3. P!TargetWidths[wk[w].i] \in Widths /\ P!TargetWidths[wk[w].i] \in Nat
      /\ P!TargetWidths[wk[w].i] > 0
  BY <1>2, TargetFacts
<1>4. P!Target(w) = P!TargetWidths[wk[w].i]
  BY DEF P!Target
<1>5. P!Media(w) = wk[w].task.media /\ wk[w].task.media \in Medias
      /\ wk[w].media.meta \in Blobs
  BY <1>1, AtWork, RowOfFacts
<1>6. P!WidthKey(w) = VariantKey(wk[w].task.media, P!TargetWidths[wk[w].i])
  BY <1>4, <1>5 DEF P!WidthKey, P!VariantKey, VariantKey
<1>7. /\ P!WidthKey(w) \in Key
      /\ P!WidthKey(w).media = wk[w].task.media
      /\ P!WidthKey(w).kind = "variant"
  BY <1>3, <1>5, <1>6, VariantKeyFacts
<1>8. /\ P!FullWidth(w) = ImageWidth[wk[w].media.meta]
      /\ P!FullHeight(w) = ImageHeight[wk[w].media.meta]
  BY DEF P!FullWidth, P!FullHeight
<1>9. P!FullWidth(w) \in Nat \ {0} /\ P!FullHeight(w) \in Nat \ {0}
  BY <1>5, <1>8, TasksAssumption DEF P!PipelineAssumption
<1> QED
  BY <1>2, <1>3, <1>4, <1>6, <1>7, <1>8, <1>9

LEMMA VariantSizes ==
  ASSUME WorkersOK, NEW w \in Workers,
         wk[w].pc \in {"variant", "save_variant", "stat_variant"}
  PROVE  P!VariantWidth(w) \in Nat /\ P!VariantHeight(w) \in Nat
<1>1. /\ P!Target(w) \in Nat
      /\ P!FullWidth(w) \in Nat \ {0}
      /\ P!FullHeight(w) \in Nat \ {0}
  BY AtWidth
<1>2. P!FullHeight(w) * P!Target(w) \in Nat
  BY <1>1
<1>3. (P!FullHeight(w) * P!Target(w)) \div P!FullWidth(w) \in Nat
  BY <1>1, <1>2, DivFacts
<1> QED
  BY <1>1, <1>3 DEF P!VariantWidth, P!VariantHeight

LEMMA MakeVariantStep ==
  ASSUME TasksInv, NEW w \in Workers, P!MakeVariant(w)
  PROVE  TasksInv' /\ Gone
<1> USE DEF TasksInv
<1>1. wk[w].pc = "variant" /\ wk[w].pc # "idle"
      /\ UNCHANGED <<db, details, etags, backlog, crashes, backlogs>>
  BY DEF P!MakeVariant
<1>2. wk[w].media.key \in Key
  BY <1>1, AtWork, RowOfFacts
<1>3. CASE P!Fail(w) /\ UNCHANGED store
  <2>1. FilesOK'
    BY <1>3 DEF FilesOK
  <2> QED
    BY <1>1, <1>3, <2>1, StoreCall
<1>4. CASE /\ P!Original(w) # NoObject
           /\ wk' = [wk EXCEPT ![w].pc = "save_variant",
                               ![w].blob = P!Original(w).blob]
           /\ UNCHANGED <<store, tasks>>
  <2>1. PICK b \in Blobs : b = P!Original(w).blob
    BY <1>1, <1>2, <1>4, HereFacts
  <2>2. wk[w] \in P!WorkerState /\ wk[w].i \in 1..Len(P!TargetWidths)
    BY <1>1, AtWork, AtWidth
  <2> DEFINE s == [wk[w] EXCEPT !.pc = "save_variant", !.blob = b]
  <2>3. wk' = [wk EXCEPT ![w] = s]
    BY <1>4, <2>1, <2>2, WorkerStateIs DEF WorkersOK
  <2>4. s \in P!WorkerState
    BY <2>2, WorkerStateIs, PcFacts
  <2>5. /\ s.pc = "save_variant" /\ s.blob = b /\ s.task = wk[w].task
        /\ s.media = wk[w].media /\ s.i = wk[w].i
    BY <2>2, WorkerStateIs
  <2> HIDE DEF s
  <2>6. WorkersOK'
    BY <1>1, <2>2, <2>3, <2>4, <2>5, NoteStep, NilFacts
  <2>7. FilesOK'
    BY <1>4 DEF FilesOK
  <2> QED
    BY <1>1, <1>4, <2>6, <2>7, StoreCall
<1>5. CASE /\ P!Original(w) # NoObject
           /\ P!StoreSave(wk[w].media.bucket, P!WidthKey(w), P!Original(w))
           /\ P!Goto(w, "stat_variant")
           /\ UNCHANGED tasks
  <2>1. PICK o \in Object : o = P!Original(w)
    BY <1>1, <1>2, <1>5, HereFacts
  <2>2. StoreSave(wk[w].media.bucket, P!WidthKey(w), o)
    BY <1>5, <2>1 DEF P!StoreSave, StoreSave
  <2>3. FilesOK'
    BY <2>2, SaveType
  <2>4. WorkersOK'
    BY <1>1, <1>5, GotoStep, PcFacts, AtWidth
  <2> QED
    BY <1>1, <1>5, <2>3, <2>4, StoreCall
<1> QED
  BY <1>3, <1>4, <1>5 DEF P!MakeVariant

LEMMA SaveVariantStep ==
  ASSUME TasksInv, NEW w \in Workers, P!SaveVariant(w)
  PROVE  TasksInv' /\ Gone
<1> USE DEF TasksInv
<1>1. wk[w].pc = "save_variant" /\ wk[w].pc # "idle"
      /\ UNCHANGED <<db, details, etags, backlog, crashes, backlogs>>
  BY DEF P!SaveVariant
<1>2. CASE P!Fail(w) /\ UNCHANGED store
  <2>1. FilesOK'
    BY <1>2 DEF FilesOK
  <2> QED
    BY <1>1, <1>2, <2>1, StoreCall
<1>3. CASE /\ P!StoreSave(wk[w].media.bucket, P!WidthKey(w),
                [type |-> "image/webp", blob |-> Shrunk[wk[w].blob]])
           /\ P!Goto(w, "stat_variant")
           /\ UNCHANGED tasks
  <2>1. wk[w].blob \in Blobs
    BY <1>1, AtWork, WorkerStateIs DEF TaskLocal
  <2>2. PICK o \in Object : o = [type |-> "image/webp", blob |-> Shrunk[wk[w].blob]]
    BY <2>1, WebpFacts, MimeFacts, TasksAssumption DEF P!PipelineAssumption, Object
  <2>3. StoreSave(wk[w].media.bucket, P!WidthKey(w), o)
    BY <1>3, <2>2 DEF P!StoreSave, StoreSave
  <2>4. FilesOK'
    BY <2>3, SaveType
  <2>5. WorkersOK'
    BY <1>1, <1>3, GotoStep, PcFacts, AtWidth
  <2> QED
    BY <1>1, <1>3, <2>4, <2>5, StoreCall
<1> QED
  BY <1>2, <1>3 DEF P!SaveVariant

LEMMA StatVariantStep ==
  ASSUME TasksInv, NEW w \in Workers, P!StatVariant(w)
  PROVE  TasksInv' /\ Gone
<1> USE DEF TasksInv
<1>1. wk[w].pc = "stat_variant" /\ wk[w].pc # "idle"
      /\ UNCHANGED <<db, store, details, etags, backlog, crashes, backlogs>>
  BY DEF P!StatVariant
<1>2. FilesOK'
  BY <1>1 DEF FilesOK
<1>3. CASE P!Fail(w)
  BY <1>1, <1>2, <1>3, StoreCall
<1> DEFINE v == [key    |-> P!WidthKey(w),
                 size   |-> Size[P!Here(w, P!WidthKey(w)).blob],
                 width  |-> P!VariantWidth(w),
                 height |-> P!VariantHeight(w)]
           pc == IF wk[w].i = Len(P!TargetWidths) THEN "update_variants"
                 ELSE "variant"
           row == [wk[w].media EXCEPT !.variants = Append(@, v)]
           s == [wk[w] EXCEPT !.pc = pc, !.i = @ + 1, !.media = row]
<1>4. CASE /\ P!Here(w, P!WidthKey(w)) # NoObject
           /\ wk' = [wk EXCEPT ![w].pc = pc, ![w].i = @ + 1,
                               ![w].media.variants = Append(@, v)]
           /\ UNCHANGED tasks
  <2>1. P!WidthKey(w) \in Key /\ wk[w].i \in 1..Len(P!TargetWidths)
    BY <1>1, AtWidth
  <2>2. Size[P!Here(w, P!WidthKey(w)).blob] \in Nat
    BY <1>1, <1>4, <2>1, HereFacts, BlobsAssumption
  <2>3. v \in Variant
    BY <1>1, <2>1, <2>2, VariantSizes DEF Variant
  <2>4. wk[w] \in P!WorkerState /\ RowOf(wk[w].task.media, wk[w].media)
        /\ wk[w].task \in Task /\ wk[w].task.media \in Medias
    BY <1>1, AtWork
  <2>5. wk[w].media \in Row /\ wk[w].media.variants \in Seq(Variant)
    BY <2>4, RowOfFacts
  <2> HIDE DEF v
  <2>6. Append(wk[w].media.variants, v) \in Seq(Variant)
    BY <2>3, <2>5
  <2>7. row \in Row
    BY <2>5, <2>6 DEF Row
  <2>8. /\ row.mime = wk[w].media.mime /\ row.meta = wk[w].media.meta
        /\ row.key = wk[w].media.key
        /\ row.variants = Append(wk[w].media.variants, v)
    BY <2>5 DEF Row
  <2>17. v.key.media = wk[w].task.media
    BY <1>1, AtWidth DEF v
  <2>18. ASSUME NEW j \in 1..Len(row.variants)
         PROVE  row.variants[j].key.media = wk[w].task.media
    <3>1. Len(row.variants) = Len(wk[w].media.variants) + 1
      BY <2>3, <2>5, <2>8
    <3>2. CASE j = Len(wk[w].media.variants) + 1
      <4>1. row.variants[j] = v
        BY <2>3, <2>5, <2>8, <3>2
      <4> QED
        BY <2>17, <4>1
    <3>3. CASE j \in 1..Len(wk[w].media.variants)
      <4>1. row.variants[j] = wk[w].media.variants[j]
        BY <2>3, <2>5, <2>8, <3>3
      <4> QED
        BY <2>4, <3>3, <4>1 DEF RowOf
    <3> QED
      BY <3>1, <3>2, <3>3, <2>5
  <2>9. wk' = [wk EXCEPT ![w] = s]
    BY <1>4, <2>4, <2>5, WorkerStateIs DEF WorkersOK
  <2> HIDE DEF row
  <2>10. RowOf(wk[w].task.media, row)
    BY <2>4, <2>7, <2>8, <2>18 DEF RowOf
  <2>11. Len(P!TargetWidths) \in Nat
    BY WidthsAreFinite
  <2>12. /\ pc \in {"update_variants", "variant"} /\ pc \in P!Busy
         /\ pc = "variant" => wk[w].i + 1 \in 1..Len(P!TargetWidths)
         /\ wk[w].i + 1 \in Nat
    BY <2>1, <2>11, PcFacts
  <2> HIDE DEF pc
  <2>13. s \in P!WorkerState
    BY <2>4, <2>7, <2>12, WorkerStateIs
  <2>14. s.pc = pc /\ s.task = wk[w].task /\ s.media = row /\ s.i = wk[w].i + 1
    BY <2>4, WorkerStateIs
  <2> HIDE DEF s
  <2>15. TaskLocal(s)
    BY <2>4, <2>10, <2>12, <2>14 DEF TaskLocal
  <2>16. WorkersOK'
    BY <2>9, <2>13, <2>15, WorkerMoves
  <2> QED
    BY <1>1, <1>2, <1>4, <2>16, StoreCall
<1> QED
  BY <1>3, <1>4 DEF P!StatVariant

LEMMA UpdateVariantsStep ==
  ASSUME TasksInv, NEW w \in Workers, P!UpdateVariants(w)
  PROVE  TasksInv' /\ Gone
<1> USE DEF TasksInv
<1>1. wk[w].pc # "idle"
      /\ UNCHANGED <<store, details, etags, backlog, crashes, backlogs>>
  BY DEF P!UpdateVariants
<1>2. FilesOK' /\ CacheOK'
  BY <1>1, CacheStays DEF FilesOK
<1>3. CASE P!Fail(w) /\ UNCHANGED db
  BY <1>1, <1>2, <1>3, StoreCall
<1>4. CASE /\ P!RepoUpdate(P!Media(w), wk[w].media)
           /\ P!Goto(w, "uncache")
           /\ UNCHANGED tasks
  <2>1. /\ wk[w].task.media \in Medias /\ RowOf(wk[w].task.media, wk[w].media)
        /\ P!Media(w) = wk[w].task.media
        /\ wk[w].task \in Task
    BY <1>1, AtWork
  <2>2. RepoUpdate(wk[w].task.media, wk[w].media)
    BY <1>4, <2>1 DEF P!RepoUpdate, RepoUpdate, P!UpdatedRow, UpdatedRow
  <2>3. RowsOK' /\ Gone
    BY <2>1, <2>2, UpdateType
  <2>4. WorkersOK'
    BY <1>1, <1>4, GotoStep, PcFacts
  <2>5. QueueOK'
    BY <1>1, <1>4, <2>1, QueueStays
  <2> QED
    BY <1>2, <2>3, <2>4, <2>5
<1> QED
  BY <1>3, <1>4 DEF P!UpdateVariants

LEMMA UncacheStep ==
  ASSUME TasksInv, NEW w \in Workers, P!Uncache(w) \/ P!UncacheEtag(w)
  PROVE  TasksInv' /\ Gone
<1> USE DEF TasksInv
<1>1. wk[w].pc # "idle"
      /\ UNCHANGED <<db, store, tasks, backlog, crashes, backlogs>>
  BY DEF P!Uncache, P!UncacheEtag
<1>2. wk[w].task.media \in Medias /\ P!Media(w) = wk[w].task.media
      /\ wk[w].task \in Task
  BY <1>1, AtWork
<1>3. RowsOK' /\ Gone /\ FilesOK' /\ QueueOK'
  BY <1>1, <1>2, RowsStay, QueueStays DEF FilesOK
<1>4. CacheOK'
  BY <1>2, DropDetails
  DEF P!Uncache, P!UncacheEtag, P!DeleteMediaDetails, P!DeleteEtagMediaDetails,
      DeleteMediaDetails, DeleteEtagMediaDetails
<1>5. WorkersOK'
  <2>1. CASE P!Uncache(w)
    BY <1>1, <2>1, GotoStep, PcFacts DEF P!Uncache
  <2>2. CASE P!UncacheEtag(w)
    BY <2>2, IdleFacts, WorkerMoves DEF P!UncacheEtag
  <2> QED
    BY <2>1, <2>2
<1> QED
  BY <1>3, <1>4, <1>5

LEMMA WorkerStepKeeps ==
  ASSUME TasksInv, NEW w \in Workers, P!WorkerStep(w)
  PROVE  TasksInv' /\ Gone
<1>1. CASE \E t \in P!Task : P!Start(w, t)
  BY <1>1, SameData, StartStep
<1>2. CASE P!OptimiseStep(w)
  BY <1>2, OpenOriginalStep, SaveTempStep, CopyTempStep, RemoveTempStep,
     RemoveOldStep, StatNewStep, UpdateOptimisedStep, EnqueueResizeStep
  DEF P!OptimiseStep
<1>3. CASE P!ResizeStep(w)
  BY <1>3, MakeVariantStep, SaveVariantStep, StatVariantStep, UpdateVariantsStep
  DEF P!ResizeStep
<1>4. CASE P!Uncache(w) \/ P!UncacheEtag(w)
  BY <1>4, UncacheStep
<1> QED
  BY <1>1, <1>2, <1>3, <1>4 DEF P!WorkerStep

-----------------------------------------------------------------------------
(* The steps of a details request *)

LEMMA ThinnedType ==
  ASSUME NEW S, NEW s \in Seq(S), NEW t \in Thinned(s)
  PROVE  t \in Seq(S)
<1>1. PICK n \in 0..Len(s) :
         t \in {[j \in 1..n |-> s[kept[j]]] :
                  kept \in {f \in [1..n -> 1..Len(s)] :
                              \A i, j \in 1..n : i < j => f[i] < f[j]}}
  BY Zenon DEF Thinned
<1>2. PICK kept \in [1..n -> 1..Len(s)] : t = [j \in 1..n |-> s[kept[j]]]
  BY <1>1
<1>3. n \in Nat
  OBVIOUS
<1>4. \A j \in 1..n : s[kept[j]] \in S
  OBVIOUS
<1> QED
  BY <1>2, <1>3, <1>4

\* How long entries live.
LEMMA LifeFacts ==
  /\ LinkTTL \in Nat /\ Margin \in Nat /\ MaxAge \in Nat
  /\ MaxAge <= Margin /\ Margin < LinkTTL
  /\ \A e \in Rendering : e.life \in Nat /\ (~Expired(e) <=> e.life > Margin)
  BY DetailsAssumption DEF Rendering, Expired

LEMMA AgedFacts ==
  ASSUME NEW e \in Rendering
  PROVE  /\ Aged(e) \in Rendering
         /\ Aged(e) # Nil
         /\ ~Expired(e) => Aged(e).life >= Margin
<1>1. e # Nil /\ e.life \in Nat
  BY NilFacts, LifeFacts
<1> DEFINE n == IF e.life = 0 THEN 0 ELSE e.life - 1
<1>2. Aged(e) = [e EXCEPT !.life = n]
  BY <1>1 DEF Aged
<1>3. n \in Nat
  BY <1>1
<1>4. e.life > Margin => n >= Margin
  BY <1>1, LifeFacts
<1> HIDE DEF n
<1>5. Aged(e) \in Rendering /\ Aged(e).life = n
  BY <1>2, <1>3 DEF Rendering
<1> QED
  BY <1>4, <1>5, NilFacts, LifeFacts

\* A step of a reader that leaves the cache alone or fills it.
ReadersInv == CacheOK /\ ReadersOK

LEMMA ReaderMoves ==
  ASSUME ReadersOK, NEW r \in Readers, NEW s \in ReaderState, ReaderLocal(s),
         get' = [get EXCEPT ![r] = s]
  PROVE  ReadersOK'
<1>1. get' \in [Readers -> ReaderState]
  BY DEF ReadersOK
<1>2. \A q \in Readers : get'[q] = IF q = r THEN s ELSE get[q]
  BY DEF ReadersOK
<1> QED
  BY <1>1, <1>2 DEF ReadersOK

LEMMA ReaderFacts ==
  ASSUME ReadersOK, NEW r \in Readers
  PROVE  get[r] \in ReaderState /\ ReaderLocal(get[r])
  BY DEF ReadersOK

LEMMA IdleReaderFacts == IdleReader \in ReaderState /\ ReaderLocal(IdleReader)
  BY DEF IdleReader, ReaderState, ReaderLocal

LEMMA BeginGetStep ==
  ASSUME ReadersInv, NEW r \in Readers, NEW m \in Medias, BeginGet(r, m)
  PROVE  ReadersInv'
<1> USE DEF ReadersInv
<1>1. UNCHANGED <<details, etags>>
  BY DEF BeginGet
<1>2. PICK raw \in {details[m]} \cup {Nil} :
         get' = [get EXCEPT ![r] = [IdleReader EXCEPT
                   !.pc = "etag", !.id = m, !.raw = raw]]
  BY DEF BeginGet
<1> DEFINE s == [IdleReader EXCEPT !.pc = "etag", !.id = m, !.raw = raw]
<1>3. raw \in Rendering \cup {Nil} /\ (raw # Nil => ~Expired(raw))
  BY <1>2 DEF CacheOK, CacheTypeOK, Valid
<1>4. s \in ReaderState
  BY <1>3 DEF IdleReader, ReaderState
<1>5. /\ s.pc = "etag" /\ s.id = m /\ s.raw = raw /\ s.etag = Nil
  BY DEF IdleReader
<1>6. get' = [get EXCEPT ![r] = s]
  BY <1>2
<1> HIDE DEF s
<1>7. raw # Nil => raw.life >= Margin
  BY <1>3, LifeFacts
<1>8. ReaderLocal(s)
  BY <1>5, <1>7 DEF ReaderLocal
<1> QED
  BY <1>1, <1>4, <1>6, <1>8, ReaderMoves, CacheStays

LEMMA GetEtagStep ==
  ASSUME ReadersInv, NEW r \in Readers, GetEtag(r)
  PROVE  ReadersInv'
<1> USE DEF ReadersInv
<1>1. UNCHANGED <<details, etags>> /\ get[r].pc = "etag"
  BY DEF GetEtag
<1>2. get[r] \in ReaderState /\ ReaderLocal(get[r]) /\ get[r].id \in Medias
  BY <1>1, ReaderFacts DEF ReaderLocal
<1>3. PICK etag \in {etags[get[r].id]} \cup {Nil} :
         get' = IF get[r].raw # Nil /\ etag # Nil
                THEN [get EXCEPT ![r].pc = "reply", ![r].etag = etag]
                ELSE [get EXCEPT ![r].pc = "row", ![r].raw = Nil]
  BY DEF GetEtag
<1>4. etag \in Rendering \cup {Nil} /\ (etag # Nil => ~Expired(etag))
  BY <1>2, <1>3 DEF CacheOK, CacheTypeOK, Valid
<1>5. CASE get[r].raw # Nil /\ etag # Nil
  <2> DEFINE s == [get[r] EXCEPT !.pc = "reply", !.etag = etag]
  <2>1. get' = [get EXCEPT ![r] = s]
    BY <1>2, <1>3, <1>5 DEF ReadersOK, ReaderState
  <2>2. s \in ReaderState
    BY <1>2, <1>4 DEF ReaderState
  <2>3. s.pc = "reply" /\ s.raw = get[r].raw /\ s.etag = etag /\ s.id = get[r].id
    BY <1>2 DEF ReaderState
  <2> HIDE DEF s
  <2>4. etag.life >= Margin
    BY <1>4, <1>5, LifeFacts
  <2>5. ReaderLocal(s)
    BY <1>2, <1>5, <2>3, <2>4 DEF ReaderLocal
  <2> QED
    BY <1>1, <2>1, <2>2, <2>5, ReaderMoves, CacheStays
<1>6. CASE ~(get[r].raw # Nil /\ etag # Nil)
  <2> DEFINE s == [get[r] EXCEPT !.pc = "row", !.raw = Nil]
  <2>1. get' = [get EXCEPT ![r] = s]
    BY <1>2, <1>3, <1>6 DEF ReadersOK, ReaderState
  <2>2. s \in ReaderState
    BY <1>2 DEF ReaderState
  <2>3. s.pc = "row" /\ s.raw = Nil /\ s.etag = get[r].etag /\ s.id = get[r].id
    BY <1>2 DEF ReaderState
  <2> HIDE DEF s
  <2>4. ReaderLocal(s)
    BY <1>2, <2>3 DEF ReaderLocal
  <2> QED
    BY <1>1, <2>1, <2>2, <2>4, ReaderMoves, CacheStays
<1> QED
  BY <1>5, <1>6

LEMMA GetRowStep ==
  ASSUME ReadersInv, RowsOK, NEW r \in Readers, GetRow(r)
  PROVE  ReadersInv'
<1> USE DEF ReadersInv
<1>1. UNCHANGED <<details, etags>> /\ get[r].pc = "row"
  BY DEF GetRow
<1>2. get[r] \in ReaderState /\ ReaderLocal(get[r]) /\ get[r].id \in Medias
  BY <1>1, ReaderFacts DEF ReaderLocal
<1>3. CASE get' = [get EXCEPT ![r] = IdleReader]
  BY <1>1, <1>3, IdleReaderFacts, ReaderMoves, CacheStays
<1>4. CASE /\ db[get[r].id] # NoRow
           /\ get' = [get EXCEPT ![r].pc = "render", ![r].media = db[get[r].id]]
  <2> DEFINE s == [get[r] EXCEPT !.pc = "render", !.media = db[get[r].id]]
  <2>1. get' = [get EXCEPT ![r] = s]
    BY <1>2, <1>4 DEF ReadersOK, ReaderState
  <2>2. db[get[r].id] \in Row
    BY <1>2, <1>4 DEF RowsOK
  <2>3. s \in ReaderState
    BY <1>2, <2>2 DEF ReaderState
  <2>4. s.pc = "render" /\ s.media = db[get[r].id] /\ s.id = get[r].id
        /\ s.raw = get[r].raw /\ s.etag = get[r].etag
    BY <1>2 DEF ReaderState
  <2> HIDE DEF s
  <2>5. ReaderLocal(s)
    BY <1>2, <2>2, <2>4, NilFacts DEF ReaderLocal
  <2> QED
    BY <1>1, <2>1, <2>3, <2>5, ReaderMoves, CacheStays
<1> QED
  BY <1>3, <1>4 DEF GetRow

LEMMA RenderStep ==
  ASSUME ReadersInv, NEW r \in Readers, Render(r)
  PROVE  ReadersInv'
<1> USE DEF ReadersInv
<1>1. UNCHANGED <<details, etags>> /\ get[r].pc = "render"
  BY DEF Render
<1>2. get[r] \in ReaderState /\ ReaderLocal(get[r]) /\ get[r].id \in Medias
  BY <1>1, ReaderFacts DEF ReaderLocal
<1>3. CASE get' = [get EXCEPT ![r] = IdleReader]
  BY <1>1, <1>3, IdleReaderFacts, ReaderMoves, CacheStays
<1>4. CASE \E variants \in Listed(r) :
             get' = [get EXCEPT ![r].pc = "fill", ![r].media = Nil,
               ![r].raw = [row  |-> [get[r].media EXCEPT !.variants = variants],
                           life |-> LinkTTL],
               ![r].etag = [row  |-> [get[r].media EXCEPT !.variants = variants],
                            life |-> LinkTTL]]
  <2>1. PICK variants \in Listed(r) :
             get' = [get EXCEPT ![r].pc = "fill", ![r].media = Nil,
               ![r].raw = [row  |-> [get[r].media EXCEPT !.variants = variants],
                           life |-> LinkTTL],
               ![r].etag = [row  |-> [get[r].media EXCEPT !.variants = variants],
                            life |-> LinkTTL]]
    BY <1>4
  <2>2. get[r].media \in Row
    BY <1>1, <1>2 DEF ReaderLocal, ReaderState
  <2>3. get[r].media.variants \in Seq(Variant)
    BY <2>2 DEF Row
  <2>4. variants \in Seq(Variant)
    BY <2>1, <2>3, ThinnedType DEF Listed
  <2>5. [get[r].media EXCEPT !.variants = variants] \in Row
    BY <2>2, <2>4 DEF Row
  <2>6. PICK body \in Rendering :
          body = [row  |-> [get[r].media EXCEPT !.variants = variants],
                  life |-> LinkTTL]
    BY <2>5, LifeFacts DEF Rendering
  <2>7. body.life = LinkTTL
    BY <2>6
  <2> DEFINE s == [get[r] EXCEPT !.pc = "fill", !.media = Nil, !.raw = body,
                                 !.etag = body]
  <2>8. get' = [get EXCEPT ![r] = s]
    BY <1>2, <2>1, <2>6 DEF ReadersOK, ReaderState
  <2>9. s \in ReaderState
    BY <1>2 DEF ReaderState
  <2>10. s.pc = "fill" /\ s.raw = body /\ s.etag = body /\ s.id = get[r].id
    BY <1>2 DEF ReaderState
  <2> HIDE DEF s
  <2>11. ~Expired(body) /\ body.life >= Margin /\ body # Nil
    BY <2>7, LifeFacts, NilFacts
  <2>12. ReaderLocal(s)
    BY <1>2, <2>10, <2>11 DEF ReaderLocal
  <2> QED
    BY <1>1, <2>8, <2>9, <2>12, ReaderMoves, CacheStays
<1> QED
  BY <1>3, <1>4 DEF Render

LEMMA FillStep ==
  ASSUME ReadersInv, NEW r \in Readers, FillDetails(r) \/ FillEtag(r)
  PROVE  ReadersInv'
<1> USE DEF ReadersInv
<1>1. get[r].pc \in {"fill", "fill_etag"}
  BY DEF FillDetails, FillEtag
<1>2. /\ get[r] \in ReaderState /\ ReaderLocal(get[r]) /\ get[r].id \in Medias
      /\ get[r].raw # Nil /\ get[r].etag = get[r].raw /\ ~Expired(get[r].raw)
      /\ get[r].raw \in Rendering
  BY <1>1, ReaderFacts DEF ReaderLocal, ReaderState
<1>3. PICK e \in Rendering : e = get[r].raw
  BY <1>2
<1>4. CacheOK'
  <2>1. \/ details' = [details EXCEPT ![get[r].id] = e] /\ UNCHANGED etags
        \/ etags' = [etags EXCEPT ![get[r].id] = e] /\ UNCHANGED details
        \/ UNCHANGED <<details, etags>>
    BY <1>2, <1>3
    DEF FillDetails, FillEtag, SetMediaDetails, SetEtagMediaDetails
  <2>2. Valid(e)
    BY <1>2, <1>3 DEF Valid
  <2> QED
    BY <1>2, <2>1, <2>2 DEF CacheOK, CacheTypeOK
<1>5. PICK pc \in {"fill_etag", "reply"} : get' = [get EXCEPT ![r].pc = pc]
  BY DEF FillDetails, FillEtag
<1> DEFINE s == [get[r] EXCEPT !.pc = pc]
<1>6. get' = [get EXCEPT ![r] = s]
  BY <1>2, <1>5 DEF ReadersOK, ReaderState
<1>7. s \in ReaderState
  BY <1>2 DEF ReaderState
<1>8. s.pc = pc /\ s.id = get[r].id /\ s.raw = get[r].raw /\ s.etag = get[r].etag
  BY <1>2 DEF ReaderState
<1> HIDE DEF s
<1>9. ReaderLocal(s)
  BY <1>2, <1>8 DEF ReaderLocal
<1> QED
  BY <1>4, <1>6, <1>7, <1>9, ReaderMoves

LEMMA ReaderStepKeeps ==
  ASSUME ReadersInv, RowsOK, NEW r \in Readers, ReaderStep(r)
  PROVE  ReadersInv' /\ UNCHANGED <<db, store, tasks>>
<1>1. CASE Respond(r)
  BY <1>1, IdleReaderFacts, ReaderMoves, CacheStays DEF Respond, ReadersInv
<1>2. ReadersInv'
  BY <1>1, GetEtagStep, GetRowStep, RenderStep, FillStep DEF ReaderStep
<1>3. UNCHANGED <<db, store, tasks>>
  BY DEF ReaderStep, GetEtag, GetRow, Render, FillDetails, FillEtag, Respond
<1> QED
  BY <1>2, <1>3

\* Time passes: what is cached stays valid, and what readers hold stays usable.
LEMMA TickStep ==
  ASSUME ReadersInv, Tick
  PROVE  ReadersInv'
<1> USE DEF ReadersInv
<1> DEFINE kept(e) == IF e = Nil \/ Expired(Aged(e)) THEN Nil ELSE Aged(e)
<1>1. /\ ReadersKeepUp
      /\ details' = [m \in Medias |-> kept(details[m])]
      /\ etags' = [m \in Medias |-> kept(etags[m])]
      /\ get' = [r \in Readers |-> [get[r] EXCEPT !.raw = Aged(@), !.etag = Aged(@)]]
  BY DEF Tick
<1>2. ASSUME NEW e \in Rendering \cup {Nil}
      PROVE  kept(e) \in Rendering \cup {Nil} /\ Valid(kept(e))
  BY <1>2, AgedFacts DEF Valid
<1> HIDE DEF kept
<1>3. CacheOK'
  BY <1>1, <1>2 DEF CacheOK, CacheTypeOK
<1>4. ASSUME NEW r \in Readers
      PROVE  get'[r] \in ReaderState /\ ReaderLocal(get'[r])
  <2>1. get[r] \in ReaderState /\ ReaderLocal(get[r])
    BY ReaderFacts
  <2>2. get[r].raw \in Rendering \cup {Nil} /\ get[r].etag \in Rendering \cup {Nil}
    BY <2>1 DEF ReaderState
  <2>3. PICK raw : raw = Aged(get[r].raw)
    OBVIOUS
  <2>4. PICK etag : etag = Aged(get[r].etag)
    OBVIOUS
  <2>5. /\ raw \in Rendering \cup {Nil} /\ (raw = Nil <=> get[r].raw = Nil)
        /\ etag \in Rendering \cup {Nil} /\ (etag = Nil <=> get[r].etag = Nil)
    BY <2>2, <2>3, <2>4, AgedFacts, NilFacts DEF Aged
  <2>6. /\ get[r].raw # Nil => ~Expired(get[r].raw)
        /\ get[r].etag # Nil => ~Expired(get[r].etag)
        /\ get[r].pc \in {"fill", "fill_etag"} => ~Expired(raw)
    BY <1>1, <2>3 DEF ReadersKeepUp
  <2>7. /\ raw # Nil => raw.life >= Margin
        /\ etag # Nil => etag.life >= Margin
    BY <2>2, <2>3, <2>4, <2>5, <2>6, AgedFacts
  <2> DEFINE s == [get[r] EXCEPT !.raw = raw, !.etag = etag]
  <2>8. get'[r] = s
    BY <1>1, <2>3, <2>4
  <2>9. s \in ReaderState
    BY <2>1, <2>5 DEF ReaderState
  <2>10. s.pc = get[r].pc /\ s.id = get[r].id /\ s.media = get[r].media
         /\ s.raw = raw /\ s.etag = etag
    BY <2>1 DEF ReaderState
  <2> HIDE DEF s
  <2>11. get[r].etag = get[r].raw => etag = raw
    BY <2>3, <2>4
  <2>12. ReaderLocal(s)
    BY <2>1, <2>5, <2>6, <2>7, <2>10, <2>11 DEF ReaderLocal
  <2> QED
    BY <2>8, <2>9, <2>12
<1>5. get' \in [Readers -> ReaderState]
  <2>1. get' = [r \in Readers |-> get'[r]]
    BY <1>1
  <2> QED
    BY <1>4, <2>1
<1> QED
  BY <1>3, <1>4, <1>5 DEF ReadersOK

-----------------------------------------------------------------------------
(* The steps of a delete request *)

LEMMA DeleterFacts ==
  ASSUME DeletersOK, NEW d \in Deleters
  PROVE  /\ del[d] \in DeleterState
         /\ DeleterLocal(del[d], db)
         /\ del[d].pc # "idle" =>
              del[d].id \in Medias /\ RowOf(del[d].id, del[d].media)
  BY DEF DeletersOK, DeleterLocal, DeleterState

LEMMA DeletersStay ==
  ASSUME DeletersOK, Gone, UNCHANGED <<del, failed>>
  PROVE  DeletersOK'
<1>1. ASSUME NEW d \in Deleters
      PROVE  DeleterLocal(del[d], db')
  BY DeleterFacts DEF DeleterLocal, Gone
<1> QED
  BY <1>1 DEF DeletersOK

LEMMA DeleterMoves ==
  ASSUME DeletersOK, Gone, NEW d \in Deleters, NEW s \in DeleterState,
         DeleterLocal(s, db'), del' = [del EXCEPT ![d] = s],
         NoteErrors \/ UNCHANGED failed
  PROVE  DeletersOK'
<1>1. del' \in [Deleters -> DeleterState]
  BY DEF DeletersOK
<1>2. ASSUME NEW c \in Deleters
      PROVE  DeleterLocal(del'[c], db')
  <2>1. CASE c = d
    BY <2>1 DEF DeletersOK
  <2>2. CASE c # d
    <3>1. del'[c] = del[c]
      BY <2>2 DEF DeletersOK
    <3> QED
      BY <3>1, DeleterFacts DEF DeleterLocal, Gone
  <2> QED
    BY <2>1, <2>2
<1>3. failed' \subseteq Medias
  BY DEF NoteErrors, DeletersOK
<1> QED
  BY <1>1, <1>2, <1>3 DEF DeletersOK

LEMMA IdleDeleterFacts ==
  ASSUME NEW answer \in Answers, NEW m \in Medias \cup {Nil},
         answer # "none" => m \in Medias,
         answer = "ok" => db'[m] = NoRow
  PROVE  /\ IdleDeleter(answer, m) \in DeleterState
         /\ DeleterLocal(IdleDeleter(answer, m), db')
  BY DEF IdleDeleter, DeleterState, DeleterLocal

\* A delete request goes on to its next call.
LEMMA GoOnStep ==
  ASSUME DeletersOK, Gone, NEW d \in Deleters, del[d].pc # "idle",
         NEW pc \in {"row", "uncache", "uncache_etag"}, GoOn(d, pc),
         pc \in {"uncache", "uncache_etag"} => db'[del[d].id] = NoRow,
         NoteErrors \/ UNCHANGED failed
  PROVE  DeletersOK'
<1> DEFINE s == [del[d] EXCEPT !.pc = pc]
<1>1. del[d] \in DeleterState /\ DeleterLocal(del[d], db) /\ del[d].id \in Medias
  BY DeleterFacts
<1>2. del' = [del EXCEPT ![d] = s]
  BY DEF GoOn, DeletersOK
<1>3. s \in DeleterState
  BY <1>1 DEF DeleterState
<1>4. s.pc = pc /\ s.id = del[d].id /\ s.answer = del[d].answer
      /\ s.media = del[d].media
  BY <1>1 DEF DeleterState
<1> HIDE DEF s
<1>5. DeleterLocal(s, db')
  BY <1>1, <1>4 DEF DeleterLocal, Gone
<1> QED
  BY <1>2, <1>3, <1>5, DeleterMoves

LEMMA AnswerStep ==
  ASSUME DeletersOK, Gone, NEW d \in Deleters, del[d].pc # "idle",
         NEW answer \in {"ok", "error"}, Answer(d, answer),
         answer = "ok" => db'[del[d].id] = NoRow,
         NoteErrors \/ UNCHANGED failed
  PROVE  DeletersOK'
<1>1. del[d].id \in Medias
  BY DeleterFacts
<1>2. /\ IdleDeleter(answer, del[d].id) \in DeleterState
      /\ DeleterLocal(IdleDeleter(answer, del[d].id), db')
  BY <1>1, IdleDeleterFacts DEF Answers
<1> QED
  BY <1>2, DeleterMoves DEF Answer

LEMMA BeginDeleteStep ==
  ASSUME IInv, NEW d \in Deleters, NEW m \in Medias, BeginDelete(d, m), NoteErrors
  PROVE  DeletersOK'
<1>1. UNCHANGED db /\ Gone
  BY RowsStay DEF BeginDelete, IInv
<1>2. CASE /\ db[m] # NoRow
           /\ del' = [del EXCEPT ![d] = [IdleDeleter("none", m) EXCEPT
                        !.pc = "variants", !.media = db[m], !.i = 1]]
  <2> DEFINE s == [IdleDeleter("none", m) EXCEPT
                     !.pc = "variants", !.media = db[m], !.i = 1]
  <2>1. db[m] \in Row /\ RowOf(m, db[m])
    BY <1>2 DEF IInv, RowsOK
  <2>2. s \in DeleterState
    BY <2>1 DEF IdleDeleter, DeleterState, Answers
  <2>3. s.pc = "variants" /\ s.id = m /\ s.answer = "none" /\ s.media = db[m]
        /\ s.i = 1
    BY DEF IdleDeleter
  <2>4. del' = [del EXCEPT ![d] = s]
    BY <1>2
  <2> HIDE DEF s
  <2>5. DeleterLocal(s, db')
    BY <2>1, <2>3 DEF DeleterLocal
  <2> QED
    BY <1>1, <2>2, <2>4, <2>5, DeleterMoves DEF IInv
<1>3. CASE del' = [del EXCEPT ![d] = IdleDeleter("not_found", m)]
  BY <1>1, <1>3, IdleDeleterFacts, DeleterMoves DEF Answers, IInv
<1>4. CASE del' = [del EXCEPT ![d] = IdleDeleter("error", m)]
  BY <1>1, <1>4, IdleDeleterFacts, DeleterMoves DEF Answers, IInv
<1> QED
  BY <1>2, <1>3, <1>4 DEF BeginDelete

LEMMA DeleterStepKeeps ==
  ASSUME IInv, NEW d \in Deleters, DeleterStep(d), NoteErrors
  PROVE  /\ RowsOK' /\ FilesOK' /\ CacheOK' /\ DeletersOK'
         /\ UNCHANGED tasks
<1> USE DEF IInv
<1>1. del[d].pc # "idle"
  BY DEF DeleterStep, RemoveVariant, RemoveObject, DeleteRow, UncacheDetails,
         UncacheEtag
<1>2. del[d] \in DeleterState /\ DeleterLocal(del[d], db) /\ del[d].id \in Medias
  BY <1>1, DeleterFacts
<1>3. CASE RemoveVariant(d)
  <2>1. UNCHANGED <<db, tasks, details, etags>> /\ del[d].pc = "variants"
    BY <1>3 DEF RemoveVariant
  <2>2. RowsOK' /\ Gone /\ CacheOK'
    BY <2>1, RowsStay, CacheStays
  <2>3. FilesOK'
    BY <1>3 DEF RemoveVariant, FilesOK, StoreRemove
  <2> DEFINE s == [del[d] EXCEPT !.i = @ + 1]
  <2>4. del' = [del EXCEPT ![d] = s]
    BY <1>3 DEF RemoveVariant, DeletersOK
  <2>5. s \in DeleterState
    BY <1>2 DEF DeleterState
  <2>6. s.pc = del[d].pc /\ s.id = del[d].id /\ s.answer = del[d].answer
        /\ s.media = del[d].media /\ s.i # 0
    BY <1>2 DEF DeleterState
  <2> HIDE DEF s
  <2>7. DeleterLocal(s, db')
    BY <1>2, <2>2, <2>6 DEF DeleterLocal, Gone
  <2>8. DeletersOK'
    BY <2>2, <2>4, <2>5, <2>7, DeleterMoves
  <2> QED
    BY <2>1, <2>2, <2>3, <2>8
<1>4. CASE RemoveObject(d)
  <2>1. UNCHANGED <<db, tasks, details, etags>>
    BY <1>4 DEF RemoveObject
  <2>2. RowsOK' /\ Gone /\ CacheOK'
    BY <2>1, RowsStay, CacheStays
  <2>3. FilesOK'
    BY <1>4 DEF RemoveObject, FilesOK, StoreRemove
  <2>4. DeletersOK'
    BY <1>1, <1>4, <2>2, GoOnStep, AnswerStep DEF RemoveObject
  <2> QED
    BY <2>1, <2>2, <2>3, <2>4
<1>5. CASE DeleteRow(d)
  <2>1. UNCHANGED <<store, tasks, details, etags>>
    BY <1>5 DEF DeleteRow
  <2>2. FilesOK' /\ CacheOK'
    BY <2>1, CacheStays DEF FilesOK
  <2>3. CASE RepoDelete(del[d].id) /\ GoOn(d, "uncache")
    <3>1. RowsOK' /\ Gone /\ db'[del[d].id] = NoRow
      BY <1>2, <2>3, DeleteType
    <3>2. DeletersOK'
      BY <1>1, <2>3, <3>1, GoOnStep
    <3> QED
      BY <2>1, <2>2, <3>1, <3>2
  <2>4. CASE Answer(d, "error") /\ UNCHANGED db
    <3>1. RowsOK' /\ Gone
      BY <2>4, RowsStay
    <3>2. DeletersOK'
      BY <1>1, <2>4, <3>1, AnswerStep
    <3> QED
      BY <2>1, <2>2, <3>1, <3>2
  <2> QED
    BY <1>5, <2>3, <2>4 DEF DeleteRow
<1>6. CASE UncacheDetails(d) \/ UncacheEtag(d)
  <2>1. UNCHANGED <<db, store, tasks>>
    BY <1>6 DEF UncacheDetails, UncacheEtag
  <2>2. RowsOK' /\ Gone /\ FilesOK'
    BY <2>1, RowsStay DEF FilesOK
  <2>3. CacheOK'
    BY <1>2, <1>6, DropDetails DEF UncacheDetails, UncacheEtag
  <2>4. db'[del[d].id] = NoRow
    BY <1>2, <1>6, <2>1 DEF DeleterLocal, UncacheDetails, UncacheEtag
  <2>5. DeletersOK'
    BY <1>1, <1>6, <2>2, <2>4, GoOnStep, AnswerStep
    DEF UncacheDetails, UncacheEtag
  <2> QED
    BY <2>1, <2>2, <2>3, <2>5
<1> QED
  BY <1>3, <1>4, <1>5, <1>6 DEF DeleterStep

-----------------------------------------------------------------------------
(* The whole service *)

LEMMA InitFacts ==
  ASSUME Init
  PROVE  /\ \E b \in Buckets, up \in [Medias -> Stored],
               queued \in [Medias -> BOOLEAN] :
              /\ db = [m \in Medias |->
                   [key |-> FileKey(m, MimeTypeToExtension(up[m].type)),
                    bucket |-> b, mime |-> up[m].type, size |-> Size[up[m].blob],
                    status |-> "completed", optimised |-> FALSE,
                    meta |-> up[m].blob, variants |-> <<>>]]
              /\ store = [c \in Buckets |-> [k \in Key |->
                   IF c = b /\ k = FileKey(k.media,
                                     MimeTypeToExtension(up[k.media].type))
                   THEN up[k.media] ELSE NoObject]]
              /\ tasks = [t \in Task |->
                   IF t.kind = "optimise" /\ queued[t.media] THEN 1 ELSE 0]
         /\ details = [m \in Medias |-> Nil]
         /\ etags = [m \in Medias |-> Nil]
         /\ wk = [w \in Workers |-> P!IdleWorker]
         /\ backlog = [pc |-> "idle", ids |-> {}]
         /\ crashes = 0 /\ backlogs = 0
         /\ get = [r \in Readers |-> IdleReader]
         /\ del = [d \in Deleters |-> IdleDeleter("none", Nil)]
         /\ failed = {}
<1>1. P!Key = Key
  BY DEF P!Key, Key, P!Extensions, Extensions
<1>2. PICK b \in Buckets, up \in [Medias -> Stored],
           queued \in [Medias -> BOOLEAN] :
        /\ db = [m \in Medias |-> P!FinalisedRow(m, b, up[m])]
        /\ store = [c \in Buckets |-> [k \in P!Key |->
             IF c = b /\ k = P!FinalisedKey(k.media, up[k.media])
             THEN up[k.media] ELSE NoObject]]
        /\ tasks = [t \in P!Task |->
             IF t.kind = "optimise" /\ queued[t.media] THEN 1 ELSE 0]
  BY DEF Init, P!Init
<1>3. \A m, o : P!FinalisedKey(m, o) = FileKey(m, MimeTypeToExtension(o.type))
  BY DEF P!FinalisedKey, P!FileKey, FileKey, P!MimeTypeToExtension,
         MimeTypeToExtension
<1>4. \A m, o : P!FinalisedRow(m, b, o) =
        [key |-> FileKey(m, MimeTypeToExtension(o.type)),
         bucket |-> b, mime |-> o.type, size |-> Size[o.blob],
         status |-> "completed", optimised |-> FALSE,
         meta |-> o.blob, variants |-> <<>>]
  BY <1>3 DEF P!FinalisedRow
<1>5. /\ db = [m \in Medias |->
             [key |-> FileKey(m, MimeTypeToExtension(up[m].type)),
              bucket |-> b, mime |-> up[m].type, size |-> Size[up[m].blob],
              status |-> "completed", optimised |-> FALSE,
              meta |-> up[m].blob, variants |-> <<>>]]
      /\ store = [c \in Buckets |-> [k \in Key |->
             IF c = b /\ k = FileKey(k.media, MimeTypeToExtension(up[k.media].type))
             THEN up[k.media] ELSE NoObject]]
      /\ tasks = [t \in Task |->
             IF t.kind = "optimise" /\ queued[t.media] THEN 1 ELSE 0]
  BY <1>1, <1>2, <1>3, <1>4, SameData
<1>6. /\ details = [m \in Medias |-> Nil]
      /\ etags = [m \in Medias |-> Nil]
      /\ wk = [w \in Workers |-> P!IdleWorker]
      /\ backlog = [pc |-> "idle", ids |-> {}]
      /\ crashes = 0 /\ backlogs = 0
      /\ get = [r \in Readers |-> IdleReader]
      /\ del = [d \in Deleters |-> IdleDeleter("none", Nil)]
      /\ failed = {}
  BY DEF Init, P!Init, P!CacheInit, DetailsInit, DeletionInit
<1> QED
  BY <1>5, <1>6

LEMMA InitInv ==
  ASSUME Init
  PROVE  IInv
<1>1. PICK b \in Buckets, up \in [Medias -> Stored],
           queued \in [Medias -> BOOLEAN] :
        /\ db = [m \in Medias |->
             [key |-> FileKey(m, MimeTypeToExtension(up[m].type)),
              bucket |-> b, mime |-> up[m].type, size |-> Size[up[m].blob],
              status |-> "completed", optimised |-> FALSE,
              meta |-> up[m].blob, variants |-> <<>>]]
        /\ store = [c \in Buckets |-> [k \in Key |->
             IF c = b /\ k = FileKey(k.media, MimeTypeToExtension(up[k.media].type))
             THEN up[k.media] ELSE NoObject]]
        /\ tasks = [t \in Task |->
             IF t.kind = "optimise" /\ queued[t.media] THEN 1 ELSE 0]
  BY InitFacts
<1>2. RowsOK
  <2>1. ASSUME NEW m \in Medias
        PROVE  db[m] \in Row /\ RowOf(m, db[m])
    <3>1. up[m].type \in AllowedMimeTypes /\ up[m].blob \in Blobs
      BY TasksAssumption
      DEF P!PipelineAssumption, P!IsMimeTypeAllowed, P!AllowedMimeTypes,
          AllowedMimeTypes, P!Object
    <3>2. FileKey(m, MimeTypeToExtension(up[m].type)) \in Key
      BY <3>1, MimeFacts, FileKeyFacts
    <3>3. Size[up[m].blob] \in Nat
      BY <3>1, BlobsAssumption
    <3>4. db[m] = [key |-> FileKey(m, MimeTypeToExtension(up[m].type)),
                   bucket |-> b, mime |-> up[m].type, size |-> Size[up[m].blob],
                   status |-> "completed", optimised |-> FALSE,
                   meta |-> up[m].blob, variants |-> <<>>]
      BY <1>1
    <3>5. <<>> \in Seq(Variant)
      OBVIOUS
    <3> QED
      BY <3>1, <3>2, <3>3, <3>4, <3>5 DEF RowOf, Row, Status
  <2> QED
    BY <1>1, <2>1 DEF RowsOK
<1>3. FilesOK
  <2>1. ASSUME NEW k \in Key
        PROVE  up[k.media] \in Object
    <3>1. k.media \in Medias
      BY DEF Key
    <3>2. P!Object = Object
      BY DEF P!Object, Object, P!MimeTypes, MimeTypes, P!AllowedMimeTypes,
         AllowedMimeTypes
    <3> QED
      BY <3>1, <3>2, TasksAssumption DEF P!PipelineAssumption
  <2> QED
    BY <1>1, <2>1 DEF FilesOK
<1>4. QueueOK
  BY <1>1, InitFacts, TasksAssumption
  DEF QueueOK, P!BacklogState, P!PipelineAssumption
<1>5. WorkersOK
  BY InitFacts, IdleFacts DEF WorkersOK
<1>6. CacheOK
  BY InitFacts DEF CacheOK, CacheTypeOK, Valid
<1>7. ReadersOK
  BY InitFacts, IdleReaderFacts DEF ReadersOK
<1>8. DeletersOK
  <2>1. IdleDeleter("none", Nil) \in DeleterState
        /\ DeleterLocal(IdleDeleter("none", Nil), db)
    BY DEF IdleDeleter, DeleterState, DeleterLocal, Answers
  <2> QED
    BY <2>1, InitFacts DEF DeletersOK
<1> QED
  BY <1>2, <1>3, <1>4, <1>5, <1>6, <1>7, <1>8 DEF IInv

LEMMA NextInv ==
  ASSUME IInv, [Next]_vars
  PROVE  IInv'
<1> USE DEF IInv
<1>1. ASSUME NEW w \in Workers, Work(w) \/ Die(w)
      PROVE  IInv'
  <2>1. UNCHANGED <<get, del, failed>>
    BY <1>1 DEF Work, Die
  <2>2. TasksInv' /\ Gone
    BY <1>1, WorkerStepKeeps, CrashStep DEF Work, Die, TasksInv
  <2>3. ReadersOK' /\ DeletersOK'
    BY <2>1, <2>2, DeletersStay DEF ReadersOK
  <2> QED
    BY <2>2, <2>3 DEF TasksInv
<1>2. ASSUME UNCHANGED <<db, store, tasks, del, wk, backlog, crashes, backlogs,
                         failed>>, ReadersInv'
      PROVE  IInv'
  <2>1. RowsOK' /\ Gone /\ FilesOK' /\ QueueOK' /\ WorkersOK'
    BY <1>2, RowsStay DEF FilesOK, QueueOK, WorkersOK
  <2>2. DeletersOK'
    BY <1>2, <2>1, DeletersStay
  <2> QED
    BY <1>2, <2>1, <2>2 DEF ReadersInv
<1>3. ASSUME NEW r \in Readers, (\E m \in Medias : BeginRead(r, m)) \/ Read(r)
      PROVE  IInv'
  <2>1. ReadersInv
    BY DEF ReadersInv
  <2>2. CASE Read(r)
    BY <1>2, <2>1, <2>2, ReaderStepKeeps DEF Read
  <2>3. CASE \E m \in Medias : BeginRead(r, m)
    BY <1>2, <2>1, <2>3, BeginGetStep DEF BeginRead, BeginGet
  <2> QED
    BY <1>3, <2>2, <2>3
<1>4. CASE PassTime
  BY <1>2, <1>4, TickStep DEF PassTime, Tick, ReadersInv
<1>5. ASSUME NEW d \in Deleters, NEW m \in Medias, BeginRemove(d, m)
      PROVE  IInv'
  <2>1. /\ UNCHANGED <<db, store, tasks, details, etags, get, wk, backlog,
                       crashes, backlogs>>
        /\ BeginDelete(d, m) /\ NoteErrors
    BY <1>5 DEF BeginRemove, BeginDelete
  <2>2. DeletersOK'
    BY <2>1, BeginDeleteStep
  <2>3. RowsOK' /\ FilesOK' /\ QueueOK' /\ WorkersOK' /\ CacheOK' /\ ReadersOK'
    BY <2>1, RowsStay, CacheStays DEF FilesOK, QueueOK, WorkersOK, ReadersOK
  <2> QED
    BY <2>2, <2>3
<1>6. ASSUME NEW d \in Deleters, Remove(d)
      PROVE  IInv'
  <2>1. RowsOK' /\ FilesOK' /\ CacheOK' /\ DeletersOK' /\ UNCHANGED tasks
    BY <1>6, DeleterStepKeeps DEF Remove
  <2>2. UNCHANGED <<get, wk, backlog, crashes, backlogs>>
    BY <1>6 DEF Remove
  <2>3. QueueOK' /\ WorkersOK' /\ ReadersOK'
    BY <2>1, <2>2 DEF QueueOK, WorkersOK, ReadersOK
  <2> QED
    BY <2>1, <2>3
<1>7. ASSUME NEW d \in Deleters, DieRemoving(d)
      PROVE  IInv'
  <2>1. /\ UNCHANGED <<db, store, tasks, details, etags, get, wk, backlog,
                       crashes, backlogs, failed>>
        /\ del' = [del EXCEPT ![d] = IdleDeleter("none", Nil)]
    BY <1>7 DEF DieRemoving, DieDeleting
  <2>2. RowsOK' /\ Gone /\ FilesOK' /\ QueueOK' /\ WorkersOK' /\ CacheOK'
        /\ ReadersOK'
    BY <2>1, RowsStay, CacheStays DEF FilesOK, QueueOK, WorkersOK, ReadersOK
  <2>3. IdleDeleter("none", Nil) \in DeleterState
        /\ DeleterLocal(IdleDeleter("none", Nil), db')
    BY IdleDeleterFacts DEF Answers
  <2>4. DeletersOK'
    BY <2>1, <2>2, <2>3, DeleterMoves
  <2> QED
    BY <2>2, <2>4
<1>8. CASE UNCHANGED vars
  <2>1. UNCHANGED <<db, store, tasks, details, etags, get, del, wk, backlog,
                    crashes, backlogs, failed>>
    BY <1>8 DEF vars
  <2> QED
    BY <2>1
    DEF RowsOK, FilesOK, QueueOK, WorkersOK, CacheOK, CacheTypeOK, ReadersOK,
        DeletersOK
<1> QED
  BY <1>1, <1>3, <1>4, <1>5, <1>6, <1>7, <1>8 DEF Next

\* The inductive invariant, whatever calls fail, whoever dies and whatever
\* deletions, tasks and details requests overlap.
THEOREM ServiceInvariant == Spec => []IInv
<1>1. Init => IInv
  BY InitInv
<1>2. IInv /\ [Next]_vars => IInv'
  BY NextInv
<1> QED
  BY <1>1, <1>2, PTL DEF Spec

LEMMA TypesFromInv ==
  ASSUME IInv
  PROVE  TypeOK
<1>1. P!Row = Row /\ P!Task = Task
  BY SameData
<1>2. P!Key = Key
  BY DEF P!Key, Key, P!Extensions, Extensions
<1>3. P!Object = Object
  BY DEF P!Object, Object, P!MimeTypes, MimeTypes, P!AllowedMimeTypes,
         AllowedMimeTypes
<1>4. P!Rendering = Rendering
  BY <1>1 DEF P!Rendering, Rendering
<1>5. P!BackendTypeOK
  BY <1>1, <1>2, <1>3 DEF P!BackendTypeOK, IInv, RowsOK, FilesOK, QueueOK
<1>6. P!CacheTypeOK
  BY <1>4 DEF P!CacheTypeOK, IInv, CacheOK, CacheTypeOK
<1>7. P!TypeOK
  BY <1>5, <1>6 DEF P!TypeOK, IInv, WorkersOK, QueueOK
<1> QED
  BY <1>7 DEF TypeOK, DetailsTypeOK, DeletionTypeOK, IInv, ReadersOK, DeletersOK

\* Details and delete requests, tasks and the stores they share keep their types.
THEOREM ServiceTypeCorrect == Spec => []TypeOK
  BY ServiceInvariant, TypesFromInv, PTL

LEMMA DeletedFromInv == IInv => DeletedHasNoRow
  BY DEF IInv, DeletersOK, DeleterLocal, DeletedHasNoRow

\* A media whose deletion was answered 204 has no row, and gets none, although
\* tasks that loaded it before still write their copy of it.
THEOREM DeletedStaysDeleted == Spec => []DeletedHasNoRow
  BY ServiceInvariant, DeletedFromInv, PTL

LEMMA LinksFromInv ==
  ASSUME IInv
  PROVE  ServedLinksLive
<1> SUFFICES ASSUME NEW r \in Readers, get[r].pc = "reply"
             PROVE  get[r].raw.life >= MaxAge /\ get[r].etag.life >= MaxAge
  BY DEF ServedLinksLive
<1>1. get[r] \in ReaderState /\ ReaderLocal(get[r])
  BY ReaderFacts DEF IInv
<1>2. /\ get[r].raw \in Rendering /\ get[r].etag \in Rendering
      /\ get[r].raw.life >= Margin /\ get[r].etag.life >= Margin
  BY <1>1 DEF ReaderLocal, ReaderState
<1>3. get[r].raw.life \in Nat /\ get[r].etag.life \in Nat
  BY <1>2, LifeFacts
<1> QED
  BY <1>2, <1>3, LifeFacts

\* No response hands out a link that dies while the client may still reuse the
\* response, whatever renderings concurrent fills left in the two cache keys.
THEOREM ServedLinksAreLive == Spec => []ServedLinksLive
  BY ServiceInvariant, LinksFromInv, PTL

=============================================================================
