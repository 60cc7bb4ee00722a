--------------------------- MODULE PipelineProofs ----------------------------
(***************************************************************************)
(* Theorems about Pipeline, for any medias, contents, configured widths    *)
(* and faults, and any number of workers, crashes and backlog commands.    *)
(***************************************************************************)
EXTENDS Pipeline, TLAPS

-----------------------------------------------------------------------------
(* The inductive invariant.  Its parts take the table and the storage as    *)
(* arguments: a worker's stale copy is judged against what they hold now.   *)

\* The types compression leaves alone: a media of another changes its key.
Converted(mime) == mime \notin {"image/png", "image/jpeg"}

\* Keys whose object nobody removes, once there is one.
Lasting(k) ==
  \/ k.kind = "variant"
  \/ k.kind = "file" /\ k.ext \notin {".png", ".jpg"}

WebpKey(m) == FileKey(m, ".webp")

\* What VariantsFit asks of a variant of the image b.
Fits(v, b) ==
  /\ v.width >= 1 /\ v.width <= ImageWidth[b] /\ v.width <= v.key.width
  /\ v.height >= 1 /\ v.height <= ImageHeight[b]
  /\ v.height * ImageWidth[b] <= ImageHeight[b] * v.width
  /\ ImageHeight[b] * v.width < (v.height + 1) * ImageWidth[b]

VariantOf(m, v, row, files) ==
  /\ v.key.kind = "variant"
  /\ v.key.media = m
  /\ files[row.bucket][v.key] # NoObject
  /\ Fits(v, row.meta)

\* A copy of the row of m, however old: what a task may write back.
CopyOf(m, row, rows, files) ==
  /\ row \in Row
  /\ row.bucket = rows[m].bucket
  /\ row.meta = rows[m].meta
  /\ row.meta \in Blobs
  /\ row.status = "completed"
  /\ row.mime \in AllowedMimeTypes
  /\ row.key = FileKey(m, MimeTypeToExtension(row.mime))
  /\ Converted(row.mime) => files[row.bucket][row.key] # NoObject
  /\ row.optimised => Converted(row.mime)
  /\ \A i \in 1..Len(row.variants) : VariantOf(m, row.variants[i], row, files)

\* The object of the row is there, or what it was converted to is.
Held(m, rows, files) ==
  \/ files[rows[m].bucket][rows[m].key] # NoObject
  \/ files[rows[m].bucket][WebpKey(m)] # NoObject

\* What a worker at work knows of its media, at each program counter.
Local(s, rows, files) ==
  s.pc # "idle" =>
    /\ s.task \in Task
    /\ CopyOf(s.task.media, s.media, rows, files)
    /\ s.task.kind = "resize" => s.media.optimised /\ rows[s.task.media].optimised
    /\ s.pc \in ResizePC => s.task.kind = "resize"
    /\ s.blob # Nil => Origin[s.blob] = Origin[s.media.meta]
    /\ s.pc \in {"save_temp", "save_variant"} => s.blob # Nil
    /\ s.pc \in {"remove_temp", "remove_old", "stat", "update"} =>
         (~Converted(s.media.mime) =>
            files[s.media.bucket][WebpKey(s.task.media)] # NoObject)
    /\ s.pc = "remove_old" => ~Converted(s.media.mime)
    /\ s.pc = "enqueue" => rows[s.task.media].optimised
    /\ s.pc \in {"variant", "save_variant", "stat_variant"} =>
         s.i \in 1..Len(TargetWidths)
    /\ s.pc = "save_variant" => TargetWidths[s.i] < ImageWidth[s.media.meta]
    /\ s.pc = "stat_variant" =>
         (TargetWidths[s.i] < ImageWidth[s.media.meta] =>
            (ImageHeight[s.media.meta] * TargetWidths[s.i])
              \div ImageWidth[s.media.meta] > 0)

RowsOK ==
  /\ db \in [Medias -> Row \cup {NoRow}]
  /\ \A m \in Medias : CopyOf(m, db[m], db, store) /\ Held(m, db, store)

\* Whatever is stored for a media is made from the content it was accepted with.
FilesOK ==
  /\ store \in [Buckets -> [Key -> Object \cup {NoObject}]]
  /\ \A k \in Key :
       store[db[k.media].bucket][k] # NoObject =>
         Origin[store[db[k.media].bucket][k].blob] = Origin[db[k.media].meta]

WorkersOK ==
  /\ wk \in [Workers -> WorkerState]
  /\ \A w \in Workers : Local(wk[w], db, store)

\* Only optimised medias are resized: no resize task undoes the optimisation.
QueueOK ==
  /\ tasks \in [Task -> Nat]
  /\ \A m \in Medias : tasks[ResizeTask(m)] > 0 => db[m].optimised

BacklogOK ==
  /\ backlog \in BacklogState
  /\ backlog.pc = "resize" => \A m \in backlog.ids : db[m].optimised

CountersOK ==
  /\ CacheTypeOK
  /\ crashes \in 0..MaxCrashes
  /\ backlogs \in 0..MaxBacklogs

IInv == RowsOK /\ FilesOK /\ WorkersOK /\ QueueOK /\ BacklogOK /\ CountersOK

\* From one moment to a later one: medias keep their bucket and their content,
\* stay optimised, and lasting objects stay.
Later(rows, files, rows2, files2) ==
  /\ \A m \in Medias : /\ rows2[m].bucket = rows[m].bucket
                       /\ rows2[m].meta = rows[m].meta
                       /\ rows[m].optimised => rows2[m].optimised
  /\ \A b \in Buckets, k \in Key :
       Lasting(k) /\ files[b][k] # NoObject => files2[b][k] # NoObject

-----------------------------------------------------------------------------
(* Facts about the data *)

LEMMA NilFacts ==
  NoRow \notin Row /\ NoObject \notin Object /\ Nil \notin Row /\ Nil \notin Blobs
  BY NilAssumption

LEMMA MimeFacts ==
  ASSUME NEW mime \in AllowedMimeTypes
  PROVE  /\ MimeTypeToExtension(mime) \in Extensions
         /\ mime \in MimeTypes
         /\ Converted(mime) <=> MimeTypeToExtension(mime) \notin {".png", ".jpg"}
         /\ ~Converted(mime) <=> IsImage(mime) /\ mime # "image/webp"
  BY DEF AllowedMimeTypes, MimeTypeToExtension, Extensions, MimeTypes, Converted,
         IsImage

LEMMA WebpFacts ==
  /\ "image/webp" \in AllowedMimeTypes
  /\ MimeTypeToExtension("image/webp") = ".webp"
  /\ Converted("image/webp")
  BY DEF AllowedMimeTypes, MimeTypeToExtension, Converted

LEMMA FileKeyFacts ==
  ASSUME NEW m \in Medias, NEW e \in Extensions
  PROVE  /\ FileKey(m, e) \in Key
         /\ FileKey(m, e).media = m
         /\ FileKey(m, e).kind = "file"
         /\ FileKey(m, e).ext = e
         /\ Lasting(FileKey(m, e)) <=> e \notin {".png", ".jpg"}
  BY DEF FileKey, Key, Lasting

LEMMA TempKeyFacts ==
  ASSUME NEW m \in Medias, NEW e \in Extensions
  PROVE  /\ TempKey(m, e) \in Key
         /\ TempKey(m, e).media = m
         /\ TempKey(m, e).kind = "temp"
         /\ ~Lasting(TempKey(m, e))
  BY DEF TempKey, Key, Lasting

LEMMA VariantKeyFacts ==
  ASSUME NEW m \in Medias, NEW w \in Widths
  PROVE  /\ VariantKey(m, w) \in Key
         /\ VariantKey(m, w).media = m
         /\ VariantKey(m, w).kind = "variant"
         /\ VariantKey(m, w).width = w
  BY DEF VariantKey, Key

LEMMA WebpKeyFacts ==
  ASSUME NEW m \in Medias
  PROVE  /\ WebpKey(m) \in Key
         /\ WebpKey(m).media = m
         /\ Lasting(WebpKey(m))
<1>1. ".webp" \in Extensions
  BY DEF Extensions
<1> QED
  BY <1>1, FileKeyFacts DEF WebpKey

\* Cutting the fraction off loses less than a pixel.
LEMMA DivFacts ==
  ASSUME NEW a \in Nat, NEW c \in Nat \ {0}
  PROVE  /\ a \div c \in Nat
         /\ (a \div c) * c <= a
         /\ a < (a \div c + 1) * c
  BY Z3

\* A product is smaller when a factor is.
LEMMA Cancel ==
  ASSUME NEW q \in Nat, NEW h \in Nat, NEW c \in Nat, NEW t \in Nat,
         q * c <= h * t, t <= c, c > 0
  PROVE  q <= h
  BY Z3

-----------------------------------------------------------------------------
(* What time does not change *)

LEMMA LaterSame ==
  ASSUME NEW rows, NEW files
  PROVE  Later(rows, files, rows, files)
  BY DEF Later

\* The key of a converted copy is a lasting one.
LEMMA CopyKey ==
  ASSUME NEW m \in Medias, NEW row, NEW rows, NEW files,
         CopyOf(m, row, rows, files)
  PROVE  /\ row.key \in Key
         /\ row.key.media = m
         /\ row.key.kind = "file"
         /\ row.key = FileKey(m, MimeTypeToExtension(row.mime))
         /\ row.mime \in AllowedMimeTypes
         /\ row.bucket \in Buckets
         /\ row \in Row
         /\ row.bucket = rows[m].bucket
         /\ row.meta = rows[m].meta
         /\ row.meta \in Blobs
         /\ Lasting(row.key) <=> Converted(row.mime)
<1>1. row.mime \in AllowedMimeTypes /\ row \in Row
  BY DEF CopyOf
<1>2. row.key = FileKey(m, MimeTypeToExtension(row.mime))
  BY DEF CopyOf
<1>3. row.bucket \in Buckets
  BY <1>1 DEF Row
<1>4. /\ row.bucket = rows[m].bucket
      /\ row.meta = rows[m].meta
      /\ row.meta \in Blobs
  BY DEF CopyOf
<1> QED
  BY <1>1, <1>2, <1>3, <1>4, MimeFacts, FileKeyFacts

LEMMA CopyStays ==
  ASSUME NEW m \in Medias, NEW row,
         NEW rows, NEW files, NEW rows2, NEW files2,
         CopyOf(m, row, rows, files), Later(rows, files, rows2, files2)
  PROVE  CopyOf(m, row, rows2, files2)
<1>1. row \in Row /\ row.bucket \in Buckets
  BY CopyKey
<1>2. Converted(row.mime) => files2[row.bucket][row.key] # NoObject
  BY <1>1, CopyKey DEF CopyOf, Later
<1>3. ASSUME NEW i \in 1..Len(row.variants)
      PROVE  VariantOf(m, row.variants[i], row, files2)
  <2>1. row.variants[i] \in Variant
    BY <1>1 DEF Row
  <2>2. row.variants[i].key \in Key
    BY <2>1 DEF Variant
  <2>3. VariantOf(m, row.variants[i], row, files)
    BY DEF CopyOf
  <2> QED
    BY <1>1, <2>2, <2>3 DEF VariantOf, Later, Lasting
<1>4. row.bucket = rows2[m].bucket /\ row.meta = rows2[m].meta
  BY DEF CopyOf, Later
<1>5. row.optimised => Converted(row.mime)
  BY DEF CopyOf
<1> QED
  BY <1>2, <1>3, <1>4, <1>5 DEF CopyOf

LEMMA LocalStays ==
  ASSUME NEW s, NEW rows, NEW files, NEW rows2, NEW files2,
         Local(s, rows, files), Later(rows, files, rows2, files2)
  PROVE  Local(s, rows2, files2)
<1> SUFFICES ASSUME s.pc # "idle" PROVE Local(s, rows2, files2)
  BY DEF Local
<1>1. PICK m \in Medias : m = s.task.media
  BY DEF Local, Task
<1>2. CopyOf(m, s.media, rows, files)
  BY <1>1 DEF Local
<1>3. CopyOf(m, s.media, rows2, files2)
  BY <1>2, CopyStays
<1>4. rows[m].optimised => rows2[m].optimised
  BY DEF Later
<1>5. files[s.media.bucket][WebpKey(m)] # NoObject
      => files2[s.media.bucket][WebpKey(m)] # NoObject
  BY <1>2, CopyKey, WebpKeyFacts DEF Later
<1> QED
  BY <1>1, <1>3, <1>4, <1>5 DEF Local

\* A worker takes a step, and what the others know stays true.
LEMMA WorkersStep ==
  ASSUME WorkersOK, NEW w \in Workers, NEW s \in WorkerState,
         wk' = [wk EXCEPT ![w] = s],
         Later(db, store, db', store'), Local(s, db', store')
  PROVE  WorkersOK'
<1>1. wk' \in [Workers -> WorkerState]
  BY DEF WorkersOK
<1>2. ASSUME NEW v \in Workers
      PROVE  Local(wk'[v], db', store')
  <2>1. CASE v = w
    BY <2>1 DEF WorkersOK
  <2>2. CASE v # w
    <3>1. wk'[v] = wk[v] /\ Local(wk[v], db, store)
      BY <2>2 DEF WorkersOK
    <3> QED
      BY <3>1, LocalStays
  <2> QED
    BY <2>1, <2>2
<1> QED
  BY <1>1, <1>2 DEF WorkersOK

LEMMA WorkersStay ==
  ASSUME WorkersOK, UNCHANGED wk, Later(db, store, db', store')
  PROVE  WorkersOK'
  BY LocalStays DEF WorkersOK

LEMMA QueueStays ==
  ASSUME QueueOK, UNCHANGED tasks, Later(db, store, db', store')
  PROVE  QueueOK'
<1>1. \A m \in Medias : tasks'[ResizeTask(m)] > 0 => db'[m].optimised
  BY DEF QueueOK, Later
<1> QED
  BY <1>1 DEF QueueOK

LEMMA BacklogStays ==
  ASSUME BacklogOK, UNCHANGED backlog, Later(db, store, db', store')
  PROVE  BacklogOK'
<1>1. \A m \in Medias : db[m].optimised => db'[m].optimised
  BY DEF Later
<1>2. backlog.ids \subseteq Medias
  BY DEF BacklogOK, BacklogState
<1> QED
  BY <1>1, <1>2 DEF BacklogOK

\* What an enqueue asks for.
LEMMA EnqueueStep ==
  ASSUME QueueOK, UNCHANGED db, NEW t \in Task,
         tasks' = [tasks EXCEPT ![t] = @ + 1] \/ UNCHANGED tasks,
         t.kind = "resize" => db[t.media].optimised
  PROVE  QueueOK'
<1>1. tasks' \in [Task -> Nat]
  BY DEF QueueOK
<1>2. ASSUME NEW m \in Medias, tasks'[ResizeTask(m)] > 0
      PROVE  db[m].optimised
  <2>1. ResizeTask(m) \in Task /\ ResizeTask(m).media = m
        /\ ResizeTask(m).kind = "resize"
    BY DEF ResizeTask, Task, TaskKinds
  <2>2. CASE t = ResizeTask(m)
    BY <2>1, <2>2
  <2>3. CASE t # ResizeTask(m)
    <3>1. tasks[ResizeTask(m)] > 0
      BY <1>2, <2>1, <2>3 DEF QueueOK
    <3> QED
      BY <3>1 DEF QueueOK
  <2> QED
    BY <2>2, <2>3
<1> QED
  BY <1>1, <1>2 DEF QueueOK

-----------------------------------------------------------------------------
(* Steps on the storage and on the table *)

LEMMA RowsStay ==
  ASSUME RowsOK, UNCHANGED db, Later(db, store, db', store'),
         \A m \in Medias : Held(m, db, store')
  PROVE  RowsOK'
<1>1. \A m \in Medias : CopyOf(m, db[m], db, store)
  BY DEF RowsOK
<1>2. \A m \in Medias : CopyOf(m, db[m], db', store')
  BY <1>1, CopyStays
<1> QED
  BY <1>2 DEF RowsOK

LEMMA SaveStep ==
  ASSUME RowsOK, FilesOK, UNCHANGED db,
         NEW b \in Buckets, NEW k \in Key, NEW o \in Object,
         StoreSave(b, k, o),
         Origin[o.blob] = Origin[db[k.media].meta]
  PROVE  /\ RowsOK' /\ FilesOK'
         /\ Later(db, store, db', store')
         /\ store'[b][k] = o
<1>1. /\ store' \in [Buckets -> [Key -> Object \cup {NoObject}]]
      /\ \A c \in Buckets, j \in Key :
           store'[c][j] = IF c = b /\ j = k THEN o ELSE store[c][j]
  BY DEF StoreSave, FilesOK
<1>2. o # NoObject
  BY NilFacts
<1>3. Later(db, store, db', store')
  BY <1>1, <1>2 DEF Later
<1>4. \A m \in Medias : db[m].bucket \in Buckets /\ db[m].key \in Key
  BY CopyKey DEF RowsOK
<1>5. \A m \in Medias : Held(m, db, store')
  BY <1>1, <1>2, <1>4, WebpKeyFacts DEF Held, RowsOK
<1>6. RowsOK'
  BY <1>3, <1>5, RowsStay
<1>7. ASSUME NEW j \in Key, store'[db[j.media].bucket][j] # NoObject
      PROVE  Origin[store'[db[j.media].bucket][j].blob] = Origin[db[j.media].meta]
  <2>1. j.media \in Medias
    BY DEF Key
  <2>2. db[j.media].bucket \in Buckets
    BY <1>4, <2>1
  <2>3. CASE db[j.media].bucket = b /\ j = k
    BY <1>1, <2>2, <2>3
  <2>4. CASE ~(db[j.media].bucket = b /\ j = k)
    <3>1. store'[db[j.media].bucket][j] = store[db[j.media].bucket][j]
      BY <1>1, <2>2, <2>4
    <3> QED
      BY <1>7, <3>1 DEF FilesOK
  <2> QED
    BY <2>3, <2>4
<1>8. FilesOK'
  BY <1>1, <1>7 DEF FilesOK
<1> QED
  BY <1>1, <1>3, <1>6, <1>8

\* Only keys that are not lasting are removed, and never the last file of a media.
LEMMA RemoveStep ==
  ASSUME RowsOK, FilesOK, UNCHANGED db,
         NEW b \in Buckets, NEW k \in Key, ~Lasting(k),
         StoreRemove(b, k) \/ UNCHANGED store,
         k.kind = "temp" \/ store[b][WebpKey(k.media)] # NoObject
  PROVE  /\ RowsOK' /\ FilesOK'
         /\ Later(db, store, db', store')
<1>1. /\ store' \in [Buckets -> [Key -> Object \cup {NoObject}]]
      /\ \A c \in Buckets, j \in Key :
           store'[c][j] = store[c][j] \/ (c = b /\ j = k /\ store'[c][j] = NoObject)
  BY DEF StoreRemove, FilesOK
<1>2. Later(db, store, db', store')
  BY <1>1 DEF Later
<1>3. ASSUME NEW m \in Medias
      PROVE  Held(m, db, store')
  <2>1. /\ db[m].bucket \in Buckets
        /\ db[m].key \in Key
        /\ db[m].key.media = m
        /\ db[m].key.kind = "file"
    BY CopyKey DEF RowsOK
  <2>2. WebpKey(m) \in Key /\ Lasting(WebpKey(m))
    BY WebpKeyFacts
  <2>3. Held(m, db, store)
    BY DEF RowsOK
  <2>4. CASE store[db[m].bucket][WebpKey(m)] # NoObject
    BY <1>1, <2>1, <2>2, <2>4 DEF Held
  <2>5. CASE store[db[m].bucket][WebpKey(m)] = NoObject
    <3>1. store[db[m].bucket][db[m].key] # NoObject
      BY <2>3, <2>5 DEF Held
    <3>2. ~(db[m].bucket = b /\ db[m].key = k)
      BY <2>1, <2>5
    <3> QED
      BY <1>1, <2>1, <3>1, <3>2 DEF Held
  <2> QED
    BY <2>4, <2>5
<1>4. RowsOK'
  BY <1>2, <1>3, RowsStay
<1>5. ASSUME NEW j \in Key, store'[db[j.media].bucket][j] # NoObject
      PROVE  Origin[store'[db[j.media].bucket][j].blob] = Origin[db[j.media].meta]
  <2>1. j.media \in Medias
    BY DEF Key
  <2>2. db[j.media].bucket \in Buckets
    BY <2>1, CopyKey DEF RowsOK
  <2>3. store'[db[j.media].bucket][j] = store[db[j.media].bucket][j]
    BY <1>1, <1>5, <2>2
  <2> QED
    BY <1>5, <2>3 DEF FilesOK
<1>6. FilesOK'
  BY <1>1, <1>5 DEF FilesOK
<1> QED
  BY <1>2, <1>4, <1>6

\* A task writes back its copy of the row, or one with the conversion noted.
LEMMA UpdateStep ==
  ASSUME RowsOK, FilesOK, UNCHANGED store,
         NEW m \in Medias, NEW row, CopyOf(m, row, db, store),
         row.optimised, RepoUpdate(m, row)
  PROVE  /\ RowsOK' /\ FilesOK'
         /\ Later(db, store, db', store')
         /\ db' = [db EXCEPT ![m] = row]
<1>1. \A n \in Medias : CopyOf(n, db[n], db, store)
  BY DEF RowsOK
<1>2. db[m] # NoRow /\ row \in Row
  BY <1>1, CopyKey, NilFacts
<1>3. db' = [db EXCEPT ![m] = row]
  BY <1>2 DEF RepoUpdate, UpdatedRow
<1>4. /\ db' \in [Medias -> Row \cup {NoRow}]
      /\ \A n \in Medias : db'[n] = IF n = m THEN row ELSE db[n]
  BY <1>2, <1>3 DEF RowsOK
<1>5. row.bucket = db[m].bucket /\ row.meta = db[m].meta
  BY DEF CopyOf
<1>6. Later(db, store, db', store')
  BY <1>4, <1>5 DEF Later
<1>7. ASSUME NEW n \in Medias
      PROVE  CopyOf(n, db'[n], db', store')
  <2>1. CopyOf(n, db'[n], db, store)
    BY <1>1, <1>4
  <2> QED
    BY <1>6, <2>1, CopyStays
<1>8. ASSUME NEW n \in Medias
      PROVE  Held(n, db', store')
  <2>1. CASE n = m
    BY <1>4, <2>1 DEF Held, CopyOf
  <2>2. CASE n # m
    BY <1>4, <2>2 DEF Held, RowsOK
  <2> QED
    BY <2>1, <2>2
<1>9. RowsOK'
  BY <1>4, <1>7, <1>8 DEF RowsOK
<1>10. FilesOK'
  <2>1. \A j \in Key : j.media \in Medias
    BY DEF Key
  <2>2. \A n \in Medias : db'[n].bucket = db[n].bucket /\ db'[n].meta = db[n].meta
    BY <1>6 DEF Later
  <2> QED
    BY <2>1, <2>2 DEF FilesOK
<1> QED
  BY <1>3, <1>6, <1>9, <1>10

-----------------------------------------------------------------------------
(* The steps of a worker *)

LEMMA Assemble ==
  ASSUME IInv, RowsOK', FilesOK', WorkersOK', QueueOK',
         Later(db, store, db', store'),
         UNCHANGED <<details, etags, backlog, crashes, backlogs>>
  PROVE  IInv'
<1>1. BacklogOK'
  BY BacklogStays DEF IInv
<1>2. CountersOK'
  BY DEF IInv, CountersOK, CacheTypeOK
<1> QED
  BY <1>1, <1>2 DEF IInv

\* A step that only the worker and the queue see.
LEMMA LocalStep ==
  ASSUME IInv, QueueOK', NEW w \in Workers, NEW s \in WorkerState,
         wk' = [wk EXCEPT ![w] = s], Local(s, db, store),
         UNCHANGED <<db, store>>
  PROVE  RowsOK' /\ FilesOK' /\ WorkersOK' /\ Later(db, store, db', store')
<1>1. Later(db, store, db', store')
  BY LaterSame
<1>2. RowsOK' /\ FilesOK'
  BY DEF IInv, RowsOK, FilesOK
<1>3. WorkersOK'
  BY <1>1, WorkersStep DEF IInv
<1> QED
  BY <1>1, <1>2, <1>3

LEMMA IdleFacts ==
  /\ IdleWorker \in WorkerState
  /\ \A rows, files : Local(IdleWorker, rows, files)
  BY DEF IdleWorker, WorkerState, Local

LEMMA AtWork ==
  ASSUME IInv, NEW w \in Workers, wk[w].pc # "idle"
  PROVE  /\ wk[w] \in WorkerState
         /\ Local(wk[w], db, store)
         /\ wk[w].task \in Task
         /\ Media(w) \in Medias
         /\ CopyOf(Media(w), wk[w].media, db, store)
         /\ wk[w].media \in Row
         /\ wk[w].media.bucket \in Buckets
         /\ wk[w].media.bucket = db[Media(w)].bucket
         /\ wk[w].media.meta = db[Media(w)].meta
         /\ wk[w].media.meta \in Blobs
         /\ wk[w].media.mime \in AllowedMimeTypes
         /\ wk[w].media.key = FileKey(Media(w), MimeTypeToExtension(wk[w].media.mime))
<1>1. wk[w] \in WorkerState /\ Local(wk[w], db, store)
  BY DEF IInv, WorkersOK
<1>2. /\ wk[w].task \in Task
      /\ CopyOf(wk[w].task.media, wk[w].media, db, store)
  BY <1>1 DEF Local
<1>3. Media(w) \in Medias /\ Media(w) = wk[w].task.media
  BY <1>2 DEF Media, Task
<1>4. CopyOf(Media(w), wk[w].media, db, store)
  BY <1>2, <1>3
<1> QED
  BY <1>1, <1>2, <1>3, <1>4, CopyKey

\* An object of the media is made from its content.
LEMMA FileFacts ==
  ASSUME IInv, NEW w \in Workers, wk[w].pc # "idle",
         NEW k \in Key, k.media = Media(w), Here(w, k) # NoObject
  PROVE  /\ Here(w, k) \in Object
         /\ Here(w, k).blob \in Blobs
         /\ Origin[Here(w, k).blob] = Origin[wk[w].media.meta]
<1>1. Here(w, k) = store[db[k.media].bucket][k]
  BY AtWork DEF Here
<1>2. store[db[k.media].bucket][k] \in Object \cup {NoObject}
  BY AtWork DEF IInv, FilesOK
<1>3. Origin[store[db[k.media].bucket][k].blob] = Origin[db[k.media].meta]
  BY <1>1 DEF IInv, FilesOK
<1> QED
  BY <1>1, <1>2, <1>3, AtWork DEF Object

\* What the file is compressed to.
LEMMA NewKeyFacts ==
  ASSUME IInv, NEW w \in Workers, wk[w].pc # "idle"
  PROVE  /\ NewMimeType(w) \in AllowedMimeTypes
         /\ NewMimeType(w) \in MimeTypes
         /\ Converted(NewMimeType(w))
         /\ NewKey(w) = FileKey(Media(w), MimeTypeToExtension(NewMimeType(w)))
         /\ NewKey(w) \in Key
         /\ NewKey(w).media = Media(w)
         /\ NewKey(w).ext \in Extensions
         /\ Converted(wk[w].media.mime) => NewKey(w) = wk[w].media.key
         /\ ~Converted(wk[w].media.mime) => NewKey(w) = WebpKey(Media(w))
         /\ NewKey(w) # wk[w].media.key => ~Converted(wk[w].media.mime)
<1> DEFINE mime == wk[w].media.mime
<1>1. /\ mime \in AllowedMimeTypes
      /\ Media(w) \in Medias
      /\ wk[w].media.key = FileKey(Media(w), MimeTypeToExtension(mime))
  BY AtWork
<1>2. CASE Converted(mime)
  <2>1. NewMimeType(w) = mime
    BY <1>1, <1>2, MimeFacts DEF NewMimeType
  <2>2. NewKey(w) = wk[w].media.key
    BY <2>1 DEF NewKey
  <2> QED
    BY <1>1, <1>2, <2>1, <2>2, MimeFacts, FileKeyFacts
<1>3. CASE ~Converted(mime)
  <2>1. NewMimeType(w) = "image/webp" /\ mime # "image/webp"
    BY <1>1, <1>3, MimeFacts DEF NewMimeType
  <2>2. NewKey(w) = WebpKey(Media(w))
    BY <2>1, WebpFacts DEF NewKey, WebpKey
  <2>3. ".webp" \in Extensions
    BY DEF Extensions
  <2> QED
    BY <1>1, <1>3, <2>1, <2>2, <2>3, WebpFacts, MimeFacts, FileKeyFacts DEF WebpKey
<1> QED
  BY <1>2, <1>3

LEMMA TempFacts ==
  ASSUME IInv, NEW w \in Workers, wk[w].pc # "idle"
  PROVE  /\ Temp(w) \in Key
         /\ Temp(w).media = Media(w)
         /\ Temp(w).kind = "temp"
         /\ ~Lasting(Temp(w))
  BY AtWork, NewKeyFacts, TempKeyFacts DEF Temp

\* A failed or dead task may be delivered again.
LEMMA RequeueOK ==
  ASSUME IInv, NEW w \in Workers, wk[w].pc # "idle",
         Requeue(w) \/ UNCHANGED tasks, UNCHANGED db
  PROVE  QueueOK'
<1>1. /\ wk[w].task \in Task
      /\ wk[w].task.kind = "resize" => db[wk[w].task.media].optimised
  BY AtWork DEF Local
<1>2. PICK t \in Task : t = wk[w].task
  BY <1>1
<1> QED
  BY <1>1, <1>2, EnqueueStep DEF IInv, Requeue

LEMMA FailStep ==
  ASSUME IInv, NEW w \in Workers, wk[w].pc # "idle", Fail(w),
         UNCHANGED <<db, store, details, etags, backlog, crashes, backlogs>>
  PROVE  IInv'
<1>1. QueueOK'
  BY RequeueOK DEF Fail
<1>2. wk' = [wk EXCEPT ![w] = IdleWorker]
  BY DEF Fail
<1> QED
  BY <1>1, <1>2, IdleFacts, LocalStep, Assemble

LEMMA GotoFacts ==
  ASSUME NEW w \in Workers, NEW pc, Goto(w, pc)
  PROVE  wk' = [wk EXCEPT ![w] = [wk[w] EXCEPT !.pc = pc]]
  BY DEF Goto

\* The steps that read, or that nobody but the worker sees.
LEMMA OpenOriginalInv ==
  ASSUME IInv, NEW w \in Workers, OpenOriginal(w)
  PROVE  IInv'
<1>1. wk[w].pc = "open" /\ wk[w].pc # "idle"
  BY DEF OpenOriginal
<1>2. CASE Fail(w)
  BY <1>1, <1>2, FailStep DEF OpenOriginal
<1>3. CASE ~Fail(w)
  <2> DEFINE s == [wk[w] EXCEPT !.pc = "save_temp", !.blob = Original(w).blob]
  <2>1. /\ Original(w) # NoObject
        /\ wk' = [wk EXCEPT ![w] = s]
        /\ UNCHANGED <<db, store, tasks, details, etags, backlog, crashes, backlogs>>
    BY <1>3 DEF OpenOriginal
  <2>2. wk[w].media.key \in Key /\ wk[w].media.key.media = Media(w)
    BY <1>1, AtWork, CopyKey
  <2>3. /\ Original(w).blob \in Blobs
        /\ Origin[Original(w).blob] = Origin[wk[w].media.meta]
    BY <1>1, <2>1, <2>2, FileFacts DEF Original
  <2>4. s \in WorkerState
    BY <1>1, <2>3, AtWork DEF WorkerState, Busy, OptimisePC
  <2>5. Local(s, db, store)
    BY <1>1, <2>3, AtWork, NilFacts DEF Local, WorkerState, ResizePC
  <2>6. QueueOK'
    BY <2>1, LaterSame, QueueStays DEF IInv
  <2> HIDE DEF s
  <2> QED
    BY <2>1, <2>4, <2>5, <2>6, LocalStep, Assemble
<1> QED
  BY <1>2, <1>3

LEMMA StatNewInv ==
  ASSUME IInv, NEW w \in Workers, StatNew(w)
  PROVE  IInv'
<1>1. wk[w].pc = "stat" /\ wk[w].pc # "idle"
  BY DEF StatNew
<1>2. CASE Fail(w)
  BY <1>1, <1>2, FailStep DEF StatNew
<1>3. CASE ~Fail(w)
  <2> DEFINE s == [wk[w] EXCEPT !.pc = "update", !.size = Size[Here(w, NewKey(w)).blob]]
  <2>1. /\ Here(w, NewKey(w)) # NoObject
        /\ wk' = [wk EXCEPT ![w] = s]
        /\ UNCHANGED <<db, store, tasks, details, etags, backlog, crashes, backlogs>>
    BY <1>3 DEF StatNew
  <2>2. Size[Here(w, NewKey(w)).blob] \in Nat
    BY <1>1, <2>1, NewKeyFacts, FileFacts, BlobsAssumption
  <2>3. s \in WorkerState
    BY <1>1, <2>2, AtWork DEF WorkerState, Busy, OptimisePC
  <2>4. Local(s, db, store)
    BY <1>1, AtWork DEF Local, WorkerState, ResizePC
  <2>5. QueueOK'
    BY <2>1, LaterSame, QueueStays DEF IInv
  <2> HIDE DEF s
  <2> QED
    BY <2>1, <2>3, <2>4, <2>5, LocalStep, Assemble
<1> QED
  BY <1>2, <1>3

LEMMA EnqueueInv ==
  ASSUME IInv, NEW w \in Workers, EnqueueResizeImage(w)
  PROVE  IInv'
<1>1. wk[w].pc = "enqueue" /\ wk[w].pc # "idle"
  BY DEF EnqueueResizeImage
<1> DEFINE s == [wk[w] EXCEPT !.pc = "uncache"]
<1>2. wk' = [wk EXCEPT ![w] = s]
  BY DEF EnqueueResizeImage, Goto
<1>3. s \in WorkerState
  BY <1>1, AtWork DEF WorkerState, Busy, UncachePC
<1>4. Local(s, db, store)
  BY <1>1, AtWork DEF Local, WorkerState, ResizePC
<1>5. QueueOK'
  <2>1. PICK t : t = ResizeTask(Media(w))
    OBVIOUS
  <2>2. t \in Task /\ t.media = Media(w)
    BY <1>1, <2>1, AtWork DEF ResizeTask, Task, TaskKinds
  <2>3. db[t.media].optimised
    BY <1>1, <2>2, AtWork DEF Local, Media
  <2> QED
    BY <2>1, <2>2, <2>3, EnqueueStep DEF EnqueueResizeImage, Enqueue, IInv
<1> HIDE DEF s
<1> QED
  BY <1>2, <1>3, <1>4, <1>5, LocalStep, Assemble DEF EnqueueResizeImage

LEMMA UncacheInv ==
  ASSUME IInv, NEW w \in Workers, Uncache(w) \/ UncacheEtag(w)
  PROVE  IInv'
<1>1. /\ wk[w].pc # "idle"
      /\ wk[w].pc \in UncachePC
      /\ UNCHANGED <<db, store, tasks, backlog, crashes, backlogs>>
  BY DEF Uncache, UncacheEtag, UncachePC
<1> DEFINE s == [wk[w] EXCEPT !.pc = "uncache_etag"]
<1>2. s \in WorkerState
  BY <1>1, AtWork DEF WorkerState, Busy, UncachePC
<1>3. Local(s, db, store)
  BY <1>1, AtWork DEF Local, WorkerState, ResizePC
<1>4. QueueOK'
  BY <1>1, LaterSame, QueueStays DEF IInv
<1>5. \E r \in WorkerState : wk' = [wk EXCEPT ![w] = r] /\ Local(r, db, store)
  BY <1>2, <1>3, IdleFacts DEF Uncache, UncacheEtag, Goto
<1>6. RowsOK' /\ FilesOK' /\ WorkersOK' /\ Later(db, store, db', store')
  BY <1>1, <1>4, <1>5, LocalStep
<1>7. BacklogOK'
  BY <1>1, <1>6, BacklogStays DEF IInv
<1>8. CountersOK'
  <2>1. details' \in [Medias -> Rendering \cup {Nil}]
    BY DEF Uncache, UncacheEtag, DeleteMediaDetails, IInv, CountersOK, CacheTypeOK
  <2>2. etags' \in [Medias -> Rendering \cup {Nil}]
    BY DEF Uncache, UncacheEtag, DeleteEtagMediaDetails, IInv, CountersOK, CacheTypeOK
  <2> QED
    BY <1>1, <2>1, <2>2 DEF IInv, CountersOK, CacheTypeOK
<1> QED
  BY <1>4, <1>6, <1>7, <1>8 DEF IInv

LEMMA CrashInv ==
  ASSUME IInv, NEW w \in Workers, Crash(w)
  PROVE  IInv'
<1>1. /\ wk[w].pc # "idle"
      /\ UNCHANGED <<db, store, details, etags, backlog, backlogs>>
  BY DEF Crash
<1>2. QueueOK'
  BY <1>1, RequeueOK DEF Crash
<1>3. RowsOK' /\ FilesOK' /\ WorkersOK' /\ Later(db, store, db', store')
  BY <1>1, <1>2, IdleFacts, LocalStep DEF Crash
<1>4. BacklogOK'
  BY <1>1, <1>3, BacklogStays DEF IInv
<1>5. CountersOK'
  BY <1>1, PipelineAssumption DEF Crash, IInv, CountersOK, CacheTypeOK
<1> QED
  BY <1>2, <1>3, <1>4, <1>5 DEF IInv

LEMMA StartInv ==
  ASSUME IInv, NEW w \in Workers, NEW t \in Task, Start(w, t)
  PROVE  IInv'
<1>1. UNCHANGED <<db, store, details, etags, backlog, crashes, backlogs>>
  BY DEF Start
<1>2. QueueOK'
  <2>1. tasks[t] \in Nat /\ tasks[t] > 0
    BY DEF Start, IInv, QueueOK
  <2>2. tasks' \in [Task -> Nat] /\ \A u \in Task : tasks'[u] <= tasks[u]
    BY <2>1 DEF Start, IInv, QueueOK
  <2>3. \A m \in Medias : ResizeTask(m) \in Task
    BY DEF ResizeTask, Task, TaskKinds
  <2>4. \A u \in Task : tasks[u] \in Nat
    BY DEF IInv, QueueOK
  <2>5. ASSUME NEW m \in Medias, tasks'[ResizeTask(m)] > 0
        PROVE  tasks[ResizeTask(m)] > 0
    BY <2>2, <2>3, <2>4, <2>5
  <2> QED
    BY <1>1, <2>2, <2>5 DEF IInv, QueueOK
<1>3. CASE UNCHANGED wk
  BY <1>1, <1>2, <1>3, LaterSame, WorkersStay, Assemble
  DEF IInv, RowsOK, FilesOK
<1>4. CASE ~UNCHANGED wk
  <2> DEFINE s == [IdleWorker EXCEPT
                    !.pc = FirstPC(t), !.task = t, !.media = db[t.media], !.i = 1]
  <2>1. Startable(t) /\ wk' = [wk EXCEPT ![w] = s] /\ tasks[t] > 0
    BY <1>4 DEF Start
  <2>2. t.media \in Medias /\ t.kind \in TaskKinds
    BY DEF Task
  <2>3. CopyOf(t.media, db[t.media], db, store)
    BY <2>2 DEF IInv, RowsOK
  <2>4. FirstPC(t) \in {"open", "update_variants", "variant"}
    BY DEF FirstPC
  <2>5. s \in WorkerState
    BY <2>2, <2>3, <2>4, CopyKey
    DEF IdleWorker, WorkerState, Busy, OptimisePC, ResizePC
  <2>6. t.kind = "resize" => db[t.media].optimised
    <3>1. t.kind = "resize" => t = ResizeTask(t.media)
      BY DEF ResizeTask, Task
    <3> QED
      BY <2>1, <2>2, <3>1 DEF IInv, QueueOK
  <2>7. FirstPC(t) = "variant" => 1 \in 1..Len(TargetWidths)
    <3>1. TargetWidths \in Seq(Widths)
      BY PipelineAssumption
    <3> QED
      BY <3>1 DEF FirstPC
  <2>8. FirstPC(t) \in ResizePC => t.kind = "resize"
    BY <2>2 DEF FirstPC, ResizePC, TaskKinds
  <2>9. Local(s, db, store)
    BY <2>3, <2>4, <2>6, <2>7, <2>8 DEF Local, IdleWorker
  <2> HIDE DEF s
  <2> QED
    BY <1>1, <1>2, <2>1, <2>5, <2>9, LocalStep, Assemble
<1> QED
  BY <1>3, <1>4

\* The steps that write or remove a file.
LEMMA SaveTempInv ==
  ASSUME IInv, NEW w \in Workers, SaveTemp(w)
  PROVE  IInv'
<1>1. wk[w].pc = "save_temp" /\ wk[w].pc # "idle"
  BY DEF SaveTemp
<1>2. CASE Fail(w) /\ UNCHANGED store
  BY <1>1, <1>2, FailStep DEF SaveTemp
<1>3. CASE ~(Fail(w) /\ UNCHANGED store)
  <2> DEFINE s == [wk[w] EXCEPT !.pc = "copy_temp"]
             o == [type |-> NewMimeType(w), blob |-> Packed[wk[w].blob]]
  <2>1. /\ StoreSave(wk[w].media.bucket, Temp(w), o)
        /\ wk' = [wk EXCEPT ![w] = s]
        /\ UNCHANGED <<db, tasks, details, etags, backlog, crashes, backlogs>>
    BY <1>3 DEF SaveTemp, Goto
  <2>2. /\ wk[w].blob \in Blobs
        /\ Origin[wk[w].blob] = Origin[wk[w].media.meta]
    BY <1>1, AtWork DEF Local, WorkerState
  <2>3. o \in Object /\ Origin[o.blob] = Origin[wk[w].media.meta]
    BY <1>1, <2>2, NewKeyFacts, PipelineAssumption DEF Object
  <2> HIDE DEF o
  <2>4. RowsOK' /\ FilesOK' /\ Later(db, store, db', store')
    BY <1>1, <2>1, <2>3, AtWork, TempFacts, SaveStep DEF IInv
  <2>5. s \in WorkerState
    BY <1>1, AtWork DEF WorkerState, Busy, OptimisePC
  <2>6. Local(wk[w], db', store')
    BY <1>1, <2>4, AtWork, LocalStays
  <2>7. Local(s, db', store')
    BY <1>1, <2>6, AtWork DEF Local, WorkerState, ResizePC
  <2> HIDE DEF s
  <2>8. WorkersOK'
    BY <2>1, <2>4, <2>5, <2>7, WorkersStep DEF IInv
  <2>9. QueueOK'
    BY <2>1, <2>4, QueueStays DEF IInv
  <2> QED
    BY <2>1, <2>4, <2>8, <2>9, Assemble
<1> QED
  BY <1>2, <1>3

LEMMA CopyTempInv ==
  ASSUME IInv, NEW w \in Workers, CopyTemp(w)
  PROVE  IInv'
<1>1. wk[w].pc = "copy_temp" /\ wk[w].pc # "idle"
  BY DEF CopyTemp
<1>2. CASE Fail(w) /\ UNCHANGED store
  BY <1>1, <1>2, FailStep DEF CopyTemp
<1>3. CASE ~(Fail(w) /\ UNCHANGED store)
  <2> DEFINE s == [wk[w] EXCEPT !.pc = "remove_temp"]
             o == Here(w, Temp(w))
  <2>1. /\ o # NoObject
        /\ StoreSave(wk[w].media.bucket, NewKey(w), o)
        /\ wk' = [wk EXCEPT ![w] = s]
        /\ UNCHANGED <<db, tasks, details, etags, backlog, crashes, backlogs>>
    BY <1>3 DEF CopyTemp, Goto
  <2>2. o \in Object /\ Origin[o.blob] = Origin[wk[w].media.meta]
    BY <1>1, <2>1, TempFacts, FileFacts
  <2> HIDE DEF o
  <2>3. /\ RowsOK' /\ FilesOK' /\ Later(db, store, db', store')
        /\ store'[wk[w].media.bucket][NewKey(w)] = o
    BY <1>1, <2>1, <2>2, AtWork, NewKeyFacts, SaveStep DEF IInv
  <2>4. s \in WorkerState
    BY <1>1, AtWork DEF WorkerState, Busy, OptimisePC
  <2>5. Local(wk[w], db', store')
    BY <1>1, <2>3, AtWork, LocalStays
  <2>6. ~Converted(wk[w].media.mime) =>
          store'[wk[w].media.bucket][WebpKey(wk[w].task.media)] # NoObject
    BY <1>1, <2>1, <2>3, NewKeyFacts DEF Media
  <2>7. Local(s, db', store')
    BY <1>1, <2>5, <2>6, AtWork DEF Local, WorkerState, ResizePC
  <2> HIDE DEF s
  <2>8. WorkersOK'
    BY <2>1, <2>3, <2>4, <2>7, WorkersStep DEF IInv
  <2>9. QueueOK'
    BY <2>1, <2>3, QueueStays DEF IInv
  <2> QED
    BY <2>1, <2>3, <2>8, <2>9, Assemble
<1> QED
  BY <1>2, <1>3

LEMMA RemoveTempInv ==
  ASSUME IInv, NEW w \in Workers, RemoveTemp(w)
  PROVE  IInv'
<1>1. wk[w].pc = "remove_temp" /\ wk[w].pc # "idle"
  BY DEF RemoveTemp
<1>2. PICK pc \in {"remove_old", "stat"} :
        /\ pc = IF NewKey(w) # wk[w].media.key THEN "remove_old" ELSE "stat"
        /\ Goto(w, pc)
  BY DEF RemoveTemp
<1> DEFINE s == [wk[w] EXCEPT !.pc = pc]
<1>3. /\ StoreRemove(wk[w].media.bucket, Temp(w)) \/ UNCHANGED store
      /\ wk' = [wk EXCEPT ![w] = s]
      /\ UNCHANGED <<db, tasks, details, etags, backlog, crashes, backlogs>>
  BY <1>2 DEF RemoveTemp, Goto
<1>4. RowsOK' /\ FilesOK' /\ Later(db, store, db', store')
  BY <1>1, <1>3, AtWork, TempFacts, RemoveStep DEF IInv
<1>5. s \in WorkerState
  BY <1>1, AtWork DEF WorkerState, Busy, OptimisePC
<1>6. Local(wk[w], db', store')
  BY <1>1, <1>4, AtWork, LocalStays
<1>7. pc = "remove_old" => ~Converted(wk[w].media.mime)
  BY <1>1, <1>2, NewKeyFacts
<1>8. Local(s, db', store')
  BY <1>1, <1>6, <1>7, AtWork DEF Local, WorkerState, ResizePC
<1> HIDE DEF s
<1>9. WorkersOK'
  BY <1>3, <1>4, <1>5, <1>8, WorkersStep DEF IInv
<1>10. QueueOK'
  BY <1>3, <1>4, QueueStays DEF IInv
<1> QED
  BY <1>3, <1>4, <1>9, <1>10, Assemble

LEMMA RemoveOldInv ==
  ASSUME IInv, NEW w \in Workers, RemoveOld(w)
  PROVE  IInv'
<1>1. wk[w].pc = "remove_old" /\ wk[w].pc # "idle"
  BY DEF RemoveOld
<1> DEFINE s == [wk[w] EXCEPT !.pc = "stat"]
<1>2. /\ StoreRemove(wk[w].media.bucket, wk[w].media.key) \/ UNCHANGED store
      /\ wk' = [wk EXCEPT ![w] = s]
      /\ UNCHANGED <<db, tasks, details, etags, backlog, crashes, backlogs>>
  BY DEF RemoveOld, Goto
<1>3. /\ ~Converted(wk[w].media.mime)
      /\ store[wk[w].media.bucket][WebpKey(Media(w))] # NoObject
  BY <1>1, AtWork DEF Local, Media
<1>4. /\ wk[w].media.key \in Key
      /\ wk[w].media.key.media = Media(w)
      /\ ~Lasting(wk[w].media.key)
  BY <1>1, <1>3, AtWork, CopyKey
<1>5. RowsOK' /\ FilesOK' /\ Later(db, store, db', store')
  BY <1>1, <1>2, <1>3, <1>4, AtWork, RemoveStep DEF IInv
<1>6. s \in WorkerState
  BY <1>1, AtWork DEF WorkerState, Busy, OptimisePC
<1>7. Local(wk[w], db', store')
  BY <1>1, <1>5, AtWork, LocalStays
<1>8. Local(s, db', store')
  BY <1>1, <1>7, AtWork DEF Local, WorkerState, ResizePC
<1> HIDE DEF s
<1>9. WorkersOK'
  BY <1>2, <1>5, <1>6, <1>8, WorkersStep DEF IInv
<1>10. QueueOK'
  BY <1>2, <1>5, QueueStays DEF IInv
<1> QED
  BY <1>2, <1>5, <1>9, <1>10, Assemble

-----------------------------------------------------------------------------
(* The steps that write the row back *)

\* The row with the conversion noted is again a right copy of the row.
LEMMA OptimisedCopy ==
  ASSUME IInv, NEW w \in Workers, wk[w].pc = "update"
  PROVE  /\ CopyOf(Media(w), OptimisedRow(w), db, store)
         /\ OptimisedRow(w).optimised
<1>1. /\ wk[w].media \in Row
      /\ wk[w].size \in Nat \cup {Nil}
      /\ CopyOf(Media(w), wk[w].media, db, store)
  BY AtWork DEF WorkerState
<1>2. /\ NewMimeType(w) \in AllowedMimeTypes
      /\ NewKey(w) \in Key
      /\ Converted(NewMimeType(w))
      /\ NewKey(w) = FileKey(Media(w), MimeTypeToExtension(NewMimeType(w)))
  BY NewKeyFacts
<1>3. /\ OptimisedRow(w) \in Row
      /\ OptimisedRow(w).bucket = wk[w].media.bucket
      /\ OptimisedRow(w).meta = wk[w].media.meta
      /\ OptimisedRow(w).status = wk[w].media.status
      /\ OptimisedRow(w).variants = wk[w].media.variants
      /\ OptimisedRow(w).mime = NewMimeType(w)
      /\ OptimisedRow(w).key = NewKey(w)
      /\ OptimisedRow(w).optimised = TRUE
  BY <1>1, <1>2 DEF OptimisedRow, Row
<1>4. store[wk[w].media.bucket][NewKey(w)] # NoObject
  <2>1. CASE Converted(wk[w].media.mime)
    BY <1>1, <2>1, NewKeyFacts DEF CopyOf
  <2>2. CASE ~Converted(wk[w].media.mime)
    BY <2>2, AtWork, NewKeyFacts DEF Local, Media
  <2> QED
    BY <2>1, <2>2
<1>5. \A i \in 1..Len(OptimisedRow(w).variants) :
        VariantOf(Media(w), OptimisedRow(w).variants[i], OptimisedRow(w), store)
  BY <1>1, <1>3 DEF CopyOf, VariantOf
<1>6. /\ OptimisedRow(w).bucket = db[Media(w)].bucket
      /\ OptimisedRow(w).meta = db[Media(w)].meta
      /\ OptimisedRow(w).meta \in Blobs
      /\ OptimisedRow(w).status = "completed"
  BY <1>1, <1>3 DEF CopyOf
<1> HIDE DEF OptimisedRow
<1> QED
  BY <1>2, <1>3, <1>4, <1>5, <1>6 DEF CopyOf

LEMMA UpdateOptimisedInv ==
  ASSUME IInv, NEW w \in Workers, UpdateOptimised(w)
  PROVE  IInv'
<1>1. wk[w].pc = "update" /\ wk[w].pc # "idle"
  BY DEF UpdateOptimised
<1>2. CASE Fail(w) /\ UNCHANGED db
  BY <1>1, <1>2, FailStep DEF UpdateOptimised
<1>3. CASE ~(Fail(w) /\ UNCHANGED db)
  <2>1. PICK pc \in {"enqueue", "uncache"} : Goto(w, pc)
    BY <1>3 DEF UpdateOptimised
  <2> DEFINE s == [wk[w] EXCEPT !.pc = pc]
  <2>2. /\ RepoUpdate(Media(w), OptimisedRow(w))
        /\ wk' = [wk EXCEPT ![w] = s]
        /\ UNCHANGED <<store, tasks, details, etags, backlog, crashes, backlogs>>
    BY <1>3, <2>1 DEF UpdateOptimised, Goto
  <2>3. /\ CopyOf(Media(w), OptimisedRow(w), db, store)
        /\ OptimisedRow(w).optimised
        /\ Media(w) \in Medias
    BY <1>1, OptimisedCopy, AtWork
  <2>4. PICK row : row = OptimisedRow(w)
    OBVIOUS
  <2>5. /\ RowsOK' /\ FilesOK' /\ Later(db, store, db', store')
        /\ db' = [db EXCEPT ![Media(w)] = row]
    BY <2>2, <2>3, <2>4, UpdateStep DEF IInv
  <2>6. s \in WorkerState
    BY <1>1, AtWork DEF WorkerState, Busy, OptimisePC, UncachePC
  <2>7. Local(wk[w], db', store')
    BY <1>1, <2>5, AtWork, LocalStays
  <2>8. db'[Media(w)].optimised
    BY <2>3, <2>4, <2>5 DEF IInv, RowsOK
  <2>9. Local(s, db', store')
    BY <1>1, <2>7, <2>8, AtWork DEF Local, WorkerState, ResizePC, Media
  <2> HIDE DEF s
  <2>10. WorkersOK'
    BY <2>2, <2>5, <2>6, <2>9, WorkersStep DEF IInv
  <2>11. QueueOK'
    BY <2>2, <2>5, QueueStays DEF IInv
  <2> QED
    BY <2>2, <2>5, <2>10, <2>11, Assemble
<1> QED
  BY <1>2, <1>3

LEMMA UpdateVariantsInv ==
  ASSUME IInv, NEW w \in Workers, UpdateVariants(w)
  PROVE  IInv'
<1>1. wk[w].pc = "update_variants" /\ wk[w].pc # "idle"
  BY DEF UpdateVariants
<1>2. CASE Fail(w) /\ UNCHANGED db
  BY <1>1, <1>2, FailStep DEF UpdateVariants
<1>3. CASE ~(Fail(w) /\ UNCHANGED db)
  <2> DEFINE s == [wk[w] EXCEPT !.pc = "uncache"]
  <2>1. /\ RepoUpdate(Media(w), wk[w].media)
        /\ wk' = [wk EXCEPT ![w] = s]
        /\ UNCHANGED <<store, tasks, details, etags, backlog, crashes, backlogs>>
    BY <1>3 DEF UpdateVariants, Goto
  <2>2. wk[w].media.optimised
    BY <1>1, AtWork DEF Local, ResizePC
  <2>3. RowsOK' /\ FilesOK' /\ Later(db, store, db', store')
    BY <1>1, <2>1, <2>2, AtWork, UpdateStep DEF IInv
  <2>4. s \in WorkerState
    BY <1>1, AtWork DEF WorkerState, Busy, UncachePC
  <2>5. Local(wk[w], db', store')
    BY <1>1, <2>3, AtWork, LocalStays
  <2>6. Local(s, db', store')
    BY <1>1, <2>5, AtWork DEF Local, WorkerState, ResizePC
  <2> HIDE DEF s
  <2>7. WorkersOK'
    BY <2>1, <2>3, <2>4, <2>6, WorkersStep DEF IInv
  <2>8. QueueOK'
    BY <2>1, <2>3, QueueStays DEF IInv
  <2> QED
    BY <2>1, <2>3, <2>7, <2>8, Assemble
<1> QED
  BY <1>2, <1>3

-----------------------------------------------------------------------------
(* The steps of a resize *)

LEMMA WidthFacts ==
  ASSUME IInv, NEW w \in Workers,
         wk[w].pc \in {"variant", "save_variant", "stat_variant"}
  PROVE  /\ wk[w].i \in 1..Len(TargetWidths)
         /\ Target(w) \in Nat \ {0}
         /\ FullWidth(w) \in Nat \ {0}
         /\ FullHeight(w) \in Nat \ {0}
         /\ WidthKey(w) = VariantKey(Media(w), Target(w))
         /\ WidthKey(w) \in Key
         /\ WidthKey(w).media = Media(w)
         /\ WidthKey(w).kind = "variant"
         /\ WidthKey(w).width = Target(w)
<1>1. wk[w].i \in 1..Len(TargetWidths) /\ TargetWidths \in Seq(Widths)
  BY AtWork, PipelineAssumption DEF Local
<1>2. Target(w) \in Widths
  BY <1>1 DEF Target
<1>3. wk[w].media.meta \in Blobs /\ Media(w) \in Medias
  BY AtWork
<1>4. WidthKey(w) = VariantKey(Media(w), Target(w))
  BY DEF WidthKey
<1>5. Target(w) \in Nat \ {0}
  BY <1>2, SizesAssumption
<1>6. FullWidth(w) \in Nat \ {0} /\ FullHeight(w) \in Nat \ {0}
  BY <1>3, PipelineAssumption DEF FullWidth, FullHeight
<1>7. /\ VariantKey(Media(w), Target(w)) \in Key
      /\ VariantKey(Media(w), Target(w)).media = Media(w)
      /\ VariantKey(Media(w), Target(w)).kind = "variant"
      /\ VariantKey(Media(w), Target(w)).width = Target(w)
  BY <1>2, <1>3, VariantKeyFacts
<1> QED
  BY <1>1, <1>4, <1>5, <1>6, <1>7

LEMMA MakeVariantInv ==
  ASSUME IInv, NEW w \in Workers, MakeVariant(w)
  PROVE  IInv'
<1>1. wk[w].pc = "variant" /\ wk[w].pc # "idle"
  BY DEF MakeVariant
<1>2. CASE Fail(w) /\ UNCHANGED store
  BY <1>1, <1>2, FailStep DEF MakeVariant
<1>3. CASE /\ Shrinks(w)
           /\ Original(w) # NoObject
           /\ wk' = [wk EXCEPT ![w].pc = "save_variant",
                               ![w].blob = Original(w).blob]
           /\ UNCHANGED <<store, tasks>>
  <2> DEFINE s == [wk[w] EXCEPT !.pc = "save_variant", !.blob = Original(w).blob]
  <2>1. /\ wk' = [wk EXCEPT ![w] = s]
        /\ UNCHANGED <<db, store, tasks, details, etags, backlog, crashes, backlogs>>
    BY <1>3 DEF MakeVariant
  <2>2. wk[w].media.key \in Key /\ wk[w].media.key.media = Media(w)
    BY <1>1, AtWork, CopyKey
  <2>3. /\ Original(w).blob \in Blobs
        /\ Origin[Original(w).blob] = Origin[wk[w].media.meta]
    BY <1>1, <1>3, <2>2, FileFacts DEF Original
  <2>4. s \in WorkerState
    BY <1>1, <2>3, AtWork DEF WorkerState, Busy, ResizePC
  <2>5. TargetWidths[wk[w].i] < ImageWidth[wk[w].media.meta]
    BY <1>3 DEF Shrinks, Target, FullWidth
  <2>6. Local(s, db, store)
    BY <1>1, <2>3, <2>5, AtWork, NilFacts DEF Local, WorkerState, ResizePC
  <2>7. QueueOK'
    BY <2>1, LaterSame, QueueStays DEF IInv
  <2> HIDE DEF s
  <2> QED
    BY <2>1, <2>4, <2>6, <2>7, LocalStep, Assemble
<1>4. CASE /\ ~Shrinks(w)
           /\ Original(w) # NoObject
           /\ StoreSave(wk[w].media.bucket, WidthKey(w), Original(w))
           /\ Goto(w, "stat_variant")
           /\ UNCHANGED tasks
  <2> DEFINE s == [wk[w] EXCEPT !.pc = "stat_variant"]
             o == Original(w)
  <2>1. /\ wk' = [wk EXCEPT ![w] = s]
        /\ UNCHANGED <<db, tasks, details, etags, backlog, crashes, backlogs>>
    BY <1>4 DEF MakeVariant, Goto
  <2>2. wk[w].media.key \in Key /\ wk[w].media.key.media = Media(w)
    BY <1>1, AtWork, CopyKey
  <2>3. o \in Object /\ Origin[o.blob] = Origin[wk[w].media.meta]
    BY <1>1, <1>4, <2>2, FileFacts DEF Original
  <2> HIDE DEF o
  <2>4. RowsOK' /\ FilesOK' /\ Later(db, store, db', store')
    <3>1. StoreSave(wk[w].media.bucket, WidthKey(w), o)
      BY <1>4 DEF o
    <3> QED
      BY <1>1, <2>1, <2>3, <3>1, AtWork, WidthFacts, SaveStep DEF IInv
  <2>5. s \in WorkerState
    BY <1>1, AtWork DEF WorkerState, Busy, ResizePC
  <2>6. Local(wk[w], db', store')
    BY <1>1, <2>4, AtWork, LocalStays
  <2>7. ~(TargetWidths[wk[w].i] < ImageWidth[wk[w].media.meta])
    BY <1>4 DEF Shrinks, Target, FullWidth
  <2>8. Local(s, db', store')
    BY <1>1, <2>6, <2>7, AtWork DEF Local, WorkerState, ResizePC
  <2> HIDE DEF s
  <2>9. WorkersOK'
    BY <2>1, <2>4, <2>5, <2>8, WorkersStep DEF IInv
  <2>10. QueueOK'
    BY <2>1, <2>4, QueueStays DEF IInv
  <2> QED
    BY <2>1, <2>4, <2>9, <2>10, Assemble
<1> QED
  BY <1>2, <1>3, <1>4 DEF MakeVariant

LEMMA SaveVariantInv ==
  ASSUME IInv, NEW w \in Workers, SaveVariant(w)
  PROVE  IInv'
<1>1. wk[w].pc = "save_variant" /\ wk[w].pc # "idle"
  BY DEF SaveVariant
<1>2. CASE Fail(w) /\ UNCHANGED store
  BY <1>1, <1>2, FailStep DEF SaveVariant
<1>3. CASE ~(Fail(w) /\ UNCHANGED store)
  <2> DEFINE s == [wk[w] EXCEPT !.pc = "stat_variant"]
             o == [type |-> "image/webp", blob |-> Shrunk[wk[w].blob]]
  <2>1. /\ VariantHeight(w) > 0
        /\ StoreSave(wk[w].media.bucket, WidthKey(w), o)
        /\ wk' = [wk EXCEPT ![w] = s]
        /\ UNCHANGED <<db, tasks, details, etags, backlog, crashes, backlogs>>
    BY <1>3 DEF SaveVariant, Goto
  <2>2. /\ wk[w].blob \in Blobs
        /\ Origin[wk[w].blob] = Origin[wk[w].media.meta]
        /\ Shrinks(w)
    BY <1>1, AtWork DEF Local, WorkerState, Shrinks, Target, FullWidth
  <2>3. o \in Object /\ Origin[o.blob] = Origin[wk[w].media.meta]
    BY <1>1, <2>2, WebpFacts, MimeFacts, PipelineAssumption DEF Object
  <2> HIDE DEF o
  <2>4. RowsOK' /\ FilesOK' /\ Later(db, store, db', store')
    BY <1>1, <2>1, <2>3, AtWork, WidthFacts, SaveStep DEF IInv
  <2>5. s \in WorkerState
    BY <1>1, AtWork DEF WorkerState, Busy, ResizePC
  <2>6. Local(wk[w], db', store')
    BY <1>1, <2>4, AtWork, LocalStays
  <2>7. (ImageHeight[wk[w].media.meta] * TargetWidths[wk[w].i])
          \div ImageWidth[wk[w].media.meta] > 0
    BY <2>1, <2>2 DEF VariantHeight, FullHeight, FullWidth, Target
  <2>8. Local(s, db', store')
    BY <1>1, <2>6, <2>7, AtWork DEF Local, WorkerState, ResizePC
  <2> HIDE DEF s
  <2>9. WorkersOK'
    BY <2>1, <2>4, <2>5, <2>8, WorkersStep DEF IInv
  <2>10. QueueOK'
    BY <2>1, <2>4, QueueStays DEF IInv
  <2> QED
    BY <2>1, <2>4, <2>9, <2>10, Assemble
<1> QED
  BY <1>2, <1>3

\* The dimensions of a variant, as StatVariant writes them down.
LEMMA VariantFits ==
  ASSUME IInv, NEW w \in Workers, wk[w].pc = "stat_variant",
         NEW v, v.width = VariantWidth(w), v.height = VariantHeight(w),
         v.key = WidthKey(w)
  PROVE  /\ Fits(v, wk[w].media.meta)
         /\ VariantWidth(w) \in Nat
         /\ VariantHeight(w) \in Nat
<1>1. PICK t \in Nat \ {0} : t = Target(w)
  BY WidthFacts
<1>2. PICK fw \in Nat \ {0} : fw = FullWidth(w)
  BY WidthFacts
<1>3. PICK fh \in Nat \ {0} : fh = FullHeight(w)
  BY WidthFacts
<1>4. v.key.width = t /\ ImageWidth[wk[w].media.meta] = fw
      /\ ImageHeight[wk[w].media.meta] = fh
  BY <1>1, <1>2, <1>3, WidthFacts DEF FullWidth, FullHeight
<1>5. CASE t < fw
  <2>1. PICK a \in Nat : a = fh * t
    OBVIOUS
  <2>2. PICK q : q = a \div fw
    OBVIOUS
  <2>3. VariantWidth(w) = t /\ VariantHeight(w) = q
    BY <1>1, <1>2, <1>3, <1>5, <2>1, <2>2
    DEF VariantWidth, VariantHeight, Shrinks
  <2>4. q > 0
    BY <1>1, <1>4, <1>5, <2>1, <2>2, AtWork DEF Local, Target
  <2>5. q \in Nat /\ q * fw <= a /\ a < (q + 1) * fw
    BY <2>2, DivFacts
  <2>6. q <= fh
    <3>1. t \in Nat /\ fw \in Nat /\ fh \in Nat /\ fw > 0 /\ t <= fw
      BY <1>5
    <3> QED
      BY <2>1, <2>5, <3>1, Cancel
  <2> QED
    BY <1>4, <1>5, <2>1, <2>3, <2>4, <2>5, <2>6 DEF Fits
<1>6. CASE ~(t < fw)
  <2>1. VariantWidth(w) = fw /\ VariantHeight(w) = fh
    BY <1>1, <1>2, <1>3, <1>6 DEF VariantWidth, VariantHeight, Shrinks
  <2>2. fh * fw < (fh + 1) * fw
    BY Z3
  <2> QED
    BY <1>4, <1>6, <2>1, <2>2 DEF Fits
<1> QED
  BY <1>5, <1>6

LEMMA StatVariantInv ==
  ASSUME IInv, NEW w \in Workers, StatVariant(w)
  PROVE  IInv'
<1>1. wk[w].pc = "stat_variant" /\ wk[w].pc # "idle"
  BY DEF StatVariant
<1>2. CASE Fail(w)
  BY <1>1, <1>2, FailStep DEF StatVariant
<1>3. CASE ~Fail(w)
  <2> DEFINE v == [key    |-> WidthKey(w),
                   size   |-> Size[Here(w, WidthKey(w)).blob],
                   width  |-> VariantWidth(w),
                   height |-> VariantHeight(w)]
             row == [wk[w].media EXCEPT !.variants = Append(@, v)]
             pc == IF wk[w].i = Len(TargetWidths) THEN "update_variants"
                   ELSE "variant"
             s == [wk[w] EXCEPT !.pc = pc, !.i = @ + 1, !.media = row]
  <2>1. /\ Here(w, WidthKey(w)) # NoObject
        /\ UNCHANGED <<db, store, tasks, details, etags, backlog, crashes, backlogs>>
    BY <1>3 DEF StatVariant
  <2>2. wk' = [wk EXCEPT ![w] = s]
    <3>1. wk' = [wk EXCEPT ![w].pc = pc, ![w].i = @ + 1,
                           ![w].media.variants = Append(@, v)]
      BY <1>3 DEF StatVariant
    <3> HIDE DEF v, pc
    <3> QED
      BY <1>1, <3>1, AtWork DEF IInv, WorkersOK, WorkerState
  <2>3. Fits(v, wk[w].media.meta) /\ v \in Variant
    <3>1. Size[Here(w, WidthKey(w)).blob] \in Nat
      BY <1>1, <2>1, WidthFacts, FileFacts, BlobsAssumption
    <3> QED
      BY <1>1, <3>1, VariantFits, WidthFacts DEF Variant
  <2>4. /\ v.key.kind = "variant"
        /\ v.key.media = Media(w)
        /\ store[wk[w].media.bucket][v.key] # NoObject
    BY <1>1, <2>1, WidthFacts DEF Here
  <2>5. pc \in {"update_variants", "variant"}
        /\ (pc = "variant" => wk[w].i # Len(TargetWidths))
    OBVIOUS
  <2> HIDE DEF v, pc
  <2>6. CopyOf(Media(w), row, db, store)
    <3>1. wk[w].media \in Row /\ CopyOf(Media(w), wk[w].media, db, store)
      BY <1>1, AtWork
    <3>2. wk[w].media.variants \in Seq(Variant)
      BY <3>1 DEF Row
    <3>3. Append(wk[w].media.variants, v) \in Seq(Variant)
      BY <2>3, <3>2
    <3>4. /\ row \in Row
          /\ row.bucket = wk[w].media.bucket
          /\ row.meta = wk[w].media.meta
          /\ row.status = wk[w].media.status
          /\ row.mime = wk[w].media.mime
          /\ row.key = wk[w].media.key
          /\ row.optimised = wk[w].media.optimised
          /\ row.variants = Append(wk[w].media.variants, v)
      BY <3>1, <3>3 DEF Row
    <3>5. ASSUME NEW i \in 1..Len(row.variants)
          PROVE  VariantOf(Media(w), row.variants[i], row, store)
      <4>1. CASE i = Len(wk[w].media.variants) + 1
        BY <2>3, <2>4, <3>2, <3>4, <4>1 DEF VariantOf
      <4>2. CASE i # Len(wk[w].media.variants) + 1
        <5>1. /\ i \in 1..Len(wk[w].media.variants)
              /\ row.variants[i] = wk[w].media.variants[i]
          BY <2>3, <3>2, <3>4, <4>2
        <5> QED
          BY <3>1, <3>4, <5>1 DEF CopyOf, VariantOf
      <4> QED
        BY <4>1, <4>2
    <3> HIDE DEF row
    <3> QED
      BY <3>1, <3>4, <3>5 DEF CopyOf
  <2>7. /\ row \in Row
        /\ row.meta = wk[w].media.meta
        /\ row.optimised = wk[w].media.optimised
    <3>1. row \in Row /\ wk[w].media \in Row
      BY <1>1, <2>6, AtWork, CopyKey
    <3> QED
      BY <3>1 DEF Row
  <2> HIDE DEF row
  <2>8. wk[w].i \in 1..Len(TargetWidths) /\ Len(TargetWidths) \in Nat
    BY <1>1, WidthFacts, PipelineAssumption
  <2>9. s \in WorkerState
    <3>1. pc \in Busy /\ wk[w].i + 1 \in Nat
      BY <2>5, <2>8 DEF Busy, ResizePC
    <3>2. wk[w] \in WorkerState
      BY <1>1, AtWork
    <3> QED
      BY <2>7, <3>1, <3>2 DEF WorkerState
  <2>10. Local(s, db, store)
    BY <1>1, <2>5, <2>6, <2>7, <2>8, AtWork DEF Local, WorkerState, ResizePC, Media
  <2>11. QueueOK'
    BY <2>1, LaterSame, QueueStays DEF IInv
  <2> HIDE DEF s
  <2> QED
    BY <2>1, <2>2, <2>9, <2>10, <2>11, LocalStep, Assemble
<1> QED
  BY <1>2, <1>3

-----------------------------------------------------------------------------
(* The invariant is inductive *)

LEMMA InitInv == Init => IInv
<1> SUFFICES ASSUME Init PROVE IInv
  OBVIOUS
<1>1. PICK b \in Buckets, up \in [Medias -> Stored],
           queued \in [Medias -> BOOLEAN] :
        /\ db = [m \in Medias |-> FinalisedRow(m, b, up[m])]
        /\ store = [c \in Buckets |-> [k \in Key |->
                     IF c = b /\ k = FinalisedKey(k.media, up[k.media])
                     THEN up[k.media] ELSE NoObject]]
        /\ tasks = [t \in Task |->
                     IF t.kind = "optimise" /\ queued[t.media] THEN 1 ELSE 0]
  BY DEF Init
<1>2. ASSUME NEW m \in Medias
      PROVE  /\ up[m] \in Object
             /\ up[m].blob \in Blobs
             /\ up[m].type \in AllowedMimeTypes
             /\ FinalisedKey(m, up[m]) = FileKey(m, MimeTypeToExtension(up[m].type))
             /\ FinalisedKey(m, up[m]) \in Key
             /\ FinalisedKey(m, up[m]).media = m
  <2>1. up[m] \in Stored
    OBVIOUS
  <2>2. up[m] \in Object /\ up[m].type \in AllowedMimeTypes
    BY <2>1, PipelineAssumption DEF IsMimeTypeAllowed
  <2>3. MimeTypeToExtension(up[m].type) \in Extensions
    BY <2>2, MimeFacts
  <2> QED
    BY <2>2, <2>3, FileKeyFacts DEF FinalisedKey, Object
<1>3. ASSUME NEW m \in Medias
      PROVE  /\ db[m] = FinalisedRow(m, b, up[m])
             /\ db[m] \in Row
             /\ store[b][FinalisedKey(m, up[m])] = up[m]
  <2>1. <<>> \in Seq(Variant)
    OBVIOUS
  <2>2. Size[up[m].blob] \in Nat
    BY <1>2, BlobsAssumption
  <2>3. FinalisedRow(m, b, up[m]) \in Row
    BY <1>2, <2>1, <2>2 DEF FinalisedRow, Row, Status
  <2> QED
    BY <1>1, <1>2, <2>3
<1>4. RowsOK
  <2>1. db \in [Medias -> Row \cup {NoRow}]
    BY <1>1, <1>3
  <2>2. ASSUME NEW m \in Medias
        PROVE  CopyOf(m, db[m], db, store) /\ Held(m, db, store)
    <3>1. store[b][FinalisedKey(m, up[m])] # NoObject
      BY <1>2, <1>3, NilFacts
    <3>2. /\ db[m].bucket = b
          /\ db[m].key = FinalisedKey(m, up[m])
          /\ db[m].mime = up[m].type
          /\ db[m].meta = up[m].blob
          /\ db[m].status = "completed"
          /\ db[m].optimised = FALSE
          /\ db[m].variants = <<>>
      <4>1. PICK r : r = FinalisedRow(m, b, up[m])
        OBVIOUS
      <4>2. /\ r.bucket = b
            /\ r.key = FinalisedKey(m, up[m])
            /\ r.mime = up[m].type
            /\ r.meta = up[m].blob
            /\ r.status = "completed"
            /\ r.optimised = FALSE
            /\ r.variants = <<>>
        BY <4>1, Zenon DEF FinalisedRow
      <4> QED
        BY <1>3, <4>1, <4>2, Zenon
    <3>3. \A i \in 1..Len(db[m].variants) :
            VariantOf(m, db[m].variants[i], db[m], store)
      BY <3>2
    <3> QED
      BY <1>2, <1>3, <3>1, <3>2, <3>3 DEF CopyOf, Held
  <2> QED
    BY <2>1, <2>2 DEF RowsOK
<1>5. FilesOK
  <2>1. store \in [Buckets -> [Key -> Object \cup {NoObject}]]
    <3>1. \A k \in Key : up[k.media] \in Object
      BY <1>2 DEF Key
    <3> QED
      BY <1>1, <3>1
  <2>2. ASSUME NEW k \in Key, store[db[k.media].bucket][k] # NoObject
        PROVE  Origin[store[db[k.media].bucket][k].blob] = Origin[db[k.media].meta]
    <3>1. k.media \in Medias
      BY DEF Key
    <3>2. db[k.media].bucket = b /\ db[k.media].meta = up[k.media].blob
      <4>1. PICK r : r = FinalisedRow(k.media, b, up[k.media])
        OBVIOUS
      <4>2. r.bucket = b /\ r.meta = up[k.media].blob
        BY <4>1, Zenon DEF FinalisedRow
      <4> QED
        BY <1>3, <3>1, <4>1, <4>2, Zenon
    <3>3. store[b][k] = up[k.media]
      BY <1>1, <2>2, <3>2
    <3> QED
      BY <3>2, <3>3
  <2> QED
    BY <2>1, <2>2 DEF FilesOK
<1>6. WorkersOK
  BY IdleFacts DEF Init, WorkersOK
<1>7. QueueOK
  <2>1. \A m \in Medias : ResizeTask(m) \in Task /\ ResizeTask(m).kind = "resize"
    BY DEF ResizeTask, Task, TaskKinds
  <2>2. \A m \in Medias : tasks[ResizeTask(m)] = 0
    BY <1>1, <2>1
  <2>3. \A t \in Task : (IF t.kind = "optimise" /\ queued[t.media] THEN 1 ELSE 0) \in Nat
    OBVIOUS
  <2>4. tasks \in [Task -> Nat]
    BY <1>1, <2>3, Zenon
  <2> QED
    BY <2>2, <2>4 DEF QueueOK
<1>8. BacklogOK
  BY DEF Init, BacklogOK, BacklogState
<1>9. CountersOK
  BY PipelineAssumption DEF Init, CountersOK, CacheInit, CacheTypeOK
<1> QED
  BY <1>4, <1>5, <1>6, <1>7, <1>8, <1>9 DEF IInv

LEMMA BacklogInv ==
  ASSUME IInv, BacklogStep
  PROVE  IInv'
<1>1. /\ UNCHANGED <<db, store, details, etags, wk, crashes>>
      /\ UNCHANGED backlogs \/ ListUnoptimised
  BY DEF BacklogStep, BacklogGoesOn, ListUnoptimised, EnqueueListed, ListImages, EndBacklog
<1>2. Later(db, store, db', store')
  BY <1>1, LaterSame
<1>3. RowsOK' /\ FilesOK'
  BY <1>1 DEF IInv, RowsOK, FilesOK
<1>4. WorkersOK'
  BY <1>1, <1>2, WorkersStay DEF IInv
<1>5. CountersOK'
  BY <1>1, PipelineAssumption
  DEF IInv, CountersOK, CacheTypeOK, ListUnoptimised
<1>6. QueueOK' /\ BacklogOK'
  <2>1. CASE ListUnoptimised
    <3>1. QueueOK'
      BY <1>2, <2>1, QueueStays DEF ListUnoptimised, IInv
    <3>2. BacklogOK'
      <4>1. CASE UNCHANGED backlog
        BY <1>2, <4>1, BacklogStays DEF IInv
      <4>2. CASE ~UNCHANGED backlog
        <5>1. PICK ids \in SUBSET Unoptimised :
                backlog' = [pc |-> "optimise", ids |-> ids]
          BY <2>1, <4>2 DEF ListUnoptimised
        <5>2. ids \subseteq Medias
          BY DEF Unoptimised
        <5> QED
          BY <5>1, <5>2 DEF BacklogOK, BacklogState
      <4> QED
        BY <4>1, <4>2
    <3> QED
      BY <3>1, <3>2
  <2>2. ASSUME NEW kind \in TaskKinds, EnqueueListed(kind, kind)
        PROVE  QueueOK' /\ BacklogOK'
    <3>1. PICK m \in backlog.ids :
            /\ backlog' = [backlog EXCEPT !.ids = @ \ {m}]
            /\ Enqueue([kind |-> kind, media |-> m]) \/ UNCHANGED tasks
      BY <2>2 DEF EnqueueListed
    <3>2. m \in Medias /\ [kind |-> kind, media |-> m] \in Task
      BY <3>1 DEF IInv, BacklogOK, BacklogState, Task
    <3>3. kind = "resize" => db[m].optimised
      BY <2>2 DEF EnqueueListed, IInv, BacklogOK
    <3>4. QueueOK'
      BY <1>1, <3>1, <3>2, <3>3, EnqueueStep DEF Enqueue, IInv
    <3>5. /\ backlog' \in BacklogState
          /\ backlog'.pc = backlog.pc
          /\ backlog'.ids \subseteq backlog.ids
      BY <3>1 DEF IInv, BacklogOK, BacklogState
    <3>6. BacklogOK'
      BY <1>1, <3>5 DEF IInv, BacklogOK
    <3> QED
      BY <3>4, <3>6
  <2>3. CASE ListImages
    <3>1. QueueOK'
      BY <1>2, <2>3, QueueStays DEF ListImages, IInv
    <3>2. BacklogOK'
      <4>1. CASE backlog' = [pc |-> "idle", ids |-> {}]
        BY <4>1 DEF BacklogOK, BacklogState
      <4>2. CASE backlog' # [pc |-> "idle", ids |-> {}]
        <5>1. PICK ids \in SUBSET ImagesWithoutVariants :
                backlog' = [pc |-> "resize", ids |-> ids]
          BY <2>3, <4>2 DEF ListImages
        <5>2. ids \subseteq Medias /\ \A m \in ids : db[m].optimised
          BY DEF ImagesWithoutVariants
        <5> QED
          BY <1>1, <5>1, <5>2 DEF BacklogOK, BacklogState
      <4> QED
        BY <4>1, <4>2
    <3> QED
      BY <3>1, <3>2
  <2>4. CASE EndBacklog
    <3>1. QueueOK'
      BY <1>2, <2>4, QueueStays DEF EndBacklog, IInv
    <3>2. BacklogOK'
      BY <2>4 DEF EndBacklog, BacklogOK, BacklogState
    <3> QED
      BY <3>1, <3>2
  <2> QED
    BY <2>1, <2>2, <2>3, <2>4 DEF BacklogStep, BacklogGoesOn, TaskKinds
<1> QED
  BY <1>3, <1>4, <1>5, <1>6 DEF IInv

LEMMA StutterInv ==
  ASSUME IInv, UNCHANGED vars
  PROVE  IInv'
  BY DEF IInv, RowsOK, FilesOK, WorkersOK, QueueOK, BacklogOK, CountersOK,
         CacheTypeOK, vars

LEMMA WorkerStepInv ==
  ASSUME IInv, NEW w \in Workers, WorkerStep(w)
  PROVE  IInv'
<1>1. CASE OptimiseStep(w)
  BY <1>1, OpenOriginalInv, SaveTempInv, CopyTempInv, RemoveTempInv,
     RemoveOldInv, StatNewInv, UpdateOptimisedInv, EnqueueInv DEF OptimiseStep
<1>2. CASE ResizeStep(w)
  BY <1>2, MakeVariantInv, SaveVariantInv, StatVariantInv, UpdateVariantsInv
  DEF ResizeStep
<1> QED
  BY <1>1, <1>2, StartInv, UncacheInv DEF WorkerStep

LEMMA NextInv == IInv /\ [Next]_vars => IInv'
  BY WorkerStepInv, CrashInv, BacklogInv, StutterInv DEF Next

-----------------------------------------------------------------------------
(* Theorems *)

\* Whatever fails, is repeated, overlaps or dies, each worker's copy of a row is
\* one it may write back, and each file of a media is made from its content.
THEOREM PipelineInvariant == Spec => []IInv
  BY InitInv, NextInv, PTL DEF Spec

\* Every step keeps the type of every variable.
THEOREM PipelineTypeCorrect == Spec => []TypeOK
<1>1. IInv => TypeOK
  BY DEF IInv, RowsOK, FilesOK, WorkersOK, QueueOK, BacklogOK, CountersOK, TypeOK,
         BackendTypeOK
<1> QED
  BY <1>1, PipelineInvariant, PTL

\* A media keeps a file made from its content.
LEMMA HeldIsKept ==
  ASSUME IInv, NEW m \in Medias
  PROVE  Kept(m) /\ db[m] # NoRow /\ db[m].status = "completed"
<1>1. /\ CopyOf(m, db[m], db, store)
      /\ Held(m, db, store)
  BY DEF IInv, RowsOK
<1>2. PICK e \in Extensions : store[db[m].bucket][FileKey(m, e)] # NoObject
  <2>1. MimeTypeToExtension(db[m].mime) \in Extensions /\ ".webp" \in Extensions
    BY <1>1, CopyKey, MimeFacts DEF Extensions
  <2> QED
    BY <1>1, <2>1, CopyKey DEF Held, WebpKey
<1>3. FileKey(m, e) \in Key /\ FileKey(m, e).media = m
  BY FileKeyFacts
<1>4. Kept(m)
  BY <1>2, <1>3 DEF Kept, IInv, FilesOK
<1>5. db[m] # NoRow
  BY <1>1, CopyKey, NilFacts
<1>6. db[m].status = "completed"
  BY <1>1 DEF CopyOf
<1> QED
  BY <1>4, <1>5, <1>6

\* No order of removals and copies leaves a completed media without its content,
\* for any number of workers, however tasks fail, are repeated, overlap or die.
THEOREM ContentIsNeverLost == Spec => []ContentNeverLost
<1>1. IInv => ContentNeverLost
  BY HeldIsKept DEF ContentNeverLost
<1> QED
  BY <1>1, PipelineInvariant, PTL

LEMMA ListedVariants ==
  ASSUME IInv, NEW m \in Medias, NEW i \in 1..Len(db[m].variants)
  PROVE  /\ db[m].variants[i].key \in Key
         /\ VariantOf(m, db[m].variants[i], db[m], store)
<1>1. CopyOf(m, db[m], db, store)
  BY DEF IInv, RowsOK
<1>2. db[m].variants \in Seq(Variant)
  BY <1>1, CopyKey DEF Row
<1>3. db[m].variants[i] \in Variant
  BY <1>2
<1> QED
  BY <1>1, <1>3 DEF CopyOf, Variant

\* Every variant a row lists has its object, made from the content of the media,
\* even when the list comes from a stale copy of the row.
THEOREM ListedVariantsAreStored == Spec => []VariantsStored
<1>1. ASSUME IInv, NEW m \in Medias, NEW i \in 1..Len(db[m].variants)
      PROVE  LET o == store[db[m].bucket][db[m].variants[i].key]
             IN  o # NoObject /\ Origin[o.blob] = Origin[db[m].meta]
  <2>1. PICK k \in Key : k = db[m].variants[i].key
    BY <1>1, ListedVariants
  <2>2. k.media = m /\ store[db[m].bucket][k] # NoObject
    BY <1>1, <2>1, ListedVariants DEF VariantOf
  <2>3. Origin[store[db[m].bucket][k].blob] = Origin[db[m].meta]
    BY <1>1, <2>2 DEF IInv, FilesOK
  <2> QED
    BY <2>1, <2>2, <2>3
<1>2. IInv => VariantsStored
  BY <1>1 DEF VariantsStored
<1> QED
  BY <1>2, PipelineInvariant, PTL

\* The arithmetic of the resize task keeps every variant within the image it is
\* made from, not empty, and in its proportions to less than a pixel, for any
\* image and any configured widths.
THEOREM ListedVariantsFit == Spec => []VariantsFit
<1>1. ASSUME IInv, NEW m \in Medias, NEW i \in 1..Len(db[m].variants)
      PROVE  Fits(db[m].variants[i], db[m].meta)
  BY <1>1, ListedVariants DEF VariantOf
<1>2. IInv => VariantsFit
  BY <1>1 DEF VariantsFit, Fits
<1> QED
  BY <1>2, PipelineInvariant, PTL

-----------------------------------------------------------------------------
(* Tasks implement the life of a media *)

StageOf == [m \in Medias |-> Stage(m)]
ContentOf == [m \in Medias |-> Content(m)]

\* The table only changes by a task writing back a right copy of one row.
Writes(m, row) ==
  /\ CopyOf(m, row, db, store)
  /\ row.optimised
  /\ db' = [db EXCEPT ![m] = row]

LEMMA WriteStep ==
  ASSUME IInv, [Next]_vars
  PROVE  UNCHANGED db \/ \E m \in Medias, row \in Row : Writes(m, row)
<1>1. ASSUME NEW w \in Workers, UpdateOptimised(w), ~UNCHANGED db
      PROVE  \E m \in Medias, row \in Row : Writes(m, row)
  <2>1. wk[w].pc = "update" /\ RepoUpdate(Media(w), OptimisedRow(w))
    BY <1>1 DEF UpdateOptimised
  <2>2. PICK row : row = OptimisedRow(w)
    OBVIOUS
  <2>3. CopyOf(Media(w), row, db, store) /\ row.optimised /\ Media(w) \in Medias
    BY <2>1, <2>2, OptimisedCopy, AtWork
  <2>4. db' = [db EXCEPT ![Media(w)] = row] /\ row \in Row
    BY <1>1, <2>1, <2>2, <2>3, UpdateStep, CopyKey DEF UpdateOptimised, IInv
  <2> QED
    BY <2>3, <2>4 DEF Writes
<1>2. ASSUME NEW w \in Workers, UpdateVariants(w), ~UNCHANGED db
      PROVE  \E m \in Medias, row \in Row : Writes(m, row)
  <2>1. wk[w].pc = "update_variants" /\ RepoUpdate(Media(w), wk[w].media)
    BY <1>2 DEF UpdateVariants
  <2>2. PICK row : row = wk[w].media
    OBVIOUS
  <2>3. CopyOf(Media(w), row, db, store) /\ row.optimised /\ Media(w) \in Medias
    BY <2>1, <2>2, AtWork DEF Local, ResizePC
  <2>4. db' = [db EXCEPT ![Media(w)] = row] /\ row \in Row
    BY <1>2, <2>1, <2>2, <2>3, UpdateStep, CopyKey DEF UpdateVariants, IInv
  <2> QED
    BY <2>3, <2>4 DEF Writes
<1>3. ASSUME NEW w \in Workers, WorkerStep(w), ~UNCHANGED db
      PROVE  UpdateOptimised(w) \/ UpdateVariants(w)
  BY <1>3 DEF WorkerStep, OptimiseStep, ResizeStep, OpenOriginal, SaveTemp,
     CopyTemp, RemoveTemp, RemoveOld, StatNew, EnqueueResizeImage,
     MakeVariant, SaveVariant, StatVariant, Start, Uncache, UncacheEtag
<1>4. BacklogStep => UNCHANGED db
  BY DEF BacklogStep, BacklogGoesOn, ListUnoptimised, EnqueueListed, ListImages, EndBacklog
<1> QED
  BY <1>1, <1>2, <1>3, <1>4 DEF Next, Crash, vars

EachKept == \A m \in Medias : Kept(m) /\ db[m] # NoRow

LEMMA EachIsKept == IInv => EachKept
  BY HeldIsKept DEF EachKept

LEMMA LifeFacts ==
  ASSUME IInv, NEW m \in Medias
  PROVE  /\ Stage(m) = IF db[m].optimised THEN "optimised" ELSE "completed"
         /\ Content(m) = Origin[db[m].meta]
  BY HeldIsKept DEF Stage, Content

LEMMA LifecycleInit == Init => L!Init
<1> SUFFICES ASSUME Init PROVE L!Init
  OBVIOUS
<1>1. IInv
  BY InitInv
<1>2. ASSUME NEW m \in Medias
      PROVE  Stage(m) = "completed" /\ Content(m) \in Blobs
  <2>1. PICK b, o : db[m] = FinalisedRow(m, b, o)
    BY DEF Init
  <2>2. PICK r : r = FinalisedRow(m, b, o)
    OBVIOUS
  <2>3. r.optimised = FALSE
    BY <2>2, Zenon DEF FinalisedRow
  <2>4. db[m].meta \in Blobs
    BY <1>1 DEF IInv, RowsOK, CopyOf
  <2>5. db[m].optimised = FALSE
    BY <2>1, <2>2, <2>3, Zenon
  <2> QED
    BY <1>1, <2>4, <2>5, LifeFacts, BlobsAssumption
<1>3. /\ StageOf \in [Medias -> {"none", "completed"}]
      /\ ContentOf \in [Medias -> Blobs \cup {Nil}]
      /\ \A m \in Medias : ContentOf[m] = Nil <=> StageOf[m] = "none"
  BY <1>2, NilFacts DEF StageOf, ContentOf
<1> QED
  BY <1>3 DEF L!Init, StageOf, ContentOf

LEMMA LifecycleNext ==
  ASSUME IInv, IInv', [Next]_vars
  PROVE  [L!Next]_(L!vars)
<1>1. /\ \A m \in Medias : db[m].meta \in Blobs
      /\ db \in [Medias -> Row \cup {NoRow}]
  BY DEF IInv, RowsOK, CopyOf
<1>2. /\ \A m \in Medias : Content(m) = Origin[db[m].meta]
      /\ \A m \in Medias : Content(m)' = Origin[db'[m].meta]
  <2>1. EachKept'
    BY EachIsKept, PTL
  <2> QED
    BY <2>1, LifeFacts DEF Content, EachKept
<1>3. ASSUME NEW m \in Medias, db'[m] = db[m]
      PROVE  Stage(m)' = Stage(m) /\ Content(m)' = Content(m)
  BY <1>2, <1>3 DEF Stage
<1>4. CASE UNCHANGED db
  <2>1. UNCHANGED <<StageOf, ContentOf>>
    BY <1>3, <1>4 DEF StageOf, ContentOf
  <2> QED
    BY <2>1 DEF L!vars, StageOf, ContentOf
<1>5. ASSUME NEW m \in Medias, NEW row \in Row, Writes(m, row)
      PROVE  [L!Next]_(L!vars)
  <2>1. /\ \A n \in Medias \ {m} : db'[n] = db[n]
        /\ db'[m] = row
        /\ row.meta = db[m].meta
        /\ row.optimised
    BY <1>1, <1>5 DEF Writes, CopyOf
  <2>2. UNCHANGED ContentOf
    <3>1. \A n \in Medias : Content(n)' = Content(n)
      BY <1>2, <2>1
    <3> QED
      BY <3>1 DEF ContentOf
  <2>3. Stage(m)' = "optimised"
    BY <2>1, NilFacts DEF Stage
  <2>4. StageOf' = [StageOf EXCEPT ![m] = "optimised"]
    BY <1>3, <2>1, <2>3 DEF StageOf
  <2>5. CASE db[m].optimised
    <3>1. StageOf[m] = "optimised"
      BY <2>5, LifeFacts DEF StageOf
    <3>2. UNCHANGED <<StageOf, ContentOf>>
      BY <2>2, <2>4, <3>1 DEF StageOf
    <3> QED
      BY <3>2 DEF L!vars, StageOf, ContentOf
  <2>6. CASE ~db[m].optimised
    <3>1. StageOf[m] = "completed"
      BY <2>6, LifeFacts DEF StageOf
    <3>2. L!Optimise(m)
      BY <2>2, <2>4, <3>1 DEF L!Optimise, L!Move, StageOf, ContentOf
    <3> QED
      BY <3>2 DEF L!Next
  <2> QED
    BY <2>5, <2>6
<1> QED
  BY <1>4, <1>5, WriteStep

\* A media is optimised once for all, no stale copy of its row undoes that, and
\* its content is never lost, for any number of workers and whatever fails.
THEOREM TasksKeepLifecycle == Spec => KeepsLifecycle
<1>1. IInv /\ IInv' /\ [Next]_vars => [L!Next]_(L!vars)
  BY LifecycleNext
<1>2. Spec => L!Spec
  BY <1>1, LifecycleInit, InitInv, NextInv, PTL DEF Spec, L!Spec
<1> QED
  BY <1>2 DEF KeepsLifecycle

-----------------------------------------------------------------------------
(* Without failures, the object of a row is missing only during a swap *)

Present(m) == store[db[m].bucket][db[m].key] # NoObject

\* A worker is between removing the original and updating the row.
Swapping(m) ==
  \E w \in Workers : wk[w].pc \in {"stat", "update"} /\ wk[w].task.media = m

SwapInv == \A m \in Medias : Present(m) \/ Swapping(m)

LEMMA SwapMeaning ==
  ASSUME IInv
  PROVE  SwapInv <=> MissingOnlyMidSwap
<1>1. \A m \in Medias : db[m] # NoRow /\ db[m].status = "completed"
  BY HeldIsKept
<1> QED
  BY <1>1 DEF SwapInv, MissingOnlyMidSwap, Present, Swapping, Media

\* A worker that is not at the end of a swap, or stays there.
LEMMA SwapStays ==
  ASSUME WorkersOK, NEW w \in Workers, NEW s, wk' = [wk EXCEPT ![w] = s],
         \/ wk[w].pc \notin {"stat", "update"}
         \/ s.pc \in {"stat", "update"} /\ s.task = wk[w].task,
         NEW m \in Medias, Swapping(m)
  PROVE  Swapping(m)'
  BY DEF WorkersOK, Swapping

\* The object a row points to is under a key of its own media.
LEMMA RowKeys ==
  ASSUME IInv, NEW m \in Medias
  PROVE  /\ db[m].key \in Key
         /\ db[m].key.media = m
         /\ db[m].key.kind = "file"
         /\ db[m].bucket \in Buckets
         /\ Converted(db[m].mime) => Present(m)
  BY CopyKey DEF IInv, RowsOK, CopyOf, Present

\* Steps that leave the table and the storage alone.
LEMMA QuietSwap ==
  ASSUME IInv, SwapInv, UNCHANGED <<db, store>>,
         \A m \in Medias : Swapping(m) => Swapping(m)'
  PROVE  SwapInv'
  BY DEF SwapInv, Present

LEMMA SaveSwap ==
  ASSUME IInv, SwapInv, UNCHANGED db,
         NEW b \in Buckets, NEW k \in Key, NEW o \in Object, StoreSave(b, k, o),
         \A m \in Medias : Swapping(m) => Swapping(m)'
  PROVE  SwapInv'
<1>1. \A c \in Buckets, j \in Key :
        store'[c][j] = IF c = b /\ j = k THEN o ELSE store[c][j]
  BY DEF StoreSave, IInv, FilesOK
<1>2. ASSUME NEW m \in Medias, Present(m) PROVE Present(m)'
  BY <1>1, <1>2, RowKeys, NilFacts DEF Present
<1> QED
  BY <1>2 DEF SwapInv

LEMMA RemoveSwap ==
  ASSUME IInv, SwapInv, UNCHANGED db,
         NEW b \in Buckets, NEW k \in Key, StoreRemove(b, k) \/ UNCHANGED store,
         k.kind = "temp" \/ Swapping(k.media)',
         \A m \in Medias : Swapping(m) => Swapping(m)'
  PROVE  SwapInv'
<1>1. \A c \in Buckets, j \in Key :
        store'[c][j] = store[c][j] \/ (c = b /\ j = k)
  BY DEF StoreRemove, IInv, FilesOK
<1>2. ASSUME NEW m \in Medias, Present(m), ~Swapping(m)' PROVE Present(m)'
  <2>1. db[m].key # k
    BY <1>2, RowKeys
  <2> QED
    BY <1>1, <1>2, <2>1, RowKeys DEF Present
<1> QED
  BY <1>2 DEF SwapInv

LEMMA WriteSwap ==
  ASSUME IInv, SwapInv, UNCHANGED store,
         NEW m \in Medias, NEW row \in Row, Writes(m, row),
         \A n \in Medias \ {m} : Swapping(n) => Swapping(n)'
  PROVE  SwapInv'
<1>1. /\ \A n \in Medias \ {m} : db'[n] = db[n]
      /\ db'[m] = row
  BY DEF Writes, IInv, RowsOK
<1>2. store[row.bucket][row.key] # NoObject
  BY DEF Writes, CopyOf
<1>3. Present(m)'
  BY <1>1, <1>2 DEF Present
<1>4. ASSUME NEW n \in Medias \ {m} PROVE Present(n)' \/ Swapping(n)'
  BY <1>1 DEF SwapInv, Present
<1> QED
  BY <1>3, <1>4 DEF SwapInv

LEMMA OptimiseSwap ==
  ASSUME Faults = {}, IInv, SwapInv, NEW w \in Workers, OptimiseStep(w)
  PROVE  SwapInv'
<1> DEFINE At(pc) == [wk[w] EXCEPT !.pc = pc]
<1>1. wk[w].pc # "idle" /\ WorkersOK
  BY DEF OptimiseStep, OpenOriginal, SaveTemp, CopyTemp, RemoveTemp, RemoveOld,
         StatNew, UpdateOptimised, EnqueueResizeImage, IInv
<1>2. CASE OpenOriginal(w) \/ StatNew(w) \/ EnqueueResizeImage(w)
  <2>1. UNCHANGED <<db, store>>
    BY <1>2 DEF OpenOriginal, StatNew, EnqueueResizeImage
  <2>2. \E s : /\ wk' = [wk EXCEPT ![w] = s]
               /\ \/ wk[w].pc \notin {"stat", "update"}
                  \/ s.pc \in {"stat", "update"} /\ s.task = wk[w].task
    <3>1. CASE OpenOriginal(w)
      BY <3>1 DEF OpenOriginal, Fail
    <3>2. CASE EnqueueResizeImage(w)
      BY <3>2 DEF EnqueueResizeImage, Goto
    <3>3. CASE StatNew(w)
      <4> DEFINE s == [wk[w] EXCEPT !.pc = "update",
                                    !.size = Size[Here(w, NewKey(w)).blob]]
      <4>1. Here(w, NewKey(w)) # NoObject
        <5>1. CASE Converted(wk[w].media.mime)
          BY <1>1, <5>1, AtWork, NewKeyFacts DEF CopyOf, Here
        <5>2. CASE ~Converted(wk[w].media.mime)
          BY <1>1, <3>3, <5>2, AtWork, NewKeyFacts DEF Local, Media, Here, StatNew
        <5> QED
          BY <5>1, <5>2
      <4>2. wk' = [wk EXCEPT ![w] = s]
        BY <3>3, <4>1 DEF StatNew
      <4>3. s.pc = "update" /\ s.task = wk[w].task
        BY <1>1, AtWork DEF WorkerState
      <4> HIDE DEF s
      <4> QED
        BY <4>2, <4>3
    <3> QED
      BY <1>2, <3>1, <3>2, <3>3
  <2> QED
    BY <1>1, <2>1, <2>2, SwapStays, QuietSwap
<1>3. CASE SaveTemp(w)
  <2>1. /\ wk' = [wk EXCEPT ![w] = At("copy_temp")]
        /\ StoreSave(wk[w].media.bucket, Temp(w),
             [type |-> NewMimeType(w), blob |-> Packed[wk[w].blob]])
        /\ UNCHANGED db
        /\ wk[w].pc = "save_temp"
    BY <1>3 DEF SaveTemp, Goto
  <2>2. [type |-> NewMimeType(w), blob |-> Packed[wk[w].blob]] \in Object
    BY <1>1, <2>1, AtWork, NewKeyFacts, PipelineAssumption
    DEF Object, Local, WorkerState
  <2>3. \A m \in Medias : Swapping(m) => Swapping(m)'
    BY <1>1, <2>1, SwapStays
  <2> QED
    BY <1>1, <2>1, <2>2, <2>3, AtWork, TempFacts, SaveSwap
<1>4. CASE CopyTemp(w)
  <2>1. UNCHANGED db /\ wk[w].pc = "copy_temp"
    BY <1>4 DEF CopyTemp
  <2>2. \A m \in Medias : Swapping(m) => Swapping(m)'
    BY <1>1, <1>4, <2>1, SwapStays DEF CopyTemp, Goto, Fail
  <2>3. CASE UNCHANGED store
    BY <2>1, <2>2, <2>3, QuietSwap
  <2>4. CASE ~UNCHANGED store
    <3>1. /\ Here(w, Temp(w)) # NoObject
          /\ StoreSave(wk[w].media.bucket, NewKey(w), Here(w, Temp(w)))
      BY <1>4, <2>4 DEF CopyTemp
    <3>2. Here(w, Temp(w)) \in Object
      BY <1>1, <3>1, TempFacts, FileFacts
    <3> QED
      BY <1>1, <2>1, <2>2, <3>1, <3>2, AtWork, NewKeyFacts, SaveSwap
  <2> QED
    BY <2>3, <2>4
<1>5. CASE RemoveTemp(w)
  <2>1. PICK s : wk' = [wk EXCEPT ![w] = s]
    BY <1>5 DEF RemoveTemp, Goto
  <2>2. /\ wk[w].pc = "remove_temp"
        /\ UNCHANGED db
        /\ StoreRemove(wk[w].media.bucket, Temp(w)) \/ UNCHANGED store
    BY <1>5 DEF RemoveTemp
  <2>3. \A m \in Medias : Swapping(m) => Swapping(m)'
    BY <1>1, <2>1, <2>2, SwapStays
  <2> QED
    BY <1>1, <2>2, <2>3, AtWork, TempFacts, RemoveSwap
<1>6. CASE RemoveOld(w)
  <2>1. /\ wk' = [wk EXCEPT ![w] = At("stat")]
        /\ wk[w].pc = "remove_old"
        /\ UNCHANGED db
        /\ StoreRemove(wk[w].media.bucket, wk[w].media.key) \/ UNCHANGED store
    BY <1>6 DEF RemoveOld, Goto
  <2>2. \A m \in Medias : Swapping(m) => Swapping(m)'
    BY <1>1, <2>1, SwapStays
  <2>3. wk'[w].pc = "stat" /\ wk'[w].task.media = Media(w)
    BY <1>1, <2>1, AtWork DEF WorkersOK, WorkerState, Media
  <2>4. PICK k \in Key : k = wk[w].media.key /\ k.media = Media(w)
    BY <1>1, AtWork, CopyKey
  <2>5. Swapping(k.media)'
    BY <2>3, <2>4 DEF Swapping
  <2> QED
    BY <1>1, <2>1, <2>2, <2>4, <2>5, AtWork, RemoveSwap
<1>7. CASE UpdateOptimised(w)
  <2>1. /\ wk[w].pc = "update"
        /\ RepoUpdate(Media(w), OptimisedRow(w))
        /\ \E s : wk' = [wk EXCEPT ![w] = s]
        /\ UNCHANGED store
    BY <1>7 DEF UpdateOptimised, Goto
  <2>2. PICK row : row = OptimisedRow(w)
    OBVIOUS
  <2>3. CopyOf(Media(w), row, db, store) /\ row.optimised /\ Media(w) \in Medias
    BY <2>1, <2>2, OptimisedCopy, AtWork
  <2>4. db' = [db EXCEPT ![Media(w)] = row] /\ row \in Row
    BY <2>1, <2>2, <2>3, UpdateStep, CopyKey DEF IInv
  <2>5. PICK m \in Medias : m = Media(w)
    BY <2>3
  <2>6. \A n \in Medias \ {m} : Swapping(n) => Swapping(n)'
    BY <1>1, <2>1, <2>5 DEF Swapping, WorkersOK, Media
  <2> QED
    BY <2>1, <2>3, <2>4, <2>5, <2>6, WriteSwap DEF Writes
<1> QED
  BY <1>2, <1>3, <1>4, <1>5, <1>6, <1>7 DEF OptimiseStep

LEMMA ResizeSwap ==
  ASSUME IInv, SwapInv, NEW w \in Workers, ResizeStep(w)
  PROVE  SwapInv'
<1>1. /\ wk[w].pc # "idle" /\ wk[w].pc \notin {"stat", "update"}
      /\ WorkersOK
  BY DEF ResizeStep, MakeVariant, SaveVariant, StatVariant, UpdateVariants, IInv
<1>2. PICK s : wk' = [wk EXCEPT ![w] = s]
  <2>1. CASE MakeVariant(w)
    BY <2>1 DEF MakeVariant, Goto, Fail
  <2>2. CASE SaveVariant(w) \/ UpdateVariants(w)
    BY <2>2 DEF SaveVariant, UpdateVariants, Goto, Fail
  <2>3. CASE StatVariant(w)
    <3>1. PICK pc, v : wk' = [wk EXCEPT ![w].pc = pc, ![w].i = @ + 1,
                                        ![w].media.variants = Append(@, v)]
                       \/ Fail(w)
      BY <2>3 DEF StatVariant
    <3>2. CASE Fail(w)
      BY <3>2 DEF Fail
    <3>3. CASE ~Fail(w)
      BY <1>1, <3>1, <3>3, AtWork DEF IInv, WorkersOK, WorkerState
    <3> QED
      BY <3>2, <3>3
  <2> QED
    BY <2>1, <2>2, <2>3 DEF ResizeStep
<1>3. \A m \in Medias : Swapping(m) => Swapping(m)'
  BY <1>1, <1>2, SwapStays
<1>4. CASE UNCHANGED <<db, store>>
  BY <1>3, <1>4, QuietSwap
<1>5. CASE MakeVariant(w) /\ ~UNCHANGED store
  <2>1. /\ Original(w) # NoObject
        /\ StoreSave(wk[w].media.bucket, WidthKey(w), Original(w))
        /\ UNCHANGED db
        /\ wk[w].pc = "variant"
    BY <1>5 DEF MakeVariant
  <2>2. Original(w) \in Object
    <3>1. wk[w].media.key \in Key /\ wk[w].media.key.media = Media(w)
      BY <1>1, AtWork, CopyKey
    <3> QED
      BY <1>1, <2>1, <3>1, FileFacts DEF Original
  <2> QED
    BY <1>1, <1>3, <2>1, <2>2, AtWork, WidthFacts, SaveSwap
<1>6. CASE SaveVariant(w) /\ ~UNCHANGED store
  <2>1. /\ StoreSave(wk[w].media.bucket, WidthKey(w),
              [type |-> "image/webp", blob |-> Shrunk[wk[w].blob]])
        /\ UNCHANGED db
        /\ wk[w].pc = "save_variant"
    BY <1>6 DEF SaveVariant
  <2>2. [type |-> "image/webp", blob |-> Shrunk[wk[w].blob]] \in Object
    BY <1>1, <2>1, AtWork, WebpFacts, MimeFacts, PipelineAssumption
    DEF Object, Local, WorkerState
  <2> QED
    BY <1>1, <1>3, <2>1, <2>2, AtWork, WidthFacts, SaveSwap
<1>7. CASE UpdateVariants(w) /\ ~UNCHANGED db
  <2>1. UNCHANGED store
    BY <1>7 DEF UpdateVariants
  <2>2. PICK m \in Medias, row \in Row : Writes(m, row)
    <3>1. Next
      BY <1>7 DEF Next, WorkerStep, ResizeStep
    <3> QED
      BY <1>7, <3>1, WriteStep
  <2> QED
    BY <1>3, <2>1, <2>2, WriteSwap
<1> QED
  BY <1>4, <1>5, <1>6, <1>7
  DEF ResizeStep, MakeVariant, SaveVariant, StatVariant, UpdateVariants

LEMMA SwapNext ==
  ASSUME Faults = {}, IInv, SwapInv, [Next]_vars
  PROVE  SwapInv'
<1>1. ASSUME NEW w \in Workers,
             Uncache(w) \/ UncacheEtag(w) \/ \E t \in Task : Start(w, t)
      PROVE  SwapInv'
  <2>1. /\ UNCHANGED <<db, store>>
        /\ wk[w].pc \notin {"stat", "update"}
        /\ WorkersOK
    BY <1>1 DEF Uncache, UncacheEtag, Start, IInv
  <2>2. UNCHANGED wk \/ \E s : wk' = [wk EXCEPT ![w] = s]
    BY <1>1 DEF Uncache, UncacheEtag, Start, Goto
  <2>3. \A m \in Medias : Swapping(m) => Swapping(m)'
    BY <2>1, <2>2, SwapStays DEF Swapping
  <2> QED
    BY <2>1, <2>3, QuietSwap
<1>2. CASE BacklogStep \/ UNCHANGED vars
  <2>1. UNCHANGED <<db, store, wk>>
    BY <1>2 DEF BacklogStep, BacklogGoesOn, ListUnoptimised, EnqueueListed, ListImages,
       EndBacklog, vars
  <2>2. \A m \in Medias : Swapping(m) => Swapping(m)'
    BY <2>1 DEF Swapping
  <2> QED
    BY <2>1, <2>2, QuietSwap
<1>3. \A w \in Workers : ~Crash(w)
  BY DEF Crash
<1> QED
  BY <1>1, <1>2, <1>3, OptimiseSwap, ResizeSwap DEF Next, WorkerStep

LEMMA SwapInit == Init => SwapInv
<1> SUFFICES ASSUME Init, NEW m \in Medias PROVE Present(m)
  BY DEF SwapInv
<1>1. /\ IInv
      /\ Held(m, db, store)
      /\ db[m].key.media = m
  BY InitInv, RowKeys DEF IInv, RowsOK
<1>2. PICK b \in Buckets, up \in [Medias -> Stored] :
        /\ db = [n \in Medias |-> FinalisedRow(n, b, up[n])]
        /\ store = [c \in Buckets |-> [k \in Key |->
                     IF c = b /\ k = FinalisedKey(k.media, up[k.media])
                     THEN up[k.media] ELSE NoObject]]
  BY DEF Init
<1>3. PICK r : r = FinalisedRow(m, b, up[m])
  OBVIOUS
<1>4. r.bucket = b /\ r.key = FinalisedKey(m, up[m])
  BY <1>3, Zenon DEF FinalisedRow
<1>5. db[m] = r
  BY <1>2, <1>3
<1>6. db[m].key \in Key /\ db[m].bucket \in Buckets
  BY <1>1, RowKeys
<1>7. store[b][r.key] = up[m]
  BY <1>1, <1>2, <1>4, <1>5, <1>6
<1>8. up[m] \in Object
  BY PipelineAssumption
<1> QED
  BY <1>4, <1>5, <1>7, <1>8, NilFacts DEF Present

\* When no call fails and no worker dies, the object a completed row points to
\* is missing only while some worker is between removing the original and
\* updating the row, for any number of workers and of repeated tasks.
THEOREM MissingOnlyInSwap ==
  ASSUME Faults = {}
  PROVE  Spec => []MissingOnlyMidSwap
<1>1. Init => IInv /\ SwapInv
  BY InitInv, SwapInit
<1>2. IInv /\ SwapInv /\ [Next]_vars => IInv' /\ SwapInv'
  BY NextInv, SwapNext
<1>3. IInv /\ SwapInv => MissingOnlyMidSwap
  BY SwapMeaning
<1> QED
  BY <1>1, <1>2, <1>3, PTL DEF Spec
=============================================================================
