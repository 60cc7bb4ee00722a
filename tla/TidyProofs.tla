------------------------------ MODULE TidyProofs ------------------------------
(***************************************************************************)
(* What deletions leave behind when no task works on a media while it is   *)
(* deleted: theorems about Service, for any medias, contents, configured   *)
(* widths, workers and requests.                                           *)
(***************************************************************************)
EXTENDS ServiceProofs

-----------------------------------------------------------------------------
(* What holds besides when no call of a task fails, and none overlaps with a *)
(* deletion of its media: a media has one task at a time                     *)

\* The worker is not only dropping the cached details.
Active(s) == s.pc \in P!OptimisePC \cup P!ResizePC

Serial ==
  /\ \A v, w \in Workers :
       Active(wk[v]) /\ Active(wk[w]) /\ wk[v].task.media = wk[w].task.media
         => v = w
  /\ \A w \in Workers, t \in Task :
       Active(wk[w]) /\ t.media = wk[w].task.media => tasks[t] = 0
  /\ \A t \in Task : tasks[t] <= 1
  /\ \A t, u \in Task :
       tasks[t] > 0 /\ tasks[u] > 0 /\ t.media = u.media => t = u

Apart ==
  \A m \in Medias : Deleting(m) \/ db[m] = NoRow => ~Working(m)

Lists(row, k) ==
  \/ k = row.key
  \/ \E i \in 1..Len(row.variants) : k = row.variants[i].key

\* The copy a task holds is the row itself, until it has changed one of them.
Current(s, rows) ==
  LET row == rows[s.task.media]
  IN  /\ row # NoRow
      /\ s.pc \in P!OptimisePC \ {"enqueue"} => s.media = row
      /\ s.pc \in P!ResizePC =>
           /\ s.media.bucket = row.bucket
           /\ s.media.key = row.key
           /\ s.media.mime = row.mime
           /\ s.media.meta = row.meta
           /\ \A i \in 1..Len(row.variants) : Lists(s.media, row.variants[i].key)
           /\ s.pc # "update_variants" /\ s.i = 1 => s.media = row

\* What the task has written is there, and what it has removed is gone.
Present(s, files) ==
  LET m == s.task.media
      file(k) == files[s.media.bucket][k]
      old == s.media.key
      new == NewKeyOf(m, s.media)
  IN  /\ s.pc \in {"save_temp", "copy_temp", "remove_temp", "remove_old"} =>
           file(old) # NoObject
      /\ s.pc = "copy_temp" => file(TempOf(m, s.media)) # NoObject
      /\ s.pc \in {"remove_temp", "remove_old", "stat", "update"} =>
           file(new) # NoObject
      /\ s.pc = "remove_old" => new # old
      /\ s.pc \in {"stat", "update"} /\ new # old => file(old) = NoObject
      /\ (s.pc \in {"variant", "update_variants"} /\ s.i > 1)
           \/ s.pc \in {"save_variant", "stat_variant"} =>
           /\ file(old) # NoObject
           /\ s.blob \in {Nil, file(old).blob}
      /\ s.pc = "variant" /\ s.i = 1 => s.blob = Nil
      /\ s.pc = "stat_variant" =>
           file(VariantKey(m, P!TargetWidths[s.i])) # NoObject

\* An unfailing task.
Sure(s, rows, files) ==
  Active(s) => Current(s, rows) /\ Present(s, files)

Uploaded ==
  \A m \in Medias : db[m] # NoRow => \E o \in Stored : db[m].meta = o.blob

CalmInv ==
  /\ Serial
  /\ Apart
  /\ \A w \in Workers : Sure(wk[w], db, store)
  /\ Uploaded

-----------------------------------------------------------------------------
(* The files of a media are those its row names and those its task has made *)

Made(s, k) ==
  LET m == s.task.media
  IN  \/ s.pc \in {"copy_temp", "remove_temp"} /\ k = TempOf(m, s.media)
      \/ s.pc \in {"remove_temp", "remove_old", "stat", "update"}
           /\ k = NewKeyOf(m, s.media)
      \/ s.pc \in P!ResizePC
           /\ \E i \in 1..Len(s.media.variants) : k = s.media.variants[i].key
      \/ s.pc = "stat_variant" /\ k = VariantKey(m, P!TargetWidths[s.i])

Accounted ==
  \A b \in Buckets, k \in Key :
    store[b][k] # NoObject =>
      /\ db[k.media] # NoRow
      /\ b = db[k.media].bucket
      /\ \/ Lists(db[k.media], k)
         \/ \E w \in Workers : /\ Active(wk[w])
                               /\ wk[w].task.media = k.media
                               /\ Made(wk[w], k)

\* What a deletion has removed so far stays away.
Clearing(s, rows, files) ==
  /\ s.pc = "variants" /\ rows[s.id] # NoRow =>
       /\ s.media = rows[s.id]
       /\ \A j \in 1..Len(s.media.variants) :
            j < s.i => files[s.media.bucket][s.media.variants[j].key] = NoObject
  /\ s.pc = "row" =>
       \A b \in Buckets, k \in Key : k.media = s.id => files[b][k] = NoObject

TidyInv ==
  /\ Accounted
  /\ \A d \in Deleters : Clearing(del[d], db, store)

-----------------------------------------------------------------------------
(* A missing object is explained *)

WholeAt(m, s, rows, files) ==
  \/ files[rows[m].bucket][rows[m].key] # NoObject
  \/ s.pc \in {"stat", "update"}

Explained ==
  \A m \in Medias : db[m] # NoRow =>
    \/ store[db[m].bucket][db[m].key] # NoObject
    \/ \E w \in Workers : wk[w].pc \in {"stat", "update"} /\ wk[w].task.media = m
    \/ Deleting(m)
    \/ m \in failed

-----------------------------------------------------------------------------
(* What a step of a task may do to its media, and to no other *)

\* No image is so flat that resizing it fails: a resize task that gives up
\* leaves the variants it has made behind.
NoneFlat == \A o \in Stored : ~P!TooFlat(o.blob)

\* The files of m, when s is the one worker that may be active on it.
OwnFiles(m, s, rows, files) ==
  \A b \in Buckets, k \in Key :
    k.media = m /\ files[b][k] # NoObject =>
      /\ rows[m] # NoRow
      /\ b = rows[m].bucket
      /\ Lists(rows[m], k) \/ (Active(s) /\ Made(s, k))

Elsewhere(m) ==
  /\ \A n \in Medias : n # m => db'[n] = db[n]
  /\ \A b \in Buckets, k \in Key : k.media # m => store'[b][k] = store[b][k]

\* How the step of a worker from s to s2 changes the queue.
Queues(s, s2) ==
  \/ Active(s2) /\ s2.task = s.task /\ UNCHANGED tasks
  \/ ~Active(s2) /\ UNCHANGED tasks
  \/ /\ ~Active(s2)
     /\ \E u \in Task : /\ u.media = s.task.media
                        /\ tasks' = [tasks EXCEPT ![u] = @ + 1]

\* A step of the task s that makes it s2.
Moved(s, s2) ==
  LET m == s.task.media
  IN  /\ s2.pc # "idle" => s2.task = s.task
      /\ Queues(s, s2)
      /\ Elsewhere(m)
      /\ db'[m] # NoRow
      /\ db'[m].meta = db[m].meta
      /\ Sure(s2, db', store')
      /\ NoneFlat /\ OwnFiles(m, s, db, store) => OwnFiles(m, s2, db', store')
      /\ WholeAt(m, s, db, store) => WholeAt(m, s2, db', store')

Moves(w) ==
  \E s2 \in P!WorkerState : wk' = [wk EXCEPT ![w] = s2] /\ Moved(wk[w], s2)

LEMMA ActivePcs ==
  ASSUME NEW s
  PROVE  /\ Active(s) <=>
              s.pc \in {"open", "save_temp", "copy_temp", "remove_temp", "remove_old",
                        "stat", "update", "enqueue", "variant", "save_variant",
                        "stat_variant", "update_variants"}
         /\ s.pc \in P!ResizePC <=>
              s.pc \in {"variant", "save_variant", "stat_variant", "update_variants"}
         /\ s.pc \in P!OptimisePC \ {"enqueue"} <=>
              s.pc \in {"open", "save_temp", "copy_temp", "remove_temp", "remove_old",
                        "stat", "update"}
         /\ Active(s) => s.pc # "idle"
  BY DEF Active, P!OptimisePC, P!ResizePC

LEMMA MadeFacts ==
  ASSUME NEW s, NEW k
  PROVE  /\ s.pc \in {"open", "save_temp", "enqueue"} => ~Made(s, k)
         /\ s.pc = "copy_temp" =>
              (Made(s, k) <=> k = TempOf(s.task.media, s.media))
         /\ s.pc = "remove_temp" =>
              (Made(s, k) <=> \/ k = TempOf(s.task.media, s.media)
                              \/ k = NewKeyOf(s.task.media, s.media))
         /\ s.pc \in {"remove_old", "stat", "update"} =>
              (Made(s, k) <=> k = NewKeyOf(s.task.media, s.media))
         /\ s.pc \in {"variant", "save_variant", "update_variants"} =>
              (Made(s, k) <=>
                 \E i \in 1..Len(s.media.variants) : k = s.media.variants[i].key)
         /\ s.pc = "stat_variant" =>
              (Made(s, k) <=>
                 \/ \E i \in 1..Len(s.media.variants) : k = s.media.variants[i].key
                 \/ k = VariantKey(s.task.media, P!TargetWidths[s.i]))
  BY ActivePcs DEF Made

\* A task that works on m knows its row.
LEMMA TaskFacts ==
  ASSUME IInv, CalmInv, NEW w \in Workers, NEW s, s = wk[w], Active(s)
  PROVE  /\ s \in P!WorkerState
         /\ TaskLocal(s)
         /\ s.pc # "idle"
         /\ s.task \in Task
         /\ s.task.media \in Medias
         /\ RowOf(s.task.media, s.media)
         /\ Current(s, db) /\ Present(s, store)
         /\ db[s.task.media] # NoRow
         /\ RowOf(s.task.media, db[s.task.media])
<1>1. s.pc # "idle"
  BY ActivePcs
<1>2. /\ s \in P!WorkerState /\ TaskLocal(s)
      /\ s.task \in Task /\ s.task.media \in Medias
      /\ RowOf(s.task.media, s.media)
  BY <1>1, AtWork DEF IInv
<1>3. Current(s, db) /\ Present(s, store)
  BY DEF CalmInv, Sure
<1>4. db[s.task.media] # NoRow
  BY <1>3 DEF Current
<1>5. RowOf(s.task.media, db[s.task.media])
  BY <1>2, <1>4 DEF IInv, RowsOK
<1> QED
  BY <1>1, <1>2, <1>3, <1>4, <1>5

\* The kinds of the keys a task works with.
LEMMA KeyKinds ==
  ASSUME NEW s, TaskLocal(s), s.pc # "idle"
  PROVE  /\ s.task \in Task /\ s.task.media \in Medias
         /\ RowOf(s.task.media, s.media)
         /\ s.media.bucket \in Buckets
         /\ s.media.key \in Key /\ s.media.key.media = s.task.media
         /\ s.media.key.kind = "file"
         /\ NewKeyOf(s.task.media, s.media) \in Key
         /\ NewKeyOf(s.task.media, s.media).media = s.task.media
         /\ NewKeyOf(s.task.media, s.media).kind = "file"
         /\ TempOf(s.task.media, s.media) \in Key
         /\ TempOf(s.task.media, s.media).media = s.task.media
         /\ TempOf(s.task.media, s.media).kind = "temp"
<1>1. s.task \in Task /\ RowOf(s.task.media, s.media)
  BY DEF TaskLocal
<1>2. s.task.media \in Medias
  BY <1>1 DEF Task
<1> QED
  BY <1>1, <1>2, RowOfFacts, NewRowFacts

LEMMA VariantKinds ==
  ASSUME NEW s, TaskLocal(s),
         s.pc \in {"variant", "save_variant", "stat_variant"}
  PROVE  /\ s.i \in 1..Len(P!TargetWidths)
         /\ VariantKey(s.task.media, P!TargetWidths[s.i]) \in Key
         /\ VariantKey(s.task.media, P!TargetWidths[s.i]).media = s.task.media
         /\ VariantKey(s.task.media, P!TargetWidths[s.i]).kind = "variant"
<1>1. s.i \in 1..Len(P!TargetWidths)
  BY DEF TaskLocal
<1>2. P!TargetWidths[s.i] \in Widths /\ s.task.media \in Medias
  BY <1>1, TargetFacts, KeyKinds
<1> QED
  BY <1>1, <1>2, VariantKeyFacts

\* A step on another media changes nothing for a task.
LEMMA SureStays ==
  ASSUME NEW s, TaskLocal(s), Sure(s, db, store), NEW m \in Medias,
         Active(s) => s.task.media # m, Elsewhere(m)
  PROVE  Sure(s, db', store')
<1> SUFFICES ASSUME Active(s)
             PROVE  Current(s, db') /\ Present(s, store')
  BY DEF Sure
<1>1. s.pc # "idle" /\ s.task.media # m /\ Current(s, db) /\ Present(s, store)
  BY ActivePcs DEF Sure
<1>2. s.task.media \in Medias
  BY <1>1, KeyKinds
<1>3. db'[s.task.media] = db[s.task.media]
  BY <1>1, <1>2 DEF Elsewhere
<1>4. Current(s, db')
  BY <1>1, <1>3 DEF Current
<1>5. \A k \in Key : k.media = s.task.media =>
        store'[s.media.bucket][k] = store[s.media.bucket][k]
  BY <1>1, KeyKinds DEF Elsewhere
<1>6. /\ store'[s.media.bucket][s.media.key] = store[s.media.bucket][s.media.key]
      /\ store'[s.media.bucket][NewKeyOf(s.task.media, s.media)]
           = store[s.media.bucket][NewKeyOf(s.task.media, s.media)]
      /\ store'[s.media.bucket][TempOf(s.task.media, s.media)]
           = store[s.media.bucket][TempOf(s.task.media, s.media)]
      /\ s.pc = "stat_variant" =>
           store'[s.media.bucket][VariantKey(s.task.media, P!TargetWidths[s.i])]
             = store[s.media.bucket][VariantKey(s.task.media, P!TargetWidths[s.i])]
  BY <1>1, <1>5, KeyKinds, VariantKinds
<1>7. Present(s, store')
  BY <1>1, <1>6 DEF Present
<1> QED
  BY <1>4, <1>7

-----------------------------------------------------------------------------
(* The steps of a task *)

LEMMA GotoFacts ==
  ASSUME WorkersOK, NEW w \in Workers, NEW s \in P!WorkerState, s = wk[w],
         NEW pc \in P!Busy, P!Goto(w, pc)
  PROVE  \E s2 \in P!WorkerState :
           /\ wk' = [wk EXCEPT ![w] = s2]
           /\ s2.pc = pc /\ s2.task = s.task /\ s2.media = s.media
           /\ s2.blob = s.blob /\ s2.i = s.i
<1> DEFINE s2 == [s EXCEPT !.pc = pc]
<1>1. wk' = [wk EXCEPT ![w] = s2]
  BY DEF P!Goto, WorkersOK
<1>2. s2 \in P!WorkerState
  BY WorkerStateIs
<1>3. /\ s2.pc = pc /\ s2.task = s.task /\ s2.media = s.media
      /\ s2.blob = s.blob /\ s2.i = s.i
  BY WorkerStateIs
<1> HIDE DEF s2
<1> QED
  BY <1>1, <1>2, <1>3

\* A step that changes neither rows nor files.
LEMMA QuietMove ==
  ASSUME NEW s, NEW s2, db[s.task.media] # NoRow, UNCHANGED <<db, store>>,
         s2.pc # "idle" => s2.task = s.task, Queues(s, s2),
         Sure(s2, db, store),
         NoneFlat => \A k \in Key : Made(s, k) =>
           Lists(db[s.task.media], k) \/ (Active(s2) /\ Made(s2, k)),
         s.pc \in {"stat", "update"} => s2.pc \in {"stat", "update"}
  PROVE  Moved(s, s2)
<1> DEFINE m == s.task.media
<1>1. Elsewhere(m)
  BY DEF Elsewhere
<1>2. NoneFlat /\ OwnFiles(m, s, db, store) => OwnFiles(m, s2, db', store')
  BY DEF OwnFiles
<1>3. WholeAt(m, s, db, store) => WholeAt(m, s2, db', store')
  BY DEF WholeAt
<1> QED
  BY <1>1, <1>2, <1>3 DEF Moved

\* A step that writes or removes one file of its media.
LEMMA StoreMove ==
  ASSUME FilesOK, NEW s, NEW s2, NEW m, m = s.task.media, db[m] # NoRow,
         UNCHANGED db, Active(s2), s2.task = s.task, UNCHANGED tasks,
         NEW b \in Buckets, b = db[m].bucket, NEW k0 \in Key, k0.media = m, NEW x,
         store' = [store EXCEPT ![b][k0] = x],
         Sure(s2, db, store'),
         \A k \in Key : Made(s, k) /\ k # k0 => Made(s2, k),
         x # NoObject => Made(s2, k0) \/ Lists(db[m], k0),
         WholeAt(m, s, db, store) => WholeAt(m, s2, db, store')
  PROVE  Moved(s, s2)
<1>1. \A c \in Buckets, k \in Key :
        store'[c][k] = IF c = b /\ k = k0 THEN x ELSE store[c][k]
  BY DEF FilesOK
<1>2. Elsewhere(m)
  <2>1. ASSUME NEW c \in Buckets, NEW k \in Key, k.media # m
        PROVE  store'[c][k] = store[c][k]
    <3>1. k # k0
      BY <2>1
    <3> QED
      BY <1>1, <3>1
  <2> QED
    BY <2>1 DEF Elsewhere
<1>3. OwnFiles(m, s, db, store) => OwnFiles(m, s2, db', store')
  <2> SUFFICES ASSUME OwnFiles(m, s, db, store), NEW c \in Buckets, NEW k \in Key,
                      k.media = m, store'[c][k] # NoObject
               PROVE  c = db[m].bucket /\ (Lists(db[m], k) \/ Made(s2, k))
    BY DEF OwnFiles
  <2>1. CASE c = b /\ k = k0
    BY <1>1, <2>1
  <2>2. CASE ~(c = b /\ k = k0)
    <3>1. store[c][k] # NoObject
      BY <1>1, <2>2
    <3>2. c = db[m].bucket /\ (Lists(db[m], k) \/ Made(s, k))
      BY <3>1 DEF OwnFiles
    <3> QED
      BY <2>2, <3>2
  <2> QED
    BY <2>1, <2>2
<1>4. Queues(s, s2)
  BY DEF Queues
<1> QED
  BY <1>2, <1>3, <1>4 DEF Moved

\* A task that fails: nothing it made may be lost.
LEMMA FailMoves ==
  ASSUME IInv, CalmInv, NEW w \in Workers, NEW s, s = wk[w], Active(s),
         P!Fail(w), UNCHANGED <<db, store>>, s.pc \notin {"stat", "update"},
         NoneFlat => \A k \in Key : Made(s, k) => Lists(db[s.task.media], k)
  PROVE  Moves(w)
<1>1. s.task \in Task /\ db[s.task.media] # NoRow
  BY TaskFacts
<1>2. P!IdleWorker \in P!WorkerState /\ P!IdleWorker.pc = "idle"
  BY IdleFacts DEF P!IdleWorker
<1>3. ~Active(P!IdleWorker)
  BY <1>2, ActivePcs
<1>4. Queues(s, P!IdleWorker)
  BY <1>1, <1>3 DEF Queues, P!Fail, P!Requeue
<1>5. Sure(P!IdleWorker, db, store)
  BY <1>3 DEF Sure
<1>6. Moved(s, P!IdleWorker)
  BY <1>1, <1>2, <1>4, <1>5, QuietMove
<1>7. wk' = [wk EXCEPT ![w] = P!IdleWorker]
  BY DEF P!Fail
<1> QED
  BY <1>2, <1>6, <1>7 DEF Moves

LEMMA OpenMoves ==
  ASSUME IInv, CalmInv, Faults = {}, NEW w \in Workers, P!OpenOriginal(w)
  PROVE  Moves(w)
<1>1. wk[w].pc = "open"
      /\ UNCHANGED <<db, store, details, etags, backlog, crashes, backlogs>>
  BY DEF P!OpenOriginal
<1>2. PICK s : s = wk[w]
  OBVIOUS
<1>3. Active(s) /\ s.pc = "open"
  BY <1>1, <1>2, ActivePcs
<1>4. CASE P!Fail(w)
  BY <1>1, <1>2, <1>3, <1>4, FailMoves, MadeFacts
<1>5. CASE /\ P!Original(w) # NoObject
           /\ wk' = [wk EXCEPT ![w].pc = "save_temp",
                               ![w].blob = P!Original(w).blob]
           /\ UNCHANGED tasks
  <2>1. /\ s \in P!WorkerState /\ Current(s, db) /\ Present(s, store)
        /\ db[s.task.media] # NoRow /\ TaskLocal(s)
    BY <1>2, <1>3, TaskFacts
  <2>2. s.media.key \in Key
    BY <1>3, <2>1, KeyKinds
  <2>3. /\ P!Original(w) = store[s.media.bucket][s.media.key]
        /\ P!Original(w).blob \in Blobs
    BY <1>1, <1>2, <1>5, <2>2, HereFacts DEF IInv
  <2>4. PICK b \in Blobs : b = P!Original(w).blob
    BY <2>3
  <2> DEFINE s2 == [s EXCEPT !.pc = "save_temp", !.blob = b]
  <2>5. wk' = [wk EXCEPT ![w] = s2]
    BY <1>2, <1>5, <2>1, <2>4, WorkerStateIs DEF IInv, WorkersOK
  <2>6. s2 \in P!WorkerState
    BY <2>1, WorkerStateIs, PcFacts
  <2>7. s2.pc = "save_temp" /\ s2.task = s.task /\ s2.media = s.media
    BY <2>1, WorkerStateIs
  <2> HIDE DEF s2
  <2>8. Active(s2)
    BY <2>7, ActivePcs
  <2>9. Current(s2, db)
    BY <1>3, <2>1, <2>7, ActivePcs DEF Current
  <2>10. Present(s2, store)
    BY <1>5, <2>3, <2>7 DEF Present
  <2>11. Queues(s, s2)
    BY <1>5, <2>7, <2>8 DEF Queues
  <2>12. Moved(s, s2)
    BY <1>1, <1>3, <2>1, <2>7, <2>9, <2>10, <2>11, QuietMove, MadeFacts DEF Sure
  <2> QED
    BY <1>2, <2>5, <2>6, <2>12 DEF Moves
<1> QED
  BY <1>4, <1>5 DEF P!OpenOriginal

LEMMA SaveTempMoves ==
  ASSUME IInv, CalmInv, Faults = {}, NEW w \in Workers, P!SaveTemp(w)
  PROVE  Moves(w)
<1>1. /\ wk[w].pc = "save_temp"
      /\ P!StoreSave(wk[w].media.bucket, P!Temp(w),
              [type |-> P!NewMimeType(w), blob |-> Packed[wk[w].blob]])
      /\ P!Goto(w, "copy_temp")
      /\ UNCHANGED <<db, tasks>>
  BY DEF P!SaveTemp
<1>2. PICK s : s = wk[w]
  OBVIOUS
<1>3. Active(s) /\ s.pc = "save_temp" /\ wk[w].pc # "idle"
  BY <1>1, <1>2, ActivePcs
<1>4. /\ s \in P!WorkerState /\ Current(s, db) /\ Present(s, store)
      /\ db[s.task.media] # NoRow /\ TaskLocal(s) /\ s.pc # "idle"
  BY <1>2, <1>3, TaskFacts
<1>5. PICK k0 \in Key : k0 = TempOf(s.task.media, s.media)
  BY <1>4, KeyKinds
<1>6. P!Temp(w) = k0 /\ P!NewMimeType(w) \in MimeTypes
  BY <1>2, <1>3, <1>5, AtWork, NewRowFacts, MimeFacts DEF IInv
<1>7. s.blob \in Blobs
  BY <1>3, <1>4, WorkerStateIs DEF TaskLocal
<1>8. PICK o \in Object :
        o = [type |-> P!NewMimeType(w), blob |-> Packed[wk[w].blob]]
  BY <1>2, <1>6, <1>7, TasksAssumption DEF P!PipelineAssumption, Object
<1>9. store' = [store EXCEPT ![s.media.bucket][k0] = o]
  BY <1>1, <1>2, <1>6, <1>8 DEF P!StoreSave
<1>10. PICK s2 \in P!WorkerState :
         /\ wk' = [wk EXCEPT ![w] = s2]
         /\ s2.pc = "copy_temp" /\ s2.task = s.task /\ s2.media = s.media
  BY <1>1, <1>2, <1>4, GotoFacts, PcFacts DEF IInv
<1>11. \A k \in Key : store'[s.media.bucket][k] =
         IF k = k0 THEN o ELSE store[s.media.bucket][k]
  BY <1>4, <1>9, KeyKinds DEF IInv, FilesOK
<1>12. o # NoObject
  BY NilFacts
<1>13. s.media.key \in Key /\ s.media.key # k0 /\ k0.media = s.task.media
  BY <1>4, <1>5, KeyKinds
<1>14. Present(s2, store')
  BY <1>3, <1>4, <1>5, <1>10, <1>11, <1>12, <1>13 DEF Present
<1>15. Current(s2, db) /\ Active(s2)
  BY <1>3, <1>4, <1>10, ActivePcs DEF Current
<1>16. s.media = db[s.task.media]
  BY <1>3, <1>4, ActivePcs DEF Current
<1>17. WholeAt(s.task.media, s, db, store) => WholeAt(s.task.media, s2, db, store')
  BY <1>3, <1>11, <1>13, <1>16 DEF WholeAt
<1>18. \A k \in Key : Made(s, k) /\ k # k0 => Made(s2, k)
  BY <1>3, MadeFacts
<1>19. Made(s2, k0)
  BY <1>5, <1>10, MadeFacts
<1>20. Sure(s2, db, store')
  BY <1>14, <1>15 DEF Sure
<1>21. s.media.bucket \in Buckets /\ s.media.bucket = db[s.task.media].bucket
  BY <1>4, <1>16, KeyKinds
<1>22. FilesOK /\ s2.task = s.task /\ UNCHANGED <<db, tasks>>
  BY <1>1, <1>10 DEF IInv
<1>23. Moved(s, s2)
  BY <1>4, <1>9, <1>13, <1>15, <1>17, <1>18, <1>19, <1>20, <1>21, <1>22, StoreMove
<1> QED
  BY <1>2, <1>10, <1>23 DEF Moves

LEMMA CopyTempMoves ==
  ASSUME IInv, CalmInv, Faults = {}, NEW w \in Workers, P!CopyTemp(w)
  PROVE  Moves(w)
<1>1. wk[w].pc = "copy_temp" /\ UNCHANGED <<db, details, etags, backlog, crashes, backlogs>>
  BY DEF P!CopyTemp
<1>2. PICK s : s = wk[w]
  OBVIOUS
<1>3. Active(s) /\ s.pc = "copy_temp" /\ wk[w].pc # "idle"
  BY <1>1, <1>2, ActivePcs
<1>4. /\ s \in P!WorkerState /\ Current(s, db) /\ Present(s, store)
      /\ db[s.task.media] # NoRow /\ TaskLocal(s) /\ s.pc # "idle"
  BY <1>2, <1>3, TaskFacts
<1>5. PICK k0 \in Key : k0 = NewKeyOf(s.task.media, s.media)
  BY <1>4, KeyKinds
<1>6. PICK temp \in Key : temp = TempOf(s.task.media, s.media)
  BY <1>4, KeyKinds
<1>7. P!NewKey(w) = k0 /\ P!Temp(w) = temp
  BY <1>2, <1>3, <1>5, <1>6, AtWork DEF IInv
<1>8. P!Here(w, temp) = store[s.media.bucket][temp]
  BY <1>2 DEF P!Here
<1>9. P!Here(w, temp) # NoObject
  BY <1>3, <1>4, <1>6, <1>8 DEF Present
<1>10. PICK o \in Object : o = P!Here(w, temp)
  BY <1>3, <1>9, HereFacts DEF IInv
<1>11. /\ P!StoreSave(wk[w].media.bucket, k0, o)
       /\ P!Goto(w, "remove_temp")
       /\ UNCHANGED tasks
  BY <1>7, <1>9, <1>10 DEF P!CopyTemp
<1>12. store' = [store EXCEPT ![s.media.bucket][k0] = o]
  BY <1>2, <1>11 DEF P!StoreSave
<1>13. PICK s2 \in P!WorkerState :
         /\ wk' = [wk EXCEPT ![w] = s2]
         /\ s2.pc = "remove_temp" /\ s2.task = s.task /\ s2.media = s.media
  BY <1>2, <1>4, <1>11, GotoFacts, PcFacts DEF IInv
<1>14. \A k \in Key : store'[s.media.bucket][k] =
         IF k = k0 THEN o ELSE store[s.media.bucket][k]
  BY <1>4, <1>12, KeyKinds DEF IInv, FilesOK
<1>15. o # NoObject
  BY NilFacts
<1>16. s.media.key \in Key /\ k0.media = s.task.media
  BY <1>4, <1>5, KeyKinds
<1>17. Present(s2, store')
  BY <1>3, <1>4, <1>5, <1>13, <1>14, <1>15, <1>16 DEF Present
<1>18. Current(s2, db) /\ Active(s2)
  BY <1>3, <1>4, <1>13, ActivePcs DEF Current
<1>19. s.media = db[s.task.media]
  BY <1>3, <1>4, ActivePcs DEF Current
<1>20. WholeAt(s.task.media, s, db, store) => WholeAt(s.task.media, s2, db, store')
  BY <1>3, <1>14, <1>15, <1>16, <1>19 DEF WholeAt
<1>21. \A k \in Key : Made(s, k) /\ k # k0 => Made(s2, k)
  BY <1>3, <1>13, MadeFacts
<1>22. Made(s2, k0)
  BY <1>5, <1>13, MadeFacts
<1>23. Sure(s2, db, store')
  BY <1>17, <1>18 DEF Sure
<1>24. s.media.bucket \in Buckets /\ s.media.bucket = db[s.task.media].bucket
  BY <1>4, <1>19, KeyKinds
<1>25. FilesOK /\ s2.task = s.task /\ UNCHANGED <<db, tasks>>
  BY <1>1, <1>11, <1>13 DEF IInv
<1>26. Moved(s, s2)
  BY <1>4, <1>12, <1>16, <1>18, <1>20, <1>21, <1>22, <1>23, <1>24, <1>25, StoreMove
<1> QED
  BY <1>2, <1>13, <1>26 DEF Moves

LEMMA RemoveTempMoves ==
  ASSUME IInv, CalmInv, Faults = {}, NEW w \in Workers, P!RemoveTemp(w)
  PROVE  Moves(w)
<1>1. wk[w].pc = "remove_temp" /\ UNCHANGED <<db, tasks>>
  BY DEF P!RemoveTemp
<1>2. PICK s : s = wk[w]
  OBVIOUS
<1>3. Active(s) /\ s.pc = "remove_temp" /\ wk[w].pc # "idle"
  BY <1>1, <1>2, ActivePcs
<1>4. /\ s \in P!WorkerState /\ Current(s, db) /\ Present(s, store)
      /\ db[s.task.media] # NoRow /\ TaskLocal(s) /\ s.pc # "idle"
  BY <1>2, <1>3, TaskFacts
<1>5. PICK k0 \in Key : k0 = TempOf(s.task.media, s.media)
  BY <1>4, KeyKinds
<1>6. PICK new \in Key : new = NewKeyOf(s.task.media, s.media)
  BY <1>4, KeyKinds
<1>7. P!NewKey(w) = new /\ P!Temp(w) = k0
  BY <1>2, <1>3, <1>5, <1>6, AtWork DEF IInv
<1>8. store' = [store EXCEPT ![s.media.bucket][k0] = NoObject]
  BY <1>2, <1>7 DEF P!RemoveTemp, P!StoreRemove
<1>9. PICK pc \in {"remove_old", "stat"} :
        P!Goto(w, pc) /\ (pc = "remove_old" <=> new # s.media.key)
  BY <1>2, <1>7 DEF P!RemoveTemp
<1>10. PICK s2 \in P!WorkerState :
         /\ wk' = [wk EXCEPT ![w] = s2]
         /\ s2.pc = pc /\ s2.task = s.task /\ s2.media = s.media
  BY <1>2, <1>4, <1>9, GotoFacts, PcFacts DEF IInv
<1>11. \A k \in Key : store'[s.media.bucket][k] =
         IF k = k0 THEN NoObject ELSE store[s.media.bucket][k]
  BY <1>4, <1>8, KeyKinds DEF IInv, FilesOK
<1>12. /\ s.media.key \in Key /\ s.media.key # k0 /\ new # k0
       /\ k0.media = s.task.media
  BY <1>4, <1>5, <1>6, KeyKinds
<1>13. Present(s2, store')
  BY <1>3, <1>4, <1>6, <1>9, <1>10, <1>11, <1>12 DEF Present
<1>14. Current(s2, db) /\ Active(s2)
  BY <1>3, <1>4, <1>9, <1>10, ActivePcs DEF Current
<1>15. s.media = db[s.task.media]
  BY <1>3, <1>4, ActivePcs DEF Current
<1>16. WholeAt(s.task.media, s, db, store) => WholeAt(s.task.media, s2, db, store')
  BY <1>3, <1>11, <1>12, <1>15 DEF WholeAt
<1>17. \A k \in Key : Made(s, k) /\ k # k0 => Made(s2, k)
  BY <1>3, <1>5, <1>9, <1>10, MadeFacts
<1>18. Sure(s2, db, store')
  BY <1>13, <1>14 DEF Sure
<1>19. s.media.bucket \in Buckets /\ s.media.bucket = db[s.task.media].bucket
  BY <1>4, <1>15, KeyKinds
<1>20. FilesOK /\ s2.task = s.task
  BY <1>10 DEF IInv
<1>21. Moved(s, s2)
  BY <1>1, <1>4, <1>8, <1>12, <1>14, <1>16, <1>17, <1>18, <1>19, <1>20, StoreMove
<1> QED
  BY <1>2, <1>10, <1>21 DEF Moves

LEMMA RemoveOldMoves ==
  ASSUME IInv, CalmInv, Faults = {}, NEW w \in Workers, P!RemoveOld(w)
  PROVE  Moves(w)
<1>1. /\ wk[w].pc = "remove_old"
      /\ UNCHANGED <<db, tasks>>
      /\ P!StoreRemove(wk[w].media.bucket, wk[w].media.key)
      /\ P!Goto(w, "stat")
  BY DEF P!RemoveOld
<1>2. PICK s : s = wk[w]
  OBVIOUS
<1>3. Active(s) /\ s.pc = "remove_old"
  BY <1>1, <1>2, ActivePcs
<1>4. /\ s \in P!WorkerState /\ Current(s, db) /\ Present(s, store)
      /\ db[s.task.media] # NoRow /\ TaskLocal(s) /\ s.pc # "idle"
  BY <1>2, <1>3, TaskFacts
<1>5. PICK k0 \in Key : k0 = s.media.key
  BY <1>4, KeyKinds
<1>6. PICK new \in Key : new = NewKeyOf(s.task.media, s.media)
  BY <1>4, KeyKinds
<1>7. store' = [store EXCEPT ![s.media.bucket][k0] = NoObject]
  BY <1>1, <1>2, <1>5 DEF P!StoreRemove
<1>8. PICK s2 \in P!WorkerState :
         /\ wk' = [wk EXCEPT ![w] = s2]
         /\ s2.pc = "stat" /\ s2.task = s.task /\ s2.media = s.media
  BY <1>1, <1>2, <1>4, GotoFacts, PcFacts DEF IInv
<1>9. \A k \in Key : store'[s.media.bucket][k] =
         IF k = k0 THEN NoObject ELSE store[s.media.bucket][k]
  BY <1>4, <1>7, KeyKinds DEF IInv, FilesOK
<1>10. new # k0 /\ k0.media = s.task.media
  BY <1>3, <1>4, <1>5, <1>6, KeyKinds DEF Present
<1>11. Present(s2, store')
  BY <1>3, <1>4, <1>5, <1>6, <1>8, <1>9, <1>10 DEF Present
<1>12. Current(s2, db) /\ Active(s2)
  BY <1>3, <1>4, <1>8, ActivePcs DEF Current
<1>13. s.media = db[s.task.media]
  BY <1>3, <1>4, ActivePcs DEF Current
<1>14. WholeAt(s.task.media, s, db, store) => WholeAt(s.task.media, s2, db, store')
  BY <1>8 DEF WholeAt
<1>15. \A k \in Key : Made(s, k) /\ k # k0 => Made(s2, k)
  BY <1>3, <1>8, MadeFacts
<1>16. Sure(s2, db, store')
  BY <1>11, <1>12 DEF Sure
<1>17. s.media.bucket \in Buckets /\ s.media.bucket = db[s.task.media].bucket
  BY <1>4, <1>13, KeyKinds
<1>18. FilesOK /\ s2.task = s.task
  BY <1>8 DEF IInv
<1>19. Moved(s, s2)
  BY <1>1, <1>4, <1>7, <1>10, <1>12, <1>14, <1>15, <1>16, <1>17, <1>18, StoreMove
<1> QED
  BY <1>2, <1>8, <1>19 DEF Moves

LEMMA StatNewMoves ==
  ASSUME IInv, CalmInv, Faults = {}, NEW w \in Workers, P!StatNew(w)
  PROVE  Moves(w)
<1>1. wk[w].pc = "stat" /\ UNCHANGED <<db, store>>
  BY DEF P!StatNew
<1>2. PICK s : s = wk[w]
  OBVIOUS
<1>3. Active(s) /\ s.pc = "stat" /\ wk[w].pc # "idle"
  BY <1>1, <1>2, ActivePcs
<1>4. /\ s \in P!WorkerState /\ Current(s, db) /\ Present(s, store)
      /\ db[s.task.media] # NoRow /\ TaskLocal(s) /\ s.pc # "idle"
  BY <1>2, <1>3, TaskFacts
<1>5. PICK new \in Key : new = NewKeyOf(s.task.media, s.media)
  BY <1>4, KeyKinds
<1>6. P!NewKey(w) = new
  BY <1>2, <1>3, <1>5, AtWork DEF IInv
<1>7. P!Here(w, new) = store[s.media.bucket][new]
  BY <1>2 DEF P!Here
<1>8. P!Here(w, new) # NoObject
  BY <1>3, <1>4, <1>5, <1>7 DEF Present
<1>9. Size[P!Here(w, new).blob] \in Nat
  BY <1>3, <1>8, HereFacts, BlobsAssumption DEF IInv
<1>10. PICK n \in Nat : n = Size[P!Here(w, new).blob]
  BY <1>9
<1>11. /\ wk' = [wk EXCEPT ![w].pc = "update", ![w].size = n]
       /\ UNCHANGED tasks
  BY <1>6, <1>8, <1>10 DEF P!StatNew
<1> DEFINE s2 == [s EXCEPT !.pc = "update", !.size = n]
<1>12. wk' = [wk EXCEPT ![w] = s2]
  BY <1>2, <1>4, <1>11, WorkerStateIs DEF IInv, WorkersOK
<1>13. s2 \in P!WorkerState
  BY <1>4, WorkerStateIs, PcFacts
<1>14. s2.pc = "update" /\ s2.task = s.task /\ s2.media = s.media
  BY <1>4, WorkerStateIs
<1> HIDE DEF s2
<1>15. Active(s2) /\ Current(s2, db)
  BY <1>3, <1>4, <1>14, ActivePcs DEF Current
<1>16. Present(s2, store)
  BY <1>3, <1>4, <1>14 DEF Present
<1>17. Queues(s, s2)
  BY <1>11, <1>14, <1>15 DEF Queues
<1>18. \A k \in Key : Made(s, k) => Made(s2, k)
  BY <1>3, <1>14, MadeFacts
<1>19. Moved(s, s2)
  BY <1>1, <1>4, <1>14, <1>15, <1>16, <1>17, <1>18, QuietMove DEF Sure
<1> QED
  BY <1>2, <1>12, <1>13, <1>19 DEF Moves

\* A step that writes the row of its media, and no file.
LEMMA RowMove ==
  ASSUME RowsOK, NEW s, NEW s2, NEW m \in Medias, m = s.task.media,
         db[m] # NoRow, UNCHANGED store,
         NEW row \in Row, RepoUpdate(m, row),
         row.meta = db[m].meta, row.bucket = db[m].bucket,
         s2.pc # "idle" => s2.task = s.task, Queues(s, s2), Sure(s2, db', store),
         \A k \in Key :
           store[db[m].bucket][k] # NoObject /\ (Lists(db[m], k) \/ Made(s, k))
             => Lists(row, k),
         WholeAt(m, s, db, store) => store[row.bucket][row.key] # NoObject
  PROVE  Moved(s, s2)
<1>1. db'[m] = row /\ \A n \in Medias : n # m => db'[n] = db[n]
  BY DEF RepoUpdate, RowsOK, UpdatedRow
<1>2. row # NoRow
  BY NilFacts
<1>3. Elsewhere(m)
  BY <1>1 DEF Elsewhere
<1>4. OwnFiles(m, s, db, store) => OwnFiles(m, s2, db', store')
  BY <1>1, <1>2 DEF OwnFiles
<1>5. WholeAt(m, s, db, store) => WholeAt(m, s2, db', store')
  BY <1>1 DEF WholeAt
<1> QED
  BY <1>1, <1>2, <1>3, <1>4, <1>5 DEF Moved

LEMMA UpdateMoves ==
  ASSUME IInv, CalmInv, Faults = {}, NEW w \in Workers, P!UpdateOptimised(w)
  PROVE  Moves(w)
<1>1. wk[w].pc = "update" /\ UNCHANGED <<store, tasks>>
      /\ P!RepoUpdate(P!Media(w), P!OptimisedRow(w))
  BY DEF P!UpdateOptimised
<1>2. PICK s : s = wk[w]
  OBVIOUS
<1>3. Active(s) /\ s.pc = "update" /\ wk[w].pc # "idle"
  BY <1>1, <1>2, ActivePcs
<1>4. /\ s \in P!WorkerState /\ Current(s, db) /\ Present(s, store)
      /\ db[s.task.media] # NoRow /\ TaskLocal(s) /\ s.pc # "idle"
      /\ s.task.media \in Medias
  BY <1>2, <1>3, TaskFacts
<1>5. PICK m \in Medias : m = s.task.media
  BY <1>4
<1>6. PICK new \in Key : new = NewKeyOf(m, s.media)
  BY <1>4, <1>5, KeyKinds
<1>7. s.media = db[m] /\ s.media \in Row
  BY <1>3, <1>4, <1>5, ActivePcs, KeyKinds, RowOfFacts DEF Current
<1>8. NewMime(s.media) \in AllowedMimeTypes
  BY <1>4, <1>5, KeyKinds, NewRowFacts
<1>9. s.size \in Nat \cup {Nil}
  BY <1>4, WorkerStateIs
<1> DEFINE row == [s.media EXCEPT !.optimised = TRUE, !.size = s.size,
                     !.mime = NewMime(s.media), !.key = new]
<1>10. P!OptimisedRow(w) = row /\ P!Media(w) = m
  BY <1>2, <1>3, <1>5, <1>6, AtWork DEF P!OptimisedRow, IInv
<1>11. row \in Row
  BY <1>7, <1>8, <1>9 DEF Row
<1>12. /\ row.meta = s.media.meta /\ row.bucket = s.media.bucket
       /\ row.key = new /\ row.variants = s.media.variants
  BY <1>7 DEF Row
<1> HIDE DEF row
<1>13. RepoUpdate(m, row)
  BY <1>1, <1>10 DEF P!RepoUpdate, RepoUpdate, P!UpdatedRow, UpdatedRow
<1>14. PICK pc \in {"enqueue", "uncache"} : P!Goto(w, pc)
  BY DEF P!UpdateOptimised
<1>15. PICK s2 \in P!WorkerState :
         wk' = [wk EXCEPT ![w] = s2] /\ s2.pc = pc /\ s2.task = s.task
  BY <1>2, <1>4, <1>14, GotoFacts, PcFacts DEF IInv
<1>16. db'[m] # NoRow
  BY <1>4, <1>5, <1>11, <1>13, NilFacts DEF RepoUpdate, UpdatedRow, IInv, RowsOK
<1>17. Sure(s2, db', store)
  <2>1. CASE pc = "enqueue"
    <3>1. Current(s2, db')
      BY <1>5, <1>15, <1>16, <2>1, ActivePcs DEF Current
    <3>2. Present(s2, store)
      BY <1>15, <2>1 DEF Present
    <3> QED
      BY <3>1, <3>2 DEF Sure
  <2>2. CASE pc = "uncache"
    BY <1>15, <2>2, ActivePcs DEF Sure
  <2> QED
    BY <2>1, <2>2
<1>18. Queues(s, s2)
  BY <1>1, <1>15 DEF Queues
<1>19. ASSUME NEW k \in Key, store[db[m].bucket][k] # NoObject,
              Lists(db[m], k) \/ Made(s, k)
       PROVE  Lists(row, k)
  <2>1. CASE k = new
    BY <1>12, <2>1 DEF Lists
  <2>2. CASE k # new
    <3>1. Lists(s.media, k)
      BY <1>3, <1>5, <1>6, <1>7, <1>19, <2>2, MadeFacts
    <3>2. k # s.media.key
      BY <1>3, <1>4, <1>5, <1>6, <1>7, <1>19, <2>2 DEF Present
    <3> QED
      BY <1>12, <3>1, <3>2 DEF Lists
  <2> QED
    BY <2>1, <2>2
<1>20. store[row.bucket][row.key] # NoObject
  BY <1>3, <1>4, <1>5, <1>6, <1>12 DEF Present
<1>21. Moved(s, s2)
  BY <1>1, <1>4, <1>5, <1>7, <1>11, <1>12, <1>13, <1>15, <1>17, <1>18, <1>19,
     <1>20, RowMove DEF IInv
<1> QED
  BY <1>2, <1>15, <1>21 DEF Moves

LEMMA EnqueueMoves ==
  ASSUME IInv, CalmInv, Faults = {}, NEW w \in Workers, P!EnqueueResizeImage(w)
  PROVE  Moves(w)
<1>1. /\ wk[w].pc = "enqueue" /\ UNCHANGED <<db, store>>
      /\ P!Enqueue(P!ResizeTask(P!Media(w)))
      /\ P!Goto(w, "uncache")
  BY DEF P!EnqueueResizeImage
<1>2. PICK s : s = wk[w]
  OBVIOUS
<1>3. Active(s) /\ s.pc = "enqueue" /\ wk[w].pc # "idle"
  BY <1>1, <1>2, ActivePcs
<1>4. s \in P!WorkerState /\ db[s.task.media] # NoRow /\ s.task.media \in Medias
  BY <1>2, <1>3, TaskFacts
<1>5. P!Media(w) = s.task.media
  BY <1>2 DEF P!Media
<1> DEFINE u == ResizeTask(s.task.media)
<1>6. /\ u \in Task /\ u.media = s.task.media
      /\ u = P!ResizeTask(P!Media(w))
  BY <1>4, <1>5 DEF P!ResizeTask, ResizeTask, Task, TaskKinds
<1> HIDE DEF u
<1>7. tasks' = [tasks EXCEPT ![u] = @ + 1]
  BY <1>1, <1>6 DEF P!Enqueue
<1>8. PICK s2 \in P!WorkerState :
        wk' = [wk EXCEPT ![w] = s2] /\ s2.pc = "uncache" /\ s2.task = s.task
  BY <1>1, <1>2, <1>4, GotoFacts, PcFacts DEF IInv
<1>9. ~Active(s2)
  BY <1>8, ActivePcs
<1>10. Queues(s, s2)
  BY <1>6, <1>7, <1>9 DEF Queues
<1>11. Moved(s, s2)
  BY <1>1, <1>3, <1>4, <1>8, <1>9, <1>10, QuietMove, MadeFacts DEF Sure
<1> QED
  BY <1>2, <1>8, <1>11 DEF Moves

LEMMA UpdateVariantsMoves ==
  ASSUME IInv, CalmInv, Faults = {}, NEW w \in Workers, P!UpdateVariants(w)
  PROVE  Moves(w)
<1>1. /\ wk[w].pc = "update_variants" /\ UNCHANGED <<store, tasks>>
      /\ P!RepoUpdate(P!Media(w), wk[w].media)
      /\ P!Goto(w, "uncache")
  BY DEF P!UpdateVariants
<1>2. PICK s : s = wk[w]
  OBVIOUS
<1>3. Active(s) /\ s.pc = "update_variants" /\ s.pc \in P!ResizePC
  BY <1>1, <1>2, ActivePcs
<1>4. /\ s \in P!WorkerState /\ Current(s, db)
      /\ db[s.task.media] # NoRow /\ TaskLocal(s) /\ s.pc # "idle"
      /\ s.task.media \in Medias /\ RowOf(s.task.media, s.media)
  BY <1>2, <1>3, TaskFacts
<1>5. PICK m \in Medias : m = s.task.media
  BY <1>4
<1>6. PICK row \in Row : row = s.media
  BY <1>4, RowOfFacts
<1>7. /\ row.bucket = db[m].bucket /\ row.key = db[m].key /\ row.meta = db[m].meta
      /\ \A i \in 1..Len(db[m].variants) : Lists(row, db[m].variants[i].key)
  BY <1>3, <1>4, <1>5, <1>6 DEF Current
<1>8. RepoUpdate(m, row)
  BY <1>1, <1>2, <1>5, <1>6
  DEF P!RepoUpdate, RepoUpdate, P!UpdatedRow, UpdatedRow, P!Media
<1>9. PICK s2 \in P!WorkerState :
        wk' = [wk EXCEPT ![w] = s2] /\ s2.pc = "uncache" /\ s2.task = s.task
  BY <1>1, <1>2, <1>4, GotoFacts, PcFacts DEF IInv
<1>10. ~Active(s2)
  BY <1>9, ActivePcs
<1>11. Queues(s, s2) /\ Sure(s2, db', store)
  BY <1>1, <1>10 DEF Queues, Sure
<1>12. ASSUME NEW k \in Key, Lists(db[m], k) \/ Made(s, k)
       PROVE  Lists(row, k)
  <2>1. CASE Lists(db[m], k)
    BY <1>7, <2>1 DEF Lists
  <2>2. CASE Made(s, k)
    BY <1>3, <1>6, <2>2, MadeFacts DEF Lists
  <2> QED
    BY <1>12, <2>1, <2>2
<1>13. WholeAt(m, s, db, store) => store[row.bucket][row.key] # NoObject
  BY <1>3, <1>7 DEF WholeAt
<1>14. Moved(s, s2)
  BY <1>1, <1>4, <1>5, <1>7, <1>8, <1>9, <1>11, <1>12, <1>13, RowMove DEF IInv
<1> QED
  BY <1>2, <1>9, <1>14 DEF Moves

\* What a resize task holds: the original is the one it began to read.
LEMMA ResizeFacts ==
  ASSUME IInv, CalmInv, NEW w \in Workers, NEW s, s = wk[w],
         s.pc \in {"variant", "save_variant", "stat_variant"}
  PROVE  /\ s \in P!WorkerState /\ TaskLocal(s) /\ Active(s) /\ s.pc # "idle"
         /\ s.pc \in P!ResizePC
         /\ s.task.media \in Medias
         /\ db[s.task.media] # NoRow
         /\ Current(s, db) /\ Present(s, store)
         /\ RowOf(s.task.media, s.media)
         /\ s.media.bucket \in Buckets /\ s.media.key \in Key
         /\ s.media.key.kind = "file"
         /\ s.media.bucket = db[s.task.media].bucket
         /\ s.media.key = db[s.task.media].key
         /\ s.i \in 1..Len(P!TargetWidths)
         /\ s.pc # "variant" \/ s.i > 1 =>
              store[s.media.bucket][s.media.key] # NoObject
         /\ s.blob # Nil => s.blob = store[s.media.bucket][s.media.key].blob
<1>1. Active(s) /\ s.pc \in P!ResizePC
  BY ActivePcs
<1>2. /\ s \in P!WorkerState /\ TaskLocal(s) /\ s.pc # "idle"
      /\ s.task.media \in Medias /\ db[s.task.media] # NoRow
      /\ Current(s, db) /\ Present(s, store) /\ RowOf(s.task.media, s.media)
  BY <1>1, TaskFacts
<1>3. /\ s.media.bucket \in Buckets /\ s.media.key \in Key
      /\ s.media.key.kind = "file"
  BY <1>2, RowOfFacts
<1>4. s.media.bucket = db[s.task.media].bucket /\ s.media.key = db[s.task.media].key
  BY <1>1, <1>2 DEF Current
<1>5. s.i \in 1..Len(P!TargetWidths)
  BY <1>2, VariantKinds
<1>6. s.i = 1 \/ s.i > 1
  BY <1>5, WidthsAreFinite
<1>7. /\ s.pc # "variant" \/ s.i > 1 =>
           store[s.media.bucket][s.media.key] # NoObject
      /\ s.blob # Nil => s.blob = store[s.media.bucket][s.media.key].blob
  BY <1>2, <1>6 DEF Present
<1> QED
  BY <1>1, <1>2, <1>3, <1>4, <1>5, <1>7

LEMMA MakeVariantMoves ==
  ASSUME IInv, CalmInv, Faults = {}, NEW w \in Workers, P!MakeVariant(w)
  PROVE  Moves(w)
<1>1. wk[w].pc = "variant" /\ UNCHANGED db /\ wk[w].pc # "idle"
  BY DEF P!MakeVariant
<1>2. PICK s : s = wk[w]
  OBVIOUS
<1>3. /\ s.pc = "variant" /\ s \in P!WorkerState /\ TaskLocal(s) /\ Active(s)
      /\ s.pc \in P!ResizePC /\ s.pc # "idle"
      /\ s.task.media \in Medias /\ db[s.task.media] # NoRow
      /\ Current(s, db) /\ Present(s, store)
      /\ s.media.bucket \in Buckets /\ s.media.key \in Key
      /\ s.media.key.kind = "file"
      /\ s.media.bucket = db[s.task.media].bucket
      /\ s.media.key = db[s.task.media].key
      /\ s.i \in 1..Len(P!TargetWidths)
      /\ s.i > 1 => store[s.media.bucket][s.media.key] # NoObject
      /\ s.blob # Nil => s.blob = store[s.media.bucket][s.media.key].blob
  BY <1>1, <1>2, ResizeFacts
<1>4. PICK k0 \in Key : k0 = VariantKey(s.task.media, P!TargetWidths[s.i])
  BY <1>3, VariantKinds
<1>5. k0.kind = "variant" /\ k0.media = s.task.media /\ k0 # s.media.key
  BY <1>3, <1>4, VariantKinds
<1>6. /\ P!Original(w) = store[s.media.bucket][s.media.key]
      /\ P!Original(w) # NoObject =>
           P!Original(w) \in Object /\ P!Original(w).blob \in Blobs
  BY <1>1, <1>2, <1>4, HereFacts DEF IInv
<1>7. P!WidthKey(w) = k0
  BY <1>1, <1>2, <1>4, AtWidth DEF IInv
<1>8. CASE P!Fail(w) /\ UNCHANGED store /\ P!Original(w) = NoObject
  <2>1. s.i = 1
    BY <1>3, <1>6, <1>8, WidthsAreFinite
  <2>2. s.media = db[s.task.media]
    BY <1>3, <2>1 DEF Current
  <2>3. \A k \in Key : Made(s, k) => Lists(db[s.task.media], k)
    BY <1>3, <2>2, MadeFacts DEF Lists
  <2> QED
    BY <1>1, <1>2, <1>3, <1>8, <2>3, FailMoves
<1>9. CASE /\ P!Original(w) # NoObject
           /\ wk' = [wk EXCEPT ![w].pc = "save_variant",
                               ![w].blob = P!Original(w).blob]
           /\ UNCHANGED <<store, tasks>>
  <2>1. PICK b \in Blobs : b = P!Original(w).blob
    BY <1>6, <1>9
  <2> DEFINE s2 == [s EXCEPT !.pc = "save_variant", !.blob = b]
  <2>2. wk' = [wk EXCEPT ![w] = s2]
    BY <1>2, <1>3, <1>9, <2>1, WorkerStateIs DEF IInv, WorkersOK
  <2>3. s2 \in P!WorkerState
    BY <1>3, WorkerStateIs, PcFacts
  <2>4. /\ s2.pc = "save_variant" /\ s2.task = s.task /\ s2.media = s.media
        /\ s2.i = s.i /\ s2.blob = b
    BY <1>3, WorkerStateIs
  <2> HIDE DEF s2
  <2>5. Active(s2) /\ s2.pc \in P!ResizePC
    BY <2>4, ActivePcs
  <2>6. Current(s2, db)
    BY <1>3, <2>4, <2>5, ActivePcs DEF Current
  <2>7. Present(s2, store)
    BY <1>6, <1>9, <2>1, <2>4 DEF Present
  <2>8. Queues(s, s2)
    BY <1>9, <2>4, <2>5 DEF Queues
  <2>9. \A k \in Key : Made(s, k) => Made(s2, k)
    BY <1>3, <2>4, MadeFacts
  <2>10. Moved(s, s2)
    BY <1>1, <1>3, <1>9, <2>4, <2>5, <2>6, <2>7, <2>8, <2>9, QuietMove DEF Sure
  <2> QED
    BY <1>2, <2>2, <2>3, <2>10 DEF Moves
<1>10. CASE /\ P!Original(w) # NoObject
            /\ P!StoreSave(wk[w].media.bucket, P!WidthKey(w), P!Original(w))
            /\ P!Goto(w, "stat_variant")
            /\ UNCHANGED tasks
  <2>1. PICK o \in Object : o = P!Original(w)
    BY <1>6, <1>10
  <2>2. store' = [store EXCEPT ![s.media.bucket][k0] = o]
    BY <1>2, <1>7, <1>10, <2>1 DEF P!StoreSave
  <2>13. s \in P!WorkerState /\ "stat_variant" \in P!Busy /\ WorkersOK
         /\ P!Goto(w, "stat_variant")
    BY <1>3, <1>10, PcFacts DEF IInv
  <2>3. PICK s2 \in P!WorkerState :
          /\ wk' = [wk EXCEPT ![w] = s2]
          /\ s2.pc = "stat_variant" /\ s2.task = s.task /\ s2.media = s.media
          /\ s2.i = s.i /\ s2.blob = s.blob
    BY <1>2, <2>13, GotoFacts
  <2>4. \A k \in Key : store'[s.media.bucket][k] =
          IF k = k0 THEN o ELSE store[s.media.bucket][k]
    BY <1>3, <2>2 DEF IInv, FilesOK
  <2>5. o # NoObject
    BY NilFacts
  <2>6. Active(s2) /\ s2.pc \in P!ResizePC
    BY <2>3, ActivePcs
  <2>7. Current(s2, db)
    BY <1>3, <2>3, <2>6, ActivePcs DEF Current
  <2>8. Present(s2, store')
    BY <1>3, <1>4, <1>5, <1>6, <1>10, <2>3, <2>4, <2>5 DEF Present
  <2>9. WholeAt(s.task.media, s, db, store) => WholeAt(s.task.media, s2, db, store')
    BY <1>3, <1>5, <2>4 DEF WholeAt
  <2>10. \A k \in Key : Made(s, k) => Made(s2, k)
    BY <1>3, <2>3, MadeFacts
  <2>11. Made(s2, k0)
    BY <1>4, <2>3, MadeFacts
  <2>12. Moved(s, s2)
    BY <1>1, <1>3, <1>5, <1>10, <2>2, <2>3, <2>6, <2>7, <2>8, <2>9, <2>10, <2>11,
       StoreMove DEF Sure, IInv
  <2> QED
    BY <1>2, <2>3, <2>12 DEF Moves
<1>11. wk[w].blob \in {Nil, P!Original(w).blob}
  BY <1>2, <1>3, <1>6
<1> QED
  BY <1>8, <1>9, <1>10, <1>11 DEF P!MakeVariant

\* The image a task resizes is not too flat, so no height is cut to zero.
LEMMA TallEnough ==
  ASSUME IInv, CalmInv, NoneFlat, NEW w \in Workers, wk[w].pc = "save_variant"
  PROVE  P!VariantHeight(w) # 0
<1>1. PICK s : s = wk[w]
  OBVIOUS
<1>2. /\ s.pc \in P!ResizePC /\ s.task.media \in Medias
      /\ db[s.task.media] # NoRow /\ Current(s, db)
      /\ s.i \in 1..Len(P!TargetWidths)
  BY <1>1, ResizeFacts
<1>3. s.media.meta = db[s.task.media].meta
  BY <1>2 DEF Current
<1>4. ~P!TooFlat(s.media.meta)
  BY <1>2, <1>3 DEF CalmInv, Uploaded, NoneFlat
<1>5. ~(ImageHeight[s.media.meta] * P!TargetWidths[s.i] < ImageWidth[s.media.meta])
  BY <1>2, <1>4 DEF P!TooFlat
<1>6. /\ P!Target(w) = P!TargetWidths[s.i] /\ P!Target(w) \in Nat
      /\ P!FullWidth(w) = ImageWidth[s.media.meta]
      /\ P!FullHeight(w) = ImageHeight[s.media.meta]
      /\ P!FullWidth(w) \in Nat \ {0}
      /\ P!FullHeight(w) \in Nat \ {0}
  BY <1>1, AtWidth DEF IInv
<1> DEFINE a == P!FullHeight(w) * P!Target(w)
<1>7. a \in Nat /\ a >= P!FullWidth(w)
  BY <1>5, <1>6
<1> HIDE DEF a
<1>8. a \div P!FullWidth(w) > 0 /\ a \div P!FullWidth(w) \in Nat
  BY <1>6, <1>7, DivFacts
<1> QED
  BY <1>6, <1>8 DEF P!VariantHeight, a

LEMMA SaveVariantMoves ==
  ASSUME IInv, CalmInv, Faults = {}, NEW w \in Workers, P!SaveVariant(w)
  PROVE  Moves(w)
<1>1. wk[w].pc = "save_variant" /\ UNCHANGED db /\ wk[w].pc # "idle"
  BY DEF P!SaveVariant
<1>2. PICK s : s = wk[w]
  OBVIOUS
<1>3. /\ s.pc = "save_variant" /\ s \in P!WorkerState /\ TaskLocal(s) /\ Active(s)
      /\ s.pc \in P!ResizePC /\ s.pc # "idle"
      /\ s.task.media \in Medias /\ db[s.task.media] # NoRow
      /\ Current(s, db) /\ Present(s, store)
      /\ s.media.bucket \in Buckets /\ s.media.key \in Key
      /\ s.media.key.kind = "file"
      /\ s.media.bucket = db[s.task.media].bucket
      /\ s.media.key = db[s.task.media].key
      /\ s.i \in 1..Len(P!TargetWidths)
      /\ store[s.media.bucket][s.media.key] # NoObject
      /\ s.blob # Nil => s.blob = store[s.media.bucket][s.media.key].blob
  BY <1>1, <1>2, ResizeFacts
<1>4. PICK k0 \in Key : k0 = VariantKey(s.task.media, P!TargetWidths[s.i])
  BY <1>3, VariantKinds
<1>5. k0.kind = "variant" /\ k0.media = s.task.media /\ k0 # s.media.key
  BY <1>3, <1>4, VariantKinds
<1>6. P!WidthKey(w) = k0
  BY <1>1, <1>2, <1>4, AtWidth DEF IInv
<1>7. CASE P!Fail(w) /\ UNCHANGED store /\ P!VariantHeight(w) = 0
  <2>1. ~NoneFlat
    BY <1>1, <1>7, TallEnough
  <2> QED
    BY <1>1, <1>2, <1>3, <1>7, <2>1, FailMoves
<1>8. CASE /\ P!StoreSave(wk[w].media.bucket, P!WidthKey(w),
                [type |-> "image/webp", blob |-> Shrunk[wk[w].blob]])
           /\ P!Goto(w, "stat_variant")
           /\ UNCHANGED tasks
  <2>1. s.blob \in Blobs
    BY <1>3, WorkerStateIs DEF TaskLocal
  <2>2. PICK o \in Object : o = [type |-> "image/webp", blob |-> Shrunk[s.blob]]
    BY <2>1, WebpFacts, MimeFacts, TasksAssumption DEF P!PipelineAssumption, Object
  <2>3. store' = [store EXCEPT ![s.media.bucket][k0] = o]
    BY <1>2, <1>6, <1>8, <2>2 DEF P!StoreSave
  <2>4. s \in P!WorkerState /\ "stat_variant" \in P!Busy /\ WorkersOK
         /\ P!Goto(w, "stat_variant")
    BY <1>3, <1>8, PcFacts DEF IInv
  <2>5. PICK s2 \in P!WorkerState :
          /\ wk' = [wk EXCEPT ![w] = s2]
          /\ s2.pc = "stat_variant" /\ s2.task = s.task /\ s2.media = s.media
          /\ s2.i = s.i /\ s2.blob = s.blob
    BY <1>2, <2>4, GotoFacts
  <2>6. \A k \in Key : store'[s.media.bucket][k] =
          IF k = k0 THEN o ELSE store[s.media.bucket][k]
    BY <1>3, <2>3 DEF IInv, FilesOK
  <2>7. o # NoObject
    BY NilFacts
  <2>8. Active(s2) /\ s2.pc \in P!ResizePC
    BY <2>5, ActivePcs
  <2>9. Current(s2, db)
    BY <1>3, <2>5, <2>8, ActivePcs DEF Current
  <2>10. Present(s2, store')
    BY <1>3, <1>4, <1>5, <2>5, <2>6, <2>7 DEF Present
  <2>11. WholeAt(s.task.media, s, db, store) => WholeAt(s.task.media, s2, db, store')
    BY <1>3, <1>5, <2>6 DEF WholeAt
  <2>12. \A k \in Key : Made(s, k) => Made(s2, k)
    BY <1>3, <2>5, MadeFacts
  <2>13. Made(s2, k0)
    BY <1>4, <2>5, MadeFacts
  <2>14. Moved(s, s2)
    BY <1>1, <1>3, <1>5, <1>8, <2>3, <2>5, <2>8, <2>9, <2>10, <2>11, <2>12, <2>13,
       StoreMove DEF Sure, IInv
  <2> QED
    BY <1>2, <2>5, <2>14 DEF Moves
<1> QED
  BY <1>7, <1>8 DEF P!SaveVariant

LEMMA StatVariantMoves ==
  ASSUME IInv, CalmInv, Faults = {}, NEW w \in Workers, P!StatVariant(w)
  PROVE  Moves(w)
<1>1. wk[w].pc = "stat_variant" /\ UNCHANGED <<db, store>> /\ wk[w].pc # "idle"
  BY DEF P!StatVariant
<1>2. PICK s : s = wk[w]
  OBVIOUS
<1>3. /\ s.pc = "stat_variant" /\ s \in P!WorkerState /\ TaskLocal(s) /\ Active(s)
      /\ s.pc \in P!ResizePC /\ s.pc # "idle"
      /\ s.task.media \in Medias /\ db[s.task.media] # NoRow
      /\ Current(s, db) /\ Present(s, store)
      /\ RowOf(s.task.media, s.media)
      /\ s.i \in 1..Len(P!TargetWidths)
      /\ store[s.media.bucket][s.media.key] # NoObject
      /\ s.blob # Nil => s.blob = store[s.media.bucket][s.media.key].blob
  BY <1>1, <1>2, ResizeFacts
<1>4. PICK k0 \in Key : k0 = VariantKey(s.task.media, P!TargetWidths[s.i])
  BY <1>3, VariantKinds
<1>5. P!WidthKey(w) = k0
  BY <1>1, <1>2, <1>4, AtWidth DEF IInv
<1>6. P!Here(w, k0) = store[s.media.bucket][k0] /\ P!Here(w, k0) # NoObject
  BY <1>2, <1>3, <1>4 DEF P!Here, Present
<1> DEFINE v == [key    |-> k0,
                 size   |-> Size[P!Here(w, k0).blob],
                 width  |-> P!VariantWidth(w),
                 height |-> P!VariantHeight(w)]
           pc == IF s.i = Len(P!TargetWidths) THEN "update_variants" ELSE "variant"
<1>7. v \in Variant /\ v.key = k0
  <2>1. Size[P!Here(w, k0).blob] \in Nat
    BY <1>1, <1>6, HereFacts, BlobsAssumption DEF IInv
  <2>2. P!VariantWidth(w) \in Nat /\ P!VariantHeight(w) \in Nat
    BY <1>1, VariantSizes DEF IInv
  <2> QED
    BY <2>1, <2>2 DEF Variant
<1>8. s.media \in Row /\ s.media.variants \in Seq(Variant)
  BY <1>3, RowOfFacts
<1>9. /\ wk' = [wk EXCEPT ![w].pc = pc, ![w].i = @ + 1,
                          ![w].media.variants = Append(@, v)]
      /\ UNCHANGED tasks
  BY <1>2, <1>5, <1>6 DEF P!StatVariant
<1> HIDE DEF v
<1> DEFINE row == [s.media EXCEPT !.variants = Append(@, v)]
           s2 == [s EXCEPT !.pc = pc, !.i = @ + 1, !.media = row]
<1>24. Append(s.media.variants, v) \in Seq(Variant)
  BY <1>7, <1>8
<1>10. row \in Row
  BY <1>8, <1>24 DEF Row
<1>11. /\ row.mime = s.media.mime /\ row.meta = s.media.meta
       /\ row.key = s.media.key /\ row.bucket = s.media.bucket
       /\ row.variants = Append(s.media.variants, v)
  BY <1>8 DEF Row
<1>12. wk' = [wk EXCEPT ![w] = s2]
  BY <1>2, <1>3, <1>8, <1>9, WorkerStateIs DEF IInv, WorkersOK
<1> HIDE DEF row
<1>13. pc \in {"update_variants", "variant"} /\ pc \in P!Busy /\ s.i + 1 \in Nat
       /\ s.i + 1 > 1
  BY <1>3, WidthsAreFinite, PcFacts
<1> HIDE DEF pc
<1>14. s2 \in P!WorkerState
  BY <1>3, <1>10, <1>13, WorkerStateIs
<1>15. /\ s2.pc = pc /\ s2.task = s.task /\ s2.media = row /\ s2.i = s.i + 1
       /\ s2.blob = s.blob
  BY <1>3, WorkerStateIs
<1> HIDE DEF s2
<1>16. ASSUME NEW k
       PROVE  (\E i \in 1..Len(row.variants) : k = row.variants[i].key) <=>
              (k = k0 \/ \E i \in 1..Len(s.media.variants) :
                           k = s.media.variants[i].key)
  <2>1. Len(row.variants) = Len(s.media.variants) + 1
        /\ Len(s.media.variants) \in Nat
    BY <1>7, <1>8, <1>11
  <2>2. row.variants[Len(s.media.variants) + 1] = v
    BY <1>7, <1>8, <1>11
  <2>3. \A i \in 1..Len(s.media.variants) : row.variants[i] = s.media.variants[i]
    BY <1>7, <1>8, <1>11
  <2>4. \A i \in 1..Len(row.variants) :
          i \in 1..Len(s.media.variants) \/ i = Len(s.media.variants) + 1
    BY <2>1
  <2>5. ASSUME NEW i \in 1..Len(row.variants), k = row.variants[i].key
        PROVE  k = k0 \/ \E j \in 1..Len(s.media.variants) :
                           k = s.media.variants[j].key
    BY <1>7, <2>2, <2>3, <2>4, <2>5
  <2>6. ASSUME k = k0
        PROVE  \E i \in 1..Len(row.variants) : k = row.variants[i].key
    <3>1. Len(s.media.variants) + 1 \in 1..Len(row.variants)
      BY <2>1
    <3> QED
      BY <1>7, <2>2, <2>6, <3>1
  <2>7. ASSUME NEW i \in 1..Len(s.media.variants), k = s.media.variants[i].key
        PROVE  \E j \in 1..Len(row.variants) : k = row.variants[j].key
    <3>1. i \in 1..Len(row.variants)
      BY <2>1, <2>7
    <3>2. k = row.variants[i].key
      BY <2>3, <2>7
    <3> QED
      BY <3>1, <3>2
  <2> QED
    BY <2>5, <2>6, <2>7
<1>17. Active(s2) /\ s2.pc \in P!ResizePC
  BY <1>13, <1>15, ActivePcs
<1>18. ASSUME NEW k, Lists(s.media, k)
       PROVE  Lists(s2.media, k)
  BY <1>11, <1>15, <1>16, <1>18 DEF Lists
<1>19. Current(s2, db)
  <2>1. /\ s2.media.bucket = db[s.task.media].bucket
        /\ s2.media.key = db[s.task.media].key
        /\ s2.media.mime = db[s.task.media].mime
        /\ s2.media.meta = db[s.task.media].meta
    BY <1>3, <1>11, <1>15 DEF Current
  <2>2. \A i \in 1..Len(db[s.task.media].variants) :
          Lists(s2.media, db[s.task.media].variants[i].key)
    BY <1>3, <1>18 DEF Current
  <2>3. s2.pc \notin P!OptimisePC /\ s2.i # 1
    BY <1>3, <1>13, <1>15 DEF P!OptimisePC
  <2> QED
    BY <1>3, <1>15, <2>1, <2>2, <2>3 DEF Current
<1>20. Present(s2, store)
  <2>1. s2.i # 1 /\ s2.pc \in {"update_variants", "variant"}
    BY <1>3, <1>13, <1>15
  <2> QED
    BY <1>3, <1>11, <1>15, <2>1 DEF Present
<1>21. Queues(s, s2)
  BY <1>9, <1>15, <1>17 DEF Queues
<1>22. ASSUME NEW k \in Key, Made(s, k)
       PROVE  Made(s2, k)
  <2>1. k = k0 \/ \E i \in 1..Len(s.media.variants) : k = s.media.variants[i].key
    BY <1>3, <1>4, <1>22, MadeFacts
  <2>2. \E i \in 1..Len(s2.media.variants) : k = s2.media.variants[i].key
    BY <1>15, <1>16, <2>1
  <2> QED
    BY <1>17, <2>2 DEF Made
<1>23. Moved(s, s2)
  BY <1>1, <1>3, <1>15, <1>17, <1>19, <1>20, <1>21, <1>22, QuietMove DEF Sure
<1> QED
  BY <1>2, <1>12, <1>14, <1>23 DEF Moves

LEMMA TaskMoves ==
  ASSUME IInv, CalmInv, Faults = {}, NEW w \in Workers,
         P!OptimiseStep(w) \/ P!ResizeStep(w)
  PROVE  Moves(w) /\ Active(wk[w])
<1>1. CASE P!OptimiseStep(w)
  <2>1. Moves(w)
    BY <1>1, OpenMoves, SaveTempMoves, CopyTempMoves, RemoveTempMoves, RemoveOldMoves,
       StatNewMoves, UpdateMoves, EnqueueMoves DEF P!OptimiseStep
  <2>2. wk[w].pc \in {"open", "save_temp", "copy_temp", "remove_temp", "remove_old",
                      "stat", "update", "enqueue"}
    BY <1>1
    DEF P!OptimiseStep, P!OpenOriginal, P!SaveTemp, P!CopyTemp, P!RemoveTemp,
        P!RemoveOld, P!StatNew, P!UpdateOptimised, P!EnqueueResizeImage
  <2> QED
    BY <2>1, <2>2, ActivePcs
<1>2. CASE P!ResizeStep(w)
  <2>1. Moves(w)
    BY <1>2, MakeVariantMoves, SaveVariantMoves, StatVariantMoves,
       UpdateVariantsMoves DEF P!ResizeStep
  <2>2. wk[w].pc \in {"variant", "save_variant", "stat_variant", "update_variants"}
    BY <1>2
    DEF P!ResizeStep, P!MakeVariant, P!SaveVariant, P!StatVariant, P!UpdateVariants
  <2> QED
    BY <2>1, <2>2, ActivePcs
<1> QED
  BY <1>1, <1>2

-----------------------------------------------------------------------------
(* The steps of the workers *)

\* The other workers are where they were.
LEMMA OneMoves ==
  ASSUME WorkersOK, NEW w \in Workers, NEW s2, wk' = [wk EXCEPT ![w] = s2]
  PROVE  wk'[w] = s2 /\ \A v \in Workers : v # w => wk'[v] = wk[v]
  BY DEF WorkersOK

LEMMA SerialStep ==
  ASSUME WorkersOK, tasks \in [Task -> Nat], Serial, NEW w \in Workers,
         NEW s, s = wk[w], Active(s), NEW s2, wk' = [wk EXCEPT ![w] = s2],
         s2.pc # "idle" => s2.task = s.task, Queues(s, s2)
  PROVE  Serial'
<1>1. wk'[w] = s2 /\ \A v \in Workers : v # w => wk'[v] = wk[v]
  BY OneMoves
<1>2. Active(s2) => s2.task = s.task
  BY ActivePcs
<1>3. \A v \in Workers : Active(wk'[v]) =>
        Active(wk[v]) /\ wk'[v].task = wk[v].task
  BY <1>1, <1>2
<1>4. \A v \in Workers : Active(wk[v]) /\ wk[v].task.media = s.task.media => v = w
  BY DEF Serial
<1>5. \A t \in Task : t.media = s.task.media => tasks[t] = 0
  BY DEF Serial
<1>6. \A u, v \in Workers :
        Active(wk'[u]) /\ Active(wk'[v]) /\ wk'[u].task.media = wk'[v].task.media
          => u = v
  BY <1>3 DEF Serial
<1>7. CASE UNCHANGED tasks
  <2>1. \A v \in Workers, t \in Task :
          Active(wk'[v]) /\ t.media = wk'[v].task.media => tasks'[t] = 0
    BY <1>3, <1>7 DEF Serial
  <2> QED
    BY <1>6, <1>7, <2>1 DEF Serial
<1>8. ASSUME ~Active(s2), NEW u \in Task, u.media = s.task.media,
             tasks' = [tasks EXCEPT ![u] = @ + 1]
      PROVE  Serial'
  <2>1. \A t \in Task : tasks'[t] = IF t = u THEN 1 ELSE tasks[t]
    BY <1>5, <1>8
  <2>2. \A v \in Workers : Active(wk'[v]) => v # w
    BY <1>1, <1>8
  <2>3. \A v \in Workers, t \in Task :
          Active(wk'[v]) /\ t.media = wk'[v].task.media => tasks'[t] = 0
    <3> SUFFICES ASSUME NEW v \in Workers, NEW t \in Task, Active(wk'[v]),
                        t.media = wk'[v].task.media
                 PROVE  tasks'[t] = 0
      OBVIOUS
    <3>1. Active(wk[v]) /\ t.media = wk[v].task.media /\ v # w
      BY <1>3, <2>2
    <3>2. t # u
      BY <1>4, <1>8, <3>1
    <3>3. tasks[t] = 0
      BY <3>1 DEF Serial
    <3> QED
      BY <2>1, <3>2, <3>3
  <2>4. \A t \in Task : tasks'[t] <= 1
    BY <2>1 DEF Serial
  <2>5. \A t, v \in Task :
          tasks'[t] > 0 /\ tasks'[v] > 0 /\ t.media = v.media => t = v
    <3> SUFFICES ASSUME NEW t \in Task, NEW v \in Task, tasks'[t] > 0,
                        tasks'[v] > 0, t.media = v.media, t # v
                 PROVE  FALSE
      OBVIOUS
    <3>1. t # u /\ v # u
      BY <1>5, <1>8, <2>1
    <3> QED
      BY <2>1, <3>1 DEF Serial
  <2> QED
    BY <1>6, <2>3, <2>4, <2>5 DEF Serial
<1> QED
  BY <1>7, <1>8 DEF Queues

LEMMA MoveCalm ==
  ASSUME IInv, CalmInv, NEW w \in Workers, NEW s, s = wk[w], Active(s),
         NEW s2, wk' = [wk EXCEPT ![w] = s2], Moved(s, s2), UNCHANGED del,
         \A n \in Medias : Deleting(n) => ~Working(n)'
  PROVE  CalmInv'
<1>1. PICK m \in Medias : m = s.task.media
  BY TaskFacts
<1>2. /\ s.pc # "idle" /\ db[m] # NoRow
      /\ WorkersOK /\ tasks \in [Task -> Nat]
      /\ \A v \in Workers : TaskLocal(wk[v])
  BY <1>1, TaskFacts DEF IInv, WorkersOK, QueueOK
<1>3. wk'[w] = s2 /\ \A v \in Workers : v # w => wk'[v] = wk[v]
  BY <1>2, OneMoves
<1>4. /\ s2.pc # "idle" => s2.task = s.task
      /\ Queues(s, s2) /\ Elsewhere(m)
      /\ db'[m] # NoRow /\ db'[m].meta = db[m].meta
      /\ Sure(s2, db', store')
  BY <1>1 DEF Moved
<1>5. Serial'
  BY <1>2, <1>4, SerialStep DEF CalmInv
<1>6. Apart'
  <2> SUFFICES ASSUME NEW n \in Medias, Deleting(n)' \/ db'[n] = NoRow,
                      NEW v \in Workers, wk'[v].pc # "idle",
                      wk'[v].task.media = n
               PROVE  FALSE
    BY DEF Apart, Working
  <2>1. ~Deleting(n)
    BY DEF Working
  <2>2. ~Deleting(n)'
    BY <2>1 DEF Deleting
  <2>3. n # m /\ db[n] = NoRow
    BY <1>4, <2>2 DEF Elsewhere
  <2>4. wk[v].pc # "idle" /\ wk[v].task.media = n
    BY <1>1, <1>3, <1>4, <2>3
  <2> QED
    BY <2>3, <2>4 DEF CalmInv, Apart, Working
<1>7. \A v \in Workers : Sure(wk'[v], db', store')
  <2> SUFFICES ASSUME NEW v \in Workers, v # w
               PROVE  Sure(wk[v], db', store')
    BY <1>3, <1>4
  <2>1. Sure(wk[v], db, store) /\ TaskLocal(wk[v])
    BY <1>2 DEF CalmInv
  <2>2. Active(wk[v]) => wk[v].task.media # m
    BY <1>1 DEF CalmInv, Serial
  <2> QED
    BY <1>4, <2>1, <2>2, SureStays
<1>8. Uploaded'
  BY <1>2, <1>4 DEF Uploaded, CalmInv, Elsewhere
<1> QED
  BY <1>5, <1>6, <1>7, <1>8 DEF CalmInv

\* A file that is in no list was made by the worker that is on its media.
LEMMA AccountedIsOwn ==
  ASSUME Serial, Accounted, NEW w \in Workers, NEW s, s = wk[w], Active(s),
         NEW m, m = s.task.media
  PROVE  OwnFiles(m, s, db, store)
<1> SUFFICES ASSUME NEW b \in Buckets, NEW k \in Key, k.media = m,
                    store[b][k] # NoObject
             PROVE  /\ db[m] # NoRow /\ b = db[m].bucket
                    /\ Lists(db[m], k) \/ (Active(s) /\ Made(s, k))
  BY DEF OwnFiles
<1>1. /\ db[m] # NoRow /\ b = db[m].bucket
      /\ \/ Lists(db[m], k)
         \/ \E v \in Workers : /\ Active(wk[v]) /\ wk[v].task.media = m
                               /\ Made(wk[v], k)
  BY DEF Accounted
<1> QED
  BY <1>1 DEF Serial

LEMMA OwnIsAccounted ==
  ASSUME Accounted, WorkersOK, NEW w \in Workers, NEW m,
         NEW s2, wk' = [wk EXCEPT ![w] = s2],
         Active(wk[w]) => wk[w].task.media = m,
         Active(s2) => s2.task.media = m,
         Elsewhere(m), OwnFiles(m, s2, db', store')
  PROVE  Accounted'
<1>1. wk'[w] = s2 /\ \A v \in Workers : v # w => wk'[v] = wk[v]
  BY OneMoves
<1> SUFFICES ASSUME NEW b \in Buckets, NEW k \in Key, store'[b][k] # NoObject
             PROVE  /\ db'[k.media] # NoRow
                    /\ b = db'[k.media].bucket
                    /\ \/ Lists(db'[k.media], k)
                       \/ \E v \in Workers : /\ Active(wk'[v])
                                             /\ wk'[v].task.media = k.media
                                             /\ Made(wk'[v], k)
  BY DEF Accounted
<1>2. k.media \in Medias
  BY DEF Key
<1>3. CASE k.media = m
  BY <1>1, <1>3 DEF OwnFiles
<1>4. CASE k.media # m
  <2>1. db'[k.media] = db[k.media] /\ store[b][k] # NoObject
    BY <1>2, <1>4 DEF Elsewhere
  <2>2. /\ db[k.media] # NoRow
        /\ b = db[k.media].bucket
        /\ \/ Lists(db[k.media], k)
           \/ \E v \in Workers : /\ Active(wk[v])
                                 /\ wk[v].task.media = k.media
                                 /\ Made(wk[v], k)
    BY <2>1 DEF Accounted
  <2>3. \A v \in Workers : Active(wk[v]) /\ wk[v].task.media = k.media => wk'[v] = wk[v]
    BY <1>1, <1>4
  <2> QED
    BY <2>1, <2>2, <2>3
<1> QED
  BY <1>3, <1>4

\* What a deletion needs is not touched by steps on other medias.
LEMMA ClearingStays ==
  ASSUME NEW d \in Deleters, DeletersOK, Clearing(del[d], db, store), NEW m,
         del[d].pc # "idle" => del[d].id # m, Elsewhere(m)
  PROVE  Clearing(del[d], db', store')
<1>1. PICK x : x = del[d]
  OBVIOUS
<1> SUFFICES ASSUME x.pc # "idle"
             PROVE  Clearing(x, db', store')
  BY <1>1 DEF Clearing
<1>2. x.id \in Medias /\ RowOf(x.id, x.media) /\ x.id # m
  BY <1>1, DeleterFacts
<1>3. db'[x.id] = db[x.id]
  BY <1>2 DEF Elsewhere
<1>4. \A b \in Buckets, k \in Key : k.media = x.id => store'[b][k] = store[b][k]
  BY <1>2 DEF Elsewhere
<1>5. \A j \in 1..Len(x.media.variants) :
        store'[x.media.bucket][x.media.variants[j].key]
          = store[x.media.bucket][x.media.variants[j].key]
  BY <1>2, <1>4, RowOfFacts
<1>6. Clearing(x, db, store)
  BY <1>1
<1>7. x.pc = "row" => \A b \in Buckets, k \in Key :
        k.media = x.id => store'[b][k] = NoObject
  BY <1>4, <1>6 DEF Clearing
<1>8. x.pc = "variants" /\ db'[x.id] # NoRow =>
        /\ x.media = db'[x.id]
        /\ \A j \in 1..Len(x.media.variants) :
             j < x.i => store'[x.media.bucket][x.media.variants[j].key] = NoObject
  BY <1>3, <1>5, <1>6 DEF Clearing
<1> QED
  BY <1>7, <1>8 DEF Clearing

LEMMA MoveTidy ==
  ASSUME IInv, CalmInv, TidyInv, NoneFlat, NEW w \in Workers,
         NEW s, s = wk[w], Active(s),
         NEW s2, wk' = [wk EXCEPT ![w] = s2], Moved(s, s2), UNCHANGED del
  PROVE  TidyInv'
<1>1. PICK m \in Medias : m = s.task.media
  BY TaskFacts
<1>2. OwnFiles(m, s, db, store)
  BY <1>1, AccountedIsOwn DEF CalmInv, TidyInv
<1>3. /\ s2.pc # "idle" => s2.task = s.task
      /\ Elsewhere(m)
      /\ OwnFiles(m, s2, db', store')
  BY <1>1, <1>2 DEF Moved
<1>4. Active(s2) => s2.task.media = m
  BY <1>1, <1>3, ActivePcs
<1>5. Accounted'
  BY <1>1, <1>3, <1>4, OwnIsAccounted DEF TidyInv, IInv
<1>6. s.pc # "idle" /\ ~Deleting(m)
  BY <1>1, ActivePcs DEF CalmInv, Apart, Working
<1>7. ASSUME NEW d \in Deleters
      PROVE  Clearing(del[d], db', store')
  <2>1. del[d].pc # "idle" => del[d].id # m
    BY <1>6 DEF Deleting
  <2> QED
    BY <1>3, <2>1, ClearingStays DEF TidyInv, IInv
<1> QED
  BY <1>5, <1>7 DEF TidyInv

LEMMA MoveExplained ==
  ASSUME IInv, CalmInv, Explained, NEW w \in Workers,
         NEW s, s = wk[w], Active(s),
         NEW s2, wk' = [wk EXCEPT ![w] = s2], Moved(s, s2), UNCHANGED <<del, failed>>
  PROVE  Explained'
<1>1. PICK m \in Medias : m = s.task.media
  BY TaskFacts
<1>2. /\ s2.pc # "idle" => s2.task = s.task
      /\ Elsewhere(m)
      /\ WholeAt(m, s, db, store) => WholeAt(m, s2, db', store')
  BY <1>1 DEF Moved
<1>3. wk'[w] = s2 /\ \A v \in Workers : v # w => wk'[v] = wk[v]
  BY OneMoves DEF IInv
<1>4. \A n \in Medias : Deleting(n)' <=> Deleting(n)
  BY DEF Deleting
<1> SUFFICES ASSUME NEW n \in Medias, db'[n] # NoRow, ~Deleting(n), n \notin failed
             PROVE  \/ store'[db'[n].bucket][db'[n].key] # NoObject
                    \/ \E v \in Workers : /\ wk'[v].pc \in {"stat", "update"}
                                          /\ wk'[v].task.media = n
  BY <1>4 DEF Explained
<1>5. CASE n # m
  <2>1. db'[n] = db[n] /\ db[n] # NoRow
    BY <1>2, <1>5 DEF Elsewhere
  <2>2. \/ store[db[n].bucket][db[n].key] # NoObject
        \/ \E v \in Workers : wk[v].pc \in {"stat", "update"} /\ wk[v].task.media = n
    BY <2>1 DEF Explained
  <2>3. db[n].bucket \in Buckets /\ db[n].key \in Key /\ db[n].key.media = n
    BY <2>1, RowOfFacts DEF IInv, RowsOK
  <2>4. store'[db[n].bucket][db[n].key] = store[db[n].bucket][db[n].key]
    BY <1>2, <1>5, <2>3 DEF Elsewhere
  <2> QED
    BY <1>1, <1>3, <1>5, <2>1, <2>2, <2>4
<1>6. CASE n = m
  <2>1. db[m] # NoRow
    BY <1>1, TaskFacts
  <2>2. ASSUME NEW v \in Workers, wk[v].pc \in {"stat", "update"},
               wk[v].task.media = m
        PROVE  v = w
    <3>1. Active(wk[v])
      BY <2>2, ActivePcs
    <3> QED
      BY <1>1, <2>2, <3>1 DEF CalmInv, Serial
  <2>3. WholeAt(m, s, db, store)
    BY <1>6, <2>1, <2>2 DEF Explained, WholeAt
  <2>4. WholeAt(m, s2, db', store')
    BY <1>2, <2>3
  <2>5. s2.pc \in {"stat", "update"} => s2.task.media = m
    BY <1>1, <1>2
  <2> QED
    BY <1>3, <1>6, <2>4, <2>5 DEF WholeAt
<1> QED
  BY <1>5, <1>6

\* A worker that only takes a task back, or only drops cached details.
LEMMA RestStep ==
  ASSUME IInv, CalmInv, NEW w \in Workers, NEW s, s = wk[w], ~Active(s),
         NEW s2, wk' = [wk EXCEPT ![w] = s2], ~Active(s2),
         s2.pc # "idle" => s.pc # "idle" /\ s2.task = s.task,
         UNCHANGED <<db, store, del, failed>>,
         tasks' \in [Task -> Nat], \A t \in Task : tasks'[t] <= tasks[t]
  PROVE  /\ CalmInv'
         /\ TidyInv => TidyInv'
         /\ Explained => Explained'
<1>1. wk'[w] = s2 /\ \A v \in Workers : v # w => wk'[v] = wk[v]
  BY OneMoves DEF IInv
<1>2. tasks \in [Task -> Nat]
  BY DEF IInv, QueueOK
<1>3. \A v \in Workers : Active(wk'[v]) => wk'[v] = wk[v]
  BY <1>1
<1>4. \A v \in Workers : Active(wk[v]) => wk'[v] = wk[v]
  BY <1>1
<1>5. \A t \in Task : tasks[t] = 0 => tasks'[t] = 0
  BY <1>2
<1>6. \A t \in Task : tasks'[t] > 0 => tasks[t] > 0
  BY <1>2
<1>7. Serial'
  <2>1. \A u, v \in Workers :
          Active(wk'[u]) /\ Active(wk'[v]) /\ wk'[u].task.media = wk'[v].task.media
            => u = v
    BY <1>3 DEF CalmInv, Serial
  <2>2. \A v \in Workers, t \in Task :
          Active(wk'[v]) /\ t.media = wk'[v].task.media => tasks'[t] = 0
    BY <1>3, <1>5 DEF CalmInv, Serial
  <2>3. \A t \in Task : tasks'[t] <= 1
    BY <1>2 DEF CalmInv, Serial
  <2>4. \A t, u \in Task :
          tasks'[t] > 0 /\ tasks'[u] > 0 /\ t.media = u.media => t = u
    BY <1>6 DEF CalmInv, Serial
  <2> QED
    BY <2>1, <2>2, <2>3, <2>4 DEF Serial
<1>8. Apart'
  <2> SUFFICES ASSUME NEW n \in Medias, Deleting(n)' \/ db'[n] = NoRow,
                      NEW v \in Workers, wk'[v].pc # "idle",
                      wk'[v].task.media = n
               PROVE  FALSE
    BY DEF Apart, Working
  <2>1. Deleting(n) \/ db[n] = NoRow
    BY DEF Deleting
  <2>2. wk[v].pc # "idle" /\ wk[v].task.media = n
    BY <1>1
  <2> QED
    BY <2>1, <2>2 DEF CalmInv, Apart, Working
<1>9. \A v \in Workers : Sure(wk'[v], db', store')
  BY <1>1 DEF CalmInv, Sure
<1>10. Uploaded'
  BY DEF CalmInv, Uploaded
<1>11. ASSUME TidyInv
       PROVE  TidyInv'
  <2>1. Accounted'
    BY <1>4, <1>11 DEF TidyInv, Accounted
  <2>2. \A d \in Deleters : Clearing(del'[d], db', store')
    BY <1>11 DEF TidyInv
  <2> QED
    BY <2>1, <2>2 DEF TidyInv
<1>12. ASSUME Explained
       PROVE  Explained'
  <2>1. \A v \in Workers : wk[v].pc \in {"stat", "update"} => wk'[v] = wk[v]
    BY <1>4, ActivePcs
  <2>2. \A n \in Medias : Deleting(n)' <=> Deleting(n)
    BY DEF Deleting
  <2> QED
    BY <1>12, <2>1, <2>2 DEF Explained
<1> QED
  BY <1>7, <1>8, <1>9, <1>10, <1>11, <1>12 DEF CalmInv

LEMMA UncacheRests ==
  ASSUME IInv, IInv', CalmInv, NEW w \in Workers, P!Uncache(w) \/ P!UncacheEtag(w),
         UNCHANGED <<del, failed>>
  PROVE  /\ CalmInv'
         /\ TidyInv => TidyInv'
         /\ Explained => Explained'
<1>1. PICK s : s = wk[w]
  OBVIOUS
<1>2. s.pc \in {"uncache", "uncache_etag"} /\ UNCHANGED <<db, store, tasks>>
  BY <1>1 DEF P!Uncache, P!UncacheEtag
<1>3. ~Active(s) /\ s.pc # "idle" /\ s \in P!WorkerState /\ WorkersOK
  BY <1>1, <1>2, ActivePcs DEF IInv, WorkersOK
<1>4. PICK s2 : /\ wk' = [wk EXCEPT ![w] = s2]
                /\ s2.pc \in {"idle", "uncache_etag"}
                /\ s2.pc # "idle" => s2.task = s.task
  <2>1. CASE P!Uncache(w)
    <3>1. P!Goto(w, "uncache_etag") /\ "uncache_etag" \in P!Busy
      BY <2>1, PcFacts DEF P!Uncache
    <3> QED
      BY <1>1, <1>3, <3>1, GotoFacts
  <2>2. CASE P!UncacheEtag(w)
    <3>1. wk' = [wk EXCEPT ![w] = P!IdleWorker] /\ P!IdleWorker.pc = "idle"
      BY <2>2 DEF P!UncacheEtag, P!IdleWorker
    <3> QED
      BY <3>1
  <2> QED
    BY <2>1, <2>2
<1>5. ~Active(s2)
  BY <1>4, ActivePcs
<1>6. tasks' \in [Task -> Nat] /\ \A t \in Task : tasks'[t] <= tasks[t]
  BY <1>2 DEF IInv, QueueOK
<1> QED
  BY <1>1, <1>2, <1>3, <1>4, <1>5, <1>6, RestStep

\* A worker that takes a task holds its row, and is the only one on its media.
LEMMA StartMoves ==
  ASSUME IInv, IInv', CalmInv, Faults = {}, NEW w \in Workers, NEW t \in Task,
         P!Start(w, t), UNCHANGED <<del, failed>>,
         \A n \in Medias : Deleting(n) => ~Working(n)'
  PROVE  /\ CalmInv'
         /\ TidyInv => TidyInv'
         /\ Explained => Explained'
<1>1. PICK s : s = wk[w]
  OBVIOUS
<1>2. /\ s.pc = "idle" /\ ~Active(s) /\ s \in P!WorkerState
      /\ tasks[t] > 0 /\ UNCHANGED <<db, store>>
      /\ WorkersOK /\ tasks \in [Task -> Nat] /\ tasks' \in [Task -> Nat]
      /\ t.media \in Medias
  BY <1>1, ActivePcs DEF P!Start, IInv, WorkersOK, QueueOK, Task
<1>3. CASE ~P!Startable(t)
  <2>1. wk' = wk /\ \A u \in Task : tasks'[u] <= tasks[u]
    BY <1>2, <1>3 DEF P!Start
  <2>2. wk' = [wk EXCEPT ![w] = s]
    BY <1>1, <1>2, <2>1 DEF WorkersOK
  <2> QED
    BY <1>1, <1>2, <2>1, <2>2, RestStep
<1>4. CASE P!Startable(t)
  <2> DEFINE m == t.media
             s2 == [P!IdleWorker EXCEPT !.pc = P!FirstPC(t), !.task = t,
                                        !.media = db[t.media], !.i = 1]
  <2>1. wk' = [wk EXCEPT ![w] = s2] /\ tasks' = [tasks EXCEPT ![t] = @ - 1]
    BY <1>4 DEF P!Start
  <2>2. db[m] # NoRow
    BY <1>4 DEF P!Startable
  <2>3. RowOf(m, db[m])
    BY <1>2, <2>2 DEF IInv, RowsOK
  <2>4. /\ s2.task = t /\ s2.media = db[m] /\ s2.i = 1 /\ s2.blob = Nil
        /\ s2.pc = P!FirstPC(t)
    BY DEF P!IdleWorker
  <2> HIDE DEF s2
  <2>5. s2.pc \in {"open", "variant", "update_variants"} /\ Active(s2) /\ s2.pc # "idle"
    BY <2>4, ActivePcs DEF P!FirstPC
  <2>6. wk'[w] = s2 /\ \A v \in Workers : v # w => wk'[v] = wk[v]
    BY <1>2, <2>1, OneMoves
  <2>7. \A v \in Workers : Active(wk[v]) => v # w /\ wk[v].task.media # m
    BY <1>1, <1>2 DEF CalmInv, Serial
  <2>8. \A u \in Task : tasks'[u] <= tasks[u]
    BY <1>2, <2>1
  <2>9. \A u \in Task : u.media = m => tasks'[u] = 0
    <3> SUFFICES ASSUME NEW u \in Task, u.media = m
                 PROVE  tasks'[u] = 0
      OBVIOUS
    <3>1. CASE u = t
      BY <1>2, <2>1, <3>1 DEF CalmInv, Serial
    <3>2. CASE u # t
      <4>1. ~(tasks[u] > 0)
        BY <1>2, <3>2 DEF CalmInv, Serial
      <4> QED
        BY <1>2, <2>1, <3>2, <4>1
    <3> QED
      BY <3>1, <3>2
  <2>10. Serial'
    <3>1. \A u, v \in Workers :
            Active(wk'[u]) /\ Active(wk'[v]) /\ wk'[u].task.media = wk'[v].task.media
              => u = v
      BY <2>4, <2>6, <2>7 DEF CalmInv, Serial
    <3>2. \A v \in Workers, u \in Task :
            Active(wk'[v]) /\ u.media = wk'[v].task.media => tasks'[u] = 0
      <4> SUFFICES ASSUME NEW v \in Workers, NEW u \in Task, Active(wk'[v]),
                          u.media = wk'[v].task.media
                   PROVE  tasks'[u] = 0
        OBVIOUS
      <4>1. CASE v = w
        BY <2>4, <2>6, <2>9, <4>1
      <4>2. CASE v # w
        <5>1. tasks[u] = 0
          BY <2>6, <4>2 DEF CalmInv, Serial
        <5> QED
          BY <1>2, <2>8, <5>1
      <4> QED
        BY <4>1, <4>2
    <3>3. \A u \in Task : tasks'[u] <= 1
      BY <1>2, <2>8 DEF CalmInv, Serial
    <3>4. \A u, v \in Task :
            tasks'[u] > 0 /\ tasks'[v] > 0 /\ u.media = v.media => u = v
      BY <1>2, <2>8 DEF CalmInv, Serial
    <3> QED
      BY <3>1, <3>2, <3>3, <3>4 DEF Serial
  <2>11. Apart'
    <3> SUFFICES ASSUME NEW n \in Medias, Deleting(n)' \/ db'[n] = NoRow,
                        NEW v \in Workers, wk'[v].pc # "idle",
                        wk'[v].task.media = n
                 PROVE  FALSE
      BY DEF Apart, Working
    <3>1. ~Deleting(n)
      BY DEF Working
    <3>2. ~Deleting(n)'
      BY <3>1 DEF Deleting
    <3>3. db[n] = NoRow
      BY <1>2, <3>2
    <3>4. v # w
      BY <2>2, <2>4, <2>6, <3>3
    <3>5. wk[v].pc # "idle" /\ wk[v].task.media = n
      BY <2>6, <3>4
    <3> QED
      BY <3>3, <3>5 DEF CalmInv, Apart, Working
  <2>12. Sure(s2, db, store)
    <3>1. \A i \in 1..Len(db[m].variants) : Lists(db[m], db[m].variants[i].key)
      BY DEF Lists
    <3>2. Current(s2, db)
      BY <2>2, <2>4, <3>1 DEF Current
    <3>3. Present(s2, store)
      BY <2>4, <2>5 DEF Present
    <3> QED
      BY <3>2, <3>3 DEF Sure
  <2>13. \A v \in Workers : Sure(wk'[v], db', store')
    BY <1>2, <2>6, <2>12 DEF CalmInv
  <2>14. Uploaded'
    BY <1>2 DEF CalmInv, Uploaded
  <2>15. ASSUME TidyInv
         PROVE  TidyInv'
    <3>1. \A v \in Workers : Active(wk[v]) => wk'[v] = wk[v]
      BY <2>6, <2>7
    <3>2. Accounted'
      BY <1>2, <2>15, <3>1 DEF TidyInv, Accounted
    <3>3. \A d \in Deleters : Clearing(del'[d], db', store')
      BY <1>2, <2>15 DEF TidyInv
    <3> QED
      BY <3>2, <3>3 DEF TidyInv
  <2>16. ASSUME Explained
         PROVE  Explained'
    <3>1. \A v \in Workers : wk[v].pc \in {"stat", "update"} => wk'[v] = wk[v]
      BY <2>6, <2>7, ActivePcs
    <3>2. \A n \in Medias : Deleting(n)' <=> Deleting(n)
      BY DEF Deleting
    <3> QED
      BY <1>2, <2>16, <3>1, <3>2 DEF Explained
  <2> QED
    BY <2>10, <2>11, <2>13, <2>14, <2>15, <2>16 DEF CalmInv
<1> QED
  BY <1>3, <1>4

LEMMA WorkCalm ==
  ASSUME ExclusiveDelete, Faults = {}, IInv, IInv', CalmInv,
         NEW w \in Workers, Work(w)
  PROVE  /\ CalmInv'
         /\ NoneFlat /\ TidyInv => TidyInv'
         /\ Explained => Explained'
<1>1. /\ P!WorkerStep(w)
      /\ \A m \in Medias : Deleting(m) => ~Working(m)'
      /\ UNCHANGED <<del, failed>>
  BY DEF Work
<1>2. CASE P!OptimiseStep(w) \/ P!ResizeStep(w)
  <2>1. PICK s : s = wk[w]
    OBVIOUS
  <2>2. PICK s2 \in P!WorkerState :
          wk' = [wk EXCEPT ![w] = s2] /\ Moved(s, s2) /\ Active(s)
    BY <1>2, <2>1, TaskMoves DEF Moves
  <2> QED
    BY <1>1, <2>1, <2>2, MoveCalm, MoveTidy, MoveExplained
<1>3. CASE \E t \in Task : P!Start(w, t)
  BY <1>1, <1>3, StartMoves
<1>4. CASE P!Uncache(w) \/ P!UncacheEtag(w)
  BY <1>1, <1>4, UncacheRests
<1> QED
  BY <1>1, <1>2, <1>3, <1>4, SameData DEF P!WorkerStep

-----------------------------------------------------------------------------
(* The steps of the delete requests *)

\* A step of request d, which is or will be about m, that makes its state s2.
Removed(d, m, s2) ==
  /\ del' = [del EXCEPT ![d] = s2]
  /\ s2.pc # "idle" => s2.id = m
  /\ UNCHANGED <<tasks, wk>>
  /\ Elsewhere(m)
  /\ db'[m] \in {db[m], NoRow}
  /\ \A b \in Buckets, k \in Key :
       store'[b][k] # NoObject => store'[b][k] = store[b][k]

LEMMA RemovedCalm ==
  ASSUME IInv, CalmInv, NEW d \in Deleters, NEW m \in Medias, ~Working(m),
         NEW s2, Removed(d, m, s2)
  PROVE  CalmInv'
<1> USE DEF Removed
<1>1. \A e \in Deleters : del'[e] = IF e = d THEN s2 ELSE del[e]
  BY DEF IInv, DeletersOK
<1>2. \A v \in Workers : Active(wk[v]) => wk[v].task.media # m
  BY ActivePcs DEF Working
<1>3. Serial'
  BY DEF CalmInv, Serial
<1>4. Apart'
  <2> SUFFICES ASSUME NEW n \in Medias, Deleting(n)' \/ db'[n] = NoRow
               PROVE  ~Working(n)
    BY DEF Apart, Working
  <2>1. CASE n = m
    BY <2>1
  <2>2. CASE n # m
    <3>1. db'[n] = db[n]
      BY <2>2 DEF Elsewhere
    <3>2. Deleting(n)' => Deleting(n)
      BY <1>1, <2>2 DEF Deleting
    <3> QED
      BY <3>1, <3>2 DEF CalmInv, Apart
  <2> QED
    BY <2>1, <2>2
<1>5. \A v \in Workers : Sure(wk[v], db', store')
  <2> SUFFICES ASSUME NEW v \in Workers
               PROVE  Sure(wk[v], db', store')
    OBVIOUS
  <2>1. TaskLocal(wk[v]) /\ Sure(wk[v], db, store)
    BY DEF IInv, WorkersOK, CalmInv
  <2> QED
    BY <1>2, <2>1, SureStays
<1>6. Uploaded'
  BY DEF CalmInv, Uploaded, Elsewhere
<1> QED
  BY <1>3, <1>4, <1>5, <1>6 DEF CalmInv

\* Removing files leaves what other deletions have removed away.
LEMMA ClearingKept ==
  ASSUME NEW x \in DeleterState, NEW rows, NEW rows2, NEW files, NEW files2,
         Clearing(x, rows, files), DeleterLocal(x, rows),
         x.pc # "idle" => rows2[x.id] \in {rows[x.id], NoRow},
         \A b \in Buckets, k \in Key :
           files2[b][k] # NoObject => files2[b][k] = files[b][k]
  PROVE  Clearing(x, rows2, files2)
<1>1. x.pc = "row" => \A b \in Buckets, k \in Key :
        k.media = x.id => files2[b][k] = NoObject
  BY DEF Clearing
<1>2. ASSUME x.pc = "variants", rows2[x.id] # NoRow
      PROVE  /\ x.media = rows2[x.id]
             /\ \A j \in 1..Len(x.media.variants) :
                  j < x.i => files2[x.media.bucket][x.media.variants[j].key] = NoObject
  <2>1. rows2[x.id] = rows[x.id]
    BY <1>2
  <2>2. x.id \in Medias /\ RowOf(x.id, x.media)
    BY <1>2 DEF DeleterLocal
  <2>3. /\ x.media.bucket \in Buckets
        /\ \A j \in 1..Len(x.media.variants) : x.media.variants[j].key \in Key
    BY <2>2, RowOfFacts
  <2> QED
    BY <1>2, <2>1, <2>3 DEF Clearing
<1> QED
  BY <1>1, <1>2 DEF Clearing

LEMMA RemovedTidy ==
  ASSUME IInv, TidyInv, NEW d \in Deleters, NEW m \in Medias, ~Working(m),
         NEW s2, Removed(d, m, s2),
         db'[m] = NoRow =>
           \A b \in Buckets, k \in Key : k.media = m => store'[b][k] = NoObject,
         Clearing(s2, db', store')
  PROVE  TidyInv'
<1> USE DEF Removed
<1>1. \A e \in Deleters : del'[e] = IF e = d THEN s2 ELSE del[e]
  BY DEF IInv, DeletersOK
<1>2. Accounted'
  <2> SUFFICES ASSUME NEW b \in Buckets, NEW k \in Key, store'[b][k] # NoObject
               PROVE  /\ db'[k.media] # NoRow
                      /\ b = db'[k.media].bucket
                      /\ \/ Lists(db'[k.media], k)
                         \/ \E v \in Workers : /\ Active(wk[v])
                                               /\ wk[v].task.media = k.media
                                               /\ Made(wk[v], k)
    BY DEF Accounted
  <2>1. k.media \in Medias /\ store[b][k] # NoObject
    BY DEF Key
  <2>2. db'[k.media] = db[k.media]
    BY <2>1 DEF Elsewhere
  <2> QED
    BY <2>1, <2>2 DEF TidyInv, Accounted
<1>3. ASSUME NEW e \in Deleters, e # d
      PROVE  Clearing(del[e], db', store')
  <2>1. PICK x \in DeleterState : x = del[e]
    BY DEF IInv, DeletersOK
  <2>2. /\ DeleterLocal(x, db) /\ Clearing(x, db, store)
        /\ x.pc # "idle" => x.id \in Medias
    BY <2>1, DeleterFacts DEF IInv, TidyInv
  <2>3. \A n \in Medias : db'[n] \in {db[n], NoRow}
    BY DEF Elsewhere
  <2>4. x.pc # "idle" => db'[x.id] \in {db[x.id], NoRow}
    BY <2>2, <2>3
  <2>5. Clearing(x, db', store')
    BY <2>2, <2>4, ClearingKept
  <2> QED
    BY <2>1, <2>5
<1> QED
  BY <1>1, <1>2, <1>3 DEF TidyInv

LEMMA RemovedExplained ==
  ASSUME IInv, Explained, NEW d \in Deleters, NEW m \in Medias,
         NEW s2, Removed(d, m, s2), NoteErrors,
         del[d].pc # "idle" => del[d].id = m,
         \/ s2.pc # "idle"
         \/ s2.answer = "error" /\ s2.id = m
         \/ db'[m] = NoRow
  PROVE  Explained'
<1> USE DEF Removed
<1>1. \A e \in Deleters : del'[e] = IF e = d THEN s2 ELSE del[e]
  BY DEF IInv, DeletersOK
<1> SUFFICES ASSUME NEW n \in Medias, db'[n] # NoRow
             PROVE  \/ store'[db'[n].bucket][db'[n].key] # NoObject
                    \/ \E v \in Workers : /\ wk[v].pc \in {"stat", "update"}
                                          /\ wk[v].task.media = n
                    \/ Deleting(n)'
                    \/ n \in failed'
  BY DEF Explained
<1>2. CASE n = m
  <2>1. CASE s2.pc # "idle"
    BY <1>1, <1>2, <2>1 DEF Deleting
  <2>2. CASE s2.answer = "error" /\ s2.id = m
    BY <1>1, <1>2, <2>2 DEF NoteErrors
  <2> QED
    BY <1>2, <2>1, <2>2
<1>3. CASE n # m
  <2>1. db'[n] = db[n]
    BY <1>3 DEF Elsewhere
  <2>2. db[n].bucket \in Buckets /\ db[n].key \in Key /\ db[n].key.media = n
    BY <2>1, RowOfFacts DEF IInv, RowsOK
  <2>3. store'[db[n].bucket][db[n].key] = store[db[n].bucket][db[n].key]
    BY <1>3, <2>2 DEF Elsewhere
  <2>4. Deleting(n) => Deleting(n)'
    BY <1>1, <1>3 DEF Deleting
  <2>5. n \in failed => n \in failed'
    BY DEF NoteErrors
  <2> QED
    BY <2>1, <2>3, <2>4, <2>5 DEF Explained
<1> QED
  BY <1>2, <1>3

\* One file of m goes.
LEMMA FileGone ==
  ASSUME FilesOK, NEW m, NEW b, NEW k0 \in Key, k0.media = m, StoreRemove(b, k0)
  PROVE  /\ \A c \in Buckets, k \in Key :
              store'[c][k] = IF c = b /\ k = k0 THEN NoObject ELSE store[c][k]
         /\ UNCHANGED db => Elsewhere(m)
<1>1. \A c \in Buckets, k \in Key :
        store'[c][k] = IF c = b /\ k = k0 THEN NoObject ELSE store[c][k]
  BY DEF FilesOK, StoreRemove
<1>2. \A c \in Buckets, k \in Key : k.media # m => store'[c][k] = store[c][k]
  BY <1>1
<1> QED
  BY <1>1, <1>2 DEF Elsewhere

\* What a step of request d that is about m achieves.
RemoveOK(d, m) ==
  \E s2 \in DeleterState :
    /\ Removed(d, m, s2)
    /\ TidyInv /\ "remove_variant" \notin DeleteFaults =>
         /\ Clearing(s2, db', store')
         /\ db'[m] = NoRow => \A b \in Buckets, k \in Key :
              k.media = m => store'[b][k] = NoObject
    /\ \/ s2.pc # "idle"
       \/ s2.answer = "error" /\ s2.id = m
       \/ db'[m] = NoRow

\* When the row is gone, so are the files.
LEMMA GoneIsClear ==
  ASSUME TidyInv, NEW m, db[m] = NoRow
  PROVE  \A b \in Buckets, k \in Key : k.media = m => store[b][k] = NoObject
  BY DEF TidyInv, Accounted

LEMMA BeginRemoveOK ==
  ASSUME IInv, NEW d \in Deleters, NEW m \in Medias, BeginRemove(d, m)
  PROVE  RemoveOK(d, m)
<1>1. BeginDelete(d, m) /\ UNCHANGED <<db, store, tasks, wk>>
  BY DEF BeginRemove, BeginDelete
<1>2. del \in [Deleters -> DeleterState]
  BY DEF IInv, DeletersOK
<1>3. Elsewhere(m)
  BY <1>1 DEF Elsewhere
<1>4. CASE /\ db[m] # NoRow
           /\ del' = [del EXCEPT ![d] = [IdleDeleter("none", m) EXCEPT
                        !.pc = "variants", !.media = db[m], !.i = 1]]
  <2> DEFINE s2 == [IdleDeleter("none", m) EXCEPT
                      !.pc = "variants", !.media = db[m], !.i = 1]
  <2>1. db[m] \in Row
    BY <1>4 DEF IInv, RowsOK
  <2>2. s2 \in DeleterState /\ s2.pc = "variants" /\ s2.id = m /\ s2.media = db[m]
        /\ s2.i = 1
    BY <2>1 DEF IdleDeleter, DeleterState, Answers
  <2>3. del' = [del EXCEPT ![d] = s2]
    BY <1>4
  <2> HIDE DEF s2
  <2>4. Removed(d, m, s2)
    BY <1>1, <1>3, <2>2, <2>3 DEF Removed
  <2>5. Clearing(s2, db', store')
    BY <1>1, <2>2 DEF Clearing
  <2> QED
    BY <1>1, <1>4, <2>2, <2>4, <2>5 DEF RemoveOK
<1>5. ASSUME NEW answer \in {"not_found", "error"},
             answer = "not_found" => db[m] = NoRow,
             del' = [del EXCEPT ![d] = IdleDeleter(answer, m)]
      PROVE  RemoveOK(d, m)
  <2>1. PICK s2 \in DeleterState : s2 = IdleDeleter(answer, m)
    BY DEF IdleDeleter, DeleterState, Answers
  <2>2. s2.pc = "idle" /\ s2.id = m /\ s2.answer = answer
    BY <2>1 DEF IdleDeleter
  <2>3. Removed(d, m, s2)
    BY <1>1, <1>3, <1>5, <2>1, <2>2 DEF Removed
  <2>4. Clearing(s2, db', store')
    BY <2>2 DEF Clearing
  <2> QED
    BY <1>1, <1>5, <2>2, <2>3, <2>4, GoneIsClear DEF RemoveOK
<1> QED
  BY <1>1, <1>4, <1>5 DEF BeginDelete

LEMMA DieRemovingOK ==
  ASSUME IInv, NEW d \in Deleters, DieRemoving(d), NEW m \in Medias
  PROVE  \E s2 : Removed(d, m, s2) /\ Clearing(s2, db', store')
<1>1. del' = [del EXCEPT ![d] = IdleDeleter("none", Nil)]
      /\ UNCHANGED <<db, store, tasks, wk>>
  BY DEF DieRemoving, DieDeleting
<1>2. PICK s2 : s2 = IdleDeleter("none", Nil)
  OBVIOUS
<1>3. s2.pc = "idle"
  BY <1>2 DEF IdleDeleter
<1>4. Removed(d, m, s2)
  BY <1>1, <1>2, <1>3 DEF Removed, Elsewhere
<1>5. Clearing(s2, db', store')
  BY <1>3 DEF Clearing
<1> QED
  BY <1>4, <1>5

\* A request at work has the id and a copy of the row of its media.
LEMMA AtRemoval ==
  ASSUME IInv, CalmInv, NEW d \in Deleters, NEW x, x = del[d], x.pc # "idle"
  PROVE  /\ x \in DeleterState /\ DeleterLocal(x, db)
         /\ x.id \in Medias /\ RowOf(x.id, x.media)
         /\ ~Working(x.id)
         /\ TidyInv => Clearing(x, db, store)
<1>1. /\ x \in DeleterState /\ DeleterLocal(x, db)
      /\ x.id \in Medias /\ RowOf(x.id, x.media)
  BY DeleterFacts DEF IInv
<1>2. ~Working(x.id)
  BY <1>1 DEF CalmInv, Apart, Deleting
<1> QED
  BY <1>1, <1>2 DEF TidyInv

LEMMA GoOnFacts ==
  ASSUME IInv, NEW d \in Deleters, NEW x \in DeleterState, x = del[d],
         NEW pc \in {"row", "uncache", "uncache_etag"}, GoOn(d, pc)
  PROVE  \E s2 \in DeleterState :
           /\ del' = [del EXCEPT ![d] = s2]
           /\ s2.pc = pc /\ s2.id = x.id
<1> DEFINE s2 == [x EXCEPT !.pc = pc]
<1>1. del' = [del EXCEPT ![d] = s2]
  BY DEF GoOn, IInv, DeletersOK
<1>2. s2 \in DeleterState /\ s2.pc = pc /\ s2.id = x.id
  BY DEF DeleterState
<1> HIDE DEF s2
<1> QED
  BY <1>1, <1>2

LEMMA AnswerFacts ==
  ASSUME IInv, NEW d \in Deleters, NEW x \in DeleterState, x = del[d],
         NEW answer \in {"ok", "error"}, Answer(d, answer)
  PROVE  \E s2 \in DeleterState :
           /\ del' = [del EXCEPT ![d] = s2]
           /\ s2.pc = "idle" /\ s2.id = x.id /\ s2.answer = answer
<1> DEFINE s2 == IdleDeleter(answer, x.id)
<1>1. del' = [del EXCEPT ![d] = s2]
  BY DEF Answer
<1>2. s2 \in DeleterState /\ s2.pc = "idle" /\ s2.id = x.id /\ s2.answer = answer
  BY DEF DeleterState, IdleDeleter, Answers
<1> HIDE DEF s2
<1> QED
  BY <1>1, <1>2

LEMMA RemoveVariantOK ==
  ASSUME IInv, CalmInv, NEW d \in Deleters, RemoveVariant(d), UNCHANGED wk
  PROVE  RemoveOK(d, del[d].id)
<1>1. PICK x : x = del[d]
  OBVIOUS
<1>2. /\ x.pc = "variants" /\ x.i <= Len(x.media.variants)
      /\ UNCHANGED <<db, tasks, wk>>
      /\ del' = [del EXCEPT ![d].i = @ + 1]
  BY <1>1 DEF RemoveVariant
<1>3. /\ x \in DeleterState /\ x.id \in Medias /\ RowOf(x.id, x.media)
      /\ x.i # 0
      /\ TidyInv => Clearing(x, db, store)
  BY <1>1, <1>2, AtRemoval DEF DeleterLocal
<1>4. x.i \in Nat /\ x.i \in 1..Len(x.media.variants)
  BY <1>2, <1>3, RowOfFacts DEF DeleterState
<1> DEFINE s2 == [x EXCEPT !.i = @ + 1]
<1>5. del' = [del EXCEPT ![d] = s2]
  BY <1>1, <1>2 DEF IInv, DeletersOK
<1>6. /\ s2 \in DeleterState /\ s2.pc = "variants" /\ s2.id = x.id
      /\ s2.media = x.media /\ s2.i = x.i + 1
  BY <1>2, <1>3, <1>4 DEF DeleterState
<1> HIDE DEF s2
<1>7. ASSUME NEW i \in 1..Len(x.media.variants)
      PROVE  /\ x.media.variants[i].key \in Key
             /\ x.media.variants[i].key.media = x.id
  BY <1>3, RowOfFacts
<1>8. CASE UNCHANGED store /\ "remove_variant" \in DeleteFaults
  <2>1. Removed(d, x.id, s2)
    BY <1>2, <1>5, <1>6, <1>8 DEF Removed, Elsewhere
  <2> QED
    BY <1>1, <1>6, <1>8, <2>1 DEF RemoveOK
<1>9. CASE StoreRemove(x.media.bucket, x.media.variants[x.i].key)
  <2>1. PICK k0 \in Key : k0 = x.media.variants[x.i].key /\ k0.media = x.id
    BY <1>4, <1>7, <1>9
  <2>2. /\ \A c \in Buckets, k \in Key :
             store'[c][k] = IF c = x.media.bucket /\ k = k0
                            THEN NoObject ELSE store[c][k]
        /\ Elsewhere(x.id)
    BY <1>2, <1>9, <2>1, FileGone DEF IInv
  <2>3. Removed(d, x.id, s2)
    BY <1>2, <1>5, <1>6, <2>2 DEF Removed
  <2>4. ASSUME TidyInv, db[x.id] # NoRow
        PROVE  /\ x.media = db[x.id]
               /\ \A j \in 1..Len(x.media.variants) :
                    j < x.i + 1 =>
                      store'[x.media.bucket][x.media.variants[j].key] = NoObject
    <3>1. /\ x.media = db[x.id]
          /\ \A j \in 1..Len(x.media.variants) :
               j < x.i => store[x.media.bucket][x.media.variants[j].key] = NoObject
      BY <1>2, <1>3, <2>4 DEF Clearing
    <3>2. x.media.bucket \in Buckets
      BY <1>3, RowOfFacts
    <3>3. ASSUME NEW j \in 1..Len(x.media.variants), j < x.i + 1
          PROVE  store'[x.media.bucket][x.media.variants[j].key] = NoObject
      <4>1. CASE j = x.i
        BY <1>7, <2>1, <2>2, <3>2, <4>1
      <4>2. CASE j # x.i
        <5>1. j < x.i
          BY <1>4, <3>3, <4>2
        <5> QED
          BY <1>7, <2>2, <3>1, <3>2, <5>1
      <4> QED
        BY <4>1, <4>2
    <3> QED
      BY <3>1, <3>3
  <2>5. TidyInv => Clearing(s2, db', store')
    BY <1>2, <1>6, <2>4 DEF Clearing
  <2>6. TidyInv => (db'[x.id] = NoRow => \A b \in Buckets, k \in Key :
                      k.media = x.id => store'[b][k] = NoObject)
    BY <1>2, <2>2, GoneIsClear
  <2> QED
    BY <1>1, <1>6, <2>3, <2>5, <2>6 DEF RemoveOK
<1> QED
  BY <1>1, <1>8, <1>9 DEF RemoveVariant

LEMMA RemoveObjectOK ==
  ASSUME IInv, CalmInv, NEW d \in Deleters, RemoveObject(d), UNCHANGED wk
  PROVE  RemoveOK(d, del[d].id)
<1>1. PICK x : x = del[d]
  OBVIOUS
<1>2. /\ x.pc = "variants" /\ x.i > Len(x.media.variants)
      /\ UNCHANGED <<db, tasks, wk>>
  BY <1>1 DEF RemoveObject
<1>3. /\ x \in DeleterState /\ x.id \in Medias /\ RowOf(x.id, x.media)
      /\ ~Working(x.id)
      /\ TidyInv => Clearing(x, db, store)
      /\ FilesOK
  BY <1>1, <1>2, AtRemoval DEF IInv
<1>4. /\ x.media.bucket \in Buckets /\ x.media.key \in Key
      /\ x.media.key.media = x.id
      /\ x.i \in Nat /\ Len(x.media.variants) \in Nat
  BY <1>3, RowOfFacts DEF DeleterState
<1>5. CASE StoreRemove(x.media.bucket, x.media.key) /\ GoOn(d, "row")
  <2>1. PICK s2 \in DeleterState :
          del' = [del EXCEPT ![d] = s2] /\ s2.pc = "row" /\ s2.id = x.id
    BY <1>1, <1>3, <1>5, GoOnFacts
  <2>2. /\ \A c \in Buckets, k \in Key :
             store'[c][k] = IF c = x.media.bucket /\ k = x.media.key
                            THEN NoObject ELSE store[c][k]
        /\ Elsewhere(x.id)
    BY <1>2, <1>3, <1>4, <1>5, FileGone
  <2>3. Removed(d, x.id, s2)
    BY <1>2, <2>1, <2>2 DEF Removed
  <2>4. ASSUME TidyInv, NEW b \in Buckets, NEW k \in Key, k.media = x.id,
               store'[b][k] # NoObject
        PROVE  FALSE
    <3>1. store[b][k] # NoObject /\ ~(b = x.media.bucket /\ k = x.media.key)
      BY <2>2, <2>4
    <3>2. /\ db[x.id] # NoRow
          /\ b = db[x.id].bucket
          /\ \/ Lists(db[x.id], k)
             \/ \E w \in Workers : Active(wk[w]) /\ wk[w].task.media = x.id
      BY <2>4, <3>1 DEF TidyInv, Accounted
    <3>3. Lists(db[x.id], k)
      BY <1>3, <3>2, ActivePcs DEF Working
    <3>4. /\ x.media = db[x.id]
          /\ \A j \in 1..Len(x.media.variants) :
               j < x.i => store[x.media.bucket][x.media.variants[j].key] = NoObject
      BY <1>2, <1>3, <2>4, <3>2 DEF Clearing
    <3>5. PICK j \in 1..Len(x.media.variants) : k = x.media.variants[j].key
      BY <3>1, <3>2, <3>3, <3>4 DEF Lists
    <3>6. j < x.i
      BY <1>2, <1>4
    <3> QED
      BY <3>1, <3>2, <3>4, <3>5, <3>6
  <2>5. TidyInv => Clearing(s2, db', store')
    BY <2>1, <2>4 DEF Clearing
  <2> QED
    BY <1>1, <2>1, <2>3, <2>4, <2>5 DEF RemoveOK
<1>6. CASE Answer(d, "error") /\ UNCHANGED store
  <2>1. PICK s2 \in DeleterState :
          /\ del' = [del EXCEPT ![d] = s2]
          /\ s2.pc = "idle" /\ s2.id = x.id /\ s2.answer = "error"
    BY <1>1, <1>3, <1>6, AnswerFacts
  <2>2. Removed(d, x.id, s2)
    BY <1>2, <1>6, <2>1 DEF Removed, Elsewhere
  <2>3. Clearing(s2, db', store')
    BY <2>1 DEF Clearing
  <2> QED
    BY <1>1, <1>2, <1>6, <2>1, <2>2, <2>3, GoneIsClear DEF RemoveOK
<1> QED
  BY <1>1, <1>5, <1>6 DEF RemoveObject

LEMMA DeleteRowOK ==
  ASSUME IInv, CalmInv, NEW d \in Deleters, DeleteRow(d), UNCHANGED wk
  PROVE  RemoveOK(d, del[d].id)
<1>1. PICK x : x = del[d]
  OBVIOUS
<1>2. x.pc = "row" /\ UNCHANGED <<store, tasks, wk>>
  BY <1>1 DEF DeleteRow
<1>3. /\ x \in DeleterState /\ x.id \in Medias
      /\ TidyInv => Clearing(x, db, store)
  BY <1>1, <1>2, AtRemoval
<1>4. CASE RepoDelete(x.id) /\ GoOn(d, "uncache")
  <2>1. PICK s2 \in DeleterState :
          del' = [del EXCEPT ![d] = s2] /\ s2.pc = "uncache" /\ s2.id = x.id
    BY <1>1, <1>3, <1>4, GoOnFacts
  <2>2. \A n \in Medias : db'[n] = IF n = x.id THEN NoRow ELSE db[n]
    BY <1>3, <1>4 DEF RepoDelete, IInv, RowsOK
  <2>3. Removed(d, x.id, s2)
    BY <1>2, <1>3, <2>1, <2>2 DEF Removed, Elsewhere
  <2>4. Clearing(s2, db', store')
    BY <2>1 DEF Clearing
  <2>5. TidyInv => \A b \in Buckets, k \in Key :
                     k.media = x.id => store'[b][k] = NoObject
    BY <1>2, <1>3 DEF Clearing
  <2> QED
    BY <1>1, <2>1, <2>3, <2>4, <2>5 DEF RemoveOK
<1>5. CASE Answer(d, "error") /\ UNCHANGED db
  <2>1. PICK s2 \in DeleterState :
          /\ del' = [del EXCEPT ![d] = s2]
          /\ s2.pc = "idle" /\ s2.id = x.id /\ s2.answer = "error"
    BY <1>1, <1>3, <1>5, AnswerFacts
  <2>2. Removed(d, x.id, s2)
    BY <1>2, <1>5, <2>1 DEF Removed, Elsewhere
  <2>3. Clearing(s2, db', store')
    BY <2>1 DEF Clearing
  <2> QED
    BY <1>1, <1>2, <1>5, <2>1, <2>2, <2>3, GoneIsClear DEF RemoveOK
<1> QED
  BY <1>1, <1>4, <1>5 DEF DeleteRow

LEMMA UncacheOK ==
  ASSUME IInv, CalmInv, NEW d \in Deleters, UncacheDetails(d) \/ UncacheEtag(d),
         UNCHANGED wk
  PROVE  RemoveOK(d, del[d].id)
<1>1. PICK x : x = del[d]
  OBVIOUS
<1>2. /\ x.pc \in {"uncache", "uncache_etag"}
      /\ UNCHANGED <<db, store, tasks, wk>>
      /\ GoOn(d, "uncache_etag") \/ Answer(d, "ok")
  BY <1>1 DEF UncacheDetails, UncacheEtag
<1>3. x \in DeleterState /\ x.id \in Medias /\ DeleterLocal(x, db)
  BY <1>1, <1>2, AtRemoval
<1>4. db[x.id] = NoRow
  BY <1>2, <1>3 DEF DeleterLocal
<1>5. PICK s2 \in DeleterState :
        /\ del' = [del EXCEPT ![d] = s2]
        /\ s2.pc \in {"idle", "uncache_etag"} /\ s2.id = x.id
  <2>1. CASE GoOn(d, "uncache_etag")
    BY <1>1, <1>3, <2>1, GoOnFacts
  <2>2. CASE Answer(d, "ok")
    BY <1>1, <1>3, <2>2, AnswerFacts
  <2> QED
    BY <1>2, <2>1, <2>2
<1>6. Removed(d, x.id, s2)
  BY <1>2, <1>5 DEF Removed, Elsewhere
<1>7. Clearing(s2, db', store')
  BY <1>5 DEF Clearing
<1> QED
  BY <1>1, <1>2, <1>4, <1>5, <1>6, <1>7, GoneIsClear DEF RemoveOK

-----------------------------------------------------------------------------
(* The theorems *)

LEMMA RemoveCalm ==
  ASSUME ExclusiveDelete, IInv, CalmInv, NEW d \in Deleters,
         (\E m \in Medias : BeginRemove(d, m)) \/ Remove(d)
  PROVE  /\ CalmInv'
         /\ TidyInv /\ "remove_variant" \notin DeleteFaults => TidyInv'
         /\ Explained => Explained'
<1>1. \E m \in Medias : /\ RemoveOK(d, m) /\ ~Working(m) /\ NoteErrors
                        /\ del[d].pc # "idle" => del[d].id = m
  <2>1. ASSUME NEW m \in Medias, BeginRemove(d, m)
        PROVE  /\ RemoveOK(d, m) /\ ~Working(m) /\ NoteErrors
               /\ del[d].pc = "idle"
    BY <2>1, BeginRemoveOK DEF BeginRemove, BeginDelete
  <2>2. CASE Remove(d)
    <3>1. DeleterStep(d) /\ UNCHANGED wk /\ NoteErrors
      BY <2>2 DEF Remove
    <3>2. del[d].pc # "idle"
      BY <3>1 DEF DeleterStep, RemoveVariant, RemoveObject, DeleteRow,
                  UncacheDetails, UncacheEtag
    <3>3. del[d].id \in Medias /\ ~Working(del[d].id)
      BY <3>2, AtRemoval
    <3>4. RemoveOK(d, del[d].id)
      BY <3>1, RemoveVariantOK, RemoveObjectOK, DeleteRowOK, UncacheOK DEF DeleterStep
    <3> QED
      BY <3>1, <3>3, <3>4
  <2> QED
    BY <2>1, <2>2
<1>2. PICK m \in Medias : /\ RemoveOK(d, m) /\ ~Working(m) /\ NoteErrors
                          /\ del[d].pc # "idle" => del[d].id = m
  BY <1>1
<1>3. PICK s2 \in DeleterState :
        /\ Removed(d, m, s2)
        /\ TidyInv /\ "remove_variant" \notin DeleteFaults =>
             /\ Clearing(s2, db', store')
             /\ db'[m] = NoRow => \A b \in Buckets, k \in Key :
                  k.media = m => store'[b][k] = NoObject
        /\ \/ s2.pc # "idle"
           \/ s2.answer = "error" /\ s2.id = m
           \/ db'[m] = NoRow
  BY <1>2 DEF RemoveOK
<1> QED
  BY <1>2, <1>3, RemovedCalm, RemovedTidy, RemovedExplained

LEMMA FrameCalm ==
  ASSUME CalmInv, UNCHANGED <<db, store, tasks, wk, del, failed>>
  PROVE  /\ CalmInv'
         /\ TidyInv => TidyInv'
         /\ Explained => Explained'
<1>1. Serial' /\ Uploaded'
  BY DEF CalmInv, Serial, Uploaded
<1>2. Apart'
  BY DEF CalmInv, Apart, Deleting, Working
<1>3. \A w \in Workers : Sure(wk'[w], db', store')
  BY DEF CalmInv
<1>4. TidyInv => TidyInv'
  <2> SUFFICES ASSUME TidyInv
               PROVE  TidyInv'
    OBVIOUS
  <2>1. Accounted'
    BY DEF TidyInv, Accounted
  <2>2. \A d \in Deleters : Clearing(del'[d], db', store')
    BY DEF TidyInv
  <2> QED
    BY <2>1, <2>2 DEF TidyInv
<1>5. Explained => Explained'
  BY DEF Explained, Deleting
<1> QED
  BY <1>1, <1>2, <1>3, <1>4, <1>5 DEF CalmInv

LEMMA NextCalm ==
  ASSUME ExclusiveDelete, Faults = {}, IInv, IInv', CalmInv, [Next]_vars
  PROVE  /\ CalmInv'
         /\ NoneFlat /\ "remove_variant" \notin DeleteFaults /\ TidyInv => TidyInv'
         /\ "crash" \notin DeleteFaults /\ Explained => Explained'
<1>1. ASSUME NEW w \in Workers, Work(w) \/ Die(w)
      PROVE  Work(w)
  BY <1>1 DEF Die, P!Crash
<1>2. CASE \E w \in Workers : Work(w) \/ Die(w)
  BY <1>1, <1>2, WorkCalm
<1>3. CASE \/ \E r \in Readers : (\E m \in Medias : BeginRead(r, m)) \/ Read(r)
           \/ PassTime
           \/ UNCHANGED vars
  <2>1. UNCHANGED <<db, store, tasks, wk, del, failed>>
    <3>1. ASSUME NEW r \in Readers, Read(r)
          PROVE  UNCHANGED <<db, store, tasks, wk, del, failed>>
      BY <3>1, ReaderStepKeeps DEF Read, IInv, ReadersInv
    <3>2. ASSUME NEW r \in Readers, NEW m \in Medias, BeginRead(r, m)
          PROVE  UNCHANGED <<db, store, tasks, wk, del, failed>>
      BY <3>2 DEF BeginRead, BeginGet
    <3>3. CASE PassTime
      BY <3>3 DEF PassTime, Tick
    <3>4. CASE UNCHANGED vars
      BY <3>4 DEF vars
    <3> QED
      BY <1>3, <3>1, <3>2, <3>3, <3>4
  <2> QED
    BY <2>1, FrameCalm
<1>4. ASSUME NEW d \in Deleters, (\E m \in Medias : BeginRemove(d, m)) \/ Remove(d)
      PROVE  /\ CalmInv'
             /\ TidyInv /\ "remove_variant" \notin DeleteFaults => TidyInv'
             /\ Explained => Explained'
  BY <1>4, RemoveCalm
<1>5. ASSUME NEW d \in Deleters, DieRemoving(d)
      PROVE  /\ CalmInv'
             /\ TidyInv => TidyInv'
             /\ "crash" \in DeleteFaults
  <2>1. "crash" \in DeleteFaults /\ del[d].pc # "idle" /\ UNCHANGED <<db, store>>
    BY <1>5 DEF DieRemoving, DieDeleting
  <2>2. PICK m \in Medias : m = del[d].id /\ ~Working(m)
    BY <2>1, AtRemoval
  <2>3. PICK s2 : Removed(d, m, s2) /\ Clearing(s2, db', store')
    BY <1>5, DieRemovingOK
  <2>4. CalmInv'
    BY <2>2, <2>3, RemovedCalm
  <2>5. TidyInv => TidyInv'
    BY <2>1, <2>2, <2>3, RemovedTidy, GoneIsClear
  <2> QED
    BY <2>1, <2>4, <2>5
<1> QED
  BY <1>2, <1>3, <1>4, <1>5 DEF Next

LEMMA InitCalm ==
  ASSUME Init
  PROVE  CalmInv /\ TidyInv /\ Explained
<1>1. PICK b \in Buckets, up \in [Medias -> Stored],
           queued \in [Medias -> BOOLEAN] :
        /\ db = [m \in Medias |->
             [key |-> FileKey(m, MimeTypeToExtension(up[m].type)),
              bucket |-> b, mime |-> up[m].type, size |-> Size[up[m].blob],
              status |-> "completed", optimised |-> FALSE,
              meta |-> up[m].blob, variants |-> <<>>]]
        /\ store = [c \in Buckets |-> [k \in Key |->
             IF c = b /\ k = FileKey(k.media, MimeTypeToExtension(up[k.media].type))
             THEN up[k.media] ELSE NoObject]]
        /\ tasks = [t \in Task |->
             IF t.kind = "optimise" /\ queued[t.media] THEN 1 ELSE 0]
  BY InitFacts
<1>2. /\ \A w \in Workers : wk[w].pc = "idle"
      /\ \A d \in Deleters : del[d].pc = "idle"
  BY InitFacts DEF P!IdleWorker, IdleDeleter
<1>3. \A w \in Workers : ~Active(wk[w])
  BY <1>2, ActivePcs
<1>4. ASSUME NEW m \in Medias
      PROVE  /\ db[m].key = FileKey(m, MimeTypeToExtension(up[m].type))
             /\ db[m].key \in Key /\ db[m].key.media = m
             /\ db[m].bucket = b /\ b \in Buckets
             /\ db[m].meta = up[m].blob
             /\ db[m] # NoRow
             /\ up[m] \in Stored /\ up[m] # NoObject
  <2>1. up[m].type \in AllowedMimeTypes
    BY TasksAssumption DEF P!PipelineAssumption, P!IsMimeTypeAllowed,
       P!AllowedMimeTypes, AllowedMimeTypes
  <2>2. FileKey(m, MimeTypeToExtension(up[m].type)) \in Key
        /\ FileKey(m, MimeTypeToExtension(up[m].type)).media = m
    BY <2>1, MimeFacts, FileKeyFacts
  <2>3. P!Object = Object
    BY DEF P!Object, Object, P!MimeTypes, MimeTypes, P!AllowedMimeTypes,
       AllowedMimeTypes
  <2>4. up[m] # NoObject
    BY <2>3, NilFacts, TasksAssumption DEF P!PipelineAssumption
  <2>5. db[m] \in Row
    <3>1. up[m].blob \in Blobs /\ Size[up[m].blob] \in Nat
      BY <2>3, BlobsAssumption, TasksAssumption DEF P!PipelineAssumption, Object
    <3>2. <<>> \in Seq(Variant)
      OBVIOUS
    <3> QED
      BY <1>1, <2>1, <2>2, <3>1, <3>2 DEF Row, Status
  <2> QED
    BY <1>1, <2>2, <2>4, <2>5, NilFacts
<1>5. Serial
  <2>1. \A t \in Task : tasks[t] \in {0, 1} /\ (tasks[t] > 0 => t.kind = "optimise")
    BY <1>1
  <2>2. \A t, u \in Task : t.kind = u.kind /\ t.media = u.media => t = u
    BY DEF Task
  <2> QED
    BY <1>3, <2>1, <2>2 DEF Serial
<1>6. Apart
  BY <1>2 DEF Apart, Working
<1>7. \A w \in Workers : Sure(wk[w], db, store)
  BY <1>3 DEF Sure
<1>8. Uploaded
  BY <1>4 DEF Uploaded
<1>9. Accounted
  <2> SUFFICES ASSUME NEW c \in Buckets, NEW k \in Key, store[c][k] # NoObject
               PROVE  /\ db[k.media] # NoRow /\ c = db[k.media].bucket
                      /\ k = db[k.media].key
    BY DEF Accounted, Lists
  <2>1. k.media \in Medias
    BY DEF Key
  <2>2. c = b /\ k = FileKey(k.media, MimeTypeToExtension(up[k.media].type))
    BY <1>1
  <2> QED
    BY <1>4, <2>1, <2>2
<1>10. \A d \in Deleters : Clearing(del[d], db, store)
  BY <1>2 DEF Clearing
<1>11. Explained
  <2> SUFFICES ASSUME NEW m \in Medias
               PROVE  store[db[m].bucket][db[m].key] # NoObject
    BY DEF Explained
  <2>1. PICK k \in Key : k = db[m].key /\ k.media = m
    BY <1>4
  <2>2. store[b][k] = up[m]
    BY <1>1, <1>4, <2>1
  <2> QED
    BY <1>4, <2>1, <2>2
<1> QED
  BY <1>5, <1>6, <1>7, <1>8, <1>9, <1>10, <1>11 DEF CalmInv, TidyInv

\* Without failing tasks, and when none works on a media while it is deleted:
\* a media has one task at a time, which finds its row and its files as the task
\* before left them.
THEOREM TasksRunAlone ==
  ASSUME ExclusiveDelete, Faults = {}
  PROVE  Spec => []CalmInv
<1>1. Init => CalmInv
  BY InitCalm
<1>2. IInv /\ IInv' /\ CalmInv /\ [Next]_vars => CalmInv'
  BY NextCalm
<1> QED
  BY <1>1, <1>2, ServiceInvariant, PTL DEF Spec

LEMMA NothingLeft ==
  ASSUME IInv, TidyInv
  PROVE  DeletedHasNoFile
<1> SUFFICES ASSUME NEW d \in Deleters, del[d].answer = "ok"
             PROVE  \A b \in Buckets, k \in Key :
                      k.media = del[d].id => store[b][k] = NoObject
  BY DEF DeletedHasNoFile
<1>1. DeleterLocal(del[d], db)
  BY DeleterFacts DEF IInv
<1>2. db[del[d].id] = NoRow
  BY <1>1 DEF DeleterLocal
<1> QED
  BY <1>2, GoneIsClear

\* A media whose deletion was answered 204 has no file left, under any key, if
\* the removal of its variants, which is only logged, does not fail; other calls
\* of delete requests may, and their processes may die.
THEOREM DeletedMediasLeaveNothing ==
  ASSUME ExclusiveDelete, Faults = {}, "remove_variant" \notin DeleteFaults, NoneFlat
  PROVE  Spec => []DeletedHasNoFile
<1>1. Init => TidyInv
  BY InitCalm
<1>2. IInv /\ IInv' /\ CalmInv /\ TidyInv /\ [Next]_vars => TidyInv'
  BY NextCalm
<1>3. IInv /\ TidyInv => DeletedHasNoFile
  BY NothingLeft
<1> QED
  BY <1>1, <1>2, <1>3, ServiceInvariant, TasksRunAlone, PTL DEF Spec

LEMMA ExplainedIsMissing == Explained => MissingIsExplained
  BY DEF Explained, MissingIsExplained

\* The object a completed row names is missing only while a task swaps it or a
\* delete request is at work, or after one that was answered 500, whatever calls
\* of the delete requests fail.
THEOREM MissingFilesAreExplained ==
  ASSUME ExclusiveDelete, Faults = {}, "crash" \notin DeleteFaults
  PROVE  Spec => []MissingIsExplained
<1>1. Init => Explained
  BY InitCalm
<1>2. IInv /\ IInv' /\ CalmInv /\ Explained /\ [Next]_vars => Explained'
  BY NextCalm
<1> QED
  BY <1>1, <1>2, ServiceInvariant, TasksRunAlone, ExplainedIsMissing, PTL DEF Spec

=============================================================================
