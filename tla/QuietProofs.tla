----------------------------- MODULE QuietProofs -----------------------------
(***************************************************************************)
(* What the pipeline leaves undone, for any medias, contents, configured   *)
(* widths and workers.  When it rests and nothing failed, no optimised     *)
(* image lacks a variant; whatever failed, the backlog command finds what  *)
(* is missing.                                                             *)
(***************************************************************************)
EXTENDS PipelineProofs

-----------------------------------------------------------------------------
(* The inductive invariant *)

HasWidth(m, variants, j) ==
  \E k \in 1..Len(variants) : variants[k].key = VariantKey(m, TargetWidths[j])

HasVariants(m, variants) ==
  \A j \in 1..Len(TargetWidths) : HasWidth(m, variants, j)

\* What a resize task still has to do for m.
Owed(m) ==
  /\ db[m].optimised
  /\ IsImage(db[m].mime)
  /\ ~TooFlat(db[m].meta)
  /\ ~HasVariants(m, db[m].variants)

\* From its copy on, an optimise task cannot fail any more, and it ends by
\* enqueueing a resize task.
Finishing == {"remove_temp", "remove_old", "stat", "update", "enqueue"}

\* The original is still the one this worker began to read.
Readable(s, files) ==
  s.blob # Nil => s.blob = files[s.media.bucket][s.media.key].blob

\* The worker will see to it that m gets its variants.
Works(s, m, files) ==
  /\ s.pc # "idle"
  /\ s.task.media = m
  /\ \/ s.pc \in Finishing
     \/ s.pc \in ResizePC /\ Readable(s, files)

Due(m) ==
  \/ tasks[ResizeTask(m)] > 0
  \/ \E w \in Workers : Works(wk[w], m, store)

\* A resize worker has listed the variants of the widths it has passed, and has
\* saved the one it is about to list.
Listed(s, files) ==
  /\ s.pc \in ResizePC =>
       \A j \in 1..Len(TargetWidths) :
         j < s.i \/ s.pc = "update_variants" =>
           HasWidth(s.task.media, s.media.variants, j)
  /\ s.pc = "stat_variant" =>
       files[s.media.bucket][VariantKey(s.task.media, TargetWidths[s.i])] # NoObject

AllListed == \A w \in Workers : Listed(wk[w], store)

NothingForgotten == \A m \in Medias : Owed(m) => Due(m)

QInv == IInv /\ AllListed /\ NothingForgotten

-----------------------------------------------------------------------------
(* What a step leaves alone *)

\* No variant is removed.
VariantsStay(files, files2) ==
  \A b \in Buckets, k \in Key :
    k.kind = "variant" /\ files[b][k] # NoObject => files2[b][k] # NoObject

\* The converted files of m stay as they are.
FilesStay(m, files, files2) ==
  \A b \in Buckets, k \in Key :
    k.kind = "file" /\ k.media = m /\ Lasting(k) => files2[b][k] = files[b][k]

\* No task that was queued leaves the queue.
TasksStay == \A t \in Task : tasks[t] > 0 => tasks'[t] > 0

LEMMA Growing ==
  ASSUME QueueOK, NEW t \in Task,
         tasks' = [tasks EXCEPT ![t] = @ + 1] \/ UNCHANGED tasks
  PROVE  TasksStay
  BY DEF QueueOK, TasksStay

LEMMA ResizeTaskFacts ==
  ASSUME NEW m \in Medias
  PROVE  /\ ResizeTask(m) \in Task
         /\ ResizeTask(m).media = m
         /\ ResizeTask(m).kind = "resize"
  BY DEF ResizeTask, Task, TaskKinds

LEMMA SaveStays ==
  ASSUME FilesOK, NEW b \in Buckets, NEW k \in Key, NEW o \in Object,
         StoreSave(b, k, o)
  PROVE  /\ VariantsStay(store, store')
         /\ \A m \in Medias : k.media # m \/ k.kind # "file" =>
              FilesStay(m, store, store')
         /\ store'[b][k] # NoObject
  BY NilFacts DEF FilesOK, StoreSave, VariantsStay, FilesStay

LEMMA RemoveStays ==
  ASSUME FilesOK, NEW b \in Buckets, NEW k \in Key, ~Lasting(k),
         StoreRemove(b, k) \/ UNCHANGED store
  PROVE  /\ VariantsStay(store, store')
         /\ \A m \in Medias : FilesStay(m, store, store')
<1>1. k.kind # "variant"
  BY DEF Lasting
<1>2. \A c \in Buckets, j \in Key :
        store'[c][j] = store[c][j] \/ (c = b /\ j = k)
  BY DEF StoreRemove, FilesOK
<1> QED
  BY <1>1, <1>2 DEF VariantsStay, FilesStay

LEMMA SameStays ==
  ASSUME UNCHANGED store
  PROVE  /\ VariantsStay(store, store')
         /\ \A m \in Medias : FilesStay(m, store, store')
  BY DEF VariantsStay, FilesStay

LEMMA ListedStep ==
  ASSUME IInv, AllListed, NEW w \in Workers, NEW s,
         wk' = [wk EXCEPT ![w] = s],
         Listed(s, store'), VariantsStay(store, store')
  PROVE  AllListed'
<1> SUFFICES ASSUME NEW v \in Workers PROVE Listed(wk'[v], store')
  BY DEF AllListed
<1>1. CASE v = w
  BY <1>1 DEF IInv, WorkersOK
<1>2. CASE v # w
  <2>1. wk'[v] = wk[v] /\ Listed(wk[v], store)
    BY <1>2 DEF IInv, WorkersOK, AllListed
  <2>2. ASSUME wk[v].pc = "stat_variant"
        PROVE  store'[wk[v].media.bucket]
                     [VariantKey(wk[v].task.media, TargetWidths[wk[v].i])] # NoObject
    <3>1. /\ wk[v].media.bucket \in Buckets
          /\ WidthKey(v) \in Key
          /\ WidthKey(v).kind = "variant"
          /\ WidthKey(v) = VariantKey(wk[v].task.media, TargetWidths[wk[v].i])
      BY <2>2, AtWork, WidthFacts DEF WidthKey, Media, Target
    <3> QED
      BY <2>1, <2>2, <3>1 DEF Listed, VariantsStay
  <2> QED
    BY <2>1, <2>2 DEF Listed
<1> QED
  BY <1>1, <1>2

\* The original a resize worker reads is a converted file: nobody removes it.
LEMMA ResizeOriginal ==
  ASSUME IInv, NEW w \in Workers, wk[w].pc \in ResizePC
  PROVE  /\ wk[w].media.key \in Key
         /\ wk[w].media.key.kind = "file"
         /\ wk[w].media.key.media = Media(w)
         /\ Lasting(wk[w].media.key)
         /\ wk[w].media.bucket \in Buckets
         /\ Original(w) # NoObject
<1>1. wk[w].pc # "idle"
  BY DEF ResizePC
<1>2. wk[w].media.optimised /\ CopyOf(Media(w), wk[w].media, db, store)
  BY <1>1, AtWork DEF Local
<1>3. Converted(wk[w].media.mime)
  BY <1>2 DEF CopyOf
<1>4. Original(w) # NoObject
  BY <1>2, <1>3 DEF CopyOf, Original, Here
<1> QED
  BY <1>1, <1>2, <1>3, <1>4, AtWork, CopyKey

LEMMA WorksStays ==
  ASSUME IInv, NEW w \in Workers, NEW m \in Medias, Works(wk[w], m, store),
         FilesStay(m, store, store')
  PROVE  Works(wk[w], m, store')
<1>1. CASE wk[w].pc \in Finishing
  BY <1>1 DEF Works
<1>2. CASE wk[w].pc \in ResizePC
  <2>1. store'[wk[w].media.bucket][wk[w].media.key]
          = store[wk[w].media.bucket][wk[w].media.key]
    BY <1>2, ResizeOriginal DEF FilesStay, Works, Media
  <2> QED
    BY <2>1 DEF Works, Readable
<1> QED
  BY <1>1, <1>2 DEF Works

LEMMA DueStep ==
  ASSUME IInv, NEW m \in Medias, Due(m), NEW w \in Workers, NEW s,
         wk' = [wk EXCEPT ![w] = s],
         TasksStay, FilesStay(m, store, store'),
         Works(wk[w], m, store) => Works(s, m, store') \/ tasks'[ResizeTask(m)] > 0
  PROVE  Due(m)'
<1>1. CASE tasks[ResizeTask(m)] > 0
  BY <1>1, ResizeTaskFacts DEF TasksStay, Due
<1>2. ASSUME NEW v \in Workers, Works(wk[v], m, store), ~(tasks'[ResizeTask(m)] > 0)
      PROVE  Due(m)'
  <2>1. CASE v = w
    <3>1. wk'[w] = s /\ Works(s, m, store')
      BY <1>2, <2>1 DEF IInv, WorkersOK
    <3> QED
      BY <3>1 DEF Due
  <2>2. CASE v # w
    <3>1. wk'[v] = wk[v] /\ Works(wk[v], m, store')
      BY <1>2, <2>2, WorksStays DEF IInv, WorkersOK
    <3> QED
      BY <3>1 DEF Due
  <2> QED
    BY <2>1, <2>2
<1>3. CASE tasks'[ResizeTask(m)] > 0
  BY <1>3 DEF Due
<1> QED
  BY <1>1, <1>2, <1>3 DEF Due

LEMMA OwedSame ==
  ASSUME NEW m \in Medias, db'[m] = db[m], Owed(m)'
  PROVE  Owed(m)
  BY DEF Owed

\* A step that changes no row.
LEMMA QuietStep ==
  ASSUME IInv, AllListed, NothingForgotten, UNCHANGED db,
         NEW w \in Workers, NEW s, wk' = [wk EXCEPT ![w] = s],
         Listed(s, store'), VariantsStay(store, store'), TasksStay,
         \A m \in Medias : FilesStay(m, store, store'),
         \A m \in Medias : Owed(m) /\ Works(wk[w], m, store) =>
           Works(s, m, store') \/ tasks'[ResizeTask(m)] > 0
  PROVE  AllListed' /\ NothingForgotten'
<1>1. AllListed'
  BY ListedStep
<1>2. ASSUME NEW m \in Medias, Owed(m)' PROVE Due(m)'
  <2>1. Owed(m) /\ Due(m)
    BY <1>2, OwedSame DEF NothingForgotten
  <2> QED
    BY <2>1, DueStep
<1> QED
  BY <1>1, <1>2 DEF NothingForgotten

-----------------------------------------------------------------------------
(* The steps of an optimise task *)

\* The steps before the copy, where nothing is promised yet.
LEMMA EarlySteps ==
  ASSUME IInv, AllListed, NothingForgotten,
         NEW w \in Workers, OpenOriginal(w) \/ SaveTemp(w)
  PROVE  AllListed' /\ NothingForgotten'
<1>1. /\ wk[w].pc \in {"open", "save_temp"}
      /\ wk[w].pc # "idle"
      /\ wk[w] \in WorkerState
      /\ UNCHANGED db
      /\ FilesOK /\ QueueOK
  BY DEF OpenOriginal, SaveTemp, IInv, WorkersOK
<1>2. PICK s : /\ wk' = [wk EXCEPT ![w] = s]
               /\ s.pc \notin ResizePC
  <2>1. CASE Fail(w)
    <3>1. wk' = [wk EXCEPT ![w] = IdleWorker]
      BY <2>1 DEF Fail
    <3>2. IdleWorker.pc \notin ResizePC
      BY DEF IdleWorker, ResizePC
    <3> QED
      BY <3>1, <3>2
  <2>2. CASE OpenOriginal(w) /\ ~Fail(w)
    <3> DEFINE s == [wk[w] EXCEPT !.pc = "save_temp", !.blob = Original(w).blob]
    <3>1. wk' = [wk EXCEPT ![w] = s]
      BY <2>2 DEF OpenOriginal
    <3>2. s.pc \notin ResizePC
      BY <1>1 DEF WorkerState, ResizePC
    <3> HIDE DEF s
    <3> QED
      BY <3>1, <3>2
  <2>3. CASE SaveTemp(w) /\ ~Fail(w)
    <3> DEFINE s == [wk[w] EXCEPT !.pc = "copy_temp"]
    <3>1. wk' = [wk EXCEPT ![w] = s]
      BY <2>3 DEF SaveTemp, Goto
    <3>2. s.pc \notin ResizePC
      BY <1>1 DEF WorkerState, ResizePC
    <3> HIDE DEF s
    <3> QED
      BY <3>1, <3>2
  <2> QED
    BY <2>1, <2>2, <2>3
<1>3. Listed(s, store')
  BY <1>2 DEF Listed, ResizePC
<1>4. TasksStay
  <2>1. wk[w].task \in Task
    BY <1>1, AtWork
  <2> QED
    BY <1>1, <2>1, Growing DEF OpenOriginal, SaveTemp, Fail, Requeue
<1>5. /\ VariantsStay(store, store')
      /\ \A m \in Medias : FilesStay(m, store, store')
  <2>1. CASE UNCHANGED store
    BY <2>1, SameStays
  <2>2. CASE ~UNCHANGED store
    <3> DEFINE o == [type |-> NewMimeType(w), blob |-> Packed[wk[w].blob]]
    <3>1. StoreSave(wk[w].media.bucket, Temp(w), o) /\ wk[w].pc = "save_temp"
      BY <2>2 DEF OpenOriginal, SaveTemp
    <3>2. o \in Object
      BY <1>1, <3>1, AtWork, NewKeyFacts, PipelineAssumption
      DEF Object, Local, WorkerState
    <3> HIDE DEF o
    <3> QED
      BY <1>1, <3>1, <3>2, AtWork, TempFacts, SaveStays
  <2> QED
    BY <2>1, <2>2
<1>6. \A m \in Medias : ~Works(wk[w], m, store)
  BY <1>1 DEF Works, Finishing, ResizePC
<1> QED
  BY <1>1, <1>2, <1>3, <1>4, <1>5, <1>6, QuietStep

\* The copy replaces what the resize workers of the media were reading; from then
\* on this worker owes the media its variants.
LEMMA CopyTempQuiet ==
  ASSUME IInv, AllListed, NothingForgotten, NEW w \in Workers, CopyTemp(w)
  PROVE  AllListed' /\ NothingForgotten'
<1>1. /\ wk[w].pc = "copy_temp"
      /\ wk[w].pc # "idle"
      /\ wk[w] \in WorkerState
      /\ UNCHANGED db
      /\ FilesOK /\ QueueOK
  BY DEF CopyTemp, IInv, WorkersOK
<1>2. TasksStay
  <2>1. wk[w].task \in Task
    BY <1>1, AtWork
  <2> QED
    BY <1>1, <2>1, Growing DEF CopyTemp, Fail, Requeue
<1>3. \A m \in Medias : ~Works(wk[w], m, store)
  BY <1>1 DEF Works, Finishing, ResizePC
<1>4. CASE Fail(w) /\ UNCHANGED store
  <2>1. wk' = [wk EXCEPT ![w] = IdleWorker] /\ Listed(IdleWorker, store')
    BY <1>4 DEF Fail, IdleWorker, Listed, ResizePC
  <2> QED
    BY <1>1, <1>2, <1>3, <1>4, <2>1, SameStays, QuietStep
<1>5. CASE ~(Fail(w) /\ UNCHANGED store)
  <2> DEFINE s == [wk[w] EXCEPT !.pc = "remove_temp"]
  <2>1. /\ Here(w, Temp(w)) # NoObject
        /\ StoreSave(wk[w].media.bucket, NewKey(w), Here(w, Temp(w)))
        /\ wk' = [wk EXCEPT ![w] = s]
    BY <1>5 DEF CopyTemp, Goto
  <2>2. Here(w, Temp(w)) \in Object
    BY <1>1, <2>1, TempFacts, FileFacts
  <2>3. /\ VariantsStay(store, store')
        /\ \A m \in Medias \ {Media(w)} : FilesStay(m, store, store')
    BY <1>1, <2>1, <2>2, AtWork, NewKeyFacts, SaveStays
  <2>4. s.pc = "remove_temp" /\ s.task.media = Media(w)
    BY <1>1 DEF WorkerState, Media
  <2> HIDE DEF s
  <2>5. AllListed'
    BY <2>1, <2>3, <2>4, ListedStep DEF Listed, ResizePC
  <2>6. PICK n \in Medias : n = Media(w)
    BY <1>1, AtWork
  <2>7. Due(n)'
    <3>1. wk'[w] = s
      BY <2>1 DEF IInv, WorkersOK
    <3>2. Works(s, n, store')
      BY <2>4, <2>6 DEF Works, Finishing
    <3> QED
      BY <3>1, <3>2 DEF Due
  <2>8. ASSUME NEW m \in Medias, m # n, Owed(m)' PROVE Due(m)'
    <3>1. Due(m)
      BY <1>1, <2>8, OwedSame DEF NothingForgotten
    <3> QED
      BY <1>2, <1>3, <2>1, <2>3, <2>6, <2>8, <3>1, DueStep
  <2>9. NothingForgotten'
    BY <2>7, <2>8 DEF NothingForgotten
  <2> QED
    BY <2>5, <2>9
<1> QED
  BY <1>4, <1>5

\* Without failing calls, the steps after the copy succeed.
LEMMA StatSucceeds ==
  ASSUME Faults = {}, IInv, NEW w \in Workers, StatNew(w)
  PROVE  \E s : /\ wk' = [wk EXCEPT ![w] = s]
                /\ s.pc = "update"
                /\ s.task = wk[w].task
                /\ UNCHANGED tasks
<1>1. wk[w].pc = "stat" /\ wk[w].pc # "idle"
  BY DEF StatNew
<1> DEFINE s == [wk[w] EXCEPT !.pc = "update",
                              !.size = Size[Here(w, NewKey(w)).blob]]
<1>2. Here(w, NewKey(w)) # NoObject
  <2>1. CASE Converted(wk[w].media.mime)
    BY <1>1, <2>1, AtWork, NewKeyFacts DEF CopyOf, Here
  <2>2. CASE ~Converted(wk[w].media.mime)
    BY <1>1, <2>2, AtWork, NewKeyFacts DEF Local, Media, Here
  <2> QED
    BY <2>1, <2>2
<1>3. wk' = [wk EXCEPT ![w] = s] /\ UNCHANGED tasks
  BY <1>2 DEF StatNew
<1>4. s.pc = "update" /\ s.task = wk[w].task
  BY <1>1, AtWork DEF WorkerState
<1> HIDE DEF s
<1> QED
  BY <1>3, <1>4

LEMMA LateSteps ==
  ASSUME Faults = {}, IInv, AllListed, NothingForgotten,
         NEW w \in Workers, RemoveTemp(w) \/ RemoveOld(w) \/ StatNew(w)
  PROVE  AllListed' /\ NothingForgotten'
<1>1. /\ wk[w].pc \in {"remove_temp", "remove_old", "stat"}
      /\ wk[w].pc # "idle"
      /\ wk[w] \in WorkerState
      /\ UNCHANGED db
      /\ FilesOK /\ QueueOK
  BY DEF RemoveTemp, RemoveOld, StatNew, IInv, WorkersOK
<1>2. PICK s : /\ wk' = [wk EXCEPT ![w] = s]
               /\ s.pc \in {"remove_old", "stat", "update"}
               /\ s.task = wk[w].task
               /\ UNCHANGED tasks
  <2>1. CASE RemoveTemp(w) \/ RemoveOld(w)
    <3>1. PICK pc \in {"remove_old", "stat"} : Goto(w, pc)
      BY <2>1 DEF RemoveTemp, RemoveOld
    <3> DEFINE s == [wk[w] EXCEPT !.pc = pc]
    <3>2. wk' = [wk EXCEPT ![w] = s] /\ UNCHANGED tasks
      BY <2>1, <3>1 DEF Goto, RemoveTemp, RemoveOld
    <3>3. s.pc = pc /\ s.task = wk[w].task
      BY <1>1 DEF WorkerState
    <3> HIDE DEF s
    <3> QED
      BY <3>2, <3>3
  <2>2. CASE StatNew(w)
    BY <2>2, StatSucceeds
  <2> QED
    BY <2>1, <2>2
<1>3. Listed(s, store')
  BY <1>2 DEF Listed, ResizePC
<1>4. TasksStay
  BY <1>2 DEF TasksStay
<1>5. /\ VariantsStay(store, store')
      /\ \A m \in Medias : FilesStay(m, store, store')
  <2>1. CASE RemoveTemp(w)
    BY <1>1, <2>1, AtWork, TempFacts, RemoveStays DEF RemoveTemp
  <2>2. CASE RemoveOld(w)
    <3>1. ~Converted(wk[w].media.mime)
      BY <1>1, <2>2, AtWork DEF Local, RemoveOld
    <3>2. wk[w].media.key \in Key /\ ~Lasting(wk[w].media.key)
      BY <1>1, <3>1, AtWork, CopyKey
    <3> QED
      BY <1>1, <2>2, <3>2, AtWork, RemoveStays DEF RemoveOld
  <2>3. CASE StatNew(w)
    BY <2>3, SameStays DEF StatNew
  <2> QED
    BY <2>1, <2>2, <2>3
<1>6. \A m \in Medias : Works(wk[w], m, store) => Works(s, m, store')
  BY <1>2 DEF Works, Finishing
<1> QED
  BY <1>1, <1>2, <1>3, <1>4, <1>5, <1>6, QuietStep

LEMMA EnqueueQuiet ==
  ASSUME Faults = {}, IInv, AllListed, NothingForgotten,
         NEW w \in Workers, EnqueueResizeImage(w)
  PROVE  AllListed' /\ NothingForgotten'
<1>1. /\ wk[w].pc = "enqueue"
      /\ wk[w].pc # "idle"
      /\ wk[w] \in WorkerState
      /\ UNCHANGED <<db, store>>
      /\ QueueOK
      /\ Enqueue(ResizeTask(Media(w)))
  BY DEF EnqueueResizeImage, IInv, WorkersOK
<1> DEFINE s == [wk[w] EXCEPT !.pc = "uncache"]
<1>2. wk' = [wk EXCEPT ![w] = s] /\ s.pc = "uncache"
  BY <1>1 DEF EnqueueResizeImage, Goto, WorkerState
<1> HIDE DEF s
<1>3. PICK n \in Medias : n = Media(w)
  BY <1>1, AtWork
<1>4. TasksStay /\ tasks'[ResizeTask(n)] > 0
  <2>1. PICK t \in Task : t = ResizeTask(n)
    BY ResizeTaskFacts
  <2>2. tasks' = [tasks EXCEPT ![t] = @ + 1]
    BY <1>1, <1>3, <2>1 DEF Enqueue
  <2>3. tasks'[t] > 0
    BY <1>1, <2>2 DEF QueueOK
  <2> QED
    BY <1>1, <2>1, <2>2, <2>3, Growing
<1>5. ASSUME NEW m \in Medias, Works(wk[w], m, store) PROVE tasks'[ResizeTask(m)] > 0
  BY <1>3, <1>4, <1>5 DEF Works, Media
<1>6. Listed(s, store')
  BY <1>2 DEF Listed, ResizePC
<1> QED
  BY <1>1, <1>2, <1>4, <1>5, <1>6, SameStays, QuietStep

\* The row of the conversion, which may list fewer variants than the row had.
LEMMA UpdateOptimisedQuiet ==
  ASSUME Faults = {}, IInv, AllListed, NothingForgotten,
         NEW w \in Workers, UpdateOptimised(w)
  PROVE  AllListed' /\ NothingForgotten'
<1>1. /\ wk[w].pc = "update"
      /\ wk[w].pc # "idle"
      /\ wk[w] \in WorkerState
      /\ UNCHANGED <<store, tasks>>
      /\ RepoUpdate(Media(w), OptimisedRow(w))
  BY DEF UpdateOptimised, IInv, WorkersOK
<1>2. PICK pc \in {"enqueue", "uncache"} :
        /\ Goto(w, pc)
        /\ IsImage(NewMimeType(w)) => pc = "enqueue"
  BY DEF UpdateOptimised
<1> DEFINE s == [wk[w] EXCEPT !.pc = pc]
<1>3. /\ wk' = [wk EXCEPT ![w] = s]
      /\ s.pc = pc
      /\ s.task = wk[w].task
  BY <1>1, <1>2 DEF Goto, WorkerState
<1> HIDE DEF s
<1>4. PICK n \in Medias : n = Media(w)
  BY <1>1, AtWork
<1>5. PICK row \in Row : /\ row = OptimisedRow(w)
                         /\ row.mime = NewMimeType(w)
  <2>1. OptimisedRow(w) \in Row
    BY <1>1, <1>4, OptimisedCopy, CopyKey
  <2>2. OptimisedRow(w).mime = NewMimeType(w)
    BY <1>1, AtWork DEF OptimisedRow, Row
  <2> QED
    BY <2>1, <2>2
<1>6. db' = [db EXCEPT ![n] = row]
  BY <1>1, <1>4, <1>5, OptimisedCopy, UpdateStep DEF IInv
<1>7. db'[n] = row /\ \A m \in Medias \ {n} : db'[m] = db[m]
  BY <1>6 DEF IInv, RowsOK
<1>8. AllListed'
  BY <1>1, <1>3, SameStays, ListedStep DEF Listed, ResizePC
<1>9. ASSUME Owed(n)' PROVE Due(n)'
  <2>1. pc = "enqueue"
    BY <1>2, <1>5, <1>7, <1>9 DEF Owed
  <2>2. wk'[w] = s /\ Works(s, n, store')
    BY <1>3, <1>4, <2>1 DEF IInv, WorkersOK, Works, Finishing, Media
  <2> QED
    BY <2>2 DEF Due
<1>10. ASSUME NEW m \in Medias, m # n, Owed(m)' PROVE Due(m)'
  <2>1. Due(m)
    BY <1>7, <1>10, OwedSame DEF NothingForgotten
  <2>2. ~Works(wk[w], m, store)
    BY <1>4, <1>10 DEF Works, Media
  <2>3. TasksStay
    BY <1>1 DEF TasksStay
  <2> QED
    BY <1>1, <1>3, <2>1, <2>2, <2>3, SameStays, DueStep
<1> QED
  BY <1>8, <1>9, <1>10 DEF NothingForgotten

-----------------------------------------------------------------------------
(* The steps of a resize task *)

\* Reading succeeds as long as nobody replaced the original.
LEMMA MakeVariantQuiet ==
  ASSUME Faults = {}, IInv, AllListed, NothingForgotten,
         NEW w \in Workers, MakeVariant(w)
  PROVE  AllListed' /\ NothingForgotten'
<1>1. /\ wk[w].pc = "variant"
      /\ wk[w].pc # "idle"
      /\ wk[w].pc \in ResizePC
      /\ wk[w] \in WorkerState
      /\ UNCHANGED db
      /\ FilesOK /\ QueueOK
  BY DEF MakeVariant, IInv, WorkersOK, ResizePC
<1>2. Original(w) # NoObject /\ Listed(wk[w], store)
  BY <1>1, ResizeOriginal DEF AllListed
<1>3. CASE Fail(w) /\ UNCHANGED store
  <2>1. wk' = [wk EXCEPT ![w] = IdleWorker] /\ Listed(IdleWorker, store')
    BY <1>3 DEF Fail, IdleWorker, Listed, ResizePC
  <2>2. TasksStay
    <3>1. wk[w].task \in Task
      BY <1>1, AtWork
    <3> QED
      BY <1>1, <1>3, <3>1, Growing DEF Fail, Requeue
  <2>3. ~Readable(wk[w], store)
    <3>1. wk[w].blob \notin {Nil, Original(w).blob}
      <4>1. wk'[w].pc = "idle"
        BY <2>1 DEF IInv, WorkersOK, IdleWorker
      <4>2. ~Goto(w, "stat_variant")
        BY <1>1, <4>1 DEF Goto, IInv, WorkersOK, WorkerState
      <4>3. wk' # [wk EXCEPT ![w].pc = "save_variant", ![w].blob = Original(w).blob]
        BY <1>1, <4>1 DEF IInv, WorkersOK, WorkerState
      <4> QED
        BY <1>2, <4>2, <4>3 DEF MakeVariant
    <3> QED
      BY <3>1 DEF Readable, Original, Here
  <2>4. \A m \in Medias : ~Works(wk[w], m, store)
    BY <1>1, <2>3 DEF Works, Finishing
  <2> QED
    BY <1>1, <1>3, <2>1, <2>2, <2>4, SameStays, QuietStep
<1>4. CASE /\ wk' = [wk EXCEPT ![w].pc = "save_variant",
                               ![w].blob = Original(w).blob]
           /\ UNCHANGED <<store, tasks>>
  <2> DEFINE s == [wk[w] EXCEPT !.pc = "save_variant", !.blob = Original(w).blob]
  <2>1. /\ wk' = [wk EXCEPT ![w] = s]
        /\ s.pc = "save_variant"
        /\ s.blob = Original(w).blob
        /\ s.task = wk[w].task
        /\ s.media = wk[w].media
        /\ s.i = wk[w].i
    BY <1>1, <1>4 DEF WorkerState
  <2> HIDE DEF s
  <2>2. Readable(s, store)
    BY <2>1 DEF Readable, Original, Here
  <2>3. Listed(s, store')
    BY <1>1, <1>2, <2>1 DEF Listed
  <2>4. \A m \in Medias : Works(wk[w], m, store) => Works(s, m, store')
    BY <1>1, <1>4, <2>1, <2>2 DEF Works, ResizePC
  <2>5. TasksStay
    BY <1>4 DEF TasksStay
  <2> QED
    BY <1>1, <1>4, <2>1, <2>3, <2>4, <2>5, SameStays, QuietStep
<1>5. CASE /\ StoreSave(wk[w].media.bucket, WidthKey(w), Original(w))
           /\ Goto(w, "stat_variant")
           /\ UNCHANGED tasks
  <2> DEFINE s == [wk[w] EXCEPT !.pc = "stat_variant"]
  <2>1. /\ wk' = [wk EXCEPT ![w] = s]
        /\ s.pc = "stat_variant"
        /\ s.blob = wk[w].blob
        /\ s.task = wk[w].task
        /\ s.media = wk[w].media
        /\ s.i = wk[w].i
    BY <1>1, <1>5 DEF WorkerState, Goto
  <2> HIDE DEF s
  <2>2. Original(w) \in Object
    BY <1>1, <1>2, ResizeOriginal, FileFacts DEF Original
  <2>3. /\ VariantsStay(store, store')
        /\ \A m \in Medias : FilesStay(m, store, store')
        /\ store'[wk[w].media.bucket][WidthKey(w)] # NoObject
    BY <1>1, <1>5, <2>2, AtWork, WidthFacts, SaveStays
  <2>4. Listed(s, store')
    BY <1>1, <1>2, <2>1, <2>3 DEF Listed, WidthKey, Media, Target
  <2>5. \A m \in Medias : Works(wk[w], m, store) => Works(s, m, store')
    <3>1. \A m \in Medias : Works(wk[w], m, store) => Works(wk[w], m, store')
      BY <2>3, WorksStays
    <3> QED
      BY <1>1, <2>1, <3>1 DEF Works, Finishing, ResizePC, Readable
  <2>6. TasksStay
    BY <1>5 DEF TasksStay
  <2> QED
    BY <1>1, <2>1, <2>3, <2>4, <2>5, <2>6, QuietStep
<1> QED
  BY <1>3, <1>4, <1>5 DEF MakeVariant

\* Encoding only fails on an image that is too flat.
LEMMA SaveVariantQuiet ==
  ASSUME Faults = {}, IInv, AllListed, NothingForgotten,
         NEW w \in Workers, SaveVariant(w)
  PROVE  AllListed' /\ NothingForgotten'
<1>1. /\ wk[w].pc = "save_variant"
      /\ wk[w].pc # "idle"
      /\ wk[w].pc \in ResizePC
      /\ wk[w] \in WorkerState
      /\ UNCHANGED db
      /\ FilesOK /\ QueueOK
      /\ Listed(wk[w], store)
  BY DEF SaveVariant, IInv, WorkersOK, ResizePC, AllListed
<1>2. CASE Fail(w) /\ UNCHANGED store
  <2>1. wk' = [wk EXCEPT ![w] = IdleWorker] /\ Listed(IdleWorker, store')
    BY <1>2 DEF Fail, IdleWorker, Listed, ResizePC
  <2>2. TasksStay
    <3>1. wk[w].task \in Task
      BY <1>1, AtWork
    <3> QED
      BY <1>1, <1>2, <3>1, Growing DEF Fail, Requeue
  <2>3. VariantHeight(w) = 0
    <3>1. wk'[w].pc = "idle"
      BY <2>1 DEF IInv, WorkersOK, IdleWorker
    <3>2. ~Goto(w, "stat_variant")
      BY <1>1, <3>1 DEF Goto, IInv, WorkersOK, WorkerState
    <3> QED
      BY <3>2 DEF SaveVariant
  <2>4. TooFlat(wk[w].media.meta)
    <3>1. PICK t \in Nat \ {0}, fw \in Nat \ {0}, fh \in Nat \ {0} :
            t = Target(w) /\ fw = FullWidth(w) /\ fh = FullHeight(w)
      BY <1>1, WidthFacts
    <3>2. t < fw
      BY <1>1, <3>1, AtWork DEF Local, Target, FullWidth
    <3>3. PICK a \in Nat : a = fh * t
      OBVIOUS
    <3>4. a \div fw = 0
      BY <2>3, <3>1, <3>2, <3>3 DEF VariantHeight, Shrinks
    <3>5. a < fw
      <4>1. PICK q : q = a \div fw
        OBVIOUS
      <4>2. q = 0 /\ a < (q + 1) * fw
        BY <3>4, <4>1, DivFacts
      <4> QED
        BY <4>2
    <3>6. wk[w].i \in 1..Len(TargetWidths)
      BY <1>1, WidthFacts
    <3> QED
      BY <3>1, <3>3, <3>5, <3>6 DEF TooFlat, Target, FullWidth, FullHeight
  <2>5. ASSUME NEW m \in Medias, Works(wk[w], m, store) PROVE ~Owed(m)
    <3>1. m = Media(w)
      BY <2>5 DEF Works, Media
    <3>2. wk[w].media.meta = db[m].meta
      BY <1>1, <3>1, AtWork
    <3> QED
      BY <2>4, <3>2 DEF Owed
  <2> QED
    BY <1>1, <1>2, <2>1, <2>2, <2>5, SameStays, QuietStep
<1>3. CASE ~(Fail(w) /\ UNCHANGED store)
  <2> DEFINE s == [wk[w] EXCEPT !.pc = "stat_variant"]
             o == [type |-> "image/webp", blob |-> Shrunk[wk[w].blob]]
  <2>1. StoreSave(wk[w].media.bucket, WidthKey(w), o) /\ UNCHANGED tasks
    BY <1>3 DEF SaveVariant
  <2>2. /\ wk' = [wk EXCEPT ![w] = s]
        /\ s.pc = "stat_variant"
        /\ s.blob = wk[w].blob
        /\ s.task = wk[w].task
        /\ s.media = wk[w].media
        /\ s.i = wk[w].i
    BY <1>1, <1>3 DEF WorkerState, Goto, SaveVariant
  <2>3. o \in Object
    BY <1>1, AtWork, WebpFacts, MimeFacts, PipelineAssumption
    DEF Object, Local, WorkerState
  <2> HIDE DEF s, o
  <2>4. /\ VariantsStay(store, store')
        /\ \A m \in Medias : FilesStay(m, store, store')
        /\ store'[wk[w].media.bucket][WidthKey(w)] # NoObject
    BY <1>1, <2>1, <2>3, AtWork, WidthFacts, SaveStays
  <2>5. Listed(s, store')
    BY <1>1, <2>2, <2>4 DEF Listed, WidthKey, Media, Target
  <2>6. \A m \in Medias : Works(wk[w], m, store) => Works(s, m, store')
    <3>1. \A m \in Medias : Works(wk[w], m, store) => Works(wk[w], m, store')
      BY <2>4, WorksStays
    <3> QED
      BY <1>1, <2>2, <3>1 DEF Works, Finishing, ResizePC, Readable
  <2>7. TasksStay
    BY <2>1 DEF TasksStay
  <2> QED
    BY <1>1, <2>2, <2>4, <2>5, <2>6, <2>7, QuietStep
<1> QED
  BY <1>2, <1>3

LEMMA AppendedWidths ==
  ASSUME NEW m, NEW list \in Seq(Variant), NEW v \in Variant,
         NEW j \in 1..Len(TargetWidths),
         HasWidth(m, list, j) \/ v.key = VariantKey(m, TargetWidths[j])
  PROVE  HasWidth(m, Append(list, v), j)
<1>1. /\ Len(Append(list, v)) = Len(list) + 1
      /\ Append(list, v)[Len(list) + 1] = v
      /\ \A k \in 1..Len(list) : Append(list, v)[k] = list[k]
  OBVIOUS
<1>2. Len(list) \in Nat
  OBVIOUS
<1>3. CASE HasWidth(m, list, j)
  <2>1. PICK k \in 1..Len(list) : list[k].key = VariantKey(m, TargetWidths[j])
    BY <1>3 DEF HasWidth
  <2>2. k \in 1..Len(Append(list, v)) /\ Append(list, v)[k] = list[k]
    BY <1>1, <1>2
  <2> QED
    BY <2>1, <2>2 DEF HasWidth
<1>4. CASE v.key = VariantKey(m, TargetWidths[j])
  <2>1. Len(list) + 1 \in 1..Len(Append(list, v))
    BY <1>1, <1>2
  <2> QED
    BY <1>1, <1>4, <2>1 DEF HasWidth
<1> QED
  BY <1>3, <1>4

LEMMA StatVariantQuiet ==
  ASSUME Faults = {}, IInv, AllListed, NothingForgotten,
         NEW w \in Workers, StatVariant(w)
  PROVE  AllListed' /\ NothingForgotten'
<1>1. /\ wk[w].pc = "stat_variant"
      /\ wk[w].pc # "idle"
      /\ wk[w].pc \in ResizePC
      /\ wk[w] \in WorkerState
      /\ UNCHANGED <<db, store>>
      /\ FilesOK /\ QueueOK
      /\ Listed(wk[w], store)
  BY DEF StatVariant, IInv, WorkersOK, ResizePC, AllListed
<1>2. Here(w, WidthKey(w)) # NoObject
  BY <1>1 DEF Listed, Here, WidthKey, Media, Target
<1> DEFINE v == [key    |-> WidthKey(w),
                 size   |-> Size[Here(w, WidthKey(w)).blob],
                 width  |-> VariantWidth(w),
                 height |-> VariantHeight(w)]
           pc == IF wk[w].i = Len(TargetWidths) THEN "update_variants"
                 ELSE "variant"
<1>3. /\ v \in Variant
      /\ v.key = VariantKey(wk[w].task.media, TargetWidths[wk[w].i])
  <2>1. Size[Here(w, WidthKey(w)).blob] \in Nat
    BY <1>1, <1>2, WidthFacts, FileFacts, BlobsAssumption
  <2>2. v \in Variant
    <3>1. v.width = VariantWidth(w) /\ v.height = VariantHeight(w) /\ v.key = WidthKey(w)
      OBVIOUS
    <3>2. VariantWidth(w) \in Nat /\ VariantHeight(w) \in Nat
      BY <1>1, <3>1, VariantFits
    <3> QED
      BY <1>1, <2>1, <3>2, WidthFacts DEF Variant
  <2> QED
    BY <2>2 DEF WidthKey, Media, Target
<1>4. /\ wk' = [wk EXCEPT ![w].pc = pc, ![w].i = @ + 1,
                          ![w].media.variants = Append(@, v)]
      /\ UNCHANGED tasks
  BY <1>2 DEF StatVariant
<1>5. /\ pc \in {"update_variants", "variant"}
      /\ pc = "update_variants" => wk[w].i = Len(TargetWidths)
  OBVIOUS
<1> HIDE DEF v, pc
<1>6. wk[w].media \in Row /\ wk[w].media.variants \in Seq(Variant)
  BY <1>1, AtWork DEF Row
<1>7. PICK list \in Seq(Variant) : list = wk[w].media.variants
  BY <1>6
<1>8. PICK list2 : list2 = Append(list, v)
  OBVIOUS
<1>9. PICK row : row = [wk[w].media EXCEPT !.variants = list2]
  OBVIOUS
<1>10. row.variants = list2 /\ row.bucket = wk[w].media.bucket
       /\ row.key = wk[w].media.key
  BY <1>6, <1>9 DEF Row
<1> DEFINE s == [wk[w] EXCEPT !.pc = pc, !.i = @ + 1, !.media = row]
<1>11. wk' = [wk EXCEPT ![w] = s]
  BY <1>1, <1>4, <1>6, <1>7, <1>8, <1>9 DEF IInv, WorkersOK, WorkerState
<1>12. /\ s.pc = pc
       /\ s.i = wk[w].i + 1
       /\ s.media = row
       /\ s.task = wk[w].task
       /\ s.blob = wk[w].blob
  BY <1>1 DEF WorkerState
<1> HIDE DEF s
<1>13. Listed(s, store')
  <2>1. wk[w].i \in 1..Len(TargetWidths) /\ Len(TargetWidths) \in Nat
    BY <1>1, WidthFacts, PipelineAssumption
  <2>2. ASSUME NEW j \in 1..Len(TargetWidths),
               j < s.i \/ s.pc = "update_variants"
        PROVE  HasWidth(s.task.media, list2, j)
    <3>1. PICK m : m = s.task.media
      OBVIOUS
    <3>2. j < wk[w].i \/ j = wk[w].i
      BY <1>5, <1>12, <2>1, <2>2
    <3>3. CASE j < wk[w].i
      <4>1. HasWidth(m, list, j)
        BY <1>1, <1>7, <1>12, <3>1, <3>3 DEF Listed
      <4> QED
        BY <1>3, <1>8, <3>1, <4>1, AppendedWidths
    <3>4. CASE j = wk[w].i
      <4>1. v.key = VariantKey(m, TargetWidths[j])
        BY <1>3, <1>12, <3>1, <3>4
      <4> QED
        BY <1>3, <1>8, <3>1, <4>1, AppendedWidths
    <3> QED
      BY <3>2, <3>3, <3>4
  <2> QED
    BY <1>5, <1>10, <1>12, <2>2 DEF Listed
<1>14. \A m \in Medias : Works(wk[w], m, store) => Works(s, m, store')
  BY <1>1, <1>5, <1>10, <1>12 DEF Works, Finishing, ResizePC, Readable
<1>15. TasksStay
  BY <1>4 DEF TasksStay
<1> QED
  BY <1>1, <1>11, <1>13, <1>14, <1>15, SameStays, QuietStep

\* What the resize task writes is complete.
LEMMA UpdateVariantsQuiet ==
  ASSUME Faults = {}, IInv, AllListed, NothingForgotten,
         NEW w \in Workers, UpdateVariants(w)
  PROVE  AllListed' /\ NothingForgotten'
<1>1. /\ wk[w].pc = "update_variants"
      /\ wk[w].pc # "idle"
      /\ wk[w].pc \in ResizePC
      /\ wk[w] \in WorkerState
      /\ UNCHANGED <<store, tasks>>
      /\ RepoUpdate(Media(w), wk[w].media)
      /\ Listed(wk[w], store)
  BY DEF UpdateVariants, IInv, WorkersOK, ResizePC, AllListed
<1> DEFINE s == [wk[w] EXCEPT !.pc = "uncache"]
<1>2. wk' = [wk EXCEPT ![w] = s] /\ s.pc = "uncache"
  BY <1>1 DEF Goto, WorkerState, UpdateVariants
<1> HIDE DEF s
<1>3. PICK n \in Medias : n = Media(w)
  BY <1>1, AtWork
<1>4. PICK row : row = wk[w].media
  OBVIOUS
<1>5. row \in Row /\ row.optimised /\ CopyOf(n, row, db, store)
  BY <1>1, <1>3, <1>4, AtWork DEF Local
<1>6. db' = [db EXCEPT ![n] = row]
  BY <1>1, <1>3, <1>4, <1>5, UpdateStep DEF IInv
<1>7. db'[n] = row /\ \A m \in Medias \ {n} : db'[m] = db[m]
  BY <1>6 DEF IInv, RowsOK
<1>8. AllListed'
  BY <1>1, <1>2, SameStays, ListedStep DEF Listed, ResizePC
<1>9. ~Owed(n)'
  <2>1. HasVariants(n, row.variants)
    BY <1>1, <1>3, <1>4 DEF Listed, HasVariants, Media
  <2> QED
    BY <1>7, <2>1 DEF Owed
<1>10. ASSUME NEW m \in Medias, m # n, Owed(m)' PROVE Due(m)'
  <2>1. Due(m)
    BY <1>7, <1>10, OwedSame DEF NothingForgotten
  <2>2. ~Works(wk[w], m, store)
    BY <1>3, <1>10 DEF Works, Media
  <2>3. TasksStay
    BY <1>1 DEF TasksStay
  <2> QED
    BY <1>1, <1>2, <2>1, <2>2, <2>3, SameStays, DueStep
<1> QED
  BY <1>8, <1>9, <1>10 DEF NothingForgotten

-----------------------------------------------------------------------------
(* The other steps *)

LEMMA StartQuiet ==
  ASSUME Faults = {}, IInv, AllListed, NothingForgotten,
         NEW w \in Workers, NEW t \in Task, Start(w, t)
  PROVE  AllListed' /\ NothingForgotten'
<1>1. /\ wk[w].pc = "idle"
      /\ UNCHANGED <<db, store>>
      /\ tasks \in [Task -> Nat]
      /\ VariantsStay(store, store')
  BY SameStays DEF Start, IInv, QueueOK
<1>2. ASSUME NEW u \in Task, u # t, tasks[u] > 0 PROVE tasks'[u] > 0
  BY <1>1, <1>2 DEF Start
<1>3. ASSUME NEW m \in Medias, NEW v \in Workers, wk'[v] = wk[v],
             Works(wk[v], m, store)
      PROVE  Due(m)'
  BY <1>1, <1>3 DEF Due
<1>4. ASSUME NEW v \in Workers, NEW m \in Medias, Works(wk[v], m, store)
      PROVE  v # w
  BY <1>1, <1>4 DEF Works
<1>5. CASE Startable(t) /\ ~UNCHANGED wk
  <2> DEFINE s == [IdleWorker EXCEPT
                    !.pc = FirstPC(t), !.task = t, !.media = db[t.media], !.i = 1]
  <2>1. wk' = [wk EXCEPT ![w] = s]
    BY <1>5 DEF Start
  <2>2. /\ s.pc = FirstPC(t) /\ s.task = t /\ s.i = 1
        /\ s.blob = Nil /\ s.media = db[t.media]
    BY DEF IdleWorker
  <2> HIDE DEF s
  <2>3. Listed(s, store')
    <3>1. FirstPC(t) \in ResizePC => FirstPC(t) = "variant" \/ TargetWidths = <<>>
      BY DEF FirstPC, ResizePC
    <3>2. FirstPC(t) \in {"open", "update_variants", "variant"}
      BY DEF FirstPC
    <3>3. TargetWidths = <<>> => 1..Len(TargetWidths) = {}
      OBVIOUS
    <3>4. \A j \in 1..Len(TargetWidths) : ~(j < 1)
      BY PipelineAssumption
    <3>5. FirstPC(t) = "update_variants" => TargetWidths = <<>>
      BY DEF FirstPC
    <3> QED
      BY <2>2, <3>1, <3>2, <3>3, <3>4, <3>5 DEF Listed
  <2>4. AllListed'
    BY <1>1, <2>1, <2>3, ListedStep
  <2>5. ASSUME NEW m \in Medias, Owed(m)' PROVE Due(m)'
    <3>1. Due(m)
      BY <1>1, <2>5, OwedSame DEF NothingForgotten
    <3>2. CASE t = ResizeTask(m)
      <4>1. t.media = m /\ t.kind = "resize"
        BY <3>2, ResizeTaskFacts
      <4>2. FirstPC(t) \in {"variant", "update_variants"}
        BY <4>1 DEF FirstPC
      <4>3. Works(s, m, store')
        BY <2>2, <4>1, <4>2 DEF Works, ResizePC, Readable
      <4>4. wk'[w] = s
        BY <2>1 DEF IInv, WorkersOK
      <4> QED
        BY <4>3, <4>4 DEF Due
    <3>3. CASE t # ResizeTask(m)
      <4>1. CASE tasks[ResizeTask(m)] > 0
        BY <1>2, <3>3, <4>1, ResizeTaskFacts DEF Due
      <4>2. ASSUME NEW v \in Workers, Works(wk[v], m, store) PROVE Due(m)'
        BY <1>3, <1>4, <2>1, <4>2 DEF IInv, WorkersOK
      <4> QED
        BY <3>1, <4>1, <4>2 DEF Due
    <3> QED
      BY <3>2, <3>3
  <2> QED
    BY <2>4, <2>5 DEF NothingForgotten
<1>6. CASE ~(Startable(t) /\ ~UNCHANGED wk)
  <2>1. UNCHANGED wk /\ (~Startable(t) \/ UNCHANGED tasks \/ wk' = wk)
    BY <1>6 DEF Start
  <2>2. AllListed'
    BY <1>1, <2>1 DEF AllListed
  <2>3. ASSUME NEW m \in Medias, Owed(m)' PROVE Due(m)'
    <3>1. Owed(m) /\ Due(m)
      BY <1>1, <2>3, OwedSame DEF NothingForgotten
    <3>2. ~Startable(t)
      <4>1. CASE Startable(t)
        <5> DEFINE s == [IdleWorker EXCEPT
                    !.pc = FirstPC(t), !.task = t, !.media = db[t.media], !.i = 1]
        <5>1. wk' = [wk EXCEPT ![w] = s]
          BY <4>1 DEF Start
        <5>2. s.pc = FirstPC(t)
          BY DEF IdleWorker
        <5> HIDE DEF s
        <5>3. FirstPC(t) # "idle"
          BY DEF FirstPC
        <5> QED
          BY <1>1, <2>1, <5>1, <5>2, <5>3 DEF IInv, WorkersOK
      <4> QED
        BY <4>1
    <3>3. t # ResizeTask(m)
      <4>1. db[m] # NoRow /\ db[m].status = "completed" /\ IsImage(db[m].mime)
        BY <3>1, HeldIsKept DEF Owed
      <4> QED
        BY <3>2, <4>1, ResizeTaskFacts DEF Startable
    <3>4. CASE tasks[ResizeTask(m)] > 0
      BY <1>2, <3>3, <3>4, ResizeTaskFacts DEF Due
    <3>5. ASSUME NEW v \in Workers, Works(wk[v], m, store) PROVE Due(m)'
      BY <1>3, <2>1, <3>5
    <3> QED
      BY <3>1, <3>4, <3>5 DEF Due
  <2> QED
    BY <2>2, <2>3 DEF NothingForgotten
<1> QED
  BY <1>5, <1>6

LEMMA UncacheQuiet ==
  ASSUME IInv, AllListed, NothingForgotten,
         NEW w \in Workers, Uncache(w) \/ UncacheEtag(w)
  PROVE  AllListed' /\ NothingForgotten'
<1>1. /\ wk[w].pc \in UncachePC
      /\ wk[w].pc # "idle"
      /\ wk[w] \in WorkerState
      /\ UNCHANGED <<db, store, tasks>>
  BY DEF Uncache, UncacheEtag, UncachePC, IInv, WorkersOK
<1>2. PICK s : wk' = [wk EXCEPT ![w] = s] /\ s.pc \in {"idle", "uncache_etag"}
  <2> DEFINE s == [wk[w] EXCEPT !.pc = "uncache_etag"]
  <2>1. s.pc = "uncache_etag"
    BY <1>1 DEF WorkerState
  <2>2. Uncache(w) => wk' = [wk EXCEPT ![w] = s]
    BY DEF Uncache, Goto
  <2>3. IdleWorker.pc = "idle"
    BY DEF IdleWorker
  <2>4. UncacheEtag(w) => wk' = [wk EXCEPT ![w] = IdleWorker]
    BY DEF UncacheEtag
  <2> HIDE DEF s
  <2> QED
    BY <2>1, <2>2, <2>3, <2>4
<1>3. Listed(s, store')
  BY <1>2 DEF Listed, ResizePC
<1>4. \A m \in Medias : ~Works(wk[w], m, store)
  BY <1>1 DEF Works, Finishing, ResizePC, UncachePC
<1>5. TasksStay
  BY <1>1 DEF TasksStay
<1> QED
  BY <1>1, <1>2, <1>3, <1>4, <1>5, SameStays, QuietStep

\* The backlog command only adds tasks.
LEMMA BacklogQuiet ==
  ASSUME IInv, AllListed, NothingForgotten, BacklogStep \/ UNCHANGED vars
  PROVE  AllListed' /\ NothingForgotten'
<1>1. UNCHANGED <<db, store, wk>>
  BY DEF BacklogStep, BacklogGoesOn, ListUnoptimised, EnqueueListed, ListImages, EndBacklog, vars
<1>2. TasksStay
  <2>1. CASE UNCHANGED tasks
    BY <2>1 DEF TasksStay
  <2>2. ASSUME NEW kind \in TaskKinds, EnqueueListed(kind, kind) PROVE TasksStay
    <3>1. PICK m \in backlog.ids :
            Enqueue([kind |-> kind, media |-> m]) \/ UNCHANGED tasks
      BY <2>2 DEF EnqueueListed
    <3>2. [kind |-> kind, media |-> m] \in Task
      BY DEF Task, IInv, BacklogOK, BacklogState
    <3> QED
      BY <3>1, <3>2, Growing DEF Enqueue, IInv
  <2> QED
    BY <2>1, <2>2
    DEF BacklogStep, BacklogGoesOn, ListUnoptimised, ListImages, EndBacklog, TaskKinds, vars
<1>3. AllListed'
  BY <1>1 DEF AllListed
<1>4. ASSUME NEW m \in Medias, Owed(m)' PROVE Due(m)'
  <2>1. Due(m)
    BY <1>1, <1>4, OwedSame DEF NothingForgotten
  <2> QED
    BY <1>1, <1>2, <2>1, ResizeTaskFacts DEF Due, TasksStay
<1> QED
  BY <1>3, <1>4 DEF NothingForgotten

LEMMA QuietNext ==
  ASSUME Faults = {}, IInv, AllListed, NothingForgotten, [Next]_vars
  PROVE  AllListed' /\ NothingForgotten'
<1>1. ASSUME NEW w \in Workers, OptimiseStep(w)
      PROVE  AllListed' /\ NothingForgotten'
  BY <1>1, EarlySteps, CopyTempQuiet, LateSteps, UpdateOptimisedQuiet,
     EnqueueQuiet DEF OptimiseStep
<1>2. ASSUME NEW w \in Workers, ResizeStep(w)
      PROVE  AllListed' /\ NothingForgotten'
  BY <1>2, MakeVariantQuiet, SaveVariantQuiet, StatVariantQuiet,
     UpdateVariantsQuiet DEF ResizeStep
<1>3. ASSUME NEW w \in Workers, WorkerStep(w)
      PROVE  AllListed' /\ NothingForgotten'
  BY <1>1, <1>2, <1>3, StartQuiet, UncacheQuiet DEF WorkerStep
<1>4. \A w \in Workers : ~Crash(w)
  BY DEF Crash
<1> QED
  BY <1>3, <1>4, BacklogQuiet DEF Next

LEMMA QuietInit == Init => AllListed /\ NothingForgotten
<1> SUFFICES ASSUME Init PROVE AllListed /\ NothingForgotten
  OBVIOUS
<1>1. AllListed
  BY DEF Init, AllListed, Listed, IdleWorker, ResizePC
<1>2. ASSUME NEW m \in Medias PROVE ~Owed(m)
  <2>1. PICK b, o : db[m] = FinalisedRow(m, b, o)
    BY DEF Init
  <2>2. PICK r : r = FinalisedRow(m, b, o)
    OBVIOUS
  <2>3. r.optimised = FALSE
    BY <2>2, Zenon DEF FinalisedRow
  <2>4. db[m].optimised = FALSE
    BY <2>1, <2>2, <2>3, Zenon
  <2> QED
    BY <2>4 DEF Owed
<1> QED
  BY <1>1, <1>2 DEF NothingForgotten

-----------------------------------------------------------------------------
(* Theorem *)

\* When no call fails and no worker dies, then once the queue is empty and nobody
\* works, every optimised image lists a variant of every configured width, unless
\* it is too flat: a list that a repeated optimise task wrote away was made again.
THEOREM QuietImagesAreResized ==
  ASSUME Faults = {}
  PROVE  Spec => []QuietImagesHaveVariants
<1>1. Init => QInv
  BY InitInv, QuietInit DEF QInv
<1>2. QInv /\ [Next]_vars => QInv'
  BY NextInv, QuietNext DEF QInv
<1>3. QInv => QuietImagesHaveVariants
  <2> SUFFICES ASSUME QInv,
                      \A t \in Task : tasks[t] = 0,
                      \A w \in Workers : wk[w].pc = "idle",
                      NEW m \in Medias
               PROVE  ~Owed(m)
    BY DEF QuietImagesHaveVariants, Owed, HasVariants, HasWidth
  <2>1. ~Due(m)
    BY ResizeTaskFacts DEF Due, Works
  <2> QED
    BY <2>1 DEF QInv, NothingForgotten
<1> QED
  BY <1>1, <1>2, <1>3, PTL DEF Spec

-----------------------------------------------------------------------------
(* Whatever fails: a list of variants is empty or has every width           *)

Whole(m, list) == list = <<>> \/ HasVariants(m, list)

\* What a worker may write back: an optimise task the list it loaded, a resize
\* task the one it has been adding to, once it has passed every width.
Passed(s) ==
  /\ s.pc \in OptimisePC => Whole(s.task.media, s.media.variants)
  /\ s.pc \in ResizePC =>
       \A j \in 1..Len(TargetWidths) :
         j < s.i \/ s.pc = "update_variants" =>
           HasWidth(s.task.media, s.media.variants, j)

WholeInv ==
  /\ \A m \in Medias : Whole(m, db[m].variants)
  /\ \A w \in Workers : Passed(wk[w])

LEMMA IdlePassed == Passed(IdleWorker)
  BY DEF Passed, IdleWorker, OptimisePC, ResizePC

LEMMA PassedStep ==
  ASSUME IInv, WholeInv, NEW w \in Workers, NEW s,
         wk' = [wk EXCEPT ![w] = s], Passed(s), UNCHANGED db
  PROVE  WholeInv'
  BY DEF WholeInv, IInv, WorkersOK

LEMMA FailWhole ==
  ASSUME IInv, WholeInv, NEW w \in Workers, Fail(w), UNCHANGED db
  PROVE  WholeInv'
  BY IdlePassed, PassedStep DEF Fail

\* Between two steps of one task the list does not change.
LEMMA OnwardWhole ==
  ASSUME IInv, WholeInv, NEW w \in Workers, NEW s,
         wk' = [wk EXCEPT ![w] = s], UNCHANGED db,
         s.task = wk[w].task, s.media = wk[w].media, s.i = wk[w].i,
         \/ s.pc \in UncachePC
         \/ wk[w].pc \in OptimisePC /\ s.pc \in OptimisePC
         \/ /\ wk[w].pc \in ResizePC /\ s.pc \in ResizePC
            /\ s.pc # "update_variants"
  PROVE  WholeInv'
<1>1. OptimisePC \cap ResizePC = {} /\ UncachePC \cap (OptimisePC \cup ResizePC) = {}
  BY DEF OptimisePC, ResizePC, UncachePC
<1>2. Passed(wk[w])
  BY DEF WholeInv
<1>3. Passed(s)
  BY <1>1, <1>2 DEF Passed
<1> QED
  BY <1>3, PassedStep

LEMMA GotoWhole ==
  ASSUME IInv, WholeInv, NEW w \in Workers, NEW pc, Goto(w, pc), UNCHANGED db,
         \/ pc \in UncachePC
         \/ wk[w].pc \in OptimisePC /\ pc \in OptimisePC
         \/ /\ wk[w].pc \in ResizePC /\ pc \in ResizePC
            /\ pc # "update_variants"
  PROVE  WholeInv'
<1> DEFINE s == [wk[w] EXCEPT !.pc = pc]
<1>1. /\ wk' = [wk EXCEPT ![w] = s]
      /\ s.pc = pc /\ s.task = wk[w].task
      /\ s.media = wk[w].media /\ s.i = wk[w].i
  BY GotoFacts DEF IInv, WorkersOK, WorkerState
<1> HIDE DEF s
<1> QED
  BY <1>1, OnwardWhole

LEMMA OptimiseWhole ==
  ASSUME IInv, WholeInv, NEW w \in Workers,
         \/ OpenOriginal(w) \/ SaveTemp(w) \/ CopyTemp(w) \/ RemoveTemp(w)
         \/ RemoveOld(w) \/ StatNew(w) \/ EnqueueResizeImage(w)
  PROVE  WholeInv'
<1>1. CASE OpenOriginal(w) /\ ~Fail(w)
  <2> DEFINE s == [wk[w] EXCEPT !.pc = "save_temp", !.blob = Original(w).blob]
  <2>1. /\ wk' = [wk EXCEPT ![w] = s] /\ UNCHANGED db
        /\ wk[w].pc \in OptimisePC
    BY <1>1 DEF OpenOriginal, OptimisePC
  <2>2. /\ s.pc = "save_temp" /\ s.task = wk[w].task
        /\ s.media = wk[w].media /\ s.i = wk[w].i
    BY DEF IInv, WorkersOK, WorkerState
  <2> HIDE DEF s
  <2> QED
    BY <2>1, <2>2, OnwardWhole DEF OptimisePC
<1>2. CASE StatNew(w) /\ ~Fail(w)
  <2> DEFINE s == [wk[w] EXCEPT !.pc = "update",
                                !.size = Size[Here(w, NewKey(w)).blob]]
  <2>1. /\ wk' = [wk EXCEPT ![w] = s] /\ UNCHANGED db
        /\ wk[w].pc \in OptimisePC
    BY <1>2 DEF StatNew, OptimisePC
  <2>2. /\ s.pc = "update" /\ s.task = wk[w].task
        /\ s.media = wk[w].media /\ s.i = wk[w].i
    BY DEF IInv, WorkersOK, WorkerState
  <2> HIDE DEF s
  <2> QED
    BY <2>1, <2>2, OnwardWhole DEF OptimisePC
<1>3. CASE SaveTemp(w) /\ ~Fail(w)
  BY <1>3, GotoWhole DEF SaveTemp, OptimisePC
<1>4. CASE CopyTemp(w) /\ ~Fail(w)
  BY <1>4, GotoWhole DEF CopyTemp, OptimisePC
<1>5. CASE RemoveTemp(w)
  BY <1>5, GotoWhole DEF RemoveTemp, OptimisePC
<1>6. CASE RemoveOld(w)
  BY <1>6, GotoWhole DEF RemoveOld, OptimisePC
<1>7. CASE EnqueueResizeImage(w)
  BY <1>7, GotoWhole DEF EnqueueResizeImage, OptimisePC, UncachePC
<1>8. CASE Fail(w)
  <2>1. UNCHANGED db
    BY DEF OpenOriginal, SaveTemp, CopyTemp, RemoveTemp, RemoveOld, StatNew,
           EnqueueResizeImage
  <2> QED
    BY <1>8, <2>1, FailWhole
<1> QED
  BY <1>1, <1>2, <1>3, <1>4, <1>5, <1>6, <1>7, <1>8

\* A task writes back a whole list.
LEMMA WriteWhole ==
  ASSUME IInv, WholeInv, NEW w \in Workers, wk[w].pc # "idle", NEW row,
         RepoUpdate(Media(w), row), Whole(Media(w), row.variants),
         NEW pc, Goto(w, pc), Passed([wk[w] EXCEPT !.pc = pc])
  PROVE  WholeInv'
<1>1. \A v \in Workers : Passed(wk'[v])
  BY GotoFacts DEF WholeInv, IInv, WorkersOK
<1>2. PICK n \in Medias : n = Media(w)
  BY AtWork
<1>3. db[n] # NoRow
  BY HeldIsKept
<1>4. db'[n] = row /\ \A m \in Medias \ {n} : db'[m] = db[m]
  BY <1>2, <1>3 DEF RepoUpdate, UpdatedRow, IInv, RowsOK
<1> QED
  BY <1>1, <1>2, <1>4 DEF WholeInv

LEMMA UpdateOptimisedWhole ==
  ASSUME IInv, WholeInv, NEW w \in Workers, UpdateOptimised(w)
  PROVE  WholeInv'
<1>1. wk[w].pc = "update" /\ wk[w].pc # "idle" /\ wk[w].pc \in OptimisePC
  BY DEF UpdateOptimised, OptimisePC
<1>2. CASE Fail(w) /\ UNCHANGED db
  BY <1>2, FailWhole
<1>3. CASE ~(Fail(w) /\ UNCHANGED db)
  <2>1. PICK pc \in {"enqueue", "uncache"} :
          Goto(w, pc) /\ RepoUpdate(Media(w), OptimisedRow(w))
    BY <1>3 DEF UpdateOptimised
  <2>2. Whole(Media(w), wk[w].media.variants)
    BY <1>1 DEF WholeInv, Passed, Media
  <2>3. OptimisedRow(w).variants = wk[w].media.variants
    BY <1>1, AtWork DEF OptimisedRow, Row
  <2>4. PICK s : s = [wk[w] EXCEPT !.pc = pc]
    OBVIOUS
  <2>5. s.pc = pc /\ s.task = wk[w].task /\ s.media = wk[w].media
    BY <1>1, <2>4, AtWork DEF WorkerState
  <2>6. Passed(s)
    BY <2>2, <2>5 DEF Passed, ResizePC, Media
  <2> QED
    BY <1>1, <2>1, <2>2, <2>3, <2>4, <2>6, WriteWhole
<1> QED
  BY <1>2, <1>3

LEMMA UpdateVariantsWhole ==
  ASSUME IInv, WholeInv, NEW w \in Workers, UpdateVariants(w)
  PROVE  WholeInv'
<1>1. /\ wk[w].pc = "update_variants" /\ wk[w].pc # "idle"
      /\ wk[w].pc \in ResizePC
  BY DEF UpdateVariants, ResizePC
<1>2. CASE Fail(w) /\ UNCHANGED db
  BY <1>2, FailWhole
<1>3. CASE ~(Fail(w) /\ UNCHANGED db)
  <2>1. Goto(w, "uncache") /\ RepoUpdate(Media(w), wk[w].media)
    BY <1>3 DEF UpdateVariants
  <2>2. Whole(Media(w), wk[w].media.variants)
    BY <1>1 DEF WholeInv, Passed, Media, Whole, HasVariants
  <2>3. PICK s : s = [wk[w] EXCEPT !.pc = "uncache"]
    OBVIOUS
  <2>4. s.pc = "uncache"
    BY <1>1, <2>3, AtWork DEF WorkerState
  <2>5. Passed(s)
    BY <2>4 DEF Passed, OptimisePC, ResizePC
  <2> QED
    BY <1>1, <2>1, <2>2, <2>3, <2>5, WriteWhole
<1> QED
  BY <1>2, <1>3

LEMMA MakeVariantWhole ==
  ASSUME IInv, WholeInv, NEW w \in Workers, MakeVariant(w) \/ SaveVariant(w)
  PROVE  WholeInv'
<1>1. /\ wk[w].pc \in ResizePC
      /\ UNCHANGED db
  BY DEF MakeVariant, SaveVariant, ResizePC
<1>2. CASE Fail(w)
  BY <1>1, <1>2, FailWhole
<1>3. CASE Goto(w, "stat_variant")
  BY <1>1, <1>3, GotoWhole DEF ResizePC
<1>4. CASE ~Fail(w) /\ ~Goto(w, "stat_variant")
  <2> DEFINE s == [wk[w] EXCEPT !.pc = "save_variant", !.blob = Original(w).blob]
  <2>1. wk' = [wk EXCEPT ![w] = s]
    BY <1>4 DEF MakeVariant, SaveVariant
  <2>2. /\ s.pc = "save_variant" /\ s.task = wk[w].task
        /\ s.media = wk[w].media /\ s.i = wk[w].i
    BY DEF IInv, WorkersOK, WorkerState
  <2> HIDE DEF s
  <2> QED
    BY <1>1, <2>1, <2>2, OnwardWhole DEF ResizePC
<1> QED
  BY <1>2, <1>3, <1>4

\* The variant of this width joins those of the widths before it.
LEMMA StatVariantWhole ==
  ASSUME IInv, WholeInv, NEW w \in Workers, StatVariant(w)
  PROVE  WholeInv'
<1>1. /\ wk[w].pc = "stat_variant"
      /\ wk[w].pc # "idle"
      /\ wk[w].pc \in ResizePC
      /\ wk[w] \in WorkerState
      /\ FilesOK
      /\ UNCHANGED db
  BY DEF StatVariant, ResizePC, IInv, WorkersOK
<1>2. CASE Fail(w)
  BY <1>1, <1>2, FailWhole
<1>3. CASE ~Fail(w)
  <2> DEFINE v == [key    |-> WidthKey(w),
                   size   |-> Size[Here(w, WidthKey(w)).blob],
                   width  |-> VariantWidth(w),
                   height |-> VariantHeight(w)]
             pc == IF wk[w].i = Len(TargetWidths) THEN "update_variants"
                   ELSE "variant"
  <2>1. /\ wk' = [wk EXCEPT ![w].pc = pc, ![w].i = @ + 1,
                            ![w].media.variants = Append(@, v)]
        /\ Here(w, WidthKey(w)) # NoObject
    BY <1>3 DEF StatVariant
  <2>2. /\ v \in Variant
        /\ v.key = VariantKey(wk[w].task.media, TargetWidths[wk[w].i])
    <3>1. Size[Here(w, WidthKey(w)).blob] \in Nat
      BY <1>1, <2>1, WidthFacts, FileFacts, BlobsAssumption
    <3>2. VariantWidth(w) \in Nat /\ VariantHeight(w) \in Nat
      <4>1. v.width = VariantWidth(w) /\ v.height = VariantHeight(w) /\ v.key = WidthKey(w)
        OBVIOUS
      <4> QED
        BY <1>1, <4>1, VariantFits
    <3> QED
      BY <1>1, <3>1, <3>2, WidthFacts DEF Variant, WidthKey, Media, Target
  <2>3. /\ pc \in {"update_variants", "variant"}
        /\ pc = "update_variants" => wk[w].i = Len(TargetWidths)
    OBVIOUS
  <2> HIDE DEF v, pc
  <2>4. wk[w].media \in Row /\ wk[w].media.variants \in Seq(Variant)
    BY <1>1, AtWork DEF Row
  <2>5. PICK list \in Seq(Variant) : list = wk[w].media.variants
    BY <2>4
  <2>6. PICK list2 : list2 = Append(list, v)
    OBVIOUS
  <2>7. PICK row : row = [wk[w].media EXCEPT !.variants = list2]
    OBVIOUS
  <2>8. row.variants = list2
    BY <2>4, <2>7 DEF Row
  <2> DEFINE s == [wk[w] EXCEPT !.pc = pc, !.i = @ + 1, !.media = row]
  <2>9. wk' = [wk EXCEPT ![w] = s]
    BY <1>1, <2>1, <2>4, <2>5, <2>6, <2>7 DEF IInv, WorkersOK, WorkerState
  <2>10. /\ s.pc = pc
         /\ s.i = wk[w].i + 1
         /\ s.media = row
         /\ s.task = wk[w].task
    BY <1>1 DEF WorkerState
  <2> HIDE DEF s
  <2>11. wk[w].i \in 1..Len(TargetWidths) /\ Len(TargetWidths) \in Nat
    BY <1>1, WidthFacts, PipelineAssumption
  <2>12. ASSUME NEW j \in 1..Len(TargetWidths),
                j < s.i \/ s.pc = "update_variants"
         PROVE  HasWidth(s.task.media, list2, j)
    <3>1. PICK m : m = s.task.media
      OBVIOUS
    <3>2. CASE j < wk[w].i
      <4>1. HasWidth(m, list, j)
        BY <1>1, <2>5, <2>10, <3>1, <3>2 DEF WholeInv, Passed
      <4> QED
        BY <2>2, <2>6, <3>1, <4>1, AppendedWidths
    <3>3. CASE j = wk[w].i
      <4>1. v.key = VariantKey(m, TargetWidths[j])
        BY <2>2, <2>10, <3>1, <3>3
      <4> QED
        BY <2>2, <2>6, <3>1, <4>1, AppendedWidths
    <3> QED
      BY <2>3, <2>10, <2>11, <2>12, <3>2, <3>3
  <2>13. Passed(s)
    BY <2>3, <2>8, <2>10, <2>12 DEF Passed, OptimisePC
  <2> QED
    BY <1>1, <2>9, <2>13, PassedStep
<1> QED
  BY <1>2, <1>3

LEMMA StartWhole ==
  ASSUME IInv, WholeInv, NEW w \in Workers, NEW t \in Task, Start(w, t)
  PROVE  WholeInv'
<1>1. CASE UNCHANGED wk
  BY <1>1 DEF Start, WholeInv
<1>2. CASE ~UNCHANGED wk
  <2> DEFINE s == [IdleWorker EXCEPT
                    !.pc = FirstPC(t), !.task = t, !.media = db[t.media], !.i = 1]
  <2>1. wk' = [wk EXCEPT ![w] = s] /\ UNCHANGED db
    BY <1>2 DEF Start
  <2>2. s.pc = FirstPC(t) /\ s.task = t /\ s.i = 1 /\ s.media = db[t.media]
    BY DEF IdleWorker
  <2> HIDE DEF s
  <2>3. /\ FirstPC(t) \in {"open", "update_variants", "variant"}
        /\ FirstPC(t) = "update_variants" => TargetWidths = <<>>
    <3>1. FirstPC(t) \in {"open", "update_variants", "variant"}
      BY DEF FirstPC
    <3>2. FirstPC(t) = "update_variants" => TargetWidths = <<>>
      BY DEF FirstPC
    <3> QED
      BY <3>1, <3>2
  <2>4. t.media \in Medias
    BY DEF Task
  <2>5. Whole(t.media, db[t.media].variants)
    BY <2>4 DEF WholeInv
  <2>6. TargetWidths = <<>> => 1..Len(TargetWidths) = {}
    OBVIOUS
  <2>7. \A j \in 1..Len(TargetWidths) : ~(j < 1)
    BY PipelineAssumption
  <2>8. Passed(s)
    BY <2>2, <2>3, <2>5, <2>6, <2>7 DEF Passed, OptimisePC, ResizePC
  <2> QED
    BY <2>1, <2>8, PassedStep
<1> QED
  BY <1>1, <1>2

LEMMA UncacheWhole ==
  ASSUME IInv, WholeInv, NEW w \in Workers,
         Uncache(w) \/ UncacheEtag(w) \/ Crash(w)
  PROVE  WholeInv'
<1>1. CASE Uncache(w)
  BY <1>1, GotoWhole DEF Uncache, UncachePC
<1>2. CASE UncacheEtag(w) \/ Crash(w)
  BY <1>2, IdlePassed, PassedStep DEF UncacheEtag, Crash
<1> QED
  BY <1>1, <1>2

LEMMA WholeNext == IInv /\ WholeInv /\ [Next]_vars => WholeInv'
<1> SUFFICES ASSUME IInv, WholeInv, [Next]_vars PROVE WholeInv'
  OBVIOUS
<1>1. ASSUME NEW w \in Workers, WorkerStep(w) PROVE WholeInv'
  <2>1. CASE OptimiseStep(w)
    BY <2>1, OptimiseWhole, UpdateOptimisedWhole DEF OptimiseStep
  <2>2. CASE ResizeStep(w)
    BY <2>2, MakeVariantWhole, StatVariantWhole, UpdateVariantsWhole DEF ResizeStep
  <2> QED
    BY <1>1, <2>1, <2>2, StartWhole, UncacheWhole DEF WorkerStep
<1>2. CASE BacklogStep \/ UNCHANGED vars
  <2>1. UNCHANGED <<db, wk>>
    BY <1>2 DEF BacklogStep, BacklogGoesOn, ListUnoptimised, EnqueueListed,
                ListImages, EndBacklog, vars
  <2> QED
    BY <2>1 DEF WholeInv
<1> QED
  BY <1>1, <1>2, UncacheWhole DEF Next

LEMMA WholeInit == Init => WholeInv
<1> SUFFICES ASSUME Init PROVE WholeInv
  OBVIOUS
<1>1. ASSUME NEW w \in Workers PROVE Passed(wk[w])
  BY IdlePassed DEF Init
<1>2. ASSUME NEW m \in Medias PROVE db[m].variants = <<>>
  <2>1. PICK b, o : db[m] = FinalisedRow(m, b, o)
    BY DEF Init
  <2>2. PICK r : r = FinalisedRow(m, b, o)
    OBVIOUS
  <2>3. r.variants = <<>>
    BY <2>2, Zenon DEF FinalisedRow
  <2> QED
    BY <2>1, <2>2, <2>3, Zenon
<1> QED
  BY <1>1, <1>2 DEF WholeInv, Whole

\* Whatever tasks fail, overlap, are repeated, lost or die, and with whatever
\* copies of the row they write back, a completed media is done or one of the
\* two listings of the backlog command matches it.
THEOREM MissedIsFound == Spec => []BacklogFindsMissed
<1>1. ASSUME IInv, WholeInv, NEW m \in Medias
      PROVE  Done(m) \/ m \in Unoptimised \cup ImagesWithoutVariants
  <2>1. db[m] # NoRow /\ db[m].status = "completed"
    BY <1>1, HeldIsKept
  <2>2. CASE ~db[m].optimised
    BY <2>1, <2>2, <1>1 DEF Unoptimised
  <2>3. CASE db[m].optimised /\ IsImage(db[m].mime) /\ db[m].variants = <<>>
    BY <2>1, <2>3 DEF ImagesWithoutVariants
  <2>4. CASE db[m].optimised /\ ~(IsImage(db[m].mime) /\ db[m].variants = <<>>)
    BY <1>1, <2>1, <2>4 DEF Done, WholeInv, Whole, HasVariants, HasWidth
  <2> QED
    BY <1>1, <2>2, <2>3, <2>4 DEF IInv, RowsOK, Row
<1>2. IInv /\ WholeInv => BacklogFindsMissed
  BY <1>1 DEF BacklogFindsMissed
<1>3. Init => IInv /\ WholeInv
  BY InitInv, WholeInit
<1>4. IInv /\ WholeInv /\ [Next]_vars => IInv' /\ WholeInv'
  BY NextInv, WholeNext
<1> QED
  BY <1>2, <1>3, <1>4, PTL DEF Spec
=============================================================================
