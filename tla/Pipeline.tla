------------------------------ MODULE Pipeline -------------------------------
(***************************************************************************)
(* The background work on completed medias: the optimise and the resize    *)
(* tasks of the worker (cmd/worker, ten of them at a time), and the        *)
(* backlog command (cmd/optimise-backlog) that enqueues what was missed.   *)
(*                                                                         *)
(* Tasks are delivered at least once and in any order, and nothing stops   *)
(* two of them from working on one media.  A worker step is one call on    *)
(* the database, the storage, the queue or the cache, and uses the copy of *)
(* the row it loaded when the task began.  A task that fails is retried or *)
(* given up; a task whose worker dies is delivered again.                  *)
(*                                                                         *)
(* Operators named X_Y are faulty versions of X, one plausible slip each.  *)
(***************************************************************************)
EXTENDS Cache, Settings

CONSTANTS
  Workers,      \* tasks processed at the same time
  Stored,       \* the uploads finalised before the pipeline starts
  SizeEntries,  \* IMAGES_SIZES, as it is configured
  ImageWidth,   \* ImageWidth[b], ImageHeight[b]: the dimensions of the image b
  ImageHeight,
  Packed,       \* Packed[b]: what Compress makes of b
  Shrunk,       \* Shrunk[b]: what Resize makes of the image b
  Faults,       \* the faults that may happen, of AllFaults
  MaxCrashes,   \* bound: how many workers die
  MaxBacklogs   \* bound: how many times the backlog command runs

AllFaults ==
  {"get", "read", "compress", "save_temp", "copy_temp", "remove_temp",
   "remove_old", "stat", "update", "enqueue", "uncache", "save_variant",
   "copy_variant", "list", "crash"}

\* Widths that are not positive are skipped.
TargetWidths == SelectSeq(ImagesSizes(SizeEntries), LAMBDA w : w > 0)

ASSUME PipelineAssumption ==
  /\ TargetWidths \in Seq(Widths)
  /\ ImageWidth \in [Blobs -> Nat \ {0}]
  /\ ImageHeight \in [Blobs -> Nat \ {0}]
  /\ Packed \in [Blobs -> Blobs]
  /\ Shrunk \in [Blobs -> Blobs]
  /\ \A b \in Blobs : /\ Origin[Packed[b]] = Origin[b]
                      /\ Origin[Shrunk[b]] = Origin[b]
  /\ Stored \subseteq Object
  /\ \A o \in Stored : IsMimeTypeAllowed(o.type)
  /\ Faults \subseteq AllFaults
  /\ MaxCrashes \in Nat
  /\ MaxBacklogs \in Nat

VARIABLES
  wk,        \* wk[w]: the task worker w is at, and its local variables
  backlog,   \* the running backlog command: what it still has to enqueue
  crashes,   \* how many workers died
  backlogs   \* how many times the backlog command started

vars == <<db, store, tasks, details, etags, wk, backlog, crashes, backlogs>>

OptimisePC == {"open", "save_temp", "copy_temp", "remove_temp", "remove_old",
               "stat", "update", "enqueue"}

ResizePC == {"variant", "save_variant", "stat_variant", "update_variants"}

UncachePC == {"uncache", "uncache_etag"}

Busy == OptimisePC \cup ResizePC \cup UncachePC

IdleWorker == [pc |-> "idle", task |-> Nil, media |-> Nil, blob |-> Nil,
               size |-> Nil, i |-> 0]

WorkerState ==
  [pc    : Busy \cup {"idle"},
   task  : Task \cup {Nil},
   media : Row \cup {Nil},      \* the row as loaded, then as written back
   blob  : Blobs \cup {Nil},    \* the content the reader is reading
   size  : Nat \cup {Nil},      \* newSize
   i     : Nat]                 \* the position in TargetWidths

BacklogState == [pc : {"idle", "optimise", "list", "resize"}, ids : SUBSET Medias]

TypeOK ==
  /\ BackendTypeOK
  /\ CacheTypeOK
  /\ wk \in [Workers -> WorkerState]
  /\ backlog \in BacklogState
  /\ crashes \in 0..MaxCrashes
  /\ backlogs \in 0..MaxBacklogs

-----------------------------------------------------------------------------
(* The pipeline starts on medias whose upload was finalised, their optimise *)
(* task queued unless the enqueue failed                                    *)

FinalisedKey(m, o) == FileKey(m, MimeTypeToExtension(o.type))

FinalisedRow(m, b, o) ==
  [key |-> FinalisedKey(m, o), bucket |-> b, mime |-> o.type,
   size |-> Size[o.blob], status |-> "completed", optimised |-> FALSE,
   meta |-> o.blob, variants |-> <<>>]

Init ==
  /\ \E b \in Buckets, up \in [Medias -> Stored],
        queued \in [Medias -> BOOLEAN] :
       /\ db = [m \in Medias |-> FinalisedRow(m, b, up[m])]
       /\ store = [c \in Buckets |-> [k \in Key |->
                    IF c = b /\ k = FinalisedKey(k.media, up[k.media])
                    THEN up[k.media] ELSE NoObject]]
       /\ tasks = [t \in Task |->
                    IF t.kind = "optimise" /\ queued[t.media] THEN 1 ELSE 0]
  /\ CacheInit
  /\ wk = [w \in Workers |-> IdleWorker]
  /\ backlog = [pc |-> "idle", ids |-> {}]
  /\ crashes = 0
  /\ backlogs = 0

-----------------------------------------------------------------------------
(* The task queue, seen from a worker *)

Media(w) == wk[w].task.media

Goto(w, pc) == wk' = [wk EXCEPT ![w].pc = pc]

\* The task goes back to the queue: for a retry, or because its worker died.
Requeue(w) == tasks' = [tasks EXCEPT ![wk[w].task] = @ + 1]

\* A handler returns an error: asynq retries the task, in the end archives it.
Fail(w) ==
  /\ wk' = [wk EXCEPT ![w] = IdleWorker]
  /\ Requeue(w) \/ UNCHANGED tasks

\* A delivered task first loads its row.  The handlers refuse a media that is
\* not completed, the resize handler one that is not an image.
Startable(t) ==
  /\ db[t.media] # NoRow
  /\ db[t.media].status = "completed"
  /\ t.kind = "resize" => IsImage(db[t.media].mime)

FirstPC(t) ==
  IF t.kind = "optimise" THEN "open"
  ELSE IF TargetWidths = <<>> THEN "update_variants" ELSE "variant"

Start(w, t) ==
  /\ wk[w].pc = "idle"
  /\ tasks[t] > 0
  /\ \/ /\ Startable(t)
        /\ tasks' = [tasks EXCEPT ![t] = @ - 1]
        /\ wk' = [wk EXCEPT ![w] = [IdleWorker EXCEPT
                    !.pc = FirstPC(t), !.task = t, !.media = db[t.media],
                    !.i = 1]]
     \/ /\ ~Startable(t) \/ "get" \in Faults
        /\ \/ tasks' = [tasks EXCEPT ![t] = @ - 1]
           \/ UNCHANGED tasks
        /\ UNCHANGED wk
  /\ UNCHANGED <<db, store, details, etags, backlog, crashes, backlogs>>

Crash(w) ==
  /\ "crash" \in Faults
  /\ crashes < MaxCrashes
  /\ wk[w].pc # "idle"
  /\ Requeue(w)
  /\ wk' = [wk EXCEPT ![w] = IdleWorker]
  /\ crashes' = crashes + 1
  /\ UNCHANGED <<db, store, details, etags, backlog, backlogs>>

-----------------------------------------------------------------------------
(* OptimiseMedia *)

Here(w, k) == store[wk[w].media.bucket][k]

Original(w) == Here(w, wk[w].media.key)

\* Compress turns images into WebP and keeps the other types.
NewMimeType(w) ==
  IF IsImage(wk[w].media.mime) THEN "image/webp" ELSE wk[w].media.mime

NewKey(w) ==
  IF NewMimeType(w) = wk[w].media.mime THEN wk[w].media.key
  ELSE FileKey(Media(w), MimeTypeToExtension(NewMimeType(w)))

Temp(w) == TempKey(Media(w), NewKey(w).ext)

\* GetFile opens the object and Compress streams it: the first read decides
\* which content is compressed.
OpenOriginal(w) ==
  /\ wk[w].pc = "open"
  /\ \/ /\ Original(w) # NoObject
        /\ wk' = [wk EXCEPT ![w].pc = "save_temp", ![w].blob = Original(w).blob]
        /\ UNCHANGED tasks
     \/ /\ Original(w) = NoObject \/ "read" \in Faults
        /\ Fail(w)
  /\ UNCHANGED <<db, store, details, etags, backlog, crashes, backlogs>>

\* An error of the compression breaks the stream, and with it the upload.
SaveTemp(w) ==
  /\ wk[w].pc = "save_temp"
  /\ \/ /\ StoreSave(wk[w].media.bucket, Temp(w),
              [type |-> NewMimeType(w), blob |-> Packed[wk[w].blob]])
        /\ Goto(w, "copy_temp")
        /\ UNCHANGED tasks
     \/ /\ Faults \cap {"compress", "save_temp"} # {}
        /\ Fail(w)
        /\ UNCHANGED store
  /\ UNCHANGED <<db, details, etags, backlog, crashes, backlogs>>

CopyTemp(w) ==
  /\ wk[w].pc = "copy_temp"
  /\ \/ /\ Here(w, Temp(w)) # NoObject
        /\ StoreSave(wk[w].media.bucket, NewKey(w), Here(w, Temp(w)))
        /\ Goto(w, "remove_temp")
        /\ UNCHANGED tasks
     \/ /\ Here(w, Temp(w)) = NoObject \/ "copy_temp" \in Faults
        /\ Fail(w)
        /\ UNCHANGED store
  /\ UNCHANGED <<db, details, etags, backlog, crashes, backlogs>>

\* A failure here is only logged.
RemoveTemp_AnyKey(w) ==
  /\ wk[w].pc = "remove_temp"
  /\ StoreRemove(wk[w].media.bucket, Temp(w))
  /\ Goto(w, "remove_old")
  /\ UNCHANGED <<db, tasks, details, etags, backlog, crashes, backlogs>>
RemoveTemp(w) ==
  /\ wk[w].pc = "remove_temp"
  /\ \/ StoreRemove(wk[w].media.bucket, Temp(w))
     \/ "remove_temp" \in Faults /\ UNCHANGED store
  /\ Goto(w, IF NewKey(w) # wk[w].media.key THEN "remove_old" ELSE "stat")
  /\ UNCHANGED <<db, tasks, details, etags, backlog, crashes, backlogs>>

\* The extension changed: the original goes.  A failure is only logged.
RemoveOld_Prefix(w) ==
  /\ wk[w].pc = "remove_old"
  /\ store' = [store EXCEPT ![wk[w].media.bucket] =
       [k \in Key |-> IF k.media = Media(w) /\ k # NewKey(w)
                      THEN NoObject ELSE @[k]]]
  /\ Goto(w, "stat")
  /\ UNCHANGED <<db, tasks, details, etags, backlog, crashes, backlogs>>
RemoveOld(w) ==
  /\ wk[w].pc = "remove_old"
  /\ \/ StoreRemove(wk[w].media.bucket, wk[w].media.key)
     \/ "remove_old" \in Faults /\ UNCHANGED store
  /\ Goto(w, "stat")
  /\ UNCHANGED <<db, tasks, details, etags, backlog, crashes, backlogs>>

StatNew_EnqueueEarly(w) ==
  /\ wk[w].pc = "stat"
  /\ Here(w, NewKey(w)) # NoObject
  /\ wk' = [wk EXCEPT ![w].pc = "update",
                      ![w].size = Size[Here(w, NewKey(w)).blob]]
  /\ IF IsImage(NewMimeType(w)) THEN Enqueue(ResizeTask(Media(w)))
     ELSE UNCHANGED tasks
  /\ UNCHANGED <<db, store, details, etags, backlog, crashes, backlogs>>
StatNew(w) ==
  /\ wk[w].pc = "stat"
  /\ \/ /\ Here(w, NewKey(w)) # NoObject
        /\ wk' = [wk EXCEPT ![w].pc = "update",
                            ![w].size = Size[Here(w, NewKey(w)).blob]]
        /\ UNCHANGED tasks
     \/ /\ Here(w, NewKey(w)) = NoObject \/ "stat" \in Faults
        /\ Fail(w)
  /\ UNCHANGED <<db, store, details, etags, backlog, crashes, backlogs>>

OptimisedRow_ByExtension(w) ==
  [wk[w].media EXCEPT !.optimised = TRUE, !.size = wk[w].size,
                      !.mime = MimeTypeToExtension(NewMimeType(w)),
                      !.key = NewKey(w)]
OptimisedRow_OldKey(w) ==
  [wk[w].media EXCEPT !.optimised = TRUE, !.size = wk[w].size,
                      !.mime = NewMimeType(w)]
OptimisedRow_Unmarked(w) ==
  [wk[w].media EXCEPT !.size = wk[w].size, !.mime = NewMimeType(w),
                      !.key = NewKey(w)]
OptimisedRow(w) ==
  [wk[w].media EXCEPT !.optimised = TRUE, !.size = wk[w].size,
                      !.mime = NewMimeType(w), !.key = NewKey(w)]

UpdateOptimised(w) ==
  /\ wk[w].pc = "update"
  /\ \/ /\ RepoUpdate(Media(w), OptimisedRow(w))
        /\ Goto(w, IF IsImage(NewMimeType(w)) THEN "enqueue" ELSE "uncache")
        /\ UNCHANGED tasks
     \/ /\ "update" \in Faults
        /\ Fail(w)
        /\ UNCHANGED db
  /\ UNCHANGED <<store, details, etags, backlog, crashes, backlogs>>

\* A failure here is only logged.
EnqueueResizeImage_Converted(w) ==
  /\ wk[w].pc = "enqueue"
  /\ IF NewKey(w) # wk[w].media.key THEN Enqueue(ResizeTask(Media(w)))
     ELSE UNCHANGED tasks
  /\ Goto(w, "uncache")
  /\ UNCHANGED <<db, store, details, etags, backlog, crashes, backlogs>>
EnqueueResizeImage(w) ==
  /\ wk[w].pc = "enqueue"
  /\ \/ Enqueue(ResizeTask(Media(w)))
     \/ "enqueue" \in Faults /\ UNCHANGED tasks
  /\ Goto(w, "uncache")
  /\ UNCHANGED <<db, store, details, etags, backlog, crashes, backlogs>>

-----------------------------------------------------------------------------
(* ResizeImage *)

Target(w) == TargetWidths[wk[w].i]

WidthKey(w) == VariantKey(Media(w), Target(w))

FullWidth(w) == ImageWidth[wk[w].media.meta]

FullHeight(w) == ImageHeight[wk[w].media.meta]

\* The width is below the image's.
Shrinks(w) == Target(w) < FullWidth(w)

VariantWidth_Target(w) == Target(w)
VariantWidth(w) == IF Shrinks(w) THEN Target(w) ELSE FullWidth(w)

\* The fraction is cut off.
VariantHeight(w) ==
  IF Shrinks(w) THEN (FullHeight(w) * Target(w)) \div FullWidth(w)
  ELSE FullHeight(w)

\* A width below the image's is made from the original, which is read again
\* from the start for each width; the download only resumes on the content it
\* began with.  A larger width is a copy of the original, whatever it is now.
MakeVariant(w) ==
  /\ wk[w].pc = "variant"
  /\ LET readable == /\ Original(w) # NoObject
                     /\ wk[w].blob \in {Nil, Original(w).blob}
     IN \/ /\ Shrinks(w) /\ readable
           /\ wk' = [wk EXCEPT ![w].pc = "save_variant",
                               ![w].blob = Original(w).blob]
           /\ UNCHANGED <<store, tasks>>
        \/ /\ ~Shrinks(w) /\ Original(w) # NoObject
           /\ StoreSave(wk[w].media.bucket, WidthKey(w), Original(w))
           /\ Goto(w, "stat_variant")
           /\ UNCHANGED tasks
        \/ /\ \/ Shrinks(w) /\ (~readable \/ "read" \in Faults)
              \/ ~Shrinks(w) /\ (Original(w) = NoObject \/ "copy_variant" \in Faults)
           /\ Fail(w)
           /\ UNCHANGED store
  /\ UNCHANGED <<db, details, etags, backlog, crashes, backlogs>>

\* An image without a pixel cannot be encoded.
SaveVariant_NextWidth(w) ==
  /\ wk[w].pc = "save_variant"
  /\ \/ /\ VariantHeight(w) > 0
        /\ StoreSave(wk[w].media.bucket, WidthKey(w),
              [type |-> "image/webp", blob |-> Shrunk[wk[w].blob]])
        /\ Goto(w, "stat_variant")
     \/ /\ VariantHeight(w) = 0 \/ Faults \cap {"compress", "save_variant"} # {}
        /\ wk' = [wk EXCEPT
             ![w].pc = IF wk[w].i = Len(TargetWidths) THEN "update_variants"
                       ELSE "variant",
             ![w].i = @ + 1]
        /\ UNCHANGED store
  /\ UNCHANGED <<db, tasks, details, etags, backlog, crashes, backlogs>>
SaveVariant(w) ==
  /\ wk[w].pc = "save_variant"
  /\ \/ /\ VariantHeight(w) > 0
        /\ StoreSave(wk[w].media.bucket, WidthKey(w),
              [type |-> "image/webp", blob |-> Shrunk[wk[w].blob]])
        /\ Goto(w, "stat_variant")
        /\ UNCHANGED tasks
     \/ /\ VariantHeight(w) = 0 \/ Faults \cap {"compress", "save_variant"} # {}
        /\ Fail(w)
        /\ UNCHANGED store
  /\ UNCHANGED <<db, details, etags, backlog, crashes, backlogs>>

\* The variant is appended to the list the row had when the task began.
StatVariant(w) ==
  /\ wk[w].pc = "stat_variant"
  /\ \/ /\ Here(w, WidthKey(w)) # NoObject
        /\ wk' = [wk EXCEPT
             ![w].pc = IF wk[w].i = Len(TargetWidths) THEN "update_variants"
                       ELSE "variant",
             ![w].i = @ + 1,
             ![w].media.variants =
               Append(@, [key    |-> WidthKey(w),
                          size   |-> Size[Here(w, WidthKey(w)).blob],
                          width  |-> VariantWidth(w),
                          height |-> VariantHeight(w)])]
        /\ UNCHANGED tasks
     \/ /\ Here(w, WidthKey(w)) = NoObject \/ "stat" \in Faults
        /\ Fail(w)
  /\ UNCHANGED <<db, store, details, etags, backlog, crashes, backlogs>>

UpdateVariants(w) ==
  /\ wk[w].pc = "update_variants"
  /\ \/ /\ RepoUpdate(Media(w), wk[w].media)
        /\ Goto(w, "uncache")
        /\ UNCHANGED tasks
     \/ /\ "update" \in Faults
        /\ Fail(w)
        /\ UNCHANGED db
  /\ UNCHANGED <<store, details, etags, backlog, crashes, backlogs>>

-----------------------------------------------------------------------------
(* Both tasks end by dropping the cached details; failures are only logged *)

Uncache(w) ==
  /\ wk[w].pc = "uncache"
  /\ \/ DeleteMediaDetails(Media(w))
     \/ "uncache" \in Faults /\ UNCHANGED details
  /\ Goto(w, "uncache_etag")
  /\ UNCHANGED <<db, store, tasks, etags, backlog, crashes, backlogs>>

UncacheEtag(w) ==
  /\ wk[w].pc = "uncache_etag"
  /\ \/ DeleteEtagMediaDetails(Media(w))
     \/ "uncache" \in Faults /\ UNCHANGED etags
  /\ wk' = [wk EXCEPT ![w] = IdleWorker]
  /\ UNCHANGED <<db, store, tasks, details, backlog, crashes, backlogs>>

-----------------------------------------------------------------------------
(* OptimiseBacklog.  Whether a media is older than an hour is left open:    *)
(* each listing returns some of the rows that match.                        *)

Unoptimised ==
  {m \in Medias : /\ db[m] # NoRow
                  /\ db[m].status = "completed"
                  /\ ~db[m].optimised}

ImagesWithoutVariants ==
  {m \in Medias : /\ db[m] # NoRow
                  /\ db[m].status = "completed"
                  /\ db[m].optimised
                  /\ db[m].variants = <<>>
                  /\ IsImage(db[m].mime)}

ListUnoptimised ==
  /\ backlog.pc = "idle"
  /\ backlogs < MaxBacklogs
  /\ \/ \E ids \in SUBSET Unoptimised :
          backlog' = [pc |-> "optimise", ids |-> ids]
     \/ "list" \in Faults /\ UNCHANGED backlog
  /\ backlogs' = backlogs + 1
  /\ UNCHANGED <<db, store, tasks, details, etags, wk, crashes>>

\* A failed enqueue is only logged; the next id follows.
EnqueueListed_ResizeOnly(pc, kind) ==
  /\ backlog.pc = pc
  /\ \E m \in backlog.ids :
       /\ backlog' = [backlog EXCEPT !.ids = @ \ {m}]
       /\ Enqueue(ResizeTask(m))
  /\ UNCHANGED <<db, store, details, etags, wk, crashes, backlogs>>
EnqueueListed(pc, kind) ==
  /\ backlog.pc = pc
  /\ \E m \in backlog.ids :
       /\ backlog' = [backlog EXCEPT !.ids = @ \ {m}]
       /\ \/ Enqueue([kind |-> kind, media |-> m])
          \/ "enqueue" \in Faults /\ UNCHANGED tasks
  /\ UNCHANGED <<db, store, details, etags, wk, crashes, backlogs>>

ListImages ==
  /\ backlog.pc = "optimise"
  /\ backlog.ids = {}
  /\ \/ \E ids \in SUBSET ImagesWithoutVariants :
          backlog' = [pc |-> "resize", ids |-> ids]
     \/ "list" \in Faults /\ backlog' = [pc |-> "idle", ids |-> {}]
  /\ UNCHANGED <<db, store, tasks, details, etags, wk, crashes, backlogs>>

EndBacklog ==
  /\ backlog.pc = "resize"
  /\ backlog.ids = {}
  /\ backlog' = [pc |-> "idle", ids |-> {}]
  /\ UNCHANGED <<db, store, tasks, details, etags, wk, crashes, backlogs>>

\* What a backlog command does once it has begun.
BacklogGoesOn ==
  \/ EnqueueListed("optimise", "optimise")
  \/ ListImages
  \/ EnqueueListed("resize", "resize")
  \/ EndBacklog

BacklogStep == ListUnoptimised \/ BacklogGoesOn

-----------------------------------------------------------------------------
OptimiseStep(w) ==
  \/ OpenOriginal(w) \/ SaveTemp(w) \/ CopyTemp(w) \/ RemoveTemp(w)
  \/ RemoveOld(w) \/ StatNew(w) \/ UpdateOptimised(w) \/ EnqueueResizeImage(w)

ResizeStep(w) ==
  \/ MakeVariant(w) \/ SaveVariant(w) \/ StatVariant(w) \/ UpdateVariants(w)

WorkerStep(w) ==
  \/ \E t \in Task : Start(w, t)
  \/ OptimiseStep(w)
  \/ ResizeStep(w)
  \/ Uncache(w)
  \/ UncacheEtag(w)

Next ==
  \/ \E w \in Workers : WorkerStep(w) \/ Crash(w)
  \/ BacklogStep

Spec == Init /\ [][Next]_vars

\* The worker processes keep taking tasks and finish those they took.  Nothing
\* makes anybody run the backlog command, but one that was run goes on to its end.
Fairness ==
  /\ \A w \in Workers : WF_vars(WorkerStep(w))
  /\ WF_vars(BacklogGoesOn)

FairSpec == Spec /\ Fairness

-----------------------------------------------------------------------------
(* Properties *)

\* Some file of m is made from the content its metadata was read from.
Kept(m) ==
  \E e \in Extensions :
    LET o == store[db[m].bucket][FileKey(m, e)]
    IN  o # NoObject /\ Origin[o.blob] = Origin[db[m].meta]

\* However tasks fail, are repeated, overlap or die, no order of removals and
\* copies ever leaves a completed media without its content.
ContentNeverLost ==
  \A m \in Medias : db[m] # NoRow /\ db[m].status = "completed" => Kept(m)

\* Every variant a row lists has its object, made from the media's content.
VariantsStored ==
  \A m \in Medias : db[m] # NoRow =>
    \A i \in 1..Len(db[m].variants) :
      LET o == store[db[m].bucket][db[m].variants[i].key]
      IN  o # NoObject /\ Origin[o.blob] = Origin[db[m].meta]

\* Without a failing call, the object a completed row points to is missing only
\* while a worker is between removing the original and updating the row.
MissingOnlyMidSwap ==
  \A m \in Medias : db[m] # NoRow /\ db[m].status = "completed" =>
    \/ store[db[m].bucket][db[m].key] # NoObject
    \/ \E w \in Workers : wk[w].pc \in {"stat", "update"} /\ Media(w) = m

\* The life of a media as its row and its files tell it.
Stage(m) ==
  IF db[m] = NoRow THEN "gone"
  ELSE IF db[m].optimised THEN "optimised" ELSE db[m].status

Content(m) == IF db[m] # NoRow /\ Kept(m) THEN Origin[db[m].meta] ELSE Nil

L == INSTANCE MediaLifecycle WITH
       Contents <- Blobs, None <- Nil,
       stage    <- [m \in Medias |-> Stage(m)],
       content  <- [m \in Medias |-> Content(m)]

\* Tasks implement the life of a media: it is optimised once for all, no stale
\* copy of its row undoes that, and at no moment is its content lost, however
\* tasks fail, are repeated, overlap or die.
KeepsLifecycle == L!Spec

\* No variant is larger than the image it was made from, none is empty, and each
\* has its proportions, to less than a pixel.
VariantsFit ==
  \A m \in Medias : db[m] # NoRow => \A i \in 1..Len(db[m].variants) :
    LET v == db[m].variants[i]
        full == [width  |-> ImageWidth[db[m].meta],
                 height |-> ImageHeight[db[m].meta]]
    IN  /\ v.width >= 1 /\ v.width <= full.width /\ v.width <= v.key.width
        /\ v.height >= 1 /\ v.height <= full.height
        /\ v.height * full.width <= full.height * v.width
        /\ full.height * v.width < (v.height + 1) * full.width

\* Some configured width would leave the image b without a pixel of height: then
\* the resize task fails each time, and no width gets its variant.
TooFlat(b) ==
  \E i \in 1..Len(TargetWidths) :
    ImageHeight[b] * TargetWidths[i] < ImageWidth[b]

\* When the queue is empty and nobody works, an optimised image has a variant of
\* every configured width, although a repeated optimise task may have written
\* its list away; except for an image that is too flat.
QuietImagesHaveVariants ==
  (/\ \A t \in Task : tasks[t] = 0
   /\ \A w \in Workers : wk[w].pc = "idle") =>
     \A m \in Medias :
       (/\ db[m] # NoRow
        /\ db[m].optimised
        /\ IsImage(db[m].mime)
        /\ ~TooFlat(db[m].meta)) =>
          \A i \in 1..Len(TargetWidths) : \E j \in 1..Len(db[m].variants) :
            db[m].variants[j].key = VariantKey(m, TargetWidths[i])

\* Nothing is left for the worker to do for m.
Done(m) ==
  /\ db[m] # NoRow
  /\ db[m].optimised
  /\ IsImage(db[m].mime) =>
       \A i \in 1..Len(TargetWidths) : \E j \in 1..Len(db[m].variants) :
         db[m].variants[j].key = VariantKey(m, TargetWidths[i])

\* However tasks fail, are lost, overlap or die half-way, what they leave undone
\* is always something the backlog command looks for: no image is ever left with
\* variants of some widths only, which neither of its listings would return.
BacklogFindsMissed ==
  \A m \in Medias : db[m] # NoRow /\ db[m].status = "completed" =>
    Done(m) \/ m \in Unoptimised \cup ImagesWithoutVariants

\* A queued media ends optimised, whatever other tasks do on the same media.
QueuedIsOptimised ==
  \A m \in Medias : tasks[OptimiseTask(m)] > 0 ~> db[m] # NoRow /\ db[m].optimised

\* What a backlog command lists, it sees done, although nobody queued it before
\* and its tasks run beside others on the same media: a media without its
\* optimisation gets it, an image without variants gets them all unless it is
\* too flat.
ListedIsDone ==
  \A m \in Medias :
    /\ (backlog.pc = "optimise" /\ m \in backlog.ids)
         ~> (db[m] # NoRow /\ db[m].optimised)
    /\ (/\ backlog.pc \in {"optimise", "resize"}
        /\ m \in backlog.ids
        /\ ~TooFlat(db[m].meta)) ~> Done(m)

\* What the integration tests of the worker expect of the list of variants.
OneVariantPerWidth ==
  \A m \in Medias : db[m] # NoRow =>
    Len(db[m].variants) \in {0, Len(TargetWidths)}
=============================================================================
