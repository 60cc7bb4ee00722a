# A TLA+ model of medias-ms-go

medias-ms-go stores user files.  A client asks for an upload link, puts a file
in a staging bucket of an object storage (MinIO) and asks the service to
finalise it; the service checks the file, moves it to its bucket and records it
in a MariaDB table.  A worker then compresses the file and makes resized
variants of images.  Clients read the details of a media, with presigned
download links, through a Redis cache, and may delete it.

The service has no locks and no transactions.  A request or task is a sequence
of calls on three servers, any of which may fail, interleaved with the calls of
every other request and task on the same media, in several processes.  What
holds the data together is the order of the calls.  That is what these modules
model: **each call is one step**, and between two of them anything else may
happen.

## Inventory

| Part | State | Operations | What is hard | What makes it correct |
| --- | --- | --- | --- | --- |
| Upload links (`generate_upload_link.go`) | row `pending`, a link valid for 5 minutes | create row, presign | the link outlives the finalise | a pending row is as it was created |
| Finalisation (`finalise_upload.go`) | the request's copy of the row | stat, read, save, unstage, update, enqueue; clean up, mark failed | re-upload between the calls, overlapping requests, stale full-row updates, undoing a save, crashes | a completed row describes the stored object; a refused one leaves nothing; 204 is final; the row gets settled |
| Format rules (`config.go`) | – | types, extensions, sizes | boundaries | only accepted files complete |
| Repository (`media_repository.go`) | table `medias` | create, get, update, delete, two listings | `Update` writes every column | – |
| Storage adapter (`minio_storage.go`) | objects by bucket and key | stat, get, save, copy, remove, presign | an open reader only resumes on the same content | – |
| Task queue (`internal/task`) | waiting tasks | enqueue | no order, no deduplication, redelivery | – |
| Optimisation (`optimise_media.go`) | the task's copy of the row | compress to a temporary key, copy, remove, update, enqueue resize, invalidate | shared temporary key, original removed before the row is updated, repeats | content is never lost; a queued media ends optimised |
| Resizing (`resize_image.go`) | the task's copy of the row, list of variants | one variant per width, update, invalidate | lost updates of the list, repeats, a changing original, truncated heights | listed variants exist, in the image's proportions |
| Backlog (`optimise_backlog.go`) | – | list and enqueue, twice | runs beside queued and running tasks | finds whatever was left undone, and gets it done |
| Worker (`cmd/worker`) | ten tasks at a time | retry, shutdown | redelivery after a death | – |
| Cache (`internal/cache`) | body and ETag of each media | get, set, delete | two keys per media | – |
| Details (`get_media.go`, `http_renderer.go`) | – | read through the cache | stale fill after an invalidation, body and ETag from different fills, expiry of links | neither key keeps what is stale for good; links outlive the entry |
| Deletion (`delete_media.go`) | the request's copy of the row | remove variants, object, row, cache | races with everything above | nothing is left behind |
| Migrations (`internal/migration`) | schema version, dirty flag, the database's lock | up, force | half-applied scripts, runs at the same time | a clean version is applied; a run ends, and gives up only where it must |
| File optimiser (`internal/optimiser`) | a goroutine, a pipe and temporary files | compress, resize | either side failing at any chunk, a reader shared by several goroutines | nothing truncated is stored; the goroutine ends and its files go |
| Configuration (`internal/config`) | – | the lists of buckets and sizes | blank, repeated and unreadable entries | – |
| Authentication, handlers, processes | – | decisions, start and stop | order of checks, shutdown | – |

The parts share state only through the three servers: finalisation writes the
row and the object that optimisation reads, and enqueues its task; optimisation
enqueues resizing; both write the row back from the copy they loaded and
invalidate the cache that details are served from.

## Modules

| Module | Models |
| --- | --- |
| `MediaTypes` | rows, keys, objects, the format rules |
| `Settings` | the configured lists of buckets and image sizes |
| `Backend` | database, storage and queue, and the calls on them |
| `MediaLifecycle` | abstract: the life of a media as clients may rely on it |
| `Upload` | links, uploads and finalises |
| `UploadProofs` | theorems about `Upload`, and that it implements `MediaLifecycle` |
| `Cache` | the two cache keys of a media |
| `Pipeline` | optimise and resize tasks, the backlog command |
| `Details` | details requests, the expiry of links and cache entries |
| `Deletion` | delete requests |
| `Intake` | `Upload` and `Deletion` on one backend |
| `Service` | `Details`, `Deletion` and the tasks of `Pipeline` on one backend |
| `AtomicSaves` | abstract: what a task takes from Compress and Resize |
| `Stream` | the goroutine and the pipe behind Compress and Resize |
| `Migration` | the migration command |
| `PipelineProofs` | theorems about `Pipeline`, and that it implements `MediaLifecycle` |
| `QuietProofs` | what the pipeline has done when it rests, and that the backlog command finds the rest |
| `ServiceProofs` | theorems about `Service`, whatever fails and overlaps |
| `TidyProofs` | what deletions leave behind when no task overlaps with them |
| `IntakeProofs` | theorems about `Intake`, and that it implements `MediaLifecycle` |
| `StreamProofs` | theorems about `Stream`, and that it implements `AtomicSaves` |
| `MigrationProofs` | theorems about `Migration` |
| `MC...` | constants for TLC, one module for each component that is checked |

`Upload` and `Pipeline` meet in the row: `Pipeline` starts from every state a
finalise can leave.  `Service` and `Intake` compose modules by conjoining one's
action with the others' variables unchanged.  `Stream` looks inside two steps of
`Pipeline`; `Migration` shares nothing with the rest but the database.

### Data

A blob stands for a file's content.  It has a size and decodes as an image, as a
PDF or as neither; what `fillMetadata` extracts is determined by it, so the row's
`meta` is the blob the metadata was read from.  `Origin` relates what the
optimiser writes to the upload it was made from.  Keys are records instead of
strings (`FileKey(m, ".png")` is `<id>.png`), one kind per form the code builds.
The columns nobody decides on (file name, failure message, timestamps) are left
out.  An image has a width and a height, which `fillMetadata` measures; a variant
has those `ResizeImage` computes.  `UpdatedRow` keeps the SQL of `Update`: all columns, and no error when the
row is gone.

### Upload

`fin[f]` is one request: its `pc` names the next call and the other fields are
the local variables of `FinaliseUpload` (`media`, `info`, `metadata`).

| Action | Code |
| --- | --- |
| `CreateRow`, `Presign` | `GenerateUploadLink` |
| `Put`, `Expire` | the client with its link |
| `BeginFinalise`, `ReplyAtOnce` | `GetByID` and the early returns |
| `StatFile` | the stat and the checks of size and type |
| `ReadMetadata`, `SaveFile`, `RemoveStaged`, `UpdateRow`, `UndoSave` | `moveFile` |
| `EnqueueOptimiseMedia` | the last call before the 204 |
| `CleanupFile`, `MarkAsFailed` | the deferred function, which runs when `finalErr` is set |
| `Crash` | the process dies, or the shutdown cuts the request off; nothing deferred runs |

`Rewinds` is the reader `SaveFile` is given: opened once, read for the metadata,
rewound.  A resumed download carries the ETag it began with, so the save fails
when the staged object has changed; and a body that is not as long as announced
is refused.  Both are behaviour of the storage client and server.

Every call has a fault, enabled by `Faults`.  With `save_unsure` and
`update_unsure` a call takes effect and is reported as failed.

### Pipeline

`wk[w]` is one task in progress, again with a `pc` and its local variables.
`tasks` counts the waiting ones.  `Fail` is an error returned to asynq, which
retries or in the end archives the task; `Crash` puts the task back.
`OpenOriginal` ... `EnqueueResizeImage` are the calls of `OptimiseMedia` in
order, `MakeVariant`, `SaveVariant`, `StatVariant` the body of the loop of
`ResizeImage` and `UpdateVariants` what follows it; `Uncache` and `UncacheEtag`
end both.  `Compress` and `Resize` run in a goroutine that streams into the save,
so their failure is a failure of the save: `Stream` shows that this is so.  The backlog command is a process of
its own; whether a media is older than its cutoff of an hour is left open, so
each listing returns any part of the rows that match.

`TargetWidths` are the configured sizes (`Settings!ImagesSizes`) without those that
are not positive.  `VariantHeight` cuts the fraction off, as the conversion to `int`
does: an image that is too flat for a width gets a height of zero there, which
`SaveVariant` refuses, as the encoder does.  Such an image never gets any variant.
`VariantsFit` and `QuietImagesHaveVariants` are about dimensions, the latter
except for images that are `TooFlat`.

`Init` is what finalisation leaves behind: completed rows with their object in any
of the configured buckets, the optimise task queued or, when the enqueue failed,
not.  A client may also ask for `staging` as the destination.

Lost work is what the backlog command is for: an enqueue that fails is only
logged, and tasks may fail for good half-way.  `BacklogFindsMissed` says that its
two queries are enough to find it: a completed media is `Done`, or not optimised,
or an optimised image with an *empty* list of variants.  This would not hold if a
list could be left with some widths only, since the second query asks for
`JSON_LENGTH(variants) = 0`; it holds although stale copies of the list are written
back, because a resize task writes all its widths at once.  `ListedIsDone` says
that what the command lists gets done, when nothing fails: the media need not have
been queued before, and may be at work in other tasks.

### Details, Deletion and Service

`get[r]` is one details request.  `BeginGet` and `GetEtag` look up the two keys,
`GetRow` and `Render` are `GetMedia`, `FillDetails` and `FillEtag` the two writes
of `RenderGetMedia`, `Respond` the handler.  A body is the row it renders and the
ticks its links are still valid for (`Rendering`).  The ETag is a checksum of the
body, so it is kept as that same record: two fills that overlap can leave the
body of one with the ETag of the other, which is why `GetEtag` answers a pair.
`Tick` lets time pass: links age, and Redis drops the entries that reach
`ValidUntil`, which is `Margin` before their links end.  One tick stands for five
minutes, which makes `Margin` (`get_media.go:52`) and `MaxAge` (the handler's
`max-age=300`) one tick each.

`ReadersKeepUp` is the one assumption about time: no request is still filling the
cache when what it rendered expires, nor still answering a tick after that.
Requests take seconds.

`del[d]` is one delete request, with the calls of `DeleteMedia` as its actions in
their order.  `Deletion` has no guard against tasks, as the code has none;
`Service` adds `ExclusiveDelete`, under which a task neither works on a media while
it is deleted nor is at work when a deletion begins, for the run that asks what
a deletion leaves behind.  `failed` is a history variable: the medias that a
delete request which was answered 500 has left with their row.  It is the one
excuse `MissingIsExplained` accepts once nobody is at work any more.  To look for
that answer among the delete requests instead would not do, since a request slot
that goes on to another media forgets it.

`Service` composes the actions of the three: `P == INSTANCE Pipeline` on the same
variables, each action leaving the local state of the other parts alone.  It
begins with finalised medias, as `Pipeline` does.  The backlog command is not
part of it: what it would add are tasks that run again, which a dying worker adds
too.

### The life of a media

`MediaLifecycle` says in six actions what all of this is for: a media is
registered, accepted with a content or refused, for good; once accepted it may be
optimised, once for all, and keeps its content; what is deleted never comes back.
Three modules are shown to implement it, each with `L == INSTANCE MediaLifecycle
WITH ...` and `KeepsLifecycle == L!Spec`:

* `Upload`: the stage is the status of the row; the content is that of the object
  the row names.  A finalise whose copy of the row is stale, a re-upload and a
  repeat must all be stutters.
* `Pipeline`: the content is that of *any* file of the media (`Kept`), since the
  object the row names is missing during a swap.  A task that writes back an
  older copy of the row would step from `optimised` back to `completed`, which
  `MediaLifecycle` has no action for.
* `Intake`: as `Upload`, but the content is what the row's metadata was read from
  and a media is still `pending` while a finalise takes its work back (`Undoing`).
  With `update_unsure` the update of a row is applied and reported as failed, so
  the row says `completed` for the moment until `MarkAsFailed`; it is not accepted
  yet, as no client was told so.

Under overlapping finalises `Upload` does not implement it: that is what
`upload_repeat` shows.

### Intake

`Deletion` checks no status, so a media may be deleted before, while and after it
is finalised.  `Intake` runs both on one backend.  `raced` is a history variable:
the medias on which both were at work at the same time.  `NoOrphans` excludes
those, because in that race the code does leave a file without a row: the
finalise saves its file after the delete request has removed the row, its update
changes no row and reports no error.  The other properties hold in the race too.

### Stream

A task (`caller`) opens the original and makes rounds: one for `OptimiseMedia`, one
for each width for `ResizeImage`.  A round starts a goroutine (`job[i]`), which reads
the original chunk by chunk, converts it and writes to a pipe whose other end
`SaveFile` reads; `StartRound`, `PutObject`, `PutFails`, `SaveFails`,
`CloseCompressed` and `CloseOriginal` are the task's side, the other actions the
goroutine's.  A `Write` waits for its reader (`WritePipe` is one step of both)
unless the reader is closed.  `end` is the memory of `io.Pipe`: the first of
`CloseWithError` and `Close` counts, which is why the deferred `Close` of a failed
goroutine is not an end of file.  `temp` and `defers` are the temporary files of a
PDF and which of them a deferred function removes.

`AtomicSaves` is what `Pipeline` takes for granted in two of its steps: an object is
stored whole or not at all, in order, and a task that goes on has stored every
one.  `SavesAtomically` is that refinement.

### Migration

`run[r]` is one run of `cmd/migrate`: `MigrateUp`, over golang-migrate's `Up` and
`Force`, which are external and modelled from what `up.go` relies on: each holds
the lock of the database, `Up` refuses a dirty version, marks a version dirty
before it runs its script and clean after it.  A script is a sequence of statements
that take effect one by one (DDL commits), of which some may be run again and
others, like `ADD COLUMN`, fail if they are.  `MeetDirty`, `PreviousVersion` and the
single retry are the code of `up.go`.  Versions are their positions in the
embedded directory.  `hit` is a history variable: a call of the run failed by itself.

`CleanIsApplied` is what `Force` puts at risk, since the version it sets is computed
before the lock was taken again: it never claims more than what was applied.
`FailureExplained` lists all the reasons for which a run may give up: among them
that the first script was interrupted, for which `getPreviousVersionFromDirty`
finds no version to go back to, and that a statement that cannot be repeated was.

## Runs

| Run | Asks | Result |
| --- | --- | --- |
| `upload_faults` | every call failing, crashes, re-uploads at any moment, one finalise of a media at a time | `RowWellFormed`, `CompletedIsStored`, `AcceptedIsCompleted`, `KeepsLifecycle` hold |
| `upload_overlap` | two finalises of one media at a time, to any buckets | `CompletedIsBacked` holds, `BegunIsSettled` holds under fairness |
| `upload_repeat` | the same, nothing failing | `AcceptedIsCompleted` is violated |
| `intake` | a finalise and two delete requests, calls failing, including an update that was applied | `RefusedLeavesNothing`, `QueuedOnce`, `DeletedHasNoRow`, `NoOrphans`, `KeepsLifecycle` hold |
| `pipeline_faults` | every call failing, two deaths of workers, tasks repeated by the backlog command | `ContentNeverLost`, `VariantsStored`, `BacklogFindsMissed`, `KeepsLifecycle` hold |
| `pipeline_calm` | no failure, tasks of one media overlapping | `MissingOnlyMidSwap`, `VariantsFit`, `QuietImagesHaveVariants` hold, `QueuedIsOptimised`, `ListedIsDone` hold under fairness |
| `pipeline_repeat` | tasks repeated, no failure | `OneVariantPerWidth` is violated |
| `service_faults` | every call of details and delete requests failing, crashes, deletions in the middle of tasks | `ServedLinksLive`, `DeletedHasNoRow` hold |
| `service_calm` | only the last call of a deletion failing, two details requests, no task on a media being deleted | `DeletedHasNoFile`, `MissingIsExplained`, `ServedLinksLive` hold, `DetailsSettle` holds under fairness |
| `service_stale` | one details request, one media's tasks, no failure | `QuietDetailsAreFresh` is violated |
| `stream` | a task of each kind, either side failing at any chunk | `OneReader`, `TempFilesGone`, `SavesAtomically` hold, `EveryGoroutineEnds` holds under fairness |
| `migration` | three runs, every call failing, two deaths | `CleanIsApplied`, `SuccessMeansMigrated`, `FailureExplained` hold, `EveryRunEnds` holds under fairness |

### What the violations show

* `upload_repeat`.  A second finalise that begins while the first is running
  reads the row as pending.  The first completes and is answered 204; the second
  finds the staged file gone and `markAsFailed` writes its pending copy, now
  failed, over the completed row.  `finalise_upload_test.go:375` says a second
  call is a no-op; that holds only once the first has returned.
* `pipeline_repeat`.  `ResizeImage` appends to the variants the row already has.
* `service_stale`.  A details request loads the row, the task updates it and
  invalidates the cache, and the request fills the cache with the old row.
  README.md:63 says the details show the outcome once the tasks have finished.
  `DetailsSettle` says how far it goes: until the entry expires, almost two hours
  later, for the body and for the ETag, which may be of another fill.

`OptimiseMedia` removes the original before it updates the row.
`MissingOnlyMidSwap` says how far that goes: without failures, the row names a
missing object only from the removal to the update.  With a failure in between it
dangles for good, as the retry cannot open the original; `ContentNeverLost` says
that the content is still there, under the new key.

### Bounds, and why they are enough

No operation relates two medias: every call carries one id, keys contain it, and
nothing is shared across ids.  One media is therefore enough; the theorems hold
for any set of medias.  Two requests, and two workers, are the fewest that
interleave; the hazards listed in `PROJECT.json` need no third.  The objects a client uploads
cover both sides of each check: good and undecodable, too small and too large by
one, of a type that is refused, of two types that decode alike.  In the pipeline
there is an image whose key changes, one whose key stays and a text; one width
is skipped, one shrinks the image and one copies it; the sizes are configured with
a blank and an unreadable entry, the buckets with a repeated one.  `pipeline_calm`
has an image that is too flat.  `pipeline_faults` keeps two files, and the second
compression of a file gives the same file again, to stay small.  `pipeline_faults`
and `service_faults` configure one bucket (`staging`, which is always there), the
other runs on the pipeline two, and begin with a media in either.

`MaxBacklogs` bounds the runs of the backlog command (one: it is what makes two
optimise tasks overlap) and `MaxCrashes` the deaths of workers (two in
`pipeline_faults`, so that the task a dead worker leaves can be cut off again).
Retries are not bounded.  Finalised tasks are never consumed in `Upload` and
`Intake`, where `QueuedOnce` bounds them.  In `intake` two delete requests are what
it takes to delete twice at once and beside a finalise; finalises of one media
overlap in `upload_overlap`.

In `stream` a file has three chunks and a resize task three widths: a first, a
middle and a last of each, and either side may stop after any of them.  In `migration` there are three runs, one to leave the schema dirty, two to
repair it at the same time, and four scripts, one of each form of the seven in
`migrations/`.  Two deaths leave two of the runs dead at any point.

`LinkTTL` is 2 ticks where the code has 24 (two hours): an entry then lives for one
tick, and everything the properties tell apart (a live entry, an expired entry
with live links, dead links) happens.  `service_faults` has one details request,
since a failed write leaves body and ETag of different renderings behind as two
requests do in `service_calm`, and one variant; `service_calm` has two requests and
two variants.

`pipeline_*` and `service_*` runs do not check for deadlock: the service rests
when no client asks and the queue is empty.  Nor do `stream` and `migration`, whose
processes end.  Symmetry is used only between requests or workers and only in runs
without liveness properties.

### Fairness

`Upload!Fairness`: a request that was accepted is served until it is answered,
as the Go runtime schedules its goroutine; `BegunIsSettled` is checked with calls
that may fail, but without failures of the database or crashes, with which it
cannot hold.  Clients owe nothing.  `Pipeline!Fairness`: the worker process takes
tasks and goes on with those it took.  Nobody is obliged to run the backlog
command, so `QueuedIsOptimised` speaks of tasks that were enqueued; but a command
that was run goes on to its end, which is what `ListedIsDone` relies on.
`Service!Fairness`: the same for the worker, for requests once they began, and time
passes.  Clients owe no request, and `DetailsSettle` holds although they may go
on asking for ever.  `Stream!Fairness`: goroutines run and calls on storage and
file system return, but nothing has to fail by itself (`SaveFails` and `EncodeFails`
are not part of it), so that whoever waits for the other end of a pipe is only
freed by what the code does.  `Migration!Fairness`: calls on the database return;
the lock is waited for, or the wait times out, which is the fault `lock`.

## Proofs

The theorems hold for every value of the constants: any number of medias,
workers, requests and runs, any configured sizes, any contents, any faults.  Each
stands on an inductive invariant, a conjunction of named parts.  Its proof has
one step per action; lemmas say once what a step that touches only one row, one
object or one process preserves.  An invariant that is about what a process
holds takes the process, the table and the storage as arguments, so that it can
be carried from a state to the next.  All these invariants were model-checked
before they were proved.

### What is assumed

Apart from the constants' own `ASSUME`s, which TLC evaluates on every run:

| Theorems | Condition | Why |
| --- | --- | --- |
| `CompletedMediasAreStored`, `AcceptedMediasAreCompleted`, `UploadsKeepLifecycle` | `ExclusiveFinalise`, no `update_unsure` | `upload_repeat` shows the first; with the second a failing `markAsFailed` leaves a completed row whose object was removed |
| `CompletedMediasAreBacked` | no `update`, no `update_unsure` | a finalise whose update fails removes the object it saved, which may be the one an overlapping finalise has recorded |
| `MissingOnlyInSwap`, `QuietImagesAreResized` | `Faults = {}` | a task that fails between removing the original and updating the row leaves it dangling; a lost enqueue leaves an image without variants |
| `TasksRunAlone`, `DeletedMediasLeaveNothing`, `MissingFilesAreExplained` | `ExclusiveDelete`, `Faults = {}` | a task that overlaps with a deletion saves files after it; one that fails half-way leaves files no row names |
| `DeletedMediasLeaveNothing` | no `remove_variant`; `NoneFlat` | a variant whose removal fails is only logged; the resize task of an image too flat for one of the widths gives up there, and the variants it made before are in no row |
| `MissingFilesAreExplained` | no `crash` of a deletion | nobody is told of a deletion that was cut off |
| `RefusedUploadsLeaveNothing`, `TasksAreQueuedOnce`, `NoFilesAreOrphaned`, `IntakeKeepsLifecycle` | `ExclusiveFinalise` | overlapping finalises of a media refuse what one of them has accepted (`upload_repeat`) |
| `RefusedUploadsLeaveNothing`, `NoFilesAreOrphaned` | `FilesAreKept`: no `undo`, `save_unsure`, `crash` of a finalise | `moveFile` tries once to remove what it saved, and not at all when the save was reported failed; a finalise that dies leaves what it saved |
| `TasksAreQueuedOnce` | `TasksAreKept`: no `enqueue`, `mark`, `crash` of a finalise | a lost enqueue is only logged, and is what the backlog command is for; when the update was applied but reported failed and the refusal is not written, the row stays completed without a task |

Each of the faults that `FilesAreKept` and `TasksAreKept` exclude breaks the
properties by itself: TLC finds the counterexample as soon as it is enabled beside
those of moves and updates.  `IntakeInvariant`,
`IntakeTypeCorrect` and `DeletedIsNotFinalised` need no condition.

`PipelineAssumption` says of `TargetWidths` that they are positive widths, which
follows from its definition only by induction over the configured entries.

### `UploadProofs`

* `TypeCorrect`, `RowsAreWellFormed`: neither `TypeOK` nor `RowWellFormed` is
  inductive, since what a request writes depends on what it holds.  `RowInv` adds
  `Locals`, which relates the locals of a request to its `pc` (a copy of a pending
  row; a size and type that passed the checks; metadata of a content that
  decodes).
* `CompletedMediasAreStored`, `AcceptedMediasAreCompleted`: a completed row
  describes the stored object and a 204 is final.  `StoreInv` adds that at most one
  request works on a media (`Alone`), that after the save the object under its
  new key is the one it will describe (`HeldBy`), that a request past the check
  works on a row still pending, and what its early answer knew (`AcceptedBy`).
* `CompletedMediasAreBacked`: finalises may overlap.  The argument is about keys
  instead of requests: the key determines the type, so however many requests save
  under it, the object there has the type a row with that key claims.
* `UploadsKeepLifecycle`: the refinement of `MediaLifecycle`, on `StoreInv`.

### `PipelineProofs` and `QuietProofs`

Two tasks on one media hold two copies of its row, both stale.  `IInv` judges
every copy against the table and the storage as they are *now* (`CopyOf`): it may
be written back at any later moment, so bucket and metadata must be the row's,
its variants must be stored, and a copy that is marked optimised must name an
object.  This is kept because the keys such a copy names are `Lasting`: no task
removes them.  `Held` says that the object of a row, or the one it was converted
to, is there; a task that removes an original has stored its replacement
(`Local`).  Resize tasks exist only for optimised medias, which is why their
writes do not undo an optimisation.

* `ContentIsNeverLost`, `ListedVariantsAreStored`, `ListedVariantsFit` and
  `TasksKeepLifecycle` follow, whatever fails, repeats, overlaps or dies.
  `ListedVariantsFit` is the arithmetic of the truncated heights, for any
  dimensions and widths.
* `MissingOnlyInSwap` adds that only a worker on its way from the removal to the
  update, whose copy names the removed key, explains a missing object.
* `QuietImagesAreResized`: a repeated resize task may overwrite a full list with a
  shorter one of its own, so "the list is full once a resize task is done" is not
  invariant.  What is: a media that lacks a variant has a resize task queued, or a
  worker that will list them all or enqueue such a task (`Owed` implies `Due`).
* `MissedIsFound`: the same lists without any condition on faults.  Wherever a list
  of variants is written, it was read as a whole or made as one: every list, in the
  table or in a worker's copy, is empty or names every width (`Whole`), except the
  one a resize task is filling, which has the widths it has passed (`Passed`).

### `ServiceProofs` and `TidyProofs`

* `ServiceTypeCorrect`, `DeletedStaysDeleted`, `ServedLinksAreLive`: with every call
  failing and deletions in the middle of tasks.  No step makes a row out of none,
  however old the copy that is written back.  A reader's two halves were valid
  when it last looked at them, wherever they came from, and age no further than
  `ReadersKeepUp` allows.
* `TasksRunAlone` is the invariant of a quieter world, `CalmInv`: a media has one
  task at a time, queued or at work (`Serial`: an optimise task enqueues the resize
  task as its last step before it drops the cache), none while it is deleted or
  after (`Apart`), and the task finds row and files as the one before left them
  (`Current`, `Present`), so none fails.
* `DeletedMediasLeaveNothing`: every file of a media is named by its row or has been
  made by the one task at work on it (`Accounted`), and what a delete request has
  gone through is gone (`Clearing`).
* `MissingFilesAreExplained`: `Explained` is `MissingIsExplained` for all rows; it
  is inductive together with `CalmInv`.

### `IntakeProofs`

* `IntakeInvariant`, `IntakeTypeCorrect`, `DeletedIsNotFinalised`: with every fault,
  and with finalises of a media overlapping.  A finalise writes its copy of the row
  back however long ago the row was deleted; `UPDATE` then changes no row, and only
  `CreateRow` makes one.  So `IInv` must say that `CreateRow` is never enabled for a
  media that a request works on, or that was deleted: whatever has a row, a request
  or a 204 is `Known`, its link is no longer unused (`RowsOK`, `FinalisersOK`,
  `DeletersOK`).
* `CalmInv` is the invariant of finalises that do not overlap.  A media has at most
  one at work (`Alone`), whose `pc` tells what it finds: a row it has not completed
  yet, or none if the media is in `raced`; no file, or only the one it saved; no
  task (`Holds`).  Without one at work, the media is at rest (`Rest`): the only file
  is the one its row names, and the tasks are as many as the row's status says.
  Each call of a finalise must lead from `Holds` to `Holds`, and the last to `Rest`.
  A delete request only takes away, so `Holds` and `Rest` survive it; but where it
  deletes the row of a media at rest, its file must be gone.  That is `Clears`: the
  row is still the one the request read, so the object it has removed is the row's.
  A finalise that overlaps breaks this, which is what `raced` excuses.
* `RefusedUploadsLeaveNothing`, `TasksAreQueuedOnce`, `NoFilesAreOrphaned` follow
  from `CalmInv`.  `FilesAreKept` and `TasksAreKept` guard the parts of `Holds` and
  `Rest` about files and tasks; the part about rows holds with every fault.
* `IntakeKeepsLifecycle` stands on that part: while a finalise takes its work back,
  the row is pending or its own completion (`HoldsRow`), so that `MarkAsFailed` is a
  refusal, and a death at that moment an acceptance.

### `StreamProofs` and `MigrationProofs`

* `ReaderIsNotShared`, `TempFilesAreRemoved`, `StreamsAreAtomic`: for files of any
  length and any number of widths.  `EndIsTrue` is the heart of it: a pipe signals
  the end of the file only after all of it was written, because an error is
  recorded before the deferred `Close`.  `TempFilesGone` needs to know which
  temporary files there are and which removals are deferred at every step
  (`TempFiles`).  The refinement of `AtomicSaves` follows from `EndIsTrue` and
  `RoundsBefore`.
* `CleanVersionsAreApplied`, `SuccessIsWholeSchema`, `FailuresAreExplained`: for any
  scripts and any number of runs at once.  `Recorded` is the truth of the version
  table; `Knows` is what a run may still rely on after it has let go of the lock,
  which is that what was applied stays so.  `FailuresAreExplained` needs `Blamed`:
  a dirty version always has a run that left it, which the run that gives up on it
  may point to.

### Only model-checked

Liveness (`BegunIsSettled`, `QueuedIsOptimised`, `ListedIsDone`,
`DetailsSettle`, `EveryGoroutineEnds`, `EveryRunEnds`), which is out of the prover's reach; every other
property of a passing run is also a theorem.  What the recursive definitions compute (`Settings`) would
need induction over data, which the prover's library states with operator
parameters that no installed backend can instantiate.

## Not modelled

See `PROJECT.json` for each component.  Start-up, logging, serialisation and
validation of payloads have no behaviour over time, and neither has the
authentication of a request, which depends on its token and a key that never
changes.  The order of a shutdown (`runWorker` waits its full thirty seconds
whether or not the tasks are done) only takes time; what it
cuts off is the death of a request or a task, which every module has.  Duplicate
delivery of a task whose lease expired while its worker still runs is covered by
the overlap of repeated tasks, not by an action of its own.
