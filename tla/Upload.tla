------------------------------- MODULE Upload --------------------------------
(***************************************************************************)
(* How a file enters the service.                                          *)
(*                                                                         *)
(*   POST /medias/generate_upload_link   GenerateUploadLink                *)
(*   PUT  <presigned url>                the client, straight to storage   *)
(*   POST /medias/finalise_upload/{id}   FinaliseUpload                    *)
(*                                                                         *)
(* A finaliser is one HTTP request being served: a goroutine of the API,   *)
(* in any number of API processes.  Every call it makes to the database,   *)
(* the storage or the queue is one step, so that requests and uploads      *)
(* interleave between the calls exactly as they may in the code, which     *)
(* takes no lock.  Each call may fail when its fault is enabled; a request *)
(* context that is cancelled fails the calls that follow it, one outcome   *)
(* among those.                                                            *)
(*                                                                         *)
(* Operators named X_Y are faulty versions of X, one plausible slip each.  *)
(***************************************************************************)
EXTENDS Backend

CONSTANTS
  Finalisers,         \* finalise requests served at the same time
  Uploads,            \* the objects clients may put in the staging bucket
  Faults,             \* the faults that may happen, of AllFaults
  ExclusiveFinalise   \* TRUE: clients never overlap two finalises of a media

\* One fault per call; in the "unsure" ones the call takes effect and its caller
\* is told that it failed (a lost answer, a context cancelled on the way).
AllFaults ==
  {"create", "presign", "get", "stat", "read", "save", "unstage", "update",
   "undo", "enqueue", "cleanup", "mark", "save_unsure", "update_unsure",
   "crash"}

ASSUME UploadAssumption ==
  /\ Uploads \subseteq Object
  /\ Faults \subseteq AllFaults
  /\ ExclusiveFinalise \in BOOLEAN
  /\ Nil \notin Medias
  /\ Nil \notin Buckets

VARIABLES
  link,   \* link[m]: what became of the presigned upload link of media m
  fin     \* fin[f]: the local state of finaliser f

vars == <<db, store, tasks, link, fin>>

LinkState == {"unused", "minting", "live", "dead"}

Active == {"stat", "read", "save", "unstage", "update", "undo", "enqueue",
           "cleanup", "mark"}

\* 204, 404, 500
Reply == {"none", "ok", "not_found", "error"}

\* What StatFile returns.
Info == [type : MimeTypes, size : Nat]

Idle(reply, m) ==
  [pc |-> "idle", reply |-> reply, id |-> m, dest |-> Nil, media |-> Nil,
   info |-> Nil, meta |-> Nil]

FinaliserState ==
  [pc    : Active \cup {"idle"},
   reply : Reply,
   id    : Medias \cup {Nil},
   dest  : Buckets \cup {Nil},
   media : Row \cup {Nil},     \* the row as GetByID returned it
   info  : Info \cup {Nil},
   meta  : Blobs \cup {Nil}]

TypeOK ==
  /\ BackendTypeOK
  /\ link \in [Medias -> LinkState]
  /\ fin \in [Finalisers -> FinaliserState]

Init ==
  /\ BackendInit
  /\ link = [m \in Medias |-> "unused"]
  /\ fin = [f \in Finalisers |-> Idle("none", Nil)]

-----------------------------------------------------------------------------
(* GenerateUploadLink *)

PendingRow(m) ==
  [key |-> RawKey(m), bucket |-> Staging, mime |-> Nil, size |-> Nil,
   status |-> "pending", optimised |-> FALSE, meta |-> Nil,
   variants |-> <<>>]

\* The id is new.  When the INSERT fails it is never heard of again.
CreateRow(m) ==
  /\ link[m] = "unused"
  /\ \/ /\ db[m] = NoRow
        /\ RepoCreate(m, PendingRow(m))
        /\ link' = [link EXCEPT ![m] = "minting"]
     \/ /\ "create" \in Faults
        /\ link' = [link EXCEPT ![m] = "dead"]
        /\ UNCHANGED db
  /\ UNCHANGED <<store, tasks, fin>>

\* When presigning fails, or the process dies, the row stays without a link.
Presign(m) ==
  /\ link[m] = "minting"
  /\ \/ link' = [link EXCEPT ![m] = "live"]
     \/ /\ Faults \cap {"presign", "crash"} # {}
        /\ link' = [link EXCEPT ![m] = "dead"]
  /\ UNCHANGED <<db, store, tasks, fin>>

-----------------------------------------------------------------------------
(* The client's use of the link: any number of uploads for five minutes,   *)
(* before, during and after a finalise                                     *)

Put(m, o) ==
  /\ link[m] = "live"
  /\ StoreSave(Staging, RawKey(m), o)
  /\ UNCHANGED <<db, tasks, link, fin>>

Expire(m) ==
  /\ link[m] = "live"
  /\ link' = [link EXCEPT ![m] = "dead"]
  /\ UNCHANGED <<db, store, tasks, fin>>

-----------------------------------------------------------------------------
(* FinaliseUpload *)

Staged(f) == store[Staging][fin[f].media.key]

NewKey(f) == FileKey(fin[f].id, MimeTypeToExtension(fin[f].info.type))

\* The reader SaveFile is given restarts the download of what was read for the
\* metadata, and fails when the staged object is no longer the same content;
\* a PUT whose body has not the announced length is refused.
Rewinds_Unpinned(f) == Staged(f) # NoObject
Rewinds(f) ==
  /\ Staged(f) # NoObject
  /\ Staged(f).blob = fin[f].meta
  /\ Size[fin[f].meta] = fin[f].info.size

SavedObject_ByExtension(f) ==
  [type |-> MimeTypeToExtension(fin[f].info.type), blob |-> Staged(f).blob]
SavedObject(f) == [type |-> fin[f].info.type, blob |-> Staged(f).blob]

\* `updated` in moveFile
CompletedRow_OldBucket(f) ==
  [fin[f].media EXCEPT !.key = NewKey(f), !.status = "completed",
                       !.size = fin[f].info.size, !.mime = fin[f].info.type,
                       !.meta = fin[f].meta]
CompletedRow(f) ==
  [fin[f].media EXCEPT !.key = NewKey(f), !.bucket = fin[f].dest,
                       !.status = "completed", !.size = fin[f].info.size,
                       !.mime = fin[f].info.type, !.meta = fin[f].meta]

FailedRow(f) == [fin[f].media EXCEPT !.status = "failed"]

Goto(f, pc) == fin' = [fin EXCEPT ![f].pc = pc]

Finish(f, reply) == fin' = [fin EXCEPT ![f] = Idle(reply, fin[f].id)]

\* Whether a finalise of m may start while others run.
MayFinalise(m) ==
  ExclusiveFinalise => \A g \in Finalisers : fin[g].pc # "idle" => fin[g].id # m

\* GetByID finds a pending row: the request goes on with its copy of it.
BeginFinalise_Retry(f, m, b) ==
  /\ fin[f].pc = "idle"
  /\ MayFinalise(m)
  /\ db[m] # NoRow
  /\ db[m].status # "completed"
  /\ fin' = [fin EXCEPT ![f] = [Idle("none", m) EXCEPT
               !.pc = "stat", !.dest = b, !.media = db[m]]]
  /\ UNCHANGED <<db, store, tasks, link>>
BeginFinalise(f, m, b) ==
  /\ fin[f].pc = "idle"
  /\ MayFinalise(m)
  /\ db[m] # NoRow
  /\ db[m].status = "pending"
  /\ fin' = [fin EXCEPT ![f] = [Idle("none", m) EXCEPT
               !.pc = "stat", !.dest = b, !.media = db[m]]]
  /\ UNCHANGED <<db, store, tasks, link>>

EarlyReply_FailedToo(m) == IF db[m] = NoRow THEN "not_found" ELSE "ok"
EarlyReply(m) ==
  IF db[m] = NoRow THEN "not_found"
  ELSE IF db[m].status = "completed" THEN "ok" ELSE "error"

\* GetByID finds no row, a completed or a failed one, or fails itself.
ReplyAtOnce_Requeue(f, m) ==
  /\ fin[f].pc = "idle"
  /\ MayFinalise(m)
  /\ db[m] # NoRow => db[m].status # "pending"
  /\ fin' = [fin EXCEPT ![f] = Idle(EarlyReply(m), m)]
  /\ IF EarlyReply(m) = "ok" /\ tasks[OptimiseTask(m)] < 2
     THEN Enqueue(OptimiseTask(m)) ELSE UNCHANGED tasks
  /\ UNCHANGED <<db, store, link>>
ReplyAtOnce(f, m) ==
  /\ fin[f].pc = "idle"
  /\ MayFinalise(m)
  /\ \/ /\ db[m] # NoRow => db[m].status # "pending"
        /\ fin' = [fin EXCEPT ![f] = Idle(EarlyReply(m), m)]
     \/ /\ "get" \in Faults
        /\ fin' = [fin EXCEPT ![f] = Idle("error", m)]
  /\ UNCHANGED <<db, store, tasks, link>>

StatFile(f) ==
  /\ fin[f].pc = "stat"
  /\ LET acceptable == /\ Staged(f) # NoObject
                       /\ SizeAllowed(Size[Staged(f).blob])
                       /\ IsMimeTypeAllowed(Staged(f).type)
     IN \/ /\ acceptable
           /\ fin' = [fin EXCEPT ![f].pc = "read",
                        ![f].info = [type |-> Staged(f).type,
                                     size |-> Size[Staged(f).blob]]]
        \/ /\ ~acceptable \/ "stat" \in Faults
           /\ Goto(f, "cleanup")
  /\ UNCHANGED <<db, store, tasks, link>>

\* GetFile only opens the object: fillMetadata is what reads it.
ReadMetadata_InPlace(f) ==
  /\ fin[f].pc = "read"
  /\ IF Staged(f) # NoObject /\ Decodable(fin[f].info.type, Staged(f).blob)
     THEN fin' = [fin EXCEPT ![f].pc = "save", ![f].meta = Staged(f).blob,
                             ![f].media.meta = Staged(f).blob]
     ELSE Goto(f, "cleanup")
  /\ UNCHANGED <<db, store, tasks, link>>
ReadMetadata(f) ==
  /\ fin[f].pc = "read"
  /\ LET readable == /\ Staged(f) # NoObject
                     /\ Decodable(fin[f].info.type, Staged(f).blob)
     IN \/ /\ readable
           /\ fin' = [fin EXCEPT ![f].pc = "save", ![f].meta = Staged(f).blob]
        \/ /\ ~readable \/ "read" \in Faults
           /\ Goto(f, "cleanup")
  /\ UNCHANGED <<db, store, tasks, link>>

SaveFile(f) ==
  /\ fin[f].pc = "save"
  /\ \/ /\ Rewinds(f)
        /\ StoreSave(fin[f].dest, NewKey(f), SavedObject(f))
        /\ \/ Goto(f, "unstage")
           \/ "save_unsure" \in Faults /\ Goto(f, "cleanup")
     \/ /\ ~Rewinds(f) \/ "save" \in Faults
        /\ Goto(f, "cleanup")
        /\ UNCHANGED store
  /\ UNCHANGED <<db, tasks, link>>

\* A failure here is only logged.
RemoveStaged(f) ==
  /\ fin[f].pc = "unstage"
  /\ \/ StoreRemove(Staging, fin[f].media.key)
     \/ "unstage" \in Faults /\ UNCHANGED store
  /\ Goto(f, "update")
  /\ UNCHANGED <<db, tasks, link>>

UpdateRow(f) ==
  /\ fin[f].pc = "update"
  /\ \/ /\ RepoUpdate(fin[f].id, CompletedRow(f))
        /\ \/ Goto(f, "enqueue")
           \/ "update_unsure" \in Faults /\ Goto(f, "undo")
     \/ /\ "update" \in Faults
        /\ Goto(f, "undo")
        /\ UNCHANGED db
  /\ UNCHANGED <<store, tasks, link>>

\* The update failed: moveFile takes the saved file away again.
UndoSave_OldKey(f) ==
  /\ fin[f].pc = "undo"
  /\ StoreRemove(fin[f].dest, fin[f].media.key)
  /\ Goto(f, "cleanup")
  /\ UNCHANGED <<db, tasks, link>>
UndoSave(f) ==
  /\ fin[f].pc = "undo"
  /\ \/ StoreRemove(fin[f].dest, NewKey(f))
     \/ "undo" \in Faults /\ UNCHANGED store
  /\ Goto(f, "cleanup")
  /\ UNCHANGED <<db, tasks, link>>

\* A failure here is only logged: the client is told 204 either way.
EnqueueOptimiseMedia(f) ==
  /\ fin[f].pc = "enqueue"
  /\ \/ Enqueue(OptimiseTask(fin[f].id))
     \/ "enqueue" \in Faults /\ UNCHANGED tasks
  /\ Finish(f, "ok")
  /\ UNCHANGED <<db, store, link>>

\* The deferred function of a failed finalise: cleanupFile...
CleanupFile_Only(f) ==
  /\ fin[f].pc = "cleanup"
  /\ StoreRemove(Staging, fin[f].media.key)
  /\ Finish(f, "error")
  /\ UNCHANGED <<db, tasks, link>>
CleanupFile(f) ==
  /\ fin[f].pc = "cleanup"
  /\ \/ StoreRemove(Staging, fin[f].media.key)
     \/ "cleanup" \in Faults /\ UNCHANGED store
  /\ Goto(f, "mark")
  /\ UNCHANGED <<db, tasks, link>>

\* ... then markAsFailed, which writes back the row as it was first read.
MarkAsFailed(f) ==
  /\ fin[f].pc = "mark"
  /\ \/ RepoUpdate(fin[f].id, FailedRow(f))
     \/ "mark" \in Faults /\ UNCHANGED db
  /\ Finish(f, "error")
  /\ UNCHANGED <<store, tasks, link>>

\* The process serving f dies: the deferred function does not run.
Crash(f) ==
  /\ "crash" \in Faults
  /\ fin[f].pc # "idle"
  /\ fin' = [fin EXCEPT ![f] = Idle("none", Nil)]
  /\ UNCHANGED <<db, store, tasks, link>>

-----------------------------------------------------------------------------
FinaliserStep(f) ==
  \/ StatFile(f) \/ ReadMetadata(f) \/ SaveFile(f) \/ RemoveStaged(f)
  \/ UpdateRow(f) \/ UndoSave(f) \/ EnqueueOptimiseMedia(f)
  \/ CleanupFile(f) \/ MarkAsFailed(f)

Next ==
  \/ \E m \in Medias :
       \/ CreateRow(m) \/ Presign(m) \/ Expire(m)
       \/ \E o \in Uploads : Put(m, o)
  \/ \E f \in Finalisers :
       \/ \E m \in Medias :
            \/ \E b \in Buckets : BeginFinalise(f, m, b)
            \/ ReplyAtOnce(f, m)
       \/ FinaliserStep(f)
       \/ Crash(f)

Spec == Init /\ [][Next]_vars

\* A request that was accepted runs until it is answered; clients owe nothing.
Fairness == \A f \in Finalisers : WF_vars(FinaliserStep(f))

FairSpec == Spec /\ Fairness

-----------------------------------------------------------------------------
(* Properties *)

\* A row is either as GenerateUploadLink wrote it, perhaps marked failed, or as
\* moveFile completed it: an accepted type, a size within the limits, the key
\* with the extension of the type, and metadata that the type allows.  Holds
\* whatever fails and however finalises overlap: no interleaving of stale
\* copies mixes the two.
RowWellFormed ==
  \A m \in Medias : db[m] # NoRow =>
    IF db[m].status = "completed"
    THEN /\ IsMimeTypeAllowed(db[m].mime)
         /\ db[m].key = FileKey(m, MimeTypeToExtension(db[m].mime))
         /\ db[m].size \in MinFileSize..MaxFileSize
         /\ Decodable(db[m].mime, db[m].meta)
    ELSE db[m] = [PendingRow(m) EXCEPT !.status = db[m].status]

\* What a completed row says of its file is what is stored: finalising copies
\* the very content it measured, typed and parsed, although the client may
\* upload again at any moment and any call may fail or the process die.
CompletedIsStored ==
  \A m \in Medias : db[m] # NoRow /\ db[m].status = "completed" =>
    LET o == store[db[m].bucket][db[m].key]
    IN  /\ o # NoObject
        /\ o.type = db[m].mime
        /\ o.blob = db[m].meta
        /\ Size[o.blob] = db[m].size

\* A media whose finalise was answered 204 stays completed: no later request
\* sends it back to failed.
AcceptedIsCompleted ==
  \A f \in Finalisers : fin[f].reply = "ok" =>
    db[fin[f].id] # NoRow /\ db[fin[f].id].status = "completed"

\* Even when finalises of one media overlap, and upload and finalise race, the
\* key a completed row names holds a file of the row's type.
CompletedIsBacked ==
  \A m \in Medias : db[m] # NoRow /\ db[m].status = "completed" =>
    LET o == store[db[m].bucket][db[m].key]
    IN  o # NoObject /\ o.type = db[m].mime

\* The life of a media as its row and its object tell it: the content is that of
\* the object a completed row names.
Stage(m) ==
  IF db[m] = NoRow THEN IF link[m] = "unused" THEN "none" ELSE "gone"
  ELSE IF db[m].status = "completed" /\ db[m].optimised THEN "optimised"
  ELSE db[m].status

Content(m) ==
  IF Stage(m) \notin {"completed", "optimised"} THEN Nil
  ELSE LET o == store[db[m].bucket][db[m].key]
       IN  IF o = NoObject THEN Nil ELSE Origin[o.blob]

L == INSTANCE MediaLifecycle WITH
       Contents <- Blobs, None <- Nil,
       stage    <- [m \in Medias |-> Stage(m)],
       content  <- [m \in Medias |-> Content(m)]

\* Uploads and finalises implement the life of a media: whatever fails and
\* however often the client uploads and finalises again, a media is accepted or
\* refused once, and what is stored for it from then on is what was accepted.
KeepsLifecycle == L!Spec

\* A finalise that found the row pending ends with the row settled, whatever
\* it met on the way, unless a call on the database fails.
BegunIsSettled ==
  \A m \in Medias :
    (\E f \in Finalisers : fin[f].id = m /\ fin[f].pc # "idle")
      ~> (db[m] # NoRow /\ db[m].status # "pending")
=============================================================================
