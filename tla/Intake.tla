------------------------------- MODULE Intake --------------------------------
(***************************************************************************)
(* The whole life of a media before the worker gets to it: the uploads and *)
(* finalises of Upload beside the delete requests of Deletion, on one      *)
(* database, storage and queue.  Deletion checks no status: a media may be *)
(* deleted before, while and after it is finalised.                        *)
(***************************************************************************)
EXTENDS Deletion

CONSTANTS Finalisers, Uploads, Faults, ExclusiveFinalise   \* of Upload

VARIABLES
  link, fin,   \* of Upload
  raced        \* history: the medias deleted while they were being finalised

U == INSTANCE Upload

ASSUME IntakeAssumption == U!UploadAssumption

vars == <<db, store, tasks, details, etags, del, link, fin, raced>>

TypeOK ==
  /\ U!TypeOK
  /\ DeletionTypeOK
  /\ raced \subseteq Medias

Init ==
  /\ U!Init
  /\ CacheInit
  /\ DeletionInit
  /\ raced = {}

-----------------------------------------------------------------------------
Finalising(m) == \E f \in Finalisers : fin[f].pc # "idle" /\ fin[f].id = m

Deleting(m) == \E d \in Deleters : del[d].pc # "idle" /\ del[d].id = m

\* Both are at work on a media in the state a step leads to.
NoteRaces == raced' = raced \cup {m \in Medias : Finalising(m)' /\ Deleting(m)'}

UploadStep == U!Next /\ UNCHANGED <<details, etags, del>> /\ NoteRaces

BeginRemove(d, m) ==
  /\ link[m] # "unused"
  /\ BeginDelete(d, m)
  /\ UNCHANGED <<link, fin>>
  /\ NoteRaces

Remove(d) == DeleterStep(d) /\ UNCHANGED <<link, fin>> /\ NoteRaces

DieRemoving(d) == DieDeleting(d) /\ UNCHANGED <<link, fin>> /\ NoteRaces

Next ==
  \/ UploadStep
  \/ \E d \in Deleters :
       (\E m \in Medias : BeginRemove(d, m)) \/ Remove(d) \/ DieRemoving(d)

Spec == Init /\ [][Next]_vars

-----------------------------------------------------------------------------
(* Properties *)

\* A refused upload leaves nothing outside the staging key: whatever a finalise
\* had already saved when it failed, it has removed again.
RefusedLeavesNothing ==
  \A m \in Medias : db[m] # NoRow /\ db[m].status = "failed" =>
    \A b \in Buckets, e \in Extensions \ {""} :
      store[b][FileKey(m, e)] = NoObject

\* Once no request is at work on it, a media is queued for optimisation exactly
\* once if it is completed and never if it is pending or failed, however often
\* its finalise was repeated and whatever made it fail; deleted, at most once.
QueuedOnce ==
  \A m \in Medias : ~Finalising(m) =>
    LET n == tasks[OptimiseTask(m)]
    IN  IF db[m] = NoRow THEN n <= 1
        ELSE n = IF db[m].status = "completed" THEN 1 ELSE 0

\* The rest of the time, every file outside the staging key is one that a row
\* names: neither a failed finalise nor a delete request leaves one that nobody
\* knows of, unless a media was deleted while it was being finalised.
NoOrphans ==
  \A m \in Medias : ~Finalising(m) /\ ~Deleting(m) /\ m \notin raced =>
    \A b \in Buckets, e \in Extensions \ {""} :
      store[b][FileKey(m, e)] # NoObject =>
        db[m] # NoRow /\ db[m].bucket = b /\ db[m].key = FileKey(m, e)

\* A finalise that takes its work back has not accepted the media yet, even if its
\* update of the row was applied.
Undoing(m) ==
  \E f \in Finalisers : fin[f].id = m /\ fin[f].pc \in {"undo", "cleanup", "mark"}

Stage(m) ==
  IF db[m] # NoRow /\ Undoing(m) THEN "pending" ELSE U!Stage(m)

L == INSTANCE MediaLifecycle WITH
       Contents <- Blobs, None <- Nil,
       stage    <- [m \in Medias |-> Stage(m)],
       content  <- [m \in Medias |->
                     IF Stage(m) = "completed" THEN Origin[db[m].meta] ELSE Nil]

\* Requests implement the life of a media also when it is deleted at any moment
\* and when a finalise takes back an update that was applied: a finalise that is
\* still at work neither brings a deleted media back nor accepts one twice.
KeepsLifecycle == L!Spec
=============================================================================
