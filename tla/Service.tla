------------------------------- MODULE Service -------------------------------
(***************************************************************************)
(* Finalised medias as their clients see them: the details requests of     *)
(* Details and the delete requests of Deletion beside the tasks of         *)
(* Pipeline, on one database, storage, queue and cache.  The backlog       *)
(* command, which only enqueues such tasks again, takes no part here.      *)
(***************************************************************************)
EXTENDS Details, Deletion, Settings

CONSTANTS
  Workers, Stored, SizeEntries, ImageWidth, ImageHeight, Packed, Shrunk, Faults,
  MaxCrashes, MaxBacklogs,   \* of Pipeline; the backlog command does not run
  ExclusiveDelete            \* TRUE: no task works on a media while it is deleted

ASSUME ServiceAssumption == ExclusiveDelete \in BOOLEAN

VARIABLES
  wk, backlog, crashes, backlogs,   \* of Pipeline
  failed     \* history: the medias that a delete request answered 500 has left

P == INSTANCE Pipeline

ASSUME TasksAssumption == P!PipelineAssumption

vars == <<db, store, tasks, details, etags, get, del, wk, backlog, crashes,
          backlogs, failed>>

TypeOK ==
  /\ P!TypeOK
  /\ DetailsTypeOK
  /\ DeletionTypeOK
  /\ failed \subseteq Medias

Init ==
  /\ P!Init
  /\ DetailsInit
  /\ DeletionInit
  /\ failed = {}

-----------------------------------------------------------------------------
Deleting(m) == \E d \in Deleters : del[d].pc # "idle" /\ del[d].id = m

Working(m) == \E w \in Workers : wk[w].pc # "idle" /\ wk[w].task.media = m

NoteErrors ==
  failed' = {m \in Medias :
    /\ db'[m] # NoRow
    /\ m \in failed \/ \E d \in Deleters : del'[d].answer = "error" /\ del'[d].id = m}

Work(w) ==
  /\ P!WorkerStep(w)
  /\ ExclusiveDelete => \A m \in Medias : Deleting(m) => ~Working(m)'
  /\ UNCHANGED <<get, del, failed>>

Die(w) == P!Crash(w) /\ UNCHANGED <<get, del, failed>>

BeginRead(r, m) ==
  BeginGet(r, m) /\ UNCHANGED <<del, wk, backlog, crashes, backlogs, failed>>

Read(r) ==
  ReaderStep(r) /\ UNCHANGED <<del, wk, backlog, crashes, backlogs, failed>>

PassTime == Tick /\ UNCHANGED <<del, wk, backlog, crashes, backlogs, failed>>

BeginRemove(d, m) ==
  /\ ExclusiveDelete => ~Working(m)
  /\ BeginDelete(d, m)
  /\ UNCHANGED <<get, wk, backlog, crashes, backlogs>>
  /\ NoteErrors

Remove(d) ==
  /\ DeleterStep(d)
  /\ UNCHANGED <<get, wk, backlog, crashes, backlogs>>
  /\ NoteErrors

DieRemoving(d) ==
  DieDeleting(d) /\ UNCHANGED <<get, wk, backlog, crashes, backlogs, failed>>

Next ==
  \/ \E w \in Workers : Work(w) \/ Die(w)
  \/ \E r \in Readers : (\E m \in Medias : BeginRead(r, m)) \/ Read(r)
  \/ PassTime
  \/ \E d \in Deleters :
       (\E m \in Medias : BeginRemove(d, m)) \/ Remove(d) \/ DieRemoving(d)

Spec == Init /\ [][Next]_vars

\* The worker takes and finishes tasks, requests are served to their end, and
\* time passes; nobody has to send a request.
Fairness ==
  /\ \A w \in Workers : WF_vars(Work(w))
  /\ \A r \in Readers : WF_vars(Read(r))
  /\ \A d \in Deleters : WF_vars(Remove(d))
  /\ WF_vars(PassTime)

FairSpec == Spec /\ Fairness

-----------------------------------------------------------------------------
(* Properties *)

\* What is cached for m under either key, if anything, is what its row says now.
Fresh(m) ==
  \A e \in {details[m], etags[m]} : e # Nil => db[m] # NoRow /\ e.row = db[m]

\* Whatever a slow request put in the cache after an update or a deletion had
\* cleared it, once the medias stop changing the cache ends up telling the
\* truth for good: neither the body nor the ETag of an older row stays behind.
DetailsSettle == <>[](\A m \in Medias : Fresh(m))

\* The object a completed row names is missing only while a worker swaps it or a
\* delete request is at work, or after a delete request that failed: an error
\* is the one thing that tells the client to delete again.
MissingIsExplained ==
  \A m \in Medias : db[m] # NoRow /\ db[m].status = "completed" =>
    \/ store[db[m].bucket][db[m].key] # NoObject
    \/ \E w \in Workers : wk[w].pc \in {"stat", "update"} /\ wk[w].task.media = m
    \/ Deleting(m)
    \/ m \in failed

\* What the README promises of the details once the tasks are done.
QuietDetailsAreFresh ==
  (/\ \A t \in Task : tasks[t] = 0
   /\ \A w \in Workers : wk[w].pc = "idle"
   /\ \A m \in Medias : ~Deleting(m)) => \A m \in Medias : Fresh(m)
=============================================================================
