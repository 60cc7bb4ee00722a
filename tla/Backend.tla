------------------------------ MODULE Backend -------------------------------
(***************************************************************************)
(* The stores the service keeps its state in: the table `medias` of the    *)
(* database, the object storage and the task queue.  The handlers of the   *)
(* other modules change them by the calls defined here, each of which is   *)
(* one step of the server behind it: a SQL statement, a storage request,   *)
(* an enqueue.  No call of the service spans two of them, and none holds a *)
(* lock or a transaction over several.                                     *)
(***************************************************************************)
EXTENDS MediaTypes

VARIABLES
  db,      \* db[m]: the row of media m, or NoRow
  store,   \* store[b][k]: the object under key k of bucket b, or NoObject
  tasks    \* tasks[t]: how many times task t is waiting in the queue

TaskKinds == {"optimise", "resize"}

Task == [kind : TaskKinds, media : Medias]

OptimiseTask(m) == [kind |-> "optimise", media |-> m]

ResizeTask(m) == [kind |-> "resize", media |-> m]

BackendTypeOK ==
  /\ db \in [Medias -> Row \cup {NoRow}]
  /\ store \in [Buckets -> [Key -> Object \cup {NoObject}]]
  /\ tasks \in [Task -> Nat]

BackendInit ==
  /\ db = [m \in Medias |-> NoRow]
  /\ store = [b \in Buckets |-> [k \in Key |-> NoObject]]
  /\ tasks = [t \in Task |-> 0]

-----------------------------------------------------------------------------
(* Database *)

RepoCreate(m, row) == db' = [db EXCEPT ![m] = row]

\* UPDATE ... WHERE id = m writes every column of the row the caller holds, and
\* matches nothing, without an error, when there is no such row.
\* (UpdatedRow_Upsert is a faulty version.)
UpdatedRow_Upsert(current, row) == row
UpdatedRow(current, row) == IF current = NoRow THEN NoRow ELSE row

RepoUpdate(m, row) == db' = [db EXCEPT ![m] = UpdatedRow(db[m], row)]

\* (RepoDelete_Soft is a faulty version.)
RepoDelete_Soft(m) == db' = [db EXCEPT ![m].status = "deleted"]
RepoDelete(m) == db' = [db EXCEPT ![m] = NoRow]

-----------------------------------------------------------------------------
(* Object storage: a PUT replaces, a DELETE of a missing key succeeds *)

StoreSave(b, k, o) == store' = [store EXCEPT ![b][k] = o]

StoreRemove(b, k) == store' = [store EXCEPT ![b][k] = NoObject]

-----------------------------------------------------------------------------
(* Task queue: a client call of asynq, which neither deduplicates nor orders *)

Enqueue(t) == tasks' = [tasks EXCEPT ![t] = @ + 1]
=============================================================================
