------------------------------ MODULE Deletion -------------------------------
(***************************************************************************)
(* DELETE /medias/{id}: the request removes the variants and the object    *)
(* its copy of the row names, then the row, then the cached details.       *)
(* Nothing checks the status of the media or whether a task works on it.   *)
(*                                                                         *)
(* Operators named X_Y are faulty versions of X, one plausible slip each.  *)
(***************************************************************************)
EXTENDS Cache

CONSTANTS
  Deleters,       \* delete requests served at the same time
  DeleteFaults    \* the faults that may happen, of AllDeleteFaults

AllDeleteFaults ==
  {"get", "remove_variant", "remove", "delete", "uncache", "crash"}

ASSUME DeletionAssumption == DeleteFaults \subseteq AllDeleteFaults

VARIABLE del   \* del[d]: the local state of deleter d

\* 204, 404, 500
Answers == {"none", "ok", "not_found", "error"}

IdleDeleter(answer, m) ==
  [pc |-> "idle", answer |-> answer, id |-> m, media |-> Nil, i |-> 0]

DeleterState ==
  [pc     : {"idle", "variants", "row", "uncache", "uncache_etag"},
   answer : Answers,
   id     : Medias \cup {Nil},
   media  : Row \cup {Nil},      \* the row as GetByID returned it
   i      : Nat]                 \* the next variant to remove

DeletionTypeOK == del \in [Deleters -> DeleterState]

DeletionInit == del = [d \in Deleters |-> IdleDeleter("none", Nil)]

GoOn(d, pc) == del' = [del EXCEPT ![d].pc = pc]

Answer(d, answer) == del' = [del EXCEPT ![d] = IdleDeleter(answer, del[d].id)]

-----------------------------------------------------------------------------
(* DeleteMedia *)

BeginDelete(d, m) ==
  /\ del[d].pc = "idle"
  /\ \/ /\ db[m] # NoRow
        /\ del' = [del EXCEPT ![d] = [IdleDeleter("none", m) EXCEPT
                     !.pc = "variants", !.media = db[m], !.i = 1]]
     \/ /\ db[m] = NoRow
        /\ del' = [del EXCEPT ![d] = IdleDeleter("not_found", m)]
     \/ /\ "get" \in DeleteFaults
        /\ del' = [del EXCEPT ![d] = IdleDeleter("error", m)]
  /\ UNCHANGED <<db, store, tasks, details, etags>>

\* A failure here is only logged.
RemoveVariant_NotLast(d) ==
  /\ del[d].pc = "variants"
  /\ del[d].i <= Len(del[d].media.variants)
  /\ IF del[d].i < Len(del[d].media.variants)
     THEN StoreRemove(del[d].media.bucket, del[d].media.variants[del[d].i].key)
     ELSE UNCHANGED store
  /\ del' = [del EXCEPT ![d].i = @ + 1]
  /\ UNCHANGED <<db, tasks, details, etags>>
RemoveVariant(d) ==
  /\ del[d].pc = "variants"
  /\ del[d].i <= Len(del[d].media.variants)
  /\ \/ StoreRemove(del[d].media.bucket, del[d].media.variants[del[d].i].key)
     \/ "remove_variant" \in DeleteFaults /\ UNCHANGED store
  /\ del' = [del EXCEPT ![d].i = @ + 1]
  /\ UNCHANGED <<db, tasks, details, etags>>

RemoveObject_Logged(d) ==
  /\ del[d].pc = "variants"
  /\ del[d].i > Len(del[d].media.variants)
  /\ \/ StoreRemove(del[d].media.bucket, del[d].media.key)
     \/ "remove" \in DeleteFaults /\ UNCHANGED store
  /\ GoOn(d, "row")
  /\ UNCHANGED <<db, tasks, details, etags>>
RemoveObject(d) ==
  /\ del[d].pc = "variants"
  /\ del[d].i > Len(del[d].media.variants)
  /\ \/ /\ StoreRemove(del[d].media.bucket, del[d].media.key)
        /\ GoOn(d, "row")
     \/ /\ "remove" \in DeleteFaults
        /\ Answer(d, "error")
        /\ UNCHANGED store
  /\ UNCHANGED <<db, tasks, details, etags>>

DeleteRow(d) ==
  /\ del[d].pc = "row"
  /\ \/ /\ RepoDelete(del[d].id)
        /\ GoOn(d, "uncache")
     \/ /\ "delete" \in DeleteFaults
        /\ Answer(d, "error")
        /\ UNCHANGED db
  /\ UNCHANGED <<store, tasks, details, etags>>

\* Failures to drop the cached details are only logged.
UncacheDetails(d) ==
  /\ del[d].pc = "uncache"
  /\ \/ DeleteMediaDetails(del[d].id)
     \/ "uncache" \in DeleteFaults /\ UNCHANGED details
  /\ GoOn(d, "uncache_etag")
  /\ UNCHANGED <<db, store, tasks, etags>>

UncacheEtag(d) ==
  /\ del[d].pc = "uncache_etag"
  /\ \/ DeleteEtagMediaDetails(del[d].id)
     \/ "uncache" \in DeleteFaults /\ UNCHANGED etags
  /\ Answer(d, "ok")
  /\ UNCHANGED <<db, store, tasks, details>>

\* The process serving d dies.
DieDeleting(d) ==
  /\ "crash" \in DeleteFaults
  /\ del[d].pc # "idle"
  /\ del' = [del EXCEPT ![d] = IdleDeleter("none", Nil)]
  /\ UNCHANGED <<db, store, tasks, details, etags>>

DeleterStep(d) ==
  \/ RemoveVariant(d) \/ RemoveObject(d) \/ DeleteRow(d)
  \/ UncacheDetails(d) \/ UncacheEtag(d)

-----------------------------------------------------------------------------
(* Properties *)

\* A media whose deletion was answered 204 has no row, and gets none: tasks that
\* loaded it before write their copy to nothing.
DeletedHasNoRow ==
  \A d \in Deleters : del[d].answer = "ok" => db[del[d].id] = NoRow

\* Nor has it a file left, under any key, when no task was working on it during
\* the deletion.
DeletedHasNoFile ==
  \A d \in Deleters : del[d].answer = "ok" =>
    \A b \in Buckets, k \in Key : k.media = del[d].id => store[b][k] = NoObject
=============================================================================
