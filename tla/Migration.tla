------------------------------ MODULE Migration ------------------------------
(***************************************************************************)
(* cmd/migrate: MigrateUp brings the schema of the database to the last    *)
(* version, and gets it out of the dirty state that a run which failed     *)
(* half-way leaves: it forces the version back by one and tries again.     *)
(*                                                                         *)
(* A run is one process; several may run at once.  Up and Force are calls  *)
(* of golang-migrate, each under the lock of the database, which is free   *)
(* in between.  Up marks a version dirty, runs its script and marks it     *)
(* clean; the statements of a script take effect one by one, since DDL     *)
(* commits.  A statement either may be run again or, like ADD COLUMN,      *)
(* fails when it is.                                                       *)
(*                                                                         *)
(* Operators named X_Y are faulty versions of X, one plausible slip each.  *)
(***************************************************************************)
EXTENDS Integers, Sequences

CONSTANTS
  Runs,        \* runs of the command
  Scripts,     \* Scripts[v]: the statements of version v, each "again" or "once"
  Faults,      \* the faults that may happen, of AllFaults
  MaxCrashes   \* bound: how many runs die

AllFaults == {"lock", "version", "statement", "force", "crash"}

ASSUME MigrationAssumption ==
  /\ Scripts \in Seq(Seq({"again", "once"}))
  /\ Faults \subseteq AllFaults
  /\ MaxCrashes \in Nat

VARIABLES
  schema,    \* schema[v]: how many statements of version v have taken effect
  version,   \* schema_migrations: the current version (0: none) ...
  dirty,     \* ... and whether its script may have run only in part
  lock,      \* the run that holds the lock of the database, or Free
  run,       \* run[r]: the local state of run r
  crashes    \* how many runs died

vars == <<schema, version, dirty, lock, run, crashes>>

Version == 1..Len(Scripts)

Free == "free"

ASSUME FreeAssumption == Free \notin Runs

\* "up" and "force" wait for the lock to call Up and Force; "check", "next" and
\* "script" are inside of Up, "set" is inside of Force.
RunPC == {"up", "check", "next", "script", "force", "set", "done"}

RunState ==
  [pc     : RunPC,
   second : BOOLEAN,            \* whether this is the Up after Force
   at     : 0..Len(Scripts),    \* the dirty version met, or the one being run
   stmt   : Nat,                \* the next statement of its script
   reply  : {"none", "ok", "error"},
   hit    : BOOLEAN]            \* history: a call of this run failed by itself

TypeOK ==
  /\ schema \in [Version -> Nat]
  /\ \A v \in Version : schema[v] <= Len(Scripts[v])
  /\ version \in 0..Len(Scripts)
  /\ dirty \in BOOLEAN
  /\ lock \in Runs \cup {Free}
  /\ run \in [Runs -> RunState]
  /\ crashes \in 0..MaxCrashes

Init ==
  /\ schema = [v \in Version |-> 0]
  /\ version = 0
  /\ dirty = FALSE
  /\ lock = Free
  /\ run = [r \in Runs |-> [pc |-> "up", second |-> FALSE, at |-> 0, stmt |-> 1,
                            reply |-> "none", hit |-> FALSE]]
  /\ crashes = 0

Finished(v) == schema[v] = Len(Scripts[v])

Goto(r, pc) == run' = [run EXCEPT ![r].pc = pc]

Reply(r, reply) == run' = [run EXCEPT ![r].pc = "done", ![r].reply = reply]

\* A call fails: the run ends, which frees the lock if it holds it.
Abort(r) ==
  /\ run' = [run EXCEPT ![r].pc = "done", ![r].reply = "error", ![r].hit = TRUE]
  /\ lock' = IF lock = r THEN Free ELSE lock

-----------------------------------------------------------------------------
(* Up *)

LockUp(r) ==
  /\ run[r].pc = "up"
  /\ \/ /\ lock = Free
        /\ lock' = r
        /\ Goto(r, "check")
     \/ "lock" \in Faults /\ Abort(r)
  /\ UNCHANGED <<schema, version, dirty, crashes>>

\* A clean version is what Up starts from.
StartClean(r) ==
  /\ run[r].pc = "check"
  /\ \/ /\ ~dirty
        /\ run' = [run EXCEPT ![r].pc = "next", ![r].at = version]
        /\ UNCHANGED lock
     \/ "version" \in Faults /\ Abort(r)
  /\ UNCHANGED <<schema, version, dirty, crashes>>

\* The first script has no version before it to go back to.
HasPrevious_OffByOne(v) == v > 2
HasPrevious(v) == v > 1

PreviousVersion_Same(v) == v
PreviousVersion_SortedDown(v) == v + 1
PreviousVersion(v) == v - 1

MeetDirty_NoChange(r) ==
  /\ run[r].pc = "check"
  /\ dirty
  /\ lock' = Free
  /\ LET recovers == ~run[r].second /\ HasPrevious(version)
     IN run' = [run EXCEPT ![r].at = version,
                  ![r].pc    = IF recovers THEN "force" ELSE "done",
                  ![r].reply = IF recovers THEN "none" ELSE "ok"]
  /\ UNCHANGED <<schema, version, dirty, crashes>>

\* Up answers ErrDirty: the run goes on to Force, once.
MeetDirty(r) ==
  /\ run[r].pc = "check"
  /\ dirty
  /\ lock' = Free
  /\ LET recovers == ~run[r].second /\ HasPrevious(version)
     IN run' = [run EXCEPT ![r].at = version,
                  ![r].pc    = IF recovers THEN "force" ELSE "done",
                  ![r].reply = IF recovers THEN "none" ELSE "error"]
  /\ UNCHANGED <<schema, version, dirty, crashes>>

\* The next script: its version is recorded as dirty before it is run.
BeginScript(r) ==
  /\ run[r].pc = "next"
  /\ run[r].at < Len(Scripts)
  /\ \/ /\ version' = run[r].at + 1
        /\ dirty' = TRUE
        /\ run' = [run EXCEPT ![r].pc = "script", ![r].at = @ + 1, ![r].stmt = 1]
        /\ UNCHANGED lock
     \/ "version" \in Faults /\ Abort(r) /\ UNCHANGED <<version, dirty>>
  /\ UNCHANGED <<schema, crashes>>

\* No script left: nil, or ErrNoChange when there was none at all.
EndUp(r) ==
  /\ run[r].pc = "next"
  /\ run[r].at = Len(Scripts)
  /\ lock' = Free
  /\ Reply(r, "ok")
  /\ UNCHANGED <<schema, version, dirty, crashes>>

\* Whether the statement has taken effect before and fails if it is repeated.
Repeats(r) ==
  /\ run[r].stmt <= schema[run[r].at]
  /\ Scripts[run[r].at][run[r].stmt] = "once"

RunStatement(r) ==
  /\ run[r].pc = "script"
  /\ run[r].stmt <= Len(Scripts[run[r].at])
  /\ ~Repeats(r)
  /\ \/ /\ schema' = [schema EXCEPT ![run[r].at] =
                        IF run[r].stmt > @ THEN run[r].stmt ELSE @]
        /\ run' = [run EXCEPT ![r].stmt = @ + 1]
        /\ UNCHANGED lock
     \/ "statement" \in Faults /\ Abort(r) /\ UNCHANGED schema
  /\ UNCHANGED <<version, dirty, crashes>>

\* The server refuses the statement; the version stays dirty.
StatementFails_Again(r) ==
  /\ run[r].pc = "script"
  /\ run[r].stmt <= Len(Scripts[run[r].at])
  /\ Repeats(r)
  /\ lock' = Free
  /\ Goto(r, "force")
  /\ UNCHANGED <<schema, version, dirty, crashes>>
StatementFails(r) ==
  /\ run[r].pc = "script"
  /\ run[r].stmt <= Len(Scripts[run[r].at])
  /\ Repeats(r)
  /\ lock' = Free
  /\ Reply(r, "error")
  /\ UNCHANGED <<schema, version, dirty, crashes>>

EndScript(r) ==
  /\ run[r].pc = "script"
  /\ run[r].stmt > Len(Scripts[run[r].at])
  /\ \/ /\ version' = run[r].at
        /\ dirty' = FALSE
        /\ Goto(r, "next")
        /\ UNCHANGED lock
     \/ "version" \in Faults /\ Abort(r) /\ UNCHANGED <<version, dirty>>
  /\ UNCHANGED <<schema, crashes>>

-----------------------------------------------------------------------------
(* Force, back to the version before the one that was found dirty *)

LockForce(r) ==
  /\ run[r].pc = "force"
  /\ \/ /\ lock = Free
        /\ lock' = r
        /\ Goto(r, "set")
     \/ "lock" \in Faults /\ Abort(r)
  /\ UNCHANGED <<schema, version, dirty, crashes>>

ForceVersion(r) ==
  /\ run[r].pc = "set"
  /\ \/ /\ version' = PreviousVersion(run[r].at)
        /\ dirty' = FALSE
        /\ lock' = Free
        /\ run' = [run EXCEPT ![r].pc = "up", ![r].second = TRUE]
     \/ "force" \in Faults /\ Abort(r) /\ UNCHANGED <<version, dirty>>
  /\ UNCHANGED <<schema, crashes>>

-----------------------------------------------------------------------------
\* The process dies: its connection closes, which frees the lock.
Crash(r) ==
  /\ "crash" \in Faults
  /\ crashes < MaxCrashes
  /\ run[r].pc # "done"
  /\ run' = [run EXCEPT ![r].pc = "done"]
  /\ lock' = IF lock = r THEN Free ELSE lock
  /\ crashes' = crashes + 1
  /\ UNCHANGED <<schema, version, dirty>>

RunStep(r) ==
  \/ LockUp(r) \/ StartClean(r) \/ MeetDirty(r) \/ BeginScript(r) \/ EndUp(r)
  \/ RunStatement(r) \/ StatementFails(r) \/ EndScript(r)
  \/ LockForce(r) \/ ForceVersion(r)

Next == \E r \in Runs : RunStep(r) \/ Crash(r)

Spec == Init /\ [][Next]_vars

\* Calls on the database return.  A run that waits for the lock owes its turn to
\* the runs before it, which end.
Fairness == \A r \in Runs : WF_vars(RunStep(r))

FairSpec == Spec /\ Fairness

-----------------------------------------------------------------------------
(* Properties *)

\* A version recorded as clean is the truth: it and all before it have taken
\* effect in full.  A run that was interrupted, and the version that is forced
\* back, even by a run that met the dirty state long ago, never claim more.
CleanIsApplied ==
  ~dirty => \A v \in 1..version : Finished(v)

\* "Migrations applied successfully" is only said of the whole schema.
SuccessMeansMigrated ==
  \A r \in Runs : run[r].reply = "ok" => \A v \in Version : Finished(v)

\* The recovery works wherever it can.  A run of which no call failed gives up
\* only if the first script was left half-way, if the script that was left
\* half-way repeats what cannot be repeated, or if another run left the schema
\* dirty again after this one had forced it back.
FailureExplained ==
  \A r \in Runs : run[r].reply = "error" /\ ~run[r].hit =>
    \/ run[r].at = 1
    \/ Repeats(r)
    \/ run[r].second /\ \E q \in Runs \ {r} : run[q].at = run[r].at

\* A run ends: it forces the version back once and does not fight over it.
EveryRunEnds == \A r \in Runs : <>(run[r].pc = "done")
=============================================================================
