-------------------------- MODULE MigrationProofs ---------------------------
(***************************************************************************)
(* Theorems about Migration, for any scripts and faults and any number of  *)
(* runs, one after the other or at once.                                   *)
(***************************************************************************)
EXTENDS Migration, TLAPS

-----------------------------------------------------------------------------
(* The inductive invariant *)

\* Up and Force hold the lock of the database from their first step to their
\* last, so at most one run is inside of either.
HoldsLock(r) == run[r].pc \in {"check", "next", "script", "set"}

Locked == \A r \in Runs : HoldsLock(r) => lock = r

AppliedTo(n) == \A v \in 1..n : Finished(v)

\* What is recorded is the truth: a dirty version is the only one that may have
\* been applied in part.
Recorded ==
  /\ AppliedTo(IF dirty THEN version - 1 ELSE version)
  /\ dirty => version \in Version

\* What a run knows from its last look at the version, made under the lock.
\* What it knows of earlier versions holds also after it has let the lock go.
Knows(r) ==
  /\ run[r].pc = "next" => ~dirty /\ run[r].at = version
  /\ run[r].pc = "script" =>
       /\ dirty
       /\ run[r].at = version
       /\ run[r].stmt \in 1..(Len(Scripts[version]) + 1)
       /\ run[r].stmt <= schema[version] + 1
  /\ run[r].pc \in {"force", "set"} =>
       /\ run[r].at \in Version
       /\ run[r].at > 1
       /\ AppliedTo(run[r].at - 1)

\* A dirty version was left by a run that is still at its script, or that ended
\* there.
Blamed ==
  dirty => \E q \in Runs : /\ run[q].pc \in {"script", "done"}
                           /\ run[q].at = version

\* Why run r gave up although no call of it failed by itself.  The other run it
\* may blame has ended.
Excused(r) ==
  /\ run[r].at \in Version
  /\ \/ run[r].at = 1
     \/ Repeats(r)
     \/ /\ run[r].second
        /\ \E q \in Runs \ {r} : run[q].pc = "done" /\ run[q].at = run[r].at

Ended(r) ==
  /\ run[r].reply # "none" => run[r].pc = "done"
  /\ run[r].reply = "ok" => AppliedTo(Len(Scripts))
  /\ run[r].reply = "error" /\ ~run[r].hit => Excused(r)

IInv ==
  /\ TypeOK
  /\ Locked
  /\ Recorded
  /\ Blamed
  /\ \A r \in Runs : Knows(r) /\ Ended(r)

-----------------------------------------------------------------------------
(* Facts about the data *)

LEMMA ScriptFacts ==
  /\ Len(Scripts) \in Nat
  /\ \A v \in Version : /\ Scripts[v] \in Seq({"again", "once"})
                        /\ Len(Scripts[v]) \in Nat
  BY MigrationAssumption DEF Version

\* What has been applied stays so.
LEMMA AppliedStays ==
  ASSUME TypeOK, NEW n \in 0..Len(Scripts), AppliedTo(n),
         schema' \in [Version -> Nat],
         \A v \in Version : /\ schema'[v] <= Len(Scripts[v])
                            /\ schema'[v] >= schema[v]
  PROVE  AppliedTo(n)'
<1> SUFFICES ASSUME NEW v \in 1..n
             PROVE  schema'[v] = Len(Scripts[v])
  BY DEF AppliedTo, Finished
<1>1. v \in Version
  BY ScriptFacts DEF Version
<1>2. schema[v] = Len(Scripts[v])
  BY DEF AppliedTo, Finished
<1> QED
  BY <1>1, <1>2, ScriptFacts

-----------------------------------------------------------------------------
(* Every step either leaves what the other runs know alone, or is made under  *)
(* the lock                                                                   *)

LEMMA IInvInit == Init => IInv
<1> SUFFICES ASSUME Init PROVE IInv
  OBVIOUS
<1> USE DEF Init
<1>1. TypeOK
  <2>1. run \in [Runs -> RunState]
    BY ScriptFacts DEF RunState, RunPC
  <2>2. /\ schema \in [Version -> Nat]
        /\ \A v \in Version : schema[v] <= Len(Scripts[v])
    BY ScriptFacts
  <2>3. version \in 0..Len(Scripts)
    BY ScriptFacts
  <2>4. dirty \in BOOLEAN /\ lock \in Runs \cup {Free}
    BY Zenon
  <2>5. crashes \in 0..MaxCrashes
    BY MigrationAssumption
  <2> QED
    BY <2>1, <2>2, <2>3, <2>4, <2>5 DEF TypeOK
<1>2. Locked /\ Recorded /\ Blamed
  BY ScriptFacts DEF Locked, HoldsLock, Recorded, AppliedTo, Blamed
<1>3. ASSUME NEW r \in Runs PROVE Knows(r) /\ Ended(r)
  BY DEF Knows, Ended
<1> QED
  BY <1>1, <1>2, <1>3 DEF IInv

\* Only the state of run r and the lock change, and what run r knows after the
\* step it knew before: calls that fail, replies and waits for the lock.
LEMMA RunOnly ==
  ASSUME IInv, NEW r \in Runs, NEW s \in RunState,
         run' = [run EXCEPT ![r] = s],
         lock' \in Runs \cup {Free},
         lock' = lock \/ lock = Free \/ lock = r,
         s.pc \in {"check", "next", "script", "set"} => lock' = r,
         run[r].pc # "done",
         run[r].pc = "script" => s.pc = "done" /\ s.at = run[r].at,
         crashes' \in 0..MaxCrashes,
         UNCHANGED <<schema, version, dirty>>,
         Knows(r)', Ended(r)'
  PROVE  IInv'
<1>1. TypeOK'
  BY DEF IInv, TypeOK
<1>2. Locked'
  <2> SUFFICES ASSUME NEW q \in Runs, HoldsLock(q)'
               PROVE  lock' = q
    BY DEF Locked
  <2>1. CASE q = r
    BY <2>1 DEF HoldsLock, IInv, TypeOK
  <2>2. CASE q # r
    <3>1. HoldsLock(q)
      BY <2>2 DEF HoldsLock, IInv, TypeOK
    <3> QED
      BY <3>1, <2>2, FreeAssumption DEF IInv, Locked
  <2> QED
    BY <2>1, <2>2
<1>3. Recorded'
  BY DEF IInv, Recorded, AppliedTo, Finished
<1>4. Blamed'
  <2> SUFFICES ASSUME dirty
               PROVE  \E q \in Runs : /\ run'[q].pc \in {"script", "done"}
                                      /\ run'[q].at = version
    BY DEF Blamed
  <2>1. PICK q \in Runs : run[q].pc \in {"script", "done"} /\ run[q].at = version
    BY DEF IInv, Blamed
  <2>2. run'[q].pc \in {"script", "done"} /\ run'[q].at = version
    BY <2>1 DEF IInv, TypeOK
  <2> QED
    BY <2>2
<1>5. ASSUME NEW q \in Runs, q # r
      PROVE  Knows(q)' /\ Ended(q)'
  <2>1. run'[q] = run[q]
    BY <1>5 DEF IInv, TypeOK
  <2>2. Knows(q)'
    BY <2>1 DEF IInv, Knows, AppliedTo, Finished
  <2>3. Ended(q)'
    <3>1. ASSUME Excused(q), run[q].pc = "done" PROVE Excused(q)'
      BY <2>1, <3>1 DEF Excused, Repeats, IInv, TypeOK
    <3> QED
      BY <2>1, <3>1 DEF IInv, Ended, AppliedTo, Finished
  <2> QED
    BY <2>2, <2>3
<1> QED
  BY <1>1, <1>2, <1>3, <1>4, <1>5 DEF IInv

\* A call fails, or the process dies: the run ends and frees the lock.
LEMMA EndRun ==
  ASSUME IInv, NEW r \in Runs, run[r].pc # "done",
         NEW reply \in {"none", "error"}, NEW hit \in BOOLEAN,
         reply = "error" => hit, run[r].reply = "none",
         run' = [run EXCEPT ![r] = [@ EXCEPT !.pc = "done", !.reply = reply,
                                            !.hit = hit]],
         lock' = IF lock = r THEN Free ELSE lock,
         crashes' \in 0..MaxCrashes,
         UNCHANGED <<schema, version, dirty>>
  PROVE  IInv'
<1> DEFINE s == [run[r] EXCEPT !.pc = "done", !.reply = reply, !.hit = hit]
<1>1. run \in [Runs -> RunState] /\ run[r] \in RunState
  BY DEF IInv, TypeOK
<1>2. /\ s \in RunState
      /\ s.pc = "done"
      /\ s.at = run[r].at
      /\ s.reply = reply
      /\ s.hit = hit
  BY <1>1 DEF RunState, RunPC
<1>3. run' = [run EXCEPT ![r] = s] /\ run'[r] = s
  BY <1>1
<1>4. lock' \in Runs \cup {Free} /\ (lock' = lock \/ lock = r)
  BY DEF IInv, TypeOK
<1>5. Knows(r)'
  BY <1>2, <1>3 DEF Knows
<1>6. Ended(r)'
  BY <1>2, <1>3 DEF Ended
<1> HIDE DEF s
<1> QED
  BY <1>2, <1>3, <1>4, <1>5, <1>6, RunOnly

LEMMA AbortInv ==
  ASSUME IInv, NEW r \in Runs, Abort(r), run[r].pc # "done",
         UNCHANGED <<schema, version, dirty, crashes>>
  PROVE  IInv'
<1>1. run[r].reply = "none"
  BY DEF IInv, Ended, TypeOK, RunState
<1>2. run' = [run EXCEPT ![r] = [@ EXCEPT !.pc = "done", !.reply = "error",
                                         !.hit = TRUE]]
  BY DEF Abort
<1>3. crashes' \in 0..MaxCrashes
  BY DEF IInv, TypeOK
<1> QED
  BY <1>1, <1>2, <1>3, EndRun DEF Abort

LEMMA LockInv ==
  ASSUME IInv, NEW r \in Runs, LockUp(r) \/ LockForce(r)
  PROVE  IInv'
<1>1. run \in [Runs -> RunState] /\ run[r] \in RunState
  BY DEF IInv, TypeOK
<1>2. crashes' \in 0..MaxCrashes
  BY DEF IInv, TypeOK, LockUp, LockForce
<1>3. CASE Abort(r)
  BY <1>3, AbortInv DEF LockUp, LockForce
<1>4. CASE LockUp(r) /\ ~Abort(r)
  <2> DEFINE s == [run[r] EXCEPT !.pc = "check"]
  <2>1. /\ lock = Free /\ lock' = r
        /\ run' = [run EXCEPT ![r] = s]
        /\ run[r].pc = "up"
        /\ UNCHANGED <<schema, version, dirty>>
    BY <1>4 DEF LockUp, Goto
  <2>2. s \in RunState /\ s.pc = "check"
    BY <1>1 DEF RunState, RunPC
  <2>3. run'[r] = s
    BY <1>1, <2>1
  <2>4. Knows(r)' /\ Ended(r)'
    BY <1>1, <2>1, <2>2, <2>3 DEF Knows, Ended, IInv, RunState
  <2> HIDE DEF s
  <2> QED
    BY <1>2, <2>1, <2>2, <2>4, RunOnly
<1>5. CASE LockForce(r) /\ ~Abort(r)
  <2> DEFINE s == [run[r] EXCEPT !.pc = "set"]
  <2>1. /\ lock = Free /\ lock' = r
        /\ run' = [run EXCEPT ![r] = s]
        /\ run[r].pc = "force"
        /\ UNCHANGED <<schema, version, dirty>>
    BY <1>5 DEF LockForce, Goto
  <2>2. s \in RunState /\ s.pc = "set" /\ s.at = run[r].at /\ s.reply = run[r].reply
    BY <1>1 DEF RunState, RunPC
  <2>3. run'[r] = s
    BY <1>1, <2>1
  <2>4. Knows(r)' /\ Ended(r)'
    BY <2>1, <2>2, <2>3 DEF Knows, Ended, IInv, AppliedTo, Finished
  <2> HIDE DEF s
  <2> QED
    BY <1>2, <2>1, <2>2, <2>4, RunOnly
<1> QED
  BY <1>3, <1>4, <1>5

LEMMA StartCleanInv ==
  ASSUME IInv, NEW r \in Runs, StartClean(r)
  PROVE  IInv'
<1>1. run \in [Runs -> RunState] /\ run[r] \in RunState
  BY DEF IInv, TypeOK
<1>2. crashes' \in 0..MaxCrashes
  BY DEF IInv, TypeOK, StartClean
<1>3. CASE Abort(r)
  BY <1>3, AbortInv DEF StartClean
<1>4. CASE ~Abort(r)
  <2> DEFINE s == [run[r] EXCEPT !.pc = "next", !.at = version]
  <2>1. /\ run' = [run EXCEPT ![r] = s]
        /\ run[r].pc = "check"
        /\ ~dirty
        /\ UNCHANGED <<schema, version, dirty, lock>>
    BY <1>4 DEF StartClean
  <2>2. s \in RunState /\ s.pc = "next" /\ s.at = version /\ s.reply = run[r].reply
    BY <1>1 DEF RunState, RunPC, IInv, TypeOK
  <2>3. run'[r] = s
    BY <1>1, <2>1
  <2>4. Knows(r)' /\ Ended(r)'
    BY <2>1, <2>2, <2>3 DEF Knows, Ended, IInv
  <2>5. lock' = r /\ lock' \in Runs \cup {Free}
    BY <2>1 DEF IInv, TypeOK, Locked, HoldsLock
  <2> HIDE DEF s
  <2> QED
    BY <1>2, <2>1, <2>2, <2>4, <2>5, RunOnly
<1> QED
  BY <1>3, <1>4

\* A run that has forced the version back meets it dirty again only if another
\* run left it so, and has ended since: it does not hold the lock any more.
LEMMA MeetDirtyInv ==
  ASSUME IInv, NEW r \in Runs, MeetDirty(r)
  PROVE  IInv'
<1>1. run \in [Runs -> RunState] /\ run[r] \in RunState
  BY DEF IInv, TypeOK
<1>2. crashes' \in 0..MaxCrashes /\ version \in Version
  BY DEF IInv, TypeOK, MeetDirty, Recorded
<1> DEFINE recovers == ~run[r].second /\ HasPrevious(version)
           s == [run[r] EXCEPT !.at = version,
                               !.pc = IF recovers THEN "force" ELSE "done",
                               !.reply = IF recovers THEN "none" ELSE "error"]
<1>3. /\ run' = [run EXCEPT ![r] = s]
      /\ run[r].pc = "check"
      /\ dirty
      /\ lock' = Free
      /\ UNCHANGED <<schema, version, dirty>>
  BY DEF MeetDirty
<1>4. /\ s \in RunState
      /\ s.pc = IF recovers THEN "force" ELSE "done"
      /\ s.at = version
      /\ s.reply = IF recovers THEN "none" ELSE "error"
      /\ s.second = run[r].second
  BY <1>1 DEF RunState, RunPC, IInv, TypeOK
<1>5. run'[r] = s
  BY <1>1, <1>3
<1>6. lock = r
  BY <1>3 DEF IInv, Locked, HoldsLock
<1>7. Knows(r)'
  BY <1>2, <1>3, <1>4, <1>5, ScriptFacts
  DEF Knows, IInv, Recorded, AppliedTo, Finished, HasPrevious, Version
<1>8. Ended(r)'
  <2>1. CASE recovers
    BY <1>4, <1>5, <2>1 DEF Ended
  <2>2. CASE ~recovers
    <3>1. PICK q \in Runs : run[q].pc \in {"script", "done"} /\ run[q].at = version
      BY <1>3 DEF IInv, Blamed
    <3>2. q # r /\ run[q].pc = "done"
      BY <1>3, <1>6, <3>1 DEF IInv, Locked, HoldsLock
    <3>3. run'[q] = run[q]
      BY <1>1, <1>3, <3>2
    <3>4. run[r].second \/ version = 1
      BY <1>2, <2>2, ScriptFacts DEF HasPrevious, Version
    <3>5. Excused(r)'
      BY <1>2, <1>4, <1>5, <3>1, <3>2, <3>3, <3>4 DEF Excused
    <3> QED
      BY <1>4, <1>5, <2>2, <3>5 DEF Ended
  <2> QED
    BY <2>1, <2>2
<1> HIDE DEF s
<1> QED
  BY <1>2, <1>3, <1>4, <1>6, <1>7, <1>8, RunOnly

LEMMA EndUpInv ==
  ASSUME IInv, NEW r \in Runs, EndUp(r)
  PROVE  IInv'
<1>1. run \in [Runs -> RunState] /\ run[r] \in RunState
  BY DEF IInv, TypeOK
<1>2. crashes' \in 0..MaxCrashes
  BY DEF IInv, TypeOK, EndUp
<1> DEFINE s == [run[r] EXCEPT !.pc = "done", !.reply = "ok"]
<1>3. /\ run' = [run EXCEPT ![r] = s]
      /\ run[r].pc = "next"
      /\ run[r].at = Len(Scripts)
      /\ lock' = Free
      /\ UNCHANGED <<schema, version, dirty>>
  BY DEF EndUp, Reply
<1>4. s \in RunState /\ s.pc = "done" /\ s.reply = "ok"
  BY <1>1 DEF RunState, RunPC
<1>5. run'[r] = s
  BY <1>1, <1>3
<1>6. lock = r
  BY <1>3 DEF IInv, Locked, HoldsLock
<1>7. AppliedTo(Len(Scripts))
  BY <1>3 DEF IInv, Knows, Recorded
<1>8. Knows(r)' /\ Ended(r)'
  BY <1>3, <1>4, <1>5, <1>7 DEF Knows, Ended, AppliedTo, Finished
<1> HIDE DEF s
<1> QED
  BY <1>2, <1>3, <1>4, <1>6, <1>8, RunOnly

LEMMA StatementFailsInv ==
  ASSUME IInv, NEW r \in Runs, StatementFails(r)
  PROVE  IInv'
<1>1. run \in [Runs -> RunState] /\ run[r] \in RunState
  BY DEF IInv, TypeOK
<1>2. crashes' \in 0..MaxCrashes
  BY DEF IInv, TypeOK, StatementFails
<1> DEFINE s == [run[r] EXCEPT !.pc = "done", !.reply = "error"]
<1>3. /\ run' = [run EXCEPT ![r] = s]
      /\ run[r].pc = "script"
      /\ Repeats(r)
      /\ lock' = Free
      /\ UNCHANGED <<schema, version, dirty>>
  BY DEF StatementFails, Reply
<1>4. /\ s \in RunState
      /\ s.pc = "done"
      /\ s.reply = "error"
      /\ s.at = run[r].at
      /\ s.stmt = run[r].stmt
  BY <1>1 DEF RunState, RunPC
<1>5. run'[r] = s
  BY <1>1, <1>3
<1>6. lock = r /\ run[r].at \in Version
  BY <1>3 DEF IInv, Locked, HoldsLock, Knows, Recorded
<1>7. Knows(r)' /\ Ended(r)'
  BY <1>3, <1>4, <1>5, <1>6 DEF Knows, Ended, Excused, Repeats
<1> HIDE DEF s
<1> QED
  BY <1>2, <1>3, <1>4, <1>6, <1>7, RunOnly

LEMMA CrashInv ==
  ASSUME IInv, NEW r \in Runs, Crash(r)
  PROVE  IInv'
<1>1. run \in [Runs -> RunState] /\ run[r] \in RunState
  BY DEF IInv, TypeOK
<1>2. crashes' \in 0..MaxCrashes
  BY MigrationAssumption DEF IInv, TypeOK, Crash
<1>3. run[r].reply = "none" /\ run[r].hit \in BOOLEAN
  BY <1>1 DEF IInv, Ended, Crash, RunState
<1>4. run' = [run EXCEPT ![r] = [@ EXCEPT !.pc = "done", !.reply = "none",
                                         !.hit = run[r].hit]]
  <2>1. [run[r] EXCEPT !.pc = "done"]
          = [run[r] EXCEPT !.pc = "done", !.reply = "none", !.hit = run[r].hit]
    BY <1>1, <1>3 DEF RunState
  <2> QED
    BY <2>1 DEF Crash
<1> DEFINE hit == run[r].hit
<1>5. hit \in BOOLEAN
  BY <1>3
<1>6. run' = [run EXCEPT ![r] = [@ EXCEPT !.pc = "done", !.reply = "none",
                                         !.hit = hit]]
  BY <1>4
<1> HIDE DEF hit
<1> QED
  BY <1>2, <1>3, <1>5, <1>6, EndRun DEF Crash

-----------------------------------------------------------------------------
(* The steps under the lock that change the schema or its version *)

LEMMA HolderStep ==
  ASSUME IInv, NEW r \in Runs, HoldsLock(r), NEW s \in RunState,
         run' = [run EXCEPT ![r] = s],
         schema' \in [Version -> Nat],
         \A v \in Version : /\ schema'[v] <= Len(Scripts[v])
                            /\ schema'[v] >= schema[v],
         version' \in 0..Len(Scripts),
         dirty' \in BOOLEAN,
         \/ lock' = lock
         \/ lock' = Free /\ s.pc \notin {"check", "next", "script", "set"},
         UNCHANGED crashes,
         Recorded', Blamed', Knows(r)', Ended(r)'
  PROVE  IInv'
<1>1. lock = r
  BY DEF IInv, Locked
<1>2. TypeOK'
  <2>1. run' \in [Runs -> RunState]
    BY DEF IInv, TypeOK
  <2>2. lock' \in Runs \cup {Free} /\ crashes' \in 0..MaxCrashes
    BY DEF IInv, TypeOK
  <2> QED
    BY <2>1, <2>2 DEF TypeOK
<1>3. ASSUME NEW q \in Runs, q # r PROVE run'[q] = run[q] /\ ~HoldsLock(q)
  BY <1>1, <1>3 DEF IInv, TypeOK, Locked
<1>4. Locked'
  <2> SUFFICES ASSUME NEW q \in Runs, HoldsLock(q)'
               PROVE  lock' = q
    BY DEF Locked
  <2>1. q = r
    BY <1>3 DEF HoldsLock
  <2>2. run'[r] = s
    BY DEF IInv, TypeOK
  <2> QED
    BY <1>1, <2>1, <2>2 DEF HoldsLock
<1>5. ASSUME NEW q \in Runs, q # r PROVE Knows(q)'
  <2> SUFFICES ASSUME run[q].pc = "force"
               PROVE  /\ run[q].at \in Version
                      /\ run[q].at > 1
                      /\ AppliedTo(run[q].at - 1)'
    BY <1>3, <1>5 DEF Knows, HoldsLock
  <2>1. /\ run[q].at \in Version
        /\ run[q].at > 1
        /\ AppliedTo(run[q].at - 1)
    BY DEF IInv, Knows
  <2>2. PICK n \in 0..Len(Scripts) : n = run[q].at - 1
    BY <2>1, ScriptFacts DEF Version
  <2>3. AppliedTo(n)'
    BY <2>1, <2>2, AppliedStays DEF IInv
  <2>4. run'[q] = run[q]
    BY <1>3, <1>5
  <2> QED
    BY <2>1, <2>2, <2>3, <2>4
<1>6. ASSUME NEW q \in Runs, q # r PROVE Ended(q)'
  <2>1. run'[q] = run[q]
    BY <1>3, <1>6
  <2>2. CASE run[q].reply = "ok"
    <3>1. AppliedTo(Len(Scripts))
      BY <2>2 DEF IInv, Ended
    <3>2. AppliedTo(Len(Scripts))'
      BY <3>1, AppliedStays, ScriptFacts DEF IInv
    <3>3. run[q].pc = "done"
      BY <2>2 DEF IInv, Ended
    <3>4. Len(Scripts)' = Len(Scripts)
      OBVIOUS
    <3> QED
      BY <2>1, <2>2, <3>2, <3>3, <3>4 DEF Ended
  <2>3. CASE run[q].reply = "error" /\ ~run[q].hit
    <3>1. Excused(q) /\ run[q].pc = "done"
      BY <2>3 DEF IInv, Ended
    <3>2. run[q].at \in Version
      BY <3>1 DEF Excused
    <3>3. ASSUME Repeats(q) PROVE Repeats(q)'
      <4>1. /\ run[q].stmt \in Nat
            /\ schema[run[q].at] \in Nat
            /\ schema'[run[q].at] \in Nat
            /\ schema'[run[q].at] >= schema[run[q].at]
        BY <3>2 DEF IInv, TypeOK, RunState
      <4> QED
        BY <2>1, <3>3, <4>1 DEF Repeats
    <3>4. ASSUME NEW p \in Runs, run[p].pc = "done" PROVE run'[p] = run[p]
      BY <1>3, <3>4 DEF HoldsLock
    <3>5. Excused(q)'
      BY <2>1, <3>1, <3>2, <3>3, <3>4 DEF Excused
    <3> QED
      BY <2>1, <2>3, <3>1, <3>5 DEF Ended
  <2>4. CASE run[q].reply # "ok" /\ (run[q].reply # "error" \/ run[q].hit)
    BY <2>1, <2>4 DEF IInv, Ended
  <2> QED
    BY <2>2, <2>3, <2>4
<1> QED
  BY <1>2, <1>4, <1>5, <1>6 DEF IInv

LEMMA BeginScriptInv ==
  ASSUME IInv, NEW r \in Runs, BeginScript(r)
  PROVE  IInv'
<1>1. run \in [Runs -> RunState] /\ run[r] \in RunState
  BY DEF IInv, TypeOK
<1>2. CASE Abort(r) /\ UNCHANGED <<version, dirty>>
  BY <1>2, AbortInv DEF BeginScript
<1>3. CASE ~(Abort(r) /\ UNCHANGED <<version, dirty>>)
  <2> DEFINE s == [run[r] EXCEPT !.pc = "script", !.at = @ + 1, !.stmt = 1]
  <2>1. /\ run' = [run EXCEPT ![r] = s]
        /\ run[r].pc = "next"
        /\ run[r].at < Len(Scripts)
        /\ version' = run[r].at + 1
        /\ dirty' = TRUE
        /\ UNCHANGED <<schema, lock, crashes>>
    BY <1>3 DEF BeginScript
  <2>2. ~dirty /\ run[r].at = version /\ version \in 0..Len(Scripts)
    BY <2>1 DEF IInv, Knows, TypeOK
  <2>3. version' \in Version /\ version' - 1 = version
    BY <2>1, <2>2, ScriptFacts DEF Version
  <2>4. /\ s \in RunState
        /\ s.pc = "script"
        /\ s.at = version'
        /\ s.stmt = 1
        /\ s.reply = run[r].reply
    <3>1. run[r].at + 1 = version' /\ version' \in 0..Len(Scripts)
      BY <2>1, <2>3, ScriptFacts DEF Version
    <3>2. s = [run[r] EXCEPT !.pc = "script", !.at = version', !.stmt = 1]
      BY <3>1
    <3> QED
      BY <1>1, <3>1, <3>2 DEF RunState, RunPC
  <2>5. run'[r] = s
    BY <1>1, <2>1
  <2>6. /\ schema' \in [Version -> Nat]
        /\ \A v \in Version : /\ schema'[v] <= Len(Scripts[v])
                              /\ schema'[v] >= schema[v]
    BY <2>1 DEF IInv, TypeOK
  <2>7. AppliedTo(version)
    BY <2>2 DEF IInv, Recorded
  <2>8. Recorded'
    BY <2>1, <2>3, <2>7 DEF Recorded, AppliedTo, Finished
  <2>9. Blamed'
    BY <2>4, <2>5 DEF Blamed
  <2>10. Knows(r)'
    <3>1. 1 \in 1..(Len(Scripts[version']) + 1)
      BY <2>3, ScriptFacts
    <3>2. 1 <= schema'[version'] + 1
      BY <2>3, <2>6
    <3> QED
      BY <2>1, <2>4, <2>5, <3>1, <3>2 DEF Knows
  <2>11. Ended(r)'
    BY <1>1, <2>1, <2>4, <2>5 DEF IInv, Ended, RunState
  <2>12. dirty' \in BOOLEAN
    BY <2>1, Zenon
  <2>13. HoldsLock(r) /\ version' \in 0..Len(Scripts)
    BY <2>1, <2>3, ScriptFacts DEF HoldsLock, Version
  <2> HIDE DEF s
  <2> QED
    BY <2>1, <2>4, <2>6, <2>8, <2>9, <2>10, <2>11, <2>12, <2>13, HolderStep
<1> QED
  BY <1>2, <1>3

\* A statement that is run again takes nothing back.
LEMMA RunStatementInv ==
  ASSUME IInv, NEW r \in Runs, RunStatement(r)
  PROVE  IInv'
<1>1. run \in [Runs -> RunState] /\ run[r] \in RunState
  BY DEF IInv, TypeOK
<1>2. CASE Abort(r) /\ UNCHANGED schema
  BY <1>2, AbortInv DEF RunStatement
<1>3. CASE ~(Abort(r) /\ UNCHANGED schema)
  <2> DEFINE s == [run[r] EXCEPT !.stmt = @ + 1]
             n == IF run[r].stmt > schema[run[r].at] THEN run[r].stmt
                                                     ELSE schema[run[r].at]
  <2>1. /\ run' = [run EXCEPT ![r] = s]
        /\ run[r].pc = "script"
        /\ run[r].stmt <= Len(Scripts[run[r].at])
        /\ schema' = [schema EXCEPT ![run[r].at] = n]
        /\ UNCHANGED <<version, dirty, lock, crashes>>
    BY <1>3 DEF RunStatement
  <2>2. /\ dirty
        /\ run[r].at = version
        /\ version \in Version
        /\ run[r].stmt \in 1..(Len(Scripts[version]) + 1)
        /\ run[r].stmt <= schema[version] + 1
    BY <2>1 DEF IInv, Knows, Recorded
  <2>3. /\ s \in RunState
        /\ s.pc = "script"
        /\ s.at = version
        /\ s.stmt = run[r].stmt + 1
        /\ s.reply = run[r].reply
    <3>1. run[r].stmt \in Nat /\ run[r].stmt + 1 \in Nat
      BY <2>2, ScriptFacts
    <3> DEFINE next == run[r].stmt + 1
    <3>2. s = [run[r] EXCEPT !.stmt = next]
      BY <1>1 DEF RunState
    <3> HIDE DEF next
    <3>3. next \in Nat /\ s \in RunState
      BY <1>1, <3>1, <3>2 DEF next, RunState
    <3>4. s.pc = run[r].pc /\ s.at = run[r].at /\ s.reply = run[r].reply
      BY <1>1 DEF RunState
    <3>5. s.stmt = run[r].stmt + 1
      BY <1>1 DEF RunState
    <3> QED
      BY <2>1, <2>2, <3>3, <3>4, <3>5
  <2>4. run'[r] = s
    BY <1>1, <2>1
  <2>5. /\ schema \in [Version -> Nat]
        /\ \A v \in Version : schema[v] <= Len(Scripts[v])
    BY DEF IInv, TypeOK
  <2>6. /\ n \in Nat
        /\ n <= Len(Scripts[version])
        /\ n >= schema[version]
        /\ run[r].stmt <= n
    BY <2>1, <2>2, <2>5, ScriptFacts
  <2>7. /\ schema' \in [Version -> Nat]
        /\ \A v \in Version : schema'[v] = IF v = version THEN n ELSE schema[v]
    BY <2>1, <2>2, <2>5, <2>6
  <2> HIDE DEF s, n
  <2>8. \A v \in Version : /\ schema'[v] <= Len(Scripts[v])
                           /\ schema'[v] >= schema[v]
    BY <2>5, <2>6, <2>7, ScriptFacts
  <2>9. Recorded'
    <3>1. AppliedTo(version - 1)
      BY <2>2 DEF IInv, Recorded
    <3>2. PICK m \in 0..Len(Scripts) : m = version - 1
      BY <2>2, ScriptFacts DEF Version
    <3>3. AppliedTo(m)'
      BY <2>7, <2>8, <3>1, <3>2, AppliedStays DEF IInv
    <3>4. version' = version /\ dirty'
      BY <2>1, <2>2
    <3> QED
      BY <2>2, <3>2, <3>3, <3>4 DEF Recorded, AppliedTo, Finished, Version
  <2>10. Blamed'
    BY <2>1, <2>3, <2>4 DEF Blamed
  <2>11. Knows(r)'
    <3>1. run[r].stmt + 1 \in 1..(Len(Scripts[version]) + 1)
      BY <2>1, <2>2, ScriptFacts
    <3>2. run[r].stmt + 1 <= schema'[version] + 1
      BY <2>2, <2>6, <2>7, ScriptFacts
    <3> QED
      BY <2>1, <2>2, <2>3, <2>4, <3>1, <3>2 DEF Knows
  <2>12. Ended(r)'
    BY <1>1, <2>1, <2>3, <2>4 DEF IInv, Ended, RunState
  <2>13. dirty' \in BOOLEAN
    BY <2>1, <2>2, Zenon DEF IInv, TypeOK
  <2>14. HoldsLock(r) /\ version' \in 0..Len(Scripts)
    BY <2>1, <2>2, ScriptFacts DEF HoldsLock, Version
  <2> QED
    BY <2>1, <2>3, <2>7, <2>8, <2>9, <2>10, <2>11, <2>12, <2>13, <2>14, HolderStep
<1> QED
  BY <1>2, <1>3

\* All statements have taken effect when the version is marked clean.
LEMMA EndScriptInv ==
  ASSUME IInv, NEW r \in Runs, EndScript(r)
  PROVE  IInv'
<1>1. run \in [Runs -> RunState] /\ run[r] \in RunState
  BY DEF IInv, TypeOK
<1>2. CASE Abort(r) /\ UNCHANGED <<version, dirty>>
  BY <1>2, AbortInv DEF EndScript
<1>3. CASE ~(Abort(r) /\ UNCHANGED <<version, dirty>>)
  <2> DEFINE s == [run[r] EXCEPT !.pc = "next"]
  <2>1. /\ run' = [run EXCEPT ![r] = s]
        /\ run[r].pc = "script"
        /\ run[r].stmt > Len(Scripts[run[r].at])
        /\ version' = run[r].at
        /\ dirty' = FALSE
        /\ UNCHANGED <<schema, lock, crashes>>
    BY <1>3 DEF EndScript, Goto
  <2>2. /\ dirty
        /\ run[r].at = version
        /\ version \in Version
        /\ run[r].stmt <= schema[version] + 1
        /\ run[r].stmt \in Nat
    BY <1>1, <2>1 DEF IInv, Knows, Recorded, RunState
  <2>3. s \in RunState /\ s.pc = "next" /\ s.at = version /\ s.reply = run[r].reply
    BY <1>1, <2>2 DEF RunState, RunPC
  <2>4. run'[r] = s
    BY <1>1, <2>1
  <2>5. /\ schema' \in [Version -> Nat]
        /\ \A v \in Version : /\ schema'[v] <= Len(Scripts[v])
                              /\ schema'[v] >= schema[v]
    BY <2>1 DEF IInv, TypeOK
  <2>6. Finished(version)
    <3>1. schema[version] \in Nat /\ schema[version] <= Len(Scripts[version])
      BY <2>2 DEF IInv, TypeOK
    <3> QED
      BY <2>1, <2>2, <3>1, ScriptFacts DEF Finished
  <2>7. AppliedTo(version)
    <3>1. AppliedTo(version - 1)
      BY <2>2 DEF IInv, Recorded
    <3>2. \A v \in 1..version : v = version \/ v \in 1..(version - 1)
      BY <2>2, ScriptFacts DEF Version
    <3> QED
      BY <2>6, <3>1, <3>2 DEF AppliedTo
  <2>8. Recorded'
    BY <2>1, <2>2, <2>7 DEF Recorded, AppliedTo, Finished
  <2>9. Blamed'
    BY <2>1 DEF Blamed
  <2>10. Knows(r)' /\ Ended(r)'
    BY <1>1, <2>1, <2>2, <2>3, <2>4 DEF IInv, Knows, Ended, RunState
  <2>11. dirty' \in BOOLEAN
    BY <2>1, Zenon
  <2>12. HoldsLock(r) /\ version' \in 0..Len(Scripts)
    BY <2>1, <2>2, ScriptFacts DEF HoldsLock, Version
  <2> HIDE DEF s
  <2> QED
    BY <2>1, <2>3, <2>5, <2>8, <2>9, <2>10, <2>11, <2>12, HolderStep
<1> QED
  BY <1>2, <1>3

\* The version forced back was applied in full when the run met the dirty one,
\* however long ago, and what has been applied stays so.
LEMMA ForceVersionInv ==
  ASSUME IInv, NEW r \in Runs, ForceVersion(r)
  PROVE  IInv'
<1>1. run \in [Runs -> RunState] /\ run[r] \in RunState
  BY DEF IInv, TypeOK
<1>2. CASE Abort(r) /\ UNCHANGED <<version, dirty>>
  BY <1>2, AbortInv DEF ForceVersion
<1>3. CASE ~(Abort(r) /\ UNCHANGED <<version, dirty>>)
  <2> DEFINE s == [run[r] EXCEPT !.pc = "up", !.second = TRUE]
  <2>1. /\ run' = [run EXCEPT ![r] = s]
        /\ run[r].pc = "set"
        /\ version' = run[r].at - 1
        /\ dirty' = FALSE
        /\ lock' = Free
        /\ UNCHANGED <<schema, crashes>>
    BY <1>3 DEF ForceVersion, PreviousVersion
  <2>2. /\ run[r].at \in Version
        /\ run[r].at > 1
        /\ AppliedTo(run[r].at - 1)
    BY <2>1 DEF IInv, Knows
  <2>3. s \in RunState /\ s.pc = "up" /\ s.reply = run[r].reply
    BY <1>1 DEF RunState, RunPC
  <2>4. run'[r] = s
    BY <1>1, <2>1
  <2>5. /\ schema' \in [Version -> Nat]
        /\ \A v \in Version : /\ schema'[v] <= Len(Scripts[v])
                              /\ schema'[v] >= schema[v]
    BY <2>1 DEF IInv, TypeOK
  <2>6. Recorded'
    BY <2>1, <2>2 DEF Recorded, AppliedTo, Finished
  <2>7. Blamed'
    BY <2>1 DEF Blamed
  <2>8. Knows(r)' /\ Ended(r)'
    BY <1>1, <2>1, <2>3, <2>4 DEF IInv, Knows, Ended, RunState
  <2>9. dirty' \in BOOLEAN
    BY <2>1, Zenon
  <2>10. HoldsLock(r) /\ version' \in 0..Len(Scripts)
    BY <2>1, <2>2, ScriptFacts DEF HoldsLock, Version
  <2> HIDE DEF s
  <2> QED
    BY <2>1, <2>3, <2>5, <2>6, <2>7, <2>8, <2>9, <2>10, HolderStep
<1> QED
  BY <1>2, <1>3

-----------------------------------------------------------------------------
(* The theorems *)

LEMMA IInvNext == IInv /\ [Next]_vars => IInv'
<1> SUFFICES ASSUME IInv, [Next]_vars PROVE IInv'
  OBVIOUS
<1>1. ASSUME NEW r \in Runs, RunStep(r) PROVE IInv'
  BY <1>1, LockInv, StartCleanInv, MeetDirtyInv, BeginScriptInv, EndUpInv,
     RunStatementInv, StatementFailsInv, EndScriptInv, ForceVersionInv
  DEF RunStep
<1>2. ASSUME NEW r \in Runs, Crash(r) PROVE IInv'
  BY <1>2, CrashInv
<1>3. CASE UNCHANGED vars
  BY <1>3 DEF vars, IInv, TypeOK, Locked, HoldsLock, Recorded, AppliedTo, Finished,
              Blamed, Knows, Ended, Excused, Repeats
<1> QED
  BY <1>1, <1>2, <1>3 DEF Next

\* What is recorded of the schema, and what every run knows of it, holds in every
\* reachable state.
THEOREM MigrationInvariant == Spec => []IInv
  BY IInvInit, IInvNext, PTL DEF Spec

\* The schema, its version and the local state of every run keep their types:
\* the version is one of the scripts, however many runs force it back.
THEOREM MigrationTypeCorrect == Spec => []TypeOK
<1>1. IInv => TypeOK
  BY DEF IInv
<1> QED
  BY <1>1, MigrationInvariant, PTL

\* A version recorded as clean has been applied in full, with all before it,
\* whatever fails and however the Up and Force calls of several runs interleave.
THEOREM CleanVersionsAreApplied == Spec => []CleanIsApplied
<1>1. IInv => CleanIsApplied
  BY DEF IInv, Recorded, AppliedTo, CleanIsApplied
<1> QED
  BY <1>1, MigrationInvariant, PTL

\* MigrateUp returns nil only when every script has been applied in full.
THEOREM SuccessIsWholeSchema == Spec => []SuccessMeansMigrated
<1>1. IInv => SuccessMeansMigrated
  BY DEF IInv, Ended, AppliedTo, SuccessMeansMigrated, Version
<1> QED
  BY <1>1, MigrationInvariant, PTL

\* A run none of whose calls failed by itself gives up only at the first script,
\* at a statement that cannot be repeated, or at a version that another run left
\* dirty after this one had forced it back.
THEOREM FailuresAreExplained == Spec => []FailureExplained
<1>1. IInv => FailureExplained
  BY DEF IInv, Ended, Excused, FailureExplained
<1> QED
  BY <1>1, MigrationInvariant, PTL
=============================================================================
