---------------------------- MODULE StreamProofs -----------------------------
(***************************************************************************)
(* Theorems about Stream, for any number of widths, any length of a file   *)
(* and any faults: a file that is streamed through a goroutine is stored   *)
(* as if it were saved atomically.                                         *)
(***************************************************************************)
EXTENDS Stream, TLAPS

-----------------------------------------------------------------------------
(* The inductive invariant *)

\* The rounds to come have not touched anything.
Fresh(i) ==
  /\ job[i] = [pc |-> "none", wrote |-> 0, temp |-> {}, defers |-> {}]
  /\ pipe[i] = [closed |-> FALSE, end |-> "none"]
  /\ object[i] = Absent

ToCome ==
  \A i \in Round :
    i > caller.round \/ (i = caller.round /\ caller.pc \in {"get", "start"})
      => Fresh(i)

Whole(i) == object[i] = Chunks

\* A task goes on to the next round, and succeeds, only after a whole file.
RoundsBefore ==
  /\ caller.round <= Rounds
  /\ \A i \in Round : i < caller.round => Whole(i)
  /\ caller.pc = "close" /\ caller.reply = "none" => Whole(caller.round)
  /\ (caller.pc = "close_reader" /\ caller.reply = "none") \/ caller.reply = "ok" =>
       caller.round = Rounds /\ Whole(caller.round)

Replied ==
  /\ caller.pc \in {"get", "start", "put"} => caller.reply = "none"
  /\ caller.reply = "ok" => caller.pc = "done"
  /\ caller.pc = "done" => caller.reply # "none"

\* The upload has read what the goroutine of its round has written.
Uploading ==
  caller.pc = "put" => /\ object[caller.round] = Absent
                       /\ caller.got = job[caller.round].wrote

\* The end of the file is only signalled when all of it was written: an error
\* that a goroutine meets is recorded before it returns.
EndIsTrue(i) ==
  /\ object[i] # Absent => Whole(i) /\ pipe[i].end = "eof"
  /\ pipe[i].end = "eof" => job[i].pc = "ended" /\ job[i].wrote = Chunks
  /\ pipe[i].end = "error" => job[i].pc \in {"return", "close", "ended"}
  /\ job[i].pc \in {"return", "close"} /\ pipe[i].end = "none" =>
       job[i].wrote = Chunks

\* How far a goroutine has come.  One that passes the file on as it is has
\* written what it has read, but for the chunk in its hands.
Progress(i) ==
  /\ job[i].pc \in {"temp_in", "temp_out"} => kind = "pdf"
  /\ job[i].pc = "write" => job[i].wrote < Chunks
  /\ kind # "raw" /\ job[i].pc \in Working \ {"write"} => job[i].wrote = 0
  /\ kind = "raw" =>
       /\ job[i].pc # "convert"
       /\ job[i].pc = "read" => job[i].wrote = reader.at
       /\ job[i].pc = "write" => job[i].wrote + 1 = reader.at

\* The temporary files there are, and the removals deferred, at each step.
TempFiles(i) ==
  LET temp   == job[i].temp
      defers == job[i].defers
      unfilled == temp = {"in"} /\ defers = {} /\ pipe[i].end = "error"
  IN /\ kind # "pdf" \/ job[i].pc \in {"none", "temp_in"} =>
          temp = {} /\ defers = {}
     /\ job[i].pc = "read" =>
          temp = (IF kind = "pdf" THEN {"in"} ELSE {}) /\ defers = {}
     /\ job[i].pc = "temp_out" => temp = {"in"} /\ defers = {"in"}
     /\ job[i].pc \in {"convert", "write"} => temp = defers
     /\ job[i].pc = "return" => temp = defers \/ unfilled
     /\ job[i].pc \in {"close", "ended"} => temp = {} \/ unfilled

Goroutine(i) == EndIsTrue(i) /\ Progress(i) /\ TempFiles(i)

IInv ==
  /\ TypeOK
  /\ ToCome
  /\ RoundsBefore
  /\ Replied
  /\ Uploading
  /\ \A i \in Round : Goroutine(i)

-----------------------------------------------------------------------------
(* Facts about the data *)

LEMMA RoundFacts ==
  /\ Widths \in Nat /\ Chunks \in Nat /\ Chunks >= 1
  /\ Rounds \in Round
  /\ \A i \in Round : i \in Nat /\ i >= 1 /\ i <= Widths
  BY StreamAssumption DEF Rounds, Round

LEMMA Absence == Absent \notin 0..Chunks /\ Absent # Chunks /\ Chunks \in 0..Absent
  BY StreamAssumption DEF Absent

\* Only the goroutine of the task's round runs: those before have ended, those
\* to come have not started.
LEMMA ActiveRound ==
  ASSUME IInv, NEW i \in Round, job[i].pc \notin {"none", "ended"}
  PROVE  i = caller.round /\ caller.pc \notin {"get", "start"}
<1>1. caller.round \in Round
  BY DEF IInv, TypeOK, CallerState
<1>2. CASE i < caller.round
  BY <1>2, Absence DEF IInv, RoundsBefore, Whole, Goroutine, EndIsTrue
<1>3. CASE i > caller.round \/ (i = caller.round /\ caller.pc \in {"get", "start"})
  BY <1>3 DEF IInv, ToCome, Fresh
<1> QED
  BY <1>1, <1>2, <1>3, RoundFacts

-----------------------------------------------------------------------------
(* Steps of a goroutine *)

\* Of the goroutines and the pipes, only those of round i change.
OnlyRound(i) ==
  /\ job' \in [Round -> JobState]
  /\ pipe' \in [Round -> PipeState]
  /\ \A j \in Round \ {i} : job'[j] = job[j] /\ pipe'[j] = pipe[j]

LEMMA JobStepInv ==
  ASSUME IInv, NEW i \in Round, job[i].pc \notin {"none", "ended"},
         OnlyRound(i),
         reader' \in ReaderState,
         reader' = reader \/ job[i].pc \in Working,
         UNCHANGED <<kind, object>>,
         \/ UNCHANGED caller /\ job'[i].wrote = job[i].wrote
         \/ /\ caller.pc = "put"
            /\ caller.round = i
            /\ caller' = [caller EXCEPT !.got = @ + 1]
            /\ job'[i].wrote = job[i].wrote + 1,
         Goroutine(i)'
  PROVE  IInv'
<1>1. i = caller.round /\ caller.pc \notin {"get", "start"}
  BY ActiveRound
<1>2. caller \in CallerState
  BY DEF IInv, TypeOK
<1>3. /\ caller' \in CallerState
      /\ caller'.pc = caller.pc
      /\ caller'.round = caller.round
      /\ caller'.reply = caller.reply
      /\ caller.pc = "put" => caller'.got = job'[i].wrote
  <2>1. CASE UNCHANGED caller /\ job'[i].wrote = job[i].wrote
    BY <1>1, <1>2, <2>1 DEF IInv, Uploading
  <2>2. CASE /\ caller.pc = "put"
             /\ caller' = [caller EXCEPT !.got = @ + 1]
             /\ job'[i].wrote = job[i].wrote + 1
    <3>1. caller.got + 1 = job'[i].wrote
      BY <1>1, <2>2 DEF IInv, Uploading
    <3>2. job'[i].wrote \in 0..Chunks
      BY DEF OnlyRound, JobState
    <3> QED
      BY <1>2, <2>2, <3>1, <3>2 DEF CallerState
  <2> QED
    BY <2>1, <2>2
<1>4. TypeOK'
  BY <1>3 DEF IInv, TypeOK, OnlyRound
<1>5. ToCome'
  BY <1>1, <1>3 DEF IInv, ToCome, Fresh, OnlyRound
<1>6. RoundsBefore' /\ Replied'
  BY <1>1, <1>3 DEF IInv, RoundsBefore, Replied, Whole, Rounds
<1>7. Uploading'
  BY <1>1, <1>3 DEF IInv, Uploading
<1>8. ASSUME NEW j \in Round, j # i PROVE Goroutine(j)'
  <2>1. job'[j] = job[j] /\ pipe'[j] = pipe[j]
    BY <1>8 DEF OnlyRound
  <2>2. Goroutine(j)
    BY DEF IInv
  <2>3. job[j].pc \in {"none", "ended"}
    BY <1>1, <1>8, ActiveRound
  <2>4. EndIsTrue(j)' /\ TempFiles(j)'
    BY <2>1, <2>2 DEF Goroutine, EndIsTrue, TempFiles, Whole
  <2>5. Progress(j)'
    BY <2>1, <2>3 DEF Progress, Working
  <2> QED
    BY <2>4, <2>5 DEF Goroutine
<1> QED
  BY <1>4, <1>5, <1>6, <1>7, <1>8 DEF IInv

LEMMA Jumped ==
  ASSUME TypeOK, NEW i \in Round,
         NEW pc \in Working \cup {"none", "return", "close", "ended"},
         Jump(i, pc)
  PROVE  /\ job' \in [Round -> JobState]
         /\ \A j \in Round \ {i} : job'[j] = job[j]
         /\ job'[i].pc = pc
         /\ job'[i].wrote = job[i].wrote
         /\ job'[i].temp = job[i].temp
         /\ job'[i].defers = job[i].defers
<1> DEFINE s == [job[i] EXCEPT !.pc = pc]
<1>1. job \in [Round -> JobState] /\ job[i] \in JobState
  BY DEF TypeOK
<1>2. s \in JobState /\ s.pc = pc /\ s.wrote = job[i].wrote
      /\ s.temp = job[i].temp /\ s.defers = job[i].defers
  BY <1>1 DEF JobState
<1>3. job' = [job EXCEPT ![i] = s]
  BY DEF Jump
<1> HIDE DEF s
<1> QED
  BY <1>1, <1>2, <1>3

\* An error ends the work of a goroutine and is recorded in its pipe.
LEMMA BreakInv ==
  ASSUME IInv, NEW i \in Round, job[i].pc \in Working, Break(i),
         UNCHANGED <<kind, caller, reader, object>>
  PROVE  IInv'
<1>1. /\ job' \in [Round -> JobState]
      /\ \A j \in Round \ {i} : job'[j] = job[j]
      /\ job'[i].pc = "return"
      /\ job'[i].wrote = job[i].wrote
      /\ job'[i].temp = job[i].temp
      /\ job'[i].defers = job[i].defers
  BY Jumped DEF Break, IInv
<1>2. /\ pipe' \in [Round -> PipeState]
      /\ \A j \in Round \ {i} : pipe'[j] = pipe[j]
      /\ pipe'[i].end = "error"
  <2> DEFINE p == [pipe[i] EXCEPT !.end = "error"]
  <2>1. pipe \in [Round -> PipeState] /\ pipe[i] \in PipeState
    BY DEF IInv, TypeOK
  <2>2. p \in PipeState /\ p.end = "error"
    BY <2>1 DEF PipeState
  <2>3. pipe' = [pipe EXCEPT ![i] = p]
    BY DEF Break
  <2> HIDE DEF p
  <2> QED
    BY <2>1, <2>2, <2>3
<1>3. Goroutine(i)
  BY DEF IInv
<1>4. object[i] = Absent
  BY <1>3 DEF Goroutine, EndIsTrue, Working
<1>5. EndIsTrue(i)'
  BY <1>1, <1>2, <1>4 DEF EndIsTrue
<1>6. Progress(i)'
  BY <1>1 DEF Progress, Working
<1>7. TempFiles(i)'
  BY <1>1, <1>2, <1>3 DEF Goroutine, TempFiles, Working
<1>8. job[i].pc \notin {"none", "ended"} /\ reader' \in ReaderState
  BY DEF Working, IInv, TypeOK
<1>9. OnlyRound(i) /\ Goroutine(i)'
  BY <1>1, <1>2, <1>5, <1>6, <1>7 DEF OnlyRound, Goroutine
<1> QED
  BY <1>1, <1>8, <1>9, JobStepInv

\* A goroutine goes on and leaves its files and its pipe as they are.
LEMMA JumpInv ==
  ASSUME IInv, NEW i \in Round, job[i].pc \in Working,
         NEW pc \in Working \cup {"return"}, Jump(i, pc),
         reader' \in ReaderState,
         UNCHANGED <<kind, caller, pipe, object>>,
         pc = "return" => job[i].wrote = Chunks,
         Progress(i)', TempFiles(i)'
  PROVE  IInv'
<1>1. /\ job' \in [Round -> JobState]
      /\ \A j \in Round \ {i} : job'[j] = job[j]
      /\ job'[i].pc = pc
      /\ job'[i].wrote = job[i].wrote
  BY Jumped DEF IInv
<1>2. OnlyRound(i)
  BY <1>1 DEF OnlyRound, IInv, TypeOK
<1>3. EndIsTrue(i)'
  BY <1>1 DEF IInv, Goroutine, EndIsTrue, Working, Whole
<1>4. job[i].pc \notin {"none", "ended"}
  BY DEF Working
<1> QED
  BY <1>1, <1>2, <1>3, <1>4, JobStepInv DEF Goroutine

LEMMA CreateTempInInv ==
  ASSUME IInv, NEW i \in Round, CreateTempIn(i)
  PROVE  IInv'
<1>1. job[i].pc = "temp_in" /\ UNCHANGED <<kind, caller, reader, object>>
  BY DEF CreateTempIn
<1>2. CASE Break(i)
  BY <1>1, <1>2, BreakInv DEF Working
<1>3. CASE ~Break(i)
  <2> DEFINE s == [job[i] EXCEPT !.pc = "read", !.temp = {"in"}]
  <2>1. job \in [Round -> JobState] /\ job[i] \in JobState
    BY DEF IInv, TypeOK
  <2>2. /\ s \in JobState
        /\ s.pc = "read"
        /\ s.wrote = job[i].wrote
        /\ s.temp = {"in"}
        /\ s.defers = job[i].defers
    BY <2>1 DEF JobState, TempFile, Working
  <2>3. job' = [job EXCEPT ![i] = s] /\ UNCHANGED pipe
    BY <1>3 DEF CreateTempIn
  <2> HIDE DEF s
  <2>4. OnlyRound(i) /\ job'[i] = s
    BY <2>1, <2>2, <2>3 DEF OnlyRound, IInv, TypeOK
  <2>5. Goroutine(i)'
    BY <1>1, <2>2, <2>3, <2>4
    DEF IInv, Goroutine, EndIsTrue, Progress, TempFiles, Working, Whole
  <2> QED
    BY <1>1, <2>2, <2>4, <2>5, JobStepInv DEF IInv, TypeOK
<1> QED
  BY <1>2, <1>3

LEMMA ReadOriginalInv ==
  ASSUME IInv, NEW i \in Round, ReadOriginal(i)
  PROVE  IInv'
<1>1. /\ job[i].pc = "read"
      /\ reader.at < Chunks
      /\ UNCHANGED <<kind, caller, pipe, object>>
  BY DEF ReadOriginal
<1>2. /\ reader \in ReaderState
      /\ reader' \in ReaderState
      /\ reader'.at = reader.at + 1
  BY RoundFacts DEF IInv, TypeOK, ReaderState, ReadOriginal
<1>3. Goroutine(i) /\ job[i] \in JobState
  BY DEF IInv, TypeOK
<1>4. CASE kind = "raw"
  <2>1. Jump(i, "write")
    BY <1>4 DEF ReadOriginal
  <2>2. /\ job'[i].pc = "write"
        /\ job'[i].wrote = job[i].wrote
        /\ job'[i].temp = job[i].temp
        /\ job'[i].defers = job[i].defers
    BY <2>1, Jumped DEF IInv, Working
  <2>3. job[i].wrote = reader.at
    BY <1>1, <1>3, <1>4 DEF Goroutine, Progress
  <2>4. Progress(i)'
    BY <1>1, <1>2, <1>4, <2>2, <2>3 DEF Progress, ReaderState
  <2>5. TempFiles(i)'
    BY <1>1, <1>3, <1>4, <2>2 DEF Goroutine, TempFiles
  <2> QED
    BY <1>1, <1>2, <2>1, <2>4, <2>5, JumpInv DEF Working
<1>5. CASE kind # "raw"
  <2>1. UNCHANGED job
    BY <1>5 DEF ReadOriginal
  <2>2. OnlyRound(i)
    BY <1>1, <2>1 DEF OnlyRound, IInv, TypeOK
  <2>3. Goroutine(i)'
    BY <1>1, <1>3, <1>5, <2>1
    DEF Goroutine, EndIsTrue, Progress, TempFiles, Whole, Working
  <2> QED
    BY <1>1, <1>2, <2>1, <2>2, <2>3, JobStepInv DEF Working
<1> QED
  BY <1>4, <1>5

\* A file that is passed on as it is has been written in full when its end is
\* read.
LEMMA ReadToEndInv ==
  ASSUME IInv, NEW i \in Round, ReadToEnd(i)
  PROVE  IInv'
<1>1. /\ job[i].pc = "read"
      /\ reader.at = Chunks
      /\ UNCHANGED <<kind, caller, reader, pipe, object>>
  BY DEF ReadToEnd
<1>2. Goroutine(i) /\ reader' \in ReaderState
  BY <1>1 DEF IInv, TypeOK
<1>3. CASE kind = "pdf"
  <2> DEFINE s == [job[i] EXCEPT !.pc = "temp_out", !.defers = {"in"}]
  <2>1. job \in [Round -> JobState] /\ job[i] \in JobState
    BY DEF IInv, TypeOK
  <2>2. /\ s \in JobState
        /\ s.pc = "temp_out"
        /\ s.wrote = job[i].wrote
        /\ s.temp = job[i].temp
        /\ s.defers = {"in"}
    BY <2>1 DEF JobState, TempFile, Working
  <2>3. job' = [job EXCEPT ![i] = s]
    BY <1>3 DEF ReadToEnd
  <2> HIDE DEF s
  <2>4. OnlyRound(i) /\ job'[i] = s
    BY <1>1, <2>1, <2>2, <2>3 DEF OnlyRound, IInv, TypeOK
  <2>5. Goroutine(i)'
    BY <1>1, <1>2, <1>3, <2>2, <2>4
    DEF Goroutine, EndIsTrue, Progress, TempFiles, Working, Whole
  <2> QED
    BY <1>1, <1>2, <2>2, <2>4, <2>5, JobStepInv
<1>4. CASE kind # "pdf"
  <2> DEFINE pc == IF kind = "raw" THEN "return" ELSE "convert"
  <2>1. Jump(i, pc)
    BY <1>4 DEF ReadToEnd
  <2>2. pc \in Working \cup {"return"}
    BY DEF Working
  <2>3. /\ job'[i].pc = pc
        /\ job'[i].wrote = job[i].wrote
        /\ job'[i].temp = job[i].temp
        /\ job'[i].defers = job[i].defers
    BY <2>1, <2>2, Jumped DEF IInv
  <2>4. Progress(i)'
    BY <1>1, <1>2, <1>4, <2>3 DEF Goroutine, Progress, Working
  <2>5. TempFiles(i)'
    BY <1>1, <1>2, <1>4, <2>3 DEF Goroutine, TempFiles
  <2>6. pc = "return" => job[i].wrote = Chunks
    BY <1>1, <1>2, <1>4 DEF Goroutine, Progress
  <2>7. job[i].pc \in Working
    BY <1>1 DEF Working
  <2> HIDE DEF pc
  <2> QED
    BY <1>1, <1>2, <2>1, <2>2, <2>4, <2>5, <2>6, <2>7, JumpInv
<1> QED
  BY <1>3, <1>4

LEMMA CreateTempOutInv ==
  ASSUME IInv, NEW i \in Round, CreateTempOut(i)
  PROVE  IInv'
<1>1. job[i].pc = "temp_out" /\ UNCHANGED <<kind, caller, reader, object>>
  BY DEF CreateTempOut
<1>2. CASE Break(i)
  BY <1>1, <1>2, BreakInv DEF Working
<1>3. CASE ~Break(i)
  <2> DEFINE s == [job[i] EXCEPT !.pc = "convert", !.temp = TempFile,
                                 !.defers = TempFile]
  <2>1. job \in [Round -> JobState] /\ job[i] \in JobState
    BY DEF IInv, TypeOK
  <2>2. /\ s \in JobState
        /\ s.pc = "convert"
        /\ s.wrote = job[i].wrote
        /\ s.temp = TempFile
        /\ s.defers = TempFile
    BY <2>1 DEF JobState, TempFile, Working
  <2>3. job' = [job EXCEPT ![i] = s] /\ UNCHANGED pipe
    BY <1>3 DEF CreateTempOut
  <2> HIDE DEF s
  <2>4. OnlyRound(i) /\ job'[i] = s
    BY <2>1, <2>2, <2>3 DEF OnlyRound, IInv, TypeOK
  <2>5. Goroutine(i)'
    BY <1>1, <2>2, <2>3, <2>4
    DEF IInv, Goroutine, EndIsTrue, Progress, TempFiles, Working, Whole
  <2> QED
    BY <1>1, <2>2, <2>4, <2>5, JobStepInv DEF IInv, TypeOK
<1> QED
  BY <1>2, <1>3

LEMMA ConvertInv ==
  ASSUME IInv, NEW i \in Round, Convert(i)
  PROVE  IInv'
<1>1. job[i].pc = "convert" /\ UNCHANGED <<kind, caller, reader, object>>
  BY DEF Convert
<1>2. CASE Break(i)
  BY <1>1, <1>2, BreakInv DEF Working
<1>3. CASE Jump(i, "write") /\ UNCHANGED pipe
  <2>1. /\ job'[i].pc = "write"
        /\ job'[i].wrote = job[i].wrote
        /\ job'[i].temp = job[i].temp
        /\ job'[i].defers = job[i].defers
    BY <1>3, Jumped DEF IInv, Working
  <2>2. Goroutine(i) /\ reader' \in ReaderState
    BY <1>1 DEF IInv, TypeOK
  <2>3. Progress(i)'
    BY <1>1, <2>1, <2>2, RoundFacts DEF Goroutine, Progress, Working
  <2>4. TempFiles(i)'
    BY <1>1, <2>1, <2>2 DEF Goroutine, TempFiles
  <2> QED
    BY <1>1, <1>3, <2>2, <2>3, <2>4, JumpInv DEF Working
<1> QED
  BY <1>2, <1>3 DEF Convert

LEMMA WritePipeInv ==
  ASSUME IInv, NEW i \in Round, WritePipe(i)
  PROVE  IInv'
<1>1. /\ job[i].pc = "write"
      /\ caller.pc = "put" /\ caller.round = i
      /\ caller' = [caller EXCEPT !.got = @ + 1]
      /\ UNCHANGED <<kind, reader, pipe, object>>
  BY DEF WritePipe
<1>2. Goroutine(i)
  BY DEF IInv
<1> DEFINE pc == AfterWrite(i)
           s == [job[i] EXCEPT !.pc = pc, !.wrote = @ + 1]
<1>3. job \in [Round -> JobState] /\ job[i] \in JobState
  BY DEF IInv, TypeOK
<1>4. job[i].wrote < Chunks /\ job[i].wrote \in 0..Chunks
  BY <1>1, <1>2, <1>3 DEF Goroutine, Progress, JobState
<1>5. pc \in {"read", "write", "return"}
  BY DEF AfterWrite
<1>6. /\ s \in JobState
      /\ s.pc = pc
      /\ s.wrote = job[i].wrote + 1
      /\ s.temp = job[i].temp
      /\ s.defers = job[i].defers
  <2>1. job[i].wrote + 1 \in 0..Chunks
    BY <1>4, RoundFacts
  <2> HIDE DEF pc
  <2> QED
    BY <1>3, <1>5, <2>1 DEF JobState, Working
<1>7. job' = [job EXCEPT ![i] = s]
  BY DEF WritePipe
<1> HIDE DEF s
<1>8. OnlyRound(i) /\ job'[i] = s
  BY <1>1, <1>3, <1>6, <1>7 DEF OnlyRound, IInv, TypeOK
<1>9. EndIsTrue(i)'
  BY <1>1, <1>2, <1>4, <1>6, <1>8, RoundFacts
  DEF Goroutine, EndIsTrue, Whole, AfterWrite
<1>10. Progress(i)'
  BY <1>1, <1>2, <1>4, <1>6, <1>8, RoundFacts
  DEF Goroutine, Progress, AfterWrite, Working
<1>11. TempFiles(i)'
  BY <1>1, <1>2, <1>6, <1>8 DEF Goroutine, TempFiles, AfterWrite, Progress
<1> QED
  BY <1>1, <1>6, <1>8, <1>9, <1>10, <1>11, JobStepInv DEF Goroutine, IInv, TypeOK

LEMMA RemoveTempInv ==
  ASSUME IInv, NEW i \in Round, RemoveTemp(i)
  PROVE  IInv'
<1>1. /\ job[i].pc = "return"
      /\ job' = [job EXCEPT ![i].pc = "close", ![i].temp = @ \ job[i].defers]
      /\ UNCHANGED <<kind, caller, reader, pipe, object>>
  BY DEF RemoveTemp
<1> DEFINE s == [job[i] EXCEPT !.pc = "close", !.temp = @ \ job[i].defers]
<1>2. job \in [Round -> JobState] /\ job[i] \in JobState
  BY DEF IInv, TypeOK
<1>3. /\ s \in JobState
      /\ s.pc = "close"
      /\ s.wrote = job[i].wrote
      /\ s.temp = job[i].temp \ job[i].defers
      /\ s.defers = job[i].defers
  BY <1>2 DEF JobState
<1>4. job' = [job EXCEPT ![i] = s]
  BY <1>1
<1> HIDE DEF s
<1>5. OnlyRound(i) /\ job'[i] = s
  BY <1>1, <1>2, <1>3, <1>4 DEF OnlyRound, IInv, TypeOK
<1>6. Goroutine(i)
  BY DEF IInv
<1>7. EndIsTrue(i)' /\ Progress(i)'
  BY <1>1, <1>3, <1>5, <1>6 DEF Goroutine, EndIsTrue, Progress, Working, Whole
<1>8. TempFiles(i)'
  BY <1>1, <1>3, <1>5, <1>6 DEF Goroutine, TempFiles
<1> QED
  BY <1>1, <1>3, <1>5, <1>7, <1>8, JobStepInv DEF Goroutine, IInv, TypeOK

\* The Close that is deferred does not hide an error.
LEMMA ClosePipeInv ==
  ASSUME IInv, NEW i \in Round, ClosePipe(i)
  PROVE  IInv'
<1>1. /\ job[i].pc = "close"
      /\ Jump(i, "ended")
      /\ UNCHANGED <<kind, caller, reader, object>>
  BY DEF ClosePipe
<1>2. /\ job' \in [Round -> JobState]
      /\ \A j \in Round \ {i} : job'[j] = job[j]
      /\ job'[i].pc = "ended"
      /\ job'[i].wrote = job[i].wrote
      /\ job'[i].temp = job[i].temp
      /\ job'[i].defers = job[i].defers
  BY <1>1, Jumped DEF IInv
<1> DEFINE end == IF pipe[i].end = "none" THEN "eof" ELSE pipe[i].end
           p == [pipe[i] EXCEPT !.end = end]
<1>3. pipe \in [Round -> PipeState] /\ pipe[i] \in PipeState
  BY DEF IInv, TypeOK
<1>4. p \in PipeState /\ p.end = end
  BY <1>3 DEF PipeState
<1>5. pipe' = [pipe EXCEPT ![i] = p]
  BY DEF ClosePipe
<1> HIDE DEF p
<1>6. OnlyRound(i) /\ pipe'[i].end = end
  BY <1>2, <1>3, <1>4, <1>5 DEF OnlyRound
<1>7. Goroutine(i) /\ end \in {"eof", "error"}
  BY <1>3 DEF IInv, PipeState
<1>8. object[i] # Absent => end = "eof" /\ Whole(i)
  BY <1>7 DEF Goroutine, EndIsTrue
<1>9. EndIsTrue(i)'
  BY <1>1, <1>2, <1>6, <1>7, <1>8 DEF Goroutine, EndIsTrue, Whole
<1>10. Progress(i)' /\ TempFiles(i)'
  BY <1>1, <1>2, <1>6, <1>7 DEF Goroutine, Progress, TempFiles, Working
<1> QED
  BY <1>1, <1>2, <1>6, <1>9, <1>10, JobStepInv DEF Goroutine, IInv, TypeOK

LEMMA GoroutineStepInv ==
  ASSUME IInv, NEW i \in Round, JobStep(i) \/ EncodeFails(i)
  PROVE  IInv'
<1>1. CASE ReadFails(i) \/ WriteFails(i) \/ EncodeFails(i)
  BY <1>1, BreakInv DEF ReadFails, WriteFails, EncodeFails, Working
<1> QED
  BY <1>1, CreateTempInInv, ReadOriginalInv, ReadToEndInv, CreateTempOutInv,
     ConvertInv, WritePipeInv, RemoveTempInv, ClosePipeInv
  DEF JobStep

-----------------------------------------------------------------------------
(* Steps of the task *)

\* The task goes on in the same round, and leaves the goroutines alone.
LEMMA CallerStepInv ==
  ASSUME IInv, NEW c \in CallerState,
         caller' = c,
         c.round = caller.round,
         c.pc \notin {"get", "start"} \/ caller.pc = "get",
         reader' \in ReaderState, reader'.at = reader.at,
         UNCHANGED <<kind, pipe, job, object>>,
         RoundsBefore', Replied', Uploading'
  PROVE  IInv'
<1>1. TypeOK'
  BY DEF IInv, TypeOK
<1>2. ToCome'
  BY DEF IInv, ToCome, Fresh
<1>3. ASSUME NEW i \in Round PROVE Goroutine(i)'
  BY DEF IInv, Goroutine, EndIsTrue, Progress, TempFiles, Whole
<1> QED
  BY <1>1, <1>2, <1>3 DEF IInv

LEMMA GetFileInv ==
  ASSUME IInv, GetFile
  PROVE  IInv'
<1>1. caller \in CallerState /\ reader \in ReaderState /\ caller.pc = "get"
  BY DEF IInv, TypeOK, GetFile
<1>2. caller.reply = "none"
  BY <1>1 DEF IInv, Replied
<1>3. /\ caller' \in CallerState
      /\ caller'.round = caller.round
      /\ \/ caller'.pc = "start" /\ caller'.reply = "none"
         \/ caller'.pc = "done" /\ caller'.reply = "error"
  BY <1>1, <1>2 DEF GetFile, CallerState
<1>4. reader' \in ReaderState /\ reader'.at = reader.at
  BY <1>1 DEF GetFile, ReaderState
<1>5. UNCHANGED <<kind, pipe, job, object>>
  BY DEF GetFile
<1>6. RoundsBefore' /\ Replied' /\ Uploading'
  BY <1>2, <1>3, <1>5 DEF IInv, RoundsBefore, Replied, Uploading, Whole, Rounds
<1> QED
  BY <1>1, <1>3, <1>4, <1>5, <1>6, CallerStepInv

\* The upload ends, well or not, or the task does.
LEMMA EndUploadInv ==
  ASSUME IInv, PutFails \/ SaveFails \/ CloseOriginal
  PROVE  IInv'
<1>1. /\ caller \in CallerState
      /\ reader \in ReaderState
      /\ UNCHANGED <<kind, pipe, job, object>>
  BY DEF IInv, TypeOK, PutFails, SaveFails, CloseOriginal
<1>2. CASE PutFails \/ SaveFails
  <2>1. /\ caller' \in CallerState
        /\ caller'.round = caller.round
        /\ caller'.pc = "close"
        /\ caller'.reply = "error"
        /\ UNCHANGED reader
    BY <1>1, <1>2 DEF PutFails, SaveFails, CallerState
  <2>2. RoundsBefore' /\ Replied' /\ Uploading'
    BY <1>1, <2>1 DEF IInv, RoundsBefore, Replied, Uploading, Whole, Rounds
  <2> QED
    BY <1>1, <2>1, <2>2, CallerStepInv
<1>3. CASE CloseOriginal
  <2>1. /\ caller.pc = "close_reader"
        /\ caller' \in CallerState
        /\ caller'.round = caller.round
        /\ caller'.pc = "done"
        /\ caller'.reply = IF caller.reply = "none" THEN "ok" ELSE caller.reply
    BY <1>1, <1>3 DEF CloseOriginal, CallerState
  <2>2. reader' \in ReaderState /\ reader'.at = reader.at
    BY <1>1, <1>3, Zenon DEF CloseOriginal, ReaderState
  <2>3. RoundsBefore' /\ Replied' /\ Uploading'
    BY <1>1, <2>1 DEF IInv, RoundsBefore, Replied, Uploading, Whole, Rounds, CallerState
  <2> QED
    BY <1>1, <2>1, <2>2, <2>3, CallerStepInv
<1> QED
  BY <1>2, <1>3

\* The reader is rewound when nobody reads it.
LEMMA StartRoundInv ==
  ASSUME IInv, StartRound
  PROVE  IInv'
<1>1. /\ caller \in CallerState
      /\ reader \in ReaderState
      /\ caller.pc = "start"
      /\ UNCHANGED <<kind, pipe, object>>
  BY DEF IInv, TypeOK, StartRound
<1>2. CASE UNCHANGED <<reader, job>>
  <2>1. /\ caller' \in CallerState
        /\ caller'.round = caller.round
        /\ caller'.pc = "close_reader"
        /\ caller'.reply = "error"
    <3>1. CASE caller' = [caller EXCEPT !.pc = "close_reader", !.reply = "error"]
      BY <1>1, <3>1 DEF CallerState
    <3>2. CASE job' = [job EXCEPT ![caller.round].pc =
                         IF kind = "pdf" THEN "temp_in" ELSE "read"]
      <4>1. /\ caller.round \in Round
            /\ job[caller.round].pc = "none"
            /\ job \in [Round -> JobState]
        BY <1>1 DEF IInv, ToCome, Fresh, TypeOK, CallerState
      <4>2. job'[caller.round].pc \in {"temp_in", "read"}
        BY <3>2, <4>1 DEF JobState
      <4> QED
        BY <1>2, <4>1, <4>2
    <3> QED
      BY <3>1, <3>2 DEF StartRound
  <2>2. RoundsBefore' /\ Replied' /\ Uploading'
    BY <1>1, <1>2, <2>1
    DEF IInv, RoundsBefore, Replied, Uploading, Whole, Rounds
  <2> QED
    BY <1>1, <1>2, <2>1, <2>2, CallerStepInv
<1>3. CASE ~UNCHANGED <<reader, job>>
  <2> PICK i \in Round : i = caller.round
    BY <1>1 DEF CallerState
  <2> DEFINE pc == IF kind = "pdf" THEN "temp_in" ELSE "read"
  <2>1. /\ caller' = [caller EXCEPT !.pc = "put", !.got = 0]
        /\ reader' = [reader EXCEPT !.at = 0]
        /\ Jump(i, pc)
    BY <1>3 DEF StartRound, Jump
  <2>2. Fresh(i)
    BY <1>1 DEF IInv, ToCome
  <2>3. /\ job' \in [Round -> JobState]
        /\ \A j \in Round \ {i} : job'[j] = job[j]
        /\ job'[i].pc = pc
        /\ job'[i].wrote = 0
        /\ job'[i].temp = {}
        /\ job'[i].defers = {}
    BY <2>1, <2>2, Jumped DEF IInv, Working, Fresh
  <2>4. /\ caller' \in CallerState
        /\ caller'.pc = "put"
        /\ caller'.round = i
        /\ caller'.got = 0
        /\ caller'.reply = caller.reply
    <3>1. 0 \in 0..Chunks
      BY RoundFacts
    <3> QED
      BY <1>1, <2>1, <3>1 DEF CallerState
  <2>5. reader' \in ReaderState /\ reader'.at = 0
    BY <1>1, <2>1, RoundFacts DEF ReaderState
  <2>6. TypeOK'
    BY <1>1, <2>3, <2>4, <2>5 DEF IInv, TypeOK
  <2>7. ToCome'
    BY <1>1, <2>2, <2>3, <2>4, RoundFacts DEF IInv, ToCome, Fresh
  <2>8. RoundsBefore' /\ Replied' /\ Uploading'
    BY <1>1, <2>2, <2>3, <2>4
    DEF IInv, RoundsBefore, Replied, Uploading, Whole, Rounds, Fresh
  <2>9. Goroutine(i)'
    <3>1. EndIsTrue(i)'
      BY <1>1, <2>2, <2>3, Absence DEF EndIsTrue, Fresh
    <3>2. Progress(i)'
      BY <1>1, <2>3, <2>5 DEF Progress
    <3>3. TempFiles(i)'
      BY <1>1, <2>3 DEF TempFiles
    <3> QED
      BY <3>1, <3>2, <3>3 DEF Goroutine
  <2>10. ASSUME NEW j \in Round, j # i PROVE Goroutine(j)'
    <3>1. job'[j] = job[j] /\ Goroutine(j)
      BY <2>3, <2>10 DEF IInv
    <3>2. job[j].pc \in {"none", "ended"}
      BY <2>10, ActiveRound
    <3> QED
      BY <1>1, <3>1, <3>2
      DEF Goroutine, EndIsTrue, Progress, TempFiles, Working, Whole
  <2> QED
    BY <2>6, <2>7, <2>8, <2>9, <2>10 DEF IInv
<1> QED
  BY <1>2, <1>3

\* What has been read up to the end of the file is the whole file.
LEMMA PutIsWhole ==
  ASSUME IInv, PutObject
  PROVE  /\ caller.round \in Round
         /\ caller.got = Chunks
         /\ object[caller.round] = Absent
         /\ object' = [object EXCEPT ![caller.round] = Chunks]
<1>1. caller.round \in Round
  BY DEF IInv, TypeOK, CallerState
<1>2. caller.got = Chunks /\ object[caller.round] = Absent
  BY <1>1 DEF IInv, Uploading, Goroutine, EndIsTrue, PutObject
<1> QED
  BY <1>1, <1>2 DEF PutObject

LEMMA PutObjectInv ==
  ASSUME IInv, PutObject
  PROVE  IInv'
<1> DEFINE i == caller.round
<1>1. /\ caller \in CallerState
      /\ i \in Round
      /\ caller.pc = "put"
      /\ pipe[i].end = "eof"
      /\ caller.reply = "none"
      /\ UNCHANGED <<kind, reader, pipe, job>>
  BY DEF IInv, TypeOK, CallerState, Replied, PutObject
<1>2. /\ caller' \in CallerState
      /\ caller'.round = i
      /\ caller'.pc = "close"
      /\ caller'.reply = "none"
  BY <1>1 DEF PutObject, CallerState
<1>3. /\ object' \in [Round -> 0..Absent]
      /\ object'[i] = Chunks
      /\ \A j \in Round \ {i} : object'[j] = object[j]
  BY <1>1, PutIsWhole, Absence DEF IInv, TypeOK
<1>4. TypeOK'
  BY <1>1, <1>2, <1>3 DEF IInv, TypeOK
<1>5. ToCome'
  BY <1>1, <1>2, <1>3, RoundFacts DEF IInv, ToCome, Fresh
<1>6. RoundsBefore' /\ Replied' /\ Uploading'
  BY <1>1, <1>2, <1>3, RoundFacts
  DEF IInv, RoundsBefore, Replied, Uploading, Whole, Rounds
<1>7. ASSUME NEW j \in Round PROVE Goroutine(j)'
  BY <1>1, <1>3, <1>7
  DEF IInv, Goroutine, EndIsTrue, Progress, TempFiles, Whole
<1> QED
  BY <1>4, <1>5, <1>6, <1>7 DEF IInv

LEMMA CloseCompressedInv ==
  ASSUME IInv, CloseCompressed
  PROVE  IInv'
<1> DEFINE i == caller.round
           p == [pipe[i] EXCEPT !.closed = TRUE]
<1>1. /\ caller \in CallerState
      /\ i \in Round /\ i \in Nat
      /\ caller.pc = "close"
      /\ pipe \in [Round -> PipeState]
      /\ UNCHANGED <<kind, reader, job, object>>
  BY RoundFacts DEF IInv, TypeOK, CallerState, CloseCompressed
<1>2. p \in PipeState /\ p.end = pipe[i].end
  BY <1>1, Zenon DEF PipeState
<1>3. pipe' = [pipe EXCEPT ![i] = p]
  BY DEF CloseCompressed
<1> HIDE DEF p
<1>4. /\ pipe' \in [Round -> PipeState]
      /\ \A j \in Round : pipe'[j].end = pipe[j].end
      /\ \A j \in Round \ {i} : pipe'[j] = pipe[j]
  BY <1>1, <1>2, <1>3
<1>5. /\ caller.reply \in {"none", "error"}
      /\ \/ /\ AfterRound = "start"
            /\ caller.reply = "none"
            /\ i + 1 <= Rounds
         \/ /\ AfterRound = "close_reader"
            /\ caller.reply = "none" => i = Rounds
  BY <1>1, RoundFacts DEF AfterRound, CallerState, IInv, Replied, RoundsBefore
<1>6. /\ caller' \in CallerState
      /\ caller'.pc = AfterRound
      /\ caller'.round = IF AfterRound = "start" THEN i + 1 ELSE i
      /\ caller'.reply = caller.reply
  <2>1. AfterRound = "start" => i + 1 \in Round
    BY <1>1, <1>5, RoundFacts DEF Round
  <2> QED
    BY <1>1, <1>5, <2>1 DEF CloseCompressed, CallerState
<1>7. caller.reply = "none" => Whole(i)
  BY <1>1 DEF IInv, RoundsBefore
<1>8. TypeOK'
  BY <1>1, <1>4, <1>6 DEF IInv, TypeOK
<1>9. ToCome'
  <2> SUFFICES ASSUME NEW j \in Round,
                      \/ j > caller'.round
                      \/ j = caller'.round /\ caller'.pc \in {"get", "start"}
               PROVE  Fresh(j)'
    BY DEF ToCome
  <2>1. j > i
    BY <1>1, <1>5, <1>6, RoundFacts
  <2> QED
    BY <1>1, <1>4, <2>1, RoundFacts DEF IInv, ToCome, Fresh
<1>10. RoundsBefore'
  <2>1. ASSUME NEW j \in Round, j < caller'.round PROVE Whole(j)'
    <3>1. j < i \/ (j = i /\ caller.reply = "none")
      BY <1>1, <1>5, <1>6, <2>1, RoundFacts
    <3> QED
      BY <1>1, <1>7, <3>1 DEF IInv, RoundsBefore, Whole
  <2> QED
    BY <1>1, <1>5, <1>6, <1>7, <2>1, RoundFacts
    DEF IInv, RoundsBefore, Whole, Rounds
<1>11. Replied' /\ Uploading'
  BY <1>1, <1>5, <1>6 DEF IInv, Replied, Uploading
<1>12. ASSUME NEW j \in Round PROVE Goroutine(j)'
  BY <1>1, <1>4, <1>12
  DEF IInv, Goroutine, EndIsTrue, Progress, TempFiles, Whole
<1> QED
  BY <1>8, <1>9, <1>10, <1>11, <1>12 DEF IInv

-----------------------------------------------------------------------------
(* The invariant *)

LEMMA IInvInit == Init => IInv
<1> SUFFICES ASSUME Init PROVE IInv
  OBVIOUS
<1> USE DEF Init
<1>1. TypeOK
  <2>1. caller \in CallerState
    BY RoundFacts DEF CallerState, Round
  <2>2. reader \in ReaderState
    <3>1. FALSE \in BOOLEAN
      OBVIOUS
    <3>2. 0 \in 0..Chunks
      BY RoundFacts
    <3> QED
      BY <3>1, <3>2, Zenon DEF ReaderState
  <2>3. [closed |-> FALSE, end |-> "none"] \in PipeState
    BY DEF PipeState
  <2>4. [pc |-> "none", wrote |-> 0, temp |-> {}, defers |-> {}] \in JobState
    BY RoundFacts DEF JobState
  <2>5. Absent \in 0..Absent
    BY RoundFacts DEF Absent
  <2> QED
    BY <2>1, <2>2, <2>3, <2>4, <2>5 DEF TypeOK
<1>2. ToCome /\ Replied /\ Uploading
  BY DEF ToCome, Fresh, Replied, Uploading
<1>3. RoundsBefore
  BY RoundFacts DEF RoundsBefore
<1>4. ASSUME NEW i \in Round PROVE Goroutine(i)
  BY DEF Goroutine, EndIsTrue, Progress, TempFiles, Working
<1> QED
  BY <1>1, <1>2, <1>3, <1>4 DEF IInv

LEMMA IInvNext == IInv /\ [Next]_vars => IInv'
<1> SUFFICES ASSUME IInv, [Next]_vars PROVE IInv'
  OBVIOUS
<1>1. CASE CallerStep \/ SaveFails
  BY <1>1, GetFileInv, StartRoundInv, PutObjectInv, EndUploadInv, CloseCompressedInv
  DEF CallerStep
<1>2. ASSUME NEW i \in Round, JobStep(i) \/ EncodeFails(i) PROVE IInv'
  BY <1>2, GoroutineStepInv
<1>3. CASE UNCHANGED vars
  BY <1>3 DEF vars, IInv, TypeOK, ToCome, Fresh, RoundsBefore, Rounds, Whole, Replied,
              Uploading, Goroutine, EndIsTrue, Progress, TempFiles
<1> QED
  BY <1>1, <1>2, <1>3 DEF Next

\* What the task, the goroutines and the pipes know of each other holds in every
\* reachable state.
THEOREM StreamInvariant == Spec => []IInv
  BY IInvInit, IInvNext, PTL DEF Spec

-----------------------------------------------------------------------------
(* The theorems *)

\* The positions, the chunks counted and the ends of the pipes stay in range.
THEOREM StreamTypeCorrect == Spec => []TypeOK
<1>1. IInv => TypeOK
  BY DEF IInv
<1> QED
  BY <1>1, StreamInvariant, PTL

\* No two goroutines read the original at once, and it is rewound for the next
\* width only when the one before is done with it.
THEOREM ReaderIsNotShared == Spec => []OneReader
<1>1. IInv => OneReader
  <2> SUFFICES ASSUME IInv PROVE OneReader
    OBVIOUS
  <2>1. ASSUME NEW i \in Round, job[i].pc \in {"temp_in", "read"}
        PROVE  i = caller.round /\ caller.pc # "start"
    BY <2>1, ActiveRound
  <2> QED
    BY <2>1 DEF OneReader
<1> QED
  BY <1>1, StreamInvariant, PTL

\* The goroutine of a file that was stored has removed its temporary files; only
\* the input file of a PDF that could not be filled is ever left behind.
THEOREM TempFilesAreRemoved == Spec => []TempFilesGone
<1>1. IInv => TempFilesGone
  <2> SUFFICES ASSUME IInv, NEW i \in Round
               PROVE  /\ object[i] # Absent => job[i].temp = {}
                      /\ job[i].pc = "ended" /\ job[i].temp # {} =>
                           /\ job[i].temp = {"in"}
                           /\ job[i].defers = {}
                           /\ pipe[i].end = "error"
    BY DEF TempFilesGone
  <2>1. EndIsTrue(i) /\ TempFiles(i)
    BY DEF IInv, Goroutine
  <2> QED
    BY <2>1 DEF EndIsTrue, TempFiles
<1> QED
  BY <1>1, StreamInvariant, PTL

-----------------------------------------------------------------------------
(* Stream implements AtomicSaves *)

SavedObjects == [i \in 1..Rounds |-> Stored(i)]

LEMMA SavedStays ==
  ASSUME UNCHANGED <<kind, object>>
  PROVE  SavedObjects' = SavedObjects
  BY DEF SavedObjects, Stored, Rounds

LEMMA SavesAtomicallyInit ==
  ASSUME Init
  PROVE  A!Init
<1>1. SavedObjects = [i \in 1..Rounds |-> "none"]
  <2>1. ASSUME NEW i \in 1..Rounds PROVE Stored(i) = "none"
    <3>1. i \in Round
      BY RoundFacts DEF Round
    <3> QED
      BY <3>1, Absence DEF Init, Stored
  <2> QED
    BY <2>1 DEF SavedObjects
<1>2. Rounds \in 1..Widths
  BY RoundFacts DEF Round
<1>3. caller.reply = "none"
  BY DEF Init
<1> QED
  BY <1>1, <1>2, <1>3 DEF A!Init, SavedObjects

LEMMA PutSaves ==
  ASSUME IInv, PutObject
  PROVE  A!Next
<1> DEFINE i == caller.round
<1>1. /\ i \in Round
      /\ object[i] = Absent
      /\ object' = [object EXCEPT ![i] = Chunks]
  BY PutIsWhole
<1>2. i \in 1..Rounds
  BY <1>1, RoundFacts DEF IInv, RoundsBefore, Round
<1>3. caller.reply = "none" /\ caller'.reply = "none" /\ kind' = kind
  BY DEF PutObject, IInv, TypeOK, CallerState, Replied
<1>4. \A j \in 1..(i - 1) : SavedObjects[j] = "whole"
  <2> SUFFICES ASSUME NEW j \in 1..(i - 1) PROVE SavedObjects[j] = "whole"
    OBVIOUS
  <2>1. j \in Round /\ j < i /\ j \in 1..Rounds
    BY <1>1, <1>2, RoundFacts DEF Round
  <2>2. object[j] = Chunks
    BY <2>1 DEF IInv, RoundsBefore, Whole
  <2> QED
    BY <2>1, <2>2, Absence DEF SavedObjects, Stored
<1>5. SavedObjects[i] = "none"
  BY <1>1, <1>2, Absence DEF SavedObjects, Stored
<1>6. SavedObjects' = [SavedObjects EXCEPT ![i] = "whole"]
  <2>1. 1..Rounds \subseteq Round
    BY RoundFacts DEF Round
  <2>2. \A j \in Round : object'[j] = IF j = i THEN Chunks ELSE object[j]
    BY <1>1 DEF IInv, TypeOK
  <2>3. \A j \in 1..Rounds : Stored(j)' = IF j = i THEN "whole" ELSE Stored(j)
    BY <2>1, <2>2, Absence DEF Stored
  <2>4. Rounds' = Rounds
    BY <1>3 DEF Rounds
  <2> QED
    BY <1>2, <2>3, <2>4 DEF SavedObjects
<1>7. A!Save(i)
  BY <1>3, <1>4, <1>5, <1>6 DEF A!Save, SavedObjects
<1>8. i \in DOMAIN SavedObjects
  BY <1>2 DEF SavedObjects
<1> QED
  BY <1>7, <1>8 DEF A!Next, SavedObjects

LEMMA CloseSucceeds ==
  ASSUME IInv, CloseOriginal, caller.reply = "none"
  PROVE  A!Next
<1>1. caller.pc = "close_reader" /\ caller'.reply = "ok" /\ UNCHANGED <<kind, object>>
  BY DEF CloseOriginal, IInv, TypeOK, CallerState
<1>2. caller.round = Rounds /\ Whole(Rounds)
  BY <1>1 DEF IInv, RoundsBefore
<1>3. \A i \in 1..Rounds : SavedObjects[i] = "whole"
  <2> SUFFICES ASSUME NEW i \in 1..Rounds PROVE SavedObjects[i] = "whole"
    OBVIOUS
  <2>1. i \in Round /\ (i < Rounds \/ i = Rounds)
    BY RoundFacts DEF Round
  <2>2. object[i] = Chunks
    BY <1>2, <2>1 DEF IInv, RoundsBefore, Whole
  <2> QED
    BY <2>2, Absence DEF SavedObjects, Stored
<1>4. DOMAIN SavedObjects = 1..Rounds
  BY DEF SavedObjects
<1>5. SavedObjects' = SavedObjects
  BY <1>1, SavedStays
<1>6. A!Succeed
  BY <1>1, <1>3, <1>4, <1>5 DEF A!Succeed, SavedObjects
<1> QED
  BY <1>6 DEF A!Next

\* Every other step of the task and of its goroutines leaves the objects alone,
\* and it may fail.
LEMMA OtherSteps ==
  ASSUME IInv, UNCHANGED <<kind, object>>,
         \/ caller'.reply = caller.reply
         \/ caller.reply = "none" /\ caller'.reply = "error"
  PROVE  [A!Next]_(A!vars)
<1>1. SavedObjects' = SavedObjects
  BY SavedStays
<1>2. CASE caller'.reply = caller.reply
  BY <1>1, <1>2 DEF A!vars, SavedObjects
<1>3. CASE caller.reply = "none" /\ caller'.reply = "error"
  <2>1. A!Fail
    BY <1>1, <1>3 DEF A!Fail, SavedObjects
  <2> QED
    BY <2>1 DEF A!Next
<1> QED
  BY <1>2, <1>3

LEMMA SavesAtomicallyNext ==
  ASSUME IInv, [Next]_vars
  PROVE  [A!Next]_(A!vars)
<1>1. caller \in CallerState
  BY DEF IInv, TypeOK
<1>2. CASE PutObject
  BY <1>2, PutSaves
<1>3. CASE CloseOriginal
  <2>1. CASE caller.reply = "none"
    BY <1>3, <2>1, CloseSucceeds
  <2>2. CASE caller.reply # "none"
    <3>1. caller'.reply = caller.reply /\ UNCHANGED <<kind, object>>
      BY <1>1, <1>3, <2>2 DEF CloseOriginal, CallerState
    <3> QED
      BY <3>1, OtherSteps
  <2> QED
    BY <2>1, <2>2
<1>4. CASE GetFile \/ StartRound \/ PutFails \/ SaveFails
  <2>1. caller.reply = "none"
    BY <1>4 DEF IInv, Replied, GetFile, StartRound, PutFails, SaveFails
  <2>2. /\ caller'.reply \in {"none", "error"}
        /\ UNCHANGED <<kind, object>>
    BY <1>1, <1>4, <2>1
    DEF GetFile, StartRound, PutFails, SaveFails, CallerState
  <2> QED
    BY <2>1, <2>2, OtherSteps
<1>5. CASE CloseCompressed
  <2>1. caller'.reply = caller.reply /\ UNCHANGED <<kind, object>>
    BY <1>1, <1>5 DEF CloseCompressed, CallerState
  <2> QED
    BY <2>1, OtherSteps
<1>6. ASSUME NEW i \in Round, JobStep(i) \/ EncodeFails(i)
      PROVE  [A!Next]_(A!vars)
  <2>1. caller'.reply = caller.reply /\ UNCHANGED <<kind, object>>
    BY <1>1, <1>6
    DEF JobStep, CreateTempIn, ReadOriginal, ReadToEnd, ReadFails, CreateTempOut,
        Convert, WritePipe, WriteFails, RemoveTemp, ClosePipe, EncodeFails,
        CallerState
  <2> QED
    BY <2>1, OtherSteps
<1>7. CASE UNCHANGED vars
  BY <1>7, OtherSteps DEF vars
<1> QED
  BY <1>2, <1>3, <1>4, <1>5, <1>6, <1>7 DEF Next, CallerStep

\* Compress and Resize store whole objects in order or none, and a task that
\* succeeds has stored them all, as the tasks that call them rely on.
THEOREM StreamsAreAtomic == Spec => SavesAtomically
<1>1. Init => A!Init
  BY SavesAtomicallyInit
<1>2. IInv /\ [Next]_vars => [A!Next]_(A!vars)
  BY SavesAtomicallyNext
<1>3. Spec => A!Spec
  BY <1>1, <1>2, StreamInvariant, PTL DEF Spec, A!Spec
<1> QED
  BY <1>3 DEF SavesAtomically
=============================================================================
