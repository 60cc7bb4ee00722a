-------------------------------- MODULE Stream -------------------------------
(***************************************************************************)
(* How the output of Compress and Resize reaches the storage.  Each call   *)
(* starts a goroutine that reads the original, converts it and writes the  *)
(* result to a pipe; the task that made the call uploads what it reads     *)
(* from the pipe, then closes it.  OptimiseMedia makes one such round,     *)
(* ResizeImage one for each width below the image's, every one reading the *)
(* original through the same reader, rewound in between.                   *)
(*                                                                         *)
(* A file is a number of chunks: Read and Write move one at a time.  A     *)
(* Write waits until the other end of the pipe has read it or is closed.   *)
(* Of the first error of a goroutine the pipe keeps the memory: the Close  *)
(* that is deferred does not make it an end of file.                       *)
(*                                                                         *)
(* Operators named X_Y are faulty versions of X, one plausible slip each.  *)
(***************************************************************************)
EXTENDS Naturals

CONSTANTS
  Kinds,    \* the tasks considered, of AllKinds
  Widths,   \* how many widths a resize task shrinks the image to
  Chunks,   \* the length of a file, read and written
  Faults    \* the faults that may happen, of AllFaults

\* Compress of an image, of a PDF, of another file; Resize of an image.
AllKinds == {"image", "pdf", "raw", "resize"}

AllFaults == {"get", "seek", "read", "convert", "temp", "put"}

ASSUME StreamAssumption ==
  /\ Kinds \subseteq AllKinds
  /\ Widths \in Nat \ {0}
  /\ Chunks \in Nat \ {0}
  /\ Faults \subseteq AllFaults

VARIABLES
  kind,     \* the kind of the task
  caller,   \* the task: its pc, its round, the chunks it has read, its reply
  reader,   \* the reader of the original: whether it is open, and where it is
  pipe,     \* pipe[i]: the two ends of the pipe of round i
  job,      \* job[i]: the goroutine of round i
  object    \* object[i]: the chunks of what round i stored, or Absent

vars == <<kind, caller, reader, pipe, job, object>>

Round == 1..Widths

Rounds == IF kind = "resize" THEN Widths ELSE 1

Absent == Chunks + 1

CallerState ==
  [pc    : {"get", "start", "put", "close", "close_reader", "done"},
   round : Round,
   got   : 0..Chunks,
   reply : {"none", "ok", "error"}]

ReaderState == [open : BOOLEAN, at : 0..Chunks]

\* What the next Read of an empty pipe returns once its writer has closed it.
PipeState == [closed : BOOLEAN, end : {"none", "eof", "error"}]

TempFile == {"in", "out"}

Working == {"temp_in", "read", "temp_out", "convert", "write"}

JobState ==
  [pc     : Working \cup {"none", "return", "close", "ended"},
   wrote  : 0..Chunks,
   temp   : SUBSET TempFile,    \* the temporary files there are
   defers : SUBSET TempFile]    \* those whose removal is deferred

TypeOK ==
  /\ kind \in Kinds
  /\ caller \in CallerState
  /\ reader \in ReaderState
  /\ pipe \in [Round -> PipeState]
  /\ job \in [Round -> JobState]
  /\ object \in [Round -> 0..Absent]

Init ==
  /\ kind \in Kinds
  /\ caller = [pc |-> "get", round |-> 1, got |-> 0, reply |-> "none"]
  /\ reader = [open |-> FALSE, at |-> 0]
  /\ pipe = [i \in Round |-> [closed |-> FALSE, end |-> "none"]]
  /\ job = [i \in Round |->
             [pc |-> "none", wrote |-> 0, temp |-> {}, defers |-> {}]]
  /\ object = [i \in Round |-> Absent]

-----------------------------------------------------------------------------
(* The task *)

GetFile ==
  /\ caller.pc = "get"
  /\ \/ /\ caller' = [caller EXCEPT !.pc = "start"]
        /\ reader' = [reader EXCEPT !.open = TRUE]
     \/ /\ "get" \in Faults
        /\ caller' = [caller EXCEPT !.pc = "done", !.reply = "error"]
        /\ UNCHANGED reader
  /\ UNCHANGED <<kind, pipe, job, object>>

\* Seek rewinds the reader (Compress finds it there), then Compress or Resize
\* starts the goroutine and returns.
StartRound ==
  /\ caller.pc = "start"
  /\ \/ /\ caller' = [caller EXCEPT !.pc = "put", !.got = 0]
        /\ reader' = [reader EXCEPT !.at = 0]
        /\ job' = [job EXCEPT ![caller.round].pc =
                     IF kind = "pdf" THEN "temp_in" ELSE "read"]
     \/ /\ kind = "resize" /\ "seek" \in Faults
        /\ caller' = [caller EXCEPT !.pc = "close_reader", !.reply = "error"]
        /\ UNCHANGED <<reader, job>>
  /\ UNCHANGED <<kind, pipe, object>>

\* SaveFile has read the pipe to its end: the object is stored.
PutObject ==
  /\ caller.pc = "put"
  /\ pipe[caller.round].end = "eof"
  /\ object' = [object EXCEPT ![caller.round] = caller.got]
  /\ caller' = [caller EXCEPT !.pc = "close"]
  /\ UNCHANGED <<kind, reader, pipe, job>>

\* SaveFile passes the error of the goroutine on.
PutFails ==
  /\ caller.pc = "put"
  /\ pipe[caller.round].end = "error"
  /\ caller' = [caller EXCEPT !.pc = "close", !.reply = "error"]
  /\ UNCHANGED <<kind, reader, pipe, job, object>>

\* SaveFile fails by itself, at any point.
SaveFails_NextWidth ==
  /\ caller.pc = "put"
  /\ "put" \in Faults
  /\ caller' = [caller EXCEPT !.pc = "close"]
  /\ UNCHANGED <<kind, reader, pipe, job, object>>
SaveFails ==
  /\ caller.pc = "put"
  /\ "put" \in Faults
  /\ caller' = [caller EXCEPT !.pc = "close", !.reply = "error"]
  /\ UNCHANGED <<kind, reader, pipe, job, object>>

AfterRound_OneMore ==
  IF caller.reply = "error" \/ caller.round > Rounds THEN "close_reader"
  ELSE "start"
AfterRound ==
  IF caller.reply = "error" \/ caller.round = Rounds THEN "close_reader"
  ELSE "start"

\* The end of a round, failed or not, closes the reader of its pipe.
CloseCompressed_OnSuccess ==
  /\ caller.pc = "close"
  /\ pipe' = [pipe EXCEPT ![caller.round].closed = caller.reply # "error"]
  /\ caller' = [caller EXCEPT !.pc = AfterRound,
                  !.round = IF AfterRound = "start" THEN @ + 1 ELSE @]
  /\ UNCHANGED <<kind, reader, job, object>>
CloseCompressed ==
  /\ caller.pc = "close"
  /\ pipe' = [pipe EXCEPT ![caller.round].closed = TRUE]
  /\ caller' = [caller EXCEPT !.pc = AfterRound,
                  !.round = IF AfterRound = "start" THEN @ + 1 ELSE @]
  /\ UNCHANGED <<kind, reader, job, object>>

\* The deferred Close of the reader of the original.
CloseOriginal ==
  /\ caller.pc = "close_reader"
  /\ reader' = [reader EXCEPT !.open = FALSE]
  /\ caller' = [caller EXCEPT !.pc = "done",
                  !.reply = IF @ = "none" THEN "ok" ELSE @]
  /\ UNCHANGED <<kind, pipe, job, object>>

-----------------------------------------------------------------------------
(* The goroutine *)

Jump(i, pc) == job' = [job EXCEPT ![i].pc = pc]

\* CloseWithError, then return.
Break_Silently(i) == Jump(i, "return") /\ UNCHANGED pipe
Break(i) ==
  /\ Jump(i, "return")
  /\ pipe' = [pipe EXCEPT ![i].end = "error"]

CreateTempIn(i) ==
  /\ job[i].pc = "temp_in"
  /\ \/ /\ job' = [job EXCEPT ![i].pc = "read", ![i].temp = {"in"}]
        /\ UNCHANGED pipe
     \/ "temp" \in Faults /\ Break(i)
  /\ UNCHANGED <<kind, caller, reader, object>>

\* A file that is passed on as it is goes chunk by chunk; the others are read
\* to their end first.
ReadOriginal(i) ==
  /\ job[i].pc = "read"
  /\ reader.open
  /\ reader.at < Chunks
  /\ reader' = [reader EXCEPT !.at = @ + 1]
  /\ IF kind = "raw" THEN Jump(i, "write") ELSE UNCHANGED job
  /\ UNCHANGED <<kind, caller, pipe, object>>

\* The removal of the input file is deferred only once it is filled.
ReadToEnd(i) ==
  /\ job[i].pc = "read"
  /\ reader.open
  /\ reader.at = Chunks
  /\ CASE kind = "raw" -> Jump(i, "return")
       [] kind = "pdf" ->
            job' = [job EXCEPT ![i].pc = "temp_out", ![i].defers = {"in"}]
       [] OTHER -> Jump(i, "convert")
  /\ UNCHANGED <<kind, caller, reader, pipe, object>>

\* A read of a reader that was closed fails.
ReadFails(i) ==
  /\ job[i].pc = "read"
  /\ ~reader.open \/ "read" \in Faults
  /\ Break(i)
  /\ UNCHANGED <<kind, caller, reader, object>>

CreateTempOut_Kept(i) ==
  /\ job[i].pc = "temp_out"
  /\ job' = [job EXCEPT ![i].pc = "convert", ![i].temp = TempFile]
  /\ UNCHANGED <<kind, caller, reader, pipe, object>>
CreateTempOut(i) ==
  /\ job[i].pc = "temp_out"
  /\ \/ /\ job' = [job EXCEPT ![i].pc = "convert", ![i].temp = TempFile,
                              ![i].defers = TempFile]
        /\ UNCHANGED pipe
     \/ "temp" \in Faults /\ Break(i)
  /\ UNCHANGED <<kind, caller, reader, object>>

\* Decode and Scale, or OptimizeFile.
Convert(i) ==
  /\ job[i].pc = "convert"
  /\ \/ Jump(i, "write") /\ UNCHANGED pipe
     \/ "convert" \in Faults /\ Break(i)
  /\ UNCHANGED <<kind, caller, reader, object>>

AfterWrite(i) ==
  IF kind = "raw" THEN "read"
  ELSE IF job[i].wrote + 1 = Chunks THEN "return" ELSE "write"

\* The upload reads what the goroutine writes.
WritePipe(i) ==
  /\ job[i].pc = "write"
  /\ ~pipe[i].closed
  /\ caller.pc = "put" /\ caller.round = i
  /\ caller' = [caller EXCEPT !.got = @ + 1]
  /\ job' = [job EXCEPT ![i].pc = AfterWrite(i), ![i].wrote = @ + 1]
  /\ UNCHANGED <<kind, reader, pipe, object>>

\* Nobody will read it any more: Write fails.
WriteFails(i) ==
  /\ job[i].pc = "write"
  /\ pipe[i].closed
  /\ Break(i)
  /\ UNCHANGED <<kind, caller, reader, object>>

\* The encoder, or the read of the optimised PDF, fails half-way.
EncodeFails(i) ==
  /\ job[i].pc = "write"
  /\ kind # "raw"
  /\ "convert" \in Faults
  /\ Break(i)
  /\ UNCHANGED <<kind, caller, reader, object>>

\* The deferred functions, the last one first: the files, then the pipe.
RemoveTemp(i) ==
  /\ job[i].pc = "return"
  /\ job' = [job EXCEPT ![i].pc = "close", ![i].temp = @ \ job[i].defers]
  /\ UNCHANGED <<kind, caller, reader, pipe, object>>

ClosePipe(i) ==
  /\ job[i].pc = "close"
  /\ pipe' = [pipe EXCEPT ![i].end = IF @ = "none" THEN "eof" ELSE @]
  /\ Jump(i, "ended")
  /\ UNCHANGED <<kind, caller, reader, object>>

-----------------------------------------------------------------------------
CallerStep ==
  \/ GetFile \/ StartRound \/ PutObject \/ PutFails
  \/ CloseCompressed \/ CloseOriginal

JobStep(i) ==
  \/ CreateTempIn(i) \/ ReadOriginal(i) \/ ReadToEnd(i) \/ ReadFails(i)
  \/ CreateTempOut(i) \/ Convert(i) \/ WritePipe(i) \/ WriteFails(i)
  \/ RemoveTemp(i) \/ ClosePipe(i)

Next ==
  \/ CallerStep \/ SaveFails
  \/ \E i \in Round : JobStep(i) \/ EncodeFails(i)

Spec == Init /\ [][Next]_vars

\* Goroutines run; calls on the storage and the file system return.  Nothing has
\* to fail by itself: what waits for the other end of a pipe may wait for ever.
Fairness == WF_vars(CallerStep) /\ \A i \in Round : WF_vars(JobStep(i))

FairSpec == Spec /\ Fairness

-----------------------------------------------------------------------------
(* Properties *)

\* The object a round stores, as AtomicSaves sees it.
Stored(i) ==
  CASE object[i] = Absent -> "none" [] object[i] = Chunks -> "whole"
    [] OTHER -> "truncated"

A == INSTANCE AtomicSaves WITH MaxRounds <- Widths,
                               object    <- [i \in 1..Rounds |-> Stored(i)],
                               reply     <- caller.reply

\* Streaming through a goroutine is as good as one atomic save after the other:
\* no failure of the goroutine is ever mistaken for the end of the file, so no
\* truncated file is stored, and a failed round ends the task.
SavesAtomically == A!Spec

\* At most one goroutine reads the original, and the reader is rewound only when
\* none does: no goroutine of an earlier width takes what belongs to a later.
OneReader ==
  /\ \A i, j \in Round :
       job[i].pc \in {"temp_in", "read"} /\ job[j].pc \in {"temp_in", "read"}
         => i = j
  /\ caller.pc = "start" =>
       \A i \in Round : job[i].pc \notin {"temp_in", "read"}

\* Nothing is left of a file of the task when it was stored; when a goroutine has
\* ended, only the input file it could not fill.
TempFilesGone ==
  /\ \A i \in Round : object[i] # Absent => job[i].temp = {}
  /\ \A i \in Round : job[i].pc = "ended" /\ job[i].temp # {} =>
       job[i].temp = {"in"} /\ job[i].defers = {} /\ pipe[i].end = "error"

\* Every goroutine ends, whichever side fails first, and so does the task: none
\* is left waiting for the other end of its pipe.
EveryGoroutineEnds ==
  \A i \in Round : job[i].pc # "none" ~> job[i].pc = "ended"
=============================================================================
