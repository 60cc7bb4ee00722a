---------------------------- MODULE AtomicSaves ------------------------------
(***************************************************************************)
(* What a task relies on when it saves what Compress or Resize makes, one  *)
(* object after the other: an object is stored whole or not at all, none   *)
(* before the one that precedes it, and a task that goes on has stored     *)
(* every one.  OpenOriginal to SaveTemp, and MakeVariant to SaveVariant,   *)
(* of Pipeline take this for granted.                                      *)
(***************************************************************************)
EXTENDS Naturals

CONSTANT MaxRounds   \* how many objects a task saves at most

VARIABLES
  object,   \* object[i]: "none" or "whole", for each object of the task
  reply     \* how the task ended: "none" while it runs, "ok" or "error"

vars == <<object, reply>>

Init ==
  /\ \E n \in 1..MaxRounds : object = [i \in 1..n |-> "none"]
  /\ reply = "none"

Save(i) ==
  /\ reply = "none"
  /\ object[i] = "none"
  /\ \A j \in 1..(i - 1) : object[j] = "whole"
  /\ object' = [object EXCEPT ![i] = "whole"]
  /\ UNCHANGED reply

Succeed ==
  /\ reply = "none"
  /\ \A i \in DOMAIN object : object[i] = "whole"
  /\ reply' = "ok"
  /\ UNCHANGED object

Fail ==
  /\ reply = "none"
  /\ reply' = "error"
  /\ UNCHANGED object

Next == (\E i \in DOMAIN object : Save(i)) \/ Succeed \/ Fail

Spec == Init /\ [][Next]_vars
=============================================================================
