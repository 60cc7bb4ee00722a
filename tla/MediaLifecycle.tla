--------------------------- MODULE MediaLifecycle ----------------------------
(***************************************************************************)
(* What the service promises about a media, whatever requests, tasks and   *)
(* failures make of it: it is registered, then accepted with a content or  *)
(* refused, for good; an accepted media may be optimised, once for all,    *)
(* and keeps its content; whatever is deleted never comes back.            *)
(***************************************************************************)
CONSTANTS
  Medias,     \* media UUIDs
  Contents,   \* what clients upload
  None        \* "no content"

VARIABLES
  stage,    \* stage[m]: where media m is in its life
  content   \* content[m]: what it was accepted with, or None

vars == <<stage, content>>

Stage == {"none", "pending", "failed", "completed", "optimised", "gone"}

\* Medias that are not known yet, or that were accepted before.
Init ==
  /\ stage \in [Medias -> {"none", "completed"}]
  /\ content \in [Medias -> Contents \cup {None}]
  /\ \A m \in Medias : content[m] = None <=> stage[m] = "none"

Move(m, from, to) ==
  /\ stage[m] \in from
  /\ stage' = [stage EXCEPT ![m] = to]

Register(m) == Move(m, {"none"}, "pending") /\ UNCHANGED content

\* The registration fails, and its id is never heard of again.
Drop(m) == Move(m, {"none"}, "gone") /\ UNCHANGED content

Accept(m) ==
  /\ Move(m, {"pending"}, "completed")
  /\ \E c \in Contents : content' = [content EXCEPT ![m] = c]

Refuse(m) == Move(m, {"pending"}, "failed") /\ UNCHANGED content

Optimise(m) == Move(m, {"completed"}, "optimised") /\ UNCHANGED content

Delete(m) ==
  /\ Move(m, Stage \ {"none", "gone"}, "gone")
  /\ content' = [content EXCEPT ![m] = None]

Next ==
  \E m \in Medias :
    \/ Register(m) \/ Drop(m) \/ Accept(m) \/ Refuse(m)
    \/ Optimise(m) \/ Delete(m)

Spec == Init /\ [][Next]_vars
=============================================================================
