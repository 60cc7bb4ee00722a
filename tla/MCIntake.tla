------------------------------- MODULE MCIntake -------------------------------
(***************************************************************************)
(* Constants for checking Intake with TLC.                                 *)
(***************************************************************************)
EXTENDS Intake, TLC

CONSTANTS m1, f1, d1, d2

\* Sizes in KB; "tiny" misses the least size by one.
MCBlobs == {"photo", "drawing", "tiny"}
MCSize == [b \in MCBlobs |->
             CASE b = "photo" -> 2 [] b = "drawing" -> 3 [] b = "tiny" -> 0]
MCOrigin == [b \in MCBlobs |-> b]
MCImages == {"photo"}

\* Two good files of different types, a text that claims to be an image, a file
\* that is too small.
MCUploads ==
  {[type |-> "image/png", blob |-> "photo"],
   [type |-> "text/markdown", blob |-> "drawing"],
   [type |-> "image/png", blob |-> "drawing"],
   [type |-> "text/markdown", blob |-> "tiny"]}

Symmetry == Permutations({d1, d2})
=============================================================================
