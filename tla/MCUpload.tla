------------------------------ MODULE MCUpload ------------------------------
(***************************************************************************)
(* Constants for checking Upload with TLC.                                 *)
(***************************************************************************)
EXTENDS Upload, TLC

CONSTANTS m1, f1, f2

\* Sizes in KB; "tiny" and "huge" miss the limits 1 and 3 by one.
MCBlobs == {"photo", "drawing", "tiny", "huge"}
MCSize == [b \in MCBlobs |->
             CASE b = "photo" -> 2 [] b = "drawing" -> 3
               [] b = "tiny" -> 0 [] b = "huge" -> 4]
MCOrigin == [b \in MCBlobs |-> b]
MCImages == {"photo", "huge"}

\* A good image, an image announced as another type, a text, a text that claims
\* to be an image, both sizes out of bounds and a type that is not accepted.
MCUploads ==
  {[type |-> "image/png", blob |-> "photo"],
   [type |-> "image/jpeg", blob |-> "photo"],
   [type |-> "text/markdown", blob |-> "drawing"],
   [type |-> "image/png", blob |-> "drawing"],
   [type |-> "text/markdown", blob |-> "tiny"],
   [type |-> "image/png", blob |-> "huge"],
   [type |-> "application/zip", blob |-> "photo"]}

\* Fewer uploads where finalises overlap: two images of different content and
\* size, under two types.
MCFewUploads ==
  {[type |-> "image/png", blob |-> "photo"],
   [type |-> "text/markdown", blob |-> "drawing"],
   [type |-> "image/png", blob |-> "drawing"]}

Symmetry == Permutations({f1, f2})
=============================================================================
