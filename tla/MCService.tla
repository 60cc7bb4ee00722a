------------------------------ MODULE MCService -------------------------------
(***************************************************************************)
(* Constants for checking Service with TLC.                                *)
(***************************************************************************)
EXTENDS Service

CONSTANTS m1, w1, r1, r2, d1

\* An image, compressed once and twice, and its thumbnail.
MCBlobs == {"photo", "photo.q", "photo.qq", "thumb"}
MCSize == [b \in MCBlobs |->
             CASE b = "photo" -> 4 [] b = "photo.q" -> 3 [] b = "photo.qq" -> 2
               [] b = "thumb" -> 1]
MCOrigin == [b \in MCBlobs |-> "photo"]
MCPacked == [b \in MCBlobs |-> CASE b = "photo" -> "photo.q"
                                 [] b = "photo.q" -> "photo.qq"
                                 [] OTHER -> b]
MCShrunk == [b \in MCBlobs |-> "thumb"]
MCImageWidth == [b \in MCBlobs |-> 2]
MCImageHeight == [b \in MCBlobs |-> 2]

MCStored == {[type |-> "image/png", blob |-> "photo"]}

\* One width below the image's and one above it.
MCSizeEntries == <<"1", "3">>
MCOneSize == <<"1">>
MCAtoi == [e \in {"1", "3"} |-> IF e = "1" THEN 1 ELSE 3]
MCWidths == {1, 3}

MCBuckets == GetBuckets(<<"images", "staging">>)
\* Where calls fail: none but the one that is always there.
MCOneBucket == GetBuckets(<<"staging">>)
=============================================================================
