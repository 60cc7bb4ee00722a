----------------------------- MODULE MCPipeline ------------------------------
(***************************************************************************)
(* Constants for checking Pipeline with TLC.                               *)
(***************************************************************************)
EXTENDS Pipeline, TLC

CONSTANTS m1, w1, w2

\* An image, compressed once and twice (which differ: the encoding is lossy), and
\* a thumbnail of it; a narrow image, a flat one and a text, which compression leaves alone.
MCBlobs == {"photo", "photo.q", "photo.qq", "thumb", "icon",
            "banner", "text"}
MCSize == [b \in MCBlobs |->
             CASE b = "photo" -> 4 [] b = "photo.q" -> 3 [] b = "photo.qq" -> 2
               [] b \in {"thumb", "icon", "banner"} -> 1 [] b = "text" -> 2]
MCOrigin == [b \in MCBlobs |-> IF b \in {"icon", "banner", "text"} THEN b ELSE "photo"]
MCImages == MCBlobs \ {"text"}
MCPacked == [b \in MCBlobs |-> CASE b = "photo" -> "photo.q"
                                 [] b = "photo.q" -> "photo.qq"
                                 [] OTHER -> b]
\* Where calls fail: compressing a second time changes nothing.
MCPackedOnce == [b \in MCBlobs |-> IF b = "photo" THEN "photo.q" ELSE b]
MCShrunk == [b \in MCBlobs |-> IF b \in {"icon", "banner", "text"} THEN b ELSE "thumb"]

\* The height of the photo at width 1 is not whole; that of the banner is zero.
MCImageWidth == [b \in MCBlobs |-> CASE b = "icon" -> 1 [] b = "banner" -> 4
                                    [] OTHER -> 2]
MCImageHeight == [b \in MCBlobs |-> IF b \in {"icon", "banner"} THEN 1 ELSE 3]

\* An image whose key changes, one whose key stays, one that is too flat to be
\* resized, and a text.
MCStored == {[type |-> "image/png", blob |-> "photo"],
             [type |-> "image/webp", blob |-> "photo"],
             [type |-> "image/webp", blob |-> "banner"],
             [type |-> "text/markdown", blob |-> "text"]}

\* Where calls fail: an image that changes key and is shrunk, one that keeps its
\* key and is copied.
MCFewStored == {[type |-> "image/png", blob |-> "photo"],
                [type |-> "image/webp", blob |-> "icon"]}

\* An entry that is blank, one that is no number, a width to skip, one below and
\* one above the width of the photo.
MCSizeEntries == <<"", "wide", "0", "1", "3">>
MCOneSize == <<"1">>
MCAtoi == [e \in {"", "wide", "0", "1", "3"} |->
             CASE e = "0" -> 0 [] e = "1" -> 1 [] e = "3" -> 3 [] OTHER -> Nil]
MCWidths == {1, 3}

MCBuckets == GetBuckets(<<"images", "", "images">>)
\* Where calls fail: none but the one that is always there.
MCOneBucket == GetBuckets(<<"">>)

Symmetry == Permutations({w1, w2})
=============================================================================
