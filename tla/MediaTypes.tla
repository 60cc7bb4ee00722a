----------------------------- MODULE MediaTypes -----------------------------
(***************************************************************************)
(* The data every component of medias-ms-go shares: the rows of the table  *)
(* `medias` (internal/model), the object keys of the storage, the objects  *)
(* themselves and the format rules of internal/usecase/media/config.go.    *)
(*                                                                         *)
(* File contents are abstract.  A blob has a size and decodes as an image, *)
(* as a PDF or as neither; what fillMetadata extracts from it (width,      *)
(* page count, word count...) is determined by the blob, so the blob       *)
(* stands for its metadata.  A blob that the optimiser writes remembers    *)
(* the upload it was made from (Origin).                                   *)
(***************************************************************************)
EXTENDS Naturals, Sequences

CONSTANTS
  Medias,        \* media UUIDs
  Buckets,       \* the buckets of config.Buckets; "staging" is one of them
  Staging,       \* the bucket presigned uploads go to
  Blobs,         \* file contents
  Size,          \* the length of each blob
  Origin,        \* the upload each blob derives from
  ImageBlobs,    \* the blobs image.DecodeConfig accepts
  PdfBlobs,      \* the blobs pdf.NewReader accepts
  Widths,        \* the positive widths configured in IMAGES_SIZES
  MinFileSize,   \* smallest size an upload may have
  MaxFileSize,   \* largest size an upload may have
  NoRow,         \* "no row with this id"
  NoObject,      \* "no object under this key"
  Nil            \* a nil pointer, or a local variable not yet assigned

-----------------------------------------------------------------------------
(* Formats *)

AllowedMimeTypes ==
  {"image/png", "image/jpeg", "image/webp", "application/pdf", "text/markdown"}

\* Content types a client may announce; one of them is not accepted.
MimeTypes == AllowedMimeTypes \cup {"application/zip"}

IsMimeTypeAllowed(mime) == mime \in AllowedMimeTypes

IsImage(mime) == mime \in {"image/png", "image/jpeg", "image/webp"}

IsPdf(mime) == mime = "application/pdf"

Extensions == {"", ".png", ".jpg", ".webp", ".pdf", ".md"}

\* "" stands for the error MimeTypeToExtension returns.
MimeTypeToExtension(mime) ==
  CASE mime = "image/png"       -> ".png"
    [] mime = "image/jpeg"      -> ".jpg"
    [] mime = "image/webp"      -> ".webp"
    [] mime = "application/pdf" -> ".pdf"
    [] mime = "text/markdown"   -> ".md"
    [] OTHER                    -> ""

\* Whether fillMetadata succeeds: an allowed type and a content that parses.
\* Any content parses as Markdown.
Decodable(mime, blob) ==
  /\ IsMimeTypeAllowed(mime)
  /\ IsImage(mime) => blob \in ImageBlobs
  /\ IsPdf(mime) => blob \in PdfBlobs

SizeAllowed(n) == n >= MinFileSize /\ n <= MaxFileSize

-----------------------------------------------------------------------------
(* Object keys *)

Key == [kind : {"file", "temp"}, media : Medias, ext : Extensions, width : {0}]
         \cup [kind : {"variant"}, media : Medias, ext : {".webp"}, width : Widths]

\* "<id><ext>"; a fresh upload has the bare id.
FileKey(m, ext) == [kind |-> "file", media |-> m, ext |-> ext, width |-> 0]

RawKey(m) == FileKey(m, "")

\* "<id><ext>.tmp"
TempKey(m, ext) == [kind |-> "temp", media |-> m, ext |-> ext, width |-> 0]

\* "variants/<id>/<id>_<width>.webp"
VariantKey(m, w) ==
  [kind |-> "variant", media |-> m, ext |-> ".webp", width |-> w]

-----------------------------------------------------------------------------
(* Objects and rows *)

\* A stored object: the Content-Type it was put with, and its content.
Object == [type : MimeTypes, blob : Blobs]

Status == {"pending", "completed", "failed"}

Variant == [key : Key, size : Nat, width : Nat, height : Nat]

\* model.Media, less the columns no operation decides on (original filename,
\* failure message, timestamps).
Row == [key       : Key,
        bucket    : Buckets,
        mime      : AllowedMimeTypes \cup {Nil},
        size      : Nat \cup {Nil},
        status    : Status,
        optimised : BOOLEAN,
        meta      : Blobs \cup {Nil},
        variants  : Seq(Variant)]

-----------------------------------------------------------------------------
ASSUME BucketsAssumption == Staging \in Buckets

ASSUME BlobsAssumption ==
  /\ Size \in [Blobs -> Nat]
  /\ Origin \in [Blobs -> Blobs]
  /\ ImageBlobs \subseteq Blobs
  /\ PdfBlobs \subseteq Blobs

ASSUME SizesAssumption ==
  /\ MinFileSize \in Nat
  /\ MaxFileSize \in Nat
  /\ Widths \subseteq Nat \ {0}

ASSUME NilAssumption ==
  /\ NoRow \notin Row
  /\ NoObject \notin Object
  /\ Nil \notin Nat
  /\ Nil \notin Blobs
  /\ Nil \notin AllowedMimeTypes
  /\ Nil \notin Row
=============================================================================
