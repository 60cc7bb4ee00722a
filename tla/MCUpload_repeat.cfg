\* A second finalise of a media while the first is running, nothing failing.
SPECIFICATION Spec
CONSTANTS
  m1 = m1
  f1 = f1
  f2 = f2
  Medias = {m1}
  Staging = "staging"
  Blobs <- MCBlobs
  Size <- MCSize
  Origin <- MCOrigin
  ImageBlobs <- MCImages
  PdfBlobs = {}
  Widths = {}
  MinFileSize = 1
  MaxFileSize = 3
  NoRow = NoRow
  NoObject = NoObject
  Nil = Nil
  Buckets = {"staging", "images"}
  Finalisers = {f1, f2}
  Uploads <- MCFewUploads
  Faults = {}
  ExclusiveFinalise = FALSE
INVARIANTS AcceptedIsCompleted
