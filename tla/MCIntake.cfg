\* One finalise and two deletions of a media, in any order and at once; no finalise
\* is cut off, and the clean-up calls succeed.
SPECIFICATION Spec
CONSTANTS
  m1 = m1
  f1 = f1
  d1 = d1
  d2 = d2
  Medias = {m1}
  Staging = "staging"
  Buckets = {"staging", "images"}
  Blobs <- MCBlobs
  Size <- MCSize
  Origin <- MCOrigin
  ImageBlobs <- MCImages
  PdfBlobs = {}
  Widths = {}
  MinFileSize = 1
  MaxFileSize = 3
  NoRow = NoRow
  NoObject = NoObject
  Nil = Nil
  Finalisers = {f1}
  Uploads <- MCUploads
  Faults = {"create", "presign", "get", "stat", "read", "save", "unstage", "update", "update_unsure"}
  ExclusiveFinalise = TRUE
  Deleters = {d1, d2}
  DeleteFaults = {"get", "remove", "delete", "uncache", "crash"}
SYMMETRY Symmetry
INVARIANTS TypeOK RefusedLeavesNothing DeletedHasNoRow QueuedOnce NoOrphans
PROPERTIES KeepsLifecycle
