\* One finalise of a media at a time; every call may fail, the process may die.
SPECIFICATION Spec
CONSTANTS
  m1 = m1
  f1 = f1
  f2 = f2
  Medias = {m1}
  Staging = "staging"
  Blobs <- MCBlobs
  Size <- MCSize
  Origin <- MCOrigin
  ImageBlobs <- MCImages
  PdfBlobs = {}
  Widths = {}
  MinFileSize = 1
  MaxFileSize = 3
  NoRow = NoRow
  NoObject = NoObject
  Nil = Nil
  Buckets = {"staging", "images"}
  Finalisers = {f1, f2}
  Uploads <- MCUploads
  Faults = {"create", "presign", "get", "stat", "read", "save", "unstage", "update", "undo", "enqueue", "cleanup", "mark", "save_unsure", "crash"}
  ExclusiveFinalise = TRUE
SYMMETRY Symmetry
INVARIANTS TypeOK RowWellFormed CompletedIsStored AcceptedIsCompleted
PROPERTIES KeepsLifecycle
