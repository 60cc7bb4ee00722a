\* Every call may fail at any time, two workers die and the backlog command runs.
SPECIFICATION Spec
\* The pipeline rests when the queue is empty and the backlog command is done.
CHECK_DEADLOCK FALSE
CONSTANTS
  m1 = m1
  w1 = w1
  w2 = w2
  Medias = {m1}
  Buckets <- MCOneBucket
  Staging = "staging"
  Blobs <- MCBlobs
  Size <- MCSize
  Origin <- MCOrigin
  ImageBlobs <- MCImages
  PdfBlobs = {}
  Widths <- MCWidths
  MinFileSize = 1
  MaxFileSize = 5
  NoRow = NoRow
  NoObject = NoObject
  Nil = Nil
  Workers = {w1, w2}
  Stored <- MCFewStored
  SizeEntries <- MCSizeEntries
  ImageWidth <- MCImageWidth
  ImageHeight <- MCImageHeight
  Atoi <- MCAtoi
  Blank = ""
  Packed <- MCPackedOnce
  Shrunk <- MCShrunk
  Faults = {"get", "read", "compress", "save_temp", "copy_temp", "remove_temp", "remove_old", "stat", "update", "enqueue", "uncache", "save_variant", "copy_variant", "list", "crash"}
  MaxCrashes = 2
  MaxBacklogs = 1
SYMMETRY Symmetry
INVARIANTS TypeOK ContentNeverLost VariantsStored BacklogFindsMissed
PROPERTIES KeepsLifecycle
