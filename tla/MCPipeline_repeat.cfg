\* The tasks of one media run twice, nothing failing.
SPECIFICATION Spec
\* The pipeline rests when the queue is empty and the backlog command is done.
CHECK_DEADLOCK FALSE
CONSTANTS
  m1 = m1
  w1 = w1
  w2 = w2
  Medias = {m1}
  Buckets <- MCBuckets
  Staging = "staging"
  Blobs <- MCBlobs
  Size <- MCSize
  Origin <- MCOrigin
  ImageBlobs <- MCImages
  PdfBlobs = {}
  Widths <- MCWidths
  MinFileSize = 1
  MaxFileSize = 5
  NoRow = NoRow
  NoObject = NoObject
  Nil = Nil
  Workers = {w1, w2}
  Stored <- MCStored
  SizeEntries <- MCSizeEntries
  ImageWidth <- MCImageWidth
  ImageHeight <- MCImageHeight
  Atoi <- MCAtoi
  Blank = ""
  Packed <- MCPacked
  Shrunk <- MCShrunk
  Faults = {}
  MaxCrashes = 0
  MaxBacklogs = 1
INVARIANTS OneVariantPerWidth
