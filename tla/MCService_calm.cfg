\* No call fails but the DELETE of a row, and no task works on a media while it
\* is deleted.
SPECIFICATION FairSpec
\* The service rests when no client asks and the queue is empty.
CHECK_DEADLOCK FALSE
CONSTANTS
  m1 = m1
  w1 = w1
  r1 = r1
  r2 = r2
  d1 = d1
  Medias = {m1}
  Buckets <- MCBuckets
  Staging = "staging"
  Blobs <- MCBlobs
  Size <- MCSize
  Origin <- MCOrigin
  ImageBlobs <- MCBlobs
  PdfBlobs = {}
  Widths <- MCWidths
  MinFileSize = 1
  MaxFileSize = 5
  NoRow = NoRow
  NoObject = NoObject
  Nil = Nil
  Workers = {w1}
  Stored <- MCStored
  ImageWidth <- MCImageWidth
  ImageHeight <- MCImageHeight
  Atoi <- MCAtoi
  Blank = ""
  Packed <- MCPacked
  Shrunk <- MCShrunk
  MaxCrashes = 0
  MaxBacklogs = 0
  LinkTTL = 2
  Margin = 1
  MaxAge = 1
  Deleters = {d1}
  SizeEntries <- MCSizeEntries
  Readers = {r1, r2}
  Faults = {}
  GetFaults = {}
  DeleteFaults = {"delete"}
  ExclusiveDelete = TRUE
INVARIANTS DeletedHasNoFile MissingIsExplained ServedLinksLive
PROPERTIES DetailsSettle
