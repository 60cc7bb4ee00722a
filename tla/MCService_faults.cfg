\* Calls of the requests fail, requests die, and deletions overlap with tasks.
SPECIFICATION Spec
\* The service rests when no client asks and the queue is empty.
CHECK_DEADLOCK FALSE
CONSTANTS
  m1 = m1
  w1 = w1
  r1 = r1
  r2 = r2
  d1 = d1
  Medias = {m1}
  Buckets <- MCOneBucket
  Staging = "staging"
  Blobs <- MCBlobs
  Size <- MCSize
  Origin <- MCOrigin
  ImageBlobs <- MCBlobs
  PdfBlobs = {}
  Widths <- MCWidths
  MinFileSize = 1
  MaxFileSize = 5
  NoRow = NoRow
  NoObject = NoObject
  Nil = Nil
  Workers = {w1}
  Stored <- MCStored
  ImageWidth <- MCImageWidth
  ImageHeight <- MCImageHeight
  Atoi <- MCAtoi
  Blank = ""
  Packed <- MCPacked
  Shrunk <- MCShrunk
  MaxCrashes = 1
  MaxBacklogs = 0
  LinkTTL = 2
  Margin = 1
  MaxAge = 1
  Deleters = {d1}
  SizeEntries <- MCOneSize
  Readers = {r1}
  Faults = {"crash"}
  GetFaults = {"cache_get", "etag_get", "get", "presign", "presign_variant", "cache_set", "etag_set"}
  DeleteFaults = {"get", "remove_variant", "remove", "delete", "uncache", "crash"}
  ExclusiveDelete = FALSE
INVARIANTS TypeOK ServedLinksLive DeletedHasNoRow
