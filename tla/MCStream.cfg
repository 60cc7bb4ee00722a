\* One task of each kind, every step of both sides failing at will.
SPECIFICATION FairSpec
\* The task and its goroutines end.
CHECK_DEADLOCK FALSE
CONSTANTS
  Kinds = {"image", "pdf", "raw", "resize"}
  Widths = 3
  Chunks = 3
  Faults = {"get", "seek", "read", "convert", "temp", "put"}
INVARIANTS TypeOK OneReader TempFilesGone
PROPERTIES SavesAtomically EveryGoroutineEnds
