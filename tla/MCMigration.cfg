\* Three runs at once or one after the other, every call failing, two deaths.
SPECIFICATION FairSpec
\* The runs end.
CHECK_DEADLOCK FALSE
CONSTANTS
  r1 = r1
  r2 = r2
  r3 = r3
  Runs = {r1, r2, r3}
  Scripts <- MCScripts
  Faults = {"lock", "version", "statement", "force", "crash"}
  MaxCrashes = 2
INVARIANTS TypeOK CleanIsApplied SuccessMeansMigrated FailureExplained
PROPERTIES EveryRunEnds
