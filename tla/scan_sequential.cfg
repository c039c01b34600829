\* One scan at a time: retries after deaths and surplus deliveries, no overlap.
SPECIFICATION FairSpec
CONSTANTS
  Scanners = {s1}
  Ingesters = {i1, i2}
  MaxSurplus = 2
  MaxCrashes = 2
  MaxIngests = 2
  None = None
  NoDoc = NoDoc
INVARIANTS
  ClearedFileExists
PROPERTIES
  ImplementsScreening
  ScanSettles
CHECK_DEADLOCK FALSE
