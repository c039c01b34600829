\* Two scanners whose deliveries overlap, one ingester, one instance death.
SPECIFICATION Spec
CONSTANTS
  Scanners = {s1, s2}
  Ingesters = {i1}
  MaxSurplus = 2
  MaxCrashes = 1
  MaxIngests = 2
  None = None
  NoDoc = NoDoc
SYMMETRY Symmetry
INVARIANTS
  TypeOK
  ApprovedWasCleared
  CleanIsPromoted
  NothingUnscannedUsed
  EvidenceKept
CHECK_DEADLOCK FALSE
