\* Overlapping deliveries of one SCAN task.
SPECIFICATION Spec
CONSTANTS
  Scanners = {s1, s2}
  Ingesters = {i1}
  MaxSurplus = 2
  MaxCrashes = 0
  MaxIngests = 0
  None = None
  NoDoc = NoDoc
SYMMETRY Symmetry
INVARIANTS ClearedFileExists
CHECK_DEADLOCK FALSE
