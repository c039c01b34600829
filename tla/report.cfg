\* A request, two workers, an extra attempt of either kind and one failure.
SPECIFICATION FairSpec
CONSTANTS
  Requesters = {q1}
  Admins = {x1}
  Workers = {w1, w2}
  MaxExtra = 1
  MaxFailures = 1
  MaxAttempts = 1
  NoRecord = NoRecord
INVARIANTS
  TypeOK
  ReadyIsStored
  StuckOnlyByMishap
PROPERTIES
  ImplementsDelivery
  ReadyLostOnlyBlindly
  TaskLeadsToReady
CHECK_DEADLOCK FALSE
