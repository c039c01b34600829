\* One request, one worker, nothing dies and nothing is repeated.
SPECIFICATION Spec
CONSTANTS
  Requesters = {q1}
  Admins = {}
  Workers = {w1}
  MaxExtra = 0
  MaxFailures = 0
  MaxAttempts = 5
  NoRecord = NoRecord
INVARIANTS InFlightIsWorkedOn
CHECK_DEADLOCK FALSE
