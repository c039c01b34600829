SPECIFICATION Spec
CONSTANTS
  r1 = r1
  r2 = r2
  r3 = r3
  a1 = a1
  None = None
  NoCheck = NoCheck
  Reviewers = {r1, r2, r3}
  Commenters = {}
  Managers = {}
  Assignees = {}
  Agents = {a1}
  Notes = {}
  MaxRuns = 1
PROPERTIES ImplementsDecision
CHECK_DEADLOCK FALSE
