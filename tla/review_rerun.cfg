SPECIFICATION Spec
CONSTANTS
  r1 = r1
  r2 = r2
  a1 = a1
  None = None
  NoCheck = NoCheck
  Reviewers = {r1, r2}
  Commenters = {}
  Managers = {}
  Assignees = {}
  Agents = {a1}
  Notes = {}
  MaxRuns = 2
PROPERTIES DecisionFinal
CHECK_DEADLOCK FALSE
