SPECIFICATION Spec
CONSTANTS
  r1 = r1
  r2 = r2
  a1 = a1
  a2 = a2
  n1 = n1
  None = None
  NoCheck = NoCheck
  Reviewers = {r1, r2}
  Commenters = {r1}
  Managers = {r1}
  Assignees = {r2}
  Agents = {a1, a2}
  Notes = {n1}
  MaxRuns = 2
INVARIANTS TypeOK StoredDecisionWasMade OnlyEscalatedDecided RowsAreOfCommits
PROPERTIES DecisionLostOnlyBlindly NotesLostOnlyBlindly ClaimNeverSteals
SYMMETRY Symmetry
CHECK_DEADLOCK FALSE
