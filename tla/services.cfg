SPECIFICATION ServicesSpec
CONSTANTS
  Customers = {c1, c2}
  Operators = {o1}
  SupportAgents = {o1}
  Tickets = {t1, t2}
  Messages = {m1, m2, m3}
  Moves = {"keep", "waiting_for_user"}
  NoTicket = NoTicket
  NoMessage = NoMessage
  Callers = {k1, k2}
  Capacity = 3
  Cost = 2
  Second = 2
  FreeAttempts = 1
  Base = 2
  Longest = 3
  EndOfTime = 4
  Requests = {r1, r2}
  Managers = {g1, g2}
  OneManager = g1
  OneRequest = r1
  Keys = {key1}
  TTL = 1
  LastTick = 2
  NoKey = NoKey
  Jobs = {j1}
  Callbacks = {b1}
  Documents = {1, 2}
  Sweeps = {s1, s2}
  Pipeline = {w1}
  Policies = {0, 1, 2}
  Floor = 2
  Limit = 1
  LastDay = 3
  Emails = {e1, e2}
  Uids = {u1, u2}
  Handlers = {h1, h2}
  Roles = {"owner", "reviewer"}
  Nobody = Nobody
  Runs = {run1, run2}
  CriticalRules = {}
  HighRules = {"retention_period"}
  MediumRules = {}
  LowRules = {"page_numbers"}
  CommonRules = {"page_numbers"}
  RawScores = {0, 100}
  Threshold = 60
  MaxAttempts = 2
  MaxItems = 1
  Nothing = Nothing
INVARIANTS
  ServicesTypeOK
  TicketsSound
  AdmissionBound
  LimitPromises
  AccessSound
  AnswersBacked
  RetentionHonest
  StoresAgree
  AssessmentSound
PROPERTIES
  MessagesLostOnlyToUpdates
  RefusalsStick
  SettledRowsStay
  LastManagerKept
CHECK_DEADLOCK FALSE
