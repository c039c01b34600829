\* Every writer of the tenant document at once.
\* (The status handler stands for all that read, edit and write back.)
SPECIFICATION Spec
CONSTANTS
  Customers = {r1, r2}
  Admins = {a1}
  Confirmers = {c1}
  Payments = {p1, p2}
  Subscriptions = {p2}
  Editors = {}
  Operators = {o1}
  MonthlyReports = 1
  MaxOpening = 1
  MaxConfirms = 1
SYMMETRY Symmetry
CHECK_DEADLOCK FALSE
INVARIANTS
  TypeOK
  NeverOverspent
  ChargesAccounted
PROPERTIES
  AllowanceLostOnlyBlindly
  SuspensionLostOnlyBlindly
