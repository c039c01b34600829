\* A platform admin's request beside a customer's.
SPECIFICATION Spec
CONSTANTS
  Customers = {r1}
  Admins = {a1}
  Confirmers = {}
  Payments = {}
  Subscriptions = {}
  Editors = {}
  Operators = {}
  MonthlyReports = 1
  MaxOpening = 1
  MaxConfirms = 0
CHECK_DEADLOCK FALSE
INVARIANTS
  ChargesExact
