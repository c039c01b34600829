\* One payment confirmed by the browser and by the webhook.
SPECIFICATION Spec
CONSTANTS
  Customers = {}
  Admins = {}
  Confirmers = {c1, c2}
  Payments = {p1}
  Subscriptions = {}
  Editors = {}
  Operators = {}
  MonthlyReports = 1
  MaxOpening = 1
  MaxConfirms = 2
CHECK_DEADLOCK FALSE
INVARIANTS
  GrantedOncePerPayment
