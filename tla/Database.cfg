CONSTANTS
  u1 = u1
  u2 = u2
  u3 = u3
  Uploads = {u1, u2, u3}
  RoleOf <- MCRoleOf
  Capacity = 2
  c1 = c1
  c2 = c2
  Calls = {c1, c2}
  LimitOf <- MCLimitOf
  LastDay = 2
SPECIFICATION Spec
CHECK_DEADLOCK FALSE
PROPERTIES
  ImplementsMediaRows
  TransactionsEnd
  CallsStayWithinBudget
  AdmissionsConcluded
