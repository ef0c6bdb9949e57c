SPECIFICATION AdmissionSpec
CONSTANTS
  Calls = {c1, c2}
  Requests = {a, b}
  Sockets = {s1, s2}
  MaxConcurrent = 1
  MaxClaims = 1
  Undefined = Undefined
INVARIANTS
  CapacityKept
CHECK_DEADLOCK FALSE
