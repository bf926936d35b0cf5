\* Two users and accounts, two emails, two handlers in flight, and a failure.
SPECIFICATION FairSpec

CONSTANTS
  User = {u1, u2}
  Uid = {x1, x2}
  Email = {e1, e2}
  Request = {p1, p2}
  None = None
  MaxFaults = 1
  MaxRequests = 3
  u1 = u1
  u2 = u2
  x1 = x1
  x2 = x2
  e1 = e1
  e2 = e2
  p1 = p1
  p2 = p2

INVARIANTS
  StoresAgree
  CodeWorks

PROPERTY CodeIsMailed

CHECK_DEADLOCK FALSE
