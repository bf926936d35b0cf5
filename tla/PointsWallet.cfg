\* Spending, receiving and transferring at once, with and without an account.
SPECIFICATION FairSpec

CONSTANTS
  User = {u, v}
  Amount = {1}
  Opening = {2}
  Request = {q1, q2, q3}
  NoUser = NoUser
  NoRequest = NoRequest
  MaxFaults = 1
  MaxRequests = 3
  u = u
  v = v
  q1 = q1
  q2 = q2
  q3 = q3

INVARIANTS
  LedgerIsTrue

PROPERTIES
  OperationsEnd
  KeepsPromise

CHECK_DEADLOCK FALSE
