CONSTANTS
  u1 = u1
  i1 = i1
  i2 = i2
  x1 = x1
  x2 = x2
  x3 = x3
  p1 = p1
  p2 = p2
  User = {u1}
  Invoice = {i1}
  Txn = {x1, x2, x3}
  Request = {p1, p2}
  Cart <- MCCart
  Earned = 1
  Opening = 2
  NoUser = NoUser
  NoInvoice = NoInvoice
  NoTxn = NoTxn
  MaxFaults = 1
  MaxRequests = 1
SPECIFICATION FairSpec
PROPERTIES
  ApprovedIsSettled
  LockIsReleased
CHECK_DEADLOCK FALSE
