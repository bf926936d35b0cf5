CONSTANTS
  u1 = u1
  i1 = i1
  i2 = i2
  x1 = x1
  x2 = x2
  x3 = x3
  p1 = p1
  p2 = p2
  User = {u1}
  Invoice = {i1, i2}
  Txn = {x1, x2}
  Request = {p1, p2}
  Cart <- MCCart
  Earned = 1
  Opening = 2
  NoUser = NoUser
  NoInvoice = NoInvoice
  NoTxn = NoTxn
  MaxFaults = 0
  MaxRequests = 2
SPECIFICATION Spec
SYMMETRY MCSymmetry
INVARIANTS
  SettledOnce
  NotOverdrawn
  BalanceMatchesLedger
CHECK_DEADLOCK FALSE
