CONSTANTS
  u1 = u1
  u2 = u2
  t1 = t1
  t2 = t2
  t3 = t3
  x1 = x1
  x2 = x2
  r1 = r1
  User = {u1, u2}
  Ticket = {t1, t2}
  Sold = {t1}
  Tx = {x1, x2}
  Request = {r1}
  Cron = Cron
  NoUser = NoUser
  NoTicket = NoTicket
  NoTx = NoTx
  MaxFaults = 0
  MaxRequests = 4
SPECIFICATION FairSpec
PROPERTIES
  FrozenIsReleased
  OpenIsSettled
CHECK_DEADLOCK FALSE
