CONSTANTS
  u1 = u1
  u2 = u2
  u3 = u3
  t1 = t1
  t2 = t2
  o1 = o1
  o2 = o2
  i1 = i1
  i2 = i2
  r1 = r1
  User = {u1, u2, u3}
  Ticket = {t1, t2}
  Sold = {t1}
  Offer = {o1, o2}
  Invoice = {i1}
  Amount = {1, 2}
  Request = {r1}
  Cron = Cron
  NoUser = NoUser
  NoTicket = NoTicket
  NoOffer = NoOffer
  NoInvoice = NoInvoice
  Overrides = {"ACTIVE", "CANCELED"}
  MaxFaults = 0
  MaxRequests = 4
SPECIFICATION FairSpec
PROPERTIES
  DueIsResolved
CHECK_DEADLOCK FALSE
