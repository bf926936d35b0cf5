\* Two buyers, an organizer, PAYPAC and the webhook, and a failure.
SPECIFICATION MCSpec

CONSTANTS
  Promoter = {u1}
  Application = {a1}
  Code = {c1}
  Balance = {b1, b2}
  Invoice = {i1, i2}
  Request = {p1, p2}
  Locality = {l1, l2}
  Stage = {s1}
  None = None
  Cart <- MCCart
  Price = {3}
  Quota = {1, 2}
  Limit = {1, 2}
  Offer <- MCOffer
  Edit <- MCEdit
  Rule <- MCRule
  MaxFaults = 1
  MaxRequests = 2
  u1 = u1
  a1 = a1
  c1 = c1
  b1 = b1
  b2 = b2
  i1 = i1
  i2 = i2
  l1 = l1
  l2 = l2
  s1 = s1
  p1 = p1
  p2 = p2

SYMMETRY MCSymmetry

INVARIANTS
  LimitsHold
  AmountsAddUp
  CommissionIsKept
  PaidOutOnce
  ProgrammeHolds

CHECK_DEADLOCK FALSE
