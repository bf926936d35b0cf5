\* One member of staff, two tickets with a balance, one seat, one challenge, and a failure.
SPECIFICATION VenueSpec

CONSTANTS
  Staff = {u}
  Ticket = {t1, t2}
  Consumable = {t1, t2}
  Total = 2
  Amount = {1, 2}
  Challenge = {c}
  Seat = {s}
  Caller = {q1, q2}
  None = None
  MaxFailures = 1
  MaxCalls = 3
  u = u
  t1 = t1
  t2 = t2
  c = c
  s = s
  q1 = q1
  q2 = q2

SYMMETRY Symmetry

INVARIANTS
  DoorHolds
  BalanceHolds

PROPERTIES
  SeatIsKept

CHECK_DEADLOCK FALSE
