CONSTANTS
  e1 = e1
  e2 = e2
  r1 = r1
  Event = {e1, e2}
  Request = {r1}
  c1 = c1
  Job = {c1}
  NoEvent = NoEvent
  Company = {e1}
  Edits = {"ACTIVE", "FINALIZED"}
  MaxSales <- MCMaxSales
  MaxFaults = 1
  MaxRequests = 2
SPECIFICATION FairSpec
INVARIANTS
  OneLiquidation
  PaidIsLiquidated
PROPERTIES
  TransitionsAreValid
  EndedIsFinalized
  FinalizedIsLiquidated
CHECK_DEADLOCK FALSE
