\* Overlapping runs of the processor, PAYPAC, the cleaner, and a failure.
SPECIFICATION MailFairSpec

CONSTANTS
  MaxMessages = 2
  BatchSize = 2
  Run = {r1, r2}
  Command = {q1}
  MaxMailFaults = 1
  MaxCommands = 2
  r1 = r1
  r2 = r2
  q1 = q1

INVARIANTS
  StatusIsTrue

PROPERTIES
  DueIsProcessed
  KeepsPromise

CHECK_DEADLOCK FALSE
