SPECIFICATION Spec
CONSTANTS
  r1 = r1
  r2 = r2
  Calls <- TwoCalls
  MaxCommands = 3
  MaxAttempts = 2
  MaxCopies = 2
  MaxFaults = 1
  Outcomes <- TwoOutcomes
INVARIANTS
  CallbacksNeedAFault
  DeliveredWasReceived
  AcceptedIsQueued
  OneCommandPerCall
SYMMETRY CallSymmetry
CHECK_DEADLOCK FALSE
