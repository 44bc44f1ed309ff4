SPECIFICATION Spec
CONSTANTS
  r1 = r1
  r2 = r2
  Calls <- TwoCalls
  Events <- AllEvents
  Settles <- Success
  Fails <- Failure
  Mismatched <- WrongAmount
  EventId <- SharedId
  MaxFaults = 1
SYMMETRY CallSymmetry
PROPERTIES
  OnlyPendingIsCredited
CHECK_DEADLOCK FALSE
