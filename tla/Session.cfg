SPECIFICATION FairSpec
CONSTANTS
  h1 = h1
  h2 = h2
  c1 = c1
  c2 = c2
  Handlers <- TwoHandlers
  Calls <- TwoCalls
  Log <- OneCharge
  PatchedValues <- OneValue
  MaxRestarts = 2
  MaxRebalances = 1
  MaxThrows = 1
INVARIANTS
  ShowsLastReading
PROPERTIES
  EndedIsFinal
  ActiveEnds
CHECK_DEADLOCK FALSE
