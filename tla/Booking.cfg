SPECIFICATION Spec
CONSTANTS
  r1 = r1
  r2 = r2
  Calls <- TwoCalls
  MaxCommands = 2
  Outcomes <- TwoOutcomes
SYMMETRY CallSymmetry
INVARIANTS
  ShownFollowsCommand
PROPERTIES
  ClosedChangesByRaceOnly
CHECK_DEADLOCK FALSE
