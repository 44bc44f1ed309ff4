SPECIFICATION AllocationSpec
CONSTANTS
  NoAmps = NoAmps
  Null = NoAmps
  N = 4
  Phases = {"p1", "p2", "p3"}
  Inputs <- MCInputs
INVARIANTS
  AllocationTypeOK
  AmpsConserved
  NothingWasted
  SharedInOrder
  LivePhasesFit
  HeldWithinDeadband
PROPERTIES
  Terminates
\* the function has returned
CHECK_DEADLOCK FALSE
