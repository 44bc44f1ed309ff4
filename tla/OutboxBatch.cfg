SPECIFICATION Spec
CONSTANTS
  w1 = w1
  w2 = w2
  r1 = r1
  r2 = r2
  k1 = k1
  Workers <- MCWorkers
  Replayers <- TwoReplayers
  Cleaners <- NoCleaner
  Commands <- TwoCommands
  Vehicle <- SecondIsVehicle
  MaxAttempts = 1
  BatchSize = 2
  FailureThreshold = 1
  MaxFaults = 0
  MaxReplays = 2
SYMMETRY Symmetry
INVARIANTS
  Exclusive
  DuplicatesNeedAFault
\* the system rests when every row is settled and the bounds are spent
CHECK_DEADLOCK FALSE
