SPECIFICATION FairSpec
CONSTANTS
  w1 = w1
  w2 = w2
  r1 = r1
  r2 = r2
  k1 = k1
  Workers <- MCWorkers
  Replayers <- OneReplayer
  Cleaners <- OneCleaner
  Commands <- OneCommand
  Vehicle <- NoVehicle
  MaxAttempts = 2
  BatchSize = 1
  FailureThreshold = 2
  MaxFaults = 1
  MaxReplays = 1
INVARIANTS
  PublishedWasSent
  DuplicatesNeedAFault
PROPERTIES
  DeliversAtLeastOnce
  Settles
\* the system rests when every row is settled and the bounds are spent
CHECK_DEADLOCK FALSE
