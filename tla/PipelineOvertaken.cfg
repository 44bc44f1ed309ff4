SPECIFICATION Spec
CONSTANTS
  Commands <- OneReservation
  ReserveNow <- OneReservation
  CancelReservation <- NoCommand
  MaxCopies = 1
  MaxFaults = 0
PROPERTIES
  FinishedStaysFinished
CHECK_DEADLOCK FALSE
