SPECIFICATION Spec
CONSTANTS
  Commands <- TwoCommands
  ReserveNow <- OneReservation
  CancelReservation <- OneCancel
  MaxCopies = 1
  MaxFaults = 1
INVARIANTS
  OutcomeIsShown
  BookingFollowsCommands
  AcceptedKeepsBooking
\* nothing is left to do when every event is consumed
CHECK_DEADLOCK FALSE
