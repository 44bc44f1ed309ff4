--------------------------- MODULE CommandStatus ---------------------------
(***************************************************************************)
(* How a command's status may advance: command-status.ts, shared by the    *)
(* worker's event consumer.  commands.status is free text in the database, *)
(* so a status may be none of the CommandStatus values.                    *)
(***************************************************************************)
EXTENDS Naturals

TERMINAL_STATUSES == {"Accepted", "Rejected", "Failed", "Timeout", "Duplicate"}

CommandStatuses == {"Queued", "Sent", "Dispatched"} \cup TERMINAL_STATUSES

STATUS_RANK == [s \in CommandStatuses |->
                  CASE s = "Queued" -> 0
                    [] s = "Sent" -> 1
                    [] s = "Dispatched" -> 2
                    [] OTHER -> 3]

isTerminalStatus(s) == s \in TERMINAL_STATUSES

\* mutant of Advances: a late event takes a finished command back
AdvancesAlways(current, candidate) == current # candidate

\* resolveNextStatus returns candidate (and null otherwise)
Advances(current, candidate) ==
  \/ current \notin CommandStatuses
  \/ current = candidate
  \/ ~isTerminalStatus(current) /\ STATUS_RANK[candidate] >= STATUS_RANK[current]

\* mapEventTypeToCommandStatus; the other event types are ignored
StatusOfEvent ==
  [CommandRouted |-> "Sent", CommandDispatched |-> "Dispatched",
   CommandAccepted |-> "Accepted", CommandRejected |-> "Rejected",
   CommandFailed |-> "Failed", CommandTimeout |-> "Timeout",
   CommandDuplicate |-> "Duplicate"]
=============================================================================
