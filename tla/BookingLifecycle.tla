-------------------------- MODULE BookingLifecycle --------------------------
(***************************************************************************)
(* One booking and the reservation commands sent for it:                   *)
(* apps/api/src/modules/booking/booking-service.service.ts, with the two   *)
(* places that carry a command's outcome over to the booking, the worker's *)
(* command event consumer and the OCPI result endpoint.                    *)
(*                                                                         *)
(* No operation locks the row or writes it conditionally: each reads the   *)
(* booking, decides, and writes it by id, with other calls in between.     *)
(***************************************************************************)
EXTENDS CommandStatus, Sequences

CONSTANTS
  Calls,        \* API calls that may be in flight at the same time
  MaxCommands,  \* bound: commands enqueued for the booking
  Outcomes      \* bound: what command events report

ASSUME BookingAssumption ==
  /\ MaxCommands \in Nat
  /\ Outcomes \subseteq {StatusOfEvent[t] : t \in DOMAIN StatusOfEvent}

VARIABLES
  status,     \* bookings.status; "NONE" before the row exists
  overdue,    \* bookings.endTime lies in the past
  shown,      \* bookings.reservationCommandId (0 for null) and ...Status
  commands,   \* the commands rows of the booking, by creation
  calls       \* what each call is at, with its local variables

vars == <<status, overdue, shown, commands, calls>>

BookingStatus == {"PENDING", "CONFIRMED", "CANCELLED", "NO_SHOW", "EXPIRED"}
OcpiOutcomes == Outcomes \cap {"Accepted", "Rejected", "Failed", "Timeout"}

Operations == {"create", "cancel", "checkin", "markNoShow", "expire", "update",
               "expireOverdue", "dispatchReserve", "dispatchCancel", "result"}

\* seen is booking.status as the call read it
Call(op, at, seen, cmd, outcome) ==
  [op |-> op, at |-> at, seen |-> seen, cmd |-> cmd, outcome |-> outcome]

Idle == Call("none", "idle", "NONE", 0, "none")

CallRecord == [op : Operations \cup {"none"},
               at : {"idle", "write", "enqueue", "apply"},
               seen : BookingStatus \cup {"NONE"},
               cmd : 0..MaxCommands,
               outcome : OcpiOutcomes \cup {"none"}]

\* history: reported is what an event or a result wrote last, overwritten that
\* the outbox worker wrote the status since
CommandRow == [type : {"ReserveNow", "CancelReservation"}, status : CommandStatuses,
               reported : CommandStatuses \cup {"none"}, overwritten : BOOLEAN]

TypeOK ==
  /\ status \in BookingStatus \cup {"NONE"}
  /\ overdue \in BOOLEAN
  /\ shown \in [cmd : 0..MaxCommands,
                status : CommandStatuses \cup {"none", "DispatchFailed"}]
  /\ commands \in Seq(CommandRow) /\ Len(commands) <= MaxCommands
  /\ calls \in [Calls -> CallRecord]

Init ==
  /\ status = "NONE"
  /\ overdue = FALSE
  /\ shown = [cmd |-> 0, status |-> "none"]
  /\ commands = <<>>
  /\ calls = [r \in Calls |-> Idle]

----------------------------------------------------------------------------
(* Helpers *)

\* assertMutableStatus does not throw
Mutable(s) == s \in {"PENDING", "CONFIRMED"}

\* mutant of Admits: update forgets assertMutableStatus
AdmitsAnyUpdate(op) ==
  \/ op = "checkin" /\ status = "PENDING"
  \/ op \in {"cancel", "markNoShow", "expire"} /\ Mutable(status)
  \/ op \in {"update", "dispatchReserve", "dispatchCancel"}
  \/ op = "expireOverdue" /\ Mutable(status) /\ overdue

\* the conditions under which an operation goes on after reading the booking
Admits(op) ==
  \/ op = "checkin" /\ status = "PENDING"
  \/ op \in {"cancel", "markNoShow", "expire", "update"} /\ Mutable(status)
  \/ op \in {"dispatchReserve", "dispatchCancel"}
  \/ op = "expireOverdue" /\ Mutable(status) /\ overdue

At(r, op, at) == calls[r].op = op /\ calls[r].at = at

Finish(r) == calls' = [calls EXCEPT ![r] = Idle]

\* what an outcome s of a command of type t makes of the booking; the consumer
\* also takes "Duplicate" for a refusal, which OCPI partners do not report
CancelsBooking(t, s) ==
  \/ t = "ReserveNow" /\ s \in {"Rejected", "Failed", "Timeout", "Duplicate"}
  \/ t = "CancelReservation" /\ s = "Accepted"

\* mutant of SyncBooking: the booking keeps pointing at the command it knew
SyncStatusOnly(c, s) ==
  /\ shown' = [shown EXCEPT !.status = s]
  /\ status' = IF CancelsBooking(commands[c].type, s) THEN "CANCELLED" ELSE status

\* syncBookingReservationState and syncBookingFromCommandResult
SyncBooking(c, s) ==
  /\ shown' = [cmd |-> c, status |-> s]
  /\ status' = IF CancelsBooking(commands[c].type, s) THEN "CANCELLED" ELSE status

\* one transaction writes the command and the booking
WriteOutcome(c, s) ==
  /\ commands' = [commands EXCEPT ![c] =
                     [@ EXCEPT !.status = s, !.reported = s, !.overwritten = FALSE]]
  /\ SyncBooking(c, s)

----------------------------------------------------------------------------
(* Operations of BookingService *)

\* create: the row; with dispatchCommand it goes on to reserve the charge point
Create(r) ==
  /\ calls[r] = Idle
  /\ status = "NONE"
  /\ status' = "PENDING"
  /\ calls' = [calls EXCEPT ![r] = Call("create", "enqueue", "NONE", 0, "none")]
  /\ UNCHANGED <<overdue, shown, commands>>

\* the first query of every other operation, and its early return
ReadBooking(r) ==
  /\ calls[r] = Idle
  /\ status # "NONE"
  /\ \E op \in Operations \ {"create", "result"} :
       /\ Admits(op)
       /\ calls' = [calls EXCEPT ![r] =
            IF op \in {"dispatchReserve", "dispatchCancel"}
            THEN Call(op, "enqueue", "NONE", 0, "none")
            ELSE Call(op, "write", status, 0, "none")]
  /\ UNCHANGED <<status, overdue, shown, commands>>

CancelWrites(r) ==
  /\ At(r, "cancel", "write")
  /\ status' = "CANCELLED"
  /\ calls' = [calls EXCEPT ![r] = Call("cancel", "enqueue", "NONE", 0, "none")]
  /\ UNCHANGED <<overdue, shown, commands>>

CheckinWrites(r) ==
  /\ At(r, "checkin", "write")
  /\ status' = "CONFIRMED"
  /\ Finish(r)
  /\ UNCHANGED <<overdue, shown, commands>>

MarkNoShowWrites(r) ==
  /\ At(r, "markNoShow", "write")
  /\ status' = "NO_SHOW"
  /\ Finish(r)
  /\ UNCHANGED <<overdue, shown, commands>>

ExpireWrites(r) ==
  /\ At(r, "expire", "write")
  /\ status' = "EXPIRED"
  /\ Finish(r)
  /\ UNCHANGED <<overdue, shown, commands>>

\* update: any status and any new time may be asked for
UpdateWrites(r) ==
  /\ At(r, "update", "write")
  /\ status' \in BookingStatus
  /\ overdue' \in BOOLEAN
  /\ Finish(r)
  /\ UNCHANGED <<shown, commands>>

\* updateMany by the ids that findMany returned
ExpireOverdueWrites(r) ==
  /\ At(r, "expireOverdue", "write")
  /\ status' = "EXPIRED"
  /\ Finish(r)
  /\ UNCHANGED <<overdue, shown, commands>>

\* enqueueReserveNowCommand and enqueueCancelReservationCommand; every error is
\* turned into the result 'DispatchFailed', here cmd = 0
EnqueueCommand(r) ==
  /\ calls[r].at = "enqueue"
  /\ \/ /\ Len(commands) < MaxCommands
        /\ commands' = Append(commands,
             [type |-> IF calls[r].op \in {"create", "dispatchReserve"}
                       THEN "ReserveNow" ELSE "CancelReservation",
              status |-> "Queued", reported |-> "none", overwritten |-> FALSE])
        /\ calls' = [calls EXCEPT ![r] =
                       Call(calls[r].op, "apply", "NONE", Len(commands) + 1, "none")]
     \/ /\ calls' = [calls EXCEPT ![r].at = "apply"]
        /\ UNCHANGED commands
  /\ UNCHANGED <<status, overdue, shown>>

\* applyCommandState, which knows of the command only that it was enqueued
ApplyCommandState(r) ==
  /\ calls[r].at = "apply"
  /\ shown' = [cmd |-> calls[r].cmd,
               status |-> IF calls[r].cmd = 0 THEN "DispatchFailed" ELSE "Queued"]
  /\ Finish(r)
  /\ UNCHANGED <<status, overdue, commands>>

\* the process dies, or a query throws
Abort(r) ==
  /\ calls[r] # Idle
  /\ Finish(r)
  /\ UNCHANGED <<status, overdue, shown, commands>>

----------------------------------------------------------------------------
(* Outcomes of the commands *)

\* createCommandResult reads the command ...
ReadResult(r) ==
  /\ calls[r] = Idle
  /\ \E c \in DOMAIN commands, s \in OcpiOutcomes :
       /\ commands[c].status # s
       /\ calls' = [calls EXCEPT ![r] = Call("result", "write", "NONE", c, s)]
  /\ UNCHANGED <<status, overdue, shown, commands>>

\* ... and writes it, whatever its status is by now
WriteResult(r) ==
  /\ At(r, "result", "write")
  /\ LET c == calls[r].cmd
         s == calls[r].outcome
     IN  WriteOutcome(c, s)
  /\ Finish(r)
  /\ UNCHANGED overdue

\* reconcileEvent of the worker's consumer, one transaction
Reconcile(c, s) ==
  /\ ~(commands[c].status = s /\ isTerminalStatus(s))
  /\ Advances(commands[c].status, s)
  /\ WriteOutcome(c, s)
  /\ UNCHANGED <<overdue, calls>>

\* What the outbox worker and the replay script write to a command, 'Sent',
\* 'Failed' or 'Queued', they write whatever its status is, and not to its
\* booking.  In any order: a lock that expired or a second replay makes them late.
OutboxWrites(c, s) ==
  /\ commands' = [commands EXCEPT ![c] = [@ EXCEPT !.status = s, !.overwritten = TRUE]]
  /\ UNCHANGED <<status, overdue, shown, calls>>

EndTimePasses ==
  /\ status # "NONE"
  /\ overdue' = TRUE
  /\ UNCHANGED <<status, shown, commands, calls>>

----------------------------------------------------------------------------
WriteBooking(r) ==
  \/ CancelWrites(r)
  \/ CheckinWrites(r)
  \/ MarkNoShowWrites(r)
  \/ ExpireWrites(r)
  \/ UpdateWrites(r)
  \/ ExpireOverdueWrites(r)

Outcome ==
  \/ \E r \in Calls : WriteResult(r)
  \/ \E c \in DOMAIN commands, s \in Outcomes : Reconcile(c, s)

Next ==
  \/ \E r \in Calls :
       \/ Create(r)
       \/ ReadBooking(r)
       \/ WriteBooking(r)
       \/ EnqueueCommand(r)
       \/ ApplyCommandState(r)
       \/ ReadResult(r)
       \/ Abort(r)
  \/ Outcome
  \/ \E c \in DOMAIN commands, s \in {"Sent", "Failed", "Queued"} : OutboxWrites(c, s)
  \/ EndTimePasses

Spec == Init /\ [][Next]_vars

----------------------------------------------------------------------------
(* Properties *)

Closed(s) == s \in BookingStatus /\ ~Mutable(s)

\* assertMutableStatus is the only guard of a closed booking, and it is enough
\* for calls that come one after the other: a closed booking changes its status
\* only by a call that had read it while it was open, or into CANCELLED by the
\* outcome of a reservation command.
ClosedChangesByRaceOnly ==
  [][Closed(status) /\ status' # status =>
       \/ \E r \in Calls : /\ calls[r].at = "write" /\ calls'[r] # calls[r]
                          /\ Mutable(calls[r].seen)
       \/ commands' # commands /\ status' = "CANCELLED"
       \/ \E r \in Calls : At(r, "result", "write") /\ status' = "CANCELLED"]_vars

\* What a booking shows of its reservation is what the command it points to
\* shows: events and results write both in one transaction.  There are two ways
\* out, and no third: applyCommandState came after the outcome and put 'Queued'
\* back, or the outbox worker, which knows of no booking, wrote the command after
\* the outcome that the booking shows.
ShownFollowsCommand ==
  shown.cmd # 0 =>
    /\ shown.cmd \in DOMAIN commands
    /\ LET command == commands[shown.cmd]
       IN  \/ shown.status \in {command.status, "Queued"}
           \/ command.overwritten /\ shown.status = command.reported
=============================================================================
