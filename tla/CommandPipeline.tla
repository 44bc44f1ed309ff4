-------------------------- MODULE CommandPipeline --------------------------
(***************************************************************************)
(* A command's way from the outbox to its outcome: the outbox worker (by   *)
(* its promise, CommandDelivery, which CommandOutbox implements), the      *)
(* external OCPP gateway, and the worker's consumer of command events      *)
(* (apps/worker/src/modules/commands/command-events.consumer.ts), which    *)
(* also carries reservation outcomes over to bookings.                     *)
(*                                                                         *)
(* The consumer's transaction runs in READ COMMITTED and reads the command *)
(* without locking it: reading and writing are two steps, and the outbox   *)
(* worker's own transactions on the same row may come in between.          *)
(***************************************************************************)
EXTENDS CommandStatus, FiniteSets

CONSTANTS
  Commands,
  ReserveNow,         \* the commands of type RESERVE_NOW ...
  CancelReservation,  \* ... and CANCEL_RESERVATION, all of the same booking
  MaxCopies,          \* bound: messages on the request topic per command
  MaxFaults           \* bound: lost, redelivered and overlapping events

ASSUME PipelineAssumption ==
  /\ ReserveNow \subseteq Commands
  /\ CancelReservation \subseteq Commands \ ReserveNow
  /\ MaxCopies \in Nat /\ MaxFaults \in Nat

VARIABLES
  row,        \* command_outbox.status
  copies,     \* messages on the command-requests topic
  status,     \* commands.status
  events,     \* messages on the command-events topic
  consumed,   \* those that eachMessage is done with
  recorded,   \* command_events rows the consumer created, as <<command, status, event>>
  reading,    \* events whose transaction has read its command and not written yet
  booking,    \* bookings.status: "PENDING" or "CANCELLED"
  cancelledBy,\* history: the command whose event cancelled the booking
  overtaken,  \* history: the worker's 'Sent' came after the command's outcome
  faults

deliveryVars == <<row, copies>>
gatewayVars  == <<events>>
consumerVars == <<consumed, recorded, reading>>
bookingVars  == <<booking, cancelledBy>>
vars == <<deliveryVars, status, gatewayVars, consumerVars, bookingVars, overtaken, faults>>

\* The worker is taken by its promise about rows that are in one hand at a time;
\* what becomes of the others, and which rows were replayed, is CommandOutbox's
\* subject.
Delivery == INSTANCE CommandDelivery
              WITH Silent <- {}, status <- row,
                   replayed <- [c \in Commands |-> TRUE],
                   disturbed <- [c \in Commands |-> FALSE]

\* occurredAt is the event itself: every event has a time of its own
Event == [cmd : Commands, copy : 1..MaxCopies,
          status : {StatusOfEvent[t] : t \in DOMAIN StatusOfEvent}]

TypeOK ==
  /\ row \in [Commands -> {"None", "Queued", "Published", "DeadLettered"}]
  /\ copies \in [Commands -> 0..MaxCopies]
  /\ status \in [Commands -> {"None"} \cup CommandStatuses]
  /\ events \subseteq Event
  /\ consumed \subseteq events
  /\ recorded \subseteq events
  /\ reading \subseteq events
  /\ booking \in {"PENDING", "CANCELLED"}
  /\ cancelledBy \subseteq Commands
  /\ overtaken \in [Commands -> BOOLEAN]
  /\ faults \in 0..MaxFaults

Init ==
  /\ row = [c \in Commands |-> "None"]
  /\ copies = [c \in Commands |-> 0]
  /\ status = [c \in Commands |-> "None"]
  /\ events = {}
  /\ consumed = {}
  /\ recorded = {}
  /\ reading = {}
  /\ booking = "PENDING"
  /\ cancelledBy = {}
  /\ overtaken = [c \in Commands |-> FALSE]
  /\ faults = 0

Fault == faults < MaxFaults /\ faults' = faults + 1

----------------------------------------------------------------------------
(* The API and the outbox worker: every step of the promise, with what the *)
(* same transaction writes to commands.status *)

\* enqueueCommand
Enqueue(c) ==
  /\ Delivery!Submit(c)
  /\ status' = [status EXCEPT ![c] = "Queued"]
  /\ UNCHANGED <<gatewayVars, consumerVars, bookingVars, overtaken, faults>>

\* kafka.publish
Publish(c) ==
  /\ copies[c] < MaxCopies
  /\ Delivery!Send(c)
  /\ UNCHANGED <<status, gatewayVars, consumerVars, bookingVars, overtaken, faults>>

\* the transaction after the publish, which does not look at the status
MarkSent(c) ==
  /\ Delivery!Finish(c)
  /\ status' = [status EXCEPT ![c] = "Sent"]
  /\ overtaken' = [overtaken EXCEPT ![c] = \E e \in consumed : e.cmd = c /\ isTerminalStatus(e.status)]
  /\ UNCHANGED <<gatewayVars, consumerVars, bookingVars, faults>>

\* moveToDeadLetter: the booking of a reservation is left as it is
DeadLetter(c) ==
  /\ Delivery!GiveUp(c)
  /\ status' = [status EXCEPT ![c] = "Failed"]
  /\ UNCHANGED <<gatewayVars, consumerVars, bookingVars, overtaken, faults>>

\* scripts/replay-dead-letters.ts
Replay(c) ==
  /\ copies[c] < MaxCopies
  /\ Delivery!Requeue(c)
  /\ status' = [status EXCEPT ![c] = "Queued"]
  /\ UNCHANGED <<gatewayVars, consumerVars, bookingVars, overtaken, faults>>

----------------------------------------------------------------------------
(* The gateway, external: for every request that it reads it may report     *)
(* that it routed and dispatched it, and one outcome; a request that it has *)
(* seen before may be reported as a duplicate.                              *)

Emit(e) ==
  /\ e \notin events
  /\ e.copy <= copies[e.cmd]
  /\ isTerminalStatus(e.status) =>
       /\ \A d \in events : d.cmd = e.cmd /\ d.copy = e.copy => ~isTerminalStatus(d.status)
       /\ e.status = "Duplicate" => e.copy > 1
  /\ events' = events \cup {e}
  /\ UNCHANGED <<deliveryVars, status, consumerVars, bookingVars, overtaken, faults>>

----------------------------------------------------------------------------
(* The consumer of command events.  Messages of one charge point share a    *)
(* partition, so the events of a command are handled one at a time except   *)
(* while a rebalance hands the partition over.                              *)

\* the early returns of reconcileEvent's transaction: the outcome is known
\* already, the event is recorded already, or the status may not move there
Ignores(e) ==
  \/ status[e.cmd] = e.status /\ isTerminalStatus(e.status)
  \/ e \in recorded
  \/ ~Advances(status[e.cmd], e.status)

InHand(c) == \E e \in reading : e.cmd = c

SkipEvent(e) ==
  /\ e \in events \ consumed
  /\ ~InHand(e.cmd)
  /\ Ignores(e)
  /\ consumed' = consumed \cup {e}
  /\ UNCHANGED <<deliveryVars, status, gatewayVars, recorded, reading, bookingVars,
                 overtaken, faults>>

\* findUnique and findFirst at the start of the transaction; while a rebalance
\* hands the partition over another consumer may be at work on the same command
ReadCommand(e) ==
  /\ e \in events \ (consumed \cup reading)
  /\ \/ ~InHand(e.cmd) /\ UNCHANGED faults
     \/ InHand(e.cmd) /\ Fault
  /\ ~Ignores(e)
  /\ reading' = reading \cup {e}
  /\ UNCHANGED <<deliveryVars, status, gatewayVars, consumed, recorded, bookingVars,
                 overtaken>>

\* mutant of CancelsBooking: a timeout is taken for something that may still succeed
CancelsUnlessTimeout(c, s) ==
  \/ c \in ReserveNow /\ s \in {"Rejected", "Failed", "Duplicate"}
  \/ c \in CancelReservation /\ s = "Accepted"

\* mutant of CancelsBooking: the outcome is not looked at
CancelsWhenTerminal(c, s) == c \in ReserveNow \cup CancelReservation /\ isTerminalStatus(s)

\* syncBookingReservationState
CancelsBooking(c, s) ==
  \/ c \in ReserveNow /\ s \in {"Rejected", "Failed", "Timeout", "Duplicate"}
  \/ c \in CancelReservation /\ s = "Accepted"

\* the rest of the transaction, decided on the status as it was read
Reconcile(e) ==
  /\ e \in reading
  /\ status' = [status EXCEPT ![e.cmd] = e.status]
  /\ recorded' = recorded \cup {e}
  /\ reading' = reading \ {e}
  /\ consumed' = consumed \cup {e}
  /\ IF CancelsBooking(e.cmd, e.status)
     THEN booking' = "CANCELLED" /\ cancelledBy' = cancelledBy \cup {e.cmd}
     ELSE UNCHANGED bookingVars
  /\ UNCHANGED <<deliveryVars, gatewayVars, overtaken, faults>>

\* the transaction fails: eachMessage swallows the error and the offset moves on
LoseEvent(e) ==
  /\ e \in events \ consumed
  /\ Fault
  /\ reading' = reading \ {e}
  /\ consumed' = consumed \cup {e}
  /\ UNCHANGED <<deliveryVars, status, gatewayVars, recorded, bookingVars, overtaken>>

\* the process dies before the offset is committed
Redeliver(e) ==
  /\ e \in consumed \cup reading
  /\ Fault
  /\ reading' = reading \ {e}
  /\ consumed' = consumed \ {e}
  /\ UNCHANGED <<deliveryVars, status, gatewayVars, recorded, bookingVars, overtaken>>

----------------------------------------------------------------------------
Consume(e) == SkipEvent(e) \/ ReadCommand(e) \/ Reconcile(e)

Next ==
  \/ \E c \in Commands :
       Enqueue(c) \/ Publish(c) \/ MarkSent(c) \/ DeadLetter(c) \/ Replay(c)
  \/ \E e \in Event : Emit(e)
  \/ \E e \in events : Consume(e) \/ LoseEvent(e) \/ Redeliver(e)

Spec == Init /\ [][Next]_vars

----------------------------------------------------------------------------
(* Properties *)

\* everything that was said about c has been heard
Quiet(c) == row[c] = "Published" /\ \A e \in events : e.cmd = c => e \in consumed

OutcomesOf(c) == {e.status : e \in {d \in events : d.cmd = c /\ isTerminalStatus(d.status)}}

\* Once everything is consumed a command shows one of the outcomes its gateway
\* reported, in whatever order the events came, provided that no event was
\* lost, redelivered or handled twice at a time and that the outbox worker's
\* 'Sent' was not written over an event that had been faster.
OutcomeIsShown ==
  \A c \in Commands :
    Quiet(c) /\ ~overtaken[c] /\ faults = 0 /\ OutcomesOf(c) # {}
      => status[c] \in OutcomesOf(c)

\* The booking and the commands agree, because one transaction writes both: a
\* reservation that shows as refused has cancelled the booking, and nothing but
\* a recorded refusal or an accepted cancellation cancels it.
BookingFollowsCommands ==
  /\ \A c \in ReserveNow :
       status[c] \in {"Rejected", "Timeout", "Duplicate"} => booking = "CANCELLED"
  /\ booking = "CANCELLED" =>
       \E e \in recorded : \/ e.cmd \in ReserveNow /\ isTerminalStatus(e.status)
                                                   /\ e.status # "Accepted"
                           \/ e.cmd \in CancelReservation /\ e.status = "Accepted"

\* A reservation the charger accepted keeps its booking when its request was
\* sent once: only a second copy, reported as a duplicate or refused, or an
\* accepted cancellation takes it away.
AcceptedKeepsBooking ==
  \A c \in ReserveNow :
    copies[c] = 1 /\ "Accepted" \in OutcomesOf(c) => c \notin cancelledBy

\* resolveNextStatus never leaves a terminal status ("if (isTerminalStatus(current))
\* return null"): a finished command does not become unfinished again, unless an
\* operator replays it.
FinishedStaysFinished ==
  [][\A c \in Commands :
       isTerminalStatus(status[c]) /\ ~isTerminalStatus(status'[c]) => Replay(c)]_vars
=============================================================================
