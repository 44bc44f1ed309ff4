----------------------- MODULE CommandPipelineProofs -----------------------
(***************************************************************************)
(* Proofs about CommandPipeline, for any commands, copies and faults.      *)
(*                                                                         *)
(* What a consumer is about to write is decided on what it has read.       *)
(* While no fault has happened nobody else handles the command's events    *)
(* meanwhile, and the outbox worker's 'Sent' is the only write that may    *)
(* come in between; it comes once, and notes whether it overtook.          *)
(***************************************************************************)
EXTENDS CommandPipeline, TLAPS

Terminal(e) == isTerminalStatus(e.status)

\* A copy of a request has one outcome, and was sent.
OneOutcomePerCopy ==
  /\ \A e \in events : e.copy <= copies[e.cmd]
  /\ \A d, e \in events : d.cmd = e.cmd /\ d.copy = e.copy /\ Terminal(d) /\ Terminal(e) => d = e

\* Whatever cancelled the booking is an event.
CancelledByEvents ==
  \A c \in cancelledBy : \E e \in events : e.cmd = c /\ CancelsBooking(c, e.status)

\* Without faults, an event is being handled, or recorded, or neither, and one at a time.
HandledInTurn ==
  faults = 0 =>
    /\ recorded \subseteq consumed
    /\ reading \cap consumed = {}
    /\ \A d, e \in reading : d.cmd = e.cmd => d = e

OutcomeHeard(c) == \E e \in consumed : e.cmd = c /\ Terminal(e)

\* Without faults, the status of a sent command is final once an outcome was heard, and
\* then one that was reported; a handler that would write less has heard of none.
HeardIsShown ==
  faults = 0 =>
    \A c \in Commands : row[c] = "Published" /\ ~ overtaken[c] =>
      /\ OutcomeHeard(c) => isTerminalStatus(status[c])
      /\ isTerminalStatus(status[c]) => \E e \in events : e.cmd = c /\ e.status = status[c]
      /\ \A e \in reading : e.cmd = c /\ ~ Terminal(e) => ~ OutcomeHeard(c)

IInv ==
  /\ TypeOK
  /\ OneOutcomePerCopy
  /\ CancelledByEvents
  /\ HandledInTurn
  /\ HeardIsShown
  /\ BookingFollowsCommands

LEMMA EventStatuses ==
  \A e \in Event : /\ e.cmd \in Commands /\ e.copy \in 1..MaxCopies
                   /\ e.status \in CommandStatuses \ {"Queued"}
<1>1. \A t \in DOMAIN StatusOfEvent : StatusOfEvent[t] \in CommandStatuses \ {"Queued"}
  BY DEF StatusOfEvent, CommandStatuses, TERMINAL_STATUSES
<1> QED BY <1>1 DEF Event

\* A status that has no outcome gives way to any outcome.
LEMMA OutcomesAdvance ==
  ASSUME NEW s \in {"None"} \cup CommandStatuses, NEW t \in TERMINAL_STATUSES, ~ isTerminalStatus(s)
  PROVE  Advances(s, t)
  BY DEF Advances, isTerminalStatus, STATUS_RANK, CommandStatuses, TERMINAL_STATUSES

LEMMA IInvInit == Init => IInv
<1> SUFFICES ASSUME Init PROVE IInv
  OBVIOUS
<1> USE DEF Init
<1>1. TypeOK
  BY PipelineAssumption DEF TypeOK
<1>2. BookingFollowsCommands
  BY PipelineAssumption DEF BookingFollowsCommands
<1>3. OneOutcomePerCopy /\ CancelledByEvents /\ HandledInTurn /\ HeardIsShown
  BY DEF OneOutcomePerCopy, CancelledByEvents, HandledInTurn, HeardIsShown
<1> QED BY <1>1, <1>2, <1>3 DEF IInv

(* The API and the worker write the row, its copies and the command's status. *)
LEMMA DeliveryPreserves ==
  ASSUME IInv, NEW c \in Commands,
         Enqueue(c) \/ Publish(c) \/ MarkSent(c) \/ DeadLetter(c) \/ Replay(c)
  PROVE  IInv'
<1> USE DEF Delivery!Submit, Delivery!Send, Delivery!Finish, Delivery!GiveUp, Delivery!Requeue,
            Delivery!Move
<1>1. /\ UNCHANGED <<gatewayVars, consumerVars, bookingVars, faults>>
      /\ \A d \in Commands \ {c} : /\ row'[d] = row[d] /\ status'[d] = status[d]
                                   /\ overtaken'[d] = overtaken[d]
      /\ copies' \in [Commands -> 0..MaxCopies] /\ \A d \in Commands : copies'[d] >= copies[d]
  BY PipelineAssumption DEF IInv, TypeOK, Enqueue, Publish, MarkSent, DeadLetter, Replay
<1>2. TypeOK'
  BY <1>1 DEF IInv, TypeOK, Enqueue, Publish, MarkSent, DeadLetter, Replay, deliveryVars,
              gatewayVars, consumerVars, bookingVars, CommandStatuses, TERMINAL_STATUSES
<1>3. OneOutcomePerCopy'
  BY <1>1, EventStatuses DEF IInv, TypeOK, OneOutcomePerCopy, gatewayVars
<1>4. CancelledByEvents' /\ HandledInTurn'
  BY <1>1 DEF IInv, CancelledByEvents, HandledInTurn, gatewayVars, consumerVars, bookingVars
<1>5. HeardIsShown'
  <2> SUFFICES ASSUME faults = 0, NEW d \in Commands, row'[d] = "Published", ~ overtaken'[d]
               PROVE  /\ OutcomeHeard(d) => isTerminalStatus(status'[d])
                      /\ isTerminalStatus(status'[d]) =>
                           \E e \in events : e.cmd = d /\ e.status = status'[d]
                      /\ \A e \in reading : e.cmd = d /\ ~ Terminal(e) => ~ OutcomeHeard(d)
    BY <1>1 DEF HeardIsShown, OutcomeHeard, gatewayVars, consumerVars
  <2>1. CASE d # c \/ Publish(c)
    BY <1>1, <2>1 DEF IInv, HeardIsShown, Publish
  <2>2. CASE d = c /\ MarkSent(c)
    <3>1. status'[c] = "Sent" /\ ~ OutcomeHeard(c)
      BY <2>2 DEF MarkSent, OutcomeHeard, Terminal, IInv, TypeOK
    <3> QED BY <2>2, <3>1 DEF isTerminalStatus, TERMINAL_STATUSES
  <2>3. CASE d = c /\ (Enqueue(c) \/ DeadLetter(c) \/ Replay(c))
    BY <2>3 DEF Enqueue, DeadLetter, Replay, IInv, TypeOK
  <2> QED BY <2>1, <2>2, <2>3
<1>6. BookingFollowsCommands'
  <2>1. \A d \in Commands : status'[d] \in {"Rejected", "Timeout", "Duplicate"} => status'[d] = status[d]
    BY <1>1 DEF IInv, TypeOK, Enqueue, Publish, MarkSent, DeadLetter, Replay
  <2> QED BY <1>1, <2>1, PipelineAssumption
          DEF IInv, BookingFollowsCommands, consumerVars, bookingVars
<1> QED BY <1>2, <1>3, <1>4, <1>5, <1>6 DEF IInv

LEMMA EmitPreserves ==
  ASSUME IInv, NEW e \in Event, Emit(e)
  PROVE  IInv'
<1>1. /\ UNCHANGED <<row, copies, status, consumed, recorded, reading, booking,
                     cancelledBy, overtaken, faults>>
      /\ events' = events \cup {e} /\ e.copy <= copies[e.cmd]
      /\ Terminal(e) =>
           \A d \in events : d.cmd = e.cmd /\ d.copy = e.copy => ~ Terminal(d)
  BY DEF Emit, Terminal, deliveryVars, consumerVars, bookingVars
<1>2. TypeOK'
  BY <1>1 DEF IInv, TypeOK
<1>3. OneOutcomePerCopy'
  BY <1>1 DEF IInv, OneOutcomePerCopy, Terminal
<1>4. CancelledByEvents' /\ HandledInTurn' /\ BookingFollowsCommands'
  BY <1>1 DEF IInv, CancelledByEvents, HandledInTurn, BookingFollowsCommands
<1>5. HeardIsShown'
  BY <1>1 DEF IInv, HeardIsShown, OutcomeHeard
<1> QED BY <1>2, <1>3, <1>4, <1>5 DEF IInv

(* An event that is passed over: while there are no faults, its outcome is there already,  *)
(* or another one is.                                                                    *)
LEMMA SkipPreserves ==
  ASSUME IInv, NEW e \in events, SkipEvent(e)
  PROVE  IInv'
<1>1. /\ UNCHANGED <<row, copies, status, events, recorded, reading, booking,
                     cancelledBy, overtaken, faults>>
      /\ consumed' = consumed \cup {e} /\ e \notin consumed
      /\ Ignores(e) /\ \A d \in reading : d.cmd # e.cmd
  BY DEF SkipEvent, InHand, deliveryVars, gatewayVars, bookingVars
<1>2. TypeOK'
  BY <1>1 DEF IInv, TypeOK
<1>3. OneOutcomePerCopy' /\ CancelledByEvents' /\ BookingFollowsCommands'
  BY <1>1 DEF IInv, OneOutcomePerCopy, CancelledByEvents, BookingFollowsCommands
<1>4. HandledInTurn'
  BY <1>1 DEF IInv, HandledInTurn
<1>5. HeardIsShown'
  <2>1. ASSUME faults = 0, Terminal(e)
        PROVE  isTerminalStatus(status[e.cmd])
    <3>1. e \in Event /\ e \notin recorded
      BY <1>1, <2>1 DEF IInv, TypeOK, HandledInTurn
    <3>2. status[e.cmd] \in {"None"} \cup CommandStatuses
      BY <3>1, EventStatuses DEF IInv, TypeOK
    <3> QED BY <1>1, <2>1, <3>1, <3>2, OutcomesAdvance DEF Ignores, Terminal, isTerminalStatus
  <2> QED BY <1>1, <2>1 DEF IInv, HeardIsShown, OutcomeHeard
<1> QED BY <1>2, <1>3, <1>4, <1>5 DEF IInv

LEMMA ReadPreserves ==
  ASSUME IInv, NEW e \in events, ReadCommand(e)
  PROVE  IInv'
<1>1. /\ UNCHANGED <<row, copies, status, events, consumed, recorded, booking,
                     cancelledBy, overtaken>>
      /\ reading' = reading \cup {e} /\ e \notin consumed \cup reading
      /\ ~ Ignores(e)
      /\ faults' \in 0..MaxFaults
      /\ faults' = 0 => faults = 0 /\ \A d \in reading : d.cmd # e.cmd
  BY PipelineAssumption DEF ReadCommand, InHand, Fault, IInv, TypeOK, deliveryVars, gatewayVars, bookingVars
<1>2. TypeOK'
  BY <1>1 DEF IInv, TypeOK
<1>3. OneOutcomePerCopy' /\ CancelledByEvents' /\ BookingFollowsCommands'
  BY <1>1 DEF IInv, OneOutcomePerCopy, CancelledByEvents, BookingFollowsCommands
<1>4. HandledInTurn'
  BY <1>1 DEF IInv, HandledInTurn
<1>5. HeardIsShown'
  <2>1. ASSUME ~ Terminal(e) PROVE ~ isTerminalStatus(status[e.cmd])
    <3>1. e \in Event
      BY DEF IInv, TypeOK
    <3>2. Advances(status[e.cmd], e.status) /\ status[e.cmd] \in {"None"} \cup CommandStatuses
      BY <1>1, <3>1, EventStatuses DEF Ignores, IInv, TypeOK
    <3> QED BY <2>1, <3>2 DEF Advances, Terminal, isTerminalStatus, CommandStatuses
  <2> QED BY <1>1, <2>1 DEF IInv, HeardIsShown, OutcomeHeard
<1> QED BY <1>2, <1>3, <1>4, <1>5 DEF IInv

(* The write: an outcome is final whatever was there, and anything less is written only  *)
(* by a handler that has heard of no outcome.                                          *)
LEMMA ReconcilePreserves ==
  ASSUME IInv, NEW e \in events, Reconcile(e)
  PROVE  IInv'
<1>1. /\ UNCHANGED <<row, copies, events, overtaken, faults>>
      /\ e \in reading /\ status' = [status EXCEPT ![e.cmd] = e.status]
      /\ recorded' = recorded \cup {e} /\ reading' = reading \ {e}
      /\ consumed' = consumed \cup {e}
      /\ IF CancelsBooking(e.cmd, e.status)
         THEN booking' = "CANCELLED" /\ cancelledBy' = cancelledBy \cup {e.cmd}
         ELSE booking' = booking /\ cancelledBy' = cancelledBy
  BY DEF Reconcile, deliveryVars, gatewayVars, bookingVars
<1>2. e \in Event /\ e.cmd \in Commands /\ e.status \in CommandStatuses \ {"Queued"}
  BY EventStatuses DEF IInv, TypeOK
<1>3. TypeOK'
  BY <1>1, <1>2 DEF IInv, TypeOK
<1>4. OneOutcomePerCopy' /\ CancelledByEvents'
  BY <1>1 DEF IInv, OneOutcomePerCopy, CancelledByEvents
<1>5. HandledInTurn'
  BY <1>1 DEF IInv, HandledInTurn
<1>6. HeardIsShown'
  <2> SUFFICES ASSUME faults = 0, NEW c \in Commands, row[c] = "Published", ~ overtaken[c]
               PROVE  /\ OutcomeHeard(c)' => isTerminalStatus(status'[c])
                      /\ isTerminalStatus(status'[c]) =>
                           \E d \in events : d.cmd = c /\ d.status = status'[c]
                      /\ \A d \in reading' : d.cmd = c /\ ~ Terminal(d) => ~ OutcomeHeard(c)'
    BY <1>1 DEF HeardIsShown
  <2>1. CASE c # e.cmd
    BY <1>1, <2>1 DEF IInv, TypeOK, HeardIsShown, OutcomeHeard
  <2>2. CASE c = e.cmd
    <3>1. status'[c] = e.status
      BY <1>1, <2>2 DEF IInv, TypeOK
    <3>2. \A d \in reading' : d.cmd # c
      BY <1>1, <2>2 DEF IInv, HandledInTurn
    <3>3. OutcomeHeard(c)' => Terminal(e)
      BY <1>1, <2>2 DEF IInv, HeardIsShown, OutcomeHeard
    <3> QED BY <2>2, <3>1, <3>2, <3>3 DEF Terminal
  <2> QED BY <2>1, <2>2
<1>7. BookingFollowsCommands'
  <2>1. ASSUME NEW c \in ReserveNow, status'[c] \in {"Rejected", "Timeout", "Duplicate"}
        PROVE  booking' = "CANCELLED"
    <3>1. c \in Commands
      BY PipelineAssumption
    <3> QED BY <1>1, <2>1, <3>1 DEF IInv, TypeOK, BookingFollowsCommands, CancelsBooking
  <2>2. CASE CancelsBooking(e.cmd, e.status)
    BY <1>1, <2>1, <2>2 DEF BookingFollowsCommands, CancelsBooking, isTerminalStatus,
                            TERMINAL_STATUSES
  <2>3. CASE ~ CancelsBooking(e.cmd, e.status)
    BY <1>1, <2>1, <2>3 DEF IInv, BookingFollowsCommands
  <2> QED BY <2>2, <2>3
<1> QED BY <1>3, <1>4, <1>5, <1>6, <1>7 DEF IInv

(* A lost or redelivered event is a fault, after which nothing is said of turns.        *)
LEMMA FaultPreserves ==
  ASSUME IInv, NEW e \in events, LoseEvent(e) \/ Redeliver(e)
  PROVE  IInv'
<1>1. /\ UNCHANGED <<row, copies, status, events, recorded, booking, cancelledBy,
                     overtaken>>
      /\ reading' = reading \ {e} /\ consumed' \subseteq events
      /\ faults' \in 0..MaxFaults /\ faults' # 0
  BY PipelineAssumption DEF LoseEvent, Redeliver, Fault, IInv, TypeOK, deliveryVars, gatewayVars, bookingVars
<1>2. TypeOK'
  BY <1>1 DEF IInv, TypeOK
<1>3. OneOutcomePerCopy' /\ CancelledByEvents' /\ BookingFollowsCommands'
  BY <1>1 DEF IInv, OneOutcomePerCopy, CancelledByEvents, BookingFollowsCommands
<1>4. HandledInTurn' /\ HeardIsShown'
  BY <1>1 DEF HandledInTurn, HeardIsShown
<1> QED BY <1>2, <1>3, <1>4 DEF IInv

\* The inductive invariant of the pipeline holds in every reachable state.
THEOREM Invariance == Spec => []IInv
<1>1. IInv /\ [Next]_vars => IInv'
  <2>1. CASE UNCHANGED vars
    BY <2>1 DEF vars, deliveryVars, gatewayVars, consumerVars, bookingVars, IInv, TypeOK,
                OneOutcomePerCopy, CancelledByEvents, HandledInTurn, HeardIsShown, OutcomeHeard,
                BookingFollowsCommands
  <2> QED BY <2>1, DeliveryPreserves, EmitPreserves, SkipPreserves, ReadPreserves,
             ReconcilePreserves, FaultPreserves DEF Next, Consume
<1> QED BY <1>1, IInvInit, PTL DEF Spec

\* Every variable of the pipeline keeps its type.
THEOREM TypeCorrect == Spec => []TypeOK
  BY Invariance, PTL DEF IInv

\* A refused reservation has cancelled its booking, and only a recorded refusal or an
\* accepted cancellation cancels it (syncBookingReservationState runs in reconcileEvent's
\* transaction).
THEOREM BookingAgrees == Spec => []BookingFollowsCommands
  BY Invariance, PTL DEF IInv

\* A reservation that was sent once and accepted keeps its booking.
THEOREM AcceptedStands == Spec => []AcceptedKeepsBooking
<1>1. IInv => AcceptedKeepsBooking
  <2> SUFFICES ASSUME IInv, NEW c \in ReserveNow, copies[c] = 1, "Accepted" \in OutcomesOf(c),
                      c \in cancelledBy
               PROVE  FALSE
    BY DEF AcceptedKeepsBooking
  <2>1. PICK d \in events : d.cmd = c /\ d.status = "Accepted"
    BY DEF OutcomesOf
  <2>2. PICK e \in events : e.cmd = c /\ CancelsBooking(c, e.status)
    BY DEF IInv, CancelledByEvents
  <2>3. Terminal(d) /\ Terminal(e) /\ e.status # "Accepted"
    BY <2>1, <2>2, PipelineAssumption DEF CancelsBooking, Terminal, isTerminalStatus,
                                          TERMINAL_STATUSES
  <2>4. d.copy = 1 /\ e.copy = 1
    BY <2>1, <2>2, EventStatuses, PipelineAssumption DEF IInv, TypeOK, OneOutcomePerCopy
  <2> QED BY <2>1, <2>2, <2>3, <2>4 DEF IInv, OneOutcomePerCopy
<1> QED BY <1>1, Invariance, PTL

\* When everything was consumed and nothing went wrong a command shows an outcome that
\* its gateway reported, unless the worker's 'Sent' overtook it.
THEOREM ShowsAnOutcome == Spec => []OutcomeIsShown
<1>1. IInv => OutcomeIsShown
  <2> SUFFICES ASSUME IInv, NEW c \in Commands, Quiet(c), ~ overtaken[c], faults = 0,
                      OutcomesOf(c) # {}
               PROVE  status[c] \in OutcomesOf(c)
    BY DEF OutcomeIsShown
  <2>1. PICK e \in events : e.cmd = c /\ Terminal(e)
    BY DEF OutcomesOf, Terminal
  <2>2. OutcomeHeard(c)
    BY <2>1 DEF Quiet, OutcomeHeard
  <2>3. isTerminalStatus(status[c]) /\ \E d \in events : d.cmd = c /\ d.status = status[c]
    BY <2>2 DEF IInv, HeardIsShown, Quiet
  <2> QED BY <2>3 DEF OutcomesOf
<1> QED BY <1>1, Invariance, PTL
=============================================================================
