---------------------------- MODULE OcpiCommand ----------------------------
(***************************************************************************)
(* A command that an OCPI partner asks for under one request id: the       *)
(* endpoint that turns the request into a command (ocpi-internal           *)
(* controller and CommandsService.enqueueCommand), the endpoint that takes *)
(* results from the OCPI gateway, and the worker's callback that tells the *)
(* partner the outcome (ocpi-command-callback.service.ts).                 *)
(*                                                                         *)
(* Each writes the command's JSON payload as a whole, from a copy read     *)
(* before; of the payload the model keeps ocpi.callbackDeliveryStatus and  *)
(* ocpi.latestResult.                                                      *)
(***************************************************************************)
EXTENDS CommandStatus, SequencesExt

CONSTANTS
  Calls,        \* requests of the partner that may be in flight together
  MaxCommands,  \* bound: command rows created for the request id
  MaxAttempts,  \* OCPI_COMMAND_CALLBACK_MAX_ATTEMPTS
  MaxCopies,    \* bound: messages on the command-requests topic
  MaxFaults,    \* bound: crashes, database errors and lost answers
  Outcomes      \* bound: the outcomes that arrive; all that matters is that they are final

ASSUME BoundsAreNat ==
  /\ Outcomes \subseteq {"Accepted", "Rejected", "Failed", "Timeout"}
  /\ {MaxCommands, MaxCopies, MaxFaults} \subseteq Nat
  /\ IsFiniteSet(Calls)
  /\ MaxAttempts \in Nat \ {0}

VARIABLES
  rows,       \* the commands rows of the request id, by requestedAt
  calls,      \* what each createCommandRequest is at
  told,       \* the commands the partner was told are ACCEPTED
  delivery,   \* deliver() as the consumer awaits it
  result,     \* createCommandResult, between its read and its write
  received,   \* callbacks that reached the partner, per command
  faults

vars == <<rows, calls, told, delivery, result, received, faults>>

CallbackStates == {"none", "RETRYING", "DELIVERED", "FAILED"}
Payload == [callback : CallbackStates, latest : {"none"} \cup TERMINAL_STATUSES]

NewRow == [status |-> "Queued", box |-> "None", copies |-> 0, outcomes |-> 0,
           payload |-> [callback |-> "none", latest |-> "none"]]
NoCall == [at |-> "idle", cmd |-> 0]
NoDelivery == [at |-> "idle", cmd |-> 0, attempt |-> 0, patch |-> "none",
               copy |-> NewRow.payload]
NoResult == [at |-> "idle", cmd |-> 0, status |-> "Failed", copy |-> NewRow.payload]

CommandRow ==
  [status : CommandStatuses, box : {"None", "Queued", "Published", "DeadLettered"},
   copies : Nat, outcomes : Nat, payload : Payload]

TypeOK ==
  /\ rows \in Seq(CommandRow) /\ Len(rows) <= MaxCommands
  /\ calls \in [Calls -> [at : {"idle", "create", "outbox"}, cmd : 0..MaxCommands]]
  /\ told \subseteq 1..MaxCommands
  /\ delivery \in [at : {"idle", "check", "post", "read", "write"}, cmd : 0..MaxCommands,
                   attempt : 0..MaxAttempts, patch : CallbackStates, copy : Payload]
  /\ result \in [at : {"idle", "write"}, cmd : 0..MaxCommands,
                 status : TERMINAL_STATUSES, copy : Payload]
  /\ received \in [1..MaxCommands -> Nat]
  /\ faults \in 0..MaxFaults

Init ==
  /\ rows = <<>>
  /\ calls = [r \in Calls |-> NoCall]
  /\ told = {}
  /\ delivery = NoDelivery
  /\ result = NoResult
  /\ received = [c \in 1..MaxCommands |-> 0]
  /\ faults = 0

Fault == faults < MaxFaults /\ faults' = faults + 1

----------------------------------------------------------------------------
(* createCommandRequest.  Requests it rejects change nothing. *)

\* a command of this request id exists already: the latest one is the answer
AnswerDuplicate(r) ==
  /\ calls[r] = NoCall
  /\ rows # <<>>
  /\ told' = told \cup {Len(rows)}
  /\ UNCHANGED <<rows, calls, delivery, result, received, faults>>

\* mutant of FindNoDuplicate: only open commands count as duplicates
FindNoOpenDuplicate(r) ==
  /\ calls[r] = NoCall
  /\ \A c \in DOMAIN rows : isTerminalStatus(rows[c].status)
  /\ calls' = [calls EXCEPT ![r].at = "create"]
  /\ UNCHANGED <<rows, told, delivery, result, received, faults>>

FindNoDuplicate(r) ==
  /\ calls[r] = NoCall
  /\ rows = <<>>
  /\ calls' = [calls EXCEPT ![r].at = "create"]
  /\ UNCHANGED <<rows, told, delivery, result, received, faults>>

\* mutant of CreateCommand: the partner is answered before the outbox row is written
AnswerEarly(r) ==
  /\ calls[r].at = "create"
  /\ Len(rows) < MaxCommands
  /\ rows' = Append(rows, NewRow)
  /\ told' = told \cup {Len(rows) + 1}
  /\ calls' = [calls EXCEPT ![r] = NoCall]
  /\ UNCHANGED <<delivery, result, received, faults>>

\* enqueueCommand: command.create ...
CreateCommand(r) ==
  /\ calls[r].at = "create"
  /\ Len(rows) < MaxCommands
  /\ rows' = Append(rows, NewRow)
  /\ calls' = [calls EXCEPT ![r] = [at |-> "outbox", cmd |-> Len(rows) + 1]]
  /\ UNCHANGED <<told, delivery, result, received, faults>>

\* ... and then, in no transaction with it, commandOutbox.create
CreateOutbox(r) ==
  /\ calls[r].at = "outbox"
  /\ rows' = [rows EXCEPT ![calls[r].cmd].box = "Queued"]
  /\ told' = told \cup {calls[r].cmd}
  /\ calls' = [calls EXCEPT ![r] = NoCall]
  /\ UNCHANGED <<delivery, result, received, faults>>

CallDies(r) ==
  /\ calls[r] # NoCall
  /\ Fault
  /\ calls' = [calls EXCEPT ![r] = NoCall]
  /\ UNCHANGED <<rows, told, delivery, result, received>>

----------------------------------------------------------------------------
(* The outbox worker and the dead-letter replay (see CommandOutbox) *)

Settle(c, box, status) ==
  /\ rows' = [rows EXCEPT ![c].box = box, ![c].status = status]
  /\ UNCHANGED <<calls, told, delivery, result, received, faults>>

Copies == FoldSeq(LAMBDA row, n : row.copies + n, 0, rows)

Publish(c) ==
  /\ rows[c].box = "Queued"
  /\ Copies < MaxCopies
  /\ rows' = [rows EXCEPT ![c].copies = @ + 1]
  /\ UNCHANGED <<calls, told, delivery, result, received, faults>>

MarkSent(c)   == rows[c].box = "Queued" /\ rows[c].copies > 0 /\ Settle(c, "Published", "Sent")
DeadLetter(c) == rows[c].box = "Queued" /\ Settle(c, "DeadLettered", "Failed")
Replay(c)     == rows[c].box = "DeadLettered" /\ Settle(c, "Queued", "Queued")

----------------------------------------------------------------------------
(* The consumer of command events, which awaits deliver() *)

\* reconcileEvent records an outcome, at most one per copy of the request; events
\* that are no outcomes bring no callback and are left out
Reconcile(c, s) ==
  /\ delivery = NoDelivery
  /\ rows[c].outcomes < rows[c].copies
  /\ ~isTerminalStatus(rows[c].status)
  /\ rows' = [rows EXCEPT ![c].status = s, ![c].outcomes = @ + 1]
  /\ delivery' = [at |-> "check", cmd |-> c, attempt |-> 1, patch |-> "none",
                  copy |-> NewRow.payload]
  /\ UNCHANGED <<calls, told, result, received, faults>>

\* mutant of CheckDelivered: wasCallbackAlreadyDelivered is not asked
NeverDelivered ==
  /\ delivery.at = "check"
  /\ delivery' = [delivery EXCEPT !.at = "post"]
  /\ UNCHANGED <<rows, calls, told, result, received, faults>>

CheckDelivered ==
  /\ delivery.at = "check"
  /\ delivery' = IF rows[delivery.cmd].payload.callback = "DELIVERED"
                 THEN NoDelivery ELSE [delivery EXCEPT !.at = "post"]
  /\ UNCHANGED <<rows, calls, told, result, received, faults>>

RetryOrFail == IF delivery.attempt < MaxAttempts THEN "RETRYING" ELSE "FAILED"

Annotating(patch) == delivery' = [delivery EXCEPT !.at = "read", !.patch = patch]

Receive == received' = [received EXCEPT ![delivery.cmd] = @ + 1]

\* mutant of PostFails: a refusal is annotated like a success
RefusalIsSuccess ==
  /\ delivery.at = "post"
  /\ Annotating("DELIVERED")
  /\ UNCHANGED <<rows, calls, told, result, received, faults>>

\* the partner answers 2xx
PostSucceeds ==
  /\ delivery.at = "post"
  /\ Receive
  /\ Annotating("DELIVERED")
  /\ UNCHANGED <<rows, calls, told, result, faults>>

\* the partner refuses (for good, or 408, 425, 429, 5xx) or cannot be reached;
\* or it took the callback and its answer is lost or late
PostFails ==
  /\ delivery.at = "post"
  /\ Annotating("FAILED") \/ Annotating(RetryOrFail)
  /\ \/ UNCHANGED <<received, faults>>
     \/ Receive /\ Fault /\ delivery'.patch = RetryOrFail
  /\ UNCHANGED <<rows, calls, told, result>>

\* annotateCommandCallback reads the payload ...
ReadPayload ==
  /\ delivery.at = "read"
  /\ delivery' = [delivery EXCEPT !.at = "write", !.copy = rows[delivery.cmd].payload]
  /\ UNCHANGED <<rows, calls, told, result, received, faults>>

\* ... and writes it back with its patch; a retry goes on after a delay
Annotate ==
  /\ delivery.at = "write"
  /\ rows' = [rows EXCEPT ![delivery.cmd].payload =
                [delivery.copy EXCEPT !.callback = delivery.patch]]
  /\ delivery' = IF delivery.patch = "RETRYING"
                 THEN [delivery EXCEPT !.at = "post", !.attempt = @ + 1] ELSE NoDelivery
  /\ UNCHANGED <<calls, told, result, received, faults>>

\* a database error while annotating: within the try it counts as a failed
\* attempt, even after a 2xx; in the catch block it ends the delivery (the model
\* lets both happen at either place)
AnnotateFails ==
  /\ delivery.at \in {"read", "write"}
  /\ Fault
  /\ Annotating(RetryOrFail) \/ delivery' = NoDelivery
  /\ UNCHANGED <<rows, calls, told, result, received>>

WorkerDies ==
  /\ delivery # NoDelivery
  /\ Fault
  /\ delivery' = NoDelivery
  /\ UNCHANGED <<rows, calls, told, result, received>>

----------------------------------------------------------------------------
(* createCommandResult: the OCPI gateway reports a result for the latest    *)
(* command of the request id                                                *)

ReadForResult(s) ==
  /\ result = NoResult
  /\ rows # <<>>
  /\ LET c == Len(rows)
     IN  /\ rows[c].status # s
         /\ result' = [at |-> "write", cmd |-> c, status |-> s, copy |-> rows[c].payload]
  /\ UNCHANGED <<rows, calls, told, delivery, received, faults>>

WriteResult ==
  /\ result.at = "write"
  /\ rows' = [rows EXCEPT ![result.cmd].status = result.status,
                          ![result.cmd].payload = [result.copy EXCEPT !.latest = result.status]]
  /\ result' = NoResult
  /\ UNCHANGED <<calls, told, delivery, received, faults>>

----------------------------------------------------------------------------
Request(r) ==
  AnswerDuplicate(r) \/ FindNoDuplicate(r) \/ CreateCommand(r) \/ CreateOutbox(r) \/ CallDies(r)

Outbox(c) == Publish(c) \/ MarkSent(c) \/ DeadLetter(c) \/ Replay(c)

Deliver ==
  \/ CheckDelivered
  \/ PostSucceeds
  \/ PostFails
  \/ ReadPayload
  \/ Annotate
  \/ AnnotateFails

Next ==
  \/ \E r \in Calls : Request(r)
  \/ \E c \in DOMAIN rows : Outbox(c) \/ \E s \in Outcomes : Reconcile(c, s)
  \/ Deliver
  \/ WorkerDies
  \/ \E s \in Outcomes : ReadForResult(s)
  \/ WriteResult

Spec == Init /\ [][Next]_vars

----------------------------------------------------------------------------
(* Properties *)

\* A partner that repeats its request, after an answer or without one, gets one
\* command: only requests that overlap create more, one each at most.
OneCommandPerCall == Len(rows) <= Cardinality(Calls)

\* A command the partner was told is ACCEPTED is on its way to the charge point,
\* or about to be, unless the API died between its two writes.
AcceptedIsQueued ==
  \A c \in told :
    rows[c].box = "None" => faults > 0 \/ \E r \in Calls : calls[r].cmd = c

\* The partner hears of an outcome twice only after a crash, a database error
\* or a lost answer, or after a result from the gateway was written over the
\* record of the callback.
CallbacksNeedAFault ==
  \A c \in 1..Len(rows) : rows[c].payload.latest = "none" => received[c] <= 1 + faults

\* A callback is recorded as DELIVERED only if the partner received it.
DeliveredWasReceived ==
  \A c \in 1..Len(rows) : rows[c].payload.callback = "DELIVERED" => received[c] > 0
=============================================================================
