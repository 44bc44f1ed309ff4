----------------------- MODULE BookingLifecycleProofs -----------------------
(***************************************************************************)
(* Proofs about BookingLifecycle, for any number of calls and commands and *)
(* any set of outcomes.                                                    *)
(***************************************************************************)
EXTENDS BookingLifecycle, TLAPS

\* What a call remembers is true of the rows: its command exists, and it goes on to
\* write only what it saw open.
Remembers(c) ==
  /\ c.cmd \in 0..Len(commands)
  /\ c.at = "enqueue" => c.cmd = 0
  /\ c.at = "write" /\ c.op = "result" => c.cmd # 0 /\ c.outcome # "none"
  /\ c.at = "write" /\ c.op # "result" => Mutable(c.seen)

CallsRemember == \A r \in Calls : Remembers(calls[r])

\* Nobody but the outbox worker writes a status that was not reported.
ReportedUnlessOverwritten ==
  \A c \in DOMAIN commands :
    LET command == commands[c]
    IN  ~command.overwritten => \/ command.status = command.reported
                                \/ command.status = "Queued" /\ command.reported = "none"

\* The booking shows what was reported last of its command, or that it was queued.
ShownWasReported ==
  shown.cmd # 0 =>
    /\ shown.cmd \in DOMAIN commands
    /\ shown.status \in CommandStatuses
    /\ shown.status \in {"Queued", commands[shown.cmd].reported}

IInv == TypeOK /\ CallsRemember /\ ReportedUnlessOverwritten /\ ShownWasReported

(* The outcomes of a command are statuses. *)
LEMMA OutcomesAreStatuses ==
  /\ OcpiOutcomes \subseteq Outcomes /\ Outcomes \subseteq CommandStatuses
  /\ "none" \notin CommandStatuses /\ "Queued" \in CommandStatuses
  /\ \A s \in OcpiOutcomes : s \in CommandStatuses
  BY BookingAssumption DEF OcpiOutcomes, StatusOfEvent, CommandStatuses, TERMINAL_STATUSES

LEMMA IInvInit == Init => IInv
<1> SUFFICES ASSUME Init PROVE IInv
  OBVIOUS
<1>1. Idle \in CallRecord
  BY BookingAssumption DEF Idle, Call, CallRecord
<1>2. commands \in Seq(CommandRow) /\ Len(commands) = 0
  BY DEF Init
<1>3. status \in BookingStatus \cup {"NONE"} /\ overdue \in BOOLEAN
      /\ calls \in [Calls -> CallRecord]
  BY <1>1 DEF Init
<1>4. shown \in [cmd : 0..MaxCommands, status : CommandStatuses \cup {"none", "DispatchFailed"}]
  BY BookingAssumption DEF Init
<1>5. TypeOK
  BY <1>2, <1>3, <1>4, BookingAssumption DEF TypeOK
<1> QED BY <1>2, <1>5 DEF Init, IInv, CallsRemember, Remembers, ReportedUnlessOverwritten, ShownWasReported, Idle, Call

(* A step that leaves booking and commands alone, and changes one call to c, *)
(* needs only look at c.                                                     *)
LEMMA CallMoves ==
  ASSUME IInv, UNCHANGED <<status, overdue, shown, commands>>, NEW r \in Calls, NEW c \in CallRecord,
         calls' = [calls EXCEPT ![r] = c], Remembers(c)
  PROVE  IInv'
  BY DEF IInv, TypeOK, CallsRemember, Remembers, ReportedUnlessOverwritten, ShownWasReported

(* A call that ends takes nothing with it. *)
LEMMA FinishTypes ==
  ASSUME IInv, NEW r \in Calls, Finish(r)
  PROVE  /\ calls' \in [Calls -> CallRecord]
         /\ \A q \in Calls : calls'[q] = Idle \/ calls'[q] = calls[q]
         /\ Idle.cmd = 0 /\ Idle.at = "idle"
  BY BookingAssumption DEF IInv, TypeOK, Finish, Idle, Call, CallRecord

(* Writing the booking's status, and finishing, disturbs nothing else. *)
LEMMA StatusPreserves ==
  ASSUME IInv, NEW r \in Calls, Finish(r), status' \in BookingStatus, overdue' \in BOOLEAN,
         UNCHANGED <<shown, commands>>
  PROVE  IInv'
  BY FinishTypes DEF IInv, TypeOK, CallsRemember, Remembers, ReportedUnlessOverwritten, ShownWasReported

LEMMA ReadBookingPreserves ==
  ASSUME IInv, NEW r \in Calls, ReadBooking(r)
  PROVE  IInv'
<1>1. PICK op \in Operations \ {"create", "result"} :
        /\ Admits(op)
        /\ calls' = [calls EXCEPT ![r] =
             IF op \in {"dispatchReserve", "dispatchCancel"}
             THEN Call(op, "enqueue", "NONE", 0, "none")
             ELSE Call(op, "write", status, 0, "none")]
  BY DEF ReadBooking
<1>2. UNCHANGED <<status, overdue, shown, commands>> /\ status \in BookingStatus
      /\ Len(commands) \in Nat
  BY DEF ReadBooking, IInv, TypeOK
<1>3. CASE op \in {"dispatchReserve", "dispatchCancel"}
  <2> DEFINE c == Call(op, "enqueue", "NONE", 0, "none")
  <2>1. c \in CallRecord /\ c.at = "enqueue" /\ c.cmd = 0
    BY BookingAssumption DEF Call, CallRecord
  <2>2. calls' = [calls EXCEPT ![r] = c]
    BY <1>1, <1>3
  <2> HIDE DEF c
  <2>3. Remembers(c)
    BY <1>2, <2>1 DEF Remembers
  <2> QED BY <1>2, <2>1, <2>2, <2>3, CallMoves
<1>4. CASE op \notin {"dispatchReserve", "dispatchCancel"}
  <2> DEFINE c == Call(op, "write", status, 0, "none")
  <2>1. c \in CallRecord
    BY <1>2, BookingAssumption DEF Call, CallRecord
  <2>2. Mutable(status)
    BY <1>1, <1>4 DEF Admits, Mutable
  <2>3. c.op # "result" /\ c.at = "write" /\ c.cmd = 0 /\ c.seen = status
    BY DEF Call, Operations
  <2>4. calls' = [calls EXCEPT ![r] = c]
    BY <1>1, <1>4
  <2> HIDE DEF c
  <2>5. Remembers(c)
    BY <1>2, <2>2, <2>3 DEF Remembers
  <2> QED BY <1>2, <2>1, <2>4, <2>5, CallMoves
<1> QED BY <1>3, <1>4

LEMMA ReadResultPreserves ==
  ASSUME IInv, NEW r \in Calls, ReadResult(r)
  PROVE  IInv'
<1>1. PICK k \in DOMAIN commands, s \in OcpiOutcomes :
        calls' = [calls EXCEPT ![r] = Call("result", "write", "NONE", k, s)]
  BY DEF ReadResult
<1>2. UNCHANGED <<status, overdue, shown, commands>> /\ k \in 1..Len(commands)
      /\ Len(commands) \in 0..MaxCommands
  BY <1>1 DEF ReadResult, IInv, TypeOK
<1> DEFINE c == Call("result", "write", "NONE", k, s)
<1>3. c \in CallRecord
  BY <1>2, BookingAssumption DEF Call, CallRecord, Operations
<1>4. c.at = "write" /\ c.op = "result" /\ c.cmd = k /\ c.outcome = s /\ s # "none"
  BY OutcomesAreStatuses DEF Call
<1>5. calls' = [calls EXCEPT ![r] = c]
  BY <1>1
<1> HIDE DEF c
<1>6. Remembers(c)
  BY <1>2, <1>4 DEF Remembers
<1> QED BY <1>2, <1>3, <1>5, <1>6, CallMoves

LEMMA EnqueuePreserves ==
  ASSUME IInv, NEW r \in Calls, EnqueueCommand(r)
  PROVE  IInv'
<1>1. UNCHANGED <<status, overdue, shown>> /\ Len(commands) \in 0..MaxCommands
      /\ calls[r].cmd = 0 /\ calls[r] \in CallRecord
  BY BookingAssumption DEF EnqueueCommand, IInv, TypeOK, CallsRemember, Remembers
<1>2. CASE UNCHANGED commands /\ calls' = [calls EXCEPT ![r].at = "apply"]
  BY <1>1, <1>2 DEF IInv, TypeOK, CallsRemember, Remembers, ReportedUnlessOverwritten, ShownWasReported, CallRecord
<1>3. ASSUME NEW row \in CommandRow, Len(commands) < MaxCommands,
             row.status = "Queued", row.reported = "none",
             commands' = Append(commands, row),
             calls' = [calls EXCEPT ![r] = Call(calls[r].op, "apply", "NONE", Len(commands) + 1, "none")]
      PROVE  IInv'
  <2>1. /\ commands' \in Seq(CommandRow) /\ Len(commands') = Len(commands) + 1
        /\ \A k \in 1..Len(commands) : commands'[k] = commands[k]
    BY <1>3 DEF IInv, TypeOK
  <2> DEFINE c == Call(calls[r].op, "apply", "NONE", Len(commands) + 1, "none")
  <2>2. c \in CallRecord /\ c.at = "apply" /\ c.cmd = Len(commands) + 1
    BY <1>1, <1>3, BookingAssumption DEF Call, CallRecord
  <2> HIDE DEF c
  <2>3. calls' = [calls EXCEPT ![r] = c]
    BY <1>3 DEF c
  <2>4. TypeOK'
    BY <1>1, <1>3, <2>1, <2>2, <2>3, BookingAssumption DEF IInv, TypeOK
  <2>5. CallsRemember'
    BY <1>1, <2>1, <2>2, <2>3 DEF IInv, TypeOK, CallsRemember, Remembers
  <2>6. ShownWasReported'
    BY <1>1, <2>1 DEF IInv, TypeOK, ShownWasReported
  <2>7. commands'[Len(commands) + 1] = row /\ DOMAIN commands' = 1..(Len(commands) + 1)
    BY <1>1, <1>3, <2>1 DEF IInv, TypeOK
  <2>8. ReportedUnlessOverwritten'
    BY <1>1, <1>3, <2>1, <2>7 DEF IInv, TypeOK, ReportedUnlessOverwritten
  <2> QED BY <2>4, <2>5, <2>6, <2>8 DEF IInv
<1>4. \A type \in {"ReserveNow", "CancelReservation"} :
        [type |-> type, status |-> "Queued", reported |-> "none", overwritten |-> FALSE]
          \in CommandRow
  BY OutcomesAreStatuses DEF CommandRow
<1> QED BY <1>2, <1>3, <1>4 DEF EnqueueCommand

LEMMA ApplyPreserves ==
  ASSUME IInv, NEW r \in Calls, ApplyCommandState(r)
  PROVE  IInv'
<1>1. /\ shown'.cmd = calls[r].cmd
      /\ shown'.status \in {"DispatchFailed", "Queued"}
      /\ calls[r].cmd # 0 => shown'.status = "Queued"
      /\ shown' \in [cmd : 0..MaxCommands,
                     status : CommandStatuses \cup {"none", "DispatchFailed"}]
  BY OutcomesAreStatuses DEF ApplyCommandState, IInv, TypeOK, CallRecord
<1>2. calls[r].cmd \in 0..Len(commands) /\ Len(commands) \in Nat
      /\ Finish(r) /\ UNCHANGED <<status, overdue, commands>>
  BY DEF ApplyCommandState, IInv, TypeOK, CallsRemember, Remembers
<1> QED BY <1>1, <1>2, FinishTypes DEF IInv, TypeOK, CallsRemember, Remembers, ReportedUnlessOverwritten, ShownWasReported

(* A command's row is written, and calls at most end: what calls remember stays true. *)
LEMMA CommandWritten ==
  ASSUME IInv, NEW k \in DOMAIN commands, NEW row \in CommandRow,
         commands' = [commands EXCEPT ![k] = row],
         \/ UNCHANGED calls
         \/ \E r \in Calls : Finish(r)
  PROVE  /\ commands' \in Seq(CommandRow) /\ Len(commands') = Len(commands)
         /\ Len(commands) \in 0..MaxCommands /\ k \in 1..Len(commands)
         /\ DOMAIN commands' = DOMAIN commands /\ commands'[k] = row
         /\ \A c \in DOMAIN commands : c # k => commands'[c] = commands[c]
         /\ calls' \in [Calls -> CallRecord]
         /\ CallsRemember'
<1>1. /\ commands' \in Seq(CommandRow) /\ Len(commands') = Len(commands)
      /\ Len(commands) \in 0..MaxCommands /\ k \in 1..Len(commands)
      /\ DOMAIN commands' = DOMAIN commands /\ commands'[k] = row
      /\ \A c \in DOMAIN commands : c # k => commands'[c] = commands[c]
  BY BookingAssumption DEF IInv, TypeOK
<1>2. /\ calls' \in [Calls -> CallRecord]
      /\ \A q \in Calls : calls'[q] = Idle \/ calls'[q] = calls[q]
      /\ Idle.cmd = 0 /\ Idle.at = "idle"
  BY FinishTypes DEF IInv, TypeOK, Idle, Call
<1>3. CallsRemember'
  BY <1>1, <1>2 DEF IInv, CallsRemember, Remembers
<1> QED BY <1>1, <1>2, <1>3

(* The outcome of a command and what the booking shows are written together. *)
LEMMA OutcomePreserves ==
  ASSUME IInv, NEW k \in DOMAIN commands, NEW s \in CommandStatuses, WriteOutcome(k, s),
         UNCHANGED overdue,
         \/ UNCHANGED calls
         \/ \E r \in Calls : Finish(r)
  PROVE  IInv'
<1> DEFINE row == [commands[k] EXCEPT !.status = s, !.reported = s, !.overwritten = FALSE]
<1>1. row \in CommandRow /\ row.status = s /\ row.reported = s
  <2>1. commands[k] \in CommandRow
    BY DEF IInv, TypeOK
  <2> QED BY <2>1 DEF CommandRow
<1>2. commands' = [commands EXCEPT ![k] = row]
  BY DEF WriteOutcome
<1>3. shown' = [cmd |-> k, status |-> s] /\ status' \in {"CANCELLED", status}
  BY DEF WriteOutcome, SyncBooking
<1> HIDE DEF row
<1>4. /\ commands' \in Seq(CommandRow) /\ Len(commands') = Len(commands)
      /\ Len(commands) \in 0..MaxCommands /\ k \in 1..Len(commands)
      /\ DOMAIN commands' = DOMAIN commands /\ commands'[k] = row
      /\ \A c \in DOMAIN commands : c # k => commands'[c] = commands[c]
      /\ calls' \in [Calls -> CallRecord]
      /\ CallsRemember'
  BY <1>1, <1>2, CommandWritten
<1>5. TypeOK'
  <2>1. shown' \in [cmd : 0..MaxCommands, status : CommandStatuses \cup {"none", "DispatchFailed"}]
    BY <1>3, <1>4, BookingAssumption
  <2>2. status' \in BookingStatus \cup {"NONE"}
    BY <1>3 DEF IInv, TypeOK, BookingStatus
  <2> QED BY <1>4, <2>1, <2>2 DEF IInv, TypeOK
<1>6. ShownWasReported'
  BY <1>1, <1>3, <1>4 DEF ShownWasReported
<1>7. ReportedUnlessOverwritten'
  BY <1>1, <1>4 DEF IInv, ReportedUnlessOverwritten
<1> QED BY <1>4, <1>5, <1>6, <1>7 DEF IInv

(* The outbox worker's writes leave the booking with what the command showed before. *)
LEMMA OutboxWritePreserves ==
  ASSUME IInv, NEW k \in DOMAIN commands, NEW s \in {"Sent", "Failed", "Queued"},
         OutboxWrites(k, s)
  PROVE  IInv'
<1> DEFINE row == [commands[k] EXCEPT !.status = s, !.overwritten = TRUE]
<1>1. row \in CommandRow /\ row.overwritten = TRUE /\ row.reported = commands[k].reported
  <2>1. commands[k] \in CommandRow /\ s \in CommandStatuses
    BY DEF IInv, TypeOK, CommandStatuses, TERMINAL_STATUSES
  <2> QED BY <2>1 DEF CommandRow
<1>2. commands' = [commands EXCEPT ![k] = row] /\ UNCHANGED <<status, overdue, shown, calls>>
  BY DEF OutboxWrites
<1> HIDE DEF row
<1>3. /\ commands' \in Seq(CommandRow) /\ Len(commands') = Len(commands)
      /\ Len(commands) \in 0..MaxCommands
      /\ DOMAIN commands' = DOMAIN commands /\ commands'[k] = row
      /\ \A c \in DOMAIN commands : c # k => commands'[c] = commands[c]
      /\ calls' \in [Calls -> CallRecord]
      /\ CallsRemember'
  BY <1>1, <1>2, CommandWritten
<1>4. TypeOK'
  BY <1>2, <1>3 DEF IInv, TypeOK
<1>5. ShownWasReported'
  BY <1>1, <1>2, <1>3 DEF IInv, ShownWasReported
<1>6. ReportedUnlessOverwritten'
  BY <1>1, <1>3 DEF IInv, ReportedUnlessOverwritten
<1> QED BY <1>3, <1>4, <1>5, <1>6 DEF IInv

LEMMA IInvStep == IInv /\ [Next]_vars => IInv'
<1> SUFFICES ASSUME IInv, [Next]_vars PROVE IInv'
  OBVIOUS
<1>1. ASSUME NEW r \in Calls, Create(r) PROVE IInv'
  <2> DEFINE c == Call("create", "enqueue", "NONE", 0, "none")
  <2>1. c \in CallRecord /\ c.at = "enqueue" /\ c.cmd = 0
    BY BookingAssumption DEF Call, CallRecord, Operations
  <2>2. calls' = [calls EXCEPT ![r] = c] /\ status' = "PENDING" /\ UNCHANGED <<overdue, shown, commands>>
    BY <1>1 DEF Create
  <2> HIDE DEF c
  <2> QED BY <2>1, <2>2 DEF IInv, TypeOK, CallsRemember, Remembers, ReportedUnlessOverwritten, ShownWasReported, BookingStatus
<1>2. ASSUME NEW r \in Calls, CancelWrites(r) PROVE IInv'
  <2> DEFINE c == Call("cancel", "enqueue", "NONE", 0, "none")
  <2>1. c \in CallRecord /\ c.at = "enqueue" /\ c.cmd = 0
    BY BookingAssumption DEF Call, CallRecord, Operations
  <2>2. calls' = [calls EXCEPT ![r] = c] /\ status' = "CANCELLED" /\ UNCHANGED <<overdue, shown, commands>>
    BY <1>2 DEF CancelWrites
  <2> HIDE DEF c
  <2> QED BY <2>1, <2>2 DEF IInv, TypeOK, CallsRemember, Remembers, ReportedUnlessOverwritten, ShownWasReported, BookingStatus
<1>3. ASSUME NEW r \in Calls,
             \/ CheckinWrites(r) \/ MarkNoShowWrites(r) \/ ExpireWrites(r)
             \/ UpdateWrites(r) \/ ExpireOverdueWrites(r)
      PROVE  IInv'
  BY <1>3, StatusPreserves
     DEF CheckinWrites, MarkNoShowWrites, ExpireWrites, UpdateWrites, ExpireOverdueWrites,
         BookingStatus, IInv, TypeOK
<1>4. ASSUME NEW r \in Calls, Abort(r) PROVE IInv'
  BY <1>4, FinishTypes DEF Abort, IInv, TypeOK, CallsRemember, Remembers, ReportedUnlessOverwritten, ShownWasReported
<1>5. ASSUME NEW r \in Calls, WriteResult(r) PROVE IInv'
  <2> DEFINE k == calls[r].cmd
             s == calls[r].outcome
  <2>1. k \in DOMAIN commands /\ s \in CommandStatuses
    BY <1>5, OutcomesAreStatuses
       DEF WriteResult, At, IInv, TypeOK, CallsRemember, Remembers, CallRecord
  <2>2. WriteOutcome(k, s) /\ UNCHANGED overdue /\ Finish(r)
    BY <1>5 DEF WriteResult
  <2> QED BY <2>1, <2>2, OutcomePreserves
<1>6. ASSUME NEW k \in DOMAIN commands, NEW s \in Outcomes, Reconcile(k, s) PROVE IInv'
  BY <1>6, OutcomePreserves, OutcomesAreStatuses DEF Reconcile
<1>7. CASE EndTimePasses
  BY <1>7 DEF EndTimePasses, IInv, TypeOK, CallsRemember, Remembers, ReportedUnlessOverwritten, ShownWasReported
<1>8. CASE UNCHANGED vars
  BY <1>8 DEF vars, IInv, TypeOK, CallsRemember, Remembers, ReportedUnlessOverwritten, ShownWasReported
<1> QED BY <1>1, <1>2, <1>3, <1>4, <1>5, <1>6, <1>7, <1>8, OutboxWritePreserves, ReadBookingPreserves,
           ReadResultPreserves, EnqueuePreserves, ApplyPreserves
           DEF Next, WriteBooking, Outcome

(* The inductive invariant holds of every order of calls and outcomes. *)
THEOREM Invariance == Spec => []IInv
  BY IInvInit, IInvStep, PTL DEF Spec

(* Every variable keeps its type. *)
THEOREM TypeCorrect == Spec => []TypeOK
<1>1. IInv => TypeOK
  BY DEF IInv
<1> QED BY <1>1, Invariance, PTL

(* The booking shows what its command shows, or that it was queued, or what was reported *)
(* of the command before the outbox worker wrote it again.                               *)
THEOREM ShowsItsCommand == Spec => []ShownFollowsCommand
<1>1. IInv => ShownFollowsCommand
  <2> SUFFICES ASSUME IInv, shown.cmd # 0 PROVE ShownFollowsCommand
    BY DEF ShownFollowsCommand
  <2> DEFINE command == commands[shown.cmd]
  <2>1. /\ shown.cmd \in DOMAIN commands
        /\ shown.status \in CommandStatuses
        /\ shown.status \in {"Queued", command.reported}
    BY DEF IInv, ShownWasReported
  <2>2. command.overwritten = TRUE \/ command.overwritten = FALSE
    BY <2>1 DEF IInv, TypeOK, CommandRow
  <2>3. CASE command.overwritten = TRUE
    BY <2>1, <2>3 DEF ShownFollowsCommand
  <2>4. CASE command.overwritten = FALSE
    <3>1. \/ command.status = command.reported
          \/ command.status = "Queued" /\ command.reported = "none"
      BY <2>1, <2>4 DEF IInv, ReportedUnlessOverwritten
    <3> QED BY <2>1, <3>1, OutcomesAreStatuses DEF ShownFollowsCommand
  <2> QED BY <2>2, <2>3, <2>4
<1> QED BY <1>1, Invariance, PTL

(* A closed booking is reopened or closed otherwise only by a call that saw it open, *)
(* or cancelled by the outcome of a command.                                         *)
THEOREM ClosedIsGuarded == Spec => ClosedChangesByRaceOnly
<1> DEFINE Guarded ==
      Closed(status) /\ status' # status =>
        \/ \E r \in Calls : /\ calls[r].at = "write" /\ calls'[r] # calls[r]
                           /\ Mutable(calls[r].seen)
        \/ commands' # commands /\ status' = "CANCELLED"
        \/ \E r \in Calls : At(r, "result", "write") /\ status' = "CANCELLED"
<1>1. IInv /\ [Next]_vars => [Guarded]_vars
  <2> SUFFICES ASSUME IInv, Next, Closed(status), status' # status PROVE Guarded
    OBVIOUS
  <2>1. ASSUME NEW r \in Calls, WriteBooking(r) PROVE Guarded
    <3>1. calls[r].at = "write" /\ calls[r].op # "result" /\ calls'[r].at # "write"
      BY <2>1 DEF WriteBooking, CancelWrites, CheckinWrites, MarkNoShowWrites, ExpireWrites,
                  UpdateWrites, ExpireOverdueWrites, At, Finish, Idle, Call, IInv, TypeOK
    <3> QED BY <3>1 DEF IInv, CallsRemember, Remembers
  <2>2. ASSUME NEW r \in Calls, WriteResult(r) PROVE Guarded
    BY <2>2 DEF WriteResult, WriteOutcome, SyncBooking
  <2>3. ASSUME NEW k \in DOMAIN commands, NEW s \in Outcomes, Reconcile(k, s) PROVE Guarded
    <3>1. status' = "CANCELLED" /\ CancelsBooking(commands[k].type, s)
      BY <2>3 DEF Reconcile, WriteOutcome, SyncBooking
    <3>2. isTerminalStatus(s)
      BY <3>1 DEF CancelsBooking, isTerminalStatus, TERMINAL_STATUSES
    <3>3. /\ commands[k].status # s
          /\ commands' = [commands EXCEPT ![k] =
                            [@ EXCEPT !.status = s, !.reported = s, !.overwritten = FALSE]]
      BY <2>3, <3>2 DEF Reconcile, WriteOutcome
    <3>4. commands[k] \in CommandRow
      BY DEF IInv, TypeOK
    <3>5. commands'[k].status = s
      BY <3>3, <3>4 DEF IInv, TypeOK, CommandRow
    <3> QED BY <3>1, <3>3, <3>5
  <2>4. ASSUME NEW r \in Calls,
               \/ ReadBooking(r) \/ EnqueueCommand(r) \/ ApplyCommandState(r) \/ ReadResult(r)
               \/ Abort(r)
        PROVE  status' = status
    BY <2>4 DEF ReadBooking, EnqueueCommand, ApplyCommandState, ReadResult, Abort
  <2>5. ASSUME NEW r \in Calls, Create(r) PROVE FALSE
    BY <2>5 DEF Create, Closed, BookingStatus
  <2> QED BY <2>1, <2>2, <2>3, <2>4, <2>5 DEF Next, Outcome, OutboxWrites, EndTimePasses
<1> QED BY <1>1, Invariance, PTL DEF Spec, ClosedChangesByRaceOnly
=============================================================================
