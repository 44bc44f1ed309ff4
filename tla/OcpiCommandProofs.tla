-------------------------- MODULE OcpiCommandProofs --------------------------
(***************************************************************************)
(* Proofs about OcpiCommand, for any number of calls, commands, copies and *)
(* attempts, any set of outcomes and any number of faults.                 *)
(***************************************************************************)
EXTENDS OcpiCommand, FiniteSetTheorems, TLAPS

\* the calls that will create a command
Creating == {r \in Calls : calls[r].at = "create"}

\* The delivery of the callback of c is at one of the places
Delivering(c, places) == delivery.cmd = c /\ delivery.at \in places

\* The partner took the callback of c and this is about to be annotated.
Taken(c) == Delivering(c, {"read", "write"}) /\ delivery.patch = "DELIVERED"

Recorded(c) == rows[c].payload.callback = "DELIVERED"

\* No result has been written over c's payload, or the next annotation removes it.
Clean(c) ==
  \/ rows[c].payload.latest = "none"
  \/ Delivering(c, {"write"}) /\ delivery.copy.latest = "none"

----------------------------------------------------------------------------
(* The parts of the inductive invariant *)

\* Whoever is at work on a command, the command exists.
CommandsExist ==
  /\ \A r \in Calls : calls[r].at = "outbox" => calls[r].cmd \in 1..Len(rows)
  /\ told \subseteq 1..Len(rows)
  /\ delivery.at # "idle" => delivery.cmd \in 1..Len(rows)
  /\ result.at = "write" => result.cmd \in 1..Len(rows)
  /\ delivery.at = "idle" => delivery = NoDelivery
  /\ result.at = "idle" => result = NoResult
  /\ \A c \in 1..MaxCommands : c > Len(rows) => received[c] = 0

\* A delivery that goes on has attempts left.
AttemptsLeft ==
  Delivering(delivery.cmd, {"read", "write"}) /\ delivery.patch = "RETRYING"
    => delivery.attempt < MaxAttempts

\* A command without an outbox row has a call that will write it, or the call died.
SomeoneQueues ==
  \A c \in 1..Len(rows) :
    rows[c].box = "None" => faults > 0 \/ \E r \in Calls : calls[r] = [at |-> "outbox", cmd |-> c]

\* Every copy of a payload that says DELIVERED was made after the partner received it.
DeliveredIsReceived ==
  \A c \in 1..Len(rows) :
    \/ Recorded(c) \/ Taken(c)
    \/ Delivering(c, {"write"}) /\ delivery.copy.callback = "DELIVERED"
    \/ result.cmd = c /\ result.copy.callback = "DELIVERED"
    => received[c] > 0

\* Of a clean command: it was received once per fault and once more if that is on
\* record or about to be; while it is being delivered that is not on record; and what
\* a result is about to write back is not older than the record.
OnRecord ==
  \A c \in 1..Len(rows) : Clean(c) =>
    /\ received[c] <= faults + (IF Recorded(c) \/ Taken(c) THEN 1 ELSE 0)
    /\ Delivering(c, {"post", "read", "write"}) => ~ Recorded(c)
    /\ result.cmd = c /\ result.copy.callback = "DELIVERED" => Recorded(c)

\* Creating calls and the commands created are together no more than the calls.
CreatorsBounded == Len(rows) + Cardinality(Creating) <= Cardinality(Calls)

IInv ==
  /\ TypeOK
  /\ CommandsExist
  /\ AttemptsLeft
  /\ SomeoneQueues
  /\ DeliveredIsReceived
  /\ OnRecord
  /\ CreatorsBounded

----------------------------------------------------------------------------
(* Facts about the data *)

LEMMA Records ==
  /\ NewRow \in CommandRow /\ NewRow.box = "None" /\ NewRow.payload.callback = "none"
  /\ NoDelivery.at = "idle" /\ NoDelivery.cmd = 0 /\ NoDelivery.patch = "none"
  /\ NoDelivery.copy.callback = "none"
  /\ NoResult.at = "idle" /\ NoResult.cmd = 0
  /\ NoCall = [at |-> "idle", cmd |-> 0]
  BY DEF NewRow, CommandRow, Payload, CallbackStates, CommandStatuses, NoDelivery, NoResult, NoCall

LEMMA OutcomesAreTerminal == Outcomes \subseteq TERMINAL_STATUSES
  BY BoundsAreNat DEF TERMINAL_STATUSES

LEMMA SetBox ==
  ASSUME NEW x \in CommandRow, NEW box \in {"None", "Queued", "Published", "DeadLettered"}
  PROVE  LET y == [x EXCEPT !.box = box]
         IN  y \in CommandRow /\ y.payload = x.payload /\ y.box = box
  BY DEF CommandRow

LEMMA AddCopy ==
  ASSUME NEW x \in CommandRow
  PROVE  LET y == [x EXCEPT !.copies = @ + 1]
         IN  y \in CommandRow /\ y.payload = x.payload /\ y.box = x.box
  BY DEF CommandRow

LEMMA SetOutcome ==
  ASSUME NEW x \in CommandRow, NEW status \in CommandStatuses,
         NEW y, y = [x EXCEPT !.status = status, !.outcomes = @ + 1]
  PROVE  y \in CommandRow /\ y.payload = x.payload /\ y.box = x.box
<1> DEFINE n == x.outcomes + 1
<1>1. n \in Nat
  BY DEF CommandRow
<1>2. y = [x EXCEPT !.status = status, !.outcomes = n]
  OBVIOUS
<1> HIDE DEF n
<1> QED BY <1>1, <1>2 DEF CommandRow

(* Writing one row leaves the others as they are. *)
LEMMA OneRow ==
  ASSUME rows \in Seq(CommandRow), NEW c \in 1..Len(rows), NEW row \in CommandRow,
         rows' = [rows EXCEPT ![c] = row]
  PROVE  /\ rows' \in Seq(CommandRow) /\ Len(rows') = Len(rows) /\ rows'[c] = row
         /\ \A d \in 1..Len(rows) : d # c => rows'[d] = rows[d]
  OBVIOUS

LEMMA IInvInit == Init => IInv
<1> SUFFICES ASSUME Init PROVE IInv
  OBVIOUS
<1>1. rows \in Seq(CommandRow) /\ Len(rows) = 0
  BY DEF Init
<1>2. TypeOK
  <2>1. delivery \in [at : {"idle", "check", "post", "read", "write"}, cmd : 0..MaxCommands,
                      attempt : 0..MaxAttempts, patch : CallbackStates, copy : Payload]
    BY BoundsAreNat DEF Init, NoDelivery, NewRow, Payload, CallbackStates
  <2>2. result \in [at : {"idle", "write"}, cmd : 0..MaxCommands,
                    status : TERMINAL_STATUSES, copy : Payload]
    BY BoundsAreNat DEF Init, NoResult, NewRow, Payload, CallbackStates, TERMINAL_STATUSES
  <2>3. calls \in [Calls -> [at : {"idle", "create", "outbox"}, cmd : 0..MaxCommands]]
    BY BoundsAreNat DEF Init, NoCall
  <2> QED BY <1>1, <2>1, <2>2, <2>3, BoundsAreNat DEF Init, TypeOK
<1>3. CreatorsBounded
  <2>1. Creating = {}
    BY DEF Init, NoCall, Creating
  <2>2. Cardinality(Creating) = 0 /\ Cardinality(Calls) \in Nat
    BY <2>1, FS_EmptySet, FS_CardinalityType, BoundsAreNat
  <2> QED BY <1>1, <2>2 DEF CreatorsBounded
<1>4. CommandsExist /\ AttemptsLeft
  BY <1>1, Records DEF Init, CommandsExist, AttemptsLeft, Delivering
<1> QED BY <1>1, <1>2, <1>3, <1>4 DEF IInv, SomeoneQueues, DeliveredIsReceived, OnRecord

LEMMA CallsAreFinite ==
  /\ Cardinality(Calls) \in Nat /\ IsFiniteSet(Creating) /\ Cardinality(Creating) \in Nat
  /\ Cardinality(Creating) <= Cardinality(Calls)
<1>1. Creating \subseteq Calls
  BY DEF Creating
<1> QED BY <1>1, FS_Subset, FS_CardinalityType, BoundsAreNat

----------------------------------------------------------------------------
(* Steps of the requests *)

(* A step that writes no payload keeps what is said of payloads. *)
LEMMA SamePayloads ==
  ASSUME IInv, NEW c \in 1..Len(rows), NEW row \in CommandRow,
         rows' = [rows EXCEPT ![c] = row], row.payload = rows[c].payload,
         UNCHANGED <<delivery, result, received, faults>>
  PROVE  /\ rows' \in Seq(CommandRow) /\ Len(rows') = Len(rows)
         /\ AttemptsLeft' /\ DeliveredIsReceived' /\ OnRecord'
<1>1. rows \in Seq(CommandRow)
  BY DEF IInv, TypeOK
<1>2. /\ rows' \in Seq(CommandRow) /\ Len(rows') = Len(rows)
      /\ \A d \in 1..Len(rows) : rows'[d].payload = rows[d].payload
  BY <1>1, OneRow
<1>3. AttemptsLeft'
  BY DEF IInv, AttemptsLeft, Delivering
<1>4. DeliveredIsReceived'
  BY <1>2 DEF IInv, DeliveredIsReceived, Recorded, Taken, Delivering
<1>5. OnRecord'
  BY <1>2 DEF IInv, OnRecord, Clean, Recorded, Taken, Delivering
<1> QED BY <1>2, <1>3, <1>4, <1>5

LEMMA StepAnswerDuplicate ==
  ASSUME IInv, NEW r \in Calls, AnswerDuplicate(r) PROVE IInv'
<1>1. Len(rows) \in 1..MaxCommands /\ rows # <<>>
  BY BoundsAreNat DEF IInv, TypeOK, AnswerDuplicate
<1>2. told' \subseteq 1..MaxCommands /\ told' \subseteq 1..Len(rows)
  <2>1. told \subseteq 1..MaxCommands /\ told \subseteq 1..Len(rows)
    BY DEF IInv, TypeOK, CommandsExist
  <2>2. Len(rows) \in 1..MaxCommands /\ Len(rows) \in 1..Len(rows)
    BY <1>1
  <2> QED BY <2>1, <2>2 DEF AnswerDuplicate
<1>3. TypeOK' /\ CommandsExist'
  BY <1>2 DEF IInv, TypeOK, CommandsExist, AnswerDuplicate
<1> QED BY <1>3 DEF IInv, AnswerDuplicate, AttemptsLeft, SomeoneQueues, DeliveredIsReceived, OnRecord,
      Clean, Recorded, Taken, Delivering, CreatorsBounded, Creating

LEMMA StepFindNoDuplicate ==
  ASSUME IInv, NEW r \in Calls, FindNoDuplicate(r) PROVE IInv'
<1>1. calls' \in [Calls -> [at : {"idle", "create", "outbox"}, cmd : 0..MaxCommands]]
  BY DEF IInv, TypeOK, FindNoDuplicate
<1>2. TypeOK'
  BY <1>1 DEF IInv, TypeOK, FindNoDuplicate
<1>3. CommandsExist' /\ SomeoneQueues'
  BY DEF IInv, TypeOK, CommandsExist, SomeoneQueues, FindNoDuplicate
<1>4. CreatorsBounded'
  <2>1. Creating' \subseteq Calls
    BY DEF Creating
  <2>2. Cardinality(Creating') <= Cardinality(Calls) /\ Cardinality(Creating') \in Nat
    BY <2>1, FS_Subset, FS_CardinalityType, BoundsAreNat
  <2> QED BY <2>2, CallsAreFinite DEF CreatorsBounded, FindNoDuplicate
<1> QED BY <1>2, <1>3, <1>4 DEF IInv, FindNoDuplicate, AttemptsLeft, DeliveredIsReceived, OnRecord,
      Clean, Recorded, Taken, Delivering

LEMMA StepCreateCommand ==
  ASSUME IInv, NEW r \in Calls, CreateCommand(r) PROVE IInv'
<1> DEFINE n == Len(rows) + 1
<1>1. rows \in Seq(CommandRow) /\ Len(rows) < MaxCommands /\ n \in 1..MaxCommands
  BY BoundsAreNat DEF IInv, TypeOK, CreateCommand
<1>2. /\ rows' \in Seq(CommandRow) /\ Len(rows') = n /\ rows'[n] = NewRow
      /\ \A c \in 1..Len(rows) : rows'[c] = rows[c]
  BY <1>1, Records DEF CreateCommand
<1>3. /\ calls \in [Calls -> [at : {"idle", "create", "outbox"}, cmd : 0..MaxCommands]]
      /\ calls' \in [Calls -> [at : {"idle", "create", "outbox"}, cmd : 0..MaxCommands]]
      /\ calls' = [calls EXCEPT ![r] = [at |-> "outbox", cmd |-> n]]
  BY <1>1 DEF IInv, TypeOK, CreateCommand
<1>n. n > Len(rows) /\ \A c \in 1..n : c \in 1..Len(rows) \/ c = n
  BY <1>1
<1> HIDE DEF n
<1>4. TypeOK'
  BY <1>1, <1>2, <1>3 DEF IInv, TypeOK, CreateCommand
<1>5. CommandsExist'
  <2>1. \A k : k \in 1..Len(rows) => k \in 1..Len(rows')
    BY <1>1, <1>2, <1>n
  <2>2. n \in 1..Len(rows') /\ \A c \in 1..MaxCommands : c > n => c > Len(rows)
    BY <1>1, <1>2, <1>n
  <2> QED BY <1>2, <1>3, <2>1, <2>2 DEF IInv, CommandsExist, CreateCommand
<1>6. SomeoneQueues'
  <2> SUFFICES ASSUME NEW c \in 1..n, rows'[c].box = "None", ~ faults > 0
               PROVE  \E k \in Calls : calls'[k] = [at |-> "outbox", cmd |-> c]
    BY <1>2 DEF SomeoneQueues, CreateCommand
  <2>1. CASE c = n
    BY <2>1, <1>3
  <2>2. CASE c \in 1..Len(rows)
    <3>1. PICK k \in Calls : calls[k] = [at |-> "outbox", cmd |-> c]
      BY <2>2, <1>2 DEF IInv, SomeoneQueues
    <3>2. k # r
      BY <3>1 DEF CreateCommand
    <3> QED BY <3>1, <3>2, <1>3
  <2> QED BY <2>1, <2>2, <1>n
<1>7. AttemptsLeft'
  BY DEF IInv, AttemptsLeft, Delivering, CreateCommand
<1>8. /\ received[n] = 0
      /\ delivery.at # "idle" => delivery.cmd # n
      /\ delivery.cmd = n => delivery.at = "idle"
      /\ result.cmd # n
  BY <1>1, <1>n, Records DEF IInv, TypeOK, CommandsExist
<1>9. DeliveredIsReceived'
  BY <1>2, <1>8, <1>n, Records DEF IInv, DeliveredIsReceived, Recorded, Taken, Delivering, CreateCommand
<1>10. OnRecord'
  <2>1. faults \in Nat
    BY BoundsAreNat DEF IInv, TypeOK
  <2>2. /\ rows'[n].payload.callback = "none" /\ received'[n] = 0
        /\ result'.cmd # n /\ ~ (delivery'.cmd = n /\ delivery'.at \in {"post", "read", "write"})
        /\ faults' = faults
    BY <1>2, <1>8, Records DEF CreateCommand
  <2>3. UNCHANGED <<delivery, result, received, faults>>
    BY DEF CreateCommand
  <2> QED BY <1>2, <1>n, <2>1, <2>2, <2>3 DEF IInv, OnRecord, Clean, Recorded, Taken, Delivering
<1>11. CreatorsBounded'
  <2>1. Creating' = Creating \ {r} /\ r \in Creating
    BY <1>3 DEF Creating, CreateCommand
  <2>2. Cardinality(Creating') = Cardinality(Creating) - 1
    BY <2>1, CallsAreFinite, FS_RemoveElement
  <2> QED BY <1>1, <1>2, <2>2, CallsAreFinite DEF n, IInv, CreatorsBounded
<1> QED BY <1>4, <1>5, <1>6, <1>7, <1>9, <1>10, <1>11 DEF IInv

(* A call that ends creates no command any more. *)
LEMMA EndingCall ==
  ASSUME IInv, NEW r \in Calls, calls' = [calls EXCEPT ![r] = NoCall], Len(rows') = Len(rows)
  PROVE  /\ calls' \in [Calls -> [at : {"idle", "create", "outbox"}, cmd : 0..MaxCommands]]
         /\ \A k \in Calls : calls'[k].at = "outbox" => calls'[k] = calls[k]
         /\ CreatorsBounded'
<1>1. calls \in [Calls -> [at : {"idle", "create", "outbox"}, cmd : 0..MaxCommands]]
  BY DEF IInv, TypeOK
<1>2. NoCall \in [at : {"idle", "create", "outbox"}, cmd : 0..MaxCommands]
  BY Records, BoundsAreNat
<1>3. \A k \in Calls : k # r => calls'[k] = calls[k]
  BY <1>1
<1>4. calls'[r] = NoCall
  BY <1>1
<1>5. Creating' \subseteq Creating
  BY <1>3, <1>4, Records DEF Creating
<1>6. Cardinality(Creating') <= Cardinality(Creating) /\ Cardinality(Creating') \in Nat
  BY <1>5, CallsAreFinite, FS_Subset, FS_CardinalityType
<1>7. Len(rows) \in Nat
  BY DEF IInv, TypeOK
<1>8. CreatorsBounded'
  BY <1>6, <1>7, CallsAreFinite DEF IInv, CreatorsBounded
<1>9. calls' \in [Calls -> [at : {"idle", "create", "outbox"}, cmd : 0..MaxCommands]]
  BY <1>1, <1>2
<1>10. \A k \in Calls : calls'[k].at = "outbox" => calls'[k] = calls[k]
  BY <1>3, <1>4, Records
<1> QED BY <1>8, <1>9, <1>10

LEMMA StepCreateOutbox ==
  ASSUME IInv, NEW r \in Calls, CreateOutbox(r) PROVE IInv'
<1> DEFINE c == calls[r].cmd
           row == [rows[c] EXCEPT !.box = "Queued"]
<1>1. c \in 1..Len(rows) /\ rows \in Seq(CommandRow)
  BY DEF IInv, TypeOK, CommandsExist, CreateOutbox
<1>2. row \in CommandRow /\ row.payload = rows[c].payload /\ row.box = "Queued"
  <2>1. rows[c] \in CommandRow
    BY <1>1
  <2> QED BY <2>1, SetBox
<1>3. rows' = [rows EXCEPT ![c] = row] /\ calls' = [calls EXCEPT ![r] = NoCall]
  BY <1>1 DEF CreateOutbox
<1>4. UNCHANGED <<delivery, result, received, faults>> /\ told' = told \cup {c}
  BY DEF CreateOutbox
<1>c. c = calls[r].cmd
  OBVIOUS
<1> HIDE DEF c, row
<1>5. /\ rows' \in Seq(CommandRow) /\ Len(rows') = Len(rows) /\ rows'[c] = row
      /\ \A d \in 1..Len(rows) : d # c => rows'[d] = rows[d]
  BY <1>1, <1>2, <1>3, OneRow
<1>6. AttemptsLeft' /\ DeliveredIsReceived' /\ OnRecord'
  BY <1>1, <1>2, <1>3, <1>4, SamePayloads
<1>7. /\ calls' \in [Calls -> [at : {"idle", "create", "outbox"}, cmd : 0..MaxCommands]]
      /\ \A k \in Calls : calls'[k].at = "outbox" => calls'[k] = calls[k]
      /\ CreatorsBounded'
  BY <1>3, <1>5, EndingCall
<1>8. told' \subseteq 1..Len(rows) /\ told' \subseteq 1..MaxCommands
  <2>1. c \in 1..MaxCommands
    BY <1>1, BoundsAreNat DEF IInv, TypeOK
  <2> QED BY <1>1, <1>4, <2>1 DEF IInv, TypeOK, CommandsExist
<1>9. TypeOK' /\ CommandsExist'
  BY <1>4, <1>5, <1>7, <1>8 DEF IInv, TypeOK, CommandsExist
<1>10. SomeoneQueues'
  <2> SUFFICES ASSUME NEW d \in 1..Len(rows), rows'[d].box = "None", ~ faults > 0
               PROVE  \E k \in Calls : calls'[k] = [at |-> "outbox", cmd |-> d]
    BY <1>4, <1>5 DEF SomeoneQueues
  <2>1. d # c /\ rows[d].box = "None"
    BY <1>2, <1>5
  <2>2. PICK k \in Calls : calls[k] = [at |-> "outbox", cmd |-> d]
    BY <2>1 DEF IInv, SomeoneQueues
  <2>3. k # r
    BY <2>1, <2>2, <1>c
  <2> QED BY <2>2, <2>3, <1>3
<1> QED BY <1>6, <1>7, <1>9, <1>10 DEF IInv

LEMMA StepCallDies ==
  ASSUME IInv, NEW r \in Calls, CallDies(r) PROVE IInv'
<1>1. UNCHANGED <<rows, told, delivery, result, received>> /\ calls' = [calls EXCEPT ![r] = NoCall]
  BY DEF CallDies
<1>2. faults \in Nat /\ faults' = faults + 1 /\ faults' \in 0..MaxFaults
  BY BoundsAreNat DEF IInv, TypeOK, CallDies, Fault
<1>3. /\ calls' \in [Calls -> [at : {"idle", "create", "outbox"}, cmd : 0..MaxCommands]]
      /\ \A k \in Calls : calls'[k].at = "outbox" => calls'[k] = calls[k]
      /\ CreatorsBounded'
  BY <1>1, EndingCall
<1>4. TypeOK' /\ CommandsExist'
  BY <1>1, <1>2, <1>3 DEF IInv, TypeOK, CommandsExist
<1>5. SomeoneQueues'
  BY <1>2 DEF SomeoneQueues
<1>6. AttemptsLeft' /\ DeliveredIsReceived'
  BY <1>1 DEF IInv, AttemptsLeft, DeliveredIsReceived, Recorded, Taken, Delivering
<1>7. OnRecord'
  <2>1. \A c \in 1..Len(rows) : received[c] \in Int
    BY BoundsAreNat DEF IInv, TypeOK
  <2> QED BY <1>1, <1>2, <2>1 DEF IInv, OnRecord, Clean, Recorded, Taken, Delivering
<1> QED BY <1>3, <1>4, <1>5, <1>6, <1>7 DEF IInv

----------------------------------------------------------------------------
(* Steps of the worker *)

LEMMA StepRow ==
  ASSUME IInv, NEW c \in 1..Len(rows), NEW row \in CommandRow,
         rows' = [rows EXCEPT ![c] = row], row.payload = rows[c].payload,
         row.box = "None" => rows[c].box = "None",
         UNCHANGED <<calls, told, delivery, result, received, faults>>
  PROVE  IInv'
<1>1. rows \in Seq(CommandRow)
  BY DEF IInv, TypeOK
<1>2. /\ rows' \in Seq(CommandRow) /\ Len(rows') = Len(rows) /\ rows'[c] = row
      /\ \A d \in 1..Len(rows) : d # c => rows'[d] = rows[d]
  BY <1>1, OneRow
<1>3. AttemptsLeft' /\ DeliveredIsReceived' /\ OnRecord'
  BY SamePayloads
<1>4. TypeOK' /\ CommandsExist'
  BY <1>2 DEF IInv, TypeOK, CommandsExist
<1>5. SomeoneQueues' /\ CreatorsBounded'
  BY <1>2 DEF IInv, SomeoneQueues, CreatorsBounded, Creating
<1> QED BY <1>3, <1>4, <1>5 DEF IInv

LEMMA StepOutbox ==
  ASSUME IInv, NEW c \in DOMAIN rows, Outbox(c) PROVE IInv'
<1>1. rows \in Seq(CommandRow) /\ c \in 1..Len(rows) /\ rows[c] \in CommandRow
  BY DEF IInv, TypeOK
<1>2. CASE Publish(c)
  <2> DEFINE row == [rows[c] EXCEPT !.copies = @ + 1]
  <2>1. row \in CommandRow /\ row.payload = rows[c].payload /\ row.box = rows[c].box
    BY <1>1, AddCopy
  <2>2. rows' = [rows EXCEPT ![c] = row] /\ UNCHANGED <<calls, told, delivery, result, received, faults>>
    BY <1>1, <1>2 DEF Publish
  <2> HIDE DEF row
  <2> QED BY <1>1, <2>1, <2>2, StepRow
<1>3. ASSUME NEW box \in {"Queued", "Published", "DeadLettered"},
             NEW status \in {"Queued", "Sent", "Failed"}, Settle(c, box, status)
      PROVE  IInv'
  <2> DEFINE row == [rows[c] EXCEPT !.box = box, !.status = status]
  <2>1. status \in CommandStatuses /\ box \in {"None", "Queued", "Published", "DeadLettered"}
    BY DEF CommandStatuses, TERMINAL_STATUSES
  <2>2. rows' = [rows EXCEPT ![c] = row] /\ UNCHANGED <<calls, told, delivery, result, received, faults>>
    BY <1>1, <1>3 DEF Settle
  <2> DEFINE x == rows[c]
  <2>3. x \in CommandRow /\ row = [x EXCEPT !.box = box, !.status = status]
    BY <1>1
  <2> HIDE DEF row, x
  <2>4. row \in CommandRow /\ row.payload = x.payload /\ row.box = box
    BY <2>1, <2>3 DEF CommandRow
  <2> QED BY <1>1, <2>1, <2>2, <2>4, StepRow DEF x
<1> QED BY <1>2, <1>3 DEF Outbox, MarkSent, DeadLetter, Replay

----------------------------------------------------------------------------
(* Steps of the delivery *)

DeliveryTypes == [at : {"idle", "check", "post", "read", "write"}, cmd : 0..MaxCommands,
                  attempt : 0..MaxAttempts, patch : CallbackStates, copy : Payload]

LEMMA DataTypes ==
  IInv => /\ delivery \in DeliveryTypes
          /\ rows \in Seq(CommandRow) /\ Len(rows) \in 0..MaxCommands
          /\ faults \in Nat
          /\ received \in [1..MaxCommands -> Nat]
          /\ \A c \in 1..Len(rows) : rows[c] \in CommandRow /\ c \in 1..MaxCommands /\ received[c] \in Nat
          /\ \A c \in 1..Len(rows) : rows[c].payload \in Payload
<1> SUFFICES ASSUME IInv PROVE DataTypes!2
  OBVIOUS
<1>1. rows \in Seq(CommandRow) /\ Len(rows) \in 0..MaxCommands /\ MaxCommands \in Nat
  BY BoundsAreNat DEF IInv, TypeOK
<1>2. \A c \in 1..Len(rows) : rows[c] \in CommandRow /\ c \in 1..MaxCommands
  BY <1>1
<1>3. \A c \in 1..Len(rows) : rows[c].payload \in Payload
  BY <1>2 DEF CommandRow
<1> QED BY <1>1, <1>2, <1>3, BoundsAreNat DEF IInv, TypeOK, DeliveryTypes

(* What a step that changes no more than the delivery, the callbacks received and
   the faults has to keep. *)
LEMMA DeliveryStep ==
  ASSUME IInv, UNCHANGED <<rows, calls, told, result>>,
         delivery' \in DeliveryTypes,
         delivery'.at = "idle" => delivery' = NoDelivery,
         delivery'.at # "idle" => delivery'.cmd \in 1..Len(rows),
         AttemptsLeft', DeliveredIsReceived', OnRecord',
         faults' \in faults..MaxFaults,
         received' = received
           \/ \E c \in 1..Len(rows) : received' = [received EXCEPT ![c] = @ + 1]
  PROVE  IInv'
<1>1. received' \in [1..MaxCommands -> Nat]
  <2>1. \A c \in 1..Len(rows) : received[c] + 1 \in Nat
    BY DataTypes
  <2> QED BY <2>1, DataTypes
<1>2. faults \in Nat /\ faults' \in 0..MaxFaults /\ (faults > 0 => faults' > 0)
  BY DataTypes, BoundsAreNat
<1>3. \A c \in 1..MaxCommands : c > Len(rows) => received'[c] = received[c]
  <2>1. CASE received' = received
    BY <2>1
  <2>2. ASSUME NEW k \in 1..Len(rows), received' = [received EXCEPT ![k] = @ + 1]
        PROVE  \A c \in 1..MaxCommands : c > Len(rows) => received'[c] = received[c]
    <3>1. \A c \in 1..MaxCommands : c > Len(rows) => c # k
      BY DataTypes
    <3> QED BY <2>2, <3>1, DataTypes
  <2> QED BY <2>1, <2>2
<1>4. TypeOK'
  BY <1>1, <1>2 DEF IInv, TypeOK, DeliveryTypes
<1>5. CommandsExist'
  BY <1>3 DEF IInv, CommandsExist
<1>6. SomeoneQueues' /\ CreatorsBounded'
  BY <1>2 DEF IInv, SomeoneQueues, CreatorsBounded, Creating
<1> QED BY <1>4, <1>5, <1>6 DEF IInv

LEMMA StepCheckDelivered ==
  ASSUME IInv, CheckDelivered PROVE IInv'
<1>1. UNCHANGED <<rows, calls, told, result, received, faults>> /\ faults' \in faults..MaxFaults
  BY DataTypes, BoundsAreNat DEF CheckDelivered, IInv, TypeOK
<1>2. delivery \in DeliveryTypes /\ delivery.at = "check" /\ delivery.cmd \in 1..Len(rows)
  BY DataTypes DEF IInv, CommandsExist, CheckDelivered
<1>3. CASE delivery' = NoDelivery
  <2>1. delivery' \in DeliveryTypes
    BY <1>3, BoundsAreNat DEF NoDelivery, NewRow, DeliveryTypes, CallbackStates, Payload
  <2>2. AttemptsLeft' /\ DeliveredIsReceived' /\ OnRecord'
    BY <1>1, <1>2, <1>3, Records DEF IInv, AttemptsLeft, DeliveredIsReceived, OnRecord,
       Clean, Recorded, Taken, Delivering
  <2> QED BY <1>1, <1>3, <2>1, <2>2, Records, DeliveryStep
<1>4. CASE delivery' = [delivery EXCEPT !.at = "post"] /\ ~ Recorded(delivery.cmd)
  <2>1. /\ delivery' \in DeliveryTypes /\ delivery'.at = "post"
        /\ delivery'.cmd = delivery.cmd /\ delivery'.patch = delivery.patch
    BY <1>2, <1>4 DEF DeliveryTypes
  <2>2. AttemptsLeft' /\ DeliveredIsReceived' /\ OnRecord'
    BY <1>1, <1>2, <1>4, <2>1, Records DEF IInv, AttemptsLeft, DeliveredIsReceived, OnRecord,
       Clean, Recorded, Taken, Delivering
  <2> QED BY <1>1, <1>2, <2>1, <2>2, Records, DeliveryStep
<1> QED BY <1>3, <1>4 DEF CheckDelivered, Recorded

LEMMA StepReadPayload ==
  ASSUME IInv, ReadPayload PROVE IInv'
<1>1. UNCHANGED <<rows, calls, told, result, received, faults>> /\ faults' \in faults..MaxFaults
  BY DataTypes, BoundsAreNat DEF ReadPayload, IInv, TypeOK
<1>2. delivery \in DeliveryTypes /\ delivery.at = "read" /\ delivery.cmd \in 1..Len(rows)
  BY DataTypes DEF IInv, CommandsExist, ReadPayload
<1> DEFINE p == rows[delivery.cmd].payload
<1>3. p \in Payload /\ p = rows[delivery.cmd].payload
  BY <1>2, DataTypes
<1>4. delivery' = [delivery EXCEPT !.at = "write", !.copy = p]
  BY DEF ReadPayload
<1> HIDE DEF p
<1>5. /\ delivery' \in DeliveryTypes /\ delivery'.at = "write" /\ delivery'.copy = p
      /\ delivery'.cmd = delivery.cmd /\ delivery'.patch = delivery.patch
      /\ delivery'.attempt = delivery.attempt
  BY <1>2, <1>3, <1>4 DEF DeliveryTypes
<1>6. AttemptsLeft'
  BY <1>2, <1>5 DEF IInv, AttemptsLeft, Delivering
<1>7. DeliveredIsReceived'
  BY <1>1, <1>2, <1>3, <1>5 DEF IInv, DeliveredIsReceived, Recorded, Taken, Delivering
<1>8. OnRecord'
  BY <1>1, <1>2, <1>3, <1>5 DEF IInv, OnRecord, Clean, Recorded, Taken, Delivering
<1> QED BY <1>1, <1>2, <1>5, <1>6, <1>7, <1>8, DeliveryStep

LEMMA StepWorkerDies ==
  ASSUME IInv, Fault, delivery' = NoDelivery, UNCHANGED <<rows, calls, told, result, received>>
  PROVE  IInv'
<1>1. faults' = faults + 1 /\ faults' \in faults..MaxFaults /\ faults \in Nat
  BY DataTypes, BoundsAreNat DEF Fault
<1>2. delivery' \in DeliveryTypes
  BY BoundsAreNat DEF NoDelivery, NewRow, DeliveryTypes, CallbackStates, Payload
<1>3. AttemptsLeft' /\ DeliveredIsReceived'
  BY <1>1, Records DEF IInv, AttemptsLeft, DeliveredIsReceived, Recorded, Taken, Delivering
<1>4. OnRecord'
  BY <1>1, DataTypes, Records DEF IInv, OnRecord, Clean, Recorded, Taken, Delivering
<1> QED BY <1>1, <1>2, <1>3, <1>4, Records, DeliveryStep

\* the steps that annotate next, with a patch that is not DELIVERED
LEMMA StepAnnotating ==
  ASSUME IInv, delivery.at \in {"post", "read", "write"}, NEW patch \in {"RETRYING", "FAILED"},
         Annotating(patch), patch = "RETRYING" => delivery.attempt < MaxAttempts,
         UNCHANGED <<rows, calls, told, result>>,
         \/ UNCHANGED <<received, faults>> /\ delivery.at = "post"
         \/ Fault /\ UNCHANGED received
         \/ Fault /\ Receive /\ delivery.at = "post"
  PROVE  IInv'
<1> DEFINE k == delivery.cmd
<1>1. delivery \in DeliveryTypes /\ k \in 1..Len(rows)
  BY DataTypes DEF IInv, CommandsExist
<1>2. /\ delivery' \in DeliveryTypes /\ delivery'.at = "read" /\ delivery'.cmd = k
      /\ delivery'.patch = patch /\ delivery'.attempt = delivery.attempt
  BY <1>1 DEF DeliveryTypes, Annotating, CallbackStates
<1>3. faults \in Nat /\ faults' \in faults..MaxFaults /\ faults' \in {faults, faults + 1}
  BY DataTypes, BoundsAreNat DEF Fault, IInv, TypeOK
<1>4. \A c \in 1..Len(rows) : received'[c] \in Nat /\ received'[c] >= received[c]
  <2>1. CASE received' = received
    BY <2>1, DataTypes
  <2>2. CASE Receive
    <3>1. /\ received'[k] = received[k] + 1
          /\ \A c \in 1..Len(rows) : c # k => received'[c] = received[c]
      BY <1>1, <2>2, DataTypes DEF Receive
    <3> QED BY <3>1, DataTypes
  <2> QED BY <2>1, <2>2
<1>5. AttemptsLeft'
  BY <1>2 DEF AttemptsLeft, Delivering
<1>6. DeliveredIsReceived'
  BY <1>2, <1>4, DataTypes DEF IInv, DeliveredIsReceived, Recorded, Taken, Delivering
<1>7. OnRecord'
  <2> SUFFICES ASSUME NEW c \in 1..Len(rows), Clean(c)'
               PROVE  /\ received'[c] <= faults' + (IF Recorded(c) THEN 1 ELSE 0)
                      /\ Delivering(c, {"post", "read", "write"})' => ~ Recorded(c)
                      /\ result.cmd = c /\ result.copy.callback = "DELIVERED" => Recorded(c)
    BY <1>2 DEF OnRecord, Recorded, Taken, Delivering
  <2>1. Clean(c)
    BY <1>2 DEF Clean, Delivering
  <2>2. /\ received[c] <= faults + (IF Recorded(c) \/ Taken(c) THEN 1 ELSE 0)
        /\ Delivering(c, {"post", "read", "write"}) => ~ Recorded(c)
        /\ result.cmd = c /\ result.copy.callback = "DELIVERED" => Recorded(c)
    BY <2>1 DEF IInv, OnRecord
  <2>3. CASE c = k
    <3>1. ~ Recorded(c)
      BY <2>2, <2>3 DEF Delivering
    <3>2. delivery.at = "post" => ~ Taken(c)
      BY DEF Taken, Delivering
    <3>3. received'[c] <= faults'
      <4>1. CASE UNCHANGED <<received, faults>> /\ delivery.at = "post"
        BY <4>1, <1>3, <2>2, <3>1, <3>2, DataTypes
      <4>2. CASE Fault /\ UNCHANGED received
        BY <4>2, <1>3, <2>2, <3>1, DataTypes DEF Fault
      <4>3. CASE Fault /\ Receive /\ delivery.at = "post"
        <5>1. received'[c] = received[c] + 1 /\ faults' = faults + 1
          BY <1>1, <2>3, <4>3, DataTypes DEF Fault, Receive
        <5> QED BY <4>3, <5>1, <1>3, <2>2, <3>1, <3>2, DataTypes
      <4> QED BY <4>1, <4>2, <4>3
    <3> QED BY <1>3, <2>2, <3>1, <3>3
  <2>4. CASE c # k
    <3>1. received'[c] = received[c] /\ ~ Taken(c)
      BY <2>4, DataTypes DEF Receive, Taken, Delivering
    <3> QED BY <1>2, <1>3, <2>2, <2>4, <3>1, DataTypes DEF Delivering
  <2> QED BY <2>3, <2>4
<1>8. received' = received \/ received' = [received EXCEPT ![k] = @ + 1]
  BY DEF Receive
<1> QED BY <1>1, <1>2, <1>3, <1>5, <1>6, <1>7, <1>8, DeliveryStep

LEMMA RetryOrFailIs ==
  /\ RetryOrFail \in {"RETRYING", "FAILED"}
  /\ RetryOrFail = "RETRYING" => delivery.attempt < MaxAttempts
  BY DEF RetryOrFail

LEMMA StepPostSucceeds ==
  ASSUME IInv, PostSucceeds PROVE IInv'
<1> DEFINE k == delivery.cmd
<1>1. delivery \in DeliveryTypes /\ k \in 1..Len(rows) /\ delivery.at = "post"
  BY DataTypes DEF IInv, CommandsExist, PostSucceeds
<1>2. /\ delivery' \in DeliveryTypes /\ delivery'.at = "read" /\ delivery'.cmd = k
      /\ delivery'.patch = "DELIVERED"
  BY <1>1 DEF DeliveryTypes, PostSucceeds, Annotating, CallbackStates
<1>3. UNCHANGED <<rows, calls, told, result, faults>> /\ received' = [received EXCEPT ![k] = @ + 1]
  BY DEF PostSucceeds, Receive
<1>4. faults \in Nat /\ faults' \in faults..MaxFaults
  BY <1>3, DataTypes, BoundsAreNat DEF IInv, TypeOK
<1>5. /\ received'[k] = received[k] + 1
      /\ \A c \in 1..Len(rows) : c # k => received'[c] = received[c]
  BY <1>1, <1>3, DataTypes
<1>6. AttemptsLeft'
  BY <1>2 DEF AttemptsLeft, Delivering
<1>7. DeliveredIsReceived'
  BY <1>1, <1>2, <1>3, <1>5, DataTypes DEF IInv, DeliveredIsReceived, Recorded, Taken, Delivering
<1>8. OnRecord'
  <2> SUFFICES ASSUME NEW c \in 1..Len(rows), Clean(c)'
               PROVE  /\ received'[c] <= faults + (IF Recorded(c) \/ Taken(c)' THEN 1 ELSE 0)
                      /\ Delivering(c, {"post", "read", "write"})' => ~ Recorded(c)
                      /\ result.cmd = c /\ result.copy.callback = "DELIVERED" => Recorded(c)
    BY <1>3 DEF OnRecord, Recorded
  <2>1. Clean(c)
    BY <1>2, <1>3 DEF Clean, Delivering
  <2>2. /\ received[c] <= faults + (IF Recorded(c) \/ Taken(c) THEN 1 ELSE 0)
        /\ Delivering(c, {"post", "read", "write"}) => ~ Recorded(c)
        /\ result.cmd = c /\ result.copy.callback = "DELIVERED" => Recorded(c)
    BY <2>1 DEF IInv, OnRecord
  <2>3. CASE c = k
    <3>1. ~ Recorded(c) /\ ~ Taken(c) /\ Taken(c)'
      BY <1>1, <1>2, <2>2, <2>3 DEF Taken, Delivering
    <3> QED BY <1>4, <1>5, <2>2, <2>3, <3>1, DataTypes
  <2>4. CASE c # k
    BY <1>2, <1>5, <2>2, <2>4 DEF Taken, Delivering
  <2> QED BY <2>3, <2>4
<1> QED BY <1>1, <1>2, <1>3, <1>4, <1>6, <1>7, <1>8, DeliveryStep

LEMMA StepPostFails ==
  ASSUME IInv, PostFails PROVE IInv'
<1>1. PICK patch \in {"RETRYING", "FAILED"} :
        Annotating(patch) /\ (patch = "RETRYING" => delivery.attempt < MaxAttempts)
  BY RetryOrFailIs DEF PostFails
<1> QED BY <1>1, StepAnnotating DEF PostFails

LEMMA StepAnnotateFails ==
  ASSUME IInv, AnnotateFails PROVE IInv'
<1>1. CASE Annotating(RetryOrFail)
  BY <1>1, RetryOrFailIs, StepAnnotating DEF AnnotateFails
<1> QED BY <1>1, StepWorkerDies DEF AnnotateFails

(* The payload of c is replaced by one made from an earlier copy. *)
LEMMA PayloadWritten ==
  ASSUME IInv, NEW c \in 1..Len(rows), NEW row \in CommandRow, rows' = [rows EXCEPT ![c] = row],
         row.box = rows[c].box, UNCHANGED <<calls, told>>
  PROVE  /\ rows' \in Seq(CommandRow) /\ Len(rows') = Len(rows) /\ rows'[c] = row
         /\ \A d \in 1..Len(rows) : d # c => rows'[d] = rows[d]
         /\ faults' = faults => SomeoneQueues'
         /\ CreatorsBounded'
<1>1. /\ rows' \in Seq(CommandRow) /\ Len(rows') = Len(rows) /\ rows'[c] = row
      /\ \A d \in 1..Len(rows) : d # c => rows'[d] = rows[d]
  BY DataTypes, OneRow
<1> QED BY <1>1 DEF IInv, SomeoneQueues, CreatorsBounded, Creating

LEMMA StepAnnotate ==
  ASSUME IInv, Annotate PROVE IInv'
<1> DEFINE k == delivery.cmd
           p == [delivery.copy EXCEPT !.callback = delivery.patch]
           row == [rows[k] EXCEPT !.payload = p]
<1>1. /\ delivery \in DeliveryTypes /\ k \in 1..Len(rows) /\ delivery.at = "write"
      /\ rows[k] \in CommandRow
  BY DataTypes DEF IInv, CommandsExist, Annotate
<1>2. p \in Payload /\ p.callback = delivery.patch /\ p.latest = delivery.copy.latest
  BY <1>1 DEF DeliveryTypes, Payload
<1>3. rows' = [rows EXCEPT ![k] = row] /\ UNCHANGED <<calls, told, result, received, faults>>
  BY <1>1, DataTypes DEF Annotate
<1>k. k = delivery.cmd
  OBVIOUS
<1>row. row = [rows[k] EXCEPT !.payload = p]
  OBVIOUS
<1> HIDE DEF p, k
<1>4. row \in CommandRow /\ row.payload = p /\ row.box = rows[k].box
  BY <1>1, <1>2 DEF CommandRow
<1> HIDE DEF row
<1>5. /\ rows' \in Seq(CommandRow) /\ Len(rows') = Len(rows) /\ rows'[k] = row
      /\ \A d \in 1..Len(rows) : d # k => rows'[d] = rows[d]
      /\ SomeoneQueues' /\ CreatorsBounded'
  BY <1>1, <1>3, <1>4, PayloadWritten
<1>6. \/ delivery' = NoDelivery
      \/ /\ delivery.patch = "RETRYING" /\ delivery' \in DeliveryTypes
         /\ delivery'.at = "post" /\ delivery'.cmd = k /\ delivery'.patch = "RETRYING"
  <2>1. delivery.patch = "RETRYING" => delivery.attempt + 1 \in 0..MaxAttempts
    BY <1>1, BoundsAreNat DEF IInv, AttemptsLeft, Delivering, DeliveryTypes
  <2>2. CASE delivery.patch = "RETRYING"
    <3> DEFINE n == delivery.attempt + 1
    <3>1. n \in 0..MaxAttempts
      BY <2>1, <2>2
    <3>2. delivery' = [delivery EXCEPT !.at = "post", !.attempt = n]
      BY <2>2 DEF Annotate
    <3> HIDE DEF n
    <3> QED BY <2>2, <3>1, <3>2, <1>1, <1>k DEF DeliveryTypes
  <2> QED BY <2>2 DEF Annotate
<1>7. delivery' \in DeliveryTypes
  BY <1>6, BoundsAreNat DEF NoDelivery, NewRow, DeliveryTypes, CallbackStates, Payload
<1>8. TypeOK'
  BY <1>3, <1>5, <1>7 DEF IInv, TypeOK, DeliveryTypes
<1>9. CommandsExist'
  BY <1>1, <1>3, <1>5, <1>6, Records DEF IInv, CommandsExist
<1>10. AttemptsLeft'
  BY <1>6, Records DEF AttemptsLeft, Delivering
<1>11. DeliveredIsReceived'
  <2> SUFFICES ASSUME NEW c \in 1..Len(rows),
                      \/ Recorded(c)' \/ Taken(c)'
                      \/ Delivering(c, {"write"})' /\ delivery'.copy.callback = "DELIVERED"
                      \/ result.cmd = c /\ result.copy.callback = "DELIVERED"
               PROVE  received[c] > 0
    BY <1>3, <1>5 DEF DeliveredIsReceived
  <2>1. Recorded(c)' \/ (result.cmd = c /\ result.copy.callback = "DELIVERED")
    BY <1>6, Records DEF Taken, Delivering
  <2>2. Recorded(c)' => Recorded(c) \/ Taken(c)
    BY <1>1, <1>2, <1>4, <1>5, <1>k DEF Recorded, Taken, Delivering
  <2> QED BY <2>1, <2>2 DEF IInv, DeliveredIsReceived
<1>12. OnRecord'
  <2> SUFFICES ASSUME NEW c \in 1..Len(rows), Clean(c)'
               PROVE  /\ received[c] <= faults + (IF Recorded(c)' THEN 1 ELSE 0)
                      /\ Delivering(c, {"post", "read", "write"})' => ~ Recorded(c)'
                      /\ result.cmd = c /\ result.copy.callback = "DELIVERED" => Recorded(c)'
    BY <1>3, <1>5, <1>6, Records DEF OnRecord, Taken, Delivering
  <2>1. CASE c = k
    <3>1. delivery.copy.latest = "none"
      BY <1>2, <1>4, <1>5, <1>6, <2>1, Records DEF Clean, Delivering
    <3>2. Clean(c) /\ Delivering(c, {"post", "read", "write"})
      BY <1>1, <1>k, <2>1, <3>1 DEF Clean, Delivering
    <3>3. /\ received[c] <= faults + (IF Recorded(c) \/ Taken(c) THEN 1 ELSE 0)
          /\ ~ Recorded(c)
          /\ ~ (result.cmd = c /\ result.copy.callback = "DELIVERED")
      BY <3>2 DEF IInv, OnRecord
    <3>4. Taken(c) <=> delivery.patch = "DELIVERED"
      BY <1>1, <1>k, <2>1 DEF Taken, Delivering
    <3>5. Recorded(c)' <=> delivery.patch = "DELIVERED"
      BY <1>2, <1>4, <1>5, <2>1 DEF Recorded
    <3>6. received[c] <= faults + (IF Recorded(c)' THEN 1 ELSE 0)
      BY <3>3, <3>4, <3>5
    <3> QED BY <1>6, <3>3, <3>5, <3>6, Records DEF Delivering
  <2>2. CASE c # k
    <3>1. rows'[c] = rows[c] /\ ~ Taken(c) /\ Clean(c)
      BY <1>1, <1>5, <1>6, <1>k, <2>2, Records DEF Taken, Clean, Delivering
    <3>2. /\ received[c] <= faults + (IF Recorded(c) \/ Taken(c) THEN 1 ELSE 0)
          /\ result.cmd = c /\ result.copy.callback = "DELIVERED" => Recorded(c)
      BY <3>1 DEF IInv, OnRecord
    <3>3. Recorded(c)' <=> Recorded(c)
      BY <3>1 DEF Recorded
    <3> QED BY <1>6, <2>2, <3>1, <3>2, <3>3, Records DEF Delivering
  <2> QED BY <2>1, <2>2
<1> QED BY <1>5, <1>8, <1>9, <1>10, <1>11, <1>12 DEF IInv

LEMMA StepReconcile ==
  ASSUME IInv, NEW c \in DOMAIN rows, NEW s \in Outcomes, Reconcile(c, s) PROVE IInv'
<1> DEFINE row == [rows[c] EXCEPT !.status = s, !.outcomes = @ + 1]
<1>1. c \in 1..Len(rows) /\ rows[c] \in CommandRow /\ s \in CommandStatuses
  BY DataTypes, OutcomesAreTerminal DEF CommandStatuses
<1>2. /\ rows' = [rows EXCEPT ![c] = row] /\ UNCHANGED <<calls, told, result, received, faults>>
      /\ delivery = NoDelivery
  BY <1>1, DataTypes DEF Reconcile
<1>row. row = [rows[c] EXCEPT !.status = s, !.outcomes = @ + 1]
  OBVIOUS
<1> HIDE DEF row
<1>3. row \in CommandRow /\ row.payload = rows[c].payload /\ row.box = rows[c].box
  BY <1>1, <1>row, SetOutcome
<1>4. /\ rows' \in Seq(CommandRow) /\ Len(rows') = Len(rows) /\ rows'[c] = row
      /\ \A d \in 1..Len(rows) : d # c => rows'[d] = rows[d]
      /\ SomeoneQueues' /\ CreatorsBounded'
  BY <1>1, <1>2, <1>3, PayloadWritten
<1>5. \A d \in 1..Len(rows) : rows'[d].payload = rows[d].payload
  BY <1>3, <1>4
<1>6. /\ delivery' \in DeliveryTypes /\ delivery'.at = "check" /\ delivery'.cmd = c
      /\ delivery'.patch = "none"
  <2>1. c \in 0..MaxCommands /\ 1 \in 0..MaxAttempts /\ NewRow.payload \in Payload
    BY <1>1, DataTypes, BoundsAreNat DEF NewRow, Payload, CallbackStates
  <2> QED BY <2>1 DEF Reconcile, DeliveryTypes, CallbackStates
<1>7. TypeOK' /\ CommandsExist'
  BY <1>1, <1>2, <1>4, <1>6 DEF IInv, TypeOK, CommandsExist, DeliveryTypes
<1>8. AttemptsLeft' /\ DeliveredIsReceived'
  BY <1>2, <1>4, <1>5, <1>6 DEF IInv, AttemptsLeft, DeliveredIsReceived, Recorded, Taken, Delivering
<1>9. OnRecord'
  BY <1>2, <1>4, <1>5, <1>6, Records DEF IInv, OnRecord, Clean, Recorded, Taken, Delivering
<1> QED BY <1>4, <1>7, <1>8, <1>9 DEF IInv

----------------------------------------------------------------------------
(* Steps of the gateway's result *)

LEMMA StepReadForResult ==
  ASSUME IInv, NEW s \in Outcomes, ReadForResult(s) PROVE IInv'
<1> DEFINE k == Len(rows)
           p == rows[k].payload
<1>1. k \in 1..Len(rows) /\ k \in 0..MaxCommands /\ p \in Payload /\ s \in TERMINAL_STATUSES
  <2>1. k \in 1..Len(rows)
    BY DataTypes DEF ReadForResult
  <2> QED BY <2>1, DataTypes, OutcomesAreTerminal
<1>2. /\ result' = [at |-> "write", cmd |-> k, status |-> s, copy |-> p]
      /\ UNCHANGED <<rows, calls, told, delivery, received, faults>>
  BY DEF ReadForResult
<1>p. p.callback = "DELIVERED" => Recorded(k)
  BY DEF Recorded
<1>k. k = Len(rows)
  OBVIOUS
<1> HIDE DEF p, k
<1>3. TypeOK' /\ CommandsExist'
  BY <1>1, <1>2 DEF IInv, TypeOK, CommandsExist
<1>4. DeliveredIsReceived'
  BY <1>2, <1>p DEF IInv, DeliveredIsReceived, Recorded, Taken, Delivering
<1>5. OnRecord'
  BY <1>2, <1>p DEF IInv, OnRecord, Clean, Recorded, Taken, Delivering
<1>6. AttemptsLeft' /\ SomeoneQueues' /\ CreatorsBounded'
  BY <1>2 DEF IInv, AttemptsLeft, Delivering, SomeoneQueues, CreatorsBounded, Creating
<1> QED BY <1>3, <1>4, <1>5, <1>6 DEF IInv

LEMMA StepWriteResult ==
  ASSUME IInv, WriteResult PROVE IInv'
<1> DEFINE k == result.cmd
           s == result.status
           p == [result.copy EXCEPT !.latest = s]
           row == [rows[k] EXCEPT !.status = s, !.payload = p]
<1>1. k \in 1..Len(rows) /\ rows[k] \in CommandRow /\ result.copy \in Payload /\ s \in TERMINAL_STATUSES
  BY DataTypes DEF IInv, TypeOK, CommandsExist, WriteResult
<1>2. p \in Payload /\ p.latest = s /\ s # "none" /\ p.callback = result.copy.callback
  BY <1>1 DEF Payload, TERMINAL_STATUSES
<1>3. /\ rows' = [rows EXCEPT ![k] = row] /\ result' = NoResult
      /\ UNCHANGED <<calls, told, delivery, received, faults>>
  BY <1>1, DataTypes DEF WriteResult
<1>k. k = result.cmd
  OBVIOUS
<1> HIDE DEF p, k, s
<1>4. row \in CommandRow /\ row.payload = p /\ row.box = rows[k].box
  BY <1>1, <1>2 DEF CommandRow, CommandStatuses
<1> HIDE DEF row
<1>5. /\ rows' \in Seq(CommandRow) /\ Len(rows') = Len(rows) /\ rows'[k] = row
      /\ \A d \in 1..Len(rows) : d # k => rows'[d] = rows[d]
      /\ SomeoneQueues' /\ CreatorsBounded'
  BY <1>1, <1>3, <1>4, PayloadWritten
<1>6. result' \in [at : {"idle", "write"}, cmd : 0..MaxCommands,
                   status : TERMINAL_STATUSES, copy : Payload]
  BY <1>3, BoundsAreNat DEF NoResult, NewRow, Payload, CallbackStates, TERMINAL_STATUSES
<1>7. TypeOK' /\ CommandsExist'
  BY <1>3, <1>5, <1>6, Records DEF IInv, TypeOK, CommandsExist
<1>8. AttemptsLeft'
  BY <1>3 DEF IInv, AttemptsLeft, Delivering
<1>9. \A c \in 1..Len(rows) :
        /\ c # k => (Recorded(c)' <=> Recorded(c)) /\ (Clean(c)' <=> Clean(c))
        /\ c = k => /\ Recorded(c)' <=> result.copy.callback = "DELIVERED"
                    /\ Clean(c)' => Clean(c) /\ Delivering(c, {"post", "read", "write"})
        /\ Taken(c)' <=> Taken(c)
        /\ result'.cmd # c
  BY <1>2, <1>3, <1>4, <1>5, Records DEF Recorded, Clean, Taken, Delivering
<1>10. DeliveredIsReceived'
  BY <1>3, <1>5, <1>9, <1>k DEF IInv, DeliveredIsReceived, Delivering
<1>11. OnRecord'
  <2> SUFFICES ASSUME NEW c \in 1..Len(rows), Clean(c)'
               PROVE  /\ received[c] <= faults + (IF Recorded(c)' \/ Taken(c) THEN 1 ELSE 0)
                      /\ Delivering(c, {"post", "read", "write"}) => ~ Recorded(c)'
    BY <1>3, <1>5, <1>9 DEF OnRecord, Delivering
  <2>1. /\ received[c] <= faults + (IF Recorded(c) \/ Taken(c) THEN 1 ELSE 0)
        /\ Delivering(c, {"post", "read", "write"}) => ~ Recorded(c)
        /\ result.cmd = c /\ result.copy.callback = "DELIVERED" => Recorded(c)
    BY <1>9 DEF IInv, OnRecord
  <2>2. CASE c = k
    <3>1. ~ Recorded(c) /\ ~ Recorded(c)'
      BY <1>9, <1>k, <2>1, <2>2
    <3> QED BY <2>1, <3>1
  <2>3. CASE c # k
    BY <1>9, <2>1, <2>3
  <2> QED BY <2>2, <2>3
<1> QED BY <1>5, <1>7, <1>8, <1>10, <1>11 DEF IInv

----------------------------------------------------------------------------
LEMMA IInvStep == IInv /\ [Next]_vars => IInv'
<1> SUFFICES ASSUME IInv, [Next]_vars PROVE IInv'
  OBVIOUS
<1>1. CASE UNCHANGED vars
  BY <1>1 DEF vars, IInv, TypeOK, CommandsExist, AttemptsLeft, SomeoneQueues, DeliveredIsReceived,
     OnRecord, CreatorsBounded, Creating, Clean, Recorded, Taken, Delivering
<1>2. ASSUME NEW r \in Calls, Request(r) PROVE IInv'
  BY <1>2, StepAnswerDuplicate, StepFindNoDuplicate, StepCreateCommand, StepCreateOutbox,
     StepCallDies DEF Request
<1>3. ASSUME NEW c \in DOMAIN rows, Outbox(c) \/ \E s \in Outcomes : Reconcile(c, s) PROVE IInv'
  BY <1>3, StepOutbox, StepReconcile
<1>4. CASE Deliver
  BY <1>4, StepCheckDelivered, StepPostSucceeds, StepPostFails, StepReadPayload, StepAnnotate,
     StepAnnotateFails DEF Deliver
<1>5. CASE WorkerDies
  BY <1>5, StepWorkerDies DEF WorkerDies
<1>6. ASSUME NEW s \in Outcomes, ReadForResult(s) PROVE IInv'
  BY <1>6, StepReadForResult
<1>7. CASE WriteResult
  BY <1>7, StepWriteResult
<1> QED BY <1>1, <1>2, <1>3, <1>4, <1>5, <1>6, <1>7 DEF Next

(* The inductive invariant holds of every behaviour. *)
THEOREM Invariance == Spec => []IInv
BY IInvInit, IInvStep, PTL DEF Spec

(* Every variable keeps its type. *)
THEOREM TypeCorrect == Spec => []TypeOK
<1>1. IInv => TypeOK
  BY DEF IInv
<1> QED BY <1>1, Invariance, PTL

(* However requests of one request id overlap, die and are repeated, no more commands
   are created than there are requests that can be in flight together. *)
THEOREM CommandsBounded == Spec => []OneCommandPerCall
<1>1. IInv => OneCommandPerCall
  BY DataTypes, CallsAreFinite DEF IInv, CreatorsBounded, OneCommandPerCall
<1> QED BY <1>1, Invariance, PTL

(* What the partner was told is ACCEPTED has an outbox row, a call that will write it,
   or the API died. *)
THEOREM AcceptedHasOutbox == Spec => []AcceptedIsQueued
<1>1. IInv => AcceptedIsQueued
  <2> SUFFICES ASSUME IInv, NEW c \in told, rows[c].box = "None"
               PROVE  faults > 0 \/ \E r \in Calls : calls[r].cmd = c
    BY DEF AcceptedIsQueued
  <2>1. c \in 1..Len(rows)
    BY DEF IInv, CommandsExist
  <2>2. \/ faults > 0
        \/ \E r \in Calls : calls[r] = [at |-> "outbox", cmd |-> c]
    BY <2>1 DEF IInv, SomeoneQueues
  <2>3. ASSUME NEW r \in Calls, calls[r] = [at |-> "outbox", cmd |-> c] PROVE calls[r].cmd = c
    BY <2>3
  <2> QED BY <2>2, <2>3
<1> QED BY <1>1, Invariance, PTL

(* The partner receives an outcome once, and once more per fault, as long as no result of
   the gateway was written over the record. *)
THEOREM CallbacksBounded == Spec => []CallbacksNeedAFault
<1>1. IInv => CallbacksNeedAFault
  <2> SUFFICES ASSUME IInv, NEW c \in 1..Len(rows), rows[c].payload.latest = "none"
               PROVE  received[c] <= 1 + faults
    BY DEF CallbacksNeedAFault
  <2>1. received[c] <= faults + (IF Recorded(c) \/ Taken(c) THEN 1 ELSE 0)
    BY DEF IInv, OnRecord, Clean
  <2> QED BY <2>1, DataTypes
<1> QED BY <1>1, Invariance, PTL

(* Neither annotation nor result, written from old copies, records a delivery that
   did not happen. *)
THEOREM RecordIsTrue == Spec => []DeliveredWasReceived
<1>1. IInv => DeliveredWasReceived
  BY DEF IInv, DeliveredIsReceived, Recorded, DeliveredWasReceived
<1> QED BY <1>1, Invariance, PTL
=============================================================================
