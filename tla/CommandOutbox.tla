--------------------------- MODULE CommandOutbox ---------------------------
(***************************************************************************)
(* The transactional outbox that carries charge-point and vehicle commands *)
(* from PostgreSQL to Kafka: the rows `commands` and `command_outbox`, the *)
(* worker processes that claim, publish and settle them                    *)
(* (apps/worker/src/modules/commands/command-outbox.worker.ts), the        *)
(* dead-letter replay script and the retention job.                        *)
(*                                                                         *)
(* Every await of a tick is a step of its own, so two workers interleave   *)
(* between any two database or broker calls.  Clock readings are kept as   *)
(* what the code's comparisons can tell apart: a lock is free, held (less  *)
(* than OUTBOX_LOCK_TTL_MS old) or stale; a row is backing off or not.     *)
(***************************************************************************)
EXTENDS Naturals, FiniteSets

CONSTANTS
  Commands,           \* command ids, in the order of the outbox rows' createdAt
  Vehicle,            \* the commands of domain VEHICLE
  Workers,            \* worker replicas, each running one tick at a time
  Replayers,          \* runs of the replay script that may overlap
  Cleaners,           \* worker replicas' retention jobs
  MaxAttempts,        \* OUTBOX_MAX_ATTEMPTS
  BatchSize,          \* OUTBOX_BATCH_SIZE
  FailureThreshold,   \* OUTBOX_CIRCUIT_FAILURE_THRESHOLD
  MaxFaults,          \* bound: crashes, database errors and broker outages
  MaxReplays          \* bound: rows replayed by the operator

ASSUME CommandsAssumption  == Commands \subseteq Nat /\ Vehicle \subseteq Commands
ASSUME SettingsAssumption  == {MaxAttempts, BatchSize, FailureThreshold} \subseteq Nat \ {0}
ASSUME BoundsAssumption    == {MaxFaults, MaxReplays} \subseteq Nat
ASSUME WorkersAssumption   == IsFiniteSet(Workers)

VARIABLES
  command,      \* commands.status as this component writes it
  outbox,       \* command_outbox.status; "None" before the row exists
  attempts,     \* command_outbox.attempts
  lock,         \* command_outbox.lockedAt against the lock TTL
  backoff,      \* command_outbox.updatedAt is younger than the retry backoff
  requests,     \* messages on the command-requests topic, per command
  deadLetters,  \* commands with a message on the dead-letter topic
  pc,           \* where each worker's tick is
  todo,         \* candidates read by findMany and not yet claimed
  staleAtTick,  \* candidates whose lock was stale when the tick read them
  local,        \* the worker's own copy of attempts (candidate.attempts + 1)
  batch,        \* rows the worker has locked and not yet settled
  fails,        \* consecutivePublishFailures
  circuit,      \* circuitOpenUntilMs lies in the future
  kafkaUp,      \* the broker answers
  selected,     \* rows each run of the replay script has read as dead-lettered
  doomed,       \* rows each retention job has read as old
  overrun,      \* history: a lock expired while its holder was still at work
  replayed,     \* history: an operator has requeued the row
  reopened,     \* history: how often it was requeued while it was no dead letter
  faults,       \* number of faults so far
  replays       \* number of replays so far

rowVars    == <<outbox, attempts, lock, backoff>>
topicVars  == <<requests, deadLetters>>
claimVars  == <<todo, staleAtTick>>
breakerVars == <<fails, circuit>>
operatorVars == <<selected, replayed, reopened, replays>>
envVars    == <<kafkaUp, faults, operatorVars, doomed>>
vars == <<command, rowVars, topicVars, pc, claimVars, local, batch, breakerVars,
          envVars, overrun>>

CommandStates == {"None", "Queued", "Sent", "Confirmed", "Failed"}
\* a row is gone when it was deleted: "Lost" if it had been queued again by then
OutboxStates  == {"None", "Queued", "Published", "DeadLettered", "Purged", "Lost"}
WorkerStates  == {"idle", "claiming", "publishing", "published", "failing",
                  "deadlettering"}

TypeOK ==
  /\ command \in [Commands -> CommandStates]
  /\ outbox \in [Commands -> OutboxStates]
  /\ attempts \in [Commands -> Nat]
  /\ lock \in [Commands -> {"free", "held", "stale"}]
  /\ backoff \in [Commands -> BOOLEAN]
  /\ requests \in [Commands -> Nat]
  /\ deadLetters \subseteq Commands
  /\ pc \in [Workers -> WorkerStates]
  /\ todo \in [Workers -> SUBSET Commands]
  /\ staleAtTick \in [Workers -> SUBSET Commands]
  /\ local \in [Workers -> [Commands -> Nat]]
  /\ batch \in [Workers -> SUBSET Commands]
  /\ fails \in [Workers -> Nat]
  /\ circuit \in [Workers -> BOOLEAN]
  /\ kafkaUp \in BOOLEAN
  /\ selected \in [Replayers -> SUBSET Commands]
  /\ doomed \in [Cleaners -> SUBSET Commands]
  /\ replayed \in [Commands -> BOOLEAN]
  /\ reopened \in [Commands -> Nat]
  /\ overrun \in [Commands -> BOOLEAN]
  /\ faults \in Nat
  /\ replays \in Nat

Init ==
  /\ command = [c \in Commands |-> "None"]
  /\ outbox = [c \in Commands |-> "None"]
  /\ attempts = [c \in Commands |-> 0]
  /\ lock = [c \in Commands |-> "free"]
  /\ backoff = [c \in Commands |-> FALSE]
  /\ requests = [c \in Commands |-> 0]
  /\ deadLetters = {}
  /\ pc = [w \in Workers |-> "idle"]
  /\ todo = [w \in Workers |-> {}]
  /\ staleAtTick = [w \in Workers |-> {}]
  /\ local = [w \in Workers |-> [c \in Commands |-> 0]]
  /\ batch = [w \in Workers |-> {}]
  /\ fails = [w \in Workers |-> 0]
  /\ circuit = [w \in Workers |-> FALSE]
  /\ kafkaUp = TRUE
  /\ selected = [r \in Replayers |-> {}]
  /\ doomed = [k \in Cleaners |-> {}]
  /\ replayed = [c \in Commands |-> FALSE]
  /\ reopened = [c \in Commands |-> 0]
  /\ overrun = [c \in Commands |-> FALSE]
  /\ faults = 0
  /\ replays = 0

----------------------------------------------------------------------------
(* Helpers *)

\* c is the first element of a list kept in createdAt order
Oldest(c, S) == c \in S /\ \A d \in S : c <= d

\* mutant of Claimable: a crashed worker's lock is never taken over
ClaimableWhenFree(c) ==
  /\ outbox[c] = "Queued"
  /\ lock[c] = "free"
  /\ attempts[c] = 0 \/ ~backoff[c]

\* the where-clause of claimBatch's findMany
Claimable(c) ==
  /\ outbox[c] = "Queued"
  /\ lock[c] # "held"
  /\ attempts[c] = 0 \/ ~backoff[c]

\* S is what orderBy createdAt asc, take BatchSize returns of the set E
TakesOldest(S, E) ==
  /\ S \subseteq E
  /\ Cardinality(S) <= BatchSize
  /\ S # E => Cardinality(S) = BatchSize
  /\ \A c \in S, d \in E \ S : c < d

\* the worker leaves c behind and turns to the rest of its batch
DropFromBatch(w, c) ==
  /\ batch' = [batch EXCEPT ![w] = @ \ {c}]
  /\ local' = [local EXCEPT ![w][c] = 0]
  /\ pc' = [pc EXCEPT ![w] = IF batch[w] = {c} THEN "idle" ELSE "publishing"]

RecordPublishSuccess(w) ==
  /\ fails' = [fails EXCEPT ![w] = 0]
  /\ UNCHANGED circuit

\* recordPublishFailure, with the openCircuit it may call
RecordPublishFailure(w) ==
  LET trips == fails[w] + 1 >= FailureThreshold
  IN  /\ fails' = [fails EXCEPT ![w] = IF trips THEN 0 ELSE @ + 1]
      /\ circuit' = [circuit EXCEPT ![w] = @ \/ trips]

\* mutant of CatchFailure: the error is counted and then forgotten
CountFailure(w) ==
  /\ RecordPublishFailure(w)
  /\ pc' = [pc EXCEPT ![w] = "published"]

\* the catch-blocks of publish and publishVehicleCommand
CatchFailure(w) ==
  /\ RecordPublishFailure(w)
  /\ pc' = [pc EXCEPT ![w] = "failing"]

Gone(c) == outbox[c] \in {"Purged", "Lost"}

\* mutant of WriteRow: no status is written
OnlyUnlock(c, status) ==
  /\ ~Gone(c)
  /\ lock' = [lock EXCEPT ![c] = "free"]
  /\ backoff' = [backoff EXCEPT ![c] = TRUE]
  /\ UNCHANGED outbox

\* how every outcome is written: by id alone, whatever the row says by now; an
\* update of a row that is gone throws
WriteRow(c, status) ==
  /\ ~Gone(c)
  /\ outbox' = [outbox EXCEPT ![c] = status]
  /\ lock' = [lock EXCEPT ![c] = "free"]
  /\ backoff' = [backoff EXCEPT ![c] = TRUE]

\* the rest of the tick is given up: what it has locked stays locked
GiveUpTick(w) ==
  /\ pc' = [pc EXCEPT ![w] = "idle"]
  /\ todo' = [todo EXCEPT ![w] = {}]
  /\ staleAtTick' = [staleAtTick EXCEPT ![w] = {}]
  /\ batch' = [batch EXCEPT ![w] = {}]
  /\ local' = [local EXCEPT ![w] = [c \in Commands |-> 0]]

\* w has claimed c and may still write its row
Holds(w, c) == c \in batch[w] /\ ~(pc[w] = "deadlettering" /\ Oldest(c, batch[w]))
Holders(c) == {w \in Workers : Holds(w, c)}

Fault == faults < MaxFaults /\ faults' = faults + 1

----------------------------------------------------------------------------
(* The API writes the two rows one after the other, outside a transaction *)

CreateCommandRow(c) ==
  /\ command[c] = "None"
  /\ command' = [command EXCEPT ![c] = "Queued"]
  /\ UNCHANGED <<rowVars, topicVars, pc, claimVars, local, batch, breakerVars,
                 envVars, overrun>>

CreateOutboxRow(c) ==
  /\ command[c] = "Queued"
  /\ \A d \in Commands : d >= c => outbox[d] = "None"
  /\ outbox' = [outbox EXCEPT ![c] = "Queued"]
  /\ UNCHANGED <<command, attempts, lock, backoff, topicVars, pc, claimVars,
                 local, batch, breakerVars, envVars, overrun>>

----------------------------------------------------------------------------
(* One tick of a worker *)

\* shouldSkipTickForCircuit finds the broker down and opens the circuit
HealthCheckFails(w) ==
  /\ pc[w] = "idle"
  /\ ~circuit[w]
  /\ ~kafkaUp
  /\ circuit' = [circuit EXCEPT ![w] = TRUE]
  /\ fails' = [fails EXCEPT ![w] = 0]
  /\ UNCHANGED <<command, rowVars, topicVars, pc, claimVars, local, batch,
                 envVars, overrun>>

\* claimBatch: findMany
FindCandidates(w) ==
  /\ pc[w] = "idle"
  /\ ~circuit[w]
  /\ kafkaUp
  /\ \E S \in SUBSET {c \in Commands : Claimable(c)} :
       /\ S # {}
       /\ TakesOldest(S, {c \in Commands : Claimable(c)})
       /\ todo' = [todo EXCEPT ![w] = S]
       /\ staleAtTick' = [staleAtTick EXCEPT ![w] = {c \in S : lock[c] = "stale"}]
       /\ local' = [local EXCEPT ![w] =
                      [c \in Commands |-> IF c \in S THEN attempts[c] + 1 ELSE 0]]
  /\ pc' = [pc EXCEPT ![w] = "claiming"]
  /\ UNCHANGED <<command, rowVars, topicVars, batch, breakerVars, envVars,
                 overrun>>

\* mutants of StillUnlocked: the claim forgets the lock, or the status
StillQueued(w, c) == outbox[c] = "Queued"
StillFree(w, c)   == lock[c] = "free" \/ (lock[c] = "stale" /\ c \in staleAtTick[w])

\* the where-clause of claimBatch's updateMany: it looks at the status and the
\* lock again, with the cut-off of the tick's start, but not at the backoff
StillUnlocked(w, c) ==
  /\ outbox[c] = "Queued"
  /\ lock[c] = "free" \/ (lock[c] = "stale" /\ c \in staleAtTick[w])

\* updateMany matched the row
TakeRow(w, c) ==
  /\ pc[w] = "claiming"
  /\ Oldest(c, todo[w])
  /\ StillUnlocked(w, c)
  /\ attempts' = [attempts EXCEPT ![c] = @ + 1]
  /\ backoff' = [backoff EXCEPT ![c] = TRUE]
  /\ batch' = [batch EXCEPT ![w] = @ \cup {c}]
  /\ todo' = [todo EXCEPT ![w] = @ \ {c}]
  /\ pc' = [pc EXCEPT ![w] = IF todo[w] = {c} THEN "publishing" ELSE @]
  /\ UNCHANGED <<command, outbox, topicVars, local, breakerVars>>

ClaimRow(w, c) ==
  /\ TakeRow(w, c)
  /\ lock' = [lock EXCEPT ![c] = "held"]
  /\ staleAtTick' = [v \in Workers |-> staleAtTick[v] \ {c}]
  /\ UNCHANGED <<envVars, overrun>>

\* lockedAt is the time at which the tick began: when the worker stalls in
\* claimBatch for longer than the TTL the lock is stale as it is written, and
\* the workers V whose ticks began a TTL later may take the row as well
ClaimRowLate(w, c) ==
  /\ TakeRow(w, c)
  /\ Fault
  /\ lock' = [lock EXCEPT ![c] = "stale"]
  /\ overrun' = [overrun EXCEPT ![c] = TRUE]
  /\ \E V \in SUBSET {v \in Workers \ {w} : c \in todo[v]} :
       staleAtTick' = [v \in Workers |-> IF v \in V THEN staleAtTick[v] \cup {c}
                                                   ELSE staleAtTick[v] \ {c}]
  /\ UNCHANGED <<kafkaUp, operatorVars, doomed>>

\* updateMany matched no row: another worker was faster
LoseRow(w, c) ==
  /\ pc[w] = "claiming"
  /\ Oldest(c, todo[w])
  /\ ~StillUnlocked(w, c)
  /\ todo' = [todo EXCEPT ![w] = @ \ {c}]
  /\ local' = [local EXCEPT ![w][c] = 0]
  /\ pc' = [pc EXCEPT ![w] = IF todo[w] # {c} THEN @
                              ELSE IF batch[w] = {} THEN "idle" ELSE "publishing"]
  /\ UNCHANGED <<command, rowVars, topicVars, staleAtTick, batch, breakerVars,
                 envVars, overrun>>

\* resolveTargetOcppId finds no charge point, or publishVehicleCommand rejects
\* the command type: a failed attempt that the circuit breaker does not count
Unroutable(w, c) ==
  /\ pc[w] = "publishing"
  /\ Oldest(c, batch[w])
  /\ pc' = [pc EXCEPT ![w] = "failing"]
  /\ UNCHANGED <<command, rowVars, topicVars, claimVars, local, batch,
                 breakerVars, envVars, overrun>>

\* kafka.publish resolves
PublishRequest(w, c) ==
  /\ pc[w] = "publishing"
  /\ Oldest(c, batch[w])
  /\ c \notin Vehicle
  /\ kafkaUp
  /\ requests' = [requests EXCEPT ![c] = @ + 1]
  /\ RecordPublishSuccess(w)
  /\ pc' = [pc EXCEPT ![w] = "published"]
  /\ UNCHANGED <<command, rowVars, deadLetters, claimVars, local, batch,
                 envVars, overrun>>

\* kafka.publish rejects: the broker is down, or it took the message and its
\* acknowledgement was lost
PublishRejected(w, c) ==
  /\ pc[w] = "publishing"
  /\ Oldest(c, batch[w])
  /\ c \notin Vehicle
  /\ \/ ~kafkaUp /\ UNCHANGED <<requests, faults>>
     \/ kafkaUp /\ Fault /\ requests' = [requests EXCEPT ![c] = @ + 1]
  /\ CatchFailure(w)
  /\ UNCHANGED <<command, rowVars, deadLetters, claimVars, local, batch,
                 kafkaUp, operatorVars, doomed, overrun>>

\* the transaction after the publish: row Published, command Sent
MarkSent(w, c) ==
  /\ pc[w] = "published"
  /\ Oldest(c, batch[w])
  /\ WriteRow(c, "Published")
  /\ command' = [command EXCEPT ![c] = "Sent"]
  /\ DropFromBatch(w, c)
  /\ UNCHANGED <<attempts, topicVars, claimVars, breakerVars, envVars,
                 overrun>>

\* publishVehicleCommand: one transaction, no broker
ConfirmVehicle(w, c) ==
  /\ pc[w] = "publishing"
  /\ Oldest(c, batch[w])
  /\ c \in Vehicle
  /\ WriteRow(c, "Published")
  /\ command' = [command EXCEPT ![c] = "Confirmed"]
  /\ RecordPublishSuccess(w)
  /\ DropFromBatch(w, c)
  /\ UNCHANGED <<attempts, topicVars, claimVars, envVars, overrun>>

\* the transaction that should settle the row is rolled back: caught, counted
\* by the breaker and handled as a failed publish
SettleFails(w, c) ==
  /\ Oldest(c, batch[w])
  /\ pc[w] = "published" \/ (pc[w] = "publishing" /\ c \in Vehicle)
  /\ Fault
  /\ CatchFailure(w)
  /\ UNCHANGED <<command, rowVars, topicVars, claimVars, local, batch, kafkaUp,
                 operatorVars, doomed, overrun>>

\* handlePublishFailure below the limit: the row goes back to the queue
ScheduleRetry(w, c) ==
  /\ pc[w] = "failing"
  /\ Oldest(c, batch[w])
  /\ local[w][c] < MaxAttempts
  /\ WriteRow(c, "Queued")
  /\ DropFromBatch(w, c)
  /\ UNCHANGED <<command, attempts, topicVars, claimVars, breakerVars, envVars,
                 overrun>>

\* handlePublishFailure at the limit: the transaction of moveToDeadLetter
MoveToDeadLetter(w, c) ==
  /\ pc[w] = "failing"
  /\ Oldest(c, batch[w])
  /\ local[w][c] >= MaxAttempts
  /\ WriteRow(c, "DeadLettered")
  /\ command' = [command EXCEPT ![c] = "Failed"]
  /\ pc' = [pc EXCEPT ![w] = "deadlettering"]
  /\ UNCHANGED <<attempts, topicVars, claimVars, local, batch, breakerVars,
                 envVars, overrun>>

\* ... and its notice to the dead-letter topic, given up when the broker fails
AnnounceDeadLetter(w, c) ==
  /\ pc[w] = "deadlettering"
  /\ Oldest(c, batch[w])
  /\ deadLetters' = IF kafkaUp THEN deadLetters \cup {c} ELSE deadLetters
  /\ DropFromBatch(w, c)
  /\ UNCHANGED <<command, rowVars, requests, claimVars, breakerVars, envVars,
                 overrun>>

\* The row was deleted while the worker had it in hand: the transaction that
\* should settle it throws, and so does the one that should handle the failure,
\* which is outside publish's try.
RowIsGone(w, c) ==
  /\ Oldest(c, batch[w])
  /\ Gone(c)
  /\ \/ pc[w] = "failing" /\ UNCHANGED breakerVars
     \/ /\ pc[w] = "published" \/ (pc[w] = "publishing" /\ c \in Vehicle)
        /\ RecordPublishFailure(w)
  /\ GiveUpTick(w)
  /\ UNCHANGED <<command, rowVars, topicVars, envVars, overrun>>

\* a database error outside publish's try: the tick ends, its locks stay
AbortTick(w) ==
  /\ pc[w] \in {"claiming", "publishing", "failing", "deadlettering"}
  /\ Fault
  /\ GiveUpTick(w)
  /\ UNCHANGED <<command, rowVars, topicVars, breakerVars, kafkaUp,
                 operatorVars, doomed, overrun>>

\* the process dies and restarts with fresh fields; its locks stay
Crash(w) ==
  /\ Fault
  /\ GiveUpTick(w)
  /\ fails' = [fails EXCEPT ![w] = 0]
  /\ circuit' = [circuit EXCEPT ![w] = FALSE]
  /\ UNCHANGED <<command, rowVars, topicVars, kafkaUp, operatorVars, doomed,
                 overrun>>

----------------------------------------------------------------------------
(* The passing of time and the broker *)

LockExpires(c) ==
  /\ lock[c] = "held"
  /\ ~Gone(c)
  /\ lock' = [lock EXCEPT ![c] = "stale"]
  /\ overrun' = [overrun EXCEPT ![c] = @ \/ Holders(c) # {}]
  /\ UNCHANGED <<command, outbox, attempts, backoff, topicVars, pc, claimVars,
                 local, batch, breakerVars, envVars>>

BackoffElapses(c) ==
  /\ backoff[c]
  /\ backoff' = [backoff EXCEPT ![c] = FALSE]
  /\ UNCHANGED <<command, outbox, attempts, lock, topicVars, pc, claimVars,
                 local, batch, breakerVars, envVars, overrun>>

CircuitCloses(w) ==
  /\ circuit[w]
  /\ circuit' = [circuit EXCEPT ![w] = FALSE]
  /\ UNCHANGED <<command, rowVars, topicVars, pc, claimVars, local, batch,
                 fails, envVars, overrun>>

KafkaFails ==
  /\ kafkaUp
  /\ Fault
  /\ kafkaUp' = FALSE
  /\ UNCHANGED <<command, rowVars, topicVars, pc, claimVars, local, batch,
                 breakerVars, operatorVars, doomed, overrun>>

KafkaRecovers ==
  /\ ~kafkaUp
  /\ kafkaUp' = TRUE
  /\ UNCHANGED <<command, rowVars, topicVars, pc, claimVars, local, batch,
                 breakerVars, faults, operatorVars, doomed, overrun>>

----------------------------------------------------------------------------
(* Operations outside the worker *)

\* scripts/replay-dead-letters.ts reads the rows an operator picks ...
SelectDeadLetters(r) ==
  /\ selected[r] = {}
  /\ replays < MaxReplays
  /\ \E S \in SUBSET {c \in Commands : outbox[c] = "DeadLettered"} :
       S # {} /\ selected' = [selected EXCEPT ![r] = S]
  /\ UNCHANGED <<command, rowVars, topicVars, pc, claimVars, local, batch,
                 breakerVars, kafkaUp, faults, doomed, replayed, reopened, replays,
                 overrun>>

\* ... and requeues them one by one without looking at their status again:
\* another run may have requeued one, and a worker claimed or published it since
ReplayDeadLetter(r, c) ==
  /\ c \in selected[r]
  /\ ~Gone(c)
  /\ replays < MaxReplays
  /\ selected' = [selected EXCEPT ![r] = @ \ {c}]
  /\ outbox' = [outbox EXCEPT ![c] = "Queued"]
  /\ attempts' = [attempts EXCEPT ![c] = 0]
  /\ lock' = [lock EXCEPT ![c] = "free"]
  /\ backoff' = [backoff EXCEPT ![c] = TRUE]
  /\ command' = [command EXCEPT ![c] = "Queued"]
  /\ replayed' = [replayed EXCEPT ![c] = TRUE]
  /\ reopened' = [reopened EXCEPT ![c] = IF outbox[c] = "DeadLettered" THEN @ ELSE @ + 1]
  /\ replays' = replays + 1
  /\ UNCHANGED <<topicVars, pc, claimVars, local, batch, breakerVars, kafkaUp,
                 faults, doomed, overrun>>

\* a transaction fails, as it does for a row that is gone, or the operator
\* stops: main() ends before the other rows
AbandonReplay(r) ==
  /\ selected[r] # {}
  /\ selected' = [selected EXCEPT ![r] = {}]
  /\ UNCHANGED <<command, rowVars, topicVars, pc, claimVars, local, batch,
                 breakerVars, kafkaUp, faults, doomed, replayed, reopened, replays,
                 overrun>>

\* CommandHistoryCleanupWorker.deleteOldOutboxRows reads the ids of settled
\* rows that have not been written for days ...
FindOldRows(k) ==
  /\ doomed[k] = {}
  /\ \E S \in SUBSET {c \in Commands : /\ outbox[c] \in {"Published", "DeadLettered"}
                                       /\ ~backoff[c]} :
       S # {} /\ doomed' = [doomed EXCEPT ![k] = S]
  /\ UNCHANGED <<command, rowVars, topicVars, pc, claimVars, local, batch,
                 breakerVars, kafkaUp, faults, operatorVars, overrun>>

\* ... and deletes those ids, whatever the rows say by now
DeleteOldRows(k) ==
  /\ doomed[k] # {}
  /\ outbox' = [c \in Commands |->
       IF c \notin doomed[k] \/ Gone(c) THEN outbox[c]
       ELSE IF outbox[c] = "Queued" THEN "Lost" ELSE "Purged"]
  /\ doomed' = [doomed EXCEPT ![k] = {}]
  /\ UNCHANGED <<command, attempts, lock, backoff, topicVars, pc, claimVars,
                 local, batch, breakerVars, kafkaUp, faults, operatorVars, overrun>>

\* the delete fails, or the job's process dies before it
AbandonCleanup(k) ==
  /\ doomed[k] # {}
  /\ doomed' = [doomed EXCEPT ![k] = {}]
  /\ UNCHANGED <<command, rowVars, topicVars, pc, claimVars, local, batch,
                 breakerVars, kafkaUp, faults, operatorVars, overrun>>

----------------------------------------------------------------------------
WorkerStep(w) ==
  \/ HealthCheckFails(w)
  \/ FindCandidates(w)
  \/ \E c \in Commands :
       \/ ClaimRow(w, c)
       \/ ClaimRowLate(w, c)
       \/ LoseRow(w, c)
       \/ Unroutable(w, c)
       \/ PublishRequest(w, c)
       \/ PublishRejected(w, c)
       \/ MarkSent(w, c)
       \/ ConfirmVehicle(w, c)
       \/ SettleFails(w, c)
       \/ ScheduleRetry(w, c)
       \/ MoveToDeadLetter(w, c)
       \/ AnnounceDeadLetter(w, c)
       \/ RowIsGone(w, c)

Interrupt(w) == AbortTick(w) \/ Crash(w)

Time ==
  \/ \E c \in Commands : LockExpires(c) \/ BackoffElapses(c)
  \/ \E w \in Workers : CircuitCloses(w)
  \/ KafkaRecovers

Operations ==
  \/ \E c \in Commands : CreateCommandRow(c) \/ CreateOutboxRow(c)
  \/ \E r \in Replayers :
       \/ SelectDeadLetters(r)
       \/ \E c \in Commands : ReplayDeadLetter(r, c)
       \/ AbandonReplay(r)
  \/ \E k \in Cleaners : FindOldRows(k) \/ DeleteOldRows(k) \/ AbandonCleanup(k)

Next ==
  \/ \E w \in Workers : WorkerStep(w) \/ Interrupt(w)
  \/ Time
  \/ KafkaFails
  \/ Operations

Spec == Init /\ [][Next]_vars

(* setInterval keeps ticking while the process lives, an await returns, time *)
(* passes and the broker comes back.  No user or operator is obliged to act. *)
Fairness ==
  /\ \A w \in Workers : WF_vars(WorkerStep(w)) /\ WF_vars(CircuitCloses(w))
  /\ \A c \in Commands : WF_vars(LockExpires(c)) /\ WF_vars(BackoffElapses(c))
  /\ WF_vars(KafkaRecovers)

FairSpec == Spec /\ Fairness

----------------------------------------------------------------------------
(* Properties *)

\* While no lock outlives its holder's tick, at most one worker may write a
\* row, and one more for every time that a replay requeued the row although it
\* was no dead letter any more: the claim by updateMany with the lock in its
\* where-clause excludes the workers that read the same candidates.
Exclusive ==
  \A c \in Commands : ~overrun[c] => Cardinality(Holders(c)) <= 1 + reopened[c]

\* A charge-point command's row is marked Published only after kafka.publish
\* resolved for it, whatever crashed, expired or was replayed in between.
PublishedWasSent ==
  \A c \in Commands \ Vehicle : outbox[c] = "Published" => requests[c] > 0

\* A charge point is asked again to do the same thing only after a fault, a lock
\* that expired under its holder, or a replay of what was no dead letter any
\* more, and each fault and each such replay accounts for one copy: competing
\* workers, retries and replayed dead letters add none.
DuplicatesNeedAFault ==
  \A c \in Commands : ~overrun[c] => requests[c] <= 1 + faults + reopened[c]

\* Every row that was queued is eventually published, dead-lettered or gone,
\* through crashes of its holder, broker outages and failing transactions.
Settles ==
  \A c \in Commands :
    outbox[c] = "Queued" ~> outbox[c] \in {"Published", "DeadLettered"} \/ Gone(c)

(* The inductive invariant behind them *)

InUse(c) ==
  \/ \E r \in Replayers : c \in selected[r]
  \/ \E k \in Cleaners : c \in doomed[k]
  \/ \E w \in Workers : c \in batch[w] \cup todo[w]

\* nobody works on a row that does not exist yet
RowsInUseExist == \A c \in Commands : InUse(c) => outbox[c] # "None"

Disturbed(c) == overrun[c] \/ reopened[c] > 0

\* whoever may still write an undisturbed row has its lock, and the row is
\* queued or was deleted
HoldersOwnTheRow ==
  \A c \in Commands : ~Disturbed(c) /\ Holders(c) # {} =>
    lock[c] = "held" /\ outbox[c] \in {"Queued", "Lost"}

ReopenedWasReplayed == \A c \in Commands : reopened[c] > 0 => replayed[c]

\* what a replay or a retention job has read still holds, or was changed by a replay
SelectedWereDead ==
  \A r \in Replayers : \A c \in selected[r] :
    outbox[c] = "DeadLettered" \/ Gone(c) \/ replayed[c] \/ overrun[c]

DoomedWereSettled ==
  \A k \in Cleaners : \A c \in doomed[k] :
    outbox[c] \in {"Published", "DeadLettered"} \/ Gone(c) \/ replayed[c] \/ overrun[c]

\* w is between kafka.publish and the transaction that records it
Unrecorded(w, c) == pc[w] = "published" /\ Oldest(c, batch[w])

UnrecordedWasSent ==
  \A w \in Workers, c \in Commands :
    Unrecorded(w, c) => c \notin Vehicle /\ requests[c] > 0

\* the holders of c that may still send it
Senders(c) == {w \in Workers : Holds(w, c) /\ ~Unrecorded(w, c)}

\* the row may yet be claimed, or be created or requeued and claimed
Offer(c) ==
  IF \/ outbox[c] \in {"None", "DeadLettered"}
     \/ outbox[c] = "Queued" /\ (lock[c] # "held" \/ Holders(c) = {})
  THEN 1 ELSE 0

\* a row is in one hand, or on offer: only a replay of what is no dead letter
\* offers it again
OneHand ==
  \A c \in Commands : ~overrun[c] =>
    Cardinality(Holders(c)) + Offer(c) <= 1 + reopened[c]

\* every copy is the first, a fault's, or due to such a replay, and so are those
\* that may still be sent
CopiesAccountedFor ==
  \A c \in Commands : ~overrun[c] =>
    requests[c] + Cardinality(Senders(c)) + Offer(c) <= 1 + faults + reopened[c]

IInv ==
  /\ TypeOK
  /\ RowsInUseExist
  /\ HoldersOwnTheRow
  /\ ReopenedWasReplayed
  /\ SelectedWereDead
  /\ DoomedWereSettled
  /\ UnrecordedWasSent
  /\ PublishedWasSent
  /\ OneHand
  /\ CopiesAccountedFor

\* The worker, with its crashes, retries and replays, delivers every command at
\* least once and finishes it once, except for rows whose lock expired under a
\* live holder or that were replayed when they were no dead letters any more;
\* and it loses none but those and replayed ones, which the retention job may
\* have read before.
Delivery == INSTANCE CommandDelivery
              WITH Silent <- Vehicle, status <- outbox, copies <- requests,
                   disturbed <- [c \in Commands |-> Disturbed(c)]
DeliversAtLeastOnce == Delivery!Spec
=============================================================================
