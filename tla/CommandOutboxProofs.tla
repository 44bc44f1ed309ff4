------------------------ MODULE CommandOutboxProofs ------------------------
(***************************************************************************)
(* Proofs about CommandOutbox, for any number of commands, workers, faults *)
(* and replays and any settings of the worker.                             *)
(***************************************************************************)
EXTENDS CommandOutbox, FiniteSetTheorems, TLAPS

(* Every action keeps every variable in its type. *)
LEMMA TypeStep == TypeOK /\ [Next]_vars => TypeOK'
<1> SUFFICES ASSUME TypeOK, [Next]_vars
             PROVE  TypeOK'
  OBVIOUS
<1> USE CommandsAssumption, BoundsAssumption DEF TypeOK, operatorVars
<1>1. ASSUME NEW w \in Workers, HealthCheckFails(w) PROVE TypeOK'
  BY <1>1 DEF HealthCheckFails, rowVars, topicVars, claimVars, envVars
<1>2. ASSUME NEW w \in Workers, FindCandidates(w) PROVE TypeOK'
  <2>1. PICK S \in SUBSET Commands :
          /\ todo' = [todo EXCEPT ![w] = S]
          /\ staleAtTick' = [staleAtTick EXCEPT ![w] = {c \in S : lock[c] = "stale"}]
          /\ local' = [local EXCEPT ![w] =
                        [c \in Commands |-> IF c \in S THEN attempts[c] + 1 ELSE 0]]
    BY <1>2 DEF FindCandidates
  <2>2. [c \in Commands |-> IF c \in S THEN attempts[c] + 1 ELSE 0] \in [Commands -> Nat]
    OBVIOUS
  <2> QED BY <1>2, <2>1, <2>2
        DEF FindCandidates, rowVars, topicVars, breakerVars, envVars, WorkerStates
<1>3. ASSUME NEW w \in Workers, NEW c \in Commands, ClaimRow(w, c) PROVE TypeOK'
  BY <1>3 DEF ClaimRow, TakeRow, topicVars, breakerVars, envVars, WorkerStates
<1>4. ASSUME NEW w \in Workers, NEW c \in Commands, ClaimRowLate(w, c) PROVE TypeOK'
  BY <1>4 DEF ClaimRowLate, TakeRow, Fault, topicVars, breakerVars, WorkerStates
<1>5. ASSUME NEW w \in Workers, NEW c \in Commands, LoseRow(w, c) PROVE TypeOK'
  BY <1>5 DEF LoseRow, rowVars, topicVars, breakerVars, envVars, WorkerStates
<1>6. ASSUME NEW w \in Workers, NEW c \in Commands, Unroutable(w, c) PROVE TypeOK'
  BY <1>6 DEF Unroutable, rowVars, topicVars, claimVars, breakerVars, envVars, WorkerStates
<1>7. ASSUME NEW w \in Workers, NEW c \in Commands, PublishRequest(w, c) PROVE TypeOK'
  BY <1>7 DEF PublishRequest, RecordPublishSuccess, rowVars, claimVars, envVars, WorkerStates
<1>8. ASSUME NEW w \in Workers, NEW c \in Commands, PublishRejected(w, c) PROVE TypeOK'
  <2>1. fails' \in [Workers -> Nat] /\ circuit' \in [Workers -> BOOLEAN]
    BY <1>8 DEF PublishRejected, CatchFailure, RecordPublishFailure
  <2>2. pc' \in [Workers -> WorkerStates]
    BY <1>8 DEF PublishRejected, CatchFailure, WorkerStates
  <2>3. CASE UNCHANGED <<requests, faults>>
    BY <1>8, <2>1, <2>2, <2>3 DEF PublishRejected, rowVars, claimVars
  <2>4. CASE Fault /\ requests' = [requests EXCEPT ![c] = @ + 1]
    BY <1>8, <2>1, <2>2, <2>4 DEF PublishRejected, Fault, rowVars, claimVars
  <2> QED BY <1>8, <2>3, <2>4 DEF PublishRejected
<1>9. ASSUME NEW w \in Workers, NEW c \in Commands, MarkSent(w, c) PROVE TypeOK'
  BY <1>9 DEF MarkSent, WriteRow, DropFromBatch, topicVars, claimVars, breakerVars,
              envVars, WorkerStates, OutboxStates, CommandStates
<1>10. ASSUME NEW w \in Workers, NEW c \in Commands, ConfirmVehicle(w, c) PROVE TypeOK'
  BY <1>10 DEF ConfirmVehicle, WriteRow, DropFromBatch, RecordPublishSuccess, topicVars,
               claimVars, envVars, WorkerStates, OutboxStates, CommandStates
<1>11. ASSUME NEW w \in Workers, NEW c \in Commands, SettleFails(w, c) PROVE TypeOK'
  BY <1>11 DEF SettleFails, CatchFailure, RecordPublishFailure, Fault, rowVars,
               topicVars, claimVars, WorkerStates
<1>12. ASSUME NEW w \in Workers, NEW c \in Commands, ScheduleRetry(w, c) PROVE TypeOK'
  BY <1>12 DEF ScheduleRetry, WriteRow, DropFromBatch, topicVars, claimVars,
               breakerVars, envVars, WorkerStates, OutboxStates
<1>13. ASSUME NEW w \in Workers, NEW c \in Commands, MoveToDeadLetter(w, c) PROVE TypeOK'
  BY <1>13 DEF MoveToDeadLetter, WriteRow, topicVars, claimVars, breakerVars,
               envVars, WorkerStates, OutboxStates, CommandStates
<1>14. ASSUME NEW w \in Workers, NEW c \in Commands, AnnounceDeadLetter(w, c) PROVE TypeOK'
  BY <1>14 DEF AnnounceDeadLetter, DropFromBatch, rowVars, claimVars, breakerVars,
               envVars, WorkerStates
<1>15. ASSUME NEW w \in Workers, Interrupt(w) PROVE TypeOK'
  <2>1. [c \in Commands |-> 0] \in [Commands -> Nat]
    OBVIOUS
  <2>2. CASE AbortTick(w)
    BY <2>1, <2>2 DEF AbortTick, GiveUpTick, Fault, rowVars, topicVars, breakerVars, WorkerStates
  <2>3. CASE Crash(w)
    BY <2>1, <2>3 DEF Crash, GiveUpTick, Fault, rowVars, topicVars, WorkerStates
  <2> QED BY <1>15, <2>2, <2>3 DEF Interrupt
<1>16. ASSUME Time \/ KafkaFails PROVE TypeOK'
  <2> USE DEF topicVars, claimVars, envVars
  <2>1. ASSUME NEW c \in Commands, LockExpires(c) PROVE TypeOK'
    <3>1. overrun' \in [Commands -> BOOLEAN]
      BY <2>1 DEF LockExpires
    <3> QED BY <2>1, <3>1 DEF LockExpires, breakerVars
  <2>2. ASSUME NEW c \in Commands, BackoffElapses(c) PROVE TypeOK'
    BY <2>2 DEF BackoffElapses, breakerVars
  <2>3. ASSUME NEW w \in Workers, CircuitCloses(w) PROVE TypeOK'
    BY <2>3 DEF CircuitCloses, rowVars
  <2>4. ASSUME KafkaRecovers PROVE TypeOK'
    BY <2>4 DEF KafkaRecovers, rowVars, breakerVars
  <2>5. ASSUME KafkaFails PROVE TypeOK'
    <3>1. kafkaUp' \in BOOLEAN
      BY <2>5, Zenon DEF KafkaFails
    <3>2. faults' \in Nat
      BY <2>5 DEF KafkaFails, Fault
    <3> QED BY <3>1, <3>2, <2>5 DEF KafkaFails, Fault, rowVars, breakerVars
  <2> QED BY <1>16, <2>1, <2>2, <2>3, <2>4, <2>5 DEF Time
<1>17. ASSUME Operations PROVE TypeOK'
  <2> USE DEF claimVars, breakerVars
  <2>1. ASSUME NEW c \in Commands, CreateCommandRow(c) PROVE TypeOK'
    BY <2>1 DEF CreateCommandRow, rowVars, topicVars, envVars, CommandStates
  <2>2. ASSUME NEW c \in Commands, CreateOutboxRow(c) PROVE TypeOK'
    BY <2>2 DEF CreateOutboxRow, topicVars, envVars, OutboxStates
  <2>3. ASSUME NEW r \in Replayers, SelectDeadLetters(r) \/ AbandonReplay(r) PROVE TypeOK'
    <3>1. selected' \in [Replayers -> SUBSET Commands]
      BY <2>3 DEF SelectDeadLetters, AbandonReplay
    <3> QED BY <3>1, <2>3 DEF SelectDeadLetters, AbandonReplay, rowVars, topicVars
  <2>4. ASSUME NEW r \in Replayers, NEW c \in Commands, ReplayDeadLetter(r, c) PROVE TypeOK'
    <3>1. /\ selected' \in [Replayers -> SUBSET Commands]
          /\ reopened' \in [Commands -> Nat]
          /\ replayed' \in [Commands -> BOOLEAN]
      BY <2>4 DEF ReplayDeadLetter
    <3> QED BY <3>1, <2>4 DEF ReplayDeadLetter, topicVars, OutboxStates, CommandStates
  <2>5. ASSUME NEW k \in Cleaners, FindOldRows(k) \/ AbandonCleanup(k) PROVE TypeOK'
    <3>1. doomed' \in [Cleaners -> SUBSET Commands]
      BY <2>5 DEF FindOldRows, AbandonCleanup
    <3> QED BY <3>1, <2>5 DEF FindOldRows, AbandonCleanup, rowVars, topicVars
  <2>6. ASSUME NEW k \in Cleaners, DeleteOldRows(k) PROVE TypeOK'
    <3>1. doomed' \in [Cleaners -> SUBSET Commands] /\ outbox' \in [Commands -> OutboxStates]
      BY <2>6 DEF DeleteOldRows, OutboxStates
    <3> QED BY <3>1, <2>6 DEF DeleteOldRows, topicVars
  <2> QED BY <1>17, <2>1, <2>2, <2>3, <2>4, <2>5, <2>6 DEF Operations
<1>18. ASSUME NEW w \in Workers, NEW c \in Commands, RowIsGone(w, c) PROVE TypeOK'
  <2>1. [d \in Commands |-> 0] \in [Commands -> Nat]
    OBVIOUS
  <2>2. fails' \in [Workers -> Nat] /\ circuit' \in [Workers -> BOOLEAN]
    <3>1. CASE UNCHANGED breakerVars
      BY <3>1 DEF breakerVars
    <3>2. CASE RecordPublishFailure(w)
      BY <3>2 DEF RecordPublishFailure
    <3> QED BY <3>1, <3>2, <1>18 DEF RowIsGone
  <2> QED BY <2>1, <2>2, <1>18 DEF RowIsGone, GiveUpTick, rowVars, topicVars, envVars, WorkerStates
<1>19. CASE UNCHANGED vars
  BY <1>19 DEF vars, rowVars, topicVars, claimVars, breakerVars, envVars
<1> QED
  BY <1>1, <1>2, <1>3, <1>4, <1>5, <1>6, <1>7, <1>8, <1>9, <1>10, <1>11, <1>12,
     <1>13, <1>14, <1>15, <1>16, <1>17, <1>18, <1>19 DEF Next, WorkerStep

----------------------------------------------------------------------------
(* One row at a time *)

\* what the invariant says of row c, once its readers are put aside
Sound(c) ==
  /\ ~Disturbed(c) /\ Holders(c) # {} =>
       lock[c] = "held" /\ outbox[c] \in {"Queued", "Lost"}
  /\ reopened[c] > 0 => replayed[c]
  /\ Holders(c) # Senders(c) => c \notin Vehicle /\ requests[c] > 0
  /\ c \notin Vehicle /\ outbox[c] = "Published" => requests[c] > 0
  /\ ~overrun[c] => Cardinality(Holders(c)) + Offer(c) <= 1 + reopened[c]
  /\ ~overrun[c] => requests[c] + Cardinality(Senders(c)) + Offer(c)
                      <= 1 + faults + reopened[c]

\* a step leaves alone what Sound reads of row c
SameRow(c) ==
  /\ outbox'[c] = outbox[c] /\ lock'[c] = lock[c] /\ requests'[c] = requests[c]
  /\ overrun'[c] = overrun[c] /\ replayed'[c] = replayed[c] /\ reopened'[c] = reopened[c]

SameHands(c) == Holders(c)' = Holders(c) /\ Senders(c)' = Senders(c)
Untouched(c) == SameRow(c) /\ SameHands(c)

(* Whoever may not send a row any more has put it on the topic. *)
LEMMA UnrecordedHold ==
  ASSUME NEW c \in Commands
  PROVE  /\ Holders(c) # Senders(c) <=> \E w \in Workers : Unrecorded(w, c)
         /\ Senders(c) \subseteq Holders(c)
  BY DEF Senders, Holders, Holds, Unrecorded, Oldest

LEMMA InvariantByRow ==
  ASSUME TypeOK
  PROVE  IInv <=> /\ RowsInUseExist
                  /\ SelectedWereDead
                  /\ DoomedWereSettled
                  /\ \A c \in Commands : Sound(c)
<1>1. \A c \in Commands : Holders(c) # Senders(c) <=> \E w \in Workers : Unrecorded(w, c)
  BY UnrecordedHold
<1>2. UnrecordedWasSent <=> \A c \in Commands :
        Holders(c) # Senders(c) => c \notin Vehicle /\ requests[c] > 0
  BY <1>1 DEF UnrecordedWasSent
<1>3. PublishedWasSent <=> \A c \in Commands :
        c \notin Vehicle /\ outbox[c] = "Published" => requests[c] > 0
  BY DEF PublishedWasSent
<1> QED BY <1>2, <1>3 DEF IInv, Sound, HoldersOwnTheRow, ReopenedWasReplayed, OneHand,
                          CopiesAccountedFor

(* The hands on a row can be counted. *)
LEMMA Hands ==
  ASSUME NEW c \in Commands
  PROVE  /\ IsFiniteSet(Holders(c)) /\ Cardinality(Holders(c)) \in Nat
         /\ IsFiniteSet(Senders(c)) /\ Cardinality(Senders(c)) \in Nat
         /\ Holders(c) = {} <=> Cardinality(Holders(c)) = 0
         /\ Holders(c) = {} => Senders(c) = {} /\ Cardinality(Senders(c)) = 0
         /\ Senders(c) \subseteq Holders(c)
         /\ Offer(c) \in {0, 1}
<1>1. Holders(c) \in SUBSET Workers /\ Senders(c) \in SUBSET Holders(c)
  BY UnrecordedHold DEF Holders
<1>2. IsFiniteSet(Holders(c))
  BY <1>1, WorkersAssumption, FS_Subset
<1>3. IsFiniteSet(Senders(c))
  BY <1>1, <1>2, FS_Subset
<1>4. Offer(c) \in {0, 1}
  BY DEF Offer
<1> QED BY <1>1, <1>2, <1>3, <1>4, FS_CardinalityType, FS_EmptySet

(* ... one more, or one less. *)
LEMMA OneHandMore ==
  ASSUME NEW S, NEW x, IsFiniteSet(S)
  PROVE  Cardinality(S \cup {x}) <= Cardinality(S) + 1
<1>1. Cardinality(S) \in Nat
  BY FS_CardinalityType
<1>2. Cardinality(S \cup {x}) = IF x \in S THEN Cardinality(S) ELSE Cardinality(S) + 1
  BY FS_AddElement
<1> QED BY <1>1, <1>2

LEMMA OneHandLess ==
  ASSUME NEW S, NEW x, IsFiniteSet(S)
  PROVE  /\ Cardinality(S \ {x}) <= Cardinality(S)
         /\ x \in S => Cardinality(S \ {x}) = Cardinality(S) - 1
         /\ x \notin S => S \ {x} = S
<1>1. Cardinality(S) \in Nat
  BY FS_CardinalityType
<1>2. Cardinality(S \ {x}) = IF x \in S THEN Cardinality(S) - 1 ELSE Cardinality(S)
  BY FS_RemoveElement
<1>3. x \notin S => S \ {x} = S
  OBVIOUS
<1> QED BY <1>1, <1>2, <1>3

(* A step that leaves a row and the hands on it alone keeps it sound. *)
LEMMA UntouchedStaysSound ==
  ASSUME TypeOK, TypeOK', faults' >= faults, NEW c \in Commands, Sound(c), Untouched(c)
  PROVE  Sound(c)'
<1>1. /\ requests[c] \in Nat /\ faults \in Nat /\ faults' \in Nat /\ reopened[c] \in Nat
  BY DEF TypeOK
<1>2. Offer(c)' = Offer(c) /\ (Disturbed(c)' <=> Disturbed(c))
  BY DEF Untouched, SameRow, SameHands, Offer, Disturbed
<1>3. /\ Cardinality(Holders(c))' = Cardinality(Holders(c))
      /\ Cardinality(Senders(c))' = Cardinality(Senders(c))
  BY DEF Untouched, SameHands
<1>4. Cardinality(Senders(c)) \in Nat /\ Offer(c) \in Nat
  BY Hands
<1> QED BY <1>1, <1>2, <1>3, <1>4 DEF Sound, Untouched, SameRow, SameHands

\* what a replay or a retention job has read may change only as they expect
KeepsReaders ==
  /\ \A r \in Replayers : selected'[r] \subseteq selected[r]
  /\ \A k \in Cleaners : doomed'[k] \subseteq doomed[k]
  /\ \A c \in Commands :
       /\ InUse(c)' => InUse(c) \/ outbox'[c] # "None"
       /\ outbox[c] # "None" => outbox'[c] # "None"
       /\ Gone(c) => Gone(c)'
       /\ overrun[c] => overrun'[c]
       /\ replayed[c] => replayed'[c]
       /\ \/ outbox'[c] = outbox[c] \/ outbox[c] \in {"None", "Queued"}
          \/ Gone(c)' \/ replayed'[c] \/ overrun'[c]

LEMMA SoundRowsSuffice ==
  ASSUME TypeOK', RowsInUseExist', SelectedWereDead', DoomedWereSettled',
         \A c \in Commands : Sound(c)'
  PROVE  IInv'
<1>1. (TypeOK => (IInv <=> /\ RowsInUseExist /\ SelectedWereDead /\ DoomedWereSettled
                          /\ \A c \in Commands : Sound(c)))'
  BY InvariantByRow, PTL
<1> QED BY <1>1

(* The invariant is kept when each row is left alone or stays sound. *)
LEMMA RowsDecide ==
  ASSUME IInv, TypeOK', faults' >= faults, KeepsReaders,
         \A c \in Commands : Untouched(c) \/ Sound(c)'
  PROVE  IInv'
<1>1. TypeOK /\ \A c \in Commands : Sound(c)
  BY InvariantByRow DEF IInv
<1>2. \A c \in Commands : Sound(c)'
  BY <1>1, UntouchedStaysSound
<1>3. RowsInUseExist'
  BY DEF IInv, RowsInUseExist, KeepsReaders
<1>4. SelectedWereDead'
  <2> SUFFICES ASSUME NEW r \in Replayers, NEW c \in selected'[r]
               PROVE  (outbox[c] = "DeadLettered" \/ Gone(c) \/ replayed[c] \/ overrun[c])'
    BY DEF SelectedWereDead
  <2>1. c \in selected[r] /\ c \in Commands
    BY <1>1 DEF KeepsReaders, TypeOK
  <2>2. outbox[c] = "DeadLettered" \/ Gone(c) \/ replayed[c] \/ overrun[c]
    BY <2>1 DEF IInv, SelectedWereDead
  <2>3. outbox[c] # "None"
    BY <2>1 DEF IInv, RowsInUseExist, InUse
  <2> QED BY <2>1, <2>2, <2>3 DEF KeepsReaders, Gone
<1>5. DoomedWereSettled'
  <2> SUFFICES ASSUME NEW k \in Cleaners, NEW c \in doomed'[k]
               PROVE  (outbox[c] \in {"Published", "DeadLettered"} \/ Gone(c)
                         \/ replayed[c] \/ overrun[c])'
    BY DEF DoomedWereSettled
  <2>1. c \in doomed[k] /\ c \in Commands
    BY <1>1 DEF KeepsReaders, TypeOK
  <2>2. outbox[c] \in {"Published", "DeadLettered"} \/ Gone(c) \/ replayed[c] \/ overrun[c]
    BY <2>1 DEF IInv, DoomedWereSettled
  <2>3. outbox[c] # "None"
    BY <2>1 DEF IInv, RowsInUseExist, InUse
  <2> QED BY <2>1, <2>2, <2>3 DEF KeepsReaders, Gone
<1> QED BY <1>2, <1>3, <1>4, <1>5, SoundRowsSuffice

----------------------------------------------------------------------------
(* What the steps of a worker do to the hands on the rows *)

(* Two rows are not both the oldest of a batch. *)
LEMMA OneOldest ==
  ASSUME NEW S, NEW c \in Commands, NEW d \in Commands, Oldest(c, S), Oldest(d, S)
  PROVE  c = d
<1>1. c \in Nat /\ d \in Nat
  BY CommandsAssumption
<1> QED BY <1>1 DEF Oldest

(* A worker on its way to or from its batch changes no hands. *)
LEMMA IdleHands ==
  ASSUME UNCHANGED batch,
         \A v \in Workers : \/ pc'[v] = pc[v]
                            \/ {pc[v], pc'[v]} \cap {"published", "deadlettering"} = {}
  PROVE  \A d \in Commands : SameHands(d)
<1>1. \A v \in Workers, d \in Commands :
        (Holds(v, d)' <=> Holds(v, d)) /\ (Unrecorded(v, d)' <=> Unrecorded(v, d))
  BY DEF Holds, Unrecorded, Oldest
<1> QED BY <1>1 DEF SameHands, Holders, Senders

(* A worker that takes a row lays a hand on that row and may send it. *)
LEMMA TakingHand ==
  ASSUME TypeOK, NEW w \in Workers, NEW c \in Commands, TakeRow(w, c)
  PROVE  /\ \A d \in Commands : d # c => SameHands(d)
         /\ Holders(c)' = Holders(c) \cup {w}
         /\ Senders(c)' = Senders(c) \cup {w}
<1>1. /\ pc[w] = "claiming" /\ pc'[w] \in {"claiming", "publishing"}
      /\ batch'[w] = batch[w] \cup {c}
      /\ \A v \in Workers \ {w} : pc'[v] = pc[v] /\ batch'[v] = batch[v]
  BY DEF TakeRow, TypeOK
<1>2. \A v \in Workers, d \in Commands :
        /\ Holds(v, d)' <=> Holds(v, d) \/ (v = w /\ d = c)
        /\ Unrecorded(v, d)' <=> Unrecorded(v, d)
        /\ v = w => ~Unrecorded(v, d)
  BY <1>1 DEF Holds, Unrecorded, Oldest
<1>3. \A d \in Commands : d # c => SameHands(d)
  BY <1>2 DEF SameHands, Holders, Senders
<1>4. Holders(c)' = Holders(c) \cup {w}
  BY <1>2 DEF Holders
<1>5. Senders(c)' = Senders(c) \cup {w}
  BY <1>2 DEF Senders
<1> QED BY <1>3, <1>4, <1>5

(* A worker that turns to the outcome of its row keeps its hand on it. *)
LEMMA TurningHand ==
  ASSUME TypeOK, NEW w \in Workers, NEW c \in Commands, Oldest(c, batch[w]),
         NEW p \in {"published", "failing"}, pc' = [pc EXCEPT ![w] = p],
         pc[w] \in {"publishing", "published"}, UNCHANGED batch
  PROVE  /\ \A d \in Commands : d # c => SameHands(d)
         /\ Holders(c)' = Holders(c) /\ w \in Holders(c)
         /\ p = "published" => Senders(c)' = Senders(c) \ {w}
         /\ p = "failing" => Senders(c)' = Senders(c) \cup {w}
         /\ pc[w] = "publishing" => w \in Senders(c)
<1>1. pc'[w] = p /\ \A v \in Workers \ {w} : pc'[v] = pc[v]
  BY DEF TypeOK
<1>2. \A v \in Workers, d \in Commands : Holds(v, d)' <=> Holds(v, d)
  BY <1>1 DEF Holds
<1>3. \A d \in Commands : Holders(d)' = Holders(d)
  BY <1>2 DEF Holders
<1>4. \A d \in Commands : d # c => ~Oldest(d, batch[w])
  BY OneOldest
<1>5. \A v \in Workers, d \in Commands :
        IF v = w THEN /\ Unrecorded(v, d)' <=> d = c /\ p = "published"
                      /\ Unrecorded(v, d) <=> d = c /\ pc[w] = "published"
                 ELSE Unrecorded(v, d)' <=> Unrecorded(v, d)
  BY <1>1, <1>4 DEF Unrecorded, Oldest
<1>6. w \in Holders(c)
  BY DEF Holders, Holds, Oldest
<1>7. \A d \in Commands : d # c => SameHands(d)
  BY <1>2, <1>5 DEF SameHands, Holders, Senders
<1>8. p = "published" => Senders(c)' = Senders(c) \ {w}
  BY <1>2, <1>5 DEF Senders
<1>9. p = "failing" => Senders(c)' = Senders(c) \cup {w}
  BY <1>2, <1>5, <1>6 DEF Senders, Holders
<1> QED BY <1>3, <1>5, <1>6, <1>7, <1>8, <1>9 DEF Senders, Holders

(* A worker that has settled its row, or is through with it, lets go of it. *)
LEMMA LeavingHand ==
  ASSUME TypeOK, NEW w \in Workers, NEW c \in Commands, Oldest(c, batch[w]),
         \/ DropFromBatch(w, c)
         \/ /\ UNCHANGED batch /\ pc[w] = "failing"
            /\ pc' = [pc EXCEPT ![w] = "deadlettering"]
  PROVE  /\ \A d \in Commands : d # c => SameHands(d)
         /\ Holders(c)' = Holders(c) \ {w} /\ Senders(c)' = Senders(c) \ {w}
<1>1. \A v \in Workers \ {w} : pc'[v] = pc[v] /\ batch'[v] = batch[v]
  BY DEF DropFromBatch, TypeOK
<1>2. \A d \in Commands : d # c => ~Oldest(d, batch[w])
  BY OneOldest
<1>3. \A d \in Commands : /\ Holds(w, d)' <=> d # c /\ Holds(w, d)
                          /\ ~Unrecorded(w, d)'
                          /\ d # c => ~Unrecorded(w, d)
  <2>1. CASE DropFromBatch(w, c)
    <3>1. batch'[w] = batch[w] \ {c} /\ pc'[w] \in {"idle", "publishing"}
      BY <2>1 DEF DropFromBatch, TypeOK
    <3> QED BY <1>2, <3>1 DEF Holds, Unrecorded
  <2>2. CASE /\ UNCHANGED batch /\ pc[w] = "failing"
             /\ pc' = [pc EXCEPT ![w] = "deadlettering"]
    <3>1. pc'[w] = "deadlettering"
      BY <2>2 DEF TypeOK
    <3> QED BY <1>2, <2>2, <3>1 DEF Holds, Unrecorded, Oldest
  <2> QED BY <2>1, <2>2
<1>4. \A v \in Workers \ {w}, d \in Commands :
        (Holds(v, d)' <=> Holds(v, d)) /\ (Unrecorded(v, d)' <=> Unrecorded(v, d))
  BY <1>1 DEF Holds, Unrecorded, Oldest
<1>5. \A d \in Commands : d # c => SameHands(d)
  BY <1>3, <1>4 DEF SameHands, Holders, Senders
<1>6. Holders(c)' = Holders(c) \ {w}
  BY <1>3, <1>4 DEF Holders
<1>7. Senders(c)' = Senders(c) \ {w}
  BY <1>3, <1>4 DEF Senders
<1> QED BY <1>5, <1>6, <1>7

(* A worker that gives up its tick lets go of every row. *)
LEMMA DroppedHands ==
  ASSUME TypeOK, NEW w \in Workers, GiveUpTick(w), NEW d \in Commands
  PROVE  Holders(d)' = Holders(d) \ {w} /\ Senders(d)' = Senders(d) \ {w}
<1>1. /\ pc'[w] = "idle" /\ batch'[w] = {}
      /\ \A v \in Workers \ {w} : pc'[v] = pc[v] /\ batch'[v] = batch[v]
  BY DEF GiveUpTick, TypeOK
<1>2. ~Holds(w, d)'
  BY <1>1 DEF Holds
<1>3. \A v \in Workers \ {w} :
        (Holds(v, d)' <=> Holds(v, d)) /\ (Unrecorded(v, d)' <=> Unrecorded(v, d))
  BY <1>1 DEF Holds, Unrecorded, Oldest
<1>4. Holders(d)' = Holders(d) \ {w}
  BY <1>2, <1>3 DEF Holders
<1>5. Senders(d)' = Senders(d) \ {w}
  BY <1>2, <1>3 DEF Senders
<1> QED BY <1>4, <1>5

----------------------------------------------------------------------------
(* The actions, one by one *)

(* What the arithmetic of a row's account needs to know. *)
LEMMA Counted ==
  ASSUME IInv, NEW c \in Commands
  PROVE  /\ Sound(c)
         /\ requests[c] \in Nat /\ reopened[c] \in Nat /\ faults \in Nat
         /\ Cardinality(Holders(c)) \in Nat /\ Cardinality(Senders(c)) \in Nat
         /\ Offer(c) \in {0, 1}
  BY InvariantByRow, Hands DEF IInv, TypeOK

(* The steps of a worker disturb no reader: a row whose outcome they write was *)
(* queued, or replayed or overrun before. *)
LEMMA WorkersKeepReaders ==
  ASSUME IInv, UNCHANGED <<selected, doomed, replayed>>,
         \A v \in Workers : \A d \in batch'[v] \cup todo'[v] :
           d \in batch[v] \cup todo[v] \/ outbox[d] # "None",
         \A d \in Commands :
           /\ overrun[d] => overrun'[d]
           /\ \/ outbox'[d] = outbox[d]
              \/ /\ outbox[d] # "None" /\ ~Gone(d) /\ outbox'[d] # "None"
                 /\ outbox[d] = "Queued" \/ replayed[d] \/ overrun[d]
  PROVE  KeepsReaders
<1>1. \A d \in Commands : InUse(d)' => InUse(d) \/ outbox[d] # "None"
  BY DEF InUse
<1>2. \A d \in Commands : outbox[d] # "None" => outbox'[d] # "None"
  OBVIOUS
<1>3. \A d \in Commands : Gone(d) => Gone(d)'
  BY DEF Gone
<1> QED BY <1>1, <1>2, <1>3 DEF KeepsReaders

(* A step that changes neither rows nor hands. *)
LEMMA QuietStep ==
  ASSUME IInv, TypeOK', faults' >= faults,
         UNCHANGED <<outbox, lock, requests, selected, doomed, overrun, replayed, reopened>>,
         \A v \in Workers : \A d \in batch'[v] \cup todo'[v] :
           d \in batch[v] \cup todo[v] \/ outbox[d] # "None",
         \A d \in Commands : SameHands(d)
  PROVE  IInv'
<1>1. \A d \in Commands : Untouched(d)
  BY DEF Untouched, SameRow
<1>2. KeepsReaders
  BY WorkersKeepReaders
<1> QED BY <1>1, <1>2, RowsDecide

(* ... nor the ticks of the workers. *)
LEMMA StillStep ==
  ASSUME IInv, TypeOK', faults' >= faults,
         UNCHANGED <<outbox, lock, requests, pc, todo, batch, selected, doomed, overrun,
                     replayed, reopened>>
  PROVE  IInv'
<1>1. \A d \in Commands : SameHands(d)
  BY IdleHands
<1> QED BY <1>1, QuietStep

LEMMA FaultCounts == TypeOK /\ Fault => faults' >= faults
  BY DEF TypeOK, Fault

LEMMA FindCandidatesPreserves ==
  ASSUME IInv, TypeOK', NEW w \in Workers, FindCandidates(w)
  PROVE  IInv'
<1>1. TypeOK /\ faults' >= faults
  BY DEF IInv, TypeOK, FindCandidates, envVars
<1>2. \A v \in Workers : pc'[v] = pc[v]
                         \/ {pc[v], pc'[v]} \cap {"published", "deadlettering"} = {}
  BY <1>1 DEF FindCandidates, TypeOK
<1>3. \A d \in Commands : SameHands(d)
  BY <1>2, IdleHands DEF FindCandidates
<1>4. \A v \in Workers : \A d \in batch'[v] \cup todo'[v] :
        d \in batch[v] \cup todo[v] \/ outbox[d] # "None"
  BY <1>1 DEF FindCandidates, TypeOK, Claimable
<1> QED BY <1>1, <1>3, <1>4, QuietStep
        DEF FindCandidates, rowVars, topicVars, envVars, operatorVars

LEMMA LoseRowPreserves ==
  ASSUME IInv, TypeOK', NEW w \in Workers, NEW c \in Commands, LoseRow(w, c)
  PROVE  IInv'
<1>1. TypeOK /\ faults' >= faults
  BY DEF IInv, TypeOK, LoseRow, envVars
<1>2. \A v \in Workers : pc'[v] = pc[v]
                         \/ {pc[v], pc'[v]} \cap {"published", "deadlettering"} = {}
  BY <1>1 DEF LoseRow, TypeOK
<1>3. \A d \in Commands : SameHands(d)
  BY <1>2, IdleHands DEF LoseRow
<1>4. \A v \in Workers : \A d \in batch'[v] \cup todo'[v] :
        d \in batch[v] \cup todo[v] \/ outbox[d] # "None"
  BY <1>1 DEF LoseRow, TypeOK
<1> QED BY <1>1, <1>3, <1>4, QuietStep
        DEF LoseRow, rowVars, topicVars, envVars, operatorVars

LEMMA ClaimRowPreserves ==
  ASSUME IInv, TypeOK', NEW w \in Workers, NEW c \in Commands, ClaimRow(w, c)
  PROVE  IInv'
<1>1. /\ TypeOK /\ TakeRow(w, c)
      /\ UNCHANGED <<outbox, requests, faults, overrun, selected, doomed, replayed, reopened>>
      /\ lock' = [lock EXCEPT ![c] = "held"]
      /\ outbox[c] = "Queued" /\ lock[c] # "held"
  BY DEF IInv, ClaimRow, TakeRow, StillUnlocked, topicVars, envVars, operatorVars
<1>2. /\ \A d \in Commands : d # c => SameHands(d)
      /\ Holders(c)' = Holders(c) \cup {w} /\ Senders(c)' = Senders(c) \cup {w}
  BY <1>1, TakingHand
<1>3. Sound(c)'
  <2>1. /\ Sound(c)
        /\ requests[c] \in Nat /\ reopened[c] \in Nat /\ faults \in Nat
        /\ Cardinality(Holders(c)) \in Nat /\ Cardinality(Senders(c)) \in Nat
    BY Counted
  <2>2. Offer(c) = 1 /\ Offer(c)' = 0
    BY <1>1, <1>2 DEF Offer, TypeOK
  <2>3. /\ Cardinality(Holders(c))' <= Cardinality(Holders(c)) + 1
        /\ Cardinality(Senders(c))' <= Cardinality(Senders(c)) + 1
        /\ Cardinality(Holders(c))' \in Nat /\ Cardinality(Senders(c))' \in Nat
    BY <1>2, Hands, OneHandMore, FS_AddElement, FS_CardinalityType
  <2>4. Holders(c)' # Senders(c)' => Holders(c) # Senders(c)
    BY <1>2
  <2>5. lock'[c] = "held" /\ (Disturbed(c)' <=> Disturbed(c))
    BY <1>1 DEF TypeOK, Disturbed
  <2> QED BY <1>1, <2>1, <2>2, <2>3, <2>4, <2>5 DEF Sound
<1>4. \A d \in Commands : d # c => Untouched(d)
  BY <1>1, <1>2 DEF Untouched, SameRow, TypeOK
<1>5. KeepsReaders
  <2>1. \A v \in Workers : \A d \in batch'[v] \cup todo'[v] :
          d \in batch[v] \cup todo[v] \/ outbox[d] # "None"
    BY <1>1 DEF TakeRow, TypeOK
  <2> QED BY <1>1, <2>1, WorkersKeepReaders
<1>6. faults' >= faults
  BY <1>1 DEF TypeOK
<1> QED BY <1>3, <1>4, <1>5, <1>6, RowsDecide

LEMMA ClaimRowLatePreserves ==
  ASSUME IInv, TypeOK', NEW w \in Workers, NEW c \in Commands, ClaimRowLate(w, c)
  PROVE  IInv'
<1>1. /\ TypeOK /\ TakeRow(w, c) /\ Fault
      /\ UNCHANGED <<outbox, requests, selected, doomed, replayed, reopened>>
      /\ lock' = [lock EXCEPT ![c] = "stale"] /\ overrun' = [overrun EXCEPT ![c] = TRUE]
      /\ outbox[c] = "Queued"
  BY DEF IInv, ClaimRowLate, TakeRow, StillUnlocked, topicVars, operatorVars
<1>2. /\ \A d \in Commands : d # c => SameHands(d)
      /\ Holders(c)' = Holders(c) \cup {w} /\ Senders(c)' = Senders(c) \cup {w}
  BY <1>1, TakingHand
<1>3. Sound(c)'
  <2>1. Sound(c)
    BY Counted
  <2>2. Holders(c)' # Senders(c)' => Holders(c) # Senders(c)
    BY <1>2
  <2>3. overrun'[c] /\ Disturbed(c)'
    BY <1>1 DEF TypeOK, Disturbed
  <2> QED BY <1>1, <2>1, <2>2, <2>3 DEF Sound
<1>4. \A d \in Commands : d # c => Untouched(d)
  BY <1>1, <1>2 DEF Untouched, SameRow, TypeOK
<1>5. KeepsReaders
  <2>1. \A v \in Workers : \A d \in batch'[v] \cup todo'[v] :
          d \in batch[v] \cup todo[v] \/ outbox[d] # "None"
    BY <1>1 DEF TakeRow, TypeOK
  <2>2. \A d \in Commands : overrun[d] => overrun'[d]
    BY <1>1 DEF TypeOK
  <2> QED BY <1>1, <2>1, <2>2, WorkersKeepReaders
<1> QED BY <1>1, <1>3, <1>4, <1>5, FaultCounts, RowsDecide

LEMMA UnroutablePreserves ==
  ASSUME IInv, TypeOK', NEW w \in Workers, NEW c \in Commands, Unroutable(w, c)
  PROVE  IInv'
<1>1. TypeOK /\ faults' >= faults
  BY DEF IInv, TypeOK, Unroutable, envVars
<1>2. \A v \in Workers : pc'[v] = pc[v]
                         \/ {pc[v], pc'[v]} \cap {"published", "deadlettering"} = {}
  BY <1>1 DEF Unroutable, TypeOK
<1>3. \A d \in Commands : SameHands(d)
  BY <1>2, IdleHands DEF Unroutable
<1> QED BY <1>1, <1>3, QuietStep
        DEF Unroutable, rowVars, topicVars, claimVars, envVars, operatorVars

\* A worker that sent row c, or failed to, has one row to account for.
LEMMA OutcomeAt ==
  ASSUME IInv, TypeOK', NEW w \in Workers, NEW c \in Commands,
         faults' >= faults, Sound(c)',
         \A d \in Commands : d # c => SameHands(d) /\ requests'[d] = requests[d],
         UNCHANGED <<outbox, lock, overrun, batch, todo, selected, doomed, replayed, reopened>>
  PROVE  IInv'
<1>1. \A d \in Commands : d # c => Untouched(d)
  BY DEF Untouched, SameRow
<1>2. KeepsReaders
  BY WorkersKeepReaders
<1> QED BY <1>1, <1>2, RowsDecide

LEMMA PublishRequestPreserves ==
  ASSUME IInv, TypeOK', NEW w \in Workers, NEW c \in Commands, PublishRequest(w, c)
  PROVE  IInv'
<1>1. /\ TypeOK /\ Oldest(c, batch[w]) /\ pc[w] = "publishing" /\ c \notin Vehicle
      /\ UNCHANGED <<outbox, lock, overrun, batch, todo, faults, selected, doomed,
                     replayed, reopened>>
      /\ requests' = [requests EXCEPT ![c] = @ + 1]
      /\ pc' = [pc EXCEPT ![w] = "published"]
  BY DEF IInv, PublishRequest, rowVars, claimVars, envVars, operatorVars
<1>2. /\ \A d \in Commands : d # c => SameHands(d)
      /\ Holders(c)' = Holders(c)
      /\ Senders(c)' = Senders(c) \ {w} /\ w \in Senders(c)
  BY <1>1, TurningHand
<1>3. Sound(c)'
  <2>1. /\ Sound(c)
        /\ requests[c] \in Nat /\ reopened[c] \in Nat /\ faults \in Nat
        /\ Cardinality(Holders(c)) \in Nat /\ Cardinality(Senders(c)) \in Nat
        /\ Offer(c) \in {0, 1}
    BY Counted
  <2>2. Offer(c)' = Offer(c) /\ (Disturbed(c)' <=> Disturbed(c))
    BY <1>1, <1>2 DEF Offer, Disturbed
  <2>3. /\ Cardinality(Senders(c))' = Cardinality(Senders(c)) - 1
        /\ Cardinality(Holders(c))' = Cardinality(Holders(c))
    BY <1>2, Hands, OneHandLess
  <2>4. requests'[c] = requests[c] + 1
    BY <1>1 DEF TypeOK
  <2> QED BY <1>1, <1>2, <2>1, <2>2, <2>3, <2>4 DEF Sound
<1> QED BY <1>1, <1>2, <1>3, OutcomeAt DEF TypeOK

(* A worker whose attempt failed may try again; a fault pays for what it may *)
(* have sent, or have failed to record. *)
LEMMA FailedAttempt ==
  ASSUME IInv, TypeOK', NEW w \in Workers, NEW c \in Commands,
         Oldest(c, batch[w]), pc[w] \in {"publishing", "published"},
         pc' = [pc EXCEPT ![w] = "failing"],
         UNCHANGED <<outbox, lock, overrun, batch, todo, selected, doomed, replayed, reopened>>,
         \/ pc[w] = "publishing" /\ UNCHANGED <<requests, faults>>
         \/ /\ faults' = faults + 1
            /\ \/ UNCHANGED requests
               \/ /\ pc[w] = "publishing"
                  /\ requests' = [requests EXCEPT ![c] = @ + 1]
  PROVE  IInv'
<1>1. TypeOK /\ faults \in Nat /\ faults' >= faults
  BY DEF IInv, TypeOK
<1>2. /\ \A d \in Commands : d # c => SameHands(d)
      /\ Holders(c)' = Holders(c)
      /\ Senders(c)' = Senders(c) \cup {w}
      /\ pc[w] = "publishing" => w \in Senders(c)
      /\ w \in Holders(c)
  BY <1>1, TurningHand
<1>3. Sound(c)'
  <2>1. /\ Sound(c)
        /\ requests[c] \in Nat /\ reopened[c] \in Nat /\ faults \in Nat
        /\ Cardinality(Holders(c)) \in Nat /\ Cardinality(Senders(c)) \in Nat
        /\ Offer(c) \in {0, 1}
    BY Counted
  <2>2. Offer(c)' = Offer(c) /\ (Disturbed(c)' <=> Disturbed(c))
    BY <1>2 DEF Offer, Disturbed
  <2>3. /\ Cardinality(Senders(c))' <= Cardinality(Senders(c)) + 1
        /\ Cardinality(Senders(c))' \in Nat
        /\ pc[w] = "publishing" => Cardinality(Senders(c))' = Cardinality(Senders(c))
        /\ Cardinality(Holders(c))' = Cardinality(Holders(c))
    <3>1. pc[w] = "publishing" => Senders(c)' = Senders(c)
      BY <1>2
    <3> QED BY <1>2, <3>1, Hands, OneHandMore, FS_AddElement, FS_CardinalityType
  <2>4. /\ requests'[c] >= requests[c] /\ requests'[c] <= requests[c] + 1
        /\ requests'[c] \in Nat
    BY <1>1 DEF TypeOK
  <2>5. Holders(c)' # Senders(c)' => Holders(c) # Senders(c)
    BY <1>2
  <2>6. requests'[c] = requests[c] \/ (pc[w] = "publishing" /\ requests'[c] = requests[c] + 1)
    BY <1>1 DEF TypeOK
  <2>7. Cardinality(Holders(c))' + Offer(c)' = Cardinality(Holders(c)) + Offer(c)
    BY <2>2, <2>3
  <2>8. ~overrun[c] => requests'[c] + Cardinality(Senders(c))' + Offer(c)'
                         <= 1 + faults' + reopened[c]
    BY <2>1, <2>2, <2>3, <2>4, <2>6 DEF Sound
  <2> QED BY <1>2, <2>1, <2>2, <2>4, <2>5, <2>7, <2>8 DEF Sound
<1>4. \A d \in Commands : d # c => requests'[d] = requests[d]
  BY <1>1 DEF TypeOK
<1> QED BY <1>1, <1>2, <1>3, <1>4, OutcomeAt

LEMMA PublishRejectedPreserves ==
  ASSUME IInv, TypeOK', NEW w \in Workers, NEW c \in Commands, PublishRejected(w, c)
  PROVE  IInv'
  BY FailedAttempt DEF PublishRejected, CatchFailure, Fault, rowVars, claimVars, operatorVars

LEMMA SettleFailsPreserves ==
  ASSUME IInv, TypeOK', NEW w \in Workers, NEW c \in Commands, SettleFails(w, c)
  PROVE  IInv'
  BY FailedAttempt DEF SettleFails, CatchFailure, Fault, rowVars, topicVars, claimVars,
                       operatorVars

(* A worker that writes an outcome writes an undisturbed row while it is queued, *)
(* and leaves one hand less on it. *)
LEMMA OutcomeWritten ==
  ASSUME IInv, TypeOK', NEW w \in Workers, NEW c \in Commands,
         NEW s \in {"Queued", "Published", "DeadLettered"},
         Oldest(c, batch[w]), pc[w] # "deadlettering", WriteRow(c, s),
         \/ DropFromBatch(w, c)
         \/ /\ UNCHANGED batch /\ pc[w] = "failing"
            /\ pc' = [pc EXCEPT ![w] = "deadlettering"],
         pc[w] = "published" => s = "Published",
         s = "Published" => c \in Vehicle \/ requests[c] > 0,
         UNCHANGED <<requests, faults, overrun, todo, selected, doomed, replayed, reopened>>
  PROVE  IInv'
<1>1. TypeOK /\ Sound(c)
  BY Counted DEF IInv
<1>2. /\ \A d \in Commands : d # c => SameHands(d)
      /\ Holders(c)' = Holders(c) \ {w} /\ Senders(c)' = Senders(c) \ {w}
  BY <1>1, LeavingHand
<1>3. w \in Holders(c) /\ (pc[w] # "published" => w \in Senders(c))
  BY DEF Holders, Senders, Holds, Unrecorded, Oldest
<1>4. outbox'[c] = s /\ lock'[c] = "free" /\ ~Gone(c)
  BY <1>1 DEF WriteRow, TypeOK
<1>5. outbox[c] # "None"
  BY <1>3 DEF IInv, RowsInUseExist, InUse, Holders, Holds
<1>6. outbox[c] = "Queued" \/ replayed[c] \/ overrun[c]
  BY <1>1, <1>3, <1>4 DEF Sound, Disturbed, Gone
<1>7. Sound(c)'
  <2>1. /\ requests[c] \in Nat /\ reopened[c] \in Nat /\ faults \in Nat
        /\ Cardinality(Holders(c)) \in Nat /\ Cardinality(Senders(c)) \in Nat
        /\ Offer(c) \in {0, 1}
    BY Counted
  <2>2. /\ Offer(c)' \in {0, 1} /\ (pc[w] = "published" => Offer(c)' = 0)
        /\ Disturbed(c)' <=> Disturbed(c)
    BY <1>4 DEF Offer, Disturbed
  <2>3. Cardinality(Holders(c))' = Cardinality(Holders(c)) - 1
    BY <1>2, <1>3, Hands, OneHandLess
  <2>4. IF pc[w] = "published" THEN Cardinality(Senders(c))' <= Cardinality(Senders(c))
                               ELSE Cardinality(Senders(c))' = Cardinality(Senders(c)) - 1
    BY <1>2, <1>3, Hands, OneHandLess
  <2>5. Cardinality(Senders(c))' \in Nat /\ Cardinality(Holders(c))' \in Nat
    BY <1>2, Hands, FS_RemoveElement, FS_CardinalityType
  <2>6. ~overrun[c] => Cardinality(Holders(c))' + Offer(c)' <= 1 + reopened[c]
    BY <1>1, <2>1, <2>2, <2>3 DEF Sound
  <2>7. ~overrun[c] => requests[c] + Cardinality(Senders(c))' + Offer(c)'
                         <= 1 + faults + reopened[c]
    BY <1>1, <2>1, <2>2, <2>4, <2>5 DEF Sound
  <2>8. Holders(c)' # Senders(c)' => Holders(c) # Senders(c)
    BY <1>2
  <2>9. ~Disturbed(c) => Holders(c)' = {}
    <3>1. ~Disturbed(c) => Cardinality(Holders(c))' = 0
      BY <1>1, <2>1, <2>3, <2>5 DEF Sound, Disturbed
    <3> QED BY <1>2, <3>1, Hands, FS_RemoveElement, FS_EmptySet
  <2> QED BY <1>1, <1>4, <2>2, <2>6, <2>7, <2>8, <2>9 DEF Sound
<1>8. \A d \in Commands : d # c => Untouched(d)
  BY <1>1, <1>2 DEF Untouched, SameRow, WriteRow, TypeOK
<1>9. KeepsReaders
  <2>1. \A v \in Workers : batch'[v] \subseteq batch[v]
    <3>1. batch' = [batch EXCEPT ![w] = @ \ {c}] \/ batch' = batch
      BY DEF DropFromBatch
    <3> QED BY <1>1, <3>1 DEF TypeOK
  <2>2. \A d \in Commands : d # c => outbox'[d] = outbox[d]
    BY <1>8 DEF Untouched, SameRow
  <2> QED BY <1>4, <1>5, <1>6, <2>1, <2>2, WorkersKeepReaders
<1> QED BY <1>1, <1>7, <1>8, <1>9, RowsDecide DEF TypeOK

LEMMA MarkSentPreserves ==
  ASSUME IInv, TypeOK', NEW w \in Workers, NEW c \in Commands, MarkSent(w, c)
  PROVE  IInv'
<1>1. requests[c] > 0
  BY DEF MarkSent, IInv, UnrecordedWasSent, Unrecorded
<1> QED BY <1>1, OutcomeWritten DEF MarkSent, topicVars, claimVars, envVars, operatorVars

LEMMA ConfirmVehiclePreserves ==
  ASSUME IInv, TypeOK', NEW w \in Workers, NEW c \in Commands, ConfirmVehicle(w, c)
  PROVE  IInv'
  BY OutcomeWritten DEF ConfirmVehicle, topicVars, claimVars, envVars, operatorVars

LEMMA ScheduleRetryPreserves ==
  ASSUME IInv, TypeOK', NEW w \in Workers, NEW c \in Commands, ScheduleRetry(w, c)
  PROVE  IInv'
  BY OutcomeWritten DEF ScheduleRetry, topicVars, claimVars, envVars, operatorVars

LEMMA MoveToDeadLetterPreserves ==
  ASSUME IInv, TypeOK', NEW w \in Workers, NEW c \in Commands, MoveToDeadLetter(w, c)
  PROVE  IInv'
  BY OutcomeWritten DEF MoveToDeadLetter, topicVars, claimVars, envVars, operatorVars

LEMMA AnnounceDeadLetterPreserves ==
  ASSUME IInv, TypeOK', NEW w \in Workers, NEW c \in Commands, AnnounceDeadLetter(w, c)
  PROVE  IInv'
<1>1. TypeOK /\ Oldest(c, batch[w]) /\ DropFromBatch(w, c) /\ pc[w] = "deadlettering"
  BY DEF IInv, AnnounceDeadLetter
<1>2. /\ \A d \in Commands : d # c => SameHands(d)
      /\ Holders(c)' = Holders(c) \ {w} /\ Senders(c)' = Senders(c) \ {w}
  BY <1>1, LeavingHand
<1>3. w \notin Holders(c) /\ w \notin Senders(c)
  BY <1>1 DEF Holders, Senders, Holds
<1>4. \A d \in Commands : SameHands(d)
  BY <1>2, <1>3 DEF SameHands
<1>5. \A v \in Workers : batch'[v] \subseteq batch[v]
  BY <1>1 DEF DropFromBatch, TypeOK
<1>6. faults' >= faults
  BY <1>1 DEF AnnounceDeadLetter, envVars, TypeOK
<1> QED BY <1>4, <1>5, <1>6, QuietStep
        DEF AnnounceDeadLetter, rowVars, topicVars, claimVars, envVars, operatorVars

(* A worker that gives up its tick leaves its rows locked and on offer again; *)
(* what it has sent and not recorded may be sent once more, at a fault's cost. *)
LEMMA GivenUp ==
  ASSUME IInv, TypeOK', NEW w \in Workers, GiveUpTick(w), faults' >= faults,
         UNCHANGED <<outbox, lock, requests, overrun, selected, doomed, replayed, reopened>>,
         \/ faults' = faults + 1
         \/ \A d \in Commands : Unrecorded(w, d) => Gone(d)
  PROVE  IInv'
<1>1. TypeOK /\ TypeOK' /\ faults' \in Nat
  BY DEF IInv, TypeOK
<1>2. ASSUME NEW d \in Commands PROVE Sound(d)'
  <2>1. /\ Sound(d)
        /\ requests[d] \in Nat /\ reopened[d] \in Nat /\ faults \in Nat
        /\ Cardinality(Holders(d)) \in Nat /\ Cardinality(Senders(d)) \in Nat
        /\ Offer(d) \in {0, 1}
    BY Counted
  <2>2. Holders(d)' = Holders(d) \ {w} /\ Senders(d)' = Senders(d) \ {w}
    BY <1>1, DroppedHands
  <2>3. /\ Cardinality(Holders(d))' <= Cardinality(Holders(d))
        /\ Cardinality(Senders(d))' <= Cardinality(Senders(d))
        /\ Cardinality(Holders(d))' \in Nat /\ Cardinality(Senders(d))' \in Nat
        /\ w \in Holders(d) => Cardinality(Holders(d))' = Cardinality(Holders(d)) - 1
        /\ w \in Senders(d) => Cardinality(Senders(d))' = Cardinality(Senders(d)) - 1
    BY <2>2, Hands, OneHandLess, FS_RemoveElement, FS_CardinalityType
  <2>4. /\ Offer(d)' \in {0, 1}
        /\ w \notin Holders(d) => Offer(d)' = Offer(d)
        /\ Gone(d) => Offer(d)' = 0
    BY <2>2 DEF Offer, Gone
  <2>5. Disturbed(d)' <=> Disturbed(d)
    BY DEF Disturbed
  <2>6. w \in Holders(d) => w \in Senders(d) \/ Unrecorded(w, d)
    BY DEF Holders, Senders
  <2>7. ~overrun[d] => Cardinality(Holders(d))' + Offer(d)' <= 1 + reopened[d]
    <3>1. CASE w \in Holders(d)
      BY <3>1, <2>1, <2>3, <2>4 DEF Sound
    <3>2. CASE w \notin Holders(d)
      BY <3>2, <2>1, <2>3, <2>4 DEF Sound
    <3> QED BY <3>1, <3>2
  <2>8. ~overrun[d] => requests[d] + Cardinality(Senders(d))' + Offer(d)'
                         <= 1 + faults' + reopened[d]
    <3>1. CASE w \in Senders(d)
      BY <3>1, <1>1, <2>1, <2>3, <2>4 DEF Sound
    <3>2. CASE w \notin Holders(d)
      BY <3>2, <1>1, <2>1, <2>3, <2>4 DEF Sound
    <3>3. CASE Unrecorded(w, d) /\ Gone(d)
      BY <3>3, <1>1, <2>1, <2>3, <2>4 DEF Sound
    <3>4. CASE faults' = faults + 1
      BY <3>4, <1>1, <2>1, <2>3, <2>4 DEF Sound
    <3> QED BY <2>6, <3>1, <3>2, <3>3, <3>4
  <2>9. Holders(d)' # Senders(d)' => Holders(d) # Senders(d)
    BY <2>2
  <2>10. Holders(d)' # {} => Holders(d) # {}
    BY <2>2
  <2> QED BY <2>1, <2>5, <2>7, <2>8, <2>9, <2>10 DEF Sound
<1>3. KeepsReaders
  <2>1. \A v \in Workers : batch'[v] \cup todo'[v] \subseteq batch[v] \cup todo[v]
    BY <1>1 DEF GiveUpTick, TypeOK
  <2> QED BY <2>1, WorkersKeepReaders
<1> QED BY <1>2, <1>3, RowsDecide

LEMMA AbortTickPreserves ==
  ASSUME IInv, TypeOK', NEW w \in Workers, AbortTick(w)
  PROVE  IInv'
<1>1. faults' >= faults
  BY FaultCounts DEF IInv, AbortTick
<1> QED BY <1>1, GivenUp DEF AbortTick, Fault, rowVars, topicVars, operatorVars

LEMMA CrashPreserves ==
  ASSUME IInv, TypeOK', NEW w \in Workers, Crash(w)
  PROVE  IInv'
<1>1. faults' >= faults
  BY FaultCounts DEF IInv, Crash
<1> QED BY <1>1, GivenUp DEF Crash, Fault, rowVars, topicVars, operatorVars

LEMMA RowIsGonePreserves ==
  ASSUME IInv, TypeOK', NEW w \in Workers, NEW c \in Commands, RowIsGone(w, c)
  PROVE  IInv'
<1>1. \A d \in Commands : Unrecorded(w, d) => Gone(d)
  BY OneOldest DEF RowIsGone, Unrecorded
<1>2. faults' >= faults
  BY DEF RowIsGone, envVars, IInv, TypeOK
<1> QED BY <1>1, <1>2, GivenUp DEF RowIsGone, rowVars, topicVars, envVars, operatorVars

LEMMA LockExpiresPreserves ==
  ASSUME IInv, TypeOK', NEW c \in Commands, LockExpires(c)
  PROVE  IInv'
<1>1. /\ TypeOK /\ lock[c] = "held"
      /\ UNCHANGED <<outbox, requests, pc, todo, batch, faults, selected, doomed,
                     replayed, reopened>>
      /\ lock' = [lock EXCEPT ![c] = "stale"]
      /\ overrun' = [overrun EXCEPT ![c] = @ \/ Holders(c) # {}]
  BY DEF IInv, LockExpires, topicVars, claimVars, envVars, operatorVars
<1>2. \A d \in Commands : SameHands(d)
  BY <1>1, IdleHands
<1>3. Sound(c)'
  <2>1. /\ Sound(c)
        /\ requests[c] \in Nat /\ reopened[c] \in Nat /\ faults \in Nat
        /\ Cardinality(Holders(c)) \in Nat /\ Cardinality(Senders(c)) \in Nat
    BY Counted
  <2>2. ~overrun'[c] => ~overrun[c] /\ Holders(c) = {}
    BY <1>1 DEF TypeOK
  <2>3. ~overrun'[c] => Offer(c)' = Offer(c)
    BY <1>1, <1>2, <2>2 DEF Offer, SameHands, TypeOK
  <2>4. ~Disturbed(c)' => Holders(c)' = {}
    BY <1>2, <2>2 DEF Disturbed, SameHands
  <2>5. ~overrun'[c] => Cardinality(Holders(c))' + Offer(c)' <= 1 + reopened[c]
    BY <1>2, <2>1, <2>2, <2>3 DEF Sound, SameHands
  <2>6. ~overrun'[c] => requests[c] + Cardinality(Senders(c))' + Offer(c)'
                          <= 1 + faults + reopened[c]
    BY <1>2, <2>1, <2>2, <2>3 DEF Sound, SameHands
  <2> QED BY <1>1, <1>2, <2>1, <2>4, <2>5, <2>6 DEF Sound, SameHands
<1>4. \A d \in Commands : d # c => Untouched(d)
  BY <1>1, <1>2 DEF Untouched, SameRow, TypeOK
<1>5. KeepsReaders
  <2>1. \A d \in Commands : overrun[d] => overrun'[d]
    BY <1>1 DEF TypeOK
  <2> QED BY <1>1, <2>1, WorkersKeepReaders
<1> QED BY <1>1, <1>3, <1>4, <1>5, RowsDecide DEF TypeOK

LEMMA CreateOutboxRowPreserves ==
  ASSUME IInv, TypeOK', NEW c \in Commands, CreateOutboxRow(c)
  PROVE  IInv'
<1>1. /\ TypeOK /\ outbox[c] = "None"
      /\ UNCHANGED <<lock, requests, pc, todo, batch, faults, overrun, selected, doomed,
                     replayed, reopened>>
      /\ outbox' = [outbox EXCEPT ![c] = "Queued"]
  BY CommandsAssumption DEF IInv, CreateOutboxRow, topicVars, claimVars, envVars, operatorVars
<1>2. \A d \in Commands : SameHands(d)
  BY <1>1, IdleHands
<1>3. Holders(c) = {}
  BY <1>1 DEF IInv, RowsInUseExist, InUse, Holders, Holds
<1>4. Sound(c)'
  <2>1. Offer(c) = 1 /\ Offer(c)' = 1 /\ outbox'[c] = "Queued"
    BY <1>1, <1>2, <1>3 DEF Offer, SameHands, TypeOK
  <2> QED BY <1>1, <1>2, <1>3, <2>1, Counted DEF Sound, SameHands, Disturbed
<1>5. \A d \in Commands : d # c => Untouched(d)
  BY <1>1, <1>2 DEF Untouched, SameRow, TypeOK
<1>6. KeepsReaders
  <2>1. \A d \in Commands : (d # c => outbox'[d] = outbox[d]) /\ outbox'[c] = "Queued"
    BY <1>1 DEF TypeOK
  <2> QED BY <1>1, <2>1 DEF KeepsReaders, InUse, Gone
<1> QED BY <1>1, <1>4, <1>5, <1>6, RowsDecide DEF TypeOK

LEMMA SelectDeadLettersPreserves ==
  ASSUME IInv, TypeOK', NEW r \in Replayers, SelectDeadLetters(r)
  PROVE  IInv'
<1>1. /\ TypeOK
      /\ UNCHANGED <<outbox, lock, requests, pc, todo, batch, faults, overrun, doomed,
                     replayed, reopened>>
      /\ \A q \in Replayers : \A c \in selected'[q] :
           c \in selected[q] \/ (c \in Commands /\ outbox[c] = "DeadLettered")
  BY DEF IInv, SelectDeadLetters, TypeOK, rowVars, topicVars, claimVars
<1>2. /\ \A c \in Commands : Sound(c)'
  <2>1. \A d \in Commands : Untouched(d) /\ Sound(d)
    BY <1>1, IdleHands, Counted DEF Untouched, SameRow
  <2>2. faults' >= faults
    BY <1>1 DEF TypeOK
  <2> QED BY <1>1, <2>1, <2>2, UntouchedStaysSound
<1>3. RowsInUseExist'
  BY <1>1 DEF IInv, RowsInUseExist, InUse
<1>4. SelectedWereDead' /\ DoomedWereSettled'
  BY <1>1 DEF IInv, SelectedWereDead, DoomedWereSettled, Gone
<1> QED BY <1>2, <1>3, <1>4, SoundRowsSuffice

LEMMA FindOldRowsPreserves ==
  ASSUME IInv, TypeOK', NEW k \in Cleaners, FindOldRows(k)
  PROVE  IInv'
<1>1. /\ TypeOK
      /\ UNCHANGED <<outbox, lock, requests, pc, todo, batch, faults, overrun, selected,
                     replayed, reopened>>
      /\ \A q \in Cleaners : \A c \in doomed'[q] :
           c \in doomed[q] \/ (c \in Commands /\ outbox[c] \in {"Published", "DeadLettered"})
  BY DEF IInv, FindOldRows, TypeOK, rowVars, topicVars, claimVars, operatorVars
<1>2. /\ \A c \in Commands : Sound(c)'
  <2>1. \A d \in Commands : Untouched(d) /\ Sound(d)
    BY <1>1, IdleHands, Counted DEF Untouched, SameRow
  <2>2. faults' >= faults
    BY <1>1 DEF TypeOK
  <2> QED BY <1>1, <2>1, <2>2, UntouchedStaysSound
<1>3. RowsInUseExist'
  BY <1>1 DEF IInv, RowsInUseExist, InUse
<1>4. SelectedWereDead' /\ DoomedWereSettled'
  BY <1>1 DEF IInv, SelectedWereDead, DoomedWereSettled, Gone
<1> QED BY <1>2, <1>3, <1>4, SoundRowsSuffice

(* A replay or a retention job that stops forgets what it has read. *)
LEMMA AbandonPreserves ==
  ASSUME IInv, TypeOK',
         \/ \E r \in Replayers : AbandonReplay(r)
         \/ \E k \in Cleaners : AbandonCleanup(k)
  PROVE  IInv'
<1>1. /\ TypeOK
      /\ UNCHANGED <<outbox, lock, requests, pc, todo, batch, faults, overrun, replayed,
                     reopened>>
  BY DEF IInv, AbandonReplay, AbandonCleanup, rowVars, topicVars, claimVars, operatorVars
<1>2. /\ \A r \in Replayers : selected'[r] \subseteq selected[r]
      /\ \A k \in Cleaners : doomed'[k] \subseteq doomed[k]
  <2>1. CASE \E r \in Replayers : AbandonReplay(r)
    BY <1>1, <2>1 DEF AbandonReplay, TypeOK
  <2>2. CASE \E k \in Cleaners : AbandonCleanup(k)
    BY <1>1, <2>2 DEF AbandonCleanup, operatorVars, TypeOK
  <2> QED BY <2>1, <2>2
<1>3. KeepsReaders
  BY <1>1, <1>2 DEF KeepsReaders, InUse, Gone
<1>4. \A d \in Commands : Untouched(d)
  BY <1>1, IdleHands DEF Untouched, SameRow
<1> QED BY <1>1, <1>3, <1>4, RowsDecide DEF TypeOK

(* A replay puts its row on offer: a dead letter was on offer already, and any *)
(* other row is counted as reopened. *)
LEMMA ReplayDeadLetterPreserves ==
  ASSUME IInv, TypeOK', NEW r \in Replayers, NEW c \in Commands, ReplayDeadLetter(r, c)
  PROVE  IInv'
<1>1. /\ TypeOK /\ c \in selected[r] /\ ~Gone(c)
      /\ UNCHANGED <<requests, pc, todo, batch, faults, overrun, doomed>>
      /\ outbox' = [outbox EXCEPT ![c] = "Queued"] /\ lock' = [lock EXCEPT ![c] = "free"]
      /\ replayed' = [replayed EXCEPT ![c] = TRUE]
      /\ reopened' = [reopened EXCEPT ![c] = IF outbox[c] = "DeadLettered" THEN @ ELSE @ + 1]
      /\ selected' = [selected EXCEPT ![r] = @ \ {c}]
  BY DEF IInv, ReplayDeadLetter, topicVars, claimVars
<1>2. \A d \in Commands : SameHands(d)
  BY <1>1, IdleHands
<1>3. Sound(c)'
  <2>1. /\ Sound(c)
        /\ requests[c] \in Nat /\ reopened[c] \in Nat /\ faults \in Nat
        /\ Cardinality(Holders(c)) \in Nat /\ Cardinality(Senders(c)) \in Nat
        /\ Offer(c) \in {0, 1}
    BY Counted
  <2>2. /\ Offer(c)' = 1 /\ outbox'[c] = "Queued" /\ replayed'[c]
        /\ reopened'[c] = IF outbox[c] = "DeadLettered" THEN reopened[c] ELSE reopened[c] + 1
    BY <1>1 DEF Offer, TypeOK
  <2>3. outbox[c] = "DeadLettered" => Offer(c) = 1
    BY DEF Offer
  <2>4. ~overrun[c] => Cardinality(Holders(c)) + Offer(c)' <= 1 + reopened'[c]
    BY <2>1, <2>2, <2>3 DEF Sound
  <2>5. ~overrun[c] => requests[c] + Cardinality(Senders(c)) + Offer(c)'
                         <= 1 + faults + reopened'[c]
    BY <2>1, <2>2, <2>3 DEF Sound
  <2>6. ~Disturbed(c)' => Holders(c) = {}
    <3>1. ~Disturbed(c)' => ~overrun[c] /\ reopened'[c] = 0
      BY <1>1 DEF Disturbed, TypeOK
    <3>2. ~Disturbed(c)' => Cardinality(Holders(c)) = 0
      BY <2>1, <2>2, <2>4, <3>1
    <3> QED BY <3>2, Hands
  <2> QED BY <1>1, <1>2, <2>1, <2>2, <2>4, <2>5, <2>6 DEF Sound, SameHands
<1>4. \A d \in Commands : d # c => Untouched(d)
  BY <1>1, <1>2 DEF Untouched, SameRow, TypeOK
<1>5. KeepsReaders
  <2>1. outbox'[c] = "Queued" /\ replayed'[c]
    BY <1>1 DEF TypeOK
  <2>2. \A q \in Replayers : selected'[q] \subseteq selected[q]
    BY <1>1 DEF TypeOK
  <2>3. \A d \in Commands : InUse(d)' => InUse(d)
    BY <1>1, <2>2 DEF InUse
  <2>4. \A d \in Commands : d # c => outbox'[d] = outbox[d] /\ replayed'[d] = replayed[d]
    BY <1>4 DEF Untouched, SameRow
  <2> QED BY <1>1, <2>1, <2>2, <2>3, <2>4 DEF KeepsReaders, Gone
<1> QED BY <1>1, <1>3, <1>4, <1>5, RowsDecide DEF TypeOK

(* A deleted row is on offer no more; whoever has it in hand still holds it. *)
LEMMA DeleteOldRowsPreserves ==
  ASSUME IInv, TypeOK', NEW k \in Cleaners, DeleteOldRows(k)
  PROVE  IInv'
<1>1. /\ TypeOK
      /\ UNCHANGED <<lock, requests, pc, todo, batch, faults, overrun, selected, replayed,
                     reopened>>
      /\ doomed' = [doomed EXCEPT ![k] = {}]
  BY DEF IInv, DeleteOldRows, topicVars, claimVars, operatorVars
<1>2. \A d \in Commands :
        outbox'[d] = IF d \notin doomed[k] \/ Gone(d) THEN outbox[d]
                     ELSE IF outbox[d] = "Queued" THEN "Lost" ELSE "Purged"
  BY DEF DeleteOldRows
<1>3. \A d \in Commands : SameHands(d)
  BY <1>1, IdleHands
<1>4. ASSUME NEW d \in Commands, outbox'[d] # outbox[d] PROVE Sound(d)'
  <2>1. /\ Sound(d)
        /\ requests[d] \in Nat /\ reopened[d] \in Nat /\ faults \in Nat
        /\ Cardinality(Holders(d)) \in Nat /\ Cardinality(Senders(d)) \in Nat
        /\ Offer(d) \in {0, 1}
    BY Counted
  <2>2. /\ outbox'[d] = IF outbox[d] = "Queued" THEN "Lost" ELSE "Purged"
        /\ outbox[d] # "Lost"
    BY <1>2, <1>4 DEF Gone
  <2>3. Offer(d)' = 0
    BY <2>2 DEF Offer
  <2> QED BY <1>1, <1>3, <2>1, <2>2, <2>3 DEF Sound, SameHands, Disturbed
<1>5. \A d \in Commands : outbox'[d] = outbox[d] => Untouched(d)
  BY <1>1, <1>3 DEF Untouched, SameRow
<1>6. KeepsReaders
  <2>1. \A j \in Cleaners : doomed'[j] \subseteq doomed[j]
    BY <1>1 DEF TypeOK
  <2>2. \A d \in Commands : InUse(d)' => InUse(d)
    BY <1>1, <2>1 DEF InUse
  <2>3. \A d \in Commands : outbox'[d] = outbox[d] \/ Gone(d)'
    BY <1>2 DEF Gone
  <2> QED BY <1>1, <2>1, <2>2, <2>3, <1>2 DEF KeepsReaders, Gone
<1> QED BY <1>1, <1>4, <1>5, <1>6, RowsDecide DEF TypeOK

(* A broker that fails touches no row. *)
LEMMA KafkaFailsPreserves == IInv /\ TypeOK' /\ KafkaFails => IInv'
<1> SUFFICES ASSUME IInv, TypeOK', KafkaFails PROVE IInv'
  OBVIOUS
<1>1. faults' >= faults
  BY FaultCounts DEF IInv, KafkaFails
<1> QED BY <1>1, StillStep DEF KafkaFails, rowVars, topicVars, claimVars, operatorVars

(* The invariant is inductive. *)
LEMMA IInvInit == Init => IInv
<1> SUFFICES ASSUME Init PROVE IInv
  OBVIOUS
<1>1. TypeOK
  BY DEF Init, TypeOK, CommandStates, OutboxStates, WorkerStates
<1>2. \A c \in Commands : Holders(c) = {}
  BY DEF Init, Holders, Holds
<1>3. ASSUME NEW c \in Commands PROVE Sound(c)
  <2>1. Offer(c) = 1 /\ Holders(c) = {} /\ Senders(c) = {}
    BY <1>2, Hands DEF Init, Offer
  <2>2. Cardinality(Holders(c)) = 0 /\ Cardinality(Senders(c)) = 0
    BY <2>1, FS_EmptySet
  <2> QED BY <2>1, <2>2 DEF Init, Sound, Disturbed
<1>4. RowsInUseExist /\ SelectedWereDead /\ DoomedWereSettled
  BY DEF Init, RowsInUseExist, InUse, SelectedWereDead, DoomedWereSettled
<1> QED BY <1>1, <1>3, <1>4, InvariantByRow

LEMMA IInvStep == IInv /\ [Next]_vars => IInv'
<1> SUFFICES ASSUME IInv, [Next]_vars PROVE IInv'
  OBVIOUS
<1>1. TypeOK' /\ faults \in Nat
  BY TypeStep DEF IInv, TypeOK
<1>2. CASE \E w \in Workers : WorkerStep(w) \/ Interrupt(w)
  <2>1. ASSUME NEW w \in Workers, HealthCheckFails(w) PROVE IInv'
    BY <1>1, <2>1, StillStep
       DEF HealthCheckFails, rowVars, topicVars, claimVars, envVars, operatorVars
  <2>2. ASSUME NEW w \in Workers, NEW c \in Commands,
               \/ ClaimRow(w, c) \/ ClaimRowLate(w, c) \/ LoseRow(w, c)
               \/ Unroutable(w, c) \/ PublishRequest(w, c) \/ PublishRejected(w, c)
        PROVE IInv'
    BY <1>1, <2>2, ClaimRowPreserves, ClaimRowLatePreserves, LoseRowPreserves,
       UnroutablePreserves, PublishRequestPreserves, PublishRejectedPreserves
  <2>3. ASSUME NEW w \in Workers, NEW c \in Commands,
               \/ MarkSent(w, c) \/ ConfirmVehicle(w, c) \/ SettleFails(w, c)
               \/ ScheduleRetry(w, c) \/ MoveToDeadLetter(w, c)
               \/ AnnounceDeadLetter(w, c) \/ RowIsGone(w, c)
        PROVE IInv'
    BY <1>1, <2>3, MarkSentPreserves, ConfirmVehiclePreserves, SettleFailsPreserves,
       ScheduleRetryPreserves, MoveToDeadLetterPreserves, AnnounceDeadLetterPreserves,
       RowIsGonePreserves
  <2>4. ASSUME NEW w \in Workers, FindCandidates(w) \/ AbortTick(w) \/ Crash(w) PROVE IInv'
    BY <1>1, <2>4, FindCandidatesPreserves, AbortTickPreserves, CrashPreserves
  <2> QED BY <1>2, <2>1, <2>2, <2>3, <2>4 DEF WorkerStep, Interrupt
<1>3. CASE Time \/ KafkaFails
  <2>1. ASSUME NEW c \in Commands, LockExpires(c) PROVE IInv'
    BY <1>1, <2>1, LockExpiresPreserves
  <2>2. ASSUME NEW c \in Commands, BackoffElapses(c) PROVE IInv'
    BY <1>1, <2>2, StillStep DEF BackoffElapses, topicVars, claimVars, envVars, operatorVars
  <2>3. ASSUME NEW w \in Workers, CircuitCloses(w) PROVE IInv'
    BY <1>1, <2>3, StillStep
       DEF CircuitCloses, rowVars, topicVars, claimVars, envVars, operatorVars
  <2>4. ASSUME KafkaRecovers PROVE IInv'
    BY <1>1, <2>4, StillStep DEF KafkaRecovers, rowVars, topicVars, claimVars, operatorVars
  <2> QED BY <1>1, <1>3, <2>1, <2>2, <2>3, <2>4, KafkaFailsPreserves DEF Time
<1>4. CASE Operations
  <2>1. ASSUME NEW c \in Commands, CreateCommandRow(c) PROVE IInv'
    BY <1>1, <2>1, StillStep
       DEF CreateCommandRow, rowVars, topicVars, claimVars, envVars, operatorVars
  <2> QED BY <1>1, <1>4, <2>1, CreateOutboxRowPreserves, SelectDeadLettersPreserves,
             ReplayDeadLetterPreserves, FindOldRowsPreserves, DeleteOldRowsPreserves,
             AbandonPreserves DEF Operations
<1>5. CASE UNCHANGED vars
  BY <1>1, <1>5, StillStep DEF vars, rowVars, topicVars, claimVars, envVars, operatorVars
<1> QED BY <1>2, <1>3, <1>4, <1>5 DEF Next

(* The inductive invariant holds of every execution of the worker. *)
THEOREM Invariance == Spec => []IInv
  BY IInvInit, IInvStep, PTL DEF Spec

(* Every variable keeps its type. *)
THEOREM TypeCorrect == Spec => []TypeOK
<1>1. IInv => TypeOK
  BY DEF IInv
<1> QED BY <1>1, Invariance, PTL

(* While no lock outlives its holder's tick at most one worker may write a row, *)
(* and one more for every replay of what was no dead letter any more. *)
THEOREM Exclusion == Spec => []Exclusive
<1>1. IInv => Exclusive
  <2> SUFFICES ASSUME IInv, NEW c \in Commands, ~overrun[c]
               PROVE  Cardinality(Holders(c)) <= 1 + reopened[c]
    BY DEF Exclusive
  <2> QED BY Counted DEF Sound
<1> QED BY <1>1, Invariance, PTL

(* A row marked Published was put on the topic. *)
THEOREM NoSilentSuccess == Spec => []PublishedWasSent
<1>1. IInv => PublishedWasSent
  BY DEF IInv
<1> QED BY <1>1, Invariance, PTL

(* Faults, and replays of what was no dead letter any more, bound the copies. *)
THEOREM BoundedDuplication == Spec => []DuplicatesNeedAFault
<1>1. IInv => DuplicatesNeedAFault
  <2> SUFFICES ASSUME IInv, NEW c \in Commands, ~overrun[c]
               PROVE  requests[c] <= 1 + faults + reopened[c]
    BY DEF DuplicatesNeedAFault
  <2> QED BY Counted DEF Sound
<1> QED BY <1>1, Invariance, PTL

(***************************************************************************)
(* The worker implements CommandDelivery: a step of CommandOutbox is a step *)
(* of the promise or leaves alone what the promise speaks about.           *)
(***************************************************************************)
DeliveryStep == [Delivery!Next]_(Delivery!vars)

LEMMA StutterOfDelivery ==
  ASSUME UNCHANGED <<outbox, requests, overrun, replayed, reopened>>
  PROVE  DeliveryStep
  BY DEF DeliveryStep, Delivery!vars, Disturbed

(* While nobody is disturbed anew, the disturbed rows are the same. *)
LEMMA SameDisturbed ==
  ASSUME UNCHANGED <<overrun, reopened>>
  PROVE  [c \in Commands |-> Disturbed(c)]' = [c \in Commands |-> Disturbed(c)]
  BY DEF Disturbed

(* Whoever works on an undisturbed row works on one that is queued or lost. *)
LEMMA AtWork ==
  ASSUME IInv, NEW w \in Workers, NEW c \in Commands,
         Oldest(c, batch[w]), pc[w] # "deadlettering", ~Disturbed(c)
  PROVE  outbox[c] \in {"Queued", "Lost"}
<1>1. w \in Holders(c)
  BY DEF Holders, Holds, Oldest
<1> QED BY <1>1 DEF IInv, HoldersOwnTheRow

(* A worker that writes an outcome writes a queued row, or is late. *)
LEMMA OutcomeRefines ==
  ASSUME IInv, NEW w \in Workers, NEW c \in Commands,
         NEW s \in {"Queued", "Published", "DeadLettered"},
         Oldest(c, batch[w]), pc[w] # "deadlettering", WriteRow(c, s),
         UNCHANGED <<requests, overrun, replayed, reopened>>,
         s = "Published" => c \in Vehicle \/ requests[c] > 0
  PROVE  DeliveryStep
<1>1. outbox[c] \in {"Queued", "Published", "DeadLettered"}
  <2>1. c \in batch[w] /\ ~Gone(c)
    BY DEF Oldest, WriteRow
  <2> QED BY <2>1 DEF IInv, TypeOK, OutboxStates, RowsInUseExist, InUse, Gone
<1>2. CASE Disturbed(c)
  BY <1>1, <1>2, SameDisturbed
     DEF WriteRow, DeliveryStep, Delivery!Next, Delivery!LateWrite, Delivery!Move
<1>3. CASE ~Disturbed(c)
  <2>1. outbox[c] = "Queued"
    BY <1>1, <1>3, AtWork
  <2>2. CASE s = "Queued"
    BY <2>1, <2>2, StutterOfDelivery DEF WriteRow, IInv, TypeOK
  <2>3. CASE s = "Published"
    BY <2>1, <2>3, SameDisturbed
       DEF WriteRow, DeliveryStep, Delivery!Next, Delivery!Finish, Delivery!Move
  <2>4. CASE s = "DeadLettered"
    BY <2>1, <2>4, SameDisturbed
       DEF WriteRow, DeliveryStep, Delivery!Next, Delivery!GiveUp, Delivery!Move
  <2> QED BY <2>2, <2>3, <2>4
<1> QED BY <1>2, <1>3

(* A worker that sends a request has it in hand, or is late. *)
LEMMA SendRefines ==
  ASSUME IInv, NEW w \in Workers, NEW c \in Commands \ Vehicle,
         Oldest(c, batch[w]), pc[w] = "publishing",
         requests' = [requests EXCEPT ![c] = @ + 1],
         UNCHANGED <<outbox, overrun, replayed, reopened>>
  PROVE  DeliveryStep
<1>1. outbox[c] \in {"Queued", "Lost"} \/ Disturbed(c)
  BY AtWork
<1> QED BY <1>1, SameDisturbed DEF DeliveryStep, Delivery!Next, Delivery!Send

(* Losing the lock under a holder is the disturbance of the promise. *)
LEMMA DisturbRefines ==
  ASSUME IInv, NEW c \in Commands,
         outbox[c] = "Queued", overrun' = [overrun EXCEPT ![c] = TRUE],
         UNCHANGED <<outbox, requests, replayed, reopened>>
  PROVE  DeliveryStep
<1>1. [d \in Commands |-> Disturbed(d)]'
        = [[d \in Commands |-> Disturbed(d)] EXCEPT ![c] = TRUE]
  <2>1. \A d \in Commands : Disturbed(d)' = (IF d = c THEN TRUE ELSE Disturbed(d))
    BY DEF Disturbed, IInv, TypeOK
  <2> QED BY <2>1
<1> QED BY <1>1 DEF DeliveryStep, Delivery!Next, Delivery!Disturb

(* A replay requeues a dead letter, or opens again what was replayed before. *)
LEMMA ReplayRefines ==
  ASSUME IInv, NEW r \in Replayers, NEW c \in Commands, ReplayDeadLetter(r, c)
  PROVE  DeliveryStep
<1>1. /\ TypeOK /\ c \in selected[r] /\ ~Gone(c) /\ UNCHANGED <<requests, overrun>>
      /\ outbox' = [outbox EXCEPT ![c] = "Queued"]
      /\ replayed' = [replayed EXCEPT ![c] = TRUE]
      /\ reopened' = [reopened EXCEPT ![c] = IF outbox[c] = "DeadLettered" THEN @ ELSE @ + 1]
  BY DEF IInv, ReplayDeadLetter, topicVars
<1>2. CASE outbox[c] = "DeadLettered"
  <2>1. reopened' = reopened
    BY <1>1, <1>2 DEF TypeOK
  <2> QED BY <1>1, <1>2, <2>1, SameDisturbed
          DEF DeliveryStep, Delivery!Next, Delivery!Requeue, Delivery!Move
<1>3. CASE outbox[c] # "DeadLettered"
  <2>1. outbox[c] \in {"Queued", "Published"}
    BY <1>1, <1>3 DEF TypeOK, OutboxStates, Gone, IInv, RowsInUseExist, InUse
  <2>2. replayed[c] \/ Disturbed(c)
    BY <1>1, <1>3 DEF IInv, SelectedWereDead, Disturbed
  <2>3. [d \in Commands |-> Disturbed(d)]'
          = [[d \in Commands |-> Disturbed(d)] EXCEPT ![c] = TRUE]
    <3>1. reopened'[c] > 0 /\ \A d \in Commands : d # c => reopened'[d] = reopened[d]
      BY <1>1, <1>3 DEF TypeOK
    <3>2. \A d \in Commands : Disturbed(d)' = (IF d = c THEN TRUE ELSE Disturbed(d))
      BY <1>1, <3>1 DEF Disturbed
    <3> QED BY <3>2
  <2> QED BY <1>1, <2>1, <2>2, <2>3 DEF DeliveryStep, Delivery!Next, Delivery!Reopen
<1> QED BY <1>2, <1>3

(* The retention job removes what was settled, or was requeued since. *)
LEMMA DeleteRefines ==
  ASSUME IInv, NEW k \in Cleaners, DeleteOldRows(k)
  PROVE  DeliveryStep
<1> DEFINE S == {c \in doomed[k] : ~Gone(c)}
<1>1. /\ TypeOK /\ S \in SUBSET Commands
      /\ UNCHANGED <<requests, overrun, replayed, reopened>>
  BY DEF IInv, TypeOK, DeleteOldRows, topicVars, operatorVars
<1>2. \A c \in S : \/ outbox[c] \in {"Published", "DeadLettered"}
                   \/ outbox[c] = "Queued" /\ (replayed[c] \/ Disturbed(c))
  <2> SUFFICES ASSUME NEW c \in S
               PROVE  \/ outbox[c] \in {"Published", "DeadLettered"}
                      \/ outbox[c] = "Queued" /\ (replayed[c] \/ Disturbed(c))
    OBVIOUS
  <2>1. outbox[c] \in {"Queued", "Published", "DeadLettered"}
    BY <1>1 DEF TypeOK, OutboxStates, Gone, IInv, RowsInUseExist, InUse
  <2> QED BY <2>1 DEF IInv, DoomedWereSettled, Disturbed
<1>3. outbox' = [c \in Commands |->
         IF c \notin S THEN outbox[c]
         ELSE IF outbox[c] = "Queued" THEN "Lost" ELSE "Purged"]
  BY DEF DeleteOldRows
<1>4. \A c \in S : [d \in Commands |-> Disturbed(d)][c] = Disturbed(c)
  BY <1>1
<1> HIDE DEF S
<1>5. Delivery!Remove(S)
  BY <1>1, <1>2, <1>3, <1>4, SameDisturbed DEF Delivery!Remove
<1> QED BY <1>1, <1>5 DEF DeliveryStep, Delivery!Next

LEMMA DeliveryInit == Init => Delivery!Init
<1> SUFFICES ASSUME Init PROVE Delivery!Init
  OBVIOUS
<1>1. \A c \in Commands : Disturbed(c) = FALSE
  BY DEF Init, Disturbed
<1> QED BY <1>1 DEF Init, Delivery!Init

LEMMA DeliveryNext == IInv /\ [Next]_vars => DeliveryStep
<1> SUFFICES ASSUME IInv, [Next]_vars PROVE DeliveryStep
  OBVIOUS
<1> USE DEF operatorVars
<1>1. ASSUME NEW w \in Workers, NEW c \in Commands,
             PublishRequest(w, c) \/ PublishRejected(w, c)
      PROVE  DeliveryStep
  <2>1. CASE requests' = [requests EXCEPT ![c] = @ + 1]
    BY <1>1, <2>1, SendRefines DEF PublishRequest, PublishRejected, rowVars, envVars
  <2>2. CASE UNCHANGED requests
    BY <1>1, <2>2, StutterOfDelivery DEF PublishRequest, PublishRejected, rowVars, envVars
  <2> QED BY <1>1, <2>1, <2>2 DEF PublishRequest, PublishRejected
<1>2. ASSUME NEW w \in Workers, NEW c \in Commands, MarkSent(w, c) PROVE DeliveryStep
  <2>1. requests[c] > 0
    BY <1>2 DEF MarkSent, IInv, UnrecordedWasSent, Unrecorded
  <2> QED BY <1>2, <2>1, OutcomeRefines DEF MarkSent, topicVars, envVars
<1>3. ASSUME NEW w \in Workers, NEW c \in Commands,
             ConfirmVehicle(w, c) \/ ScheduleRetry(w, c) \/ MoveToDeadLetter(w, c)
      PROVE  DeliveryStep
  BY <1>3, OutcomeRefines
     DEF ConfirmVehicle, ScheduleRetry, MoveToDeadLetter, topicVars, envVars
<1>4. ASSUME NEW w \in Workers, NEW c \in Commands, ClaimRowLate(w, c) PROVE DeliveryStep
  BY <1>4, DisturbRefines DEF ClaimRowLate, TakeRow, StillUnlocked, topicVars
<1>5. ASSUME NEW w \in Workers, NEW c \in Commands,
             \/ ClaimRow(w, c) \/ LoseRow(w, c) \/ Unroutable(w, c)
             \/ SettleFails(w, c) \/ AnnounceDeadLetter(w, c) \/ RowIsGone(w, c)
      PROVE  DeliveryStep
  BY <1>5, StutterOfDelivery
     DEF ClaimRow, TakeRow, LoseRow, Unroutable, SettleFails, AnnounceDeadLetter,
         RowIsGone, rowVars, topicVars, envVars
<1>6. ASSUME NEW w \in Workers,
             \/ HealthCheckFails(w) \/ FindCandidates(w) \/ Interrupt(w)
             \/ CircuitCloses(w)
      PROVE  DeliveryStep
  BY <1>6, StutterOfDelivery
     DEF HealthCheckFails, FindCandidates, Interrupt, AbortTick, Crash, CircuitCloses,
         rowVars, topicVars, envVars
<1>7. ASSUME NEW c \in Commands, LockExpires(c) PROVE DeliveryStep
  <2>1. CASE overrun' = overrun
    BY <1>7, <2>1, StutterOfDelivery DEF LockExpires, topicVars, envVars
  <2>2. CASE overrun' # overrun
    <3>1. ~overrun[c] /\ Holders(c) # {} /\ overrun' = [overrun EXCEPT ![c] = TRUE]
      BY <1>7, <2>2 DEF LockExpires, IInv, TypeOK
    <3>2. CASE outbox[c] = "Queued"
      BY <1>7, <3>1, <3>2, DisturbRefines DEF LockExpires, topicVars, envVars
    <3>3. CASE outbox[c] # "Queued"
      <4>1. Disturbed(c)
        BY <1>7, <3>1, <3>3 DEF IInv, HoldersOwnTheRow, LockExpires, Gone
      <4>2. \A d \in Commands : Disturbed(d)' = Disturbed(d)
        BY <1>7, <3>1, <4>1 DEF LockExpires, Disturbed, envVars, IInv, TypeOK
      <4>3. [d \in Commands |-> Disturbed(d)]' = [d \in Commands |-> Disturbed(d)]
        BY <4>2
      <4> QED BY <1>7, <4>3 DEF LockExpires, topicVars, envVars, DeliveryStep, Delivery!vars
    <3> QED BY <3>2, <3>3
  <2> QED BY <2>1, <2>2
<1>8. ASSUME NEW c \in Commands, CreateOutboxRow(c) PROVE DeliveryStep
  <2>1. outbox[c] = "None"
    BY <1>8, CommandsAssumption DEF CreateOutboxRow
  <2> QED BY <1>8, <2>1, SameDisturbed DEF CreateOutboxRow, topicVars, envVars,
             DeliveryStep, Delivery!Next, Delivery!Submit, Delivery!Move
<1>9. ASSUME NEW c \in Commands, CreateCommandRow(c) \/ BackoffElapses(c) PROVE DeliveryStep
  BY <1>9, StutterOfDelivery DEF CreateCommandRow, BackoffElapses, rowVars, topicVars, envVars
<1>10. ASSUME \/ \E r \in Replayers : SelectDeadLetters(r) \/ AbandonReplay(r)
              \/ \E k \in Cleaners : FindOldRows(k) \/ AbandonCleanup(k)
              \/ KafkaFails \/ KafkaRecovers
       PROVE  DeliveryStep
  BY <1>10, StutterOfDelivery
     DEF SelectDeadLetters, AbandonReplay, FindOldRows, AbandonCleanup, KafkaFails,
         KafkaRecovers, rowVars, topicVars
<1>11. CASE UNCHANGED vars
  BY <1>11, StutterOfDelivery DEF vars, rowVars, topicVars, envVars
<1>12. CASE \E w \in Workers : WorkerStep(w) \/ Interrupt(w)
  BY <1>12, <1>1, <1>2, <1>3, <1>4, <1>5, <1>6 DEF WorkerStep
<1>13. CASE Time \/ KafkaFails \/ Operations
  BY <1>13, <1>6, <1>7, <1>8, <1>9, <1>10, ReplayRefines, DeleteRefines DEF Time, Operations
<1> QED BY <1>11, <1>12, <1>13 DEF Next

(* The worker delivers every command at least once and settles it once, except *)
(* for rows whose lock expired under a live holder or that were requeued when  *)
(* they were no dead letters; it loses only rows that an operator has requeued. *)
THEOREM Refinement == Spec => DeliversAtLeastOnce
  BY Invariance, DeliveryInit, DeliveryNext, PTL
     DEF Spec, DeliversAtLeastOnce, DeliveryStep, Delivery!Spec

=============================================================================
