--------------------------- MODULE CommandDelivery ---------------------------
(***************************************************************************)
(* What the command outbox promises about one row, with no workers, locks, *)
(* batches or retries: at-least-once delivery.  A queued row may be put on *)
(* the topic any number of times, is finished only after it was, and then  *)
(* nothing more is sent for it and its outcome stands, unless the operator *)
(* requeues a dead letter.  A row that no operator has requeued is not     *)
(* lost.  The promise is not made of a "disturbed" row: one whose lock ran *)
(* out under its holder, or that was requeued when it was no dead letter   *)
(* any more; late writes may follow.                                       *)
(***************************************************************************)
EXTENDS Naturals

CONSTANTS
  Commands,
  Silent      \* commands that are settled without a message on the topic

VARIABLES
  status,     \* of the command_outbox row
  copies,     \* messages on the topic, per command
  replayed,   \* rows that an operator has requeued
  disturbed   \* rows that are no more only one worker's at a time

vars == <<status, copies, replayed, disturbed>>

Init ==
  /\ status = [c \in Commands |-> "None"]
  /\ copies = [c \in Commands |-> 0]
  /\ replayed = [c \in Commands |-> FALSE]
  /\ disturbed = [c \in Commands |-> FALSE]

Move(c, from, to) ==
  /\ status[c] \in from
  /\ status' = [status EXCEPT ![c] = to]
  /\ UNCHANGED <<copies, disturbed>>

Submit(c) == Move(c, {"None"}, "Queued") /\ UNCHANGED replayed
Finish(c) ==
  /\ c \in Silent \/ copies[c] > 0
  /\ Move(c, {"Queued"}, "Published")
  /\ UNCHANGED replayed
GiveUp(c) == Move(c, {"Queued"}, "DeadLettered") /\ UNCHANGED replayed

Requeue(c) ==
  /\ Move(c, {"DeadLettered"}, "Queued")
  /\ replayed' = [replayed EXCEPT ![c] = TRUE]

\* requeued once more by one who had read it as a dead letter
Reopen(c) ==
  /\ replayed[c] \/ disturbed[c]
  /\ status[c] \in {"Queued", "Published"}
  /\ status' = [status EXCEPT ![c] = "Queued"]
  /\ replayed' = [replayed EXCEPT ![c] = TRUE]
  /\ disturbed' = [disturbed EXCEPT ![c] = TRUE]
  /\ UNCHANGED copies

\* rows that were found settled are deleted; one that was requeued since is lost
Remove(S) ==
  /\ \A c \in S : \/ status[c] \in {"Published", "DeadLettered"}
                  \/ status[c] = "Queued" /\ (replayed[c] \/ disturbed[c])
  /\ status' = [c \in Commands |->
       IF c \notin S THEN status[c]
       ELSE IF status[c] = "Queued" THEN "Lost" ELSE "Purged"]
  /\ UNCHANGED <<copies, replayed, disturbed>>

\* a request that is in hand is sent even though its row was lost meanwhile
Send(c) ==
  /\ c \notin Silent
  /\ status[c] \in {"Queued", "Lost"} \/ disturbed[c]
  /\ copies' = [copies EXCEPT ![c] = @ + 1]
  /\ UNCHANGED <<status, replayed, disturbed>>

Disturb(c) ==
  /\ status[c] = "Queued"
  /\ disturbed' = [disturbed EXCEPT ![c] = TRUE]
  /\ UNCHANGED <<status, copies, replayed>>

\* an outcome written by a worker that has the row in hand too long, or not alone
LateWrite(c) ==
  /\ disturbed[c]
  /\ \/ \E to \in {"Queued", "DeadLettered"} :
          Move(c, {"Queued", "Published", "DeadLettered"}, to)
     \/ /\ c \in Silent \/ copies[c] > 0
        /\ Move(c, {"Queued", "Published", "DeadLettered"}, "Published")
  /\ UNCHANGED replayed

Next ==
  \/ \E c \in Commands :
       \/ Submit(c) \/ Send(c) \/ Finish(c) \/ GiveUp(c) \/ Requeue(c) \/ Reopen(c)
       \/ Disturb(c) \/ LateWrite(c)
  \/ \E S \in SUBSET Commands : Remove(S)

Spec == Init /\ [][Next]_vars
=============================================================================
