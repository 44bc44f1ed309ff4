---------------------------- MODULE WebhookDelivery ----------------------------
(***************************************************************************)
(* Outgoing webhooks: webhooks.service.ts.  A dispatched event becomes a   *)
(* delivery for each webhook that wants it, which the dispatcher attempts  *)
(* at once and the retry timers of all processes attempt again.  Nothing   *)
(* claims a delivery: the attempts of one may overlap.                     *)
(***************************************************************************)
EXTENDS Naturals, Sequences, FiniteSets

CONSTANTS
  Hooks,       \* webhooks that want the events of the dispatches
  Dispatches,  \* calls of dispatchEvent
  Replicas,    \* processes with a retry timer
  MaxRetries,  \* bound: the largest maxRetries of a webhook
  Batch,       \* deliveries that a retry cycle takes (100)
  MaxCycles    \* bound: retry cycles of a process

VARIABLES
  hooks,       \* rows of webhooks
  deliveries,  \* rows of webhook_deliveries, in the order of createdAt
  senders,     \* what each dispatch and each retry cycle is at
  cycles       \* how many retry cycles a process has begun

vars == <<hooks, deliveries, senders, cycles>>

Senders == Dispatches \cup Replicas
Idle == [at |-> "idle", hooks |-> {}, todo |-> {}, attempt |-> 0, final |-> FALSE, ok |-> FALSE]

DeliveryAssumption == MaxRetries \in Nat /\ MaxCycles \in Nat

TypeOK ==
  /\ \A h \in Hooks :
       /\ hooks[h].is \in {"absent", "active", "inactive", "removed"}
       /\ hooks[h].maxRetries \in 0 .. MaxRetries
  /\ \A d \in DOMAIN deliveries :
       /\ deliveries[d].hook \in Hooks
       /\ deliveries[d].status \in {"PENDING", "SUCCESS", "FAILED", "DEAD_LETTER", "REMOVED"}
       /\ deliveries[d].attempts \in 0 .. deliveries[d].sent
  /\ \A p \in Senders :
       /\ senders[p].at \in {"idle", "create", "read", "post", "record", "over"}
       /\ senders[p].todo \subseteq DOMAIN deliveries
       /\ senders[p].at \in {"read", "post", "record"} => senders[p].todo # {}
  /\ cycles \in [Replicas -> 0 .. MaxCycles]

Init ==
  /\ hooks \in [Hooks -> [is : {"absent", "active", "inactive"}, maxRetries : 0 .. MaxRetries]]
  /\ deliveries = << >>
  /\ senders = [p \in Senders |-> Idle]
  /\ cycles = [r \in Replicas |-> 0]

\* a retry cycle may be followed by another one
Stopped(p) == [Idle EXCEPT !.at = IF p \in Replicas THEN "idle" ELSE "over"]

\* A sender has the delivery on its list or in its hands.
Holds(p, d) == d \in senders[p].todo

----------------------------------------------------------------------------
(* createWebhook, updateWebhook, removeWebhook *)

CreateWebhook(h) ==
  /\ hooks[h].is = "absent"
  /\ \E is \in {"active", "inactive"}, n \in 0 .. MaxRetries : hooks' = [hooks EXCEPT ![h] = [is |-> is, maxRetries |-> n]]
  /\ UNCHANGED <<deliveries, senders, cycles>>

UpdateWebhook(h) ==
  /\ hooks[h].is \in {"active", "inactive"}
  /\ \E is \in {"active", "inactive"}, n \in 0 .. MaxRetries : hooks' = [hooks EXCEPT ![h] = [is |-> is, maxRetries |-> n]]
  /\ UNCHANGED <<deliveries, senders, cycles>>

\* its deliveries go with it (onDelete: Cascade)
RemoveWebhook(h) ==
  /\ hooks[h].is \in {"active", "inactive"}
  /\ hooks' = [hooks EXCEPT ![h].is = "removed"]
  /\ deliveries' = [d \in DOMAIN deliveries |->
       IF deliveries[d].hook = h THEN [deliveries[d] EXCEPT !.status = "REMOVED"] ELSE deliveries[d]]
  /\ UNCHANGED <<senders, cycles>>

----------------------------------------------------------------------------
(* dispatchEvent: the deliveries are created one by one, then attempted *)

FindHooks(p) ==
  /\ p \in Dispatches /\ senders[p].at = "idle"
  /\ LET found == {h \in Hooks : hooks[h].is = "active"}
     IN  senders' = [senders EXCEPT ![p] =
           [@ EXCEPT !.at = IF found = {} THEN "over" ELSE "create", !.hooks = found]]
  /\ UNCHANGED <<hooks, deliveries, cycles>>

\* the attempts begin when every webhook has its delivery
WithDelivery(sender, h, d) ==
  [sender EXCEPT !.at = IF sender.hooks = {h} THEN "read" ELSE "create",
                 !.hooks = sender.hooks \ {h}, !.todo = sender.todo \cup {d}]

\* the webhooks come in any order
CreateDelivery(p) ==
  /\ senders[p].at = "create"
  /\ \E h \in senders[p].hooks :
       IF hooks[h].is = "removed"
       THEN \* the foreign key fails and the dispatch with it
            /\ senders' = [senders EXCEPT ![p] = Stopped(p)]
            /\ UNCHANGED deliveries
       ELSE /\ deliveries' = Append(deliveries,
                 [hook |-> h, status |-> "PENDING", attempts |-> 0, due |-> TRUE,
                  \* history: requests, whether the receiver took one and another one,
                  \* and whether two senders held it or an answer was lost
                  sent |-> 0, taken |-> FALSE, again |-> FALSE, excused |-> FALSE])
            /\ senders' = [senders EXCEPT ![p] = WithDelivery(@, h, Len(deliveries) + 1)]
  /\ UNCHANGED <<hooks, cycles>>

----------------------------------------------------------------------------
(* retryPendingDeliveries *)

\* nextAttemptAt passes
ComesDue(d) ==
  /\ deliveries[d].status = "FAILED" /\ ~ deliveries[d].due
  /\ deliveries' = [deliveries EXCEPT ![d].due = TRUE]
  /\ UNCHANGED <<hooks, senders, cycles>>

\* mutant of IsDue: the status is not asked for
IsDueAnyStatus(d) == deliveries[d].status # "REMOVED" /\ (deliveries[d].due \/ deliveries[d].status = "SUCCESS")

IsDue(d) == deliveries[d].status \in {"PENDING", "FAILED"} /\ deliveries[d].due

\* a cycle begins when the process' last one is over (retryRunning)
FindDue(r) ==
  /\ r \in Replicas /\ senders[r].at = "idle" /\ cycles[r] < MaxCycles
  /\ LET all == {d \in DOMAIN deliveries : IsDue(d)}
         due == {d \in all : Cardinality({e \in all : e < d}) < Batch}
     IN  /\ due # {}
         /\ senders' = [senders EXCEPT ![r] = [Idle EXCEPT !.at = "read", !.todo = due]]
         /\ deliveries' = [d \in DOMAIN deliveries |->
              IF d \in due /\ \E p \in Senders : Holds(p, d)
              THEN [deliveries[d] EXCEPT !.excused = TRUE] ELSE deliveries[d]]
  /\ cycles' = [cycles EXCEPT ![r] = @ + 1]
  /\ UNCHANGED hooks

----------------------------------------------------------------------------
(* processDelivery *)

\* the oldest one that is left
Current(p) == CHOOSE d \in senders[p].todo : \A e \in senders[p].todo : d <= e

\* on with the next one
Rest(p) == IF senders[p].todo = {Current(p)} THEN Stopped(p)
           ELSE [Idle EXCEPT !.at = "read", !.todo = senders[p].todo \ {Current(p)}]

\* The status is not looked at again.  A webhook that is inactive is skipped, and its
\* delivery stays due.
ReadDelivery(p) ==
  /\ senders[p].at = "read"
  /\ LET row == deliveries[Current(p)]
         hook == hooks[row.hook]
     IN  senders' = [senders EXCEPT ![p] =
           IF hook.is # "active" THEN Rest(p)
           ELSE [@ EXCEPT !.at = "post", !.attempt = row.attempts + 1,
                          !.final = row.attempts + 1 > hook.maxRetries]]
  /\ UNCHANGED <<hooks, deliveries, cycles>>

\* what a request has done with its row
Sent(row, taken, ok) ==
  [row EXCEPT !.sent = row.sent + 1,
              !.again = row.again \/ (taken /\ row.taken),
              !.taken = row.taken \/ taken,
              !.excused = row.excused \/ (taken /\ ~ ok)]

\* The receiver takes the request or not; if it does, the answer may still be lost
\* (timeoutMs, a connection that breaks while the body is read).
Post(p) ==
  /\ senders[p].at = "post"
  /\ \E taken, ok \in BOOLEAN :
       /\ ok => taken
       /\ senders' = [senders EXCEPT ![p].at = "record", ![p].ok = ok]
       /\ deliveries' = [deliveries EXCEPT ![Current(p)] = Sent(@, taken, ok)]
  /\ UNCHANGED <<hooks, cycles>>

\* The row is written whatever has become of it.
RecordAttempt(p) ==
  /\ senders[p].at = "record" /\ deliveries[Current(p)].status # "REMOVED"
  /\ LET status == IF senders[p].ok THEN "SUCCESS" ELSE IF senders[p].final THEN "DEAD_LETTER" ELSE "FAILED"
     IN  deliveries' = [deliveries EXCEPT ![Current(p)] =
           [@ EXCEPT !.status = status, !.attempts = senders[p].attempt, !.due = FALSE]]
  /\ senders' = [senders EXCEPT ![p] = Rest(p)]
  /\ UNCHANGED <<hooks, cycles>>

\* A process dies, or a query throws (as the update of a row that was deleted does):
\* the rest of the list is left as it is, an answer that came is not recorded.
Abort(p) ==
  /\ senders[p].at \in {"create", "read", "post", "record"}
  /\ senders' = [senders EXCEPT ![p] = Stopped(p)]
  /\ deliveries' = IF senders[p].at = "record"
                   THEN [deliveries EXCEPT ![Current(p)].excused = TRUE] ELSE deliveries
  /\ UNCHANGED <<hooks, cycles>>

Next ==
  \/ \E h \in Hooks : CreateWebhook(h) \/ UpdateWebhook(h) \/ RemoveWebhook(h)
  \/ \E p \in Senders :
       \/ FindHooks(p) \/ CreateDelivery(p)
       \/ ReadDelivery(p) \/ Post(p) \/ RecordAttempt(p)
       \/ Abort(p)
  \/ \E r \in Replicas : FindDue(r)
  \/ \E d \in DOMAIN deliveries : ComesDue(d)

Spec == Init /\ [][Next]_vars

----------------------------------------------------------------------------
(* Properties *)

\* A delivery that one sender at a time held, none of whose answers was lost, is taken
\* by its receiver once, sent maxRetries + 1 times at most, and its row says what was
\* done.
DeliveryIsAsRecorded ==
  \A d \in DOMAIN deliveries :
    LET row == deliveries[d]
        recorded == \A p \in Senders : Holds(p, d) => senders[p].at # "record" \/ Current(p) # d
    IN  ~ row.excused =>
          /\ ~ row.again
          /\ row.sent <= MaxRetries + 1
          /\ recorded /\ row.status # "REMOVED" =>
               /\ row.attempts = row.sent
               /\ row.taken <=> row.status = "SUCCESS"
=============================================================================
