----------------------- MODULE PaymentSettlementProofs -----------------------
(***************************************************************************)
(* Proofs about PaymentSettlement, for any number of events, calls and     *)
(* faults.                                                                 *)
(*                                                                         *)
(* What a row of payment_webhook_events says of an event, and what a call  *)
(* has already done for it, are tied together by the row the call itself   *)
(* inserted: the id is taken from then on, so no other event can use it.   *)
(***************************************************************************)
EXTENDS PaymentSettlement, TLAPS

\* The calls past the insert of their event's row: the row is theirs, and a call
\* that is about to mark a success has credited it.
CallsOwnTheirRow ==
  \A r \in Calls :
    /\ calls[r].at = "receive" => calls[r].event \in Events
    /\ calls[r].at \in {"resolve", "apply", "mark"} =>
         /\ calls[r].event \in Events
         /\ hooks[EventId[calls[r].event]].event = calls[r].event
         /\ StatusOf(calls[r].event) # "None"
    /\ calls[r].at \in {"apply", "mark"} => calls[r].event \in Settles \cup Fails
    /\ calls[r].at = "mark" /\ calls[r].event \in Settles => credit = "POSTED"

\* A call reads an intent before it settles it, and no intent is ever deleted.
IntentIsThere ==
  /\ intent = "None" => credit = "None"
  /\ \A r \in Calls :
       /\ calls[r].at \in {"apply", "reconcile"} => intent # "None"
       /\ calls[r].at = "reconcile" => calls[r].status \in IntentStatus

IInv ==
  /\ TypeOK
  /\ CreditedOnce
  /\ CallsOwnTheirRow
  /\ IntentIsThere
  /\ ProcessedStaysCredited

LEMMA IInvInit == Init => IInv
  BY EventsAssumption
     DEF Init, IInv, TypeOK, CreditedOnce, CallsOwnTheirRow, IntentIsThere,
         ProcessedStaysCredited, NoCall, Ids, StatusOf, IntentStatus, FinalStatus

(* Every action keeps every variable in its type; that a credit is given once *)
(* bounds the balance.                                                       *)
LEMMA TypeStep == IInv /\ [Next]_vars => TypeOK'
<1> SUFFICES ASSUME IInv, [Next]_vars PROVE TypeOK'
  OBVIOUS
<1> USE EventsAssumption DEF IInv, TypeOK, rows, NoCall
<1>1. ASSUME NEW r \in Calls, TopUp(r) PROVE TypeOK'
  BY <1>1 DEF TopUp, TopUpBegins, ProviderCreates, TopUpCreates, Goto, Return, IntentStatus
<1>2. ASSUME NEW r \in Calls, NEW e \in Events, ReceiveWebhook(r, e) PROVE TypeOK'
  BY <1>2 DEF ReceiveWebhook
<1>3. ASSUME NEW r \in Calls, RecordWebhook(r) \/ DismissWebhook(r) \/ MarkEventStatus(r)
      PROVE  TypeOK'
  <2>1. CASE RecordWebhook(r)
    BY <2>1 DEF RecordWebhook, Goto, Return, Ids, CallsOwnTheirRow
  <2>2. CASE DismissWebhook(r) \/ MarkEventStatus(r)
    BY <2>2 DEF DismissWebhook, MarkEventStatus, Mark, Return, Ids, CallsOwnTheirRow
  <2> QED BY <1>3, <2>1, <2>2
<1>4. ASSUME NEW r \in Calls, ResolveIntent(r) \/ RefuseAmount(r) \/ CallDies(r) PROVE TypeOK'
  BY <1>4 DEF ResolveIntent, RefuseAmount, CallDies, Goto, Return
<1>5. ASSUME NEW status \in FinalStatus, ApplyFinalStatus(status)
      PROVE  /\ intent' \in IntentStatus /\ credit' \in {"POSTED", "FAILED"}
             /\ balance' \in 0..2
  BY <1>5 DEF ApplyFinalStatus, CreditPendingWalletTopUp, MarkTopUpAsFailed, CreditedOnce,
              IntentStatus
<1>6. ASSUME NEW r \in Calls, ApplyWebhook(r) PROVE TypeOK'
  <2>1. (IF calls[r].event \in Settles THEN "SETTLED" ELSE "FAILED") \in FinalStatus
    BY DEF FinalStatus
  <2> QED BY <1>5, <1>6, <2>1 DEF ApplyWebhook, Goto
<1>7. ASSUME NEW r \in Calls, Reconcile(r) PROVE TypeOK'
  <2>1. CASE calls[r].status \in FinalStatus
    BY <1>5, <1>7, <2>1 DEF Reconcile, Return
  <2>2. CASE calls[r].status \notin FinalStatus
    BY <1>7, <2>2 DEF Reconcile, Return, IntentIsThere
  <2> QED BY <2>1, <2>2
<1>8. ASSUME NEW r \in Calls, NEW status \in IntentStatus, ReadForReconcile(r, status)
      PROVE  TypeOK'
  BY <1>8 DEF ReadForReconcile
<1>9. CASE UNCHANGED vars
  BY <1>9 DEF vars
<1> QED BY <1>1, <1>2, <1>3, <1>4, <1>6, <1>7, <1>8, <1>9 DEF Next, Webhook

(* A step that leaves rows, hooks and accepted alone, and moves one call on *)
(* to where it has nothing to show, keeps everything but the types.         *)
LEMMA CallMoves ==
  ASSUME IInv, TypeOK', UNCHANGED <<rows, hooks, accepted>>, NEW r \in Calls,
         \/ calls' = [calls EXCEPT ![r] = NoCall]
         \/ \E at \in {"provider", "create"} : calls' = [calls EXCEPT ![r].at = at]
  PROVE  IInv'
<1>1. CallsOwnTheirRow' /\ IntentIsThere'
  BY DEF IInv, TypeOK, CallsOwnTheirRow, IntentIsThere, NoCall, StatusOf, rows
<1> QED BY <1>1 DEF IInv, CreditedOnce, ProcessedStaysCredited, rows

LEMMA TopUpPreserves ==
  ASSUME IInv, TypeOK', NEW r \in Calls, TopUp(r)
  PROVE  IInv'
<1>1. CASE TopUpBegins(r) \/ ProviderCreates(r)
  BY <1>1, CallMoves DEF TopUpBegins, ProviderCreates, Goto
<1>2. CASE TopUpCreates(r)
  <2>1. intent' # "None" /\ (intent # "None" => UNCHANGED rows)
        /\ (intent = "None" => credit' = "PENDING" /\ balance' = balance)
    BY <1>2 DEF TopUpCreates, rows
  <2>2. CallsOwnTheirRow' /\ IntentIsThere'
    BY <1>2, <2>1 DEF TopUpCreates, Return, NoCall, IInv, TypeOK, CallsOwnTheirRow, IntentIsThere,
                      StatusOf, rows
  <2>3. CreditedOnce' /\ ProcessedStaysCredited'
    BY <1>2, <2>1 DEF TopUpCreates, IInv, IntentIsThere, CreditedOnce, ProcessedStaysCredited,
                      rows
  <2> QED BY <2>2, <2>3 DEF IInv
<1> QED BY <1>1, <1>2 DEF TopUp

LEMMA ReceivePreserves ==
  ASSUME IInv, TypeOK', NEW r \in Calls, NEW e \in Events, ReceiveWebhook(r, e)
  PROVE  IInv'
<1>1. CallsOwnTheirRow' /\ IntentIsThere'
  BY DEF ReceiveWebhook, IInv, TypeOK, CallsOwnTheirRow, IntentIsThere, StatusOf, rows
<1>2. CreditedOnce' /\ ProcessedStaysCredited'
  BY DEF ReceiveWebhook, IInv, CreditedOnce, ProcessedStaysCredited, rows
<1> QED BY <1>1, <1>2 DEF IInv

LEMMA RecordPreserves ==
  ASSUME IInv, TypeOK', NEW r \in Calls, RecordWebhook(r)
  PROVE  IInv'
<1> DEFINE e == calls[r].event
<1>0. e \in Events /\ EventId[e] \in Ids
  BY DEF RecordWebhook, IInv, CallsOwnTheirRow, Ids
<1>1. CASE StatusOf(e) # "None"
  BY <1>1, CallMoves DEF RecordWebhook, Return
<1>2. CASE StatusOf(e) = "None"
  <2>1. /\ hooks' = [hooks EXCEPT ![EventId[e]] = [status |-> "RECEIVED", event |-> e]]
        /\ calls' = [calls EXCEPT ![r].at = "resolve"]
        /\ UNCHANGED <<rows, accepted>>
    BY <1>2 DEF RecordWebhook, Goto
  <2>2. CallsOwnTheirRow'
    BY <1>0, <1>2, <2>1 DEF IInv, TypeOK, CallsOwnTheirRow, StatusOf, rows
  <2>3. IntentIsThere' /\ CreditedOnce' /\ ProcessedStaysCredited'
    BY <1>0, <2>1 DEF IInv, TypeOK, IntentIsThere, CreditedOnce, ProcessedStaysCredited,
                 Ids, rows
  <2> QED BY <2>2, <2>3 DEF IInv
<1> QED BY <1>1, <1>2

LEMMA DismissPreserves ==
  ASSUME IInv, TypeOK', NEW r \in Calls, DismissWebhook(r)
  PROVE  IInv'
<1> DEFINE e == calls[r].event
<1>0. e \in Events /\ EventId[e] \in Ids /\ hooks[EventId[e]].event = e
  BY DEF DismissWebhook, IInv, CallsOwnTheirRow, Ids
<1>1. PICK s \in {"IGNORED", "FAILED"} :
        hooks' = [hooks EXCEPT ![EventId[e]].status = s]
  BY DEF DismissWebhook, Mark
<1>2. calls' = [calls EXCEPT ![r] = NoCall] /\ accepted' = accepted \cup {e} /\ UNCHANGED rows
  BY DEF DismissWebhook, Return
<1>3. CallsOwnTheirRow'
  BY <1>0, <1>1, <1>2 DEF IInv, TypeOK, CallsOwnTheirRow, StatusOf, NoCall, rows
<1>4. IntentIsThere' /\ CreditedOnce' /\ ProcessedStaysCredited'
  BY <1>0, <1>1, <1>2 DEF IInv, TypeOK, IntentIsThere, CreditedOnce, ProcessedStaysCredited,
               Ids, NoCall, rows
<1> QED BY <1>3, <1>4 DEF IInv

LEMMA MarkPreserves ==
  ASSUME IInv, TypeOK', NEW r \in Calls, MarkEventStatus(r)
  PROVE  IInv'
<1> DEFINE e == calls[r].event
<1>0. /\ e \in Events /\ EventId[e] \in Ids /\ hooks[EventId[e]].event = e
      /\ e \in Settles => credit = "POSTED"
  BY DEF MarkEventStatus, IInv, CallsOwnTheirRow, Ids
<1>1. /\ hooks' = [hooks EXCEPT ![EventId[e]].status = "PROCESSED"]
      /\ calls' = [calls EXCEPT ![r] = NoCall] /\ accepted' = accepted \cup {e} /\ UNCHANGED rows
  BY DEF MarkEventStatus, Mark, Return
<1>2. CallsOwnTheirRow'
  BY <1>0, <1>1 DEF IInv, TypeOK, CallsOwnTheirRow, StatusOf, NoCall, rows
<1>3. IntentIsThere' /\ CreditedOnce' /\ ProcessedStaysCredited'
  BY <1>0, <1>1 DEF IInv, TypeOK, IntentIsThere, CreditedOnce, ProcessedStaysCredited,
               Ids, NoCall, rows
<1> QED BY <1>2, <1>3 DEF IInv

(* A settlement gives the credit once and never takes it back. *)
LEMMA SettlementCredits ==
  ASSUME IInv, NEW status \in FinalStatus, ApplyFinalStatus(status)
  PROVE  /\ CreditedOnce' /\ intent' # "None"
         /\ credit = "POSTED" => credit' = "POSTED"
         /\ status = "SETTLED" => credit' = "POSTED"
  BY DEF IInv, TypeOK, ApplyFinalStatus, CreditPendingWalletTopUp, MarkTopUpAsFailed,
         CreditedOnce, FinalStatus

LEMMA ApplyPreserves ==
  ASSUME IInv, TypeOK', NEW r \in Calls, ApplyWebhook(r)
  PROVE  IInv'
<1> DEFINE status == IF calls[r].event \in Settles THEN "SETTLED" ELSE "FAILED"
<1>1. status \in FinalStatus /\ ApplyFinalStatus(status)
  BY DEF ApplyWebhook, FinalStatus
<1>2. /\ CreditedOnce' /\ intent' # "None"
      /\ credit = "POSTED" => credit' = "POSTED"
      /\ calls[r].event \in Settles => credit' = "POSTED"
  BY <1>1, SettlementCredits
<1>3. /\ calls[r].at = "apply" /\ calls' = [calls EXCEPT ![r].at = "mark"]
      /\ UNCHANGED <<hooks, accepted>>
  BY DEF ApplyWebhook, Goto
<1>4. CallsOwnTheirRow' /\ IntentIsThere'
  BY <1>2, <1>3 DEF IInv, TypeOK, CallsOwnTheirRow, IntentIsThere, StatusOf
<1>5. ProcessedStaysCredited'
  BY <1>2, <1>3 DEF IInv, ProcessedStaysCredited
<1> QED BY <1>2, <1>4, <1>5 DEF IInv

LEMMA ReconcilePreserves ==
  ASSUME IInv, TypeOK', NEW r \in Calls, Reconcile(r)
  PROVE  IInv'
<1>1. /\ CreditedOnce' /\ intent' # "None"
      /\ credit = "POSTED" => credit' = "POSTED"
  <2>1. CASE calls[r].status \in FinalStatus
    BY <2>1, SettlementCredits DEF Reconcile
  <2>2. CASE calls[r].status \notin FinalStatus
    BY <2>2 DEF Reconcile, IInv, CreditedOnce, IntentIsThere, IntentStatus, FinalStatus
  <2> QED BY <2>1, <2>2
<1>2. calls' = [calls EXCEPT ![r] = NoCall] /\ UNCHANGED <<hooks, accepted>>
  BY DEF Reconcile, Return
<1>3. CallsOwnTheirRow' /\ IntentIsThere'
  BY <1>1, <1>2 DEF IInv, TypeOK, CallsOwnTheirRow, IntentIsThere, StatusOf, NoCall
<1>4. ProcessedStaysCredited'
  BY <1>1, <1>2 DEF IInv, ProcessedStaysCredited
<1> QED BY <1>1, <1>3, <1>4 DEF IInv

(* Steps that only move a call: they leave rows, hooks and accepted alone. *)
LEMMA ReadingPreserves ==
  ASSUME IInv, TypeOK', NEW r \in Calls,
         \/ ResolveIntent(r) \/ RefuseAmount(r) \/ CallDies(r)
         \/ \E status \in IntentStatus : ReadForReconcile(r, status)
  PROVE  IInv'
<1>1. CASE RefuseAmount(r) \/ CallDies(r)
  BY <1>1, CallMoves DEF RefuseAmount, CallDies, Return
<1>2. CASE ResolveIntent(r) \/ \E status \in IntentStatus : ReadForReconcile(r, status)
  <2>1. UNCHANGED <<rows, hooks, accepted>>
    BY <1>2 DEF ResolveIntent, ReadForReconcile
  <2>2. CASE ResolveIntent(r)
    <3>1. CallsOwnTheirRow' /\ IntentIsThere'
      BY <2>1, <2>2 DEF ResolveIntent, Goto, IInv, TypeOK, CallsOwnTheirRow, IntentIsThere,
                        StatusOf, rows
    <3> QED BY <2>1, <3>1 DEF IInv, CreditedOnce, ProcessedStaysCredited, rows
  <2>3. ASSUME NEW status \in IntentStatus, ReadForReconcile(r, status) PROVE IInv'
    <3>1. CallsOwnTheirRow' /\ IntentIsThere'
      BY <2>1, <2>3 DEF ReadForReconcile, IInv, TypeOK, CallsOwnTheirRow,
                        IntentIsThere, StatusOf, rows
    <3> QED BY <2>1, <3>1 DEF IInv, CreditedOnce, ProcessedStaysCredited, rows
  <2> QED BY <1>2, <2>2, <2>3
<1> QED BY <1>1, <1>2

LEMMA IInvStep == IInv /\ [Next]_vars => IInv'
<1> SUFFICES ASSUME IInv, [Next]_vars PROVE IInv'
  OBVIOUS
<1>1. TypeOK'
  BY TypeStep
<1>2. CASE UNCHANGED vars
  BY <1>1, <1>2 DEF vars, rows, IInv, CreditedOnce, CallsOwnTheirRow, IntentIsThere,
       ProcessedStaysCredited, StatusOf
<1> QED BY <1>1, <1>2, TopUpPreserves, ReceivePreserves, RecordPreserves, DismissPreserves,
           MarkPreserves, ApplyPreserves, ReconcilePreserves, ReadingPreserves
           DEF Next, Webhook

(* The inductive invariant holds of every order of calls, deliveries and faults. *)
THEOREM Invariance == Spec => []IInv
  BY IInvInit, IInvStep, PTL DEF Spec

(* Every variable keeps its type. *)
THEOREM TypeCorrect == Spec => []TypeOK
<1>1. IInv => TypeOK
  BY DEF IInv
<1> QED BY <1>1, Invariance, PTL

(* The wallet holds the amount of the top-up exactly when its row is POSTED, *)
(* however often applyFinalStatus is called.                                *)
THEOREM SingleCredit == Spec => []CreditedOnce
<1>1. IInv => CreditedOnce
  BY DEF IInv
<1> QED BY <1>1, Invariance, PTL

(* A processed success is credited, and a later failure does not undo it. *)
THEOREM ProcessedIsCredited == Spec => []ProcessedStaysCredited
<1>1. IInv => ProcessedStaysCredited
  BY DEF IInv
<1> QED BY <1>1, Invariance, PTL

(* A step that leaves the rows of the events alone, and moves no call that *)
(* is at work on one, leaves no event behind.                             *)
LEMMA IdleMoves ==
  ASSUME IInv, LeftByDeathOnly, UNCHANGED <<hooks, faults>>, NEW r \in Calls,
         calls[r].at \notin {"resolve", "apply", "mark"},
         \A q \in Calls \ {r} : calls'[q] = calls[q]
  PROVE  LeftByDeathOnly'
BY DEF LeftByDeathOnly

(* Any step: a delivery that stops working on its event has marked the row, *)
(* refused the amount or died.                                             *)
LEMMA LeftStep == IInv /\ LeftByDeathOnly /\ [Next]_vars => LeftByDeathOnly'
<1> SUFFICES ASSUME IInv, LeftByDeathOnly, [Next]_vars PROVE LeftByDeathOnly'
  OBVIOUS
<1> USE DEF IInv, TypeOK
<1>1. ASSUME NEW r \in Calls, TopUp(r) \/ Reconcile(r)
      PROVE  LeftByDeathOnly'
  BY <1>1, IdleMoves DEF TopUp, TopUpBegins, ProviderCreates, TopUpCreates, Reconcile, Goto,
                         Return, NoCall
<1>2. ASSUME NEW r \in Calls,
             \/ \E e \in Events : ReceiveWebhook(r, e)
             \/ \E status \in IntentStatus : ReadForReconcile(r, status)
      PROVE  LeftByDeathOnly'
  BY <1>2, IdleMoves DEF ReceiveWebhook, ReadForReconcile, NoCall
<1>3. ASSUME NEW r \in Calls, RecordWebhook(r) PROVE LeftByDeathOnly'
  <2> DEFINE f == calls[r].event
  <2>1. CASE StatusOf(f) = "None"
    <3>1. /\ f \in Events /\ EventId[f] \in Ids
          /\ hooks' = [hooks EXCEPT ![EventId[f]] = [status |-> "RECEIVED", event |-> f]]
          /\ calls' = [calls EXCEPT ![r].at = "resolve"] /\ faults' = faults
          /\ calls[r].at = "receive"
      BY <1>3, <2>1 DEF RecordWebhook, Goto, CallsOwnTheirRow, Ids
    <3>2. calls'[r].event = f /\ calls'[r].at = "resolve"
          /\ \A q \in Calls \ {r} : calls'[q] = calls[q]
      BY <3>1
    <3>3. hooks'[EventId[f]].event = f
          /\ \A i \in Ids \ {EventId[f]} : hooks'[i] = hooks[i]
      BY <3>1
    <3>4. ASSUME NEW e \in Events,
                 hooks'[EventId[e]] = [status |-> "RECEIVED", event |-> e],
                 faults' = 0, e \notin Mismatched
          PROVE  \E q \in Calls : calls'[q].event = e /\ calls'[q].at \in {"resolve", "apply", "mark"}
      <4>1. CASE EventId[e] = EventId[f]
        BY <3>2, <3>3, <3>4, <4>1
      <4>2. CASE EventId[e] # EventId[f]
        <5>1. PICK q \in Calls : calls[q].event = e /\ calls[q].at \in {"resolve", "apply", "mark"}
          BY <3>1, <3>3, <3>4, <4>2 DEF LeftByDeathOnly, Ids
        <5> QED BY <3>1, <3>2, <5>1
      <4> QED BY <4>1, <4>2
    <3> QED BY <3>1, <3>4 DEF LeftByDeathOnly
  <2>2. CASE StatusOf(f) # "None"
    BY <1>3, <2>2, IdleMoves DEF RecordWebhook, Return
  <2> QED BY <2>1, <2>2
<1>4. ASSUME NEW r \in Calls, DismissWebhook(r) \/ MarkEventStatus(r) PROVE LeftByDeathOnly'
  <2> DEFINE f == calls[r].event
  <2>1. /\ f \in Events /\ EventId[f] \in Ids /\ hooks'[EventId[f]].status # "RECEIVED"
        /\ \A i \in Ids \ {EventId[f]} : hooks'[i] = hooks[i]
        /\ \A q \in Calls \ {r} : calls'[q] = calls[q]
        /\ faults' = faults
    BY <1>4 DEF DismissWebhook, MarkEventStatus, Mark, Return, CallsOwnTheirRow, Ids
  <2>2. ASSUME NEW e \in Events, hooks'[EventId[e]] = [status |-> "RECEIVED", event |-> e]
        PROVE  e # f /\ hooks[EventId[e]] = [status |-> "RECEIVED", event |-> e]
    BY <2>1, <2>2 DEF Ids
  <2> QED BY <2>1, <2>2 DEF LeftByDeathOnly
<1>5. ASSUME NEW r \in Calls, ResolveIntent(r) \/ ApplyWebhook(r) PROVE LeftByDeathOnly'
  <2>1. /\ \A q \in Calls : calls'[q].event = calls[q].event
        /\ \A q \in Calls \ {r} : calls'[q] = calls[q]
        /\ calls'[r].at \in {"apply", "mark"} /\ UNCHANGED <<hooks, faults>>
    BY <1>5 DEF ResolveIntent, ApplyWebhook, Goto
  <2> QED BY <2>1 DEF LeftByDeathOnly
<1>6. ASSUME NEW r \in Calls, RefuseAmount(r) PROVE LeftByDeathOnly'
  <2>1. /\ calls[r].event \in Mismatched /\ UNCHANGED <<hooks, faults>>
        /\ \A q \in Calls \ {r} : calls'[q] = calls[q]
    BY <1>6 DEF RefuseAmount, Return
  <2> QED BY <2>1 DEF LeftByDeathOnly
<1>7. ASSUME NEW r \in Calls, CallDies(r) PROVE LeftByDeathOnly'
  <2>1. faults' > 0
    BY <1>7 DEF CallDies
  <2> QED BY <2>1 DEF LeftByDeathOnly
<1>8. CASE UNCHANGED vars
  BY <1>8 DEF vars, LeftByDeathOnly
<1> QED BY <1>1, <1>2, <1>3, <1>4, <1>5, <1>6, <1>7, <1>8 DEF Next, Webhook

(* An event that has a row is left behind, its repetitions answered as     *)
(* duplicates, only if its amount is another or a delivery died.           *)
THEOREM LeftBehindByDeath == Spec => []LeftByDeathOnly
<1>1. Init => LeftByDeathOnly
  BY DEF Init, LeftByDeathOnly, Ids
<1> QED BY <1>1, LeftStep, Invariance, PTL DEF Spec
=============================================================================
