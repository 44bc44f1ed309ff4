-------------------------- MODULE PaymentSettlement --------------------------
(***************************************************************************)
(* One wallet top-up through a payment provider: the top-up call of        *)
(* commerce.service.ts, the provider's webhooks                            *)
(* (payment-webhooks.service.ts), the operator's reconciliation and the    *)
(* settlement they share (payment-settlement.service.ts).                  *)
(*                                                                         *)
(* applyFinalStatus is one step: its transaction begins with an update of  *)
(* the intent, so two of them on one intent come one after the other.      *)
(***************************************************************************)
EXTENDS Naturals, FiniteSets

CONSTANTS
  Events,      \* the provider's events for this payment ...
  Settles,     \* ... those that report the payment as made, ...
  Fails,       \* ... those that report it as failed, canceled or expired, ...
  Mismatched,  \* ... and those with another amount or currency than the intent
  EventId,     \* the id an event is stored under; one without an id of its own has
               \* that of the payment
  Calls,       \* API calls and webhook deliveries in flight
  MaxFaults    \* bound: calls that die

ASSUME EventsAssumption ==
  /\ Settles \subseteq Events /\ Fails \subseteq Events \ Settles
  /\ Mismatched \subseteq Events /\ MaxFaults \in Nat

VARIABLES
  intent,    \* payment_intents.status; "None" before the row exists
  credit,    \* status of the top-up's CREDIT row in transactions
  balance,   \* wallets.balance, in amounts of this top-up
  hooks,     \* payment_webhook_events: per id, the status and the event of the row
  calls,     \* what each call is at
  payments,  \* payments created at the provider
  accepted,  \* events the provider was answered with accepted = true
  faults

rows == <<intent, credit, balance>>
vars == <<rows, hooks, calls, payments, accepted, faults>>

FinalStatus == {"SETTLED", "FAILED"}   \* CANCELED and EXPIRED are treated as FAILED
IntentStatus == {"PENDING", "AUTHORIZED"} \cup FinalStatus

Ids == {EventId[e] : e \in Events}

NoCall == [at |-> "idle", event |-> "none", status |-> "none"]

TypeOK ==
  /\ intent \in {"None"} \cup IntentStatus
  /\ credit \in {"None", "PENDING", "POSTED", "FAILED"}
  /\ balance \in 0..2
  /\ hooks \in [Ids -> [status : {"None", "RECEIVED", "IGNORED", "FAILED", "PROCESSED"},
                        event : Events \cup {"none"}]]
  /\ calls \in [Calls -> [at : {"idle", "provider", "create", "receive", "resolve",
                                "apply", "mark", "reconcile"},
                          event : Events \cup {"none"},
                          status : IntentStatus \cup {"none"}]]
  /\ payments \in Nat
  /\ accepted \subseteq Events
  /\ faults \in 0..MaxFaults

Init ==
  /\ intent = "None"
  /\ credit = "None"
  /\ balance = 0
  /\ hooks = [i \in Ids |-> [status |-> "None", event |-> "none"]]
  /\ calls = [r \in Calls |-> NoCall]
  /\ payments = 0
  /\ accepted = {}
  /\ faults = 0

StatusOf(e) == hooks[EventId[e]].status

\* markEventStatus, by the id of the row
Mark(e, status) == hooks' = [hooks EXCEPT ![EventId[e]].status = status]

Goto(r, at) == calls' = [calls EXCEPT ![r].at = at]
Return(r)   == calls' = [calls EXCEPT ![r] = NoCall]

----------------------------------------------------------------------------
(* CommerceService.topUp with PAYMENT_ORCHESTRATION_ENABLED; every call has *)
(* the same idempotency key                                                 *)

\* no intent has the key yet (otherwise it is returned)
TopUpBegins(r) ==
  /\ calls[r] = NoCall
  /\ intent = "None"
  /\ Goto(r, "provider")
  /\ UNCHANGED <<rows, hooks, payments, accepted, faults>>

\* orchestration.createPayment; the provider may know the key already
ProviderCreates(r) ==
  /\ calls[r].at = "provider"
  /\ payments' = IF payments = 0 THEN 1 ELSE payments
  /\ Goto(r, "create")
  /\ UNCHANGED <<rows, hooks, accepted, faults>>

\* the transaction that creates intent and credit row; the key is unique, so a
\* second call throws here
TopUpCreates(r) ==
  /\ calls[r].at = "create"
  /\ IF intent = "None"
     THEN intent' = "PENDING" /\ credit' = "PENDING" /\ UNCHANGED balance
     ELSE UNCHANGED rows
  /\ Return(r)
  /\ UNCHANGED <<hooks, payments, accepted, faults>>

----------------------------------------------------------------------------
(* applyFinalStatus *)

\* mutant of CreditPendingWalletTopUp: the credit row is not looked at
CreditAgain ==
  /\ balance' = balance + 1
  /\ credit' = "POSTED"

\* creditPendingWalletTopUp
CreditPendingWalletTopUp ==
  IF credit = "POSTED" THEN UNCHANGED <<credit, balance>>
                       ELSE balance' = balance + 1 /\ credit' = "POSTED"

\* mutant of MarkTopUpAsFailed: a posted credit is marked as well
MarkAnyTopUpAsFailed == credit' = "FAILED" /\ UNCHANGED balance

\* markTopUpAsFailed
MarkTopUpAsFailed ==
  /\ credit' = IF credit = "POSTED" THEN credit ELSE "FAILED"
  /\ UNCHANGED balance

ApplyFinalStatus(status) ==
  /\ intent # "None"
  /\ intent' = status
  /\ IF status = "SETTLED" THEN CreditPendingWalletTopUp ELSE MarkTopUpAsFailed

----------------------------------------------------------------------------
(* PaymentWebhooksService.handleWebhook *)

\* findUnique: an event whose id has a row is answered as a duplicate
ReceiveWebhook(r, e) ==
  /\ calls[r] = NoCall
  /\ payments > 0
  /\ IF StatusOf(e) = "None"
     THEN calls' = [calls EXCEPT ![r] = [at |-> "receive", event |-> e, status |-> "none"]]
          /\ UNCHANGED accepted
     ELSE accepted' = accepted \cup {e} /\ UNCHANGED calls
  /\ UNCHANGED <<rows, hooks, payments, faults>>

\* create: (provider, eventId) is unique, so the second of two deliveries throws
RecordWebhook(r) ==
  /\ calls[r].at = "receive"
  /\ LET e == calls[r].event
     IN  IF StatusOf(e) = "None"
         THEN /\ hooks' = [hooks EXCEPT ![EventId[e]] = [status |-> "RECEIVED", event |-> e]]
              /\ Goto(r, "resolve")
         ELSE Return(r) /\ UNCHANGED hooks
  /\ UNCHANGED <<rows, payments, accepted, faults>>

\* mutant of DismissWebhook: an event without an intent is answered, its row not marked
DismissUnmarked(r) ==
  /\ calls[r].at = "resolve"
  /\ LET e == calls[r].event
     IN  /\ \/ e \notin Settles \cup Fails /\ Mark(e, "IGNORED")
            \/ e \in Settles \cup Fails /\ intent = "None" /\ UNCHANGED hooks
         /\ accepted' = accepted \cup {e}
  /\ Return(r)
  /\ UNCHANGED <<rows, payments, faults>>

\* the event has nothing to say, or no intent is found: the event is done with
DismissWebhook(r) ==
  /\ calls[r].at = "resolve"
  /\ LET e == calls[r].event
     IN  /\ \/ e \notin Settles \cup Fails /\ Mark(e, "IGNORED")
            \/ e \in Settles \cup Fails /\ intent = "None" /\ Mark(e, "FAILED")
         /\ accepted' = accepted \cup {e}
  /\ Return(r)
  /\ UNCHANGED <<rows, payments, faults>>

ResolveIntent(r) ==
  /\ calls[r].at = "resolve"
  /\ calls[r].event \in Settles \cup Fails
  /\ intent # "None"
  /\ Goto(r, "apply")
  /\ UNCHANGED <<rows, hooks, payments, accepted, faults>>

\* assertExpectedAmountAndCurrency throws: the event stays RECEIVED
RefuseAmount(r) ==
  /\ calls[r].at = "apply"
  /\ calls[r].event \in Mismatched
  /\ Return(r)
  /\ UNCHANGED <<rows, hooks, payments, accepted, faults>>

ApplyWebhook(r) ==
  /\ calls[r].at = "apply"
  /\ calls[r].event \notin Mismatched
  /\ ApplyFinalStatus(IF calls[r].event \in Settles THEN "SETTLED" ELSE "FAILED")
  /\ Goto(r, "mark")
  /\ UNCHANGED <<hooks, payments, accepted, faults>>

MarkEventStatus(r) ==
  /\ calls[r].at = "mark"
  /\ Mark(calls[r].event, "PROCESSED")
  /\ accepted' = accepted \cup {calls[r].event}
  /\ Return(r)
  /\ UNCHANGED <<rows, payments, faults>>

----------------------------------------------------------------------------
(* CommerceService.reconcilePaymentIntent *)

ReadForReconcile(r, status) ==
  /\ calls[r] = NoCall
  /\ intent # "None"
  /\ calls' = [calls EXCEPT ![r] = [at |-> "reconcile", event |-> "none", status |-> status]]
  /\ UNCHANGED <<rows, hooks, payments, accepted, faults>>

\* a final status is applied, any other is written over what is there
Reconcile(r) ==
  /\ calls[r].at = "reconcile"
  /\ IF calls[r].status \in FinalStatus
     THEN ApplyFinalStatus(calls[r].status)
     ELSE intent' = calls[r].status /\ UNCHANGED <<credit, balance>>
  /\ Return(r)
  /\ UNCHANGED <<hooks, payments, accepted, faults>>

\* the process dies, or a query throws
CallDies(r) ==
  /\ calls[r] # NoCall
  /\ faults < MaxFaults
  /\ faults' = faults + 1
  /\ Return(r)
  /\ UNCHANGED <<rows, hooks, payments, accepted>>

----------------------------------------------------------------------------
TopUp(r) == TopUpBegins(r) \/ ProviderCreates(r) \/ TopUpCreates(r)

Webhook(r) ==
  \/ \E e \in Events : ReceiveWebhook(r, e)
  \/ RecordWebhook(r)
  \/ DismissWebhook(r)
  \/ ResolveIntent(r)
  \/ RefuseAmount(r)
  \/ ApplyWebhook(r)
  \/ MarkEventStatus(r)

Next ==
  \E r \in Calls :
    \/ TopUp(r)
    \/ Webhook(r)
    \/ \E status \in IntentStatus : ReadForReconcile(r, status)
    \/ Reconcile(r)
    \/ CallDies(r)

Spec == Init /\ [][Next]_vars

----------------------------------------------------------------------------
(* Properties *)

\* "Wallet credit occurs only once": the wallet holds the amount exactly when
\* the credit row is POSTED, however many events and operators settle the intent.
CreditedOnce == balance = IF credit = "POSTED" THEN 1 ELSE 0

\* A payment whose success was processed stays credited, whatever fails later.
ProcessedStaysCredited ==
  \A e \in Settles :
    hooks[EventId[e]] = [status |-> "PROCESSED", event |-> e] => credit = "POSTED"

\* The only events that are left behind, every repetition of them being answered as
\* a duplicate (handleWebhook), are those of another amount and those whose delivery
\* died: any other row that is still RECEIVED has a delivery at work on it.
LeftByDeathOnly ==
  \A e \in Events :
    hooks[EventId[e]] = [status |-> "RECEIVED", event |-> e] =>
      \/ faults > 0
      \/ e \in Mismatched
      \/ \E r \in Calls : calls[r].event = e /\ calls[r].at \in {"resolve", "apply", "mark"}

\* "Wallet credit occurs ... only for pending top-up transaction rows."
OnlyPendingIsCredited == [][balance' > balance => credit = "PENDING"]_vars

\* "Duplicate webhook deliveries are replay-safe": what the provider was told is
\* accepted has been dealt with, or is being dealt with.
AcceptedIsDealtWith ==
  \A e \in accepted :
    StatusOf(e) = "RECEIVED" =>
      \E r \in Calls : calls[r].event # "none" /\ EventId[calls[r].event] = EventId[e]
=============================================================================
