---------------------------- MODULE WalletLedger ----------------------------
(***************************************************************************)
(* Wallets and their ledger in commerce.service.ts: direct top-up (payment *)
(* orchestration switched off), debit, refund and transfer, each of which  *)
(* reads the wallet, looks for a transaction with its idempotency key and  *)
(* writes in one transaction; and the operator's lock.                     *)
(*                                                                         *)
(* A call runs once; a client's retry is another call with the same key.   *)
(* A call that dies is one that takes no further step.                     *)
(***************************************************************************)
EXTENDS Integers, FiniteSetsExt

CONSTANTS
  Users,    \* users, each with a wallet
  Calls,    \* API calls
  Keys,     \* idempotency keys
  Amounts,  \* amounts a call may ask for
  Opening   \* what each wallet holds at first

WalletAssumption == Amounts \subseteq Nat \ {0} /\ Opening \in Nat

VARIABLES
  balance,  \* wallets.balance
  locked,   \* wallets with isLocked
  ledger,   \* the POSTED rows of transactions, each with the call that wrote it
  intents,  \* idempotency keys in payment_intents (unique there)
  calls     \* what each call is at

vars == <<balance, locked, ledger, intents, calls>>

Kinds == {"TOPUP", "DEBIT", "REFUND", "TRANSFER"}
NoKey == "none"  \* the key of a transfer's credit row, which no client sends

\* only a transfer has another wallet as its target
Requests ==
  {q \in [kind : Kinds, user : Users, target : Users, amount : Amounts, key : Keys] :
     q.kind # "TRANSFER" => q.target = q.user}

Row(c, user, type, amount, key) ==
  [call |-> c, wallet |-> user, type |-> type, amount |-> amount, key |-> key]

TypeOK ==
  /\ balance \in [Users -> Int]
  /\ locked \subseteq Users
  /\ \A row \in ledger :
       /\ row.call \in Calls /\ row.wallet \in Users /\ row.key \in Keys \cup {NoKey}
       /\ row.amount \in Amounts /\ row.type \in {"CREDIT", "DEBIT", "REFUND"}
  /\ intents \subseteq Keys
  /\ \A c \in Calls :
       /\ calls[c].at \in {"idle", "target", "lookup", "write", "done"}
       /\ calls[c].at # "idle" => calls[c].request \in Requests
       \* history: the calls that were done when this one began
       /\ calls[c].after \subseteq Calls

Init ==
  /\ balance = [u \in Users |-> Opening]
  /\ locked = {}
  /\ ledger = {}
  /\ intents = {}
  /\ calls = [c \in Calls |-> [at |-> "idle", request |-> {}, after |-> {}]]

Req(c) == calls[c].request
Goto(c, at) == calls' = [calls EXCEPT ![c].at = at]

\* mutant of Covers: the balance is not compared
AnyAmount(user, kind, amount) == TRUE

\* "Insufficient wallet balance"
Covers(user, kind, amount) ==
  kind \in {"DEBIT", "TRANSFER"} => balance[user] >= amount

\* ensureWallet, assertWalletUnlocked and the test of the balance; a call that is refused
\* here has done nothing
ReadWallet(c, request) ==
  /\ calls[c].at = "idle"
  /\ request.user \notin locked
  /\ Covers(request.user, request.kind, request.amount)
  /\ calls' = [calls EXCEPT ![c] =
       [at |-> IF request.kind = "TRANSFER" THEN "target" ELSE "lookup",
        request |-> request,
        after |-> {d \in Calls : calls[d].at = "done"}]]
  /\ UNCHANGED <<balance, locked, ledger, intents>>

\* transfer reads the other wallet as well
ReadTarget(c) ==
  /\ calls[c].at = "target"
  /\ Goto(c, IF Req(c).target \in locked THEN "done" ELSE "lookup")
  /\ UNCHANGED <<balance, locked, ledger, intents>>

\* mutant of Duplicate: transfers are looked for by their credit row
DuplicateByTarget(request) ==
  CASE request.kind = "TOPUP" -> request.key \in intents
    [] request.kind = "TRANSFER" ->
         \E row \in ledger : /\ row.wallet = request.target /\ row.key = request.key
                             /\ row.type = "DEBIT"
    [] OTHER -> \E row \in ledger : row.wallet = request.user /\ row.key = request.key

\* the row or intent that makes a request a duplicate
Duplicate(request) ==
  CASE request.kind = "TOPUP" -> request.key \in intents
    [] request.kind = "TRANSFER" ->
         \E row \in ledger : /\ row.wallet = request.user /\ row.key = request.key
                             /\ row.type = "DEBIT"
    [] OTHER -> \E row \in ledger : row.wallet = request.user /\ row.key = request.key

\* a duplicate is answered with the transaction that is there
FindDuplicate(c) ==
  /\ calls[c].at = "lookup"
  /\ Goto(c, IF Duplicate(Req(c)) THEN "done" ELSE "write")
  /\ UNCHANGED <<balance, locked, ledger, intents>>

----------------------------------------------------------------------------
(* The writing transactions *)

Begins(c, kind) == calls[c].at = "write" /\ Req(c).kind = kind

\* paymentIntent.create throws when another call has inserted the key
PostTopUp(c) ==
  /\ Begins(c, "TOPUP")
  /\ LET q == Req(c)
     IN  IF q.key \in intents
         THEN UNCHANGED <<balance, ledger, intents>>
         ELSE /\ intents' = intents \cup {q.key}
              /\ balance' = [balance EXCEPT ![q.user] = @ + q.amount]
              /\ ledger' = ledger \cup {Row(c, q.user, "CREDIT", q.amount, q.key)}
  /\ Goto(c, "done")
  /\ UNCHANGED locked

PostDebit(c) ==
  /\ Begins(c, "DEBIT")
  /\ LET q == Req(c)
     IN  /\ balance' = [balance EXCEPT ![q.user] = @ - q.amount]
         /\ ledger' = ledger \cup {Row(c, q.user, "DEBIT", q.amount, q.key)}
  /\ Goto(c, "done")
  /\ UNCHANGED <<locked, intents>>

\* mutant of PostRefund: the row has the type of a payment
PostRefundAsPayment(c) ==
  /\ Begins(c, "REFUND")
  /\ LET q == Req(c)
     IN  /\ balance' = [balance EXCEPT ![q.user] = @ + q.amount]
         /\ ledger' = ledger \cup {Row(c, q.user, "PAYMENT", q.amount, q.key)}
  /\ Goto(c, "done")
  /\ UNCHANGED <<locked, intents>>

PostRefund(c) ==
  /\ Begins(c, "REFUND")
  /\ LET q == Req(c)
     IN  /\ balance' = [balance EXCEPT ![q.user] = @ + q.amount]
         /\ ledger' = ledger \cup {Row(c, q.user, "REFUND", q.amount, q.key)}
  /\ Goto(c, "done")
  /\ UNCHANGED <<locked, intents>>

\* mutant of PostTransfer: both balances are computed from what was there before
PostTransferFromSnapshot(c) ==
  /\ Begins(c, "TRANSFER")
  /\ LET q == Req(c)
     IN  /\ balance' = [balance EXCEPT ![q.user] = balance[q.user] - q.amount,
                                       ![q.target] = balance[q.target] + q.amount]
         /\ ledger' = ledger \cup {Row(c, q.user, "DEBIT", q.amount, q.key),
                                   Row(c, q.target, "CREDIT", q.amount, NoKey)}
  /\ Goto(c, "done")
  /\ UNCHANGED <<locked, intents>>

\* nothing keeps source and target from being the same wallet
PostTransfer(c) ==
  /\ Begins(c, "TRANSFER")
  /\ LET q == Req(c)
     IN  /\ balance' = [balance EXCEPT ![q.user] = @ - q.amount,
                                       ![q.target] = @ + q.amount]
         /\ ledger' = ledger \cup {Row(c, q.user, "DEBIT", q.amount, q.key),
                                   Row(c, q.target, "CREDIT", q.amount, NoKey)}
  /\ Goto(c, "done")
  /\ UNCHANGED <<locked, intents>>

----------------------------------------------------------------------------
\* repeated, they change nothing
LockWallet(user) ==
  /\ user \notin locked
  /\ locked' = locked \cup {user}
  /\ UNCHANGED <<balance, ledger, intents, calls>>

UnlockWallet(user) ==
  /\ user \in locked
  /\ locked' = locked \ {user}
  /\ UNCHANGED <<balance, ledger, intents, calls>>

Next ==
  \/ \E c \in Calls :
       \/ \E request \in Requests : ReadWallet(c, request)
       \/ ReadTarget(c)
       \/ FindDuplicate(c)
       \/ PostTopUp(c) \/ PostDebit(c) \/ PostRefund(c) \/ PostTransfer(c)
  \/ \E user \in Users : LockWallet(user) \/ UnlockWallet(user)

Spec == Init /\ [][Next]_vars

----------------------------------------------------------------------------
(* Properties *)

Signed(row) == IF row.type = "DEBIT" THEN - row.amount ELSE row.amount

\* Neither was done when the other began.
Overlap(c, d) == c \notin calls[d].after /\ d \notin calls[c].after

\* The balance of a wallet is what it began with and its POSTED rows.
LedgerExplainsBalance ==
  \A u \in Users :
    balance[u] = Opening + MapThenSumSet(Signed, {row \in ledger : row.wallet = u})

\* An idempotency key moves money once: of two rows of one type, wallet and key,
\* the calls overlapped (findFirst and the insert are not one step), and two
\* top-ups never share one.
ChargedOncePerKey ==
  \A x, y \in ledger :
    /\ x.call # y.call /\ x.wallet = y.wallet /\ x.type = y.type
    /\ x.key = y.key /\ x.key # NoKey
    => x.type # "CREDIT" /\ Overlap(x.call, y.call)

\* A wallet is overdrawn only by debits that were all admitted before one of
\* them wrote.
OverdrawnByOverlapOnly ==
  \A u \in Users : balance[u] < 0 =>
    \E x, y \in {row \in ledger : row.wallet = u /\ row.type = "DEBIT"} :
      x.call # y.call /\ Overlap(x.call, y.call)
=============================================================================
