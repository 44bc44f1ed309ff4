------------------------- MODULE TenantRecordsProofs -------------------------
(***************************************************************************)
(* Inductive invariants of the components of Records that keep a tenant's  *)
(* money, prices, branding, people, webhooks and application: each holds   *)
(* in the component's initial states, its steps preserve it, and it implies*)
(* the component's properties.  RecordsProofs has the same for the other    *)
(* components, and the theorems.                                           *)
(*                                                                         *)
(* Names that two components use carry the component's: WalletInv is the   *)
(* invariant of the wallets, WalletInit and WalletStep say that it is      *)
(* inductive, and so on.                                                   *)
(***************************************************************************)
EXTENDS Records, Integers, Sequences, FiniteSets, FiniteSetTheorems, WellFoundedInduction, TLAPS

(***************************************************************************)
(* A behaviour of the composition is one component's: it starts in its     *)
(* initial states and every step is one of its steps or none.              *)
(***************************************************************************)
LEMMA Started ==
  Init =>
    /\ part = "wallet" => Wallet!Init
    /\ part = "branding" => Branding!Init
    /\ part = "telemetry" => Telemetry!Init
    /\ part = "groups" => LoadGroups!Init
    /\ part = "plans" => Planning!Init
    /\ part = "tiers" => Pricing!Init
    /\ part = "team" => Team!Init
    /\ part = "webhooks" => Webhooks(Hooks, {"process"}, 1)!Init
    /\ part = "timers" => Webhooks({"hook"}, Timers, MaxCycles)!Init
    /\ part = "onboarding" => Onboarding!Init
    /\ part = "methods" => Methods!Init
    /\ part = "tariffs" => Tariffs!Init
    /\ part = "identity" => Identities!Init
    /\ part = "providers" => Providers!Init
  BY DEF Init

\* ... and goes on with its steps.
LEMMA Stepped ==
  [Next]_vars =>
    /\ part' = part
    /\ part = "wallet" => [Wallet!Next]_(Wallet!vars)
    /\ part = "branding" => [Branding!Next]_(Branding!vars)
    /\ part = "telemetry" => [Telemetry!Next]_(Telemetry!vars)
    /\ part = "groups" => [LoadGroups!Next]_(LoadGroups!vars)
    /\ part = "plans" => [Planning!Next]_(Planning!vars)
    /\ part = "tiers" => [Pricing!Next]_(Pricing!vars)
    /\ part = "team" => [Team!Next]_(Team!vars)
    /\ part = "webhooks" => [Webhooks(Hooks, {"process"}, 1)!Next]_(Webhooks(Hooks, {"process"}, 1)!vars)
    /\ part = "timers" => [Webhooks({"hook"}, Timers, MaxCycles)!Next]_(Webhooks({"hook"}, Timers, MaxCycles)!vars)
    /\ part = "onboarding" => [Onboarding!Next]_(Onboarding!vars)
    /\ part = "methods" => [Methods!Next]_(Methods!vars)
    /\ part = "tariffs" => [Tariffs!Next]_(Tariffs!vars)
    /\ part = "identity" => [Identities!Next]_(Identities!vars)
    /\ part = "providers" => [Providers!Next]_(Providers!vars)
<1>1. CASE UNCHANGED vars
  BY <1>1 DEF vars, Wallet!vars, Branding!vars, Telemetry!vars, LoadGroups!vars, Planning!vars, Pricing!vars, Team!vars, Webhooks!vars, Onboarding!vars, Methods!vars, Tariffs!vars, Identities!vars, Providers!vars
<1>2. CASE Next
  BY <1>2 DEF Next
<1> QED BY <1>1, <1>2

----------------------------------------------------------------------------
(* Bounded sets of numbers                                                 *)

\* A set of naturals that is not empty has a least one ...
LEMMA LeastNatural ==
  ASSUME NEW S, S \subseteq Nat, S # {}
  PROVE  \E x \in S : \A y \in S : x <= y
<1> DEFINE R == OpToRel(<, Nat)
<1>1. IsWellFoundedOn(R, Nat)
  BY NatLessThanWellFounded
<1>2. ASSUME NEW x \in Nat, NEW y \in Nat, <<y, x>> \notin R PROVE x <= y
  <2>1. ~ (y < x)
    BY <1>2 DEF OpToRel
  <2> QED BY <2>1
<1> HIDE DEF R
<1>3. PICK x \in S : \A y \in S : <<y, x>> \notin R
  BY <1>1, WFMin
<1> QED BY <1>2, <1>3, Zenon

\* ... and, if it is bounded, a greatest.
LEMMA GreatestNatural ==
  ASSUME NEW S, S \subseteq Nat, S # {}, NEW n \in Nat, \A y \in S : y <= n
  PROVE  \E x \in S : \A y \in S : y <= x
<1> DEFINE T == {n - y : y \in S}
<1>1. T \subseteq Nat
  <2> SUFFICES ASSUME NEW y \in S PROVE n - y \in Nat
    BY Zenon
  <2> QED BY y <= n, y \in Nat
<1>2. T # {}
  BY Zenon
<1>3. PICK t \in T : \A u \in T : t <= u
  BY <1>1, <1>2, LeastNatural
<1>4. PICK x \in S : t = n - x
  BY <1>3
<1>5. \A y \in S : n - x <= n - y
  BY <1>3, <1>4
<1> QED BY <1>4, <1>5

----------------------------------------------------------------------------
(* Sums over the ledger                                                    *)
(*                                                                         *)
(* MapThenSumSet takes the rows one after the other as CHOOSE offers them. *)
(* A function that adds up the rows of every subset in whatever order      *)
(* exists, is unique, and agrees with it; so a new row adds its amount.    *)
(* The inductions are by the least counterexample.                         *)

Additive(g, S) ==
  /\ g \in [SUBSET S -> Int]
  /\ g[{}] = 0
  /\ \A T \in SUBSET S : \A x \in S \ T : g[T \cup {x}] = Wallet!Signed(x) + g[T]

\* Of the subsets of a finite set with a property, one is least: without any of its
\* elements it does not have it.
LEMMA LeastSubset ==
  ASSUME NEW S, IsFiniteSet(S), NEW Bad, Bad \subseteq SUBSET S, Bad # {}
  PROVE  \E T \in Bad : \A x \in T : T \ {x} \notin Bad
<1> DEFINE Sizes == {Cardinality(T) : T \in Bad}
<1>1. \A T \in Bad : IsFiniteSet(T)
  BY FS_Subset
<1>2. Sizes \subseteq Nat
  <2> SUFFICES ASSUME NEW T \in Bad PROVE Cardinality(T) \in Nat
    BY Zenon
  <2> QED BY <1>1, FS_CardinalityType
<1>3. Sizes # {}
  BY Zenon
<1>4. PICK n \in Sizes : \A m \in Sizes : n <= m
  BY <1>2, <1>3, LeastNatural
<1>5. PICK T \in Bad : n = Cardinality(T)
  BY <1>4
<1>6. ASSUME NEW x \in T, T \ {x} \in Bad PROVE FALSE
  <2>1. Cardinality(T \ {x}) = Cardinality(T) - 1
    BY <1>1, FS_RemoveElement
  <2>2. n <= Cardinality(T \ {x})
    BY <1>4, <1>6
  <2>3. n \in Nat
    BY <1>2
  <2> QED BY <1>5, <2>1, <2>2, <2>3
<1> QED BY <1>6

\* Rows are added to the set one by one, each new one to every subset without it.
LEMMA AdditiveExists ==
  ASSUME NEW S, IsFiniteSet(S), \A x \in S : Wallet!Signed(x) \in Int
  PROVE  \E g : Additive(g, S)
<1> DEFINE Bad == {T \in SUBSET S : ~ \E g : Additive(g, T)}
<1>1. SUFFICES ASSUME Bad # {} PROVE FALSE
  OBVIOUS
<1>2. PICK T \in Bad : \A x \in T : T \ {x} \notin Bad
  <2>1. Bad \subseteq SUBSET S
    OBVIOUS
  <2> HIDE DEF Bad
  <2> QED BY <1>1, <2>1, LeastSubset
<1>3. T # {}
  <2> SUFFICES ASSUME T = {} PROVE \E g : Additive(g, T)
    BY <1>2
  <2> DEFINE g == [s \in SUBSET T |-> 0]
  <2>1. Additive(g, T)
    BY DEF Additive
  <2> QED BY <2>1
<1>4. PICK x : x \in T
  BY <1>3
<1>5. T \subseteq S /\ T \ {x} \in SUBSET S
  BY <1>2
<1>6. PICK g : Additive(g, T \ {x})
  BY <1>2, <1>4, <1>5
<1> DEFINE h == [s \in SUBSET T |-> IF x \in s THEN Wallet!Signed(x) + g[s \ {x}] ELSE g[s]]
<1>7. Wallet!Signed(x) \in Int
  BY <1>4, <1>5
<1>8. \A s \in SUBSET T : s \ {x} \in SUBSET (T \ {x}) /\ (x \notin s => s \ {x} = s)
  OBVIOUS
<1>9. g \in [SUBSET (T \ {x}) -> Int] /\ g[{}] = 0
      /\ \A s \in SUBSET (T \ {x}) : \A y \in (T \ {x}) \ s : g[s \cup {y}] = Wallet!Signed(y) + g[s]
  BY <1>6 DEF Additive
<1>10. h \in [SUBSET T -> Int]
  <2> SUFFICES ASSUME NEW s \in SUBSET T PROVE (IF x \in s THEN Wallet!Signed(x) + g[s \ {x}] ELSE g[s]) \in Int
    OBVIOUS
  <2>1. g[s \ {x}] \in Int
    BY <1>8, <1>9
  <2> QED BY <1>7, <1>8, <2>1
<1>11. h[{}] = 0
  BY <1>9
<1>12. ASSUME NEW s \in SUBSET T, NEW y \in T \ s PROVE h[s \cup {y}] = Wallet!Signed(y) + h[s]
  <2>1. s \cup {y} \in SUBSET T
    OBVIOUS
  <2>2. CASE y = x
    <3>1. (s \cup {y}) \ {x} = s /\ x \notin s
      BY <2>2
    <3> QED BY <2>1, <2>2, <3>1
  <2>3. CASE y # x /\ x \in s
    <3>1. (s \cup {y}) \ {x} = (s \ {x}) \cup {y} /\ y \in (T \ {x}) \ (s \ {x}) /\ s \ {x} \in SUBSET (T \ {x})
      BY <2>3
    <3>2. g[(s \ {x}) \cup {y}] = Wallet!Signed(y) + g[s \ {x}]
      BY <1>9, <3>1
    <3>3. Wallet!Signed(y) \in Int /\ g[s \ {x}] \in Int
      BY <1>5, <1>9, <3>1
    <3>4. h[s \cup {y}] = Wallet!Signed(x) + (Wallet!Signed(y) + g[s \ {x}])
      BY <2>1, <2>3, <3>1, <3>2
    <3>5. h[s] = Wallet!Signed(x) + g[s \ {x}]
      BY <2>3
    <3> HIDE DEF h
    <3> QED BY <1>7, <3>3, <3>4, <3>5
  <2>4. CASE y # x /\ x \notin s
    <3>1. y \in (T \ {x}) \ s /\ s \in SUBSET (T \ {x})
      BY <2>4
    <3>2. g[s \cup {y}] = Wallet!Signed(y) + g[s]
      BY <1>9, <3>1
    <3> QED BY <2>1, <2>4, <3>2
  <2> QED BY <2>2, <2>3, <2>4
<1>13. Additive(h, T)
  <2> HIDE DEF h
  <2> QED BY <1>10, <1>11, <1>12 DEF Additive
<1> QED BY <1>2, <1>13

\* Two of them agree where both are defined.
LEMMA AdditiveUnique ==
  ASSUME NEW S, IsFiniteSet(S), NEW R, S \subseteq R, NEW g, Additive(g, S), NEW h, Additive(h, R)
  PROVE  \A T \in SUBSET S : g[T] = h[T]
<1> DEFINE Bad == {T \in SUBSET S : g[T] # h[T]}
<1>1. SUFFICES ASSUME Bad # {} PROVE FALSE
  OBVIOUS
<1>2. PICK T \in Bad : \A x \in T : T \ {x} \notin Bad
  <2>1. Bad \subseteq SUBSET S
    OBVIOUS
  <2> HIDE DEF Bad
  <2> QED BY <1>1, <2>1, LeastSubset
<1>3. T # {}
  BY <1>2 DEF Additive
<1>4. PICK x : x \in T
  BY <1>3
<1>5. T \ {x} \in SUBSET S /\ x \in S \ (T \ {x}) /\ x \in R \ (T \ {x}) /\ T \ {x} \in SUBSET R
      /\ T = (T \ {x}) \cup {x}
  BY <1>2, <1>4
<1>6. g[T \ {x}] = h[T \ {x}]
  BY <1>2, <1>4, <1>5
<1>7. g[(T \ {x}) \cup {x}] = Wallet!Signed(x) + g[T \ {x}] /\ h[(T \ {x}) \cup {x}] = Wallet!Signed(x) + h[T \ {x}]
  BY <1>5 DEF Additive
<1>8. g[T] = h[T]
  BY <1>5, <1>6, <1>7
<1> QED BY <1>2, <1>8

\* The recursive sum takes out one row at a time, so it agrees with such a function.
LEMMA SumIsAdditive ==
  ASSUME NEW S, IsFiniteSet(S), NEW h, Additive(h, S)
  PROVE  Wallet!MapThenSumSet(Wallet!Signed, S) = h[S]
<1> DEFINE first(s) == CHOOSE x \in s : TRUE
           Adds(f) == f = [s \in SUBSET S |-> IF s = {} THEN 0 ELSE Wallet!Signed(first(s)) + f[s \ {first(s)}]]
           g == CHOOSE f : Adds(f)
<1>1. Wallet!MapThenSumSet(Wallet!Signed, S) = g[S]
  BY DEF Wallet!MapThenSumSet, Wallet!MapThenFoldSet
<1>2. \A s \in SUBSET S : s # {} => first(s) \in s
  OBVIOUS
<1> HIDE DEF first
<1>3. ASSUME NEW s \in SUBSET S
      PROVE  h[s] = IF s = {} THEN 0 ELSE Wallet!Signed(first(s)) + h[s \ {first(s)}]
  <2>1. CASE s = {}
    BY <2>1 DEF Additive
  <2>2. CASE s # {}
    <3>1. s \ {first(s)} \in SUBSET S /\ first(s) \in S \ (s \ {first(s)}) /\ s = (s \ {first(s)}) \cup {first(s)}
      BY <1>2, <2>2
    <3>2. h[(s \ {first(s)}) \cup {first(s)}] = Wallet!Signed(first(s)) + h[s \ {first(s)}]
      BY <3>1 DEF Additive
    <3> QED BY <2>2, <3>1, <3>2
  <2> QED BY <2>1, <2>2
<1>4. Adds(h)
  <2>1. h = [s \in SUBSET S |-> h[s]]
    BY DEF Additive
  <2> QED BY <1>3, <2>1
<1>5. Adds(g)
  <2> HIDE DEF Adds
  <2> QED BY <1>4
<1> HIDE DEF g
<1> DEFINE Bad == {T \in SUBSET S : g[T] # h[T]}
<1>6. CASE Bad = {}
  BY <1>1, <1>6
<1>7. CASE Bad # {}
  <2>1. PICK T \in Bad : \A x \in T : T \ {x} \notin Bad
    <3>1. Bad \subseteq SUBSET S
      OBVIOUS
    <3> HIDE DEF Bad
    <3> QED BY <1>7, <3>1, LeastSubset
  <2>2. T \in SUBSET S /\ g[T] # h[T]
    BY <2>1
  <2>3. g[T] = IF T = {} THEN 0 ELSE Wallet!Signed(first(T)) + g[T \ {first(T)}]
    BY <1>5, <2>2
  <2>4. T # {}
    BY <1>3, <2>2, <2>3
  <2>5. first(T) \in T /\ T \ {first(T)} \in SUBSET S
    BY <1>2, <2>2, <2>4
  <2>6. g[T \ {first(T)}] = h[T \ {first(T)}]
    BY <2>1, <2>5
  <2>7. h[T] = Wallet!Signed(first(T)) + h[T \ {first(T)}]
    BY <1>3, <2>2, <2>4
  <2> QED BY <2>2, <2>3, <2>4, <2>6, <2>7
<1> QED BY <1>6, <1>7

\* A new row adds its amount.
LEMMA SumGrows ==
  ASSUME NEW S, IsFiniteSet(S), NEW x, x \notin S, \A y \in S \cup {x} : Wallet!Signed(y) \in Int
  PROVE  /\ IsFiniteSet(S \cup {x})
         /\ Wallet!MapThenSumSet(Wallet!Signed, S) \in Int
         /\ Wallet!MapThenSumSet(Wallet!Signed, S \cup {x}) = Wallet!Signed(x) + Wallet!MapThenSumSet(Wallet!Signed, S)
<1> DEFINE R == S \cup {x}
<1>1. IsFiniteSet(R)
  BY FS_AddElement
<1>2. PICK g : Additive(g, S)
  BY AdditiveExists
<1>3. \A y \in R : Wallet!Signed(y) \in Int
  OBVIOUS
<1>4. S \subseteq R /\ x \in R \ S /\ R = S \cup {x} /\ S \in SUBSET S
  OBVIOUS
<1> HIDE DEF R
<1>5. PICK h : Additive(h, R)
  BY <1>1, <1>3, AdditiveExists
<1>6. g[S] = h[S]
  BY <1>2, <1>4, <1>5, AdditiveUnique
<1>7. h[S \cup {x}] = Wallet!Signed(x) + h[S]
  BY <1>4, <1>5 DEF Additive
<1>8. Wallet!MapThenSumSet(Wallet!Signed, S) = g[S] /\ Wallet!MapThenSumSet(Wallet!Signed, R) = h[R]
  BY <1>1, <1>2, <1>5, SumIsAdditive
<1>9. g[S] \in Int
  BY <1>2, <1>4 DEF Additive
<1> QED BY <1>1, <1>4, <1>6, <1>7, <1>8, <1>9

\* No rows, no sum.
LEMMA SumOfNothing == Wallet!MapThenSumSet(Wallet!Signed, {}) = 0
<1>1. IsFiniteSet({})
  BY FS_EmptySet
<1>2. PICK g : Additive(g, {})
  BY <1>1, AdditiveExists
<1> QED BY <1>1, <1>2, SumIsAdditive DEF Additive

\* what the rows L leave on the wallet of u
Posted(u, L) == Wallet!MapThenSumSet(Wallet!Signed, {row \in L : row.wallet = u})

\* A new row changes what is posted on its own wallet and on no other.
LEMMA PostedGrows ==
  ASSUME NEW L, IsFiniteSet(L), NEW x, x \notin L, \A y \in L \cup {x} : Wallet!Signed(y) \in Int
  PROVE  /\ IsFiniteSet(L \cup {x})
         /\ \A u : /\ Posted(u, L) \in Int
                   /\ Posted(u, L \cup {x}) = IF x.wallet = u THEN Wallet!Signed(x) + Posted(u, L) ELSE Posted(u, L)
<1>1. IsFiniteSet(L \cup {x})
  BY FS_AddElement
<1>2. ASSUME NEW u
      PROVE  /\ Posted(u, L) \in Int
             /\ Posted(u, L \cup {x}) = IF x.wallet = u THEN Wallet!Signed(x) + Posted(u, L) ELSE Posted(u, L)
  <2>1. PICK S : S = {row \in L : row.wallet = u}
    OBVIOUS
  <2>2. IsFiniteSet(S) /\ x \notin S /\ \A y \in S \cup {x} : Wallet!Signed(y) \in Int
    BY <2>1, FS_Subset
  <2>3. /\ Wallet!MapThenSumSet(Wallet!Signed, S) \in Int
        /\ Wallet!MapThenSumSet(Wallet!Signed, S \cup {x}) = Wallet!Signed(x) + Wallet!MapThenSumSet(Wallet!Signed, S)
    BY <2>2, SumGrows
  <2>4. {row \in L \cup {x} : row.wallet = u} = IF x.wallet = u THEN S \cup {x} ELSE S
    BY <2>1
  <2> QED BY <2>1, <2>3, <2>4 DEF Posted
<1> QED BY <1>1, <1>2

----------------------------------------------------------------------------
(* The wallets                                                             *)

WalletCallsTyped ==
  /\ calls \in [Calls -> [at : {"idle", "target", "lookup", "write", "done"},
                          request : Wallet!Requests \cup {{}}, after : SUBSET Calls]]
  /\ \A c \in Calls : calls[c].at # "idle" => calls[c].request \in Wallet!Requests

\* A call begins after calls that have ended, and they have ended for good.
WalletAfterIsDone == \A c \in Calls : \A d \in calls[c].after : calls[d].at = "done"

\* A row was written by a call that has ended, and the key of a top-up is taken.
WalletRowsAreWritten ==
  \A row \in ledger :
    /\ row.call \in Calls /\ calls[row.call].at = "done"
    /\ row.type = "CREDIT" /\ row.key # Wallet!NoKey => row.key \in intents

\* The rows that would have made a request a duplicate.
WalletSameCharge(request, row) ==
  /\ row.wallet = request.user /\ row.key = request.key
  /\ request.kind = "TRANSFER" => row.type = "DEBIT"

\* A call about to write has looked: the rows that are there nevertheless were written
\* by calls that had not ended when it began.
WalletLookedUp ==
  \A c \in Calls, row \in ledger :
    /\ calls[c].at = "write" /\ calls[c].request.kind # "TOPUP"
    /\ WalletSameCharge(calls[c].request, row)
    => row.call \notin calls[c].after

WalletIInv ==
  /\ WalletCallsTyped
  /\ WalletAfterIsDone
  /\ WalletRowsAreWritten
  /\ WalletLookedUp
  /\ Wallet!ChargedOncePerKey

\* Nothing was posted and nobody has begun.
LEMMA WalletIInvInit == Wallet!Init => WalletIInv
  BY DEF Wallet!Init, WalletIInv, WalletCallsTyped, WalletAfterIsDone, WalletRowsAreWritten, WalletLookedUp, Wallet!ChargedOncePerKey

(* A call that reads leaves ledger and intents alone.  If it goes on to write, it   *)
(* has found no row for its request.                                              *)
LEMMA WalletReadingPreserves ==
  ASSUME WalletIInv, NEW c \in Calls, calls[c].at \notin {"write", "done"},
         UNCHANGED <<ledger, intents>>, WalletCallsTyped',
         \A d \in Calls \ {c} : calls'[d] = calls[d],
         \A d \in calls'[c].after : calls[d].at = "done",
         calls'[c].at = "write" /\ calls'[c].request.kind # "TOPUP" =>
           \A row \in ledger : ~ WalletSameCharge(calls'[c].request, row)
  PROVE  WalletIInv'
<1>1. WalletAfterIsDone'
  BY DEF WalletIInv, WalletAfterIsDone, WalletCallsTyped
<1>2. WalletRowsAreWritten'
  BY DEF WalletIInv, WalletRowsAreWritten
<1>3. WalletLookedUp'
  BY DEF WalletIInv, WalletLookedUp, WalletSameCharge
<1>4. Wallet!ChargedOncePerKey'
  BY DEF WalletIInv, Wallet!ChargedOncePerKey, Wallet!Overlap, WalletRowsAreWritten
<1> QED BY <1>1, <1>2, <1>3, <1>4 DEF WalletIInv

\* A call that begins has nothing to write yet.
LEMMA WalletReadWalletPreserves ==
  ASSUME WalletIInv, NEW c \in Calls, NEW request \in Wallet!Requests, Wallet!ReadWallet(c, request)
  PROVE  WalletIInv'
<1>1. WalletCallsTyped' /\ (\A d \in Calls \ {c} : calls'[d] = calls[d])
      /\ calls'[c].at # "write" /\ (\A d \in calls'[c].after : calls[d].at = "done")
  BY DEF Wallet!ReadWallet, WalletIInv, WalletCallsTyped
<1> QED BY <1>1, WalletReadingPreserves DEF Wallet!ReadWallet

\* ... nor once it has read the other wallet.
LEMMA WalletReadTargetPreserves ==
  ASSUME WalletIInv, NEW c \in Calls, Wallet!ReadTarget(c)
  PROVE  WalletIInv'
<1>1. WalletCallsTyped' /\ (\A d \in Calls \ {c} : calls'[d] = calls[d])
      /\ calls'[c].at # "write" /\ calls'[c].after = calls[c].after
  BY DEF Wallet!ReadTarget, Wallet!Goto, WalletIInv, WalletCallsTyped
<1> QED BY <1>1, WalletReadingPreserves DEF Wallet!ReadTarget, WalletIInv, WalletAfterIsDone

\* Who goes on to write has found no row like its own.
LEMMA WalletFindDuplicatePreserves ==
  ASSUME WalletIInv, NEW c \in Calls, Wallet!FindDuplicate(c)
  PROVE  WalletIInv'
<1>1. WalletCallsTyped' /\ (\A d \in Calls \ {c} : calls'[d] = calls[d])
      /\ calls'[c].request = calls[c].request /\ calls'[c].after = calls[c].after
      /\ (calls'[c].at = "write" => ~ Wallet!Duplicate(calls[c].request))
  BY DEF Wallet!FindDuplicate, Wallet!Goto, Wallet!Req, WalletIInv, WalletCallsTyped
<1>2. calls[c].request \in Wallet!Requests
  BY DEF Wallet!FindDuplicate, WalletIInv, WalletCallsTyped
<1>3. ASSUME calls'[c].at = "write", calls'[c].request.kind # "TOPUP", NEW row \in ledger
      PROVE  ~ WalletSameCharge(calls'[c].request, row)
  BY <1>1, <1>2, <1>3 DEF Wallet!Duplicate, WalletSameCharge
<1> QED BY <1>1, <1>3, WalletReadingPreserves DEF Wallet!FindDuplicate, WalletIInv, WalletAfterIsDone

(* A writing call ends and adds rows of its own: charges for its request, a credit   *)
(* whose key was free, or a credit without a key.                                  *)
LEMMA WalletWritingPreserves ==
  ASSUME WalletIInv, NEW c \in Calls, calls[c].at = "write", Wallet!Goto(c, "done"),
         ledger \subseteq ledger', intents \subseteq intents',
         \A row \in ledger' \ ledger :
           /\ row.call = c
           /\ row.type = "CREDIT" /\ row.key # Wallet!NoKey => row.key \in intents' \ intents
           /\ row.type # "CREDIT" =>
                calls[c].request.kind # "TOPUP" /\ row.wallet = calls[c].request.user
                /\ row.key = calls[c].request.key
                /\ (calls[c].request.kind = "TRANSFER" => row.type = "DEBIT")
  PROVE  WalletIInv'
<1>1. WalletCallsTyped' /\ (\A d \in Calls \ {c} : calls'[d] = calls[d])
      /\ calls'[c].at = "done" /\ (\A d \in Calls : calls'[d].after = calls[d].after)
  BY DEF Wallet!Goto, WalletIInv, WalletCallsTyped
<1>2. WalletAfterIsDone'
  BY <1>1 DEF WalletIInv, WalletAfterIsDone, WalletCallsTyped
<1>3. WalletRowsAreWritten'
  BY <1>1 DEF WalletIInv, WalletRowsAreWritten
\* c has not ended, so no call began after it
<1>4. \A d \in Calls : c \notin calls[d].after
  BY DEF WalletIInv, WalletAfterIsDone
<1>5. WalletLookedUp'
  BY <1>1, <1>4 DEF WalletIInv, WalletLookedUp, WalletSameCharge
<1>6. Wallet!ChargedOncePerKey'
  <2> SUFFICES ASSUME NEW x \in ledger', NEW y \in ledger', x.call # y.call,
                      x.wallet = y.wallet, x.type = y.type, x.key = y.key, x.key # Wallet!NoKey
               PROVE  x.type # "CREDIT" /\ Wallet!Overlap(x.call, y.call)'
    BY DEF Wallet!ChargedOncePerKey
  <2>1. x.call \in Calls /\ y.call \in Calls
    BY <1>3 DEF WalletRowsAreWritten
  <2>2. ASSUME NEW v \in ledger' \ ledger, NEW w \in ledger, w.wallet = v.wallet, w.type = v.type,
               w.key = v.key, w.key # Wallet!NoKey
        PROVE  /\ v.type # "CREDIT" /\ w.call \in Calls
               /\ c \notin calls[w.call].after /\ w.call \notin calls[c].after
    <3>1. v.type # "CREDIT"
      BY <2>2 DEF WalletIInv, WalletRowsAreWritten
    <3>2. WalletSameCharge(calls[c].request, w)
      BY <2>2, <3>1 DEF WalletSameCharge
    <3> QED BY <2>2, <3>1, <3>2, <1>4 DEF WalletIInv, WalletLookedUp, WalletRowsAreWritten
  <2>3. CASE x \in ledger /\ y \in ledger
    BY <2>1, <2>3, <1>1 DEF WalletIInv, Wallet!ChargedOncePerKey, Wallet!Overlap
  <2>4. CASE x \notin ledger /\ y \in ledger
    BY <2>1, <2>2, <2>4, <1>1 DEF Wallet!Overlap
  <2>5. CASE x \in ledger /\ y \notin ledger
    BY <2>1, <2>2, <2>5, <1>1 DEF Wallet!Overlap
  <2>6. x \in ledger \/ y \in ledger
    OBVIOUS
  <2> QED BY <2>3, <2>4, <2>5, <2>6
<1> QED BY <1>1, <1>2, <1>3, <1>5, <1>6 DEF WalletIInv

\* The unique key of the intent keeps the second top-up out.
LEMMA WalletPostTopUpPreserves ==
  ASSUME WalletIInv, NEW c \in Calls, Wallet!PostTopUp(c)
  PROVE  WalletIInv'
<1> DEFINE q == calls[c].request
<1>1. CASE q.key \in intents
  <2>1. ledger' = ledger /\ intents' = intents /\ Wallet!Goto(c, "done") /\ calls[c].at = "write"
    BY <1>1 DEF Wallet!PostTopUp, Wallet!Begins, Wallet!Req
  <2> QED BY <2>1, WalletWritingPreserves
<1>2. CASE q.key \notin intents
  <2>1. /\ ledger' = ledger \cup {Wallet!Row(c, q.user, "CREDIT", q.amount, q.key)}
        /\ intents' = intents \cup {q.key} /\ Wallet!Goto(c, "done") /\ calls[c].at = "write"
    BY <1>2 DEF Wallet!PostTopUp, Wallet!Begins, Wallet!Req
  <2> HIDE DEF q
  <2> QED BY <2>1, <1>2, WalletWritingPreserves DEF Wallet!Row
<1> QED BY <1>1, <1>2

\* A debit, refund or transfer posts for its own request only.
LEMMA WalletPostChargePreserves ==
  ASSUME WalletIInv, NEW c \in Calls, Wallet!PostDebit(c) \/ Wallet!PostRefund(c) \/ Wallet!PostTransfer(c)
  PROVE  WalletIInv'
<1> DEFINE q == calls[c].request
<1>1. CASE Wallet!PostDebit(c)
  <2>1. /\ ledger' = ledger \cup {Wallet!Row(c, q.user, "DEBIT", q.amount, q.key)} /\ intents' = intents
        /\ Wallet!Goto(c, "done") /\ calls[c].at = "write" /\ q.kind = "DEBIT"
    BY <1>1 DEF Wallet!PostDebit, Wallet!Begins, Wallet!Req
  <2> QED BY <2>1, WalletWritingPreserves DEF Wallet!Row
<1>2. CASE Wallet!PostRefund(c)
  <2>1. /\ ledger' = ledger \cup {Wallet!Row(c, q.user, "REFUND", q.amount, q.key)} /\ intents' = intents
        /\ Wallet!Goto(c, "done") /\ calls[c].at = "write" /\ q.kind = "REFUND"
    BY <1>2 DEF Wallet!PostRefund, Wallet!Begins, Wallet!Req
  <2> QED BY <2>1, WalletWritingPreserves DEF Wallet!Row
<1>3. CASE Wallet!PostTransfer(c)
  <2>1. /\ ledger' = ledger \cup {Wallet!Row(c, q.user, "DEBIT", q.amount, q.key),
                                  Wallet!Row(c, q.target, "CREDIT", q.amount, Wallet!NoKey)}
        /\ intents' = intents
        /\ Wallet!Goto(c, "done") /\ calls[c].at = "write" /\ q.kind = "TRANSFER"
    BY <1>3 DEF Wallet!PostTransfer, Wallet!Begins, Wallet!Req
  <2> QED BY <2>1, WalletWritingPreserves DEF Wallet!Row
<1> QED BY <1>1, <1>2, <1>3

\* The inductive invariant of the ledger holds in every reachable state.
LEMMA WalletIInvStep == ASSUME WalletIInv, [Wallet!Next]_(Wallet!vars) PROVE WalletIInv'
<1>1. CASE \E u \in Users : Wallet!LockWallet(u) \/ Wallet!UnlockWallet(u)
  BY <1>1 DEF Wallet!LockWallet, Wallet!UnlockWallet, WalletIInv, WalletCallsTyped, WalletAfterIsDone, WalletRowsAreWritten,
              WalletLookedUp, Wallet!ChargedOncePerKey, Wallet!Overlap
<1>2. CASE UNCHANGED Wallet!vars
  BY <1>2 DEF Wallet!vars, WalletIInv, WalletCallsTyped, WalletAfterIsDone, WalletRowsAreWritten, WalletLookedUp,
              Wallet!ChargedOncePerKey, Wallet!Overlap
<1> QED BY <1>1, <1>2, WalletReadWalletPreserves, WalletReadTargetPreserves, WalletFindDuplicatePreserves,
           WalletPostTopUpPreserves, WalletPostChargePreserves DEF Wallet!Next

----------------------------------------------------------------------------
(* Types, and what covers a debit *)

(* A posting adds an amount of the request to a balance, or subtracts it.          *)
LEMMA WalletTypeStep ==
  ASSUME Wallet!WalletAssumption, Wallet!TypeOK, WalletCallsTyped, WalletCallsTyped', [Wallet!Next]_(Wallet!vars)
  PROVE  Wallet!TypeOK'
<1> USE DEF Wallet!TypeOK, WalletCallsTyped
<1>1. \A c \in Calls : calls[c].at = "write" =>
        /\ calls[c].request.user \in Users /\ calls[c].request.target \in Users
        /\ calls[c].request.key \in WalletKeys
        /\ calls[c].request.amount \in Amounts /\ calls[c].request.amount \in Nat
  BY DEF Wallet!Requests, Wallet!WalletAssumption
<1>2. ASSUME NEW c \in Calls,
             \/ \E request \in Wallet!Requests : Wallet!ReadWallet(c, request)
             \/ Wallet!ReadTarget(c) \/ Wallet!FindDuplicate(c)
      PROVE  Wallet!TypeOK'
  BY <1>2 DEF Wallet!ReadWallet, Wallet!ReadTarget, Wallet!FindDuplicate
<1>3. ASSUME NEW c \in Calls, Wallet!PostTopUp(c) \/ Wallet!PostDebit(c) \/ Wallet!PostRefund(c) \/ Wallet!PostTransfer(c)
      PROVE  /\ balance' \in [Users -> Int] /\ locked' = locked /\ intents' \subseteq WalletKeys
             /\ \A row \in ledger' :
                  /\ row.call \in Calls /\ row.wallet \in Users /\ row.key \in WalletKeys \cup {Wallet!NoKey}
                  /\ row.amount \in Amounts /\ row.type \in {"CREDIT", "DEBIT", "REFUND"}
  <2>1. CASE Wallet!PostTopUp(c)
    BY <1>1, <2>1 DEF Wallet!PostTopUp, Wallet!Begins, Wallet!Req, Wallet!Row
  <2>2. CASE Wallet!PostDebit(c)
    BY <1>1, <2>2 DEF Wallet!PostDebit, Wallet!Begins, Wallet!Req, Wallet!Row
  <2>3. CASE Wallet!PostRefund(c)
    BY <1>1, <2>3 DEF Wallet!PostRefund, Wallet!Begins, Wallet!Req, Wallet!Row
  <2>4. CASE Wallet!PostTransfer(c)
    BY <1>1, <2>4 DEF Wallet!PostTransfer, Wallet!Begins, Wallet!Req, Wallet!Row
  <2> QED BY <1>3, <2>1, <2>2, <2>3, <2>4
<1>4. CASE \E u \in Users : Wallet!LockWallet(u) \/ Wallet!UnlockWallet(u)
  BY <1>4 DEF Wallet!LockWallet, Wallet!UnlockWallet
<1>5. CASE UNCHANGED Wallet!vars
  BY <1>5 DEF Wallet!vars
<1> QED BY <1>2, <1>3, <1>4, <1>5 DEF Wallet!Next

\* A debit that was admitted is still covered, or a call that had not ended when it began
\* has debited the wallet.
WalletDebitsAreCovered ==
  \A c \in Calls :
    LET q == calls[c].request
    IN  calls[c].at \in {"target", "lookup", "write"} /\ q.kind \in {"DEBIT", "TRANSFER"} =>
          \/ balance[q.user] >= q.amount
          \/ \E row \in ledger :
               row.wallet = q.user /\ row.type = "DEBIT" /\ row.call \notin calls[c].after

WalletCInv == WalletIInv /\ Wallet!TypeOK /\ WalletDebitsAreCovered /\ Wallet!OverdrawnByOverlapOnly

(* A call that reads changes no balance, and is admitted if it is covered.         *)
LEMMA WalletReadingKeepsCover ==
  ASSUME Wallet!WalletAssumption, WalletCInv, WalletCallsTyped', NEW c \in Calls,
         \/ \E request \in Wallet!Requests : Wallet!ReadWallet(c, request)
         \/ Wallet!ReadTarget(c) \/ Wallet!FindDuplicate(c)
  PROVE  WalletDebitsAreCovered' /\ Wallet!OverdrawnByOverlapOnly'
<1>1. /\ UNCHANGED <<balance, ledger>> /\ calls[c].at # "done"
      /\ \A d \in Calls \ {c} : calls'[d] = calls[d]
  BY DEF Wallet!ReadWallet, Wallet!ReadTarget, Wallet!FindDuplicate, Wallet!Goto, WalletCInv, WalletIInv, WalletCallsTyped
<1>2. ASSUME calls'[c].at \in {"target", "lookup", "write"},
             calls'[c].request.kind \in {"DEBIT", "TRANSFER"}
      PROVE  \/ balance[calls'[c].request.user] >= calls'[c].request.amount
             \/ \E row \in ledger : row.wallet = calls'[c].request.user
                  /\ row.type = "DEBIT" /\ row.call \notin calls'[c].after
  <2>1. CASE \E request \in Wallet!Requests : Wallet!ReadWallet(c, request)
    BY <1>2, <2>1 DEF Wallet!ReadWallet, Wallet!Covers, WalletCInv, WalletIInv, WalletCallsTyped
  <2>2. CASE Wallet!ReadTarget(c) \/ Wallet!FindDuplicate(c)
    <3>1. /\ calls[c].at \in {"target", "lookup", "write"}
          /\ calls'[c].request = calls[c].request /\ calls'[c].after = calls[c].after
      BY <2>2 DEF Wallet!ReadTarget, Wallet!FindDuplicate, Wallet!Goto, WalletCInv, WalletIInv, WalletCallsTyped
    <3> QED BY <1>2, <3>1 DEF WalletCInv, WalletDebitsAreCovered
  <2> QED BY <2>1, <2>2
<1>3. WalletDebitsAreCovered'
  <2> SUFFICES ASSUME NEW d \in Calls, calls'[d].at \in {"target", "lookup", "write"},
                      calls'[d].request.kind \in {"DEBIT", "TRANSFER"}
               PROVE  \/ balance'[calls'[d].request.user] >= calls'[d].request.amount
                      \/ \E row \in ledger' : row.wallet = calls'[d].request.user
                           /\ row.type = "DEBIT" /\ row.call \notin calls'[d].after
    BY DEF WalletDebitsAreCovered
  <2>1. CASE d = c
    BY <1>1, <1>2, <2>1
  <2>2. CASE d # c
    BY <1>1, <2>2 DEF WalletCInv, WalletDebitsAreCovered
  <2> QED BY <2>1, <2>2
<1>4. Wallet!OverdrawnByOverlapOnly'
  BY <1>1 DEF WalletCInv, WalletIInv, Wallet!OverdrawnByOverlapOnly, WalletRowsAreWritten, Wallet!Overlap
<1> QED BY <1>3, <1>4

(* A call that writes lets no balance sink but that of its own debit, of which it    *)
(* leaves a row.                                                                   *)
LEMMA WalletWritingKeepsCover ==
  ASSUME Wallet!WalletAssumption, WalletCInv, Wallet!TypeOK', NEW c \in Calls, calls[c].at = "write", Wallet!Goto(c, "done"),
         ledger \subseteq ledger',
         \A u \in Users :
           \/ balance'[u] >= balance[u]
           \/ /\ u = calls[c].request.user /\ calls[c].request.kind \in {"DEBIT", "TRANSFER"}
              /\ balance'[u] = balance[u] - calls[c].request.amount
              /\ \E row \in ledger' : row.wallet = u /\ row.type = "DEBIT" /\ row.call = c
  PROVE  WalletDebitsAreCovered' /\ Wallet!OverdrawnByOverlapOnly'
<1>1. /\ calls'[c].at = "done" /\ \A d \in Calls \ {c} : calls'[d] = calls[d]
      /\ \A d \in Calls : calls'[d].after = calls[d].after
  BY DEF Wallet!Goto, WalletCInv, WalletIInv, WalletCallsTyped
<1>2. \A d \in Calls : c \notin calls[d].after
  BY DEF WalletCInv, WalletIInv, WalletAfterIsDone
<1>3. balance \in [Users -> Int] /\ balance' \in [Users -> Int]
      /\ \A d \in Calls : calls[d].at # "idle" =>
           calls[d].request.user \in Users /\ calls[d].request.amount \in Nat
  <2>1. balance \in [Users -> Int] /\ balance' \in [Users -> Int]
    BY DEF WalletCInv, Wallet!TypeOK
  <2>2. ASSUME NEW d \in Calls, calls[d].at # "idle"
        PROVE  calls[d].request.user \in Users /\ calls[d].request.amount \in Nat
    <3>1. calls[d].request \in Wallet!Requests
      BY <2>2 DEF WalletCInv, WalletIInv, WalletCallsTyped
    <3> QED BY <3>1 DEF Wallet!Requests, Wallet!WalletAssumption
  <2> QED BY <2>1, <2>2
<1>4. WalletDebitsAreCovered'
  <2> SUFFICES ASSUME NEW d \in Calls, calls'[d].at \in {"target", "lookup", "write"},
                      calls'[d].request.kind \in {"DEBIT", "TRANSFER"}
               PROVE  \/ balance'[calls'[d].request.user] >= calls'[d].request.amount
                      \/ \E row \in ledger' : row.wallet = calls'[d].request.user
                           /\ row.type = "DEBIT" /\ row.call \notin calls'[d].after
    BY DEF WalletDebitsAreCovered
  <2>1. d # c /\ calls'[d] = calls[d]
    BY <1>1
  <2> DEFINE u == calls[d].request.user
  <2>2. u \in Users /\ calls[d].request.amount \in Nat
    BY <1>3, <2>1
  <2>3. CASE balance'[u] >= balance[u]
    <3>1. \/ balance[u] >= calls[d].request.amount
          \/ \E row \in ledger : row.wallet = u /\ row.type = "DEBIT" /\ row.call \notin calls[d].after
      BY <2>1 DEF WalletCInv, WalletDebitsAreCovered
    <3> QED BY <1>3, <2>1, <2>2, <2>3, <3>1
  <2>4. CASE ~ (balance'[u] >= balance[u])
    BY <1>2, <2>1, <2>2, <2>4
  <2> QED BY <2>3, <2>4
<1>5. Wallet!OverdrawnByOverlapOnly'
  <2> SUFFICES ASSUME NEW u \in Users, balance'[u] < 0
               PROVE  \E x, y \in {row \in ledger' : row.wallet = u /\ row.type = "DEBIT"} :
                        x.call # y.call /\ Wallet!Overlap(x.call, y.call)'
    BY DEF Wallet!OverdrawnByOverlapOnly
  <2>1. CASE balance[u] < 0
    BY <1>1, <2>1 DEF WalletCInv, WalletIInv, Wallet!OverdrawnByOverlapOnly, WalletRowsAreWritten, Wallet!Overlap
  <2>2. CASE ~ (balance[u] < 0)
    <3>1. PICK x \in ledger' : x.wallet = u /\ x.type = "DEBIT" /\ x.call = c
      BY <1>3, <2>2
    <3>2. /\ u = calls[c].request.user /\ calls[c].request.kind \in {"DEBIT", "TRANSFER"}
          /\ balance'[u] = balance[u] - calls[c].request.amount
      BY <1>3, <2>2
    <3>3. ~ (balance[u] >= calls[c].request.amount)
      BY <1>3, <3>2
    <3>4. PICK y \in ledger : y.wallet = u /\ y.type = "DEBIT" /\ y.call \notin calls[c].after
      BY <3>2, <3>3 DEF WalletCInv, WalletDebitsAreCovered
    <3>5. y.call \in Calls /\ y.call # c
      BY DEF WalletCInv, WalletIInv, WalletRowsAreWritten
    <3> QED BY <1>1, <1>2, <3>1, <3>4, <3>5 DEF Wallet!Overlap
  <2> QED BY <2>1, <2>2
<1> QED BY <1>4, <1>5

\* A posting lowers one balance at most, by a debit that was admitted.
LEMMA WalletPostingKeepsCover ==
  ASSUME Wallet!WalletAssumption, WalletCInv, Wallet!TypeOK', NEW c \in Calls,
         Wallet!PostTopUp(c) \/ Wallet!PostDebit(c) \/ Wallet!PostRefund(c) \/ Wallet!PostTransfer(c)
  PROVE  WalletDebitsAreCovered' /\ Wallet!OverdrawnByOverlapOnly'
<1> DEFINE q == calls[c].request
<1>1. calls[c].at = "write" /\ Wallet!Goto(c, "done") /\ ledger \subseteq ledger'
  BY DEF Wallet!PostTopUp, Wallet!PostDebit, Wallet!PostRefund, Wallet!PostTransfer, Wallet!Begins
<1>2. /\ q \in Wallet!Requests /\ q.user \in Users /\ q.target \in Users /\ q.amount \in Nat
      /\ balance \in [Users -> Int]
  <2>1. q \in Wallet!Requests
    BY <1>1 DEF WalletCInv, WalletIInv, WalletCallsTyped
  <2> QED BY <2>1 DEF Wallet!Requests, Wallet!WalletAssumption, WalletCInv, Wallet!TypeOK
<1>3. ASSUME NEW u \in Users
      PROVE  \/ balance'[u] >= balance[u]
             \/ /\ u = q.user /\ q.kind \in {"DEBIT", "TRANSFER"}
                /\ balance'[u] = balance[u] - q.amount
                /\ \E row \in ledger' : row.wallet = u /\ row.type = "DEBIT" /\ row.call = c
  <2>1. CASE Wallet!PostTopUp(c)
    BY <1>2, <2>1 DEF Wallet!PostTopUp, Wallet!Begins, Wallet!Req
  <2>2. CASE Wallet!PostRefund(c)
    BY <1>2, <2>2 DEF Wallet!PostRefund, Wallet!Begins, Wallet!Req
  <2>3. CASE Wallet!PostDebit(c)
    <3>1. /\ q.kind = "DEBIT" /\ balance' = [balance EXCEPT ![q.user] = @ - q.amount]
          /\ Wallet!Row(c, q.user, "DEBIT", q.amount, q.key) \in ledger'
      BY <2>3 DEF Wallet!PostDebit, Wallet!Begins, Wallet!Req
    <3>2. CASE u # q.user
      BY <1>2, <3>1, <3>2
    <3>3. CASE u = q.user
      BY <1>2, <3>1, <3>3 DEF Wallet!Row
    <3> QED BY <3>2, <3>3
  \* a transfer to oneself leaves the balance where it was
  <2>4. CASE Wallet!PostTransfer(c)
    <3>1. /\ q.kind = "TRANSFER"
          /\ balance' = [balance EXCEPT ![q.user] = @ - q.amount, ![q.target] = @ + q.amount]
          /\ Wallet!Row(c, q.user, "DEBIT", q.amount, q.key) \in ledger'
      BY <2>4 DEF Wallet!PostTransfer, Wallet!Begins, Wallet!Req
    <3>2. CASE u # q.user \/ q.user = q.target
      BY <1>2, <3>1, <3>2
    <3>3. CASE u = q.user /\ q.user # q.target
      BY <1>2, <3>1, <3>3 DEF Wallet!Row
    <3> QED BY <3>2, <3>3
  <2> QED BY <2>1, <2>2, <2>3, <2>4
<1> HIDE DEF q
<1>4. \A u \in Users :
        \/ balance'[u] >= balance[u]
        \/ /\ u = calls[c].request.user /\ calls[c].request.kind \in {"DEBIT", "TRANSFER"}
           /\ balance'[u] = balance[u] - calls[c].request.amount
           /\ \E row \in ledger' : row.wallet = u /\ row.type = "DEBIT" /\ row.call = c
  BY <1>3 DEF q
<1> QED BY <1>1, <1>4, WalletWritingKeepsCover

\* Money is moved once per key, every variable keeps its type, and debits are covered or
\* overlapped.
LEMMA WalletCInvInit == Wallet!Init => WalletCInv
<1>1. Wallet!WalletAssumption
  BY RecordsAssumption
<1> QED BY <1>1, WalletIInvInit DEF Wallet!Init, Wallet!TypeOK, WalletDebitsAreCovered, Wallet!OverdrawnByOverlapOnly,
                                    Wallet!WalletAssumption, WalletCInv

\* Every step of the wallets keeps types, charges and covers.
LEMMA WalletCInvStep == ASSUME WalletCInv, [Wallet!Next]_(Wallet!vars) PROVE WalletCInv'
<1>1. WalletIInv'
  BY WalletIInvStep DEF WalletCInv
<1>2. Wallet!WalletAssumption
  BY RecordsAssumption
<1>3. Wallet!TypeOK'
  BY <1>1, <1>2, WalletTypeStep DEF WalletCInv, WalletIInv
<1>4. WalletCallsTyped'
  BY <1>1 DEF WalletIInv
<1>5. WalletDebitsAreCovered' /\ Wallet!OverdrawnByOverlapOnly'
  <2>1. CASE \E c \in Calls : \/ \E request \in Wallet!Requests : Wallet!ReadWallet(c, request)
                              \/ Wallet!ReadTarget(c) \/ Wallet!FindDuplicate(c)
    BY <1>2, <1>4, <2>1, WalletReadingKeepsCover
  <2>2. CASE \E c \in Calls : Wallet!PostTopUp(c) \/ Wallet!PostDebit(c) \/ Wallet!PostRefund(c) \/ Wallet!PostTransfer(c)
    BY <1>2, <1>3, <2>2, WalletPostingKeepsCover
  <2>3. CASE \E u \in Users : Wallet!LockWallet(u) \/ Wallet!UnlockWallet(u)
    BY <2>3 DEF Wallet!LockWallet, Wallet!UnlockWallet, WalletCInv, WalletDebitsAreCovered, Wallet!OverdrawnByOverlapOnly,
                Wallet!Overlap
  <2>4. CASE UNCHANGED Wallet!vars
    BY <2>4 DEF Wallet!vars, WalletCInv, WalletDebitsAreCovered, Wallet!OverdrawnByOverlapOnly, Wallet!Overlap
  <2> QED BY <2>1, <2>2, <2>3, <2>4 DEF Wallet!Next
<1> QED BY <1>1, <1>3, <1>5 DEF WalletCInv

----------------------------------------------------------------------------
(* The ledger and the balances *)

WalletBalances == IsFiniteSet(ledger) /\ Wallet!LedgerExplainsBalance

WalletInv == WalletCInv /\ WalletBalances

\* The property in terms of what is posted.
LEMMA WalletBalancesMean ==
  Wallet!LedgerExplainsBalance <=> \A u \in Users : balance[u] = Opening + Posted(u, ledger)
BY DEF Wallet!LedgerExplainsBalance, Posted

\* Amounts can be added and subtracted.
LEMMA AmountsAreNumbers == (\A a \in Amounts : a \in Int /\ - a \in Int) /\ Opening \in Int
<1>1. Amounts \subseteq Nat \ {0} /\ Opening \in Nat
  BY RecordsAssumption DEF Wallet!WalletAssumption
<1>2. \A n \in Nat : n \in Int /\ - n \in Int
  OBVIOUS
<1> QED BY <1>1, <1>2

\* Every row counts for a number.
LEMMA SignedAmounts ==
  ASSUME Wallet!TypeOK
  PROVE  \A row \in ledger : Wallet!Signed(row) \in Int
<1> SUFFICES ASSUME NEW row \in ledger PROVE Wallet!Signed(row) \in Int
  OBVIOUS
<1>1. row.amount \in Amounts
  BY DEF Wallet!TypeOK
<1> QED BY <1>1, AmountsAreNumbers DEF Wallet!Signed

\* Without rows a balance is what the wallet opened with.
LEMMA WalletBalancesInit == Wallet!Init => WalletBalances
<1> SUFFICES ASSUME Wallet!Init PROVE WalletBalances
  OBVIOUS
<1>1. IsFiniteSet(ledger)
  BY FS_EmptySet DEF Wallet!Init
<1>2. \A u \in Users : {row \in ledger : row.wallet = u} = {}
  BY DEF Wallet!Init
<1>3. \A u \in Users : balance[u] = Opening + 0
  BY RecordsAssumption DEF Wallet!Init, Wallet!WalletAssumption
<1> QED BY <1>1, <1>2, <1>3, SumOfNothing DEF WalletBalances, Wallet!LedgerExplainsBalance

\* A step that writes neither rows nor balances explains what was explained.
LEMMA WalletBalancesKept ==
  ASSUME WalletBalances, UNCHANGED <<balance, ledger>>
  PROVE  WalletBalances'
<1>1. \A u \in Users : balance[u] = Opening + Posted(u, ledger)
  BY WalletBalancesMean DEF WalletBalances
<1>2. \A u \in Users : balance'[u] = Opening + Posted(u, ledger')
  BY <1>1
<1>3. Wallet!LedgerExplainsBalance'
  BY <1>2 DEF Wallet!LedgerExplainsBalance, Posted
<1>4. IsFiniteSet(ledger')
  BY DEF WalletBalances
<1> QED BY <1>3, <1>4 DEF WalletBalances

\* A posting writes its rows, which are new, with the balances.
LEMMA WalletPostingExplains ==
  ASSUME WalletInv, WalletCInv', NEW c \in Calls,
         Wallet!PostTopUp(c) \/ Wallet!PostDebit(c) \/ Wallet!PostRefund(c) \/ Wallet!PostTransfer(c)
  PROVE  WalletBalances'
<1>1. PICK q : q = calls[c].request
  OBVIOUS
<1>2. /\ q.user \in Users /\ q.target \in Users /\ q.amount \in Int /\ calls[c].at = "write"
      /\ balance \in [Users -> Int] /\ Opening \in Int
  <2>1. calls[c].at = "write"
    BY DEF Wallet!PostTopUp, Wallet!PostDebit, Wallet!PostRefund, Wallet!PostTransfer, Wallet!Begins
  <2>2. q \in Wallet!Requests
    BY <1>1, <2>1 DEF WalletInv, WalletCInv, WalletIInv, WalletCallsTyped
  <2>3. q.user \in Users /\ q.target \in Users /\ q.amount \in Amounts
    BY <2>2 DEF Wallet!Requests
  <2>4. balance \in [Users -> Int]
    BY DEF WalletInv, WalletCInv, Wallet!TypeOK
  <2> QED BY <2>1, <2>3, <2>4, AmountsAreNumbers
<1>3. \A type, u, amount, key : Wallet!Row(c, u, type, amount, key) \notin ledger
  BY <1>2 DEF Wallet!Row, WalletInv, WalletCInv, WalletIInv, WalletRowsAreWritten
<1>4. /\ \A row \in ledger : Wallet!Signed(row) \in Int
      /\ \A row \in ledger' : Wallet!Signed(row) \in Int
  <2>1. Wallet!TypeOK /\ Wallet!TypeOK'
    BY DEF WalletInv, WalletCInv
  <2>2. \A row \in ledger : Wallet!Signed(row) \in Int
    BY <2>1, SignedAmounts
  <2>3. \A row \in ledger' : row.amount \in Int /\ - row.amount \in Int
    <3>1. \A row \in ledger' : row.amount \in Amounts
      BY <2>1 DEF Wallet!TypeOK
    <3> QED BY <3>1, AmountsAreNumbers
  <2>4. \A row \in ledger' : Wallet!Signed(row) \in Int
    BY <2>3 DEF Wallet!Signed
  <2> QED BY <2>2, <2>4
<1>5. IsFiniteSet(ledger) /\ \A u \in Users : balance[u] = Opening + Posted(u, ledger)
  BY WalletBalancesMean DEF WalletInv, WalletBalances
<1>6. SUFFICES IsFiniteSet(ledger') /\ \A u \in Users : balance'[u] = Opening + Posted(u, ledger')
  BY DEF WalletBalances, Wallet!LedgerExplainsBalance, Posted
<1>7. ASSUME NEW type \in {"CREDIT", "DEBIT", "REFUND"}, NEW key,
             ledger' = ledger \cup {Wallet!Row(c, q.user, type, q.amount, key)},
             balance' = [balance EXCEPT ![q.user] = IF type = "DEBIT" THEN @ - q.amount ELSE @ + q.amount]
      PROVE  IsFiniteSet(ledger') /\ \A u \in Users : balance'[u] = Opening + Posted(u, ledger')
  <2>1. PICK x : x = Wallet!Row(c, q.user, type, q.amount, key)
    OBVIOUS
  <2>2. /\ x \notin ledger /\ x.wallet = q.user /\ ledger' = ledger \cup {x}
        /\ Wallet!Signed(x) = IF type = "DEBIT" THEN - q.amount ELSE q.amount
    BY <1>3, <1>7, <2>1 DEF Wallet!Row, Wallet!Signed
  <2>3. /\ IsFiniteSet(ledger \cup {x})
        /\ \A u : /\ Posted(u, ledger) \in Int
                  /\ Posted(u, ledger \cup {x}) =
                       IF x.wallet = u THEN Wallet!Signed(x) + Posted(u, ledger) ELSE Posted(u, ledger)
    BY <1>4, <1>5, <2>2, PostedGrows
  <2>4. \A u \in Users : balance'[u] = IF q.user = u THEN balance[u] + Wallet!Signed(x) ELSE balance[u]
    BY <1>2, <1>7, <2>2
  <2>5. Wallet!Signed(x) \in Int
    BY <1>2, <2>2
  <2>6. ASSUME NEW u \in Users PROVE balance'[u] = Opening + Posted(u, ledger')
    <3>1. /\ Opening \in Int /\ Posted(u, ledger) \in Int /\ Wallet!Signed(x) \in Int
          /\ balance[u] = Opening + Posted(u, ledger)
      BY <1>2, <1>5, <2>3, <2>5
    <3>2. CASE q.user = u
      <4>1. balance'[u] = balance[u] + Wallet!Signed(x)
        BY <2>4, <3>2
      <4>2. Posted(u, ledger') = Wallet!Signed(x) + Posted(u, ledger)
        BY <2>2, <2>3, <3>2
      <4> QED BY <3>1, <4>1, <4>2
    <3>3. CASE q.user # u
      <4>1. balance'[u] = balance[u]
        BY <2>4, <3>3
      <4>2. Posted(u, ledger') = Posted(u, ledger)
        BY <2>2, <2>3, <3>3
      <4> QED BY <3>1, <4>1, <4>2
    <3> QED BY <3>2, <3>3
  <2> QED BY <2>2, <2>3, <2>6
<1>8. CASE Wallet!PostTopUp(c)
  <2>1. CASE q.key \in intents
    BY <1>1, <1>5, <1>8, <2>1 DEF Wallet!PostTopUp, Wallet!Req
  <2>2. CASE q.key \notin intents
    <3>1. /\ ledger' = ledger \cup {Wallet!Row(c, q.user, "CREDIT", q.amount, q.key)}
          /\ balance' = [balance EXCEPT ![q.user] = @ + q.amount]
      BY <1>1, <1>8, <2>2 DEF Wallet!PostTopUp, Wallet!Req
    <3> QED BY <1>7, <3>1
  <2> QED BY <2>1, <2>2
<1>9. CASE Wallet!PostDebit(c)
  <2>1. /\ ledger' = ledger \cup {Wallet!Row(c, q.user, "DEBIT", q.amount, q.key)}
        /\ balance' = [balance EXCEPT ![q.user] = @ - q.amount]
    BY <1>1, <1>9 DEF Wallet!PostDebit, Wallet!Req
  <2> QED BY <1>7, <2>1
<1>10. CASE Wallet!PostRefund(c)
  <2>1. /\ ledger' = ledger \cup {Wallet!Row(c, q.user, "REFUND", q.amount, q.key)}
        /\ balance' = [balance EXCEPT ![q.user] = @ + q.amount]
    BY <1>1, <1>10 DEF Wallet!PostRefund, Wallet!Req
  <2> QED BY <1>7, <2>1
\* source and target may be one wallet, which then gains and loses the amount
<1>11. CASE Wallet!PostTransfer(c)
  <2>1. PICK x : x = Wallet!Row(c, q.user, "DEBIT", q.amount, q.key)
    OBVIOUS
  <2>2. PICK y : y = Wallet!Row(c, q.target, "CREDIT", q.amount, Wallet!NoKey)
    OBVIOUS
  <2>3. PICK L : L = ledger \cup {x}
    OBVIOUS
  <2>4. /\ ledger' = L \cup {y}
        /\ balance' = [balance EXCEPT ![q.user] = @ - q.amount, ![q.target] = @ + q.amount]
    BY <1>1, <1>11, <2>1, <2>2, <2>3 DEF Wallet!PostTransfer, Wallet!Req
  <2>5. /\ x \notin ledger /\ x.wallet = q.user /\ Wallet!Signed(x) = - q.amount
        /\ y \notin L /\ y.wallet = q.target /\ Wallet!Signed(y) = q.amount
    BY <1>3, <2>1, <2>2, <2>3 DEF Wallet!Row, Wallet!Signed
  <2>6. /\ IsFiniteSet(L)
        /\ \A u : /\ Posted(u, ledger) \in Int
                  /\ Posted(u, L) = IF x.wallet = u THEN Wallet!Signed(x) + Posted(u, ledger) ELSE Posted(u, ledger)
    <3>1. \A z \in ledger \cup {x} : Wallet!Signed(z) \in Int
      BY <1>2, <1>4, <2>3, <2>4
    <3> QED BY <1>5, <2>3, <2>5, <3>1, PostedGrows
  <2>7. \A z \in L \cup {y} : Wallet!Signed(z) \in Int
    BY <1>4, <2>4
  <2>8. /\ IsFiniteSet(L \cup {y})
        /\ \A u : /\ Posted(u, L) \in Int
                  /\ Posted(u, L \cup {y}) = IF y.wallet = u THEN Wallet!Signed(y) + Posted(u, L) ELSE Posted(u, L)
    BY <2>5, <2>6, <2>7, PostedGrows
  <2>9. ASSUME NEW u \in Users PROVE balance'[u] = Opening + Posted(u, L \cup {y})
    <3>1. balance[u] \in Int /\ balance[u] = Opening + Posted(u, ledger) /\ Posted(u, ledger) \in Int
      BY <1>2, <1>5, <2>6
    <3>2. Posted(u, L) = IF q.user = u THEN Posted(u, ledger) - q.amount ELSE Posted(u, ledger)
      BY <1>2, <2>5, <2>6, <3>1
    <3>3. Posted(u, L \cup {y}) = IF q.target = u THEN Posted(u, L) + q.amount ELSE Posted(u, L)
      BY SMTT(30), <1>2, <2>5, <2>8
    <3>4. CASE q.user # u /\ q.target # u
      BY <1>2, <2>4, <3>1, <3>2, <3>3, <3>4
    <3>5. CASE q.user = u /\ q.target # u
      BY <1>2, <2>4, <3>1, <3>2, <3>3, <3>5
    <3>6. CASE q.user # u /\ q.target = u
      BY <1>2, <2>4, <3>1, <3>2, <3>3, <3>6
    <3>7. CASE q.user = u /\ q.target = u
      <4>1. balance'[u] = (balance[u] - q.amount) + q.amount
        BY <1>2, <2>4, <3>7
      <4>2. Posted(u, L \cup {y}) = (Posted(u, ledger) - q.amount) + q.amount
        BY <3>2, <3>3, <3>7
      <4> QED BY <1>2, <3>1, <4>1, <4>2
    <3> QED BY <3>4, <3>5, <3>6, <3>7
  <2> QED BY <2>4, <2>8, <2>9
<1> QED BY <1>8, <1>9, <1>10, <1>11

\* The invariant of the wallets holds at first ...
LEMMA WalletInit == Wallet!Init => WalletInv
  BY WalletCInvInit, WalletBalancesInit DEF WalletInv

\* ... and every step of the wallets preserves it.
LEMMA WalletStep == ASSUME WalletInv, [Wallet!Next]_(Wallet!vars) PROVE WalletInv'
<1>1. WalletCInv'
  BY WalletCInvStep DEF WalletInv
<1>3. CASE \E c \in Calls : Wallet!PostTopUp(c) \/ Wallet!PostDebit(c) \/ Wallet!PostRefund(c) \/ Wallet!PostTransfer(c)
  BY <1>1, <1>3, WalletPostingExplains DEF WalletInv
<1>4. CASE \E c \in Calls : \/ \E request \in Wallet!Requests : Wallet!ReadWallet(c, request)
                            \/ Wallet!ReadTarget(c) \/ Wallet!FindDuplicate(c)
  <2>1. UNCHANGED <<balance, ledger>>
    BY <1>4 DEF Wallet!ReadWallet, Wallet!ReadTarget, Wallet!FindDuplicate
  <2> QED BY <1>1, <2>1, WalletBalancesKept DEF WalletInv
<1>5. CASE \E u \in Users : Wallet!LockWallet(u) \/ Wallet!UnlockWallet(u)
  <2>1. UNCHANGED <<balance, ledger>>
    BY <1>5 DEF Wallet!LockWallet, Wallet!UnlockWallet
  <2> QED BY <1>1, <2>1, WalletBalancesKept DEF WalletInv
<1>6. CASE UNCHANGED Wallet!vars
  <2>1. UNCHANGED <<balance, ledger>>
    BY <1>6 DEF Wallet!vars
  <2> QED BY <1>1, <2>1, WalletBalancesKept DEF WalletInv
<1> QED BY <1>3, <1>4, <1>5, <1>6 DEF Wallet!Next

\* What the invariant of the wallets says of them.
LEMMA WalletProperties ==
  WalletInv => /\ Wallet!TypeOK /\ Wallet!LedgerExplainsBalance
               /\ Wallet!ChargedOncePerKey /\ Wallet!OverdrawnByOverlapOnly
  BY DEF WalletInv, WalletBalances, WalletCInv, WalletIInv

----------------------------------------------------------------------------
(* The price versions of a tier                                            *)

PriceVersion == [status : {"DRAFT", "ACTIVE", "ARCHIVED"}, publisher : Editors \cup {Pricing!NoOne}]
PriceCall == [at : {"idle", "draft", "see", "commit", "done"}, version : Nat, seen : SUBSET Nat,
              after : SUBSET Editors]

\* version numbers have no gaps
Gapless == \E n \in Nat : DOMAIN versions = 1..n

PricingTyped ==
  /\ Gapless
  /\ versions \in [DOMAIN versions -> PriceVersion]
  /\ \A v \in DOMAIN versions :
       (versions[v].publisher = Pricing!NoOne) = (versions[v].status = "DRAFT")
  /\ pricing \in [Editors -> PriceCall]
  /\ \A c \in Editors :
       /\ pricing[c].at \in {"see", "commit"} => pricing[c].version \in DOMAIN versions
       \* versions are not deleted: those before the one that was read as the next are there
       /\ pricing[c].at = "draft" =>
            pricing[c].version # 0 /\ \A v \in Nat \ {0} : v < pricing[c].version => v \in DOMAIN versions

PricingOrder == \A c \in Editors : \A d \in pricing[c].after : pricing[d].at = "done"

PublishersAreDone ==
  \A v \in DOMAIN versions : versions[v].status # "DRAFT" => pricing[versions[v].publisher].at = "done"

\* A version that is active and was not seen was published by a call that was not done when
\* the one about to publish began.
UnseenVersions ==
  \A c \in Editors, v \in DOMAIN versions :
    /\ pricing[c].at = "commit" /\ versions[v].status = "ACTIVE"
    /\ v \notin pricing[c].seen /\ v # pricing[c].version
    => versions[v].publisher \notin pricing[c].after

\* What was seen are other versions that had been published, and are not drafts again.
SeenWerePublished ==
  \A c \in Editors : \A v \in pricing[c].seen :
    v \in DOMAIN versions /\ versions[v].status # "DRAFT" /\ v # pricing[c].version

PricingInv ==
  /\ SeenWerePublished
  /\ PricingTyped /\ PricingOrder /\ PublishersAreDone /\ UnseenVersions
  /\ Pricing!OneActiveVersion

\* There are no versions and nobody has begun.
LEMMA PricingInit == Pricing!Init => PricingInv
<1> SUFFICES ASSUME Pricing!Init PROVE PricingInv
  OBVIOUS
<1>1. DOMAIN versions = {}
  BY DEF Pricing!Init
<1>2. DOMAIN versions = 1..0
  BY <1>1
<1>3. PricingTyped
  <2>1. versions \in [DOMAIN versions -> PriceVersion]
    BY <1>1 DEF Pricing!Init
  <2>2. Pricing!NoPricing \in PriceCall
    BY DEF Pricing!NoPricing, PriceCall
  <2>3. pricing \in [Editors -> PriceCall] /\ \A c \in Editors : pricing[c].at = "idle"
    BY <2>2 DEF Pricing!Init, Pricing!NoPricing
  <2> QED BY <1>1, <1>2, <2>1, <2>3 DEF Gapless, PricingTyped
<1>4. /\ PricingOrder /\ PublishersAreDone /\ UnseenVersions /\ SeenWerePublished
      /\ Pricing!OneActiveVersion
  BY <1>1 DEF SeenWerePublished, Pricing!Init, Pricing!NoPricing, PricingOrder, PublishersAreDone, UnseenVersions,
              Pricing!OneActiveVersion
<1> QED BY <1>3, <1>4 DEF PricingInv

(* The latest version is the last of those without gaps.                   *)
LEMMA LatestOfInterval ==
  ASSUME NEW n \in Nat
  PROVE  Pricing!Max({0} \cup 1..n) = n
<1> DEFINE S == {0} \cup 1..n
<1>1. n \in S /\ \A y \in S : n >= y
  OBVIOUS
<1>2. \A x \in S : (\A y \in S : x >= y) => x = n
  OBVIOUS
<1> QED BY <1>1, <1>2 DEF Pricing!Max

\* A clerk who begins changes no version.
LEMMA PricingBeginning ==
  ASSUME PricingInv, NEW c \in Editors, NEW at \in {"draft", "see"}, NEW version \in Nat,
         Pricing!Begin(c, at, version),
         at = "see" => version \in DOMAIN versions,
         at = "draft" => version # 0 /\ \A v \in Nat \ {0} : v < version => v \in DOMAIN versions
  PROVE  PricingInv'
<1> DEFINE call == [Pricing!NoPricing EXCEPT !.at = at, !.version = version,
                                             !.after = {d \in Editors : pricing[d].at = "done"}]
<1>1. /\ pricing[c].at = "idle" /\ versions' = versions
      /\ pricing' = [pricing EXCEPT ![c] = call]
  BY DEF Pricing!Begin
<1>2. /\ call \in PriceCall /\ call.at = at /\ call.version = version /\ call.seen = {}
      /\ call.after = {d \in Editors : pricing[d].at = "done"}
  BY DEF PriceCall, Pricing!NoPricing
<1> HIDE DEF call
<1>3. /\ pricing' \in [Editors -> PriceCall] /\ pricing'[c] = call
      /\ \A d \in Editors \ {c} : pricing'[d] = pricing[d]
  BY <1>1, <1>2 DEF PricingInv, PricingTyped
<1>4. PricingTyped'
  BY <1>1, <1>2, <1>3 DEF PricingInv, PricingTyped, Gapless
<1>5. PricingOrder'
  BY <1>1, <1>2, <1>3 DEF PricingInv, PricingTyped, PricingOrder, PriceCall
<1>6. \A v \in DOMAIN versions : versions[v].status # "DRAFT" =>
        versions[v].publisher \in Editors \ {c}
  BY <1>1 DEF PricingInv, PricingTyped, PriceVersion, PublishersAreDone
<1>7. PublishersAreDone' /\ UnseenVersions' /\ SeenWerePublished' /\ Pricing!OneActiveVersion'
  BY <1>1, <1>2, <1>3, <1>6 DEF PricingInv, SeenWerePublished, PublishersAreDone, UnseenVersions,
                                Pricing!OneActiveVersion, Pricing!Overlap
<1> QED BY <1>4, <1>5, <1>7 DEF PricingInv

\* The next free number goes to a draft, which is not in force.
LEMMA CreateDraftPreserves ==
  ASSUME PricingInv, NEW c \in Editors, Pricing!CreateDraft(c)
  PROVE  PricingInv'
<1> DEFINE v == pricing[c].version
           row == [status |-> "DRAFT", publisher |-> Pricing!NoOne]
<1>1. /\ pricing[c].at = "draft" /\ pricing[c] \in PriceCall
      /\ v \in Nat \ {0} /\ \A w \in Nat \ {0} : w < v => w \in DOMAIN versions
  BY DEF Pricing!CreateDraft, PricingInv, PricingTyped, PriceCall
<1>2. /\ pricing' = [pricing EXCEPT ![c] = [pricing[c] EXCEPT !.at = "done"]]
      /\ versions' = [w \in DOMAIN versions \cup {v} |-> IF w \in DOMAIN versions THEN versions[w] ELSE row]
  BY DEF Pricing!CreateDraft, Pricing!Goto
<1>3. /\ row \in PriceVersion /\ row.status = "DRAFT" /\ row.publisher = Pricing!NoOne
  BY DEF PriceVersion
<1>4. /\ [pricing[c] EXCEPT !.at = "done"] \in PriceCall /\ [pricing[c] EXCEPT !.at = "done"].at = "done"
      /\ [pricing[c] EXCEPT !.at = "done"].after = pricing[c].after
      /\ [pricing[c] EXCEPT !.at = "done"].seen = pricing[c].seen
      /\ [pricing[c] EXCEPT !.at = "done"].version = pricing[c].version
  BY <1>1 DEF PriceCall
<1> HIDE DEF v, row
<1>5. /\ pricing' \in [Editors -> PriceCall] /\ pricing'[c].at = "done"
      /\ \A d \in Editors : /\ pricing'[d].after = pricing[d].after
                            /\ pricing'[d].seen = pricing[d].seen
                            /\ pricing'[d].version = pricing[d].version
      /\ \A d \in Editors \ {c} : pricing'[d] = pricing[d]
  BY <1>2, <1>4 DEF PricingInv, PricingTyped
<1>6. /\ versions' \in [DOMAIN versions' -> PriceVersion] /\ DOMAIN versions' = DOMAIN versions \cup {v}
      /\ \A w \in DOMAIN versions' : (w \in DOMAIN versions /\ versions'[w] = versions[w]) \/ versions'[w] = row
  BY <1>2, <1>3 DEF PricingInv, PricingTyped
<1>7. Gapless'
  <2>1. PICK n \in Nat : DOMAIN versions = 1..n
    BY DEF PricingInv, PricingTyped, Gapless
  <2>2. v <= n + 1
    <3>1. CASE n + 1 < v
      BY <1>1, <2>1, <3>1
    <3> QED BY <1>1, <3>1
  <2>3. DOMAIN versions' = 1..n \/ DOMAIN versions' = 1..(n + 1)
    BY <1>1, <1>6, <2>1, <2>2
  <2> QED BY <2>1, <2>3 DEF Gapless
<1>8. PricingTyped'
  BY <1>3, <1>5, <1>6, <1>7 DEF PricingInv, PricingTyped
<1>9. PricingOrder'
  BY <1>5 DEF PricingInv, PricingOrder, PricingTyped, PriceCall
<1>10. \A w \in DOMAIN versions' : versions'[w].status # "DRAFT" =>
          w \in DOMAIN versions /\ versions'[w] = versions[w] /\ versions[w].publisher \in Editors
  BY <1>3, <1>6 DEF PricingInv, PricingTyped, PriceVersion
<1>11. PublishersAreDone'
  BY <1>5, <1>6, <1>10 DEF PricingInv, PublishersAreDone
<1>12. UnseenVersions'
  BY <1>5, <1>6, <1>10 DEF PricingInv, UnseenVersions
<1>13. SeenWerePublished'
  <2>1. \A w \in DOMAIN versions : w \in DOMAIN versions' /\ versions'[w] = versions[w]
    BY <1>2
  <2> QED BY <1>5, <2>1 DEF PricingInv, SeenWerePublished
<1>14. Pricing!OneActiveVersion'
  <2> SUFFICES ASSUME NEW w \in DOMAIN versions', NEW x \in DOMAIN versions', w # x,
                      versions'[w].status = "ACTIVE", versions'[x].status = "ACTIVE"
               PROVE  Pricing!Overlap(versions[w].publisher, versions[x].publisher)'
    BY <1>10 DEF Pricing!OneActiveVersion, Pricing!Overlap
  <2>1. /\ w \in DOMAIN versions /\ versions'[w] = versions[w] /\ versions[w].publisher \in Editors
        /\ x \in DOMAIN versions /\ versions'[x] = versions[x] /\ versions[x].publisher \in Editors
    BY <1>10
  <2>2. Pricing!Overlap(versions[w].publisher, versions[x].publisher)
    BY <2>1 DEF PricingInv, Pricing!OneActiveVersion
  <2> QED BY <1>5, <2>1, <2>2 DEF Pricing!Overlap
<1> QED BY <1>8, <1>9, <1>11, <1>12, <1>13, <1>14 DEF PricingInv

\* What is seen is what is active now.
LEMMA SeeActiveVersionsPreserves ==
  ASSUME PricingInv, NEW c \in Editors, Pricing!SeeActiveVersions(c)
  PROVE  PricingInv'
<1> DEFINE seen == {v \in DOMAIN versions : versions[v].status = "ACTIVE"} \ {pricing[c].version}
           call == [pricing[c] EXCEPT !.at = "commit", !.seen = seen]
<1>1. /\ pricing[c].at = "see" /\ versions' = versions /\ pricing[c] \in PriceCall
      /\ pricing' = [pricing EXCEPT ![c] = call]
  BY DEF Pricing!SeeActiveVersions, PricingInv, PricingTyped
<1>2. seen \in SUBSET Nat
  BY DEF PricingInv, PricingTyped, Gapless
<1> HIDE DEF seen
<1>3. /\ call \in PriceCall /\ call.at = "commit" /\ call.seen = seen
      /\ call.version = pricing[c].version /\ call.after = pricing[c].after
  BY <1>1, <1>2 DEF PriceCall
<1> HIDE DEF call
<1>4. /\ pricing' \in [Editors -> PriceCall] /\ pricing'[c] = call
      /\ \A d \in Editors \ {c} : pricing'[d] = pricing[d]
  BY <1>1, <1>3 DEF PricingInv, PricingTyped
<1>5. PricingTyped'
  BY <1>1, <1>3, <1>4 DEF PricingInv, PricingTyped, Gapless
<1>6. PricingOrder'
  BY <1>1, <1>3, <1>4 DEF PricingInv, PricingOrder, PricingTyped, PriceCall
<1>7. PublishersAreDone'
  BY <1>1, <1>3, <1>4 DEF PricingInv, PublishersAreDone, PricingTyped, PriceVersion
<1>8. UnseenVersions' /\ SeenWerePublished'
  BY <1>1, <1>3, <1>4 DEF PricingInv, UnseenVersions, SeenWerePublished, seen
<1>9. Pricing!OneActiveVersion'
  <2>1. \A d \in Editors : pricing'[d].after = pricing[d].after
    BY <1>3, <1>4
  <2>2. \A v \in DOMAIN versions : versions[v].status = "ACTIVE" => versions[v].publisher \in Editors
    BY DEF PricingInv, PricingTyped, PriceVersion
  <2> QED BY <1>1, <2>1, <2>2 DEF PricingInv, Pricing!OneActiveVersion, Pricing!Overlap
<1> QED BY <1>5, <1>6, <1>7, <1>8, <1>9 DEF PricingInv

Archived(row) == [row EXCEPT !.status = "ARCHIVED"]

\* Who publishes archives what was seen: another active version was published since.
LEMMA PublishVersionPreserves ==
  ASSUME PricingInv, NEW c \in Editors, Pricing!PublishVersion(c)
  PROVE  PricingInv'
<1> DEFINE v == pricing[c].version
           seen == pricing[c].seen
           call == [pricing[c] EXCEPT !.at = "done"]
           row == [status |-> "ACTIVE", publisher |-> c]
<1>1. /\ pricing[c].at = "commit" /\ v \in DOMAIN versions /\ pricing[c] \in PriceCall
      /\ v \notin seen
  BY DEF Pricing!PublishVersion, PricingInv, PricingTyped, SeenWerePublished
<1>2. /\ pricing' = [pricing EXCEPT ![c] = call]
      /\ versions' = [w \in DOMAIN versions |->
           CASE w = v -> row
             [] w \in seen -> Archived(versions[w])
             [] OTHER -> versions[w]]
  BY DEF Pricing!PublishVersion, Pricing!Goto, Archived
<1>3. /\ call \in PriceCall /\ call.at = "done" /\ call.after = pricing[c].after
      /\ call.seen = pricing[c].seen /\ call.version = pricing[c].version
  BY <1>1 DEF PriceCall
<1> HIDE DEF call
<1>4. /\ pricing' \in [Editors -> PriceCall] /\ pricing'[c].at = "done"
      /\ \A d \in Editors : /\ pricing'[d].after = pricing[d].after
                            /\ pricing'[d].seen = pricing[d].seen
                            /\ pricing'[d].version = pricing[d].version
      /\ \A d \in Editors \ {c} : pricing'[d] = pricing[d]
  BY <1>2, <1>3 DEF PricingInv, PricingTyped
<1>5. row \in PriceVersion /\ row.status = "ACTIVE" /\ row.publisher = c
  BY DEF PriceVersion
<1>6. \A w \in DOMAIN versions :
        /\ versions[w] \in PriceVersion
        /\ Archived(versions[w]) \in PriceVersion /\ Archived(versions[w]).status = "ARCHIVED"
        /\ Archived(versions[w]).publisher = versions[w].publisher
  BY DEF PricingInv, PricingTyped, PriceVersion, Archived
\* a draft that is not published is none of those seen, which are active or archived by now
<1>7. \A w \in DOMAIN versions :
        \/ w = v /\ versions'[w] = row
        \/ /\ w # v /\ w \in seen /\ versions'[w].status = "ARCHIVED"
           /\ versions'[w].publisher = versions[w].publisher
        \/ w # v /\ w \notin seen /\ versions'[w] = versions[w]
  <2> HIDE DEF v, seen, row
  <2> QED BY <1>1, <1>2, <1>6
<1>8. DOMAIN versions' = DOMAIN versions /\ versions' \in [DOMAIN versions' -> PriceVersion]
  <2> HIDE DEF v, seen, row
  <2>1. \A w \in DOMAIN versions : versions'[w] \in PriceVersion
    BY <1>2, <1>5, <1>6
  <2> QED BY <1>2, <2>1
<1> HIDE DEF v, seen, row
\* who is not done is not among those that another began after
<1>9. \A d \in Editors : c \notin pricing[d].after
  BY <1>1 DEF PricingInv, PricingOrder
<1>10. PricingTyped'
  <2>1. \A w \in DOMAIN versions' : (versions'[w].publisher = Pricing!NoOne) = (versions'[w].status = "DRAFT")
    <3>1. c # Pricing!NoOne
      BY RecordsAssumption DEF Pricing!PricingAssumption
    <3>2. \A w \in seen : w \in DOMAIN versions /\ versions[w].publisher # Pricing!NoOne
      BY DEF PricingInv, PricingTyped, SeenWerePublished, seen
    <3> QED BY <1>5, <1>7, <1>8, <3>1, <3>2 DEF PricingInv, PricingTyped
  <2> QED BY <1>1, <1>4, <1>8, <2>1 DEF PricingInv, PricingTyped, Gapless
<1>11. PricingOrder'
  BY <1>1, <1>4 DEF PricingInv, PricingOrder, PricingTyped, PriceCall
<1>12. PublishersAreDone'
  <2>1. \A w \in seen : w \in DOMAIN versions /\ versions[w].status # "DRAFT"
    BY DEF PricingInv, SeenWerePublished, seen
  <2>2. \A d \in Editors : pricing[d].at = "done" => pricing'[d].at = "done"
    BY <1>4
  <2>3. \A w \in DOMAIN versions : versions[w].status # "DRAFT" =>
          versions[w].publisher \in Editors /\ pricing[versions[w].publisher].at = "done"
    BY DEF PricingInv, PricingTyped, PublishersAreDone, PriceVersion
  <2> QED BY <1>4, <1>5, <1>7, <1>8, <2>1, <2>2, <2>3 DEF PublishersAreDone
<1>13. UnseenVersions'
  BY <1>1, <1>4, <1>5, <1>7, <1>8, <1>9 DEF PricingInv, UnseenVersions
<1>14. Pricing!OneActiveVersion'
  BY <1>1, <1>4, <1>5, <1>7, <1>8, <1>9 DEF PricingInv, Pricing!OneActiveVersion, Pricing!Overlap,
                                            UnseenVersions, PricingTyped, PriceVersion, v, seen
<1>15. SeenWerePublished'
  BY <1>4, <1>5, <1>7, <1>8 DEF PricingInv, SeenWerePublished
<1> QED BY <1>10, <1>11, <1>12, <1>13, <1>14, <1>15 DEF PricingInv

\* Every step of the prices preserves their invariant.
LEMMA PricingStep == ASSUME PricingInv, [Pricing!Next]_(Pricing!vars) PROVE PricingInv'
<1>1. ASSUME NEW c \in Editors, Pricing!ReadLatestVersion(c)
      PROVE  PricingInv'
  <2>1. PICK n \in Nat : DOMAIN versions = 1..n
    BY DEF PricingInv, PricingTyped, Gapless
  <2>2. Pricing!Begin(c, "draft", n + 1)
    BY <1>1, <2>1, LatestOfInterval DEF Pricing!ReadLatestVersion
  <2>3. n + 1 \in Nat /\ n + 1 # 0 /\ \A v \in Nat \ {0} : v < n + 1 => v \in DOMAIN versions
    BY <2>1
  <2> QED BY <2>2, <2>3, PricingBeginning
<1>2. ASSUME NEW c \in Editors, Pricing!FindTarget(c)
      PROVE  PricingInv'
  <2>1. PICK v \in DOMAIN versions : Pricing!Begin(c, "see", v)
    BY <1>2 DEF Pricing!FindTarget
  <2>2. v \in Nat
    BY DEF PricingInv, PricingTyped, Gapless
  <2> QED BY <2>1, <2>2, PricingBeginning
<1>3. CASE UNCHANGED Pricing!vars
  BY <1>3 DEF Pricing!vars, PricingInv, PricingTyped, Gapless, PricingOrder, PublishersAreDone,
              UnseenVersions, SeenWerePublished, Pricing!OneActiveVersion, Pricing!Overlap
<1> QED BY <1>1, <1>2, <1>3, CreateDraftPreserves, SeeActiveVersionsPreserves,
           PublishVersionPreserves DEF Pricing!Next

\* What the invariant of the prices says of them.
LEMMA PricingProperties == PricingInv => Pricing!TypeOK /\ Pricing!OneActiveVersion
<1> SUFFICES ASSUME PricingInv PROVE Pricing!TypeOK
  BY DEF PricingInv
<1>1. PICK n \in Nat : DOMAIN versions = 1..n
  BY DEF PricingInv, PricingTyped, Gapless
<1>2. versions \in [1..n -> PriceVersion]
  BY <1>1 DEF PricingInv, PricingTyped
<1>3. versions \in Seq(PriceVersion)
  BY <1>2
<1> QED BY <1>3 DEF PricingInv, PricingTyped, PriceVersion, PriceCall, Pricing!TypeOK

----------------------------------------------------------------------------
(* The payment methods of a user                                           *)

MethodRow == [status : Methods!Statuses, isDefault : BOOLEAN, by : Calls \cup {Methods!NoOne}]
MethodCall == [at : {"idle", "see", "commit", "done"}, method : StoredRows \cup Calls \cup {Methods!NoOne},
               status : Methods!Statuses \cup {Methods!NoOne}, edits : BOOLEAN,
               seen : SUBSET (StoredRows \cup Calls), after : SUBSET Calls]

MethodsTyped ==
  /\ DOMAIN methods \subseteq StoredRows \cup Calls
  /\ methods \in [DOMAIN methods -> MethodRow]
  /\ changes \in [Calls -> MethodCall]
  /\ \A c \in Calls :
       /\ changes[c].seen \subseteq DOMAIN methods
       /\ changes[c].at \in {"see", "commit"} =>
            /\ \/ changes[c].method \in DOMAIN methods
               \/ changes[c].method = c /\ changes[c].status = "ACTIVE"
            /\ changes[c].status = "REVOKED" => changes[c].edits

MethodsAfterDone == \A c \in Calls : \A d \in changes[c].after : changes[d].at = "done"

MethodsWriterDone ==
  \A m \in DOMAIN methods : methods[m].by \in Calls => changes[methods[m].by].at = "done"

\* A method that is the default and was not seen was made so by a call that was not done
\* when the one about to take the default from others began.
MethodsUnseen ==
  \A c \in Calls, m \in DOMAIN methods :
    /\ changes[c].at = "commit" /\ methods[m].isDefault
    /\ m \notin changes[c].seen /\ m # changes[c].method
    => methods[m].by \in Calls /\ methods[m].by \notin changes[c].after

MethodsDefaults ==
  \A m, n \in DOMAIN methods : methods[m].isDefault /\ methods[n].isDefault /\ m # n =>
    /\ methods[m].by \in Calls /\ methods[n].by \in Calls
    /\ Methods!Overlap(methods[m].by, methods[n].by)

Revokes(c, m) == changes[c].at = "done" /\ changes[c].method = m /\ changes[c].status = "REVOKED"

\* setDefaultPaymentMethod found the method active: it was revoked after that.
MethodsRevokedSince ==
  \A c \in Calls :
    /\ changes[c].at \in {"see", "commit"} /\ ~ changes[c].edits
    /\ changes[c].status = Methods!NoOne /\ methods[changes[c].method].status = "REVOKED"
    => \E d \in Calls : Revokes(d, changes[c].method) /\ d \notin changes[c].after

MethodsRevokedDefaults ==
  \A m \in DOMAIN methods : methods[m].status = "REVOKED" /\ methods[m].isDefault =>
    /\ methods[m].by \in Calls
    /\ \E d \in Calls : Revokes(d, m) /\ Methods!Overlap(d, methods[m].by)

MethodsInv ==
  /\ MethodsTyped /\ MethodsAfterDone /\ MethodsWriterDone
  /\ MethodsUnseen /\ MethodsDefaults /\ MethodsRevokedSince /\ MethodsRevokedDefaults

\* Stored methods have one default at most.
LEMMA MethodsInit == Methods!Init => MethodsInv
<1> SUFFICES ASSUME Methods!Init PROVE MethodsInv
  OBVIOUS
<1>1. PICK default \in StoredRows \cup {Methods!NoOne} :
        methods = [m \in StoredRows |-> [status |-> "ACTIVE", isDefault |-> m = default, by |-> Methods!NoOne]]
  BY DEF Methods!Init
<1>2. /\ Methods!NoChange \in MethodCall /\ Methods!NoChange.at = "idle"
      /\ Methods!NoChange.seen = {} /\ Methods!NoChange.after = {}
  BY DEF Methods!NoChange, MethodCall
<1>3. changes = [c \in Calls |-> Methods!NoChange]
  BY DEF Methods!Init
<1>4. /\ DOMAIN methods = StoredRows /\ methods \in [StoredRows -> MethodRow]
      /\ \A m \in StoredRows : methods[m].status = "ACTIVE" /\ (methods[m].isDefault => m = default)
      /\ \A m \in StoredRows : methods[m].by = Methods!NoOne
  BY <1>1 DEF MethodRow, Methods!Statuses
<1>5. MethodsTyped /\ MethodsAfterDone
  BY <1>2, <1>3, <1>4 DEF MethodsTyped, MethodsAfterDone
<1>6. MethodsWriterDone
  BY <1>4, RecordsAssumption DEF Methods!MethodsAssumption, MethodsWriterDone
<1>7. MethodsUnseen /\ MethodsDefaults /\ MethodsRevokedSince /\ MethodsRevokedDefaults
  BY <1>2, <1>3, <1>4 DEF MethodsUnseen, MethodsDefaults, MethodsRevokedSince, MethodsRevokedDefaults
<1> QED BY <1>5, <1>6, <1>7 DEF MethodsInv

\* The call c begins, or goes on with what it began with.
MethodsProceeds(c) ==
  /\ changes' \in [Calls -> MethodCall] /\ \A d \in Calls \ {c} : changes'[d] = changes[d]
  /\ changes[c].at # "done" /\ changes'[c].at # "idle"
  /\ \/ changes[c].at = "idle" /\ changes'[c].after = {d \in Calls : changes[d].at = "done"}
     \/ /\ changes'[c].after = changes[c].after /\ changes'[c].method = changes[c].method
        /\ changes'[c].status = changes[c].status /\ changes'[c].edits = changes[c].edits

\* A call that goes on leaves what was over over, and in its order.
LEMMA MethodsOrder ==
  ASSUME MethodsInv, NEW c \in Calls, MethodsProceeds(c)
  PROVE  /\ MethodsAfterDone'
         /\ \A d \in Calls : c \notin changes[d].after
         /\ \A d \in Calls : changes[d].at = "done" => changes'[d] = changes[d]
         /\ \A d, e \in Calls : changes[d].at = "done" /\ changes[e].at = "done" =>
              Methods!Overlap(d, e)' = Methods!Overlap(d, e)
<1>1. \A d \in Calls : c \notin changes[d].after
  BY DEF MethodsInv, MethodsAfterDone, MethodsProceeds
<1>2. \A d \in Calls : changes[d].at = "done" => changes'[d] = changes[d]
  BY DEF MethodsProceeds
<1>3. MethodsAfterDone'
  BY <1>2 DEF MethodsInv, MethodsAfterDone, MethodsProceeds, MethodCall
<1>4. \A d, e \in Calls : changes[d].at = "done" /\ changes[e].at = "done" =>
         Methods!Overlap(d, e)' = Methods!Overlap(d, e)
  BY <1>2 DEF Methods!Overlap
<1> QED BY <1>1, <1>2, <1>3, <1>4

\* What a call is when it begins.
LEMMA MethodsBegun ==
  ASSUME MethodsInv, NEW c \in Calls, NEW at \in {"see", "done"}, NEW m \in StoredRows \cup Calls,
         NEW status \in Methods!Statuses \cup {Methods!NoOne}, NEW edit \in BOOLEAN,
         Methods!Begin(c, at, m, status, edit)
  PROVE  /\ MethodsProceeds(c) /\ changes[c].at = "idle"
         /\ changes'[c].at = at /\ changes'[c].method = m /\ changes'[c].status = status
         /\ changes'[c].edits = edit /\ changes'[c].seen = {}
<1> DEFINE call == [at |-> at, method |-> m, status |-> status, edits |-> edit, seen |-> {},
                    after |-> {d \in Calls : changes[d].at = "done"}]
<1>1. call \in MethodCall /\ changes' = [changes EXCEPT ![c] = call] /\ changes[c].at = "idle"
  BY DEF Methods!Begin, MethodCall
<1>2. /\ call.at = at /\ call.method = m /\ call.status = status /\ call.edits = edit
      /\ call.seen = {} /\ call.after = {d \in Calls : changes[d].at = "done"}
  OBVIOUS
<1> HIDE DEF call
<1> QED BY <1>1, <1>2 DEF MethodsInv, MethodsTyped, MethodsProceeds

\* c is done with writing the method m, and has taken the default from others or from none.
MethodsWritten(c, m) ==
  /\ changes'[c].at = "done" /\ changes'[c].method = m
  /\ changes'[c].seen \subseteq DOMAIN methods
  /\ m \in StoredRows \cup Calls /\ DOMAIN methods' = DOMAIN methods \cup {m}
  /\ methods' \in [DOMAIN methods' -> MethodRow]
  /\ methods'[m].by = c
  /\ methods'[m].status = "REVOKED" =>
       changes'[c].status = "REVOKED" \/ (m \in DOMAIN methods /\ methods[m].status = "REVOKED")
  /\ methods'[m].isDefault => changes[c].at = "commit" /\ changes[c].method = m
  /\ methods'[m].isDefault /\ methods'[m].status = "REVOKED" =>
       ~ changes[c].edits /\ changes[c].status = Methods!NoOne
  /\ \A n \in DOMAIN methods \ {m} :
       /\ methods'[n].status = methods[n].status /\ methods'[n].by = methods[n].by
       /\ methods'[n].isDefault => methods[n].isDefault
       /\ methods'[n].isDefault /\ methods'[m].isDefault => n \notin changes[c].seen

\* A write of one method by one call, whatever default it makes or takes away.
LEMMA MethodsWrittenPreserves ==
  ASSUME MethodsInv, NEW c \in Calls, NEW m, MethodsProceeds(c), MethodsWritten(c, m)
  PROVE  MethodsInv'
<1>1. /\ MethodsAfterDone' /\ \A d \in Calls : c \notin changes[d].after
      /\ \A d \in Calls : changes[d].at = "done" => changes'[d] = changes[d]
      /\ \A d, e \in Calls : changes[d].at = "done" /\ changes[e].at = "done" =>
           Methods!Overlap(d, e)' = Methods!Overlap(d, e)
  BY MethodsOrder
<1>2. MethodsTyped'
  <2>1. DOMAIN methods' \subseteq StoredRows \cup Calls /\ methods' \in [DOMAIN methods' -> MethodRow]
        /\ DOMAIN methods \subseteq DOMAIN methods'
    BY DEF MethodsWritten, MethodsInv, MethodsTyped
  <2>2. ASSUME NEW d \in Calls
        PROVE  /\ changes'[d].seen \subseteq DOMAIN methods'
               /\ changes'[d].at \in {"see", "commit"} =>
                    /\ \/ changes'[d].method \in DOMAIN methods'
                       \/ changes'[d].method = d /\ changes'[d].status = "ACTIVE"
                    /\ changes'[d].status = "REVOKED" => changes'[d].edits
    BY <2>1 DEF MethodsInv, MethodsTyped, MethodsProceeds, MethodsWritten
  <2> QED BY <2>1, <2>2 DEF MethodsTyped, MethodsProceeds
<1>3. \A n \in DOMAIN methods : methods[n] \in MethodRow
  BY DEF MethodsInv, MethodsTyped
<1>4. MethodsWriterDone'
  BY <1>1 DEF MethodsInv, MethodsWriterDone, MethodsWritten
<1>5. MethodsUnseen'
  BY <1>1 DEF MethodsInv, MethodsUnseen, MethodsWritten, MethodsProceeds
<1>6. MethodsDefaults'
  <2>1. ASSUME NEW n \in DOMAIN methods \ {m}, methods'[n].isDefault, methods'[m].isDefault
        PROVE  methods'[n].by \in Calls /\ Methods!Overlap(methods[n].by, c)'
    <3>1. methods[n].by \in Calls /\ methods[n].by \notin changes[c].after /\ methods'[n].by = methods[n].by
      BY <2>1 DEF MethodsInv, MethodsUnseen, MethodsWritten
    <3>2. changes'[methods[n].by] = changes[methods[n].by]
      BY <1>1, <3>1 DEF MethodsInv, MethodsWriterDone
    <3>3. changes'[c].after = changes[c].after
      BY <2>1 DEF MethodsProceeds, MethodsWritten
    <3> QED BY <1>1, <3>1, <3>2, <3>3 DEF Methods!Overlap
  <2>2. ASSUME NEW n \in DOMAIN methods \ {m}, NEW o \in DOMAIN methods \ {m}, n # o,
               methods'[n].isDefault, methods'[o].isDefault
        PROVE  /\ methods'[n].by \in Calls /\ methods'[o].by \in Calls
               /\ Methods!Overlap(methods[n].by, methods[o].by)'
    <3>1. /\ methods[n].by \in Calls /\ methods'[n].by = methods[n].by
          /\ methods[o].by \in Calls /\ methods'[o].by = methods[o].by
          /\ Methods!Overlap(methods[n].by, methods[o].by)
      BY <2>2 DEF MethodsInv, MethodsDefaults, MethodsWritten
    <3>2. changes[methods[n].by].at = "done" /\ changes[methods[o].by].at = "done"
      BY <3>1 DEF MethodsInv, MethodsWriterDone
    <3>3. /\ changes'[methods[n].by] = changes[methods[n].by]
          /\ changes'[methods[o].by] = changes[methods[o].by]
      BY <1>1, <3>1, <3>2
    <3> QED BY <3>1, <3>3 DEF Methods!Overlap
  <2>3. methods'[m].by = c /\ DOMAIN methods' \ {m} = DOMAIN methods \ {m}
    BY DEF MethodsWritten
  <2> QED BY <2>1, <2>2, <2>3 DEF MethodsDefaults, Methods!Overlap
<1>7. MethodsRevokedSince'
  <2> SUFFICES ASSUME NEW d \in Calls, changes'[d].at \in {"see", "commit"}, ~ changes'[d].edits,
                      changes'[d].status = Methods!NoOne, methods'[changes'[d].method].status = "REVOKED"
               PROVE  \E e \in Calls : Revokes(e, changes[d].method)' /\ e \notin changes'[d].after
    BY DEF MethodsRevokedSince, Revokes
  <2>1. d # c /\ changes'[d] = changes[d]
    BY DEF MethodsWritten, MethodsProceeds
  <2>2. CASE changes[d].method # m \/ (methods[m].status = "REVOKED" /\ m \in DOMAIN methods)
    <3>1. changes[d].method \in DOMAIN methods
      BY <2>1 DEF MethodsInv, MethodsTyped, Methods!NoOne
    <3>2. methods[changes[d].method].status = "REVOKED"
      BY <2>1, <2>2, <3>1 DEF MethodsWritten
    <3>3. PICK e \in Calls : Revokes(e, changes[d].method) /\ e \notin changes[d].after
      BY <2>1, <3>2 DEF MethodsInv, MethodsRevokedSince
    <3> QED BY <1>1, <2>1, <3>3 DEF Revokes
  <2>3. CASE changes[d].method = m /\ ~(methods[m].status = "REVOKED" /\ m \in DOMAIN methods)
    BY <1>1, <2>1, <2>3 DEF MethodsWritten, Revokes
  <2> QED BY <2>2, <2>3
<1>8. MethodsRevokedDefaults'
  <2>1. ASSUME NEW n \in DOMAIN methods \ {m}, methods'[n].status = "REVOKED", methods'[n].isDefault
        PROVE  /\ methods'[n].by \in Calls
               /\ \E d \in Calls : Revokes(d, n)' /\ Methods!Overlap(d, methods[n].by)'
    <3>1. /\ methods[n].by \in Calls /\ methods'[n].by = methods[n].by
          /\ \E d \in Calls : Revokes(d, n) /\ Methods!Overlap(d, methods[n].by)
      BY <2>1 DEF MethodsInv, MethodsRevokedDefaults, MethodsWritten
    <3>2. PICK d \in Calls : Revokes(d, n) /\ Methods!Overlap(d, methods[n].by)
      BY <3>1
    <3>3. changes[methods[n].by].at = "done" /\ changes[d].at = "done"
      BY <3>1, <3>2 DEF MethodsInv, MethodsWriterDone, Revokes
    <3>4. changes'[d] = changes[d] /\ changes'[methods[n].by] = changes[methods[n].by]
      BY <1>1, <3>1, <3>3
    <3> QED BY <3>1, <3>2, <3>4 DEF Revokes, Methods!Overlap
  <2>2. ASSUME methods'[m].status = "REVOKED", methods'[m].isDefault
        PROVE  \E d \in Calls : Revokes(d, m)' /\ Methods!Overlap(d, c)'
    <3>1. /\ changes[c].at = "commit" /\ changes[c].method = m /\ ~ changes[c].edits
          /\ changes[c].status = Methods!NoOne
      BY <2>2 DEF MethodsWritten
    <3>2. changes'[c].after = changes[c].after /\ changes'[c].status = Methods!NoOne
      BY <3>1 DEF MethodsProceeds
    <3>3. methods[m].status = "REVOKED"
      BY <2>2, <3>2 DEF MethodsWritten, Methods!NoOne
    <3>4. PICK d \in Calls : Revokes(d, m) /\ d \notin changes[c].after
      BY <3>1, <3>3 DEF MethodsInv, MethodsRevokedSince
    <3>5. changes'[d] = changes[d]
      BY <1>1, <3>4 DEF Revokes
    <3> QED BY <1>1, <3>2, <3>4, <3>5 DEF Revokes, Methods!Overlap
  <2>3. methods'[m].by = c /\ DOMAIN methods' \ {m} = DOMAIN methods \ {m}
    BY DEF MethodsWritten
  <2> QED BY <2>1, <2>2, <2>3 DEF MethodsRevokedDefaults, Methods!Overlap, Revokes
<1> QED BY <1>1, <1>2, <1>4, <1>5, <1>6, <1>7, <1>8 DEF MethodsInv

\* Methods are not written: a call begins with making one the default, or sees what is.
LEMMA MethodsReadPreserves ==
  ASSUME MethodsInv, NEW c \in Calls, MethodsProceeds(c), methods' = methods, MethodsTyped',
         \/ changes'[c].at = "see" /\ changes[c].at = "idle"
         \/ changes'[c].at = "commit" /\ changes'[c].seen = {m \in DOMAIN methods : methods[m].isDefault}
            /\ changes[c].at = "see",
         changes'[c].at = "see" /\ changes'[c].status = Methods!NoOne /\ ~ changes'[c].edits =>
           methods[changes'[c].method].status = "ACTIVE"
  PROVE  MethodsInv'
<1>1. /\ MethodsAfterDone' /\ \A d \in Calls : c \notin changes[d].after
      /\ \A d \in Calls : changes[d].at = "done" => changes'[d] = changes[d]
      /\ \A d, e \in Calls : changes[d].at = "done" /\ changes[e].at = "done" =>
           Methods!Overlap(d, e)' = Methods!Overlap(d, e)
  BY MethodsOrder
<1>4. MethodsWriterDone'
  BY <1>1 DEF MethodsInv, MethodsWriterDone
<1>5. MethodsUnseen'
  BY <1>1 DEF MethodsInv, MethodsUnseen, MethodsProceeds
<1>6. MethodsDefaults'
  <2> SUFFICES ASSUME NEW n \in DOMAIN methods, NEW o \in DOMAIN methods, n # o,
               methods[n].isDefault, methods[o].isDefault
        PROVE  /\ methods[n].by \in Calls /\ methods[o].by \in Calls
               /\ Methods!Overlap(methods[n].by, methods[o].by)'
    BY DEF MethodsDefaults, Methods!Overlap
  <2>1. /\ methods[n].by \in Calls /\ methods[o].by \in Calls
        /\ Methods!Overlap(methods[n].by, methods[o].by)
    BY DEF MethodsInv, MethodsDefaults
  <2>2. changes[methods[n].by].at = "done" /\ changes[methods[o].by].at = "done"
    BY <2>1 DEF MethodsInv, MethodsWriterDone
  <2>3. /\ changes'[methods[n].by] = changes[methods[n].by]
        /\ changes'[methods[o].by] = changes[methods[o].by]
    BY <1>1, <2>1, <2>2
  <2> QED BY <2>1, <2>3 DEF Methods!Overlap
<1>7. MethodsRevokedSince'
  <2> SUFFICES ASSUME NEW d \in Calls, changes'[d].at \in {"see", "commit"}, ~ changes'[d].edits,
                      changes'[d].status = Methods!NoOne, methods[changes'[d].method].status = "REVOKED"
               PROVE  \E e \in Calls : Revokes(e, changes[d].method)' /\ e \notin changes'[d].after
    BY DEF MethodsRevokedSince, Revokes
  <2>1. /\ changes[d].at \in {"see", "commit"} /\ ~ changes[d].edits
        /\ changes[d].status = Methods!NoOne /\ changes'[d].method = changes[d].method
        /\ changes'[d].after = changes[d].after
    BY DEF MethodsProceeds
  <2>2. PICK e \in Calls : Revokes(e, changes[d].method) /\ e \notin changes[d].after
    BY <2>1 DEF MethodsInv, MethodsRevokedSince
  <2> QED BY <1>1, <2>1, <2>2 DEF Revokes
<1>8. MethodsRevokedDefaults'
  <2> SUFFICES ASSUME NEW n \in DOMAIN methods, methods[n].status = "REVOKED", methods[n].isDefault
        PROVE  /\ methods[n].by \in Calls
               /\ \E d \in Calls : Revokes(d, n)' /\ Methods!Overlap(d, methods[n].by)'
    BY DEF MethodsRevokedDefaults, Methods!Overlap, Revokes
  <2>1. /\ methods[n].by \in Calls
        /\ \E d \in Calls : Revokes(d, n) /\ Methods!Overlap(d, methods[n].by)
    BY DEF MethodsInv, MethodsRevokedDefaults
  <2>2. PICK d \in Calls : Revokes(d, n) /\ Methods!Overlap(d, methods[n].by)
    BY <2>1
  <2>3. changes[methods[n].by].at = "done" /\ changes[d].at = "done"
    BY <2>1, <2>2 DEF MethodsInv, MethodsWriterDone, Revokes
  <2>4. changes'[d] = changes[d] /\ changes'[methods[n].by] = changes[methods[n].by]
    BY <1>1, <2>1, <2>3
  <2> QED BY <2>1, <2>2, <2>4 DEF Revokes, Methods!Overlap
<1> QED BY <1>1, <1>4, <1>5, <1>6, <1>7, <1>8 DEF MethodsInv

\* Creating, editing and revoking a method is one write.
LEMMA MethodsQuickPreserves ==
  ASSUME MethodsInv, NEW c \in Calls,
         Methods!CreateMethod(c) \/ Methods!EditMethod(c) \/ Methods!RevokeMethod(c)
  PROVE  MethodsInv'
<1>1. PICK m \in StoredRows \cup Calls, status \in Methods!Statuses \cup {Methods!NoOne}, edit \in BOOLEAN,
           row \in MethodRow :
        /\ Methods!Begin(c, "done", m, status, edit)
        /\ ~ row.isDefault /\ row.by = c
        /\ row.status = "REVOKED" =>
             status = "REVOKED" \/ (m \in DOMAIN methods /\ methods[m].status = "REVOKED")
        /\ methods' = [n \in DOMAIN methods \cup {m} |-> IF n = m THEN row ELSE methods[n]]
  <2>1. ASSUME NEW status \in Methods!Statuses
        PROVE  LET row == [status |-> status, isDefault |-> FALSE, by |-> c]
               IN  row \in MethodRow /\ ~ row.isDefault /\ row.by = c /\ row.status = status
    BY DEF MethodRow
  <2>2. CASE Methods!CreateMethod(c)
    <3> DEFINE row == [status |-> "ACTIVE", isDefault |-> FALSE, by |-> c]
    <3>1. "ACTIVE" \in Methods!Statuses /\ "ACTIVE" # "REVOKED"
      BY DEF Methods!Statuses
    <3>2. row \in MethodRow /\ ~ row.isDefault /\ row.by = c /\ row.status = "ACTIVE"
      BY <2>1, <3>1
    <3>3. /\ Methods!Begin(c, "done", c, "ACTIVE", FALSE)
          /\ methods' = [n \in DOMAIN methods \cup {c} |-> IF n = c THEN row ELSE methods[n]]
      BY <2>2 DEF Methods!CreateMethod
    <3> HIDE DEF row
    <3> QED BY <3>1, <3>2, <3>3
  <2>3. CASE Methods!EditMethod(c)
    <3>1. PICK m \in DOMAIN methods, status \in Methods!Statuses \cup {Methods!NoOne} :
            /\ Methods!Begin(c, "done", m, status, TRUE)
            /\ methods' = [methods EXCEPT ![m] =
                 [status |-> IF status = Methods!NoOne THEN methods[m].status ELSE status,
                  isDefault |-> FALSE, by |-> c]]
      BY <2>3 DEF Methods!EditMethod
    <3> DEFINE new == IF status = Methods!NoOne THEN methods[m].status ELSE status
               row == [status |-> new, isDefault |-> FALSE, by |-> c]
    <3>2. m \in StoredRows \cup Calls /\ new \in Methods!Statuses
      BY DEF MethodsInv, MethodsTyped, MethodRow
    <3>3. row \in MethodRow /\ ~ row.isDefault /\ row.by = c /\ row.status = new
      BY <2>1, <3>2
    <3>4. methods' = [n \in DOMAIN methods \cup {m} |-> IF n = m THEN row ELSE methods[n]]
      BY <3>1 DEF MethodsInv, MethodsTyped
    <3>5. new = "REVOKED" => status = "REVOKED" \/ (m \in DOMAIN methods /\ methods[m].status = "REVOKED")
      OBVIOUS
    <3>6. Methods!Begin(c, "done", m, status, TRUE)
      BY <3>1
    <3> HIDE DEF row, new
    <3> QED BY <3>2, <3>3, <3>4, <3>5, <3>6
  <2>4. CASE Methods!RevokeMethod(c)
    <3> DEFINE row == [status |-> "REVOKED", isDefault |-> FALSE, by |-> c]
    <3>1. PICK m \in DOMAIN methods :
            /\ Methods!Begin(c, "done", m, "REVOKED", FALSE)
            /\ methods' = [methods EXCEPT ![m] = row]
      BY <2>4 DEF Methods!RevokeMethod
    <3>2. m \in StoredRows \cup Calls /\ "REVOKED" \in Methods!Statuses
      BY DEF MethodsInv, MethodsTyped, Methods!Statuses
    <3>3. row \in MethodRow /\ ~ row.isDefault /\ row.by = c
      BY <2>1, <3>2
    <3>4. methods' = [n \in DOMAIN methods \cup {m} |-> IF n = m THEN row ELSE methods[n]]
      BY <3>1 DEF MethodsInv, MethodsTyped
    <3> HIDE DEF row
    <3> QED BY ZenonT(40), <3>1, <3>2, <3>3, <3>4
  <2> QED BY <2>2, <2>3, <2>4
<1>2. /\ MethodsProceeds(c) /\ changes'[c].at = "done" /\ changes'[c].method = m
      /\ changes'[c].status = status /\ changes'[c].seen = {}
  BY <1>1, MethodsBegun
<1>3. MethodsWritten(c, m)
  <2>1. /\ DOMAIN methods' = DOMAIN methods \cup {m} /\ methods'[m] = row
        /\ \A n \in DOMAIN methods \ {m} : methods'[n] = methods[n]
        /\ methods' \in [DOMAIN methods' -> MethodRow]
    BY <1>1 DEF MethodsInv, MethodsTyped
  <2> QED BY <1>1, <1>2, <2>1 DEF MethodsWritten
<1> QED BY <1>2, <1>3, MethodsWrittenPreserves

\* A call that begins to change the default has seen nothing yet.
LEMMA BeginDefaultPreserves ==
  ASSUME MethodsInv, NEW c \in Calls, Methods!BeginDefault(c)
  PROVE  MethodsInv'
<1>1. PICK m \in StoredRows \cup Calls, status \in Methods!Statuses \cup {Methods!NoOne}, edit \in BOOLEAN :
        /\ Methods!Begin(c, "see", m, status, edit)
        /\ m \in DOMAIN methods \/ (m = c /\ status = "ACTIVE")
        /\ status = "REVOKED" => edit
        /\ status = Methods!NoOne /\ ~ edit => methods[m].status = "ACTIVE"
  <2>1. DOMAIN methods \subseteq StoredRows \cup Calls /\ "ACTIVE" \in Methods!Statuses
        /\ Methods!NoOne # "REVOKED" /\ Methods!NoOne # "ACTIVE"
    BY DEF MethodsInv, MethodsTyped, Methods!Statuses, Methods!NoOne
  <2>2. CASE \E m \in DOMAIN methods :
               methods[m].status = "ACTIVE" /\ Methods!Begin(c, "see", m, Methods!NoOne, FALSE)
    BY <2>1, <2>2
  <2>3. CASE \E m \in DOMAIN methods, status \in Methods!Statuses \cup {Methods!NoOne} :
               Methods!Begin(c, "see", m, status, TRUE)
    BY <2>1, <2>3
  <2>4. CASE Methods!Begin(c, "see", c, "ACTIVE", FALSE)
    BY <2>1, <2>4
  <2> QED BY <2>2, <2>3, <2>4 DEF Methods!BeginDefault
<1>2. methods' = methods
  BY DEF Methods!BeginDefault
<1>3. /\ MethodsProceeds(c) /\ changes[c].at = "idle"
      /\ changes'[c].at = "see" /\ changes'[c].method = m /\ changes'[c].status = status
      /\ changes'[c].edits = edit /\ changes'[c].seen = {}
  BY <1>1, MethodsBegun
<1>4. MethodsTyped'
  BY <1>1, <1>2, <1>3 DEF MethodsInv, MethodsTyped, MethodsProceeds
<1> QED BY <1>1, <1>2, <1>3, <1>4, MethodsReadPreserves

\* What is seen is who is the default now.
LEMMA SeeDefaultsPreserves ==
  ASSUME MethodsInv, NEW c \in Calls, Methods!SeeDefaults(c)
  PROVE  MethodsInv'
<1> DEFINE seen == {m \in DOMAIN methods : methods[m].isDefault}
           call == [changes[c] EXCEPT !.at = "commit", !.seen = seen]
<1>1. /\ seen \subseteq DOMAIN methods /\ seen \in SUBSET (StoredRows \cup Calls)
      /\ changes[c] \in MethodCall /\ changes[c].at = "see"
  BY DEF MethodsInv, MethodsTyped, Methods!SeeDefaults
<1>2. changes' = [changes EXCEPT ![c] = call] /\ methods' = methods
  BY DEF MethodsInv, MethodsTyped, Methods!SeeDefaults
<1> HIDE DEF seen
<1>3. /\ call \in MethodCall /\ call.at = "commit" /\ call.seen = seen
      /\ call.after = changes[c].after /\ call.method = changes[c].method
      /\ call.status = changes[c].status /\ call.edits = changes[c].edits
  BY <1>1 DEF MethodCall
<1> HIDE DEF call
<1>4. MethodsProceeds(c) /\ changes'[c] = call
  BY <1>1, <1>2, <1>3 DEF MethodsInv, MethodsTyped, MethodsProceeds
<1>5. MethodsTyped'
  BY <1>1, <1>2, <1>3, <1>4 DEF MethodsInv, MethodsTyped, MethodsProceeds
<1> QED BY <1>1, <1>2, <1>3, <1>4, <1>5, MethodsReadPreserves DEF seen

\* The new default takes the place of those that were seen.
LEMMA CommitDefaultPreserves ==
  ASSUME MethodsInv, NEW c \in Calls, Methods!CommitDefault(c)
  PROVE  MethodsInv'
<1> DEFINE m == changes[c].method
           seen == changes[c].seen
           status == IF changes[c].status = Methods!NoOne THEN methods[m].status ELSE changes[c].status
           row == [status |-> status, isDefault |-> ~ (changes[c].edits /\ status = "REVOKED"), by |-> c]
           call == [changes[c] EXCEPT !.at = "done"]
           Taken(n) == [methods[n] EXCEPT !.isDefault = FALSE]
<1>1. /\ changes[c].at = "commit" /\ changes[c] \in MethodCall
      /\ m \in DOMAIN methods \/ (m = c /\ changes[c].status = "ACTIVE")
      /\ changes[c].status = "REVOKED" => changes[c].edits
      /\ seen \subseteq DOMAIN methods
  BY DEF Methods!CommitDefault, MethodsInv, MethodsTyped
<1>2. m \in StoredRows \cup Calls /\ status \in Methods!Statuses
  <2>1. changes[c].status \in Methods!Statuses \cup {Methods!NoOne}
    BY <1>1 DEF MethodCall
  <2>2. \A n \in DOMAIN methods : n \in StoredRows \cup Calls /\ methods[n].status \in Methods!Statuses
    BY DEF MethodsInv, MethodsTyped, MethodRow
  <2>3. "ACTIVE" # Methods!NoOne
    BY DEF Methods!NoOne
  <2> HIDE DEF m
  <2> QED BY <1>1, <2>1, <2>2, <2>3
<1>3. /\ row \in MethodRow /\ row.by = c /\ row.status = status
      /\ row.isDefault => ~ (changes[c].edits /\ status = "REVOKED")
  <2> HIDE DEF m, status
  <2> QED BY <1>2 DEF MethodRow
<1>4. \A n \in DOMAIN methods :
        /\ methods[n] \in MethodRow /\ Taken(n) \in MethodRow /\ ~ Taken(n).isDefault
        /\ Taken(n).status = methods[n].status /\ Taken(n).by = methods[n].by
  <2>1. ASSUME NEW other \in MethodRow
        PROVE  LET new == [other EXCEPT !.isDefault = FALSE]
               IN  /\ new \in MethodRow /\ ~ new.isDefault
                   /\ new.status = other.status /\ new.by = other.by
    BY DEF MethodRow
  <2> QED BY <2>1 DEF MethodsInv, MethodsTyped
<1>5. /\ changes' = [changes EXCEPT ![c] = call]
      /\ methods' = [n \in DOMAIN methods \cup {m} |->
           CASE n = m -> row
             [] n # m /\ n \in seen -> Taken(n)
             [] OTHER -> methods[n]]
  BY DEF Methods!CommitDefault
<1>6. /\ call \in MethodCall /\ call.at = "done" /\ call.seen = changes[c].seen
      /\ call.after = changes[c].after /\ call.method = changes[c].method
      /\ call.status = changes[c].status /\ call.edits = changes[c].edits
  BY <1>1 DEF MethodCall
<1> HIDE DEF call
<1>7. MethodsProceeds(c) /\ changes'[c] = call
  BY <1>1, <1>5, <1>6 DEF MethodsInv, MethodsTyped, MethodsProceeds
<1>8. status = "REVOKED" => \/ changes[c].status = "REVOKED" /\ changes[c].edits
                            \/ /\ changes[c].status = Methods!NoOne
                               /\ m \in DOMAIN methods /\ methods[m].status = "REVOKED"
  <2>1. Methods!NoOne # "ACTIVE"
    BY DEF Methods!NoOne
  <2> HIDE DEF m
  <2> QED BY <1>1, <2>1
<1> HIDE DEF m, seen, status, row, Taken
<1>9. /\ DOMAIN methods' = DOMAIN methods \cup {m} /\ methods'[m] = row
      /\ \A n \in DOMAIN methods \ {m} :
           methods'[n] = Taken(n) \/ (n \notin seen /\ methods'[n] = methods[n])
  BY <1>5
<1>10. methods' \in [DOMAIN methods' -> MethodRow]
  <2>1. \A n \in DOMAIN methods' : methods'[n] \in MethodRow
    BY <1>3, <1>4, <1>9
  <2>2. methods' = [n \in DOMAIN methods' |-> methods'[n]]
    BY <1>5, <1>9
  <2> QED BY <2>1, <2>2
<1>11. MethodsWritten(c, m)
  <2>1. /\ changes'[c].at = "done" /\ changes'[c].method = m /\ changes[c].method = m
        /\ changes'[c].seen = seen /\ changes[c].seen = seen /\ changes'[c].status = changes[c].status
    BY <1>6, <1>7 DEF m, seen
  <2> QED BY <1>1, <1>2, <1>3, <1>4, <1>8, <1>9, <1>10, <2>1 DEF MethodsWritten
<1> QED BY <1>7, <1>11, MethodsWrittenPreserves

\* Every step of the payment methods preserves their invariant.
LEMMA MethodsStep == ASSUME MethodsInv, [Methods!Next]_(Methods!vars) PROVE MethodsInv'
<1>1. CASE UNCHANGED Methods!vars
  BY <1>1 DEF Methods!vars, MethodsInv, MethodsTyped, MethodsAfterDone, MethodsWriterDone, MethodsUnseen,
              MethodsDefaults, MethodsRevokedSince, MethodsRevokedDefaults, Revokes, Methods!Overlap
<1> QED BY <1>1, MethodsQuickPreserves, BeginDefaultPreserves, SeeDefaultsPreserves,
           CommitDefaultPreserves DEF Methods!Next

\* What the invariant says of the properties.
LEMMA MethodsProperties ==
  MethodsInv => Methods!TypeOK /\ Methods!OneDefault /\ Methods!RevokedIsNoDefault
<1> SUFFICES ASSUME MethodsInv PROVE Methods!TypeOK /\ Methods!OneDefault /\ Methods!RevokedIsNoDefault
  OBVIOUS
<1>1. Methods!TypeOK
  BY DEF MethodsInv, MethodsTyped, MethodRow, MethodCall, Methods!TypeOK
<1>2. Methods!OneDefault
  BY DEF MethodsInv, MethodsDefaults, Methods!OneDefault
<1>3. Methods!RevokedIsNoDefault
  BY DEF MethodsInv, MethodsRevokedDefaults, Revokes, Methods!RevokedIsNoDefault
<1> QED BY <1>1, <1>2, <1>3

----------------------------------------------------------------------------
(* The tariff calendars of a tenant                                        *)

CalendarRow == [status : Tariffs!Statuses, site : Sites]
TariffCall == [at : {"idle", "update", "single", "done", "dead"},
               calendar : StoredRows \cup Calls \cup {Tariffs!NoOne}, active : BOOLEAN,
               site : Sites \cup {Tariffs!NoOne}, after : SUBSET Calls]

TariffsTyped ==
  /\ DOMAIN calendars \subseteq StoredRows \cup Calls
  /\ calendars \in [DOMAIN calendars -> CalendarRow]
  /\ tariffing \in [Calls -> TariffCall]
  /\ \A c \in Calls :
       tariffing[c].at \in {"update", "single"} => tariffing[c].calendar \in DOMAIN calendars
  /\ served \subseteq Sites

TariffsAfterOver == \A c \in Calls : \A d \in tariffing[c].after : Tariffs!Over(d)

Raced(c) == \E d \in Tariffs!Begun : Tariffs!Overlap(c, d)

\* What a call goes by is so, or another call overlapped with it.
GoesBy(c, k) ==
  /\ tariffing[c].at = "single" =>
       Raced(c) \/ (Tariffs!IsActive(k) /\ calendars[k].site = tariffing[c].site)
  /\ tariffing[c].at = "update" => Raced(c) \/ tariffing[c].active = Tariffs!IsActive(k)

TariffsUndisturbed == \A c \in Calls : GoesBy(c, tariffing[c].calendar)

\* Which call left both calendars of a site active, or has still to demote one.
PairExplained(k, l, s) ==
  \E c \in Tariffs!Begun :
    /\ tariffing[c].calendar \in {k, l}
    /\ \/ tariffing[c].at = "dead"
       \/ tariffing[c].at = "single" /\ tariffing[c].site = s
       \/ Raced(c)

TariffsPairs ==
  \A k, l \in DOMAIN calendars :
    /\ k # l /\ calendars[k].site = calendars[l].site
    /\ calendars[k].status = "ACTIVE" /\ calendars[l].status = "ACTIVE"
    => PairExplained(k, l, calendars[k].site)

TariffsInv ==
  /\ TariffsTyped /\ TariffsAfterOver /\ TariffsUndisturbed /\ TariffsPairs
  /\ Tariffs!ActiveIsKept

\* No calendar is active and nobody has begun.
LEMMA TariffsInit == Tariffs!Init => TariffsInv
<1> SUFFICES ASSUME Tariffs!Init PROVE TariffsInv
  OBVIOUS
<1>1. PICK k \in StoredRows, s \in Sites :
        /\ calendars = [l \in StoredRows |-> [status |-> IF l = k THEN "ACTIVE" ELSE "DRAFT", site |-> s]]
        /\ served = {s}
  BY DEF Tariffs!Init
<1>2. /\ Tariffs!NoTariff \in TariffCall /\ Tariffs!NoTariff.at = "idle" /\ Tariffs!NoTariff.after = {}
  BY DEF Tariffs!NoTariff, TariffCall
<1>3. tariffing = [c \in Calls |-> Tariffs!NoTariff]
  BY DEF Tariffs!Init
<1>4. /\ DOMAIN calendars = StoredRows /\ calendars \in [StoredRows -> CalendarRow]
      /\ \A l \in StoredRows : (calendars[l].status = "ACTIVE") = (l = k)
      /\ \A l \in StoredRows : calendars[l].site = s
  BY <1>1 DEF CalendarRow, Tariffs!Statuses
<1>5. TariffsTyped /\ TariffsAfterOver /\ TariffsUndisturbed
  BY <1>1, <1>2, <1>3, <1>4 DEF TariffsTyped, TariffsAfterOver, TariffsUndisturbed, GoesBy
<1>6. TariffsPairs /\ Tariffs!ActiveIsKept
  BY <1>1, <1>4 DEF TariffsPairs, Tariffs!ActiveIsKept, Tariffs!IsActive
<1> QED BY <1>5, <1>6 DEF TariffsInv

\* The call c begins, or goes on with what it began with.
TariffsProceeds(c) ==
  /\ tariffing' \in [Calls -> TariffCall] /\ \A d \in Calls \ {c} : tariffing'[d] = tariffing[d]
  /\ ~ Tariffs!Over(c) /\ tariffing'[c].at # "idle"
  /\ \/ tariffing[c].at = "idle" /\ tariffing'[c].after = {d \in Calls : Tariffs!Over(d)}
     \/ /\ tariffing[c].at # "idle"
        /\ tariffing'[c].after = tariffing[c].after /\ tariffing'[c].calendar = tariffing[c].calendar

\* All that have begun and are not over overlap with the one that takes a step.
LEMMA TariffsOrder ==
  ASSUME TariffsInv, NEW c \in Calls, TariffsProceeds(c)
  PROVE  /\ TariffsAfterOver'
         /\ \A d \in Tariffs!Begun : d \in Tariffs!Begun' /\ (Raced(d) => Raced(d)')
         /\ \A d \in Tariffs!Begun \ {c} : ~ Tariffs!Over(d) => Raced(d)'
<1>1. \A d \in Calls : c \notin tariffing[d].after
  BY DEF TariffsInv, TariffsAfterOver, TariffsProceeds
<1>2. \A d \in Calls : Tariffs!Over(d) => tariffing'[d] = tariffing[d] /\ Tariffs!Over(d)'
  BY DEF TariffsProceeds, Tariffs!Over
<1>3. \A d \in Calls : tariffing'[d].after = tariffing[d].after \/ d = c
  BY DEF TariffsProceeds
<1>4. TariffsAfterOver'
  <2> SUFFICES ASSUME NEW d \in Calls, NEW e \in tariffing'[d].after PROVE Tariffs!Over(e)'
    BY DEF TariffsAfterOver
  <2>1. e \in Calls /\ Tariffs!Over(e)
    BY DEF TariffsInv, TariffsTyped, TariffCall, TariffsAfterOver, TariffsProceeds
  <2> QED BY <1>2, <2>1
<1>5. \A d \in Tariffs!Begun : d \in Tariffs!Begun' /\ tariffing'[d].after = tariffing[d].after
  BY DEF TariffsProceeds, Tariffs!Begun
<1>6. \A d \in Tariffs!Begun : Raced(d) => Raced(d)'
  BY <1>5 DEF Raced, Tariffs!Overlap
<1>7. ASSUME NEW d \in Tariffs!Begun \ {c}, ~ Tariffs!Over(d)
      PROVE  Raced(d)'
  <2>1. c \in Tariffs!Begun' /\ tariffing'[d].after = tariffing[d].after /\ d \in Calls
    BY <1>5, <1>7 DEF TariffsProceeds, Tariffs!Begun
  <2>2. d \notin tariffing'[c].after
    BY <1>7, <2>1 DEF TariffsProceeds, TariffsInv, TariffsAfterOver
  <2> QED BY <1>1, <1>7, <2>1, <2>2 DEF Raced, Tariffs!Overlap
<1> QED BY <1>4, <1>5, <1>6, <1>7

\* The calendars that are active are as they were, or c, which wrote them, overlaps with
\* another call or is about to demote the others.
TariffsAnswersFor(c) ==
  \A k \in DOMAIN calendars' : calendars'[k].status = "ACTIVE" =>
    \/ k \in DOMAIN calendars /\ calendars'[k] = calendars[k]
    \/ /\ k = tariffing'[c].calendar
       /\ \/ tariffing'[c].at = "single" /\ tariffing'[c].site = calendars'[k].site
          \/ Raced(c)'

\* Two active calendars stay explained while a call that answers for one of them goes on.
LEMMA TariffsPairsKept ==
  ASSUME TariffsInv, NEW c \in Calls, TariffsProceeds(c), TariffsAnswersFor(c),
         tariffing[c].at = "single" => tariffing'[c].at = "dead"
  PROVE  TariffsPairs'
<1> SUFFICES ASSUME NEW k \in DOMAIN calendars', NEW l \in DOMAIN calendars', k # l,
                    calendars'[k].site = calendars'[l].site,
                    calendars'[k].status = "ACTIVE", calendars'[l].status = "ACTIVE"
             PROVE  \E d \in Tariffs!Begun' :
                      /\ tariffing'[d].calendar \in {k, l}
                      /\ \/ tariffing'[d].at = "dead"
                         \/ tariffing'[d].at = "single" /\ tariffing'[d].site = calendars'[k].site
                         \/ Raced(d)'
  BY DEF TariffsPairs, PairExplained
<1>1. CASE /\ k \in DOMAIN calendars /\ calendars'[k] = calendars[k]
           /\ l \in DOMAIN calendars /\ calendars'[l] = calendars[l]
  <2>1. PICK d \in Tariffs!Begun :
          /\ tariffing[d].calendar \in {k, l}
          /\ \/ tariffing[d].at = "dead"
             \/ tariffing[d].at = "single" /\ tariffing[d].site = calendars[k].site
             \/ Raced(d)
    BY <1>1 DEF TariffsInv, TariffsPairs, PairExplained
  <2>2. d \in Calls /\ d \in Tariffs!Begun' /\ tariffing'[d].calendar = tariffing[d].calendar
        /\ (Raced(d) => Raced(d)')
    BY TariffsOrder DEF TariffsProceeds, Tariffs!Begun
  <2>3. CASE d # c
    <3>1. tariffing'[d] = tariffing[d]
      BY <2>2, <2>3 DEF TariffsProceeds
    <3> QED BY <1>1, <2>1, <2>2, <3>1
  <2>4. CASE d = c
    <3>1. tariffing[c].at # "dead"
      BY DEF TariffsProceeds, Tariffs!Over
    <3> QED BY <2>1, <2>2, <2>4, <3>1
  <2> QED BY <2>3, <2>4
<1>2. CASE ~ /\ k \in DOMAIN calendars /\ calendars'[k] = calendars[k]
             /\ l \in DOMAIN calendars /\ calendars'[l] = calendars[l]
  <2>1. c \in Tariffs!Begun'
    BY DEF TariffsProceeds, Tariffs!Begun
  <2> QED BY <1>2, <2>1 DEF TariffsAnswersFor
<1> QED BY <1>1, <1>2

\* A call is disturbed only by another on its calendar.
LEMMA TariffsUndisturbedKept ==
  ASSUME TariffsInv, NEW c \in Calls, TariffsProceeds(c),
         NEW k, k = tariffing'[c].calendar, GoesBy(c, k)'
  PROVE  TariffsUndisturbed'
<1>1. \A d \in Calls \ {c} : tariffing'[d].at \in {"single", "update"} => Raced(d)'
  BY TariffsOrder DEF TariffsProceeds, Tariffs!Begun, Tariffs!Over
<1> QED BY <1>1 DEF TariffsUndisturbed, GoesBy

\* A site that is served has an active calendar, or some calls overlapped.
LEMMA TariffsServed ==
  ASSUME TariffsInv, NEW c \in Calls, TariffsProceeds(c), NEW k \in DOMAIN calendars',
         \A l \in DOMAIN calendars \ {k} : l \in DOMAIN calendars' /\ calendars'[l] = calendars[l],
         Tariffs!Serve(k)
  PROVE  Tariffs!ActiveIsKept'
<1> SUFFICES ASSUME NEW s \in served', ~ \E d, e \in Tariffs!Begun' : Tariffs!Overlap(d, e)'
             PROVE  \E l \in DOMAIN calendars' : calendars'[l].site = s /\ calendars'[l].status = "ACTIVE"
  BY DEF Tariffs!ActiveIsKept, Tariffs!IsActive
<1>1. CASE calendars'[k].status = "ACTIVE" /\ calendars'[k].site = s
  BY <1>1
<1>2. CASE ~(calendars'[k].status = "ACTIVE" /\ calendars'[k].site = s)
  <2>1. s \in served /\ ~(Tariffs!IsActive(k) /\ calendars[k].site = s)
    BY <1>2 DEF Tariffs!Serve
  <2>2. ~ \E d, e \in Tariffs!Begun : Tariffs!Overlap(d, e)
    BY TariffsOrder DEF Raced
  <2>3. PICK l \in DOMAIN calendars : calendars[l].site = s /\ Tariffs!IsActive(l)
    BY <2>1, <2>2 DEF TariffsInv, Tariffs!ActiveIsKept
  <2> QED BY <2>1, <2>3 DEF Tariffs!IsActive
<1> QED BY <1>1, <1>2

\* What a call is when it begins.
LEMMA TariffsBegun ==
  ASSUME TariffsInv, NEW c \in Calls, NEW at \in {"update", "single", "done"},
         NEW k \in StoredRows \cup Calls, NEW active \in BOOLEAN, NEW site \in Sites \cup {Tariffs!NoOne},
         Tariffs!Begin(c, at, k, active, site)
  PROVE  /\ TariffsProceeds(c) /\ tariffing[c].at = "idle"
         /\ tariffing'[c].at = at /\ tariffing'[c].calendar = k
         /\ tariffing'[c].active = active /\ tariffing'[c].site = site
<1> DEFINE call == [at |-> at, calendar |-> k, active |-> active, site |-> site,
                    after |-> {d \in Calls : Tariffs!Over(d)}]
<1>1. call \in TariffCall /\ tariffing' = [tariffing EXCEPT ![c] = call] /\ tariffing[c].at = "idle"
  BY DEF Tariffs!Begin, TariffCall
<1>2. /\ call.at = at /\ call.calendar = k /\ call.active = active /\ call.site = site
      /\ call.after = {d \in Calls : Tariffs!Over(d)}
  OBVIOUS
<1> HIDE DEF call
<1> QED BY <1>1, <1>2 DEF TariffsInv, TariffsTyped, TariffsProceeds, Tariffs!Over

\* A call writes one calendar and is done with it, or goes on to demote the others.
LEMMA TariffsWritePreserves ==
  ASSUME TariffsInv, NEW c \in Calls, NEW k \in StoredRows \cup Calls, NEW row \in CalendarRow,
         TariffsProceeds(c), tariffing[c].at # "single", tariffing'[c].at \in {"single", "done"},
         tariffing'[c].calendar = k,
         tariffing'[c].at = "single" => tariffing'[c].site = row.site /\ (Raced(c)' \/ row.status = "ACTIVE"),
         tariffing'[c].at = "done" => Raced(c)' \/ row.status # "ACTIVE",
         calendars' = [l \in DOMAIN calendars \cup {k} |-> IF l = k THEN row ELSE calendars[l]],
         Tariffs!Serve(k)
  PROVE  TariffsInv'
<1>1. /\ DOMAIN calendars' = DOMAIN calendars \cup {k} /\ calendars'[k] = row
      /\ \A l \in DOMAIN calendars \ {k} : calendars'[l] = calendars[l]
      /\ calendars' \in [DOMAIN calendars' -> CalendarRow]
  BY DEF TariffsInv, TariffsTyped
<1>2. row.site \in Sites /\ served' \subseteq Sites
  BY <1>1 DEF CalendarRow, Tariffs!Serve, TariffsInv, TariffsTyped
<1>3. TariffsTyped'
  BY <1>1, <1>2 DEF TariffsInv, TariffsTyped, TariffsProceeds
<1>4. TariffsUndisturbed'
  <2>1. GoesBy(c, k)'
    BY <1>1 DEF GoesBy, Tariffs!IsActive
  <2> QED BY <2>1, TariffsUndisturbedKept
<1>5. TariffsPairs'
  <2>1. TariffsAnswersFor(c)
    BY <1>1 DEF TariffsAnswersFor
  <2> QED BY <2>1, TariffsPairsKept
<1>6. Tariffs!ActiveIsKept'
  BY <1>1, TariffsServed
<1> QED BY <1>3, <1>4, <1>5, <1>6, TariffsOrder DEF TariffsInv

\* Creating, activating and archiving is a first write, others are demoted later.
LEMMA TariffsBeginPreserves ==
  ASSUME TariffsInv, NEW c \in Calls,
         Tariffs!CreateCalendar(c) \/ Tariffs!ActivateCalendar(c) \/ Tariffs!ArchiveCalendar(c)
  PROVE  TariffsInv'
<1>0. /\ {"ACTIVE", "ARCHIVED"} \subseteq Tariffs!Statuses
      /\ \A k \in DOMAIN calendars : calendars[k] \in CalendarRow /\ k \in StoredRows \cup Calls
      /\ \A k \in DOMAIN calendars : calendars[k].site \in Sites
  BY DEF Tariffs!Statuses, TariffsInv, TariffsTyped, CalendarRow
<1>1. PICK k \in StoredRows \cup Calls, status \in Tariffs!Statuses, s \in Sites, active \in BOOLEAN :
        /\ Tariffs!Begin(c, Tariffs!Then(status = "ACTIVE"), k, active, s)
        /\ calendars' = [l \in DOMAIN calendars \cup {k} |->
                           IF l = k THEN [status |-> status, site |-> s] ELSE calendars[l]]
        /\ Tariffs!Serve(k)
  <2>1. CASE Tariffs!CreateCalendar(c)
    BY <2>1 DEF Tariffs!CreateCalendar
  <2>2. ASSUME NEW k \in DOMAIN calendars, NEW status \in Tariffs!Statuses,
               calendars' = [calendars EXCEPT ![k].status = status]
        PROVE  calendars' = [l \in DOMAIN calendars \cup {k} |->
                 IF l = k THEN [status |-> status, site |-> calendars[k].site] ELSE calendars[l]]
    <3>1. [calendars[k] EXCEPT !.status = status] = [status |-> status, site |-> calendars[k].site]
      BY <1>0 DEF CalendarRow
    <3>2. calendars' = [calendars EXCEPT ![k] = [calendars[k] EXCEPT !.status = status]]
      BY <2>2
    <3> QED BY <3>1, <3>2 DEF TariffsInv, TariffsTyped
  <2>3. CASE Tariffs!ActivateCalendar(c)
    <3>1. PICK k \in DOMAIN calendars :
            /\ Tariffs!Begin(c, "single", k, TRUE, calendars[k].site)
            /\ calendars' = [calendars EXCEPT ![k].status = "ACTIVE"]
            /\ Tariffs!Serve(k)
      BY <2>3 DEF Tariffs!ActivateCalendar
    <3>2. Tariffs!Then("ACTIVE" = "ACTIVE") = "single"
      BY DEF Tariffs!Then
    <3>3. calendars' = [l \in DOMAIN calendars \cup {k} |->
                 IF l = k THEN [status |-> "ACTIVE", site |-> calendars[k].site] ELSE calendars[l]]
      BY <1>0, <2>2, <3>1
    <3>4. Tariffs!Begin(c, Tariffs!Then("ACTIVE" = "ACTIVE"), k, TRUE, calendars[k].site)
      BY <3>1, <3>2
    <3>5. "ACTIVE" \in Tariffs!Statuses /\ calendars[k].site \in Sites /\ k \in StoredRows \cup Calls
      BY <1>0
    <3> QED BY <3>1, <3>3, <3>4, <3>5
  <2>4. CASE Tariffs!ArchiveCalendar(c)
    <3>1. PICK k \in DOMAIN calendars :
            /\ Tariffs!Begin(c, "done", k, FALSE, calendars[k].site)
            /\ calendars' = [calendars EXCEPT ![k].status = "ARCHIVED"]
            /\ Tariffs!Serve(k)
      BY <2>4 DEF Tariffs!ArchiveCalendar
    <3>2. Tariffs!Then("ARCHIVED" = "ACTIVE") = "done"
      BY DEF Tariffs!Then
    <3>3. calendars' = [l \in DOMAIN calendars \cup {k} |->
                 IF l = k THEN [status |-> "ARCHIVED", site |-> calendars[k].site] ELSE calendars[l]]
      BY <1>0, <2>2, <3>1
    <3>4. Tariffs!Begin(c, Tariffs!Then("ARCHIVED" = "ACTIVE"), k, FALSE, calendars[k].site)
      BY <3>1, <3>2
    <3>5. "ARCHIVED" \in Tariffs!Statuses /\ calendars[k].site \in Sites /\ k \in StoredRows \cup Calls
      BY <1>0
    <3> QED BY <3>1, <3>3, <3>4, <3>5
  <2> QED BY <2>1, <2>3, <2>4
<1> DEFINE row == [status |-> status, site |-> s]
<1>2. /\ Tariffs!Then(status = "ACTIVE") \in {"single", "done"}
      /\ Tariffs!Then(status = "ACTIVE") = "single" <=> status = "ACTIVE"
  BY DEF Tariffs!Then
<1>3. /\ TariffsProceeds(c) /\ tariffing[c].at = "idle" /\ tariffing'[c].calendar = k
      /\ tariffing'[c].at = Tariffs!Then(status = "ACTIVE") /\ tariffing'[c].site = s
  BY <1>1, <1>2, TariffsBegun
<1>4. row \in CalendarRow /\ row.status = status /\ row.site = s
  BY DEF CalendarRow
<1>5. calendars' = [l \in DOMAIN calendars \cup {k} |-> IF l = k THEN row ELSE calendars[l]]
  BY <1>1
<1> HIDE DEF row
<1> QED BY <1>1, <1>2, <1>3, <1>4, <1>5, TariffsWritePreserves

\* A read tells the site whose calendars are demoted.
LEMMA ReadCalendarPreserves ==
  ASSUME TariffsInv, NEW c \in Calls, Tariffs!ReadCalendar(c)
  PROVE  TariffsInv'
<1>1. PICK k \in DOMAIN calendars :
        Tariffs!Begin(c, "update", k, calendars[k].status = "ACTIVE", Tariffs!NoOne)
  BY DEF Tariffs!ReadCalendar
<1>2. calendars' = calendars /\ served' = served /\ k \in StoredRows \cup Calls
  BY DEF Tariffs!ReadCalendar, TariffsInv, TariffsTyped
<1>3. /\ TariffsProceeds(c) /\ tariffing[c].at = "idle" /\ tariffing'[c].at = "update"
      /\ tariffing'[c].calendar = k /\ tariffing'[c].active = (calendars[k].status = "ACTIVE")
  BY <1>1, <1>2, TariffsBegun
<1>4. TariffsTyped'
  BY <1>2, <1>3 DEF TariffsInv, TariffsTyped, TariffsProceeds
<1>5. TariffsUndisturbed'
  <2>1. GoesBy(c, k)'
    BY <1>2, <1>3 DEF GoesBy, Tariffs!IsActive
  <2> QED BY <1>3, <2>1, TariffsUndisturbedKept
<1>6. TariffsPairs'
  BY <1>2, <1>3, TariffsPairsKept DEF TariffsAnswersFor
<1>7. Tariffs!ActiveIsKept'
  BY <1>2, <1>3, TariffsOrder DEF TariffsInv, Tariffs!ActiveIsKept, Tariffs!IsActive, Raced
<1> QED BY <1>3, <1>4, <1>5, <1>6, <1>7, TariffsOrder DEF TariffsInv

\* The calendar that is written is active at the site that was read.
LEMMA UpdateCalendarPreserves ==
  ASSUME TariffsInv, NEW c \in Calls, Tariffs!UpdateCalendar(c)
  PROVE  TariffsInv'
<1> DEFINE k == tariffing[c].calendar
<1>1. PICK status \in Tariffs!Statuses \cup {Tariffs!NoOne}, s \in Sites :
        /\ calendars' = [calendars EXCEPT ![k] =
             [status |-> IF status = Tariffs!NoOne THEN calendars[k].status ELSE status, site |-> s]]
        /\ tariffing' = [tariffing EXCEPT ![c].site = s, ![c].at = Tariffs!Then(
             IF status = Tariffs!NoOne THEN tariffing[c].active ELSE status = "ACTIVE")]
        /\ Tariffs!Serve(k)
  BY DEF Tariffs!UpdateCalendar
<1> DEFINE new == IF status = Tariffs!NoOne THEN calendars[k].status ELSE status
           then == Tariffs!Then(IF status = Tariffs!NoOne THEN tariffing[c].active ELSE status = "ACTIVE")
           row == [status |-> new, site |-> s]
           call == [tariffing[c] EXCEPT !.site = s, !.at = then]
<1>2. /\ tariffing[c].at = "update" /\ tariffing[c] \in TariffCall /\ k \in DOMAIN calendars
      /\ k \in StoredRows \cup Calls /\ new \in Tariffs!Statuses
  BY DEF Tariffs!UpdateCalendar, TariffsInv, TariffsTyped, CalendarRow
<1>3. then \in {"single", "done"}
  BY DEF Tariffs!Then
<1>4. Raced(c) \/ (then = "single" <=> new = "ACTIVE")
  BY <1>2 DEF TariffsInv, TariffsUndisturbed, GoesBy, Tariffs!IsActive, Tariffs!Then
<1>5. row \in CalendarRow /\ row.status = new /\ row.site = s
  <2> HIDE DEF new
  <2> QED BY <1>2 DEF CalendarRow
<1>6. calendars' = [l \in DOMAIN calendars \cup {k} |-> IF l = k THEN row ELSE calendars[l]]
  BY <1>1, <1>2 DEF TariffsInv, TariffsTyped
<1>7. tariffing' = [tariffing EXCEPT ![c] = call]
  BY <1>1 DEF TariffsInv, TariffsTyped
<1> HIDE DEF then, row, new, k
<1>8. /\ call \in TariffCall /\ call.at = then /\ call.site = s
      /\ call.after = tariffing[c].after /\ call.calendar = tariffing[c].calendar
  BY <1>2, <1>3 DEF TariffCall
<1> HIDE DEF call
<1>9. TariffsProceeds(c) /\ tariffing'[c] = call
  BY <1>2, <1>3, <1>7, <1>8 DEF TariffsInv, TariffsTyped, TariffsProceeds, Tariffs!Over
<1>10. Raced(c) => Raced(c)'
  BY <1>2, <1>9, TariffsOrder DEF Tariffs!Begun
<1>11. /\ tariffing'[c].at = "single" => tariffing'[c].site = row.site /\ (Raced(c)' \/ row.status = "ACTIVE")
       /\ tariffing'[c].at = "done" => Raced(c)' \/ row.status # "ACTIVE"
       /\ tariffing'[c].calendar = k /\ tariffing'[c].at \in {"single", "done"}
  BY <1>3, <1>4, <1>5, <1>8, <1>9, <1>10 DEF k
<1>12. Tariffs!Serve(k)
  BY <1>1
<1> QED BY <1>2, <1>5, <1>6, <1>9, <1>11, <1>12, TariffsWritePreserves

\* A call that is on its way moves to its end.
LEMMA TariffsEnds ==
  ASSUME TariffsInv, NEW c \in Calls, NEW at \in {"done", "dead"},
         tariffing[c].at \in {"update", "single"}, tariffing' = [tariffing EXCEPT ![c].at = at]
  PROVE  TariffsProceeds(c) /\ tariffing'[c].at = at
<1> DEFINE call == [tariffing[c] EXCEPT !.at = at]
<1>1. tariffing[c] \in TariffCall /\ tariffing' = [tariffing EXCEPT ![c] = call]
  BY DEF TariffsInv, TariffsTyped
<1>2. /\ call \in TariffCall /\ call.at = at
      /\ call.after = tariffing[c].after /\ call.calendar = tariffing[c].calendar
  BY <1>1 DEF TariffCall
<1> HIDE DEF call
<1> QED BY <1>1, <1>2 DEF TariffsInv, TariffsTyped, TariffsProceeds, Tariffs!Over

\* Of a site's calendars the one just activated is left.
LEMMA DemoteOthersPreserves ==
  ASSUME TariffsInv, NEW c \in Calls, Tariffs!DemoteOthers(c)
  PROVE  TariffsInv'
<1> DEFINE k == tariffing[c].calendar
           s == tariffing[c].site
           Drafted(l) == [calendars[l] EXCEPT !.status = "DRAFT"]
<1>1. tariffing[c].at = "single" /\ served' = served /\ k \in DOMAIN calendars
  BY DEF Tariffs!DemoteOthers, TariffsInv, TariffsTyped
<1>2. calendars' = [l \in DOMAIN calendars |->
         IF l # k /\ calendars[l].site = s /\ calendars[l].status = "ACTIVE" THEN Drafted(l) ELSE calendars[l]]
  BY DEF Tariffs!DemoteOthers
<1>3. TariffsProceeds(c) /\ tariffing'[c].at = "done"
  BY <1>1, TariffsEnds DEF Tariffs!DemoteOthers
<1>4. \A l \in DOMAIN calendars :
        /\ calendars[l] \in CalendarRow /\ Drafted(l) \in CalendarRow
        /\ Drafted(l).status = "DRAFT" /\ Drafted(l).site = calendars[l].site
  <2>1. ASSUME NEW row \in CalendarRow
        PROVE  LET new == [row EXCEPT !.status = "DRAFT"]
               IN  new \in CalendarRow /\ new.status = "DRAFT" /\ new.site = row.site
    BY DEF CalendarRow, Tariffs!Statuses
  <2> QED BY <2>1 DEF TariffsInv, TariffsTyped
<1> HIDE DEF Drafted, k, s
<1>5. /\ DOMAIN calendars' = DOMAIN calendars /\ calendars' \in [DOMAIN calendars' -> CalendarRow]
      /\ \A l \in DOMAIN calendars :
           /\ calendars'[l].site = calendars[l].site
           /\ calendars'[l].status = "ACTIVE" => calendars'[l] = calendars[l] /\ (l = k \/ calendars[l].site # s)
           /\ l = k \/ calendars[l].site # s => calendars'[l] = calendars[l]
  BY <1>2, <1>4
<1>6. TariffsTyped'
  BY <1>1, <1>3, <1>5 DEF TariffsInv, TariffsTyped, TariffsProceeds
<1>7. TariffsUndisturbed'
  <2>1. GoesBy(c, tariffing[c].calendar)'
    BY <1>3 DEF GoesBy
  <2> QED BY <1>1, <1>3, <2>1, TariffsUndisturbedKept DEF TariffsProceeds
<1>8. TariffsPairs'
  <2> SUFFICES ASSUME NEW l \in DOMAIN calendars, NEW m \in DOMAIN calendars, l # m,
                      calendars'[l].site = calendars'[m].site,
                      calendars'[l].status = "ACTIVE", calendars'[m].status = "ACTIVE"
               PROVE  \E d \in Tariffs!Begun' :
                        /\ tariffing'[d].calendar \in {l, m}
                        /\ \/ tariffing'[d].at = "dead"
                           \/ tariffing'[d].at = "single" /\ tariffing'[d].site = calendars'[l].site
                           \/ Raced(d)'
    BY <1>5 DEF TariffsPairs, PairExplained
  <2>1. /\ calendars'[l] = calendars[l] /\ calendars'[m] = calendars[m]
        /\ calendars[l].site # s
    BY <1>5
  <2>2. PICK d \in Tariffs!Begun :
          /\ tariffing[d].calendar \in {l, m}
          /\ \/ tariffing[d].at = "dead"
             \/ tariffing[d].at = "single" /\ tariffing[d].site = calendars[l].site
             \/ Raced(d)
    BY <2>1 DEF TariffsInv, TariffsPairs, PairExplained
  <2>3. d \in Calls /\ d \in Tariffs!Begun' /\ tariffing'[d].calendar = tariffing[d].calendar
        /\ (Raced(d) => Raced(d)')
    BY <1>3, TariffsOrder DEF TariffsProceeds, Tariffs!Begun
  <2>4. CASE d # c
    <3>1. tariffing'[d] = tariffing[d]
      BY <1>3, <2>3, <2>4 DEF TariffsProceeds
    <3> QED BY <2>1, <2>2, <2>3, <3>1
  <2>5. CASE d = c
    BY <1>1, <2>1, <2>2, <2>3, <2>5 DEF s
  <2> QED BY <2>4, <2>5
<1>9. Tariffs!ActiveIsKept'
  <2> SUFFICES ASSUME NEW t \in served, ~ \E d, e \in Tariffs!Begun' : Tariffs!Overlap(d, e)'
               PROVE  \E l \in DOMAIN calendars' : calendars'[l].site = t /\ calendars'[l].status = "ACTIVE"
    BY <1>1 DEF Tariffs!ActiveIsKept, Tariffs!IsActive
  <2>1. ~ \E d, e \in Tariffs!Begun : Tariffs!Overlap(d, e)
    BY <1>3, TariffsOrder DEF Raced
  <2>2. ~ Raced(c)
    BY <1>1, <2>1 DEF Raced, Tariffs!Begun
  <2>3. calendars[k].status = "ACTIVE" /\ calendars[k].site = s
    BY <1>1, <2>2 DEF TariffsInv, TariffsUndisturbed, GoesBy, Tariffs!IsActive, k, s
  <2>4. PICK l \in DOMAIN calendars : calendars[l].site = t /\ Tariffs!IsActive(l)
    BY <2>1 DEF TariffsInv, Tariffs!ActiveIsKept
  <2>5. CASE t = s
    BY <1>1, <1>5, <2>3, <2>5
  <2>6. CASE t # s
    BY <1>5, <2>4, <2>6 DEF Tariffs!IsActive
  <2> QED BY <2>5, <2>6
<1> QED BY <1>3, <1>6, <1>7, <1>8, <1>9, TariffsOrder DEF TariffsInv

\* A call that dies demotes nobody: it is the exception.
LEMMA TariffsDiePreserves ==
  ASSUME TariffsInv, NEW c \in Calls, Tariffs!Die(c)
  PROVE  TariffsInv'
<1>1. /\ tariffing[c].at \in {"update", "single"} /\ calendars' = calendars /\ served' = served
      /\ TariffsProceeds(c) /\ tariffing'[c].at = "dead"
  BY TariffsEnds DEF Tariffs!Die
<1>2. TariffsTyped'
  BY <1>1 DEF TariffsInv, TariffsTyped, TariffsProceeds
<1>3. TariffsUndisturbed'
  <2>1. GoesBy(c, tariffing[c].calendar)'
    BY <1>1 DEF GoesBy
  <2> QED BY <1>1, <2>1, TariffsUndisturbedKept DEF TariffsProceeds
<1>4. TariffsPairs'
  BY <1>1, TariffsPairsKept DEF TariffsAnswersFor
<1>5. Tariffs!ActiveIsKept'
  BY <1>1, TariffsOrder DEF TariffsInv, Tariffs!ActiveIsKept, Tariffs!IsActive, Raced
<1> QED BY <1>1, <1>2, <1>3, <1>4, <1>5, TariffsOrder DEF TariffsInv

\* Every step of the tariff calendars preserves their invariant.
LEMMA TariffsStep == ASSUME TariffsInv, [Tariffs!Next]_(Tariffs!vars) PROVE TariffsInv'
<1>1. CASE UNCHANGED Tariffs!vars
  BY <1>1 DEF Tariffs!vars, TariffsInv, TariffsTyped, TariffsAfterOver, TariffsUndisturbed, GoesBy, TariffsPairs,
              PairExplained, Raced, Tariffs!Over, Tariffs!Overlap, Tariffs!Begun, Tariffs!IsActive,
              Tariffs!ActiveIsKept
<1> QED BY <1>1, TariffsBeginPreserves, ReadCalendarPreserves, UpdateCalendarPreserves,
           DemoteOthersPreserves, TariffsDiePreserves DEF Tariffs!Next

\* What the invariant of the calendars says of them.
LEMMA TariffsProperties ==
  TariffsInv => Tariffs!TypeOK /\ Tariffs!OneActiveCalendar /\ Tariffs!ActiveIsKept
<1> SUFFICES ASSUME TariffsInv PROVE Tariffs!TypeOK /\ Tariffs!OneActiveCalendar /\ Tariffs!ActiveIsKept
  OBVIOUS
<1>1. Tariffs!TypeOK
  BY DEF TariffsInv, TariffsTyped, CalendarRow, TariffCall, Tariffs!TypeOK
<1>2. Tariffs!OneActiveCalendar
  BY DEF TariffsInv, TariffsPairs, PairExplained, Raced, Tariffs!OneActiveCalendar
<1> QED BY <1>1, <1>2 DEF TariffsInv

----------------------------------------------------------------------------
(* The branding of a tenant                                                *)

Revision == [version : Nat \ {0}, status : {"DRAFT", "PUBLISHED", "ROLLED_BACK"}, config : Editors,
             updatedAt : Nat, publishedAt : Nat, publisher : Editors]
BrandingEdit == [at : {"idle", "latest", "write", "done"}, kind : {"none", "save", "publish", "rollback"},
                 row : Editors \cup {Branding!NoRow}, config : Editors \cup {Branding!Default},
                 stale : SUBSET Editors, latest : Nat, after : SUBSET Editors]

RevisionsTyped ==
  /\ DOMAIN revisions \subseteq Editors
  /\ revisions \in [DOMAIN revisions -> Revision]
  /\ written \in Nat
  /\ \A r \in DOMAIN revisions :
       /\ revisions[r].updatedAt <= written /\ revisions[r].publishedAt <= written
       /\ (revisions[r].status = "DRAFT") = (revisions[r].publishedAt = 0)
  /\ \A r, s \in DOMAIN revisions : revisions[r].version = revisions[s].version => r = s
  /\ \E n \in Nat : \A r \in DOMAIN revisions : revisions[r].version <= n

EditsTyped ==
  /\ edits \in [Editors -> BrandingEdit]
  /\ \A c \in Editors :
       /\ edits[c].at = "idle" => edits[c] = Branding!NoEdit
       /\ edits[c].at \in {"latest", "write"} => edits[c].config \in Editors

\* What a call is to write was saved by itself or by one that is done.
ConfigsByDone ==
  \A c \in Editors : edits[c].at \in {"latest", "write"} =>
    IF edits[c].kind = "save" THEN edits[c].config = c ELSE edits[edits[c].config].at = "done"

BrandingAfterDone == \A c \in Editors : \A d \in edits[c].after : edits[d].at = "done"

\* Who has created, saved or published a revision is done, and what is a draft was created as one.
RevisionsByDone ==
  \A r \in DOMAIN revisions :
    /\ edits[r].at = "done" /\ edits[revisions[r].publisher].at = "done"
    /\ edits[revisions[r].config].at = "done"
    /\ revisions[r].status = "DRAFT" => edits[r].kind = "save"

InSave(c) == edits[c].kind = "save" /\ edits[c].at \in {"latest", "write"}

\* A save that found no draft overlaps with those that have created one since.
FoundNoDraft ==
  \A c \in Editors : InSave(c) /\ edits[c].row = Branding!NoRow =>
    \A s \in Branding!Drafts : s \notin edits[c].after

\* What a save has read are drafts, or were published since.
ReadAsDrafts ==
  \A c \in Editors :
    /\ \A r \in edits[c].stale : edits[r].kind = "save" /\ edits[r].at = "done"
    /\ InSave(c) => \A r \in DOMAIN revisions \cap (edits[c].stale \cup {edits[c].row}) :
         revisions[r].publishedAt # 0 => revisions[r].publisher \notin edits[c].after

\* The revision that p published
PublishedBy(p) == IF edits[p].kind = "publish" THEN edits[p].row ELSE p

\* p published last, the revision r, which is still there.
LastPublished(p, r) ==
  /\ r = PublishedBy(p) /\ r \in DOMAIN revisions
  /\ revisions[r].publisher = p /\ revisions[r].publishedAt # 0
  /\ \A s \in DOMAIN revisions \ {r} : revisions[s].publishedAt < revisions[r].publishedAt
  /\ revisions[r].config = live \/ Branding!Overlap(revisions[r].config, p)

\* What is live was published last by p, or nothing has been published.
LiveExplained ==
  \/ live = Branding!Default /\ \A r \in DOMAIN revisions : revisions[r].publishedAt = 0
  \/ \E p \in Editors :
       /\ edits[p].at = "done" /\ edits[p].config = live /\ live \in Editors
       /\ edits[p].kind \in {"publish", "rollback"}
       /\ (\E r \in Editors : LastPublished(p, r)) \/ (\E c \in Editors : Branding!Discarded(c, p))

BrandingInv ==
  /\ RevisionsTyped /\ EditsTyped /\ BrandingAfterDone /\ ConfigsByDone /\ RevisionsByDone
  /\ FoundNoDraft /\ ReadAsDrafts
  /\ LiveExplained /\ Branding!OneDraft

\* There are no revisions and nobody has begun.
LEMMA BrandingInit == Branding!Init => BrandingInv
<1> SUFFICES ASSUME Branding!Init PROVE BrandingInv
  OBVIOUS
<1>1. /\ DOMAIN revisions = {} /\ written = 0 /\ live = Branding!Default
      /\ edits = [c \in Editors |-> Branding!NoEdit]
  BY DEF Branding!Init
<1>2. /\ Branding!NoEdit \in BrandingEdit /\ Branding!NoEdit.at = "idle" /\ Branding!NoEdit.after = {}
      /\ Branding!NoEdit.stale = {}
  BY DEF Branding!NoEdit, BrandingEdit
<1>3. RevisionsTyped
  <2>1. revisions \in [DOMAIN revisions -> Revision]
    BY <1>1 DEF Branding!Init
  <2> QED BY <1>1, <2>1 DEF RevisionsTyped
<1>4. EditsTyped /\ BrandingAfterDone /\ ConfigsByDone /\ RevisionsByDone /\ FoundNoDraft /\ ReadAsDrafts
  BY <1>1, <1>2 DEF EditsTyped, BrandingAfterDone, ConfigsByDone, RevisionsByDone, FoundNoDraft, ReadAsDrafts, InSave
<1>5. LiveExplained /\ Branding!OneDraft
  BY <1>1 DEF LiveExplained, Branding!OneDraft, Branding!Drafts
<1> QED BY <1>3, <1>4, <1>5 DEF BrandingInv

\* The call c begins, or goes on with what it began with.
EditProceeds(c) ==
  /\ edits' \in [Editors -> BrandingEdit] /\ \A d \in Editors \ {c} : edits'[d] = edits[d]
  /\ edits[c].at # "done" /\ edits'[c].at # "idle"
  /\ edits'[c].at \in {"latest", "write"} =>
       /\ edits'[c].config \in Editors
       /\ IF edits'[c].kind = "save" THEN edits'[c].config = c ELSE edits[edits'[c].config].at = "done"
  /\ \/ edits[c].at = "idle" /\ edits'[c].after = {d \in Editors : edits[d].at = "done"}
     \/ /\ edits[c].at # "idle" /\ edits'[c].after = edits[c].after
        /\ edits'[c].kind = edits[c].kind /\ edits'[c].row = edits[c].row
        /\ edits'[c].config = edits[c].config /\ edits'[c].stale = edits[c].stale

\* An edit that goes on leaves what was over over, and in its order.
LEMMA EditsOrder ==
  ASSUME BrandingInv, NEW c \in Editors, EditProceeds(c)
  PROVE  /\ EditsTyped' /\ BrandingAfterDone' /\ ConfigsByDone'
         /\ \A d \in Editors : c \notin edits[d].after
         /\ \A d \in Editors : edits[d].at = "done" => edits'[d] = edits[d]
         /\ \A d \in Editors : edits[d].at # "idle" =>
              /\ edits'[d].after = edits[d].after /\ edits'[d].kind = edits[d].kind
              /\ edits'[d].row = edits[d].row /\ edits'[d].config = edits[d].config
              /\ edits'[d].stale = edits[d].stale
<1>1. \A d \in Editors : c \notin edits[d].after
  BY DEF BrandingInv, BrandingAfterDone, EditProceeds
<1>2. \A d \in Editors : edits[d].at = "done" => edits'[d] = edits[d]
  BY DEF EditProceeds
<1>3. BrandingAfterDone'
  BY <1>2 DEF BrandingInv, BrandingAfterDone, EditProceeds, EditsTyped, BrandingEdit
<1>4. EditsTyped'
  BY DEF EditProceeds, BrandingInv, EditsTyped
<1>5. \A d \in Editors : edits[d].at # "idle" =>
              /\ edits'[d].after = edits[d].after /\ edits'[d].kind = edits[d].kind
              /\ edits'[d].row = edits[d].row /\ edits'[d].config = edits[d].config
              /\ edits'[d].stale = edits[d].stale
  BY DEF EditProceeds
<1>6. ConfigsByDone'
  BY <1>2 DEF EditProceeds, BrandingInv, ConfigsByDone, EditsTyped
<1> QED BY <1>1, <1>2, <1>3, <1>4, <1>5, <1>6

\* What one has deleted stays so, and the order of calls does not change.
LEMMA DiscardedKept ==
  ASSUME BrandingInv, NEW c \in Editors, EditProceeds(c), NEW d \in Editors, NEW p \in Editors,
         Branding!Discarded(d, p), edits[p].row \notin DOMAIN revisions'
  PROVE  Branding!Discarded(d, p)'
<1>1. edits[d].at # "idle" /\ edits[p].at # "idle"
  BY DEF Branding!Discarded, BrandingInv, EditsTyped, Branding!NoEdit
<1>2. /\ edits'[d].stale = edits[d].stale /\ edits'[d].after = edits[d].after
      /\ edits'[p].kind = edits[p].kind /\ edits'[p].row = edits[p].row /\ edits'[p].after = edits[p].after
  BY <1>1, EditsOrder
<1> QED BY <1>2 DEF Branding!Discarded, Branding!Overlap

\* Nothing is written: a call begins or reads the latest version.
LEMMA BrandingReadPreserves ==
  ASSUME BrandingInv, NEW c \in Editors, EditProceeds(c),
         live' = live, revisions' = revisions, written' = written,
         edits[c].at = "idle" =>
           /\ edits'[c].kind = "save" /\ edits'[c].row = Branding!NoRow => Branding!Drafts = {}
           /\ edits'[c].stale \subseteq Branding!Drafts
           /\ edits'[c].kind = "save" => edits'[c].row \in Branding!Drafts \cup {Branding!NoRow}
  PROVE  BrandingInv'
<1>1. RevisionsTyped'
  BY DEF BrandingInv, RevisionsTyped
<1>2. \A r \in DOMAIN revisions :
        r \in Editors /\ revisions[r].publisher \in Editors /\ revisions[r].config \in Editors
  BY DEF BrandingInv, RevisionsTyped, Revision
<1>3. RevisionsByDone'
  BY <1>2, EditsOrder DEF BrandingInv, RevisionsByDone
<1>4. Branding!Drafts' = Branding!Drafts
  BY DEF Branding!Drafts
<1>5. FoundNoDraft'
  <2> SUFFICES ASSUME NEW d \in Editors, InSave(d)', edits'[d].row = Branding!NoRow,
                      NEW s \in Branding!Drafts
               PROVE  s \notin edits'[d].after
    BY <1>4 DEF FoundNoDraft
  <2>1. CASE edits[d].at = "idle"
    <3>1. d = c
      BY <2>1 DEF EditProceeds, InSave
    <3> QED BY <2>1, <3>1 DEF InSave
  <2>2. CASE edits[d].at # "idle"
    <3>1. InSave(d)
      BY <2>2 DEF InSave, EditProceeds, BrandingInv, EditsTyped, BrandingEdit
    <3>2. edits[d].row = Branding!NoRow /\ edits'[d].after = edits[d].after
      BY <2>2, EditsOrder
    <3> QED BY <3>1, <3>2 DEF BrandingInv, FoundNoDraft
  <2> QED BY <2>1, <2>2
<1>6. ReadAsDrafts'
  <2>1. ASSUME NEW d \in Editors, edits[d].at # "idle"
        PROVE  /\ \A r \in edits'[d].stale : edits'[r].kind = "save" /\ edits'[r].at = "done"
               /\ InSave(d)' => \A r \in DOMAIN revisions \cap (edits'[d].stale \cup {edits'[d].row}) :
                    revisions[r].publishedAt # 0 => revisions[r].publisher \notin edits'[d].after
    <3>1. /\ edits'[d].stale = edits[d].stale /\ edits'[d].row = edits[d].row
          /\ edits'[d].after = edits[d].after /\ edits[d].stale \subseteq Editors
          /\ InSave(d)' => InSave(d)
      BY <2>1, EditsOrder DEF BrandingInv, EditsTyped, BrandingEdit, InSave, EditProceeds
    <3>2. \A r \in edits[d].stale : edits[r].kind = "save" /\ edits[r].at = "done" /\ r \in Editors
      BY <3>1 DEF BrandingInv, ReadAsDrafts
    <3>4. \A r \in edits[d].stale : edits'[r].kind = "save" /\ edits'[r].at = "done"
      BY <3>2, EditsOrder
    <3> QED BY <3>1, <3>4 DEF BrandingInv, ReadAsDrafts
  <2>2. ASSUME NEW d \in Editors, edits[d].at = "idle"
        PROVE  /\ \A r \in edits'[d].stale : edits'[r].kind = "save" /\ edits'[r].at = "done"
               /\ InSave(d)' => \A r \in DOMAIN revisions \cap (edits'[d].stale \cup {edits'[d].row}) :
                    revisions[r].publishedAt # 0 => revisions[r].publisher \notin edits'[d].after
    <3>1. CASE d # c
      BY <2>2, <3>1 DEF EditProceeds, BrandingInv, EditsTyped, Branding!NoEdit, InSave
    <3>2. CASE d = c
      <4>1. \A r \in Branding!Drafts : r \in DOMAIN revisions /\ r \in Editors /\ edits[r].kind = "save"
                                       /\ edits[r].at = "done" /\ revisions[r].publishedAt = 0
        BY <1>2 DEF BrandingInv, RevisionsByDone, RevisionsTyped, Branding!Drafts
      <4>2. \A r \in edits'[d].stale : edits'[r].kind = "save" /\ edits'[r].at = "done"
        BY <2>2, <3>2, <4>1, EditsOrder
      <4>3. Branding!NoRow \notin DOMAIN revisions
        BY RecordsAssumption DEF Branding!BrandingAssumption, BrandingInv, RevisionsTyped
      <4>4. ASSUME InSave(d)', NEW r \in DOMAIN revisions \cap (edits'[d].stale \cup {edits'[d].row})
            PROVE  revisions[r].publishedAt = 0
        <5>1. r \in Branding!Drafts
          BY <2>2, <3>2, <4>3, <4>4 DEF InSave
        <5> QED BY <4>1, <5>1
      <4> QED BY <4>2, <4>4
    <3> QED BY <3>1, <3>2
  <2> QED BY <2>1, <2>2 DEF ReadAsDrafts, InSave
<1>7. LiveExplained'
  <2>1. CASE live = Branding!Default /\ \A r \in DOMAIN revisions : revisions[r].publishedAt = 0
    BY <2>1 DEF LiveExplained
  <2>2. ASSUME NEW p \in Editors, edits[p].at = "done", edits[p].config = live, live \in Editors,
               edits[p].kind \in {"publish", "rollback"},
               (\E r \in Editors : LastPublished(p, r)) \/ (\E d \in Editors : Branding!Discarded(d, p))
        PROVE  LiveExplained'
    <3>1. edits'[p] = edits[p]
      BY <2>2, EditsOrder
    <3>2. ASSUME NEW r \in Editors, LastPublished(p, r) PROVE LastPublished(p, r)'
      <4>1. revisions[r].config \in Editors
        BY <3>2 DEF LastPublished, BrandingInv, RevisionsTyped, Revision
      <4>2. edits'[revisions[r].config] = edits[revisions[r].config]
        BY <3>2, <4>1, EditsOrder DEF LastPublished, BrandingInv, RevisionsByDone
      <4> QED BY <3>1, <3>2, <4>1, <4>2 DEF LastPublished, PublishedBy, Branding!Overlap
    <3>3. ASSUME NEW d \in Editors, Branding!Discarded(d, p) PROVE Branding!Discarded(d, p)'
      BY <3>3, DiscardedKept DEF Branding!Discarded
    <3> QED BY <2>2, <3>1, <3>2, <3>3 DEF LiveExplained
  <2> QED BY <2>1, <2>2 DEF BrandingInv, LiveExplained
<1>8. Branding!OneDraft'
  <2>1. \A r \in Branding!Drafts : r \in Editors /\ edits'[r] = edits[r]
    BY <1>2, EditsOrder DEF BrandingInv, RevisionsByDone, Branding!Drafts
  <2> QED BY <1>4, <2>1 DEF BrandingInv, Branding!OneDraft, Branding!Overlap
<1> QED BY <1>1, <1>3, <1>5, <1>6, <1>7, <1>8, EditsOrder DEF BrandingInv

\* The newest draft is a draft, if there is one.
LEMMA NewestDraftIsOne ==
  ASSUME BrandingInv
  PROVE  /\ Branding!Drafts \subseteq Editors /\ Branding!NoRow \notin Editors
         /\ IF Branding!Drafts = {} THEN Branding!NewestDraft = Branding!NoRow
            ELSE Branding!NewestDraft \in Branding!Drafts
<1>1. Branding!Drafts \subseteq Editors /\ Branding!NoRow \notin Editors
  BY RecordsAssumption DEF Branding!BrandingAssumption, Branding!Drafts, BrandingInv, RevisionsTyped
<1>2. ASSUME Branding!Drafts # {} PROVE Branding!NewestDraft \in Branding!Drafts
  <2> DEFINE T == {revisions[r].updatedAt : r \in Branding!Drafts}
  <2>1. /\ T \subseteq Nat /\ T # {} /\ written \in Nat /\ \A y \in T : y <= written
    BY <1>2 DEF BrandingInv, RevisionsTyped, Revision, Branding!Drafts
  <2>2. PICK x \in T : \A y \in T : y <= x
    BY <2>1, GreatestNatural
  <2>3. \E r \in Branding!Drafts : \A s \in Branding!Drafts : revisions[s].updatedAt <= revisions[r].updatedAt
    BY <2>2
  <2> QED BY <1>2, <2>3, Zenon DEF Branding!NewestDraft
<1>3. Branding!Drafts = {} => Branding!NewestDraft = Branding!NoRow
  BY DEF Branding!NewestDraft
<1> QED BY <1>1, <1>2, <1>3

\* The greatest version exists: versions are numbers, and finitely many.
LEMMA LatestVersionIsNat ==
  ASSUME BrandingInv PROVE Branding!LatestVersion \in Nat
<1> DEFINE S == {0} \cup {revisions[r].version : r \in DOMAIN revisions}
<1>1. PICK n \in Nat : \A r \in DOMAIN revisions : revisions[r].version <= n
  BY DEF BrandingInv, RevisionsTyped
<1>2. S \subseteq Nat /\ S # {} /\ \A y \in S : y <= n
  BY <1>1 DEF BrandingInv, RevisionsTyped, Revision
<1>3. PICK x \in S : \A y \in S : y <= x
  BY <1>2, GreatestNatural
<1>4. \A y \in S : x >= y
  BY <1>2, <1>3
<1> HIDE DEF S
<1>5. (CHOOSE m \in S : \A y \in S : m >= y) \in S
  BY <1>4
<1>6. Branding!LatestVersion = CHOOSE m \in S : \A y \in S : m >= y
  BY DEF Branding!LatestVersion, Branding!Max, S
<1> QED BY <1>2, <1>5, <1>6

\* An edit that begins has written nothing.
LEMMA BrandingBegins ==
  ASSUME BrandingInv, NEW c \in Editors, NEW kind \in {"save", "publish", "rollback"},
         NEW at \in {"latest", "write", "done"}, NEW row \in Editors \cup {Branding!NoRow},
         NEW config \in Editors \cup {Branding!Default}, Branding!Begin(c, kind, at, row, config),
         at # "done" => /\ config \in Editors
                        /\ IF kind = "save" THEN config = c ELSE edits[config].at = "done",
         kind = "save" => row = Branding!NewestDraft
  PROVE  BrandingInv'
<1> DEFINE e == [Branding!NoEdit EXCEPT
                   !.at = at, !.kind = kind, !.row = row, !.config = config,
                   !.stale = IF kind = "save" THEN Branding!Drafts \ {row} ELSE {},
                   !.after = {d \in Editors : edits[d].at = "done"}]
<1>1. /\ e \in BrandingEdit /\ e.at = at /\ e.kind = kind /\ e.row = row /\ e.config = config
      /\ e.stale = (IF kind = "save" THEN Branding!Drafts \ {row} ELSE {})
      /\ e.after = {d \in Editors : edits[d].at = "done"}
  BY NewestDraftIsOne DEF BrandingEdit, Branding!NoEdit
<1>2. edits[c].at = "idle" /\ edits' = [edits EXCEPT ![c] = e]
      /\ live' = live /\ revisions' = revisions /\ written' = written
  BY DEF Branding!Begin
<1> HIDE DEF e
<1>3. edits \in [Editors -> BrandingEdit]
  BY DEF BrandingInv, EditsTyped
<1>4. edits' \in [Editors -> BrandingEdit] /\ edits'[c] = e /\ \A d \in Editors \ {c} : edits'[d] = edits[d]
  BY <1>1, <1>2, <1>3
<1>5. EditProceeds(c)
  BY <1>1, <1>2, <1>4 DEF EditProceeds
<1>6. /\ e.kind = "save" /\ e.row = Branding!NoRow => Branding!Drafts = {}
      /\ e.stale \subseteq Branding!Drafts
      /\ e.kind = "save" => e.row \in Branding!Drafts \cup {Branding!NoRow}
  BY <1>1, NewestDraftIsOne
<1> QED BY <1>2, <1>4, <1>5, <1>6, BrandingReadPreserves

\* c ends, and a revision is as it was, but for its configuration, or is written by c.
Rewritten(c, r) ==
  /\ revisions'[r].config = edits[c].config \/ (r \in DOMAIN revisions /\ revisions'[r].config = revisions[r].config)
  /\ \/ /\ r \in DOMAIN revisions
        /\ revisions'[r].status = revisions[r].status
        /\ revisions'[r].publishedAt = revisions[r].publishedAt
        /\ revisions'[r].publisher = revisions[r].publisher
     \/ /\ revisions'[r].publisher = c /\ r \in DOMAIN revisions \cup {c}
        /\ revisions'[r].status = "DRAFT" => r = c /\ edits[c].kind = "save" /\ edits[c].row = Branding!NoRow

\* What an edit is when it writes.
LEMMA WritesEnd ==
  ASSUME BrandingInv, NEW c \in Editors, NEW kind, Branding!Writes(c, kind)
  PROVE  /\ EditProceeds(c) /\ edits[c].at = "write" /\ edits'[c].at = "done" /\ edits[c].kind = kind
         /\ edits[c].config \in Editors /\ c \notin DOMAIN revisions
         /\ IF kind = "save" THEN edits[c].config = c ELSE edits[edits[c].config].at = "done"
         /\ edits'[c].after = edits[c].after /\ edits'[c].kind = edits[c].kind
         /\ edits'[c].row = edits[c].row /\ edits'[c].config = edits[c].config
         /\ edits'[c].stale = edits[c].stale
<1>1. edits[c].at = "write" /\ edits[c].kind = kind /\ edits' = [edits EXCEPT ![c].at = "done"]
  BY DEF Branding!Writes
<1>2. edits \in [Editors -> BrandingEdit]
  BY DEF BrandingInv, EditsTyped
<1>3. ASSUME NEW e \in BrandingEdit
      PROVE  LET n == [e EXCEPT !.at = "done"]
             IN  /\ n \in BrandingEdit /\ n.at = "done" /\ n.after = e.after /\ n.kind = e.kind
                 /\ n.row = e.row /\ n.config = e.config /\ n.stale = e.stale
  BY DEF BrandingEdit
<1>4. edits' = [edits EXCEPT ![c] = [edits[c] EXCEPT !.at = "done"]]
  BY <1>1
<1>5. edits[c] \in BrandingEdit
  BY <1>2
<1>6. /\ edits'[c] = [edits[c] EXCEPT !.at = "done"] /\ edits' \in [Editors -> BrandingEdit]
      /\ \A d \in Editors \ {c} : edits'[d] = edits[d]
  BY <1>2, <1>3, <1>4, <1>5
<1>7. /\ edits'[c].at = "done" /\ edits'[c].after = edits[c].after /\ edits'[c].kind = edits[c].kind
      /\ edits'[c].row = edits[c].row /\ edits'[c].config = edits[c].config
      /\ edits'[c].stale = edits[c].stale
  BY <1>3, <1>5, <1>6
<1>8. EditProceeds(c)
  BY <1>1, <1>6, <1>7 DEF EditProceeds
<1>9. /\ edits[c].config \in Editors
      /\ IF kind = "save" THEN edits[c].config = c ELSE edits[edits[c].config].at = "done"
  BY <1>1 DEF BrandingInv, EditsTyped, ConfigsByDone
<1>10. c \notin DOMAIN revisions
  BY <1>1 DEF BrandingInv, RevisionsByDone
<1> QED BY <1>1, <1>7, <1>8, <1>9, <1>10

\* What a write leaves of the invariant, whatever it writes.
LEMMA BrandingWriteKeeps ==
  ASSUME BrandingInv, NEW c \in Editors, NEW kind, Branding!Writes(c, kind),
         DOMAIN revisions' \subseteq DOMAIN revisions \cup {c},
         \A r \in DOMAIN revisions' : Rewritten(c, r)
  PROVE  RevisionsByDone' /\ FoundNoDraft' /\ ReadAsDrafts' /\ Branding!OneDraft'
<1>1. \A r \in DOMAIN revisions :
        r \in Editors /\ revisions[r].publisher \in Editors /\ revisions[r].config \in Editors
  BY DEF BrandingInv, RevisionsTyped, Revision
<1>2. /\ EditProceeds(c) /\ edits[c].at = "write" /\ edits'[c].at = "done" /\ edits[c].kind = kind
      /\ edits[c].config \in Editors /\ c \notin DOMAIN revisions
      /\ IF kind = "save" THEN edits[c].config = c ELSE edits[edits[c].config].at = "done"
      /\ edits'[c].kind = edits[c].kind /\ edits'[c].after = edits[c].after
  BY WritesEnd
<1>3. \A d \in Editors : edits[d].at = "done" => edits'[d] = edits[d]
  BY <1>2, EditsOrder
<1>4. \A d \in Editors : c \notin edits[d].after /\ c \notin edits'[d].after
  BY <1>2, EditsOrder DEF EditProceeds
<1>5. edits'[edits[c].config].at = "done"
  BY <1>2, <1>3
<1>6. RevisionsByDone'
  <2> SUFFICES ASSUME NEW r \in DOMAIN revisions'
               PROVE  /\ edits'[r].at = "done" /\ edits'[revisions'[r].publisher].at = "done"
                      /\ edits'[revisions'[r].config].at = "done"
                      /\ revisions'[r].status = "DRAFT" => edits'[r].kind = "save"
    BY DEF RevisionsByDone
  <2>1. Rewritten(c, r) /\ r \in DOMAIN revisions \cup {c}
    OBVIOUS
  <2>2. edits'[revisions'[r].config].at = "done"
    BY <1>1, <1>3, <1>5, <2>1 DEF Rewritten, BrandingInv, RevisionsByDone
  <2>3. edits'[r].at = "done" /\ edits'[revisions'[r].publisher].at = "done"
    BY <1>1, <1>2, <1>3, <2>1 DEF Rewritten, BrandingInv, RevisionsByDone
  <2>4. revisions'[r].status = "DRAFT" => edits'[r].kind = "save"
    BY <1>1, <1>2, <1>3, <2>1 DEF Rewritten, BrandingInv, RevisionsByDone
  <2> QED BY <2>2, <2>3, <2>4
<1>7. \A s \in Branding!Drafts' :
        s \in Branding!Drafts \/ (s = c /\ edits[c].kind = "save" /\ edits[c].row = Branding!NoRow)
  BY DEF Rewritten, Branding!Drafts
<1>8. ASSUME NEW d \in Editors, InSave(d)' PROVE InSave(d) /\ edits'[d] = edits[d]
  BY <1>2, <1>8 DEF InSave, EditProceeds
<1>9. FoundNoDraft'
  <2> SUFFICES ASSUME NEW d \in Editors, InSave(d)', edits'[d].row = Branding!NoRow,
                      NEW s \in Branding!Drafts'
               PROVE  s \notin edits'[d].after
    BY DEF FoundNoDraft
  <2> QED BY <1>4, <1>7, <1>8 DEF BrandingInv, FoundNoDraft
<1>10. ReadAsDrafts'
  <2> SUFFICES ASSUME NEW d \in Editors
        PROVE  /\ \A r \in edits'[d].stale : edits'[r].kind = "save" /\ edits'[r].at = "done"
               /\ InSave(d)' => \A r \in DOMAIN revisions' \cap (edits'[d].stale \cup {edits'[d].row}) :
                    revisions'[r].publishedAt # 0 => revisions'[r].publisher \notin edits'[d].after
    BY DEF ReadAsDrafts, InSave
  <2>1. edits'[d].stale = edits[d].stale /\ edits[d].stale \subseteq Editors
    BY <1>2, WritesEnd DEF EditProceeds, BrandingInv, EditsTyped, BrandingEdit
  <2>2. \A r \in edits[d].stale : edits[r].kind = "save" /\ edits[r].at = "done" /\ r \in Editors
    BY <2>1 DEF BrandingInv, ReadAsDrafts
  <2>3. \A r \in edits'[d].stale : edits'[r].kind = "save" /\ edits'[r].at = "done"
    BY <1>3, <2>1, <2>2
  <2>4. ASSUME InSave(d)', NEW r \in DOMAIN revisions' \cap (edits'[d].stale \cup {edits'[d].row}),
               revisions'[r].publishedAt # 0
        PROVE  revisions'[r].publisher \notin edits'[d].after
    <3>1. InSave(d) /\ edits'[d] = edits[d]
      BY <1>8, <2>4
    <3>2. CASE revisions'[r].publisher = c
      BY <1>4, <3>2
    <3>3. CASE /\ r \in DOMAIN revisions
               /\ revisions'[r].publishedAt = revisions[r].publishedAt
               /\ revisions'[r].publisher = revisions[r].publisher
      BY <2>4, <3>1, <3>3 DEF BrandingInv, ReadAsDrafts
    <3> QED BY <3>2, <3>3 DEF Rewritten
  <2> QED BY <2>3, <2>4
<1>11. Branding!OneDraft'
  <2> SUFFICES ASSUME NEW r \in Branding!Drafts', NEW s \in Branding!Drafts', r # s
               PROVE  s \notin edits'[r].after
    BY DEF Branding!OneDraft, Branding!Overlap
  <2>1. \A x \in Branding!Drafts : x \in Editors /\ edits'[x] = edits[x]
    BY <1>1, <1>3 DEF BrandingInv, RevisionsByDone, Branding!Drafts
  <2>2. CASE s = c
    BY <1>4, <2>1, <2>2, <1>7
  <2>3. CASE r = c /\ s \in Branding!Drafts /\ edits[c].kind = "save" /\ edits[c].row = Branding!NoRow
    BY <1>2, <2>3 DEF BrandingInv, FoundNoDraft, InSave
  <2>4. CASE r \in Branding!Drafts /\ s \in Branding!Drafts
    BY <2>1, <2>4 DEF BrandingInv, Branding!OneDraft, Branding!Overlap
  <2> QED BY <1>7, <2>2, <2>3, <2>4
<1> QED BY <1>6, <1>9, <1>10, <1>11

\* After the step, neither was done when the other began.
Overlaps(c, d) == c \notin edits'[d].after /\ d \notin edits'[c].after

\* The explanation of what is live holds on, if who published it last did so still, or
\* has been discarded.
LEMMA LiveKept ==
  ASSUME BrandingInv, NEW c \in Editors, EditProceeds(c), live' = live,
         \A r \in DOMAIN revisions' :
           IF r \in DOMAIN revisions THEN revisions'[r].publishedAt = revisions[r].publishedAt
           ELSE revisions'[r].publishedAt = 0,
         \A d, p \in Editors : Branding!Discarded(d, p) => edits[p].row \notin DOMAIN revisions',
         \A p, r \in Editors : LastPublished(p, r) /\ edits[p].kind \in {"publish", "rollback"} =>
           \/ /\ r \in DOMAIN revisions' /\ revisions'[r].publisher = p
              /\ revisions'[r].config = revisions[r].config \/ Overlaps(revisions'[r].config, p)
           \/ Branding!Discarded(c, p)'
  PROVE  LiveExplained'
<1>1. CASE live = Branding!Default /\ \A r \in DOMAIN revisions : revisions[r].publishedAt = 0
  BY <1>1 DEF LiveExplained
<1>2. ASSUME NEW p \in Editors, edits[p].at = "done", edits[p].config = live, live \in Editors,
             edits[p].kind \in {"publish", "rollback"},
             (\E r \in Editors : LastPublished(p, r)) \/ (\E d \in Editors : Branding!Discarded(d, p))
      PROVE  LiveExplained'
  <2>1. edits'[p] = edits[p]
    BY <1>2, EditsOrder
  <2>2. ASSUME NEW r \in Editors, LastPublished(p, r)
        PROVE  LastPublished(p, r)' \/ Branding!Discarded(c, p)'
    <3>1. CASE Branding!Discarded(c, p)'
      BY <3>1
    <3>2. CASE /\ r \in DOMAIN revisions' /\ revisions'[r].publisher = p
               /\ revisions'[r].config = revisions[r].config \/ Overlaps(revisions'[r].config, p)
      <4>1. /\ r \in DOMAIN revisions /\ revisions[r].config \in Editors
            /\ revisions[r].publishedAt \in Nat \ {0}
            /\ revisions[r].config = live \/ Branding!Overlap(revisions[r].config, p)
            /\ \A s \in DOMAIN revisions \ {r} : revisions[s].publishedAt < revisions[r].publishedAt
            /\ r = PublishedBy(p)
        BY <2>2 DEF LastPublished, BrandingInv, RevisionsTyped, Revision
      <4>2. edits'[revisions[r].config] = edits[revisions[r].config]
        BY <4>1, EditsOrder DEF BrandingInv, RevisionsByDone
      <4>3. Branding!Overlap(revisions[r].config, p) => Overlaps(revisions[r].config, p)
        BY <2>1, <4>2 DEF Branding!Overlap, Overlaps
      <4>4. revisions'[r].config = live' \/ Overlaps(revisions'[r].config, p)
        BY <3>2, <4>1, <4>3
      <4>5. r = PublishedBy(p)'
        BY <2>1, <4>1 DEF PublishedBy
      <4>6. /\ revisions'[r].publishedAt # 0
            /\ \A s \in DOMAIN revisions' \ {r} : revisions'[s].publishedAt < revisions'[r].publishedAt
        BY <3>2, <4>1
      <4> QED BY <3>2, <4>4, <4>5, <4>6 DEF LastPublished, Overlaps, Branding!Overlap
    <3> QED BY <1>2, <2>2, <3>1, <3>2
  <2>3. ASSUME NEW d \in Editors, Branding!Discarded(d, p) PROVE Branding!Discarded(d, p)'
    BY <2>3, DiscardedKept
  <2> QED BY <1>2, <2>1, <2>2, <2>3 DEF LiveExplained
<1> QED BY <1>1, <1>2 DEF BrandingInv, LiveExplained

\* What is discarded is not a row again: its creator is done.
LEMMA DiscardedNotAgain ==
  ASSUME BrandingInv, NEW c \in Editors, edits[c].at # "done", NEW d \in Editors, NEW p \in Editors,
         Branding!Discarded(d, p), DOMAIN revisions' \subseteq DOMAIN revisions \cup {c}
  PROVE  edits[p].row \notin DOMAIN revisions'
<1>1. edits[edits[p].row].at = "done" /\ edits[p].row \notin DOMAIN revisions
  BY DEF Branding!Discarded, BrandingInv, ReadAsDrafts
<1> QED BY <1>1

\* A new row of c
LEMMA InsertTyped ==
  ASSUME BrandingInv, NEW c \in Editors, c \notin DOMAIN revisions, ~ Branding!Taken(edits[c].latest + 1),
         NEW status \in {"DRAFT", "PUBLISHED", "ROLLED_BACK"}, NEW config \in Editors,
         NEW publishedAt \in {0, written + 1}, (status = "DRAFT") = (publishedAt = 0),
         Branding!Insert(c, status, config, publishedAt)
  PROVE  /\ RevisionsTyped' /\ DOMAIN revisions' = DOMAIN revisions \cup {c}
         /\ \A r \in DOMAIN revisions : revisions'[r] = revisions[r]
         /\ revisions'[c].status = status /\ revisions'[c].config = config
         /\ revisions'[c].publishedAt = publishedAt /\ revisions'[c].publisher = c
<1> DEFINE row == [version |-> edits[c].latest + 1, status |-> status, config |-> config,
                   updatedAt |-> written + 1, publishedAt |-> publishedAt, publisher |-> c]
<1>1. edits[c].latest \in Nat /\ written \in Nat
  BY DEF BrandingInv, EditsTyped, BrandingEdit, RevisionsTyped
<1>2. /\ row \in Revision /\ row.version = edits[c].latest + 1 /\ row.status = status
      /\ row.config = config /\ row.updatedAt = written + 1 /\ row.publishedAt = publishedAt
      /\ row.publisher = c
  BY <1>1 DEF Revision
<1>3. /\ revisions' = [r \in DOMAIN revisions \cup {c} |-> IF r = c THEN row ELSE revisions[r]]
      /\ written' = written + 1
  BY DEF Branding!Insert
<1> HIDE DEF row
<1>4. /\ DOMAIN revisions \subseteq Editors /\ revisions \in [DOMAIN revisions -> Revision]
      /\ \A r \in DOMAIN revisions :
           /\ revisions[r].updatedAt <= written /\ revisions[r].publishedAt <= written
           /\ revisions[r].updatedAt \in Nat /\ revisions[r].publishedAt \in Nat
           /\ revisions[r].version \in Nat
           /\ (revisions[r].status = "DRAFT") = (revisions[r].publishedAt = 0)
      /\ \A r, s \in DOMAIN revisions : revisions[r].version = revisions[s].version => r = s
  BY DEF BrandingInv, RevisionsTyped, Revision
<1>5. PICK n \in Nat : \A r \in DOMAIN revisions : revisions[r].version <= n
  BY DEF BrandingInv, RevisionsTyped
<1>6. /\ DOMAIN revisions' = DOMAIN revisions \cup {c} /\ revisions'[c] = row
      /\ \A r \in DOMAIN revisions : revisions'[r] = revisions[r]
  BY <1>3
<1>7. \A r \in DOMAIN revisions : revisions[r].version # edits[c].latest + 1
  BY DEF Branding!Taken
<1>8. revisions' \in [DOMAIN revisions' -> Revision] /\ DOMAIN revisions' \subseteq Editors /\ written' \in Nat
  BY <1>1, <1>2, <1>3, <1>4, <1>6
<1>9. \A r \in DOMAIN revisions' :
           /\ revisions'[r].updatedAt <= written' /\ revisions'[r].publishedAt <= written'
           /\ (revisions'[r].status = "DRAFT") = (revisions'[r].publishedAt = 0)
  BY <1>1, <1>2, <1>3, <1>4, <1>6
<1>10. \A r, s \in DOMAIN revisions' : revisions'[r].version = revisions'[s].version => r = s
  BY <1>2, <1>4, <1>6, <1>7
<1>11. \E m \in Nat : \A r \in DOMAIN revisions' : revisions'[r].version <= m
  <2>1. \A r \in DOMAIN revisions' : revisions'[r].version <= n + edits[c].latest + 1
    BY <1>1, <1>2, <1>4, <1>5, <1>6
  <2>2. n + edits[c].latest + 1 \in Nat
    BY <1>1, <1>5
  <2> QED BY <2>1, <2>2
<1> QED BY <1>2, <1>6, <1>8, <1>9, <1>10, <1>11 DEF RevisionsTyped

\* A save that found no draft creates one.
LEMMA SaveCreates ==
  ASSUME BrandingInv, NEW c \in Editors, Branding!Writes(c, "save"), edits[c].row = Branding!NoRow,
         ~ Branding!Taken(edits[c].latest + 1), Branding!Insert(c, "DRAFT", c, 0), live' = live
  PROVE  BrandingInv'
<1>1. /\ EditProceeds(c) /\ edits[c].at = "write" /\ c \notin DOMAIN revisions
      /\ edits[c].kind = "save" /\ edits[c].config = c
  BY WritesEnd
<1>2. /\ RevisionsTyped' /\ DOMAIN revisions' = DOMAIN revisions \cup {c}
      /\ \A r \in DOMAIN revisions : revisions'[r] = revisions[r]
      /\ revisions'[c].status = "DRAFT" /\ revisions'[c].config = c
      /\ revisions'[c].publishedAt = 0 /\ revisions'[c].publisher = c
  BY <1>1, InsertTyped
<1>3. RevisionsByDone' /\ FoundNoDraft' /\ ReadAsDrafts' /\ Branding!OneDraft'
  <2>1. \A r \in DOMAIN revisions' : Rewritten(c, r)
    BY <1>1, <1>2 DEF Rewritten
  <2> QED BY <1>2, <2>1, BrandingWriteKeeps
<1>4. LiveExplained'
  <2>1. \A d, p \in Editors : Branding!Discarded(d, p) => edits[p].row \notin DOMAIN revisions'
    BY <1>1, <1>2, DiscardedNotAgain
  <2>2. \A p, r \in Editors : LastPublished(p, r) =>
          /\ r \in DOMAIN revisions' /\ revisions'[r].publisher = p
          /\ revisions'[r].config = revisions[r].config
    BY <1>2 DEF LastPublished
  <2>3. \A r \in DOMAIN revisions' :
           IF r \in DOMAIN revisions THEN revisions'[r].publishedAt = revisions[r].publishedAt
           ELSE revisions'[r].publishedAt = 0
    BY <1>2
  <2> QED BY <1>1, <2>1, <2>2, <2>3, LiveKept
<1> QED BY <1>1, <1>2, <1>3, <1>4, EditsOrder DEF BrandingInv

\* A save writes over the draft it has read and deletes the stale ones.
WritesOver(c, q) ==
  revisions' = [r \in DOMAIN revisions \ edits[c].stale |->
    IF r = q THEN [revisions[r] EXCEPT !.config = c, !.updatedAt = written + 1] ELSE revisions[r]]

\* A save to the draft that was read, or to what has become of it.
LEMMA SaveWritesOver ==
  ASSUME BrandingInv, NEW c \in Editors, Branding!Writes(c, "save"), NEW q \in DOMAIN revisions,
         edits[c].row = q, WritesOver(c, q), written' = written + 1, live' = live
  PROVE  BrandingInv'
<1>1. /\ EditProceeds(c) /\ edits[c].at = "write" /\ c \notin DOMAIN revisions
      /\ edits[c].kind = "save" /\ edits[c].config = c /\ InSave(c)
      /\ edits'[c].after = edits[c].after /\ edits'[c].stale = edits[c].stale
  BY WritesEnd DEF InSave
<1>2. /\ DOMAIN revisions \subseteq Editors /\ revisions \in [DOMAIN revisions -> Revision]
      /\ written \in Nat
      /\ \A r \in DOMAIN revisions :
           /\ revisions[r].updatedAt <= written /\ revisions[r].publishedAt <= written
           /\ revisions[r].updatedAt \in Nat /\ revisions[r].publishedAt \in Nat
           /\ (revisions[r].status = "DRAFT") = (revisions[r].publishedAt = 0)
      /\ \A r, s \in DOMAIN revisions : revisions[r].version = revisions[s].version => r = s
  BY DEF BrandingInv, RevisionsTyped, Revision
<1>3. ASSUME NEW row \in Revision
      PROVE  LET new == [row EXCEPT !.config = c, !.updatedAt = written + 1]
             IN  /\ new \in Revision /\ new.config = c /\ new.updatedAt = written + 1
                 /\ new.version = row.version /\ new.status = row.status
                 /\ new.publishedAt = row.publishedAt /\ new.publisher = row.publisher
  <2>1. written + 1 \in Nat
    BY <1>2
  <2> QED BY <2>1 DEF Revision
<1>4. DOMAIN revisions' = DOMAIN revisions \ edits[c].stale
  BY DEF WritesOver
<1>5. ASSUME NEW r \in DOMAIN revisions'
      PROVE  /\ r \in DOMAIN revisions /\ revisions'[r] \in Revision
             /\ revisions'[r].version = revisions[r].version /\ revisions'[r].status = revisions[r].status
             /\ revisions'[r].publishedAt = revisions[r].publishedAt
             /\ revisions'[r].publisher = revisions[r].publisher
             /\ revisions'[r].config = (IF r = q THEN c ELSE revisions[r].config)
             /\ revisions'[r].updatedAt = (IF r = q THEN written + 1 ELSE revisions[r].updatedAt)
  <2>1. r \in DOMAIN revisions /\ revisions[r] \in Revision
    BY <1>2, <1>4
  <2>2. revisions'[r] = IF r = q THEN [revisions[r] EXCEPT !.config = c, !.updatedAt = written + 1] ELSE revisions[r]
    BY <1>4 DEF WritesOver
  <2>3. CASE r = q
    BY <1>3, <2>1, <2>2, <2>3
  <2>4. CASE r # q
    BY <2>1, <2>2, <2>4
  <2> QED BY <2>3, <2>4
<1>6. RevisionsTyped'
  <2>1. revisions' \in [DOMAIN revisions' -> Revision]
    <3>1. revisions' = [r \in DOMAIN revisions' |-> revisions'[r]]
      BY DEF WritesOver
    <3> QED BY <1>5, <3>1
  <2>2. \A r \in DOMAIN revisions' :
           /\ revisions'[r].updatedAt <= written' /\ revisions'[r].publishedAt <= written'
           /\ (revisions'[r].status = "DRAFT") = (revisions'[r].publishedAt = 0)
    BY <1>2, <1>5
  <2>3. \A r, s \in DOMAIN revisions' : revisions'[r].version = revisions'[s].version => r = s
    BY <1>2, <1>5
  <2>4. \E n \in Nat : \A r \in DOMAIN revisions' : revisions'[r].version <= n
    BY <1>5 DEF BrandingInv, RevisionsTyped
  <2> QED BY <1>2, <1>4, <2>1, <2>2, <2>3, <2>4 DEF RevisionsTyped
<1>7. RevisionsByDone' /\ FoundNoDraft' /\ ReadAsDrafts' /\ Branding!OneDraft'
  <2>1. \A r \in DOMAIN revisions' : Rewritten(c, r)
    BY <1>1, <1>5 DEF Rewritten
  <2> QED BY <1>4, <2>1, BrandingWriteKeeps
<1>8. LiveExplained'
  <2>1. \A d, p \in Editors : Branding!Discarded(d, p) => edits[p].row \notin DOMAIN revisions'
    BY <1>4 DEF Branding!Discarded
  <2>2. ASSUME NEW p \in Editors, NEW r \in Editors, LastPublished(p, r),
               edits[p].kind \in {"publish", "rollback"}
        PROVE  \/ /\ r \in DOMAIN revisions' /\ revisions'[r].publisher = p
                  /\ revisions'[r].config = revisions[r].config \/ Overlaps(revisions'[r].config, p)
               \/ Branding!Discarded(c, p)'
    <3>1. r \in DOMAIN revisions /\ revisions[r].publisher = p /\ revisions[r].publishedAt # 0 /\ r = PublishedBy(p)
      BY <2>2 DEF LastPublished
    <3>2. edits[p].at = "done"
      BY <3>1 DEF BrandingInv, RevisionsByDone
    <3>3. edits'[p] = edits[p] /\ c \notin edits[p].after
      BY <1>1, <3>2, EditsOrder
    <3>4. r \in edits[c].stale \cup {q} => Branding!Overlap(c, p)' /\ Overlaps(c, p)
      BY <1>1, <3>1, <3>3 DEF BrandingInv, ReadAsDrafts, Branding!Overlap, Overlaps
    <3>5. CASE r \in edits[c].stale
      <4>1. edits[r].kind = "save"
        BY <3>5 DEF BrandingInv, ReadAsDrafts
      <4>2. edits[p].kind = "publish" /\ r = edits[p].row
        BY <2>2, <3>1, <4>1 DEF PublishedBy
      <4> QED BY <1>1, <1>4, <3>3, <3>4, <3>5, <4>2 DEF Branding!Discarded
    <3>6. CASE r \notin edits[c].stale
      <4>1. r \in DOMAIN revisions'
        BY <1>4, <3>1, <3>6
      <4> QED BY <1>5, <3>1, <3>4, <4>1
    <3> QED BY <3>5, <3>6
  <2>3. \A r \in DOMAIN revisions' :
           IF r \in DOMAIN revisions THEN revisions'[r].publishedAt = revisions[r].publishedAt
           ELSE revisions'[r].publishedAt = 0
    BY <1>5
  <2> QED BY <1>1, <2>1, <2>2, <2>3, LiveKept
<1> QED BY <1>1, <1>6, <1>7, <1>8, EditsOrder DEF BrandingInv

\* c publishes, or rolls back to, what it has read: the revision r.
LEMMA GoesLive ==
  ASSUME BrandingInv, NEW c \in Editors, NEW kind \in {"publish", "rollback"}, Branding!Writes(c, kind),
         NEW r \in DOMAIN revisions', r = PublishedBy(c),
         RevisionsTyped', DOMAIN revisions' \subseteq DOMAIN revisions \cup {c},
         \A s \in DOMAIN revisions' \ {r} : s \in DOMAIN revisions /\ revisions'[s] = revisions[s],
         revisions'[r].status # "DRAFT", revisions'[r].config = edits[c].config,
         revisions'[r].publishedAt = written + 1, revisions'[r].publisher = c,
         live' = edits[c].config
  PROVE  BrandingInv'
<1>1. /\ EditProceeds(c) /\ edits[c].at = "write" /\ edits'[c].at = "done" /\ edits[c].kind = kind
      /\ edits[c].config \in Editors
      /\ edits'[c].kind = edits[c].kind /\ edits'[c].row = edits[c].row /\ edits'[c].config = edits[c].config
  BY WritesEnd
<1>2. RevisionsByDone' /\ FoundNoDraft' /\ ReadAsDrafts' /\ Branding!OneDraft'
  <2>1. \A s \in DOMAIN revisions' : Rewritten(c, s)
    BY DEF Rewritten
  <2> QED BY <2>1, BrandingWriteKeeps
<1>3. LastPublished(c, r)'
  <2>1. \A s \in DOMAIN revisions : revisions[s].publishedAt \in Nat /\ revisions[s].publishedAt <= written
    BY DEF BrandingInv, RevisionsTyped, Revision
  <2>2. written \in Nat
    BY DEF BrandingInv, RevisionsTyped
  <2>3. \A s \in DOMAIN revisions' \ {r} : revisions'[s].publishedAt < revisions'[r].publishedAt
    BY <2>1, <2>2
  <2>4. r = PublishedBy(c)'
    BY <1>1 DEF PublishedBy
  <2> QED BY <2>2, <2>3, <2>4 DEF LastPublished
<1>4. LiveExplained'
  <2>1. r \in Editors
    BY DEF RevisionsTyped
  <2> QED BY <1>1, <1>3, <2>1 DEF LiveExplained
<1> QED BY <1>1, <1>2, <1>4, EditsOrder DEF BrandingInv

MadePublic(row, config, now, c) ==
  [row EXCEPT !.status = "PUBLISHED", !.config = config, !.updatedAt = now, !.publishedAt = now, !.publisher = c]

\* What publishing makes of a revision.
LEMMA MadePublicTyped ==
  ASSUME NEW row \in Revision, NEW config \in Editors, NEW now \in Nat, NEW c \in Editors
  PROVE  /\ MadePublic(row, config, now, c) \in Revision
         /\ MadePublic(row, config, now, c).status = "PUBLISHED"
         /\ MadePublic(row, config, now, c).config = config
         /\ MadePublic(row, config, now, c).updatedAt = now
         /\ MadePublic(row, config, now, c).publishedAt = now
         /\ MadePublic(row, config, now, c).publisher = c
         /\ MadePublic(row, config, now, c).version = row.version
  BY DEF Revision, MadePublic

\* The draft that was read goes live, later than what was live.
LEMMA PublishDraftKeeps ==
  ASSUME BrandingInv, NEW c \in Editors, Branding!PublishDraft(c), edits[c].row \in DOMAIN revisions
  PROVE  BrandingInv'
<1> DEFINE q == edits[c].row
           row == MadePublic(revisions[q], edits[c].config, written + 1, c)
<1>1. /\ Branding!Writes(c, "publish") /\ live' = edits[c].config /\ written' = written + 1
      /\ revisions' = [revisions EXCEPT ![q] = row]
  BY DEF Branding!PublishDraft, MadePublic
<1>2. edits[c].config \in Editors /\ edits[c].kind = "publish"
  BY <1>1, WritesEnd
<1>3. /\ DOMAIN revisions \subseteq Editors /\ revisions \in [DOMAIN revisions -> Revision]
      /\ written \in Nat
      /\ \A r \in DOMAIN revisions :
           /\ revisions[r].updatedAt <= written /\ revisions[r].publishedAt <= written
           /\ revisions[r].updatedAt \in Nat /\ revisions[r].publishedAt \in Nat
           /\ (revisions[r].status = "DRAFT") = (revisions[r].publishedAt = 0)
      /\ \A r, s \in DOMAIN revisions : revisions[r].version = revisions[s].version => r = s
  BY DEF BrandingInv, RevisionsTyped, Revision
<1>4. /\ row \in Revision /\ row.status = "PUBLISHED" /\ row.config = edits[c].config
      /\ row.updatedAt = written + 1 /\ row.publishedAt = written + 1 /\ row.publisher = c
      /\ row.version = revisions[q].version
  <2>1. written + 1 \in Nat /\ revisions[q] \in Revision
    BY <1>3
  <2> DEFINE old == revisions[q]
             config == edits[c].config
             now == written + 1
  <2>2. row = MadePublic(old, config, now, c) /\ old \in Revision /\ config \in Editors /\ now \in Nat
    BY <1>2, <2>1
  <2>3. old = revisions[q] /\ config = edits[c].config /\ now = written + 1
    OBVIOUS
  <2> HIDE DEF old, config, now, row
  <2>4. row \in Revision /\ row.status = "PUBLISHED" /\ row.config = config
    BY <2>2, MadePublicTyped
  <2>5. row.updatedAt = now /\ row.publishedAt = now
    BY <2>2, MadePublicTyped
  <2>6. row.publisher = c /\ row.version = old.version
    BY <2>2, MadePublicTyped
  <2> QED BY <2>3, <2>4, <2>5, <2>6
<1>5. q \in DOMAIN revisions
  OBVIOUS
<1> HIDE DEF row, q
<1>6. /\ DOMAIN revisions' = DOMAIN revisions /\ revisions'[q] = row
      /\ \A s \in DOMAIN revisions \ {q} : revisions'[s] = revisions[s]
      /\ revisions' \in [DOMAIN revisions -> Revision]
  BY <1>1, <1>3, <1>4, <1>5
<1>7. RevisionsTyped'
  <2>1. \A r \in DOMAIN revisions :
           /\ revisions'[r].updatedAt <= written' /\ revisions'[r].publishedAt <= written'
           /\ (revisions'[r].status = "DRAFT") = (revisions'[r].publishedAt = 0)
    BY <1>1, <1>3, <1>4, <1>6
  <2>2. \A r \in DOMAIN revisions : revisions'[r].version = revisions[r].version
    BY <1>4, <1>6
  <2>3. \E n \in Nat : \A r \in DOMAIN revisions' : revisions'[r].version <= n
    BY <1>6, <2>2 DEF BrandingInv, RevisionsTyped
  <2>4. \A r, s \in DOMAIN revisions' : revisions'[r].version = revisions'[s].version => r = s
    BY <1>3, <1>6, <2>2
  <2> QED BY <1>1, <1>3, <1>6, <2>1, <2>3, <2>4 DEF RevisionsTyped
<1>8. q = PublishedBy(c)
  BY <1>2 DEF PublishedBy, q
<1> QED BY <1>1, <1>4, <1>5, <1>6, <1>7, <1>8, GoesLive

\* A rollback goes live as a version of its own.
LEMMA RollbackKeeps ==
  ASSUME BrandingInv, NEW c \in Editors, Branding!Rollback(c), ~ Branding!Taken(edits[c].latest + 1)
  PROVE  BrandingInv'
<1>1. /\ Branding!Writes(c, "rollback") /\ live' = edits[c].config
      /\ Branding!Insert(c, "ROLLED_BACK", edits[c].config, written + 1)
  BY DEF Branding!Rollback
<1>2. edits[c].config \in Editors /\ edits[c].kind = "rollback" /\ c \notin DOMAIN revisions
  BY <1>1, WritesEnd
<1>3. written + 1 # 0
  BY DEF BrandingInv, RevisionsTyped
<1>4. /\ RevisionsTyped' /\ DOMAIN revisions' = DOMAIN revisions \cup {c}
      /\ \A r \in DOMAIN revisions : revisions'[r] = revisions[r]
      /\ revisions'[c].status = "ROLLED_BACK" /\ revisions'[c].config = edits[c].config
      /\ revisions'[c].publishedAt = written + 1 /\ revisions'[c].publisher = c
  BY <1>1, <1>2, <1>3, InsertTyped
<1>5. c = PublishedBy(c)
  BY <1>2 DEF PublishedBy
<1> QED BY <1>1, <1>4, <1>5, GoesLive

\* Every step of the branding preserves its invariant.
LEMMA BrandingStep ==
  ASSUME BrandingInv, [Branding!Next]_(Branding!vars) PROVE BrandingInv'
<1>1. CASE UNCHANGED Branding!vars
  BY <1>1 DEF Branding!vars, BrandingInv, RevisionsTyped, EditsTyped, BrandingAfterDone, ConfigsByDone,
     RevisionsByDone, FoundNoDraft, ReadAsDrafts, InSave, LiveExplained, LastPublished, PublishedBy,
     Branding!Discarded, Branding!Overlap, Branding!OneDraft, Branding!Drafts
<1>2. ASSUME NEW c \in Editors, Branding!ReadDrafts(c) PROVE BrandingInv'
  <2>1. Branding!Begin(c, "save", "latest", Branding!NewestDraft, c)
    BY <1>2 DEF Branding!ReadDrafts
  <2>2. Branding!NewestDraft \in Editors \cup {Branding!NoRow}
    BY NewestDraftIsOne
  <2> QED BY <2>1, <2>2, BrandingBegins
<1>3. ASSUME NEW c \in Editors, Branding!ReadDraft(c) PROVE BrandingInv'
  <2>1. CASE Branding!NewestDraft = Branding!NoRow
    <3>1. Branding!Begin(c, "publish", "done", Branding!NoRow, Branding!Default)
      BY <1>3, <2>1 DEF Branding!ReadDraft
    <3> QED BY <3>1, BrandingBegins
  <2>2. CASE Branding!NewestDraft # Branding!NoRow
    <3> DEFINE q == Branding!NewestDraft
    <3>1. Branding!Begin(c, "publish", "write", q, revisions[q].config)
      BY <1>3, <2>2 DEF Branding!ReadDraft
    <3>2. q \in Branding!Drafts /\ q \in Editors
      BY <2>2, NewestDraftIsOne
    <3> HIDE DEF q
    <3>3. q \in DOMAIN revisions
      BY <3>2 DEF Branding!Drafts
    <3>4. revisions[q].config \in Editors /\ edits[revisions[q].config].at = "done"
      BY <3>3 DEF BrandingInv, RevisionsTyped, Revision, RevisionsByDone
    <3> QED BY <3>1, <3>2, <3>4, BrandingBegins
  <2> QED BY <2>1, <2>2
<1>4. ASSUME NEW c \in Editors, Branding!ReadTarget(c) PROVE BrandingInv'
  <2>1. PICK q \in DOMAIN revisions : Branding!Begin(c, "rollback", "latest", q, revisions[q].config)
    BY <1>4 DEF Branding!ReadTarget, Branding!Published
  <2>2. q \in Editors /\ revisions[q].config \in Editors /\ edits[revisions[q].config].at = "done"
    BY DEF BrandingInv, RevisionsTyped, Revision, RevisionsByDone
  <2> QED BY <2>1, <2>2, BrandingBegins
<1>5. ASSUME NEW c \in Editors, Branding!ReadLatest(c) PROVE BrandingInv'
  <2>1. /\ edits[c].at = "latest" /\ live' = live /\ revisions' = revisions /\ written' = written
        /\ edits' = [edits EXCEPT ![c] = [edits[c] EXCEPT !.latest = Branding!LatestVersion, !.at = "write"]]
    BY <1>5 DEF Branding!ReadLatest
  <2>2. ASSUME NEW e \in BrandingEdit, NEW n \in Nat
        PROVE  LET new == [e EXCEPT !.latest = n, !.at = "write"]
               IN  /\ new \in BrandingEdit /\ new.at = "write" /\ new.after = e.after /\ new.kind = e.kind
                   /\ new.row = e.row /\ new.config = e.config /\ new.stale = e.stale
    BY DEF BrandingEdit
  <2>3. edits \in [Editors -> BrandingEdit] /\ edits[c] \in BrandingEdit /\ Branding!LatestVersion \in Nat
    BY LatestVersionIsNat DEF BrandingInv, EditsTyped
  <2> DEFINE new == [edits[c] EXCEPT !.latest = Branding!LatestVersion, !.at = "write"]
  <2>4. /\ new \in BrandingEdit /\ new.at = "write" /\ new.after = edits[c].after /\ new.kind = edits[c].kind
        /\ new.row = edits[c].row /\ new.config = edits[c].config /\ new.stale = edits[c].stale
    BY <2>2, <2>3
  <2>5. edits' = [edits EXCEPT ![c] = new]
    BY <2>1
  <2> HIDE DEF new
  <2>6. /\ edits' \in [Editors -> BrandingEdit] /\ edits'[c] = new
        /\ \A d \in Editors \ {c} : edits'[d] = edits[d]
    BY <2>3, <2>4, <2>5
  <2>7. edits[c].config \in Editors /\ IF edits[c].kind = "save" THEN edits[c].config = c ELSE edits[edits[c].config].at = "done"
    BY <2>1 DEF BrandingInv, EditsTyped, ConfigsByDone
  <2>8. EditProceeds(c)
    BY <2>1, <2>4, <2>6, <2>7 DEF EditProceeds
  <2> QED BY <2>1, <2>8, BrandingReadPreserves
<1>6. ASSUME NEW c \in Editors, NEW kind, Branding!Writes(c, kind), UNCHANGED <<live, revisions, written>>
      PROVE  BrandingInv'
  BY <1>6, WritesEnd, BrandingReadPreserves
<1>7. ASSUME NEW c \in Editors, Branding!SaveDraft(c) PROVE BrandingInv'
  <2>1. Branding!Writes(c, "save") /\ live' = live
    BY <1>7 DEF Branding!SaveDraft
  <2>2. Branding!NoRow \notin DOMAIN revisions
    BY RecordsAssumption DEF Branding!BrandingAssumption, BrandingInv, RevisionsTyped
  <2>3. CASE edits[c].row = Branding!NoRow /\ ~ Branding!Taken(edits[c].latest + 1)
    <3>1. Branding!Insert(c, "DRAFT", c, 0)
      BY <1>7, <2>2, <2>3 DEF Branding!SaveDraft
    <3> QED BY <2>1, <2>3, <3>1, SaveCreates
  <2>4. CASE edits[c].row \in DOMAIN revisions
    <3> DEFINE q == edits[c].row
    <3>1. WritesOver(c, q) /\ written' = written + 1
      BY <1>7, <2>2, <2>4 DEF Branding!SaveDraft, WritesOver
    <3> HIDE DEF q
    <3>2. q \in DOMAIN revisions /\ edits[c].row = q
      BY <2>4 DEF q
    <3> QED BY <2>1, <3>1, <3>2, SaveWritesOver
  <2>5. CASE /\ ~ (edits[c].row = Branding!NoRow /\ ~ Branding!Taken(edits[c].latest + 1))
             /\ edits[c].row \notin DOMAIN revisions
    <3>1. UNCHANGED <<revisions, written>>
      BY <1>7, <2>5 DEF Branding!SaveDraft
    <3> QED BY <1>6, <2>1, <3>1
  <2> QED BY <2>3, <2>4, <2>5
<1>8. ASSUME NEW c \in Editors, Branding!PublishDraft(c) PROVE BrandingInv'
  <2>1. CASE edits[c].row \in DOMAIN revisions
    BY <1>8, <2>1, PublishDraftKeeps
  <2>2. CASE edits[c].row \notin DOMAIN revisions
    BY <1>6, <1>8, <2>2 DEF Branding!PublishDraft
  <2> QED BY <2>1, <2>2
<1>9. ASSUME NEW c \in Editors, Branding!Rollback(c) PROVE BrandingInv'
  <2>1. CASE ~ Branding!Taken(edits[c].latest + 1)
    BY <1>9, <2>1, RollbackKeeps
  <2>2. CASE Branding!Taken(edits[c].latest + 1)
    BY <1>6, <1>9, <2>2 DEF Branding!Rollback
  <2> QED BY <2>1, <2>2
<1> QED BY <1>1, <1>2, <1>3, <1>4, <1>5, <1>7, <1>8, <1>9 DEF Branding!Next

\* What the invariant of the branding says of it.
LEMMA BrandingProperties ==
  BrandingInv => Branding!TypeOK /\ Branding!OneDraft /\ Branding!LiveIsLastPublished
<1> SUFFICES ASSUME BrandingInv PROVE Branding!TypeOK /\ Branding!OneDraft /\ Branding!LiveIsLastPublished
  OBVIOUS
<1>1. /\ DOMAIN revisions \subseteq Editors /\ written \in Nat
      /\ \A r \in DOMAIN revisions : /\ revisions[r] \in Revision
           /\ revisions[r].publishedAt <= written /\ (revisions[r].status = "DRAFT") = (revisions[r].publishedAt = 0)
      /\ \A r, s \in DOMAIN revisions : revisions[r].version = revisions[s].version => r = s
  BY DEF BrandingInv, RevisionsTyped
<1>2. Branding!TypeOK
  <2>1. live \in Editors \cup {Branding!Default}
    BY DEF BrandingInv, LiveExplained
  <2>2. \A c \in Editors : edits[c].at \in {"idle", "latest", "write", "done"}
    BY DEF BrandingInv, EditsTyped, BrandingEdit
  <2>3. \A r \in DOMAIN revisions :
       /\ revisions[r].version \in Nat \ {0}
       /\ revisions[r].status \in {"DRAFT", "PUBLISHED", "ROLLED_BACK"}
       /\ revisions[r].config \in Editors
       /\ revisions[r].publishedAt \in 0..written
       /\ (revisions[r].status = "DRAFT") = (revisions[r].publishedAt = 0)
    BY <1>1 DEF Revision
  <2> QED BY <1>1, <2>1, <2>2, <2>3 DEF Branding!TypeOK
<1>3. Branding!LiveIsLastPublished
  <2> SUFFICES ASSUME NEW r \in Branding!Published,
                      \A s \in Branding!Published : revisions[s].publishedAt <= revisions[r].publishedAt
               PROVE  \/ live = revisions[r].config
                      \/ Branding!Overlap(revisions[r].config, revisions[r].publisher)
                      \/ \E c, p \in Editors : Branding!Discarded(c, p) /\ edits[p].config = live
    BY DEF Branding!LiveIsLastPublished
  <2>1. r \in DOMAIN revisions /\ revisions[r].publishedAt # 0
    BY <1>1 DEF Branding!Published, Branding!Drafts
  <2>2. ASSUME NEW p \in Editors, NEW q \in Editors, LastPublished(p, q)
        PROVE  live = revisions[r].config \/ Branding!Overlap(revisions[r].config, revisions[r].publisher)
    <3>1. q \in Branding!Published
      BY <1>1, <2>2 DEF LastPublished, Branding!Published, Branding!Drafts
    <3>2. revisions[r].publishedAt \in Nat /\ revisions[q].publishedAt \in Nat
      BY <1>1, <2>1, <2>2 DEF Revision, LastPublished
    <3>3. q = r
      BY <2>1, <2>2, <3>1, <3>2 DEF LastPublished
    <3> QED BY <2>2, <3>3 DEF LastPublished
  <2> QED BY <2>1, <2>2 DEF BrandingInv, LiveExplained
<1> QED BY <1>2, <1>3 DEF BrandingInv

----------------------------------------------------------------------------
(* The members of a team, their invitations and their assignments          *)

TeamAts == {"idle", "revoke", "create", "accept", "seeds", "activate", "replace", "done", "dead"}

TeamCall == [at : TeamAts, invitation : Calls \cup {Team!NoOne}, user : Team!UserStatuses \cup {Team!NoOne},
             seen : SUBSET Team!Assignments, after : SUBSET Calls]

InvitationRow == [status : {"PENDING", "ACCEPTED", "ACTIVATED", "REVOKED"}, expired : BOOLEAN,
                  seeds : SUBSET Stations, by : Calls]

MemberRow == [status : Team!MembershipStatuses \cup {Team!NoOne}, by : Calls \cup {Team!NoOne}]

TeamTyped ==
  /\ user \in Team!UserStatuses \cup {Team!NoOne}
  /\ member \in MemberRow
  /\ user = Team!NoOne => member.status = Team!NoOne /\ DOMAIN invitations = {}
  /\ DOMAIN invitations \subseteq Calls
  /\ invitations \in [DOMAIN invitations -> InvitationRow]
  /\ assigned \subseteq Team!Assignments
  /\ attendant \subseteq Stations
  /\ unsynced \in BOOLEAN
  /\ teamCalls \in [Calls -> TeamCall]

TeamAfterOver == \A c \in Calls : \A d \in teamCalls[c].after : Team!Over(d)

\* Who sent an invitation, wrote it open or assigned is over, and a pending one is as it was sent.
TeamByOver ==
  /\ \A i \in DOMAIN invitations :
       /\ Team!Over(i)
       /\ Team!IsOpen(i) => Team!Over(invitations[i].by)
       /\ invitations[i].status = "PENDING" => invitations[i].by = i
  /\ \A a \in assigned : Team!Over(a.by)

Accepting(e, i) == teamCalls[e].at = "accept" /\ teamCalls[e].invitation = i

\* Who has opened the invitation i, or is about to
Opens(x, i) == (Team!IsOpen(i) /\ x = invitations[i].by) \/ (x \in Calls /\ Accepting(x, i))

\* Two invitations can be open at once only if they, or one and who opens the other, overlapped.
OpenedApart ==
  \A i, j \in DOMAIN invitations : \A x, y \in Calls :
    i # j /\ Opens(x, i) /\ Opens(y, j) => Team!Overlap(i, j) \/ Team!Overlap(i, y) \/ Team!Overlap(j, x)

\* What a call has read still holds, or was changed since it began.
TeamRead(c) ==
  LET call == teamCalls[c]
  IN  /\ call.at \in {"accept", "seeds", "activate"} => call.invitation \in DOMAIN invitations
      /\ call.at = "create" =>
           \A j \in DOMAIN invitations :
             Team!IsOpen(j) => j \notin call.after \/ invitations[j].by \notin call.after
      /\ call.at \in {"activate", "replace"} =>
           \A a \in assigned \ call.seen :
             \/ a.by \notin call.after
             \/ call.at = "activate" /\ a.station \notin invitations[call.invitation].seeds

TeamInv ==
  /\ TeamTyped /\ TeamAfterOver /\ TeamByOver /\ OpenedApart
  /\ \A c \in Calls : TeamRead(c)
  /\ Team!OneAssignment /\ Team!InvitedCanJoin /\ Team!AttendantFollows

\* There is no member and nobody has begun.
LEMMA TeamInit == Team!Init => TeamInv
<1> SUFFICES ASSUME Team!Init PROVE TeamInv
  OBVIOUS
<1>1. /\ teamCalls = [c \in Calls |-> Team!NoCall] /\ invitations = << >> /\ assigned = {} /\ attendant = {}
      /\ unsynced = FALSE
  BY DEF Team!Init
<1>2. Team!NoCall \in TeamCall /\ Team!NoCall.at = "idle" /\ Team!NoCall.after = {}
  BY DEF Team!NoCall, TeamCall, TeamAts
<1>3. /\ user \in Team!UserStatuses \cup {Team!NoOne} /\ member \in MemberRow /\ member.status # "INVITED"
      /\ user = Team!NoOne => member.status = Team!NoOne
  BY DEF Team!Init, MemberRow, Team!UserStatuses, Team!MembershipStatuses, Team!NoOne
<1>4. TeamTyped /\ TeamAfterOver
  <2>1. DOMAIN invitations = {} /\ invitations \in [DOMAIN invitations -> InvitationRow]
    BY <1>1
  <2>2. teamCalls \in [Calls -> TeamCall]
    BY <1>1, <1>2
  <2> QED BY <1>1, <1>2, <1>3, <2>1, <2>2 DEF TeamTyped, TeamAfterOver
<1>5. TeamByOver /\ OpenedApart /\ \A c \in Calls : TeamRead(c)
  BY <1>1, <1>2 DEF TeamByOver, OpenedApart, TeamRead
<1>6. Team!OneAssignment /\ Team!InvitedCanJoin /\ Team!AttendantFollows
  BY <1>1, <1>3 DEF Team!OneAssignment, Team!InvitedCanJoin, Team!Usable, Team!AttendantFollows, Team!AttendantStations
<1> QED BY <1>4, <1>5, <1>6 DEF TeamInv

\* The call c begins, or goes on with what it began with.
TeamProceeds(c) ==
  /\ teamCalls' \in [Calls -> TeamCall] /\ \A d \in Calls \ {c} : teamCalls'[d] = teamCalls[d]
  /\ ~ Team!Over(c) /\ teamCalls'[c].at # "idle"
  /\ \/ teamCalls[c].at = "idle" /\ teamCalls'[c].after = {d \in Calls : Team!Over(d)}
     \/ teamCalls[c].at # "idle" /\ teamCalls'[c].after = teamCalls[c].after

OverNow(x) == teamCalls'[x].at \in {"done", "dead"}
ApartNow(x, y) == x \notin teamCalls'[y].after /\ y \notin teamCalls'[x].after

\* A call that goes on leaves what was over over, and in its order.
LEMMA TeamOrder ==
  ASSUME TeamInv, NEW c \in Calls, TeamProceeds(c)
  PROVE  /\ TeamAfterOver'
         /\ \A d \in Calls : c \notin teamCalls[d].after /\ c \notin teamCalls'[d].after
         /\ \A d \in Calls : Team!Over(d) => d # c /\ OverNow(d) /\ teamCalls'[d] = teamCalls[d]
         /\ \A d \in Calls : teamCalls[d].at # "idle" => teamCalls'[d].after = teamCalls[d].after
         /\ \A x, y \in Calls :
              teamCalls[x].at # "idle" /\ teamCalls[y].at # "idle" /\ Team!Overlap(x, y) => ApartNow(x, y)
<1>1. \A d \in Calls : c \notin teamCalls[d].after /\ c \notin teamCalls'[d].after
  BY DEF TeamInv, TeamAfterOver, TeamProceeds
<1>2. \A d \in Calls : Team!Over(d) => d # c /\ OverNow(d) /\ teamCalls'[d] = teamCalls[d]
  BY DEF TeamProceeds, Team!Over, OverNow
<1>3. TeamAfterOver'
  BY <1>2 DEF TeamInv, TeamAfterOver, TeamProceeds, TeamTyped, TeamCall, OverNow, Team!Over
<1>4. \A d \in Calls : teamCalls[d].at # "idle" => teamCalls'[d].after = teamCalls[d].after
  BY DEF TeamProceeds
<1>5. \A x, y \in Calls :
        teamCalls[x].at # "idle" /\ teamCalls[y].at # "idle" /\ Team!Overlap(x, y) => ApartNow(x, y)
  BY <1>4 DEF Team!Overlap, ApartNow
<1> QED BY <1>1, <1>2, <1>3, <1>4, <1>5

\* What a call is when it begins.
LEMMA TeamBegun ==
  ASSUME TeamInv, NEW c \in Calls, NEW at \in TeamAts, at # "idle",
         NEW invitation \in Calls \cup {Team!NoOne}, NEW seen \in SUBSET Team!Assignments,
         Team!Begin(c, at, invitation, seen)
  PROVE  /\ TeamProceeds(c) /\ teamCalls'[c].at = at /\ teamCalls'[c].invitation = invitation
         /\ teamCalls'[c].seen = seen /\ teamCalls'[c].after = {d \in Calls : Team!Over(d)}
         /\ teamCalls[c].at = "idle"
<1> DEFINE call == [at |-> at, invitation |-> invitation, user |-> user, seen |-> seen,
                    after |-> {d \in Calls : Team!Over(d)}]
<1>1. teamCalls[c].at = "idle" /\ teamCalls' = [teamCalls EXCEPT ![c] = call]
  BY DEF Team!Begin
<1>2. teamCalls \in [Calls -> TeamCall] /\ user \in Team!UserStatuses \cup {Team!NoOne}
  BY DEF TeamInv, TeamTyped
<1>3. /\ call \in TeamCall /\ call.at = at /\ call.invitation = invitation /\ call.seen = seen
      /\ call.after = {d \in Calls : Team!Over(d)}
  BY <1>2 DEF TeamCall
<1> HIDE DEF call
<1>4. teamCalls' \in [Calls -> TeamCall] /\ teamCalls'[c] = call /\ \A d \in Calls \ {c} : teamCalls'[d] = teamCalls[d]
  BY <1>1, <1>2, <1>3
<1> QED BY <1>1, <1>3, <1>4 DEF TeamProceeds, Team!Over

\* What changes when a call goes on: where it is.
LEMMA TeamGoesOn ==
  ASSUME TeamInv, NEW c \in Calls, NEW at \in TeamAts, at # "idle", teamCalls[c].at # "idle", ~ Team!Over(c),
         Team!Goto(c, at)
  PROVE  /\ TeamProceeds(c) /\ teamCalls'[c].at = at /\ teamCalls'[c].invitation = teamCalls[c].invitation
         /\ teamCalls'[c].seen = teamCalls[c].seen /\ teamCalls'[c].after = teamCalls[c].after
<1> DEFINE call == [teamCalls[c] EXCEPT !.at = at]
<1>1. teamCalls' = [teamCalls EXCEPT ![c] = call]
  BY DEF Team!Goto
<1>2. teamCalls \in [Calls -> TeamCall]
  BY DEF TeamInv, TeamTyped
<1>3. /\ call \in TeamCall /\ call.at = at /\ call.invitation = teamCalls[c].invitation
      /\ call.seen = teamCalls[c].seen /\ call.after = teamCalls[c].after
  BY <1>2 DEF TeamCall
<1> HIDE DEF call
<1>4. teamCalls' \in [Calls -> TeamCall] /\ teamCalls'[c] = call /\ \A d \in Calls \ {c} : teamCalls'[d] = teamCalls[d]
  BY <1>1, <1>2, <1>3
<1> QED BY <1>3, <1>4 DEF TeamProceeds

OpenNow(i) == invitations'[i].status \in {"PENDING", "ACCEPTED"}
OpensNow(x, i) ==
  \/ OpenNow(i) /\ x = invitations'[i].by
  \/ x \in Calls /\ teamCalls'[x].at = "accept" /\ teamCalls'[x].invitation = i

\* Who opens an invitation has begun, and is over or is accepting.
LEMMA TeamOpeners ==
  ASSUME TeamInv, NEW i \in DOMAIN invitations, NEW x \in Calls, Opens(x, i)
  PROVE  /\ i \in Calls /\ teamCalls[i].at # "idle" /\ teamCalls[x].at # "idle" /\ Team!Over(i)
         /\ Team!Over(x) \/ Accepting(x, i)
  BY DEF TeamInv, TeamByOver, TeamTyped, Opens, Accepting, Team!Over

\* What the others have read still holds, when c has opened, sent and assigned only what is its own.
LEMMA TeamOthers ==
  ASSUME TeamInv, NEW c \in Calls, TeamProceeds(c),
         DOMAIN invitations \subseteq DOMAIN invitations', DOMAIN invitations' \subseteq DOMAIN invitations \cup {c},
         c \in DOMAIN invitations' \ DOMAIN invitations => OverNow(c) /\ invitations'[c].by = c,
         \A i \in DOMAIN invitations :
           /\ invitations'[i].seeds = invitations[i].seeds
           /\ OpenNow(i) => \/ Team!IsOpen(i) /\ invitations'[i] = invitations[i]
                            \/ invitations'[i].by = c /\ invitations'[i].status = "ACCEPTED" /\ OverNow(c),
         \A a \in assigned' : a \in assigned \/ (a.by = c /\ OverNow(c))
  PROVE  TeamByOver' /\ \A d \in Calls \ {c} : TeamRead(d)'
<1>1. TeamByOver'
  <2>1. ASSUME NEW i \in DOMAIN invitations'
        PROVE  /\ OverNow(i) /\ (OpenNow(i) => OverNow(invitations'[i].by))
               /\ invitations'[i].status = "PENDING" => invitations'[i].by = i
    <3>1. CASE i \in DOMAIN invitations
      <4>1. i \in Calls /\ Team!Over(i) /\ (Team!IsOpen(i) => Team!Over(invitations[i].by))
            /\ invitations[i].by \in Calls /\ (invitations[i].status = "PENDING" => invitations[i].by = i)
        BY <3>1 DEF TeamInv, TeamTyped, TeamByOver, InvitationRow
      <4> QED BY <3>1, <4>1, TeamOrder DEF OpenNow
    <3>2. CASE i \notin DOMAIN invitations
      BY <2>1, <3>2
    <3> QED BY <3>1, <3>2
  <2>2. \A a \in assigned' : OverNow(a.by)
    <3>1. \A a \in assigned : a.by \in Calls /\ Team!Over(a.by)
      BY DEF TeamInv, TeamTyped, Team!Assignments, TeamByOver
    <3> QED BY <3>1, TeamOrder
  <2> QED BY <2>1, <2>2 DEF TeamByOver, Team!Over, OverNow, Team!IsOpen, OpenNow
<1>2. ASSUME NEW d \in Calls \ {c} PROVE TeamRead(d)'
  <2>1. teamCalls'[d] = teamCalls[d] /\ c \notin teamCalls[d].after /\ TeamRead(d)
    BY TeamOrder DEF TeamProceeds, TeamInv
  <2>2. teamCalls[d].at = "create" =>
          \A j \in DOMAIN invitations' :
            OpenNow(j) => j \notin teamCalls[d].after \/ invitations'[j].by \notin teamCalls[d].after
    BY <2>1 DEF TeamRead
  <2>3. teamCalls[d].at \in {"activate", "replace"} =>
          \A a \in assigned' \ teamCalls[d].seen :
            \/ a.by \notin teamCalls[d].after
            \/ /\ teamCalls[d].at = "activate"
               /\ a.station \notin invitations'[teamCalls[d].invitation].seeds
    BY <2>1 DEF TeamRead
  <2>4. teamCalls[d].at \in {"accept", "seeds", "activate"} => teamCalls[d].invitation \in DOMAIN invitations'
    BY <2>1 DEF TeamRead
  <2> QED BY <2>1, <2>2, <2>3, <2>4 DEF TeamRead, Team!IsOpen, OpenNow
<1> QED BY <1>1, <1>2

\* Nothing is opened by another.
LEMMA TeamApart ==
  ASSUME TeamInv, NEW c \in Calls, TeamProceeds(c), DOMAIN invitations' = DOMAIN invitations,
         \A i \in DOMAIN invitations : \A x \in Calls : OpensNow(x, i) => Opens(x, i)
  PROVE  OpenedApart'
<1> SUFFICES ASSUME NEW i \in DOMAIN invitations, NEW j \in DOMAIN invitations, NEW x \in Calls, NEW y \in Calls,
                    i # j, Opens(x, i), Opens(y, j)
             PROVE  ApartNow(i, j) \/ ApartNow(i, y) \/ ApartNow(j, x)
  BY DEF OpenedApart, Opens, OpensNow, Accepting, Team!IsOpen, OpenNow, Team!Overlap, ApartNow
<1>1. Team!Overlap(i, j) \/ Team!Overlap(i, y) \/ Team!Overlap(j, x)
  BY DEF TeamInv, OpenedApart
<1> QED BY <1>1, TeamOpeners, TeamOrder

\* Taking assignments away makes no second one.
LEMMA TeamAssignmentsKept ==
  ASSUME TeamInv, NEW c \in Calls, TeamProceeds(c), assigned' \subseteq assigned
  PROVE  Team!OneAssignment'
<1> SUFFICES ASSUME NEW a \in assigned, NEW b \in assigned, a.station = b.station, a # b
             PROVE  a.by # b.by /\ ApartNow(a.by, b.by)
  BY DEF Team!OneAssignment, Team!Overlap, ApartNow
<1>1. a.by # b.by /\ Team!Overlap(a.by, b.by)
  BY DEF TeamInv, Team!OneAssignment
<1>2. a.by \in Calls /\ b.by \in Calls /\ teamCalls[a.by].at # "idle" /\ teamCalls[b.by].at # "idle"
  BY DEF TeamInv, TeamTyped, Team!Assignments, TeamByOver, Team!Over
<1> QED BY <1>1, <1>2, TeamOrder

\* A step that writes neither member nor invitations leaves the door open.
LEMMA TeamJoinKept ==
  ASSUME TeamInv, NEW c \in Calls, TeamProceeds(c), member' = member, invitations' = invitations,
         teamCalls[c].at = "create" => teamCalls'[c].at = "dead"
  PROVE  Team!InvitedCanJoin'
<1> SUFFICES ASSUME member.status = "INVITED", member.by \in DOMAIN invitations, ~ Team!IsOpen(member.by)
             PROVE  teamCalls'[invitations[member.by].by].at \in {"create", "dead"}
  BY DEF Team!InvitedCanJoin, Team!Usable, Team!IsOpen
<1>1. teamCalls[invitations[member.by].by].at \in {"create", "dead"} /\ invitations[member.by].by \in Calls
  BY DEF TeamInv, Team!InvitedCanJoin, Team!Usable, TeamTyped, InvitationRow
<1> QED BY <1>1 DEF TeamProceeds, Team!Over

\* c has read, and written nothing.
LEMMA TeamNothing ==
  ASSUME TeamInv, NEW c \in Calls, TeamProceeds(c), TeamRead(c)', OpenedApart',
         user' = user, member' = member, invitations' = invitations, assigned' = assigned,
         attendant' = attendant, unsynced' = unsynced,
         teamCalls[c].at = "create" => teamCalls'[c].at = "dead"
  PROVE  TeamInv'
<1>1. TeamTyped'
  BY DEF TeamInv, TeamTyped, TeamProceeds
<1>2. \A i \in DOMAIN invitations : OpenNow(i) => Team!IsOpen(i)
  BY DEF OpenNow, Team!IsOpen
<1>3. TeamByOver' /\ \A d \in Calls \ {c} : TeamRead(d)'
  BY <1>2, TeamOthers
<1>4. Team!AttendantFollows'
  BY DEF TeamInv, Team!AttendantFollows, Team!AttendantStations
<1>5. \A d \in Calls : TeamRead(d)'
  BY <1>3
<1> QED BY <1>1, <1>3, <1>4, <1>5, TeamOrder, TeamAssignmentsKept, TeamJoinKept DEF TeamInv

\* c, which had nothing to do with invitations, is over.
LEMMA TeamReadOver ==
  ASSUME NEW c \in Calls, teamCalls'[c].at \in {"revoke", "done", "dead"}
  PROVE  TeamRead(c)'
  BY DEF TeamRead

\* A step that only reads invitations opens none.
LEMMA TeamApartRead ==
  ASSUME TeamInv, NEW c \in Calls, TeamProceeds(c), invitations' = invitations, teamCalls'[c].at # "accept"
  PROVE  OpenedApart'
<1>1. \A i \in DOMAIN invitations : \A x \in Calls : OpensNow(x, i) => Opens(x, i)
  BY DEF OpensNow, Opens, OpenNow, Team!IsOpen, Accepting, TeamProceeds
<1> QED BY <1>1, TeamApart

\* The call goes on to activate, which will end the assignments it has seen.
SawSeeded(call, seen) == [call EXCEPT !.at = "activate", !.seen = seen]

\* What a call remembers of the assignments it saw.
LEMMA SawSeededFits ==
  ASSUME NEW call \in TeamCall, NEW seen \in SUBSET Team!Assignments
  PROVE  /\ SawSeeded(call, seen) \in TeamCall /\ SawSeeded(call, seen).at = "activate"
         /\ SawSeeded(call, seen).seen = seen /\ SawSeeded(call, seen).invitation = call.invitation
         /\ SawSeeded(call, seen).after = call.after
  BY DEF SawSeeded, TeamCall, TeamAts

\* The reads of all calls, and their deaths.
LEMMA TeamReadSteps ==
  ASSUME TeamInv, NEW c \in Calls,
         \/ Team!ReadInvitee(c) \/ Team!ReadForAccept(c) \/ Team!ReadForActivation(c) \/ Team!SeeSeeded(c)
         \/ Team!SeeAssignments(c) \/ Team!Die(c)
  PROVE  TeamInv'
<1>1. /\ user' = user /\ member' = member /\ invitations' = invitations /\ assigned' = assigned
      /\ attendant' = attendant /\ unsynced' = unsynced
  BY DEF Team!ReadInvitee, Team!ReadForAccept, Team!ReadForActivation, Team!SeeSeeded, Team!SeeAssignments, Team!Die
<1> DEFINE none == Team!NoOne
           nothing == {}
<1>2. none \in Calls \cup {Team!NoOne} /\ nothing \in SUBSET Team!Assignments
  OBVIOUS
<1> HIDE DEF none, nothing
<1>3. CASE Team!ReadInvitee(c)
  <2> DEFINE at == IF member.status = "ACTIVE" THEN "done" ELSE "revoke"
  <2>1. Team!Begin(c, at, none, nothing) /\ at \in TeamAts /\ at # "idle" /\ at \in {"revoke", "done", "dead"} /\ at # "accept"
    BY <1>3 DEF Team!ReadInvitee, TeamAts, none, nothing
  <2> HIDE DEF at
  <2>2. TeamProceeds(c) /\ teamCalls'[c].at = at /\ teamCalls[c].at = "idle"
    BY <1>2, <2>1, TeamBegun
  <2>3. TeamRead(c)' /\ OpenedApart'
    BY <1>1, <2>1, <2>2, TeamReadOver, TeamApartRead
  <2> QED BY <1>1, <2>2, <2>3, TeamNothing
<1>4. CASE Team!ReadForAccept(c)
  <2>1. PICK i \in DOMAIN invitations :
          Team!Begin(c, IF Team!Usable(i) /\ invitations[i].status = "PENDING" THEN "accept" ELSE "done", i, {})
    BY <1>4 DEF Team!ReadForAccept
  <2> DEFINE at == IF Team!Usable(i) /\ invitations[i].status = "PENDING" THEN "accept" ELSE "done"
  <2>2. /\ Team!Begin(c, at, i, nothing) /\ at \in TeamAts /\ at # "idle" /\ at \in {"accept", "done"}
        /\ i \in Calls \cup {Team!NoOne} /\ i \in Calls
        /\ at = "accept" => invitations[i].status = "PENDING"
    BY <2>1 DEF TeamAts, nothing, TeamInv, TeamTyped
  <2> HIDE DEF at
  <2>3. /\ TeamProceeds(c) /\ teamCalls'[c].at = at /\ teamCalls'[c].invitation = i /\ teamCalls[c].at = "idle"
        /\ teamCalls'[c].after = {d \in Calls : Team!Over(d)}
    BY <1>2, <2>2, TeamBegun
  <2>4. TeamRead(c)'
    BY <1>1, <2>2, <2>3 DEF TeamRead
  <2>5. CASE at = "done"
    <3>1. OpenedApart'
      BY <1>1, <2>3, <2>5, TeamApartRead
    <3> QED BY <1>1, <2>3, <2>4, <3>1, TeamNothing
  <2>6. CASE at = "accept"
    \* as the invitation is pending, whoever was apart from its sender is so from c
    <3>1. Opens(i, i) /\ invitations[i].by = i
      BY <2>2, <2>6 DEF TeamInv, TeamByOver, Opens, Team!IsOpen
    <3>2. ASSUME NEW j \in DOMAIN invitations, NEW x \in Calls, OpensNow(x, j)
          PROVE  Opens(x, j) \/ (x = c /\ j = i)
      BY <1>1, <2>3, <3>2 DEF OpensNow, Opens, OpenNow, Team!IsOpen, Accepting, TeamProceeds
    <3>3. ASSUME NEW j \in DOMAIN invitations, NEW k \in DOMAIN invitations, NEW x \in Calls, NEW y \in Calls,
                 j # k, Opens(x, j), Opens(y, k)
          PROVE  ApartNow(j, k) \/ ApartNow(j, y) \/ ApartNow(k, x)
      <4>1. Team!Overlap(j, k) \/ Team!Overlap(j, y) \/ Team!Overlap(k, x)
        BY <3>3 DEF TeamInv, OpenedApart
      <4> QED BY <2>3, <3>3, <4>1, TeamOpeners, TeamOrder
    <3>4. ASSUME NEW k \in DOMAIN invitations, NEW y \in Calls, k # i, Opens(y, k)
          PROVE  ApartNow(i, k) \/ ApartNow(i, y)
      BY <2>2, <3>1, <3>3, <3>4 DEF ApartNow
    <3>5. ASSUME NEW j \in DOMAIN invitations, NEW k \in DOMAIN invitations, NEW x \in Calls, NEW y \in Calls,
                 j # k, OpensNow(x, j), OpensNow(y, k)
          PROVE  ApartNow(j, k) \/ ApartNow(j, y) \/ ApartNow(k, x)
      <4>1. CASE Opens(x, j) /\ Opens(y, k)
        BY <3>3, <3>5, <4>1
      <4>2. CASE x = c /\ j = i /\ Opens(y, k)
        BY <3>4, <3>5, <4>2
      <4>3. CASE y = c /\ k = i /\ Opens(x, j)
        BY <3>4, <3>5, <4>3 DEF ApartNow
      <4> QED BY <3>2, <3>5, <4>1, <4>2, <4>3
    <3>6. OpenedApart'
      BY <1>1, <3>5 DEF OpenedApart, Opens, OpensNow, Accepting, Team!IsOpen, OpenNow, Team!Overlap, ApartNow
    <3> QED BY <1>1, <2>3, <2>4, <3>6, TeamNothing
  <2> QED BY <2>2, <2>5, <2>6
<1>5. CASE Team!ReadForActivation(c)
  <2>1. PICK i \in DOMAIN invitations :
          Team!Begin(c, IF invitations[i].seeds = {} THEN "activate" ELSE "seeds", i, {})
    BY <1>5 DEF Team!ReadForActivation
  <2> DEFINE at == IF invitations[i].seeds = {} THEN "activate" ELSE "seeds"
  <2>2. /\ Team!Begin(c, at, i, nothing) /\ at \in TeamAts /\ at # "idle" /\ at \in {"activate", "seeds"} /\ at # "accept"
        /\ i \in Calls \cup {Team!NoOne}
        /\ at = "activate" => invitations[i].seeds = {}
    BY <2>1 DEF TeamAts, nothing, TeamInv, TeamTyped
  <2> HIDE DEF at
  <2>3. /\ TeamProceeds(c) /\ teamCalls'[c].at = at /\ teamCalls'[c].invitation = i /\ teamCalls[c].at = "idle"
    BY <1>2, <2>2, TeamBegun
  <2>4. TeamRead(c)'
    BY <1>1, <2>2, <2>3 DEF TeamRead
  <2>5. OpenedApart'
    BY <1>1, <2>2, <2>3, TeamApartRead
  <2> QED BY <1>1, <2>3, <2>4, <2>5, TeamNothing
<1>6. CASE Team!SeeSeeded(c)
  <2> DEFINE i == teamCalls[c].invitation
             seen == {a \in assigned : a.station \in invitations[i].seeds}
             call == SawSeeded(teamCalls[c], seen)
  <2>1. /\ teamCalls[c].at = "seeds" /\ teamCalls \in [Calls -> TeamCall] /\ i \in DOMAIN invitations
        /\ assigned \subseteq Team!Assignments
    BY <1>6 DEF Team!SeeSeeded, TeamInv, TeamTyped, TeamRead
  <2>2. teamCalls' = [teamCalls EXCEPT ![c] = call]
    BY <1>6, <2>1 DEF Team!SeeSeeded, TeamCall, SawSeeded
  <2>9. seen \in SUBSET Team!Assignments
    BY <2>1
  <2>3. /\ call \in TeamCall /\ call.at = "activate" /\ call.seen = seen /\ call.invitation = i
        /\ call.after = teamCalls[c].after
    BY <2>1, <2>9, SawSeededFits
  <2>4. \A a \in assigned \ seen : a.station \notin invitations[i].seeds
    OBVIOUS
  <2> HIDE DEF call, seen, i
  <2>5. teamCalls' \in [Calls -> TeamCall] /\ teamCalls'[c] = call /\ \A d \in Calls \ {c} : teamCalls'[d] = teamCalls[d]
    BY <2>1, <2>2, <2>3
  <2>6. TeamProceeds(c)
    BY <2>1, <2>3, <2>5 DEF TeamProceeds, Team!Over
  <2>7. TeamRead(c)'
    BY <1>1, <2>1, <2>3, <2>4, <2>5 DEF TeamRead
  <2>8. OpenedApart'
    BY <1>1, <2>3, <2>5, <2>6, TeamApartRead
  <2> QED BY <1>1, <2>1, <2>6, <2>7, <2>8, TeamNothing
<1>7. CASE Team!SeeAssignments(c)
  <2> DEFINE at == "replace"
  <2>1. Team!Begin(c, at, none, assigned) /\ at \in TeamAts /\ at # "idle" /\ at # "accept"
        /\ assigned \in SUBSET Team!Assignments
    BY <1>7 DEF Team!SeeAssignments, TeamAts, none, TeamInv, TeamTyped
  <2> HIDE DEF at
  <2>2. TeamProceeds(c) /\ teamCalls'[c].at = at /\ teamCalls'[c].seen = assigned /\ teamCalls[c].at = "idle"
    BY <1>2, <2>1, TeamBegun
  <2>3. TeamRead(c)'
    BY <1>1, <2>2 DEF TeamRead, at
  <2>4. OpenedApart'
    BY <1>1, <2>1, <2>2, TeamApartRead
  <2> QED BY <1>1, <2>2, <2>3, <2>4, TeamNothing
<1>8. CASE Team!Die(c)
  <2> DEFINE at == "dead"
  <2>1. Team!Goto(c, at) /\ at \in TeamAts /\ at # "idle" /\ at # "accept" /\ teamCalls[c].at # "idle" /\ ~ Team!Over(c)
    BY <1>8 DEF Team!Die, TeamAts
  <2>2. at = "dead"
    OBVIOUS
  <2> HIDE DEF at
  <2>3. TeamProceeds(c) /\ teamCalls'[c].at = at
    BY <2>1, TeamGoesOn
  <2>4. TeamRead(c)' /\ OpenedApart'
    BY <1>1, <2>1, <2>2, <2>3, TeamReadOver, TeamApartRead
  <2> QED BY <1>1, <2>2, <2>3, <2>4, TeamNothing
<1> QED BY <1>3, <1>4, <1>5, <1>6, <1>7, <1>8

Altered(row, status, by) == [row EXCEPT !.status = status, !.by = by]

\* What becomes of an invitation that is written.
LEMMA RewrittenFits ==
  ASSUME NEW row \in InvitationRow, NEW status \in {"PENDING", "ACCEPTED", "ACTIVATED", "REVOKED"}, NEW by \in Calls
  PROVE  /\ Altered(row, status, by) \in InvitationRow /\ Altered(row, status, by).status = status
         /\ Altered(row, status, by).by = by /\ Altered(row, status, by).seeds = row.seeds
  BY DEF Altered, InvitationRow

\* All open invitations are revoked at once, by a call that will create another.
LEMMA TeamRevokeOpen ==
  ASSUME TeamInv, NEW c \in Calls, Team!RevokeOpen(c)
  PROVE  TeamInv'
<1> DEFINE at == "create"
<1>1. /\ user' = user /\ member' = member /\ assigned' = assigned /\ attendant' = attendant /\ unsynced' = unsynced
      /\ teamCalls[c].at = "revoke" /\ Team!Goto(c, at) /\ teamCalls[c].at # "idle" /\ ~ Team!Over(c)
      /\ at \in TeamAts /\ at # "idle" /\ at # "accept"
      /\ invitations' = [i \in DOMAIN invitations |->
           IF Team!IsOpen(i) THEN Altered(invitations[i], "REVOKED", c) ELSE invitations[i]]
  BY DEF Team!RevokeOpen, TeamAts, Team!Over, Altered
<1>2. at = "create"
  OBVIOUS
<1> HIDE DEF at
<1>3. TeamProceeds(c) /\ teamCalls'[c].at = at
  BY <1>1, TeamGoesOn
<1>4. invitations \in [DOMAIN invitations -> InvitationRow]
  BY DEF TeamInv, TeamTyped
<1>5. \A i \in DOMAIN invitations :
        LET row == Altered(invitations[i], "REVOKED", c)
        IN  row \in InvitationRow /\ row.status = "REVOKED" /\ row.by = c /\ row.seeds = invitations[i].seeds
  BY <1>4, RewrittenFits
<1>6. /\ DOMAIN invitations' = DOMAIN invitations /\ invitations' \in [DOMAIN invitations' -> InvitationRow]
      /\ \A i \in DOMAIN invitations :
           /\ invitations'[i].seeds = invitations[i].seeds /\ ~ OpenNow(i)
           /\ IF Team!IsOpen(i) THEN invitations'[i].by = c ELSE invitations'[i] = invitations[i]
  BY <1>1, <1>4, <1>5 DEF OpenNow, Team!IsOpen
<1>7. TeamTyped'
  BY <1>1, <1>3, <1>6 DEF TeamInv, TeamTyped, TeamProceeds
<1>8. TeamByOver' /\ \A d \in Calls \ {c} : TeamRead(d)'
  BY <1>1, <1>3, <1>6, TeamOthers
<1>9. TeamRead(c)'
  BY <1>2, <1>3, <1>6 DEF TeamRead, Team!IsOpen, OpenNow
<1>10. OpenedApart'
  <2>1. \A i \in DOMAIN invitations : \A x \in Calls : OpensNow(x, i) => Opens(x, i)
    BY <1>1, <1>3, <1>6 DEF OpensNow, Opens, Accepting, TeamProceeds
  <2> QED BY <1>3, <1>6, <2>1, TeamApart
<1>11. Team!InvitedCanJoin'
  <2> SUFFICES ASSUME member.status = "INVITED", member.by \in DOMAIN invitations
               PROVE  teamCalls'[invitations'[member.by].by].at \in {"create", "dead"}
    BY <1>1, <1>6 DEF Team!InvitedCanJoin, Team!Usable
  <2>1. CASE Team!IsOpen(member.by)
    BY <1>2, <1>3, <1>6, <2>1
  <2>2. CASE ~ Team!IsOpen(member.by)
    <3>1. /\ teamCalls[invitations[member.by].by].at \in {"create", "dead"} /\ invitations[member.by].by \in Calls
      BY <1>4, <2>2 DEF TeamInv, Team!InvitedCanJoin, Team!Usable, InvitationRow
    <3> QED BY <1>1, <1>3, <1>6, <2>2, <3>1 DEF TeamProceeds
  <2> QED BY <2>1, <2>2
<1>12. Team!AttendantFollows'
  BY <1>1 DEF TeamInv, Team!AttendantFollows, Team!AttendantStations
<1>13. \A d \in Calls : TeamRead(d)'
  BY <1>8, <1>9
<1> QED BY <1>1, <1>3, <1>7, <1>8, <1>10, <1>11, <1>12, <1>13, TeamOrder, TeamAssignmentsKept DEF TeamInv

\* The new invitation is open, beside those of calls that overlapped.
LEMMA TeamCreateInvitation ==
  ASSUME TeamInv, NEW c \in Calls, Team!CreateInvitation(c)
  PROVE  TeamInv'
<1> DEFINE at == "done"
<1>1. PICK seeds \in SUBSET Stations :
        invitations' = [i \in DOMAIN invitations \cup {c} |->
          IF i = c THEN [status |-> "PENDING", expired |-> FALSE, seeds |-> seeds, by |-> c] ELSE invitations[i]]
  BY DEF Team!CreateInvitation
<1>2. /\ assigned' = assigned /\ attendant' = attendant /\ unsynced' = unsynced
      /\ user' = (IF user = Team!NoOne THEN "Invited" ELSE user) /\ member' = [status |-> "INVITED", by |-> c]
      /\ teamCalls[c].at = "create" /\ Team!Goto(c, at) /\ teamCalls[c].at # "idle" /\ ~ Team!Over(c)
      /\ at \in TeamAts /\ at # "idle" /\ at # "accept"
  BY DEF Team!CreateInvitation, Team!WriteMember, TeamAts, Team!Over
<1>3. at = "done"
  OBVIOUS
<1> HIDE DEF at
<1>4. TeamProceeds(c) /\ teamCalls'[c].at = at /\ OverNow(c) /\ teamCalls'[c].after = teamCalls[c].after
  BY <1>2, <1>3, TeamGoesOn DEF OverNow
<1> DEFINE row == [status |-> "PENDING", expired |-> FALSE, seeds |-> seeds, by |-> c]
<1>5. row \in InvitationRow /\ row.status = "PENDING" /\ row.by = c
  BY DEF InvitationRow
<1>6. invitations' = [i \in DOMAIN invitations \cup {c} |-> IF i = c THEN row ELSE invitations[i]]
  BY <1>1
<1>7. /\ invitations \in [DOMAIN invitations -> InvitationRow] /\ c \notin DOMAIN invitations
      /\ DOMAIN invitations \subseteq Calls
  BY <1>2 DEF TeamInv, TeamTyped, TeamByOver
<1> HIDE DEF row
<1>8. /\ DOMAIN invitations' = DOMAIN invitations \cup {c} /\ invitations'[c] = row
      /\ \A i \in DOMAIN invitations : invitations'[i] = invitations[i]
      /\ invitations' \in [DOMAIN invitations' -> InvitationRow]
  BY <1>5, <1>6, <1>7
<1>9. TeamTyped'
  <2>1. user' \in Team!UserStatuses \cup {Team!NoOne} /\ user' # Team!NoOne /\ member' \in MemberRow
    BY <1>2 DEF TeamInv, TeamTyped, Team!UserStatuses, Team!MembershipStatuses, MemberRow, Team!NoOne
  <2> QED BY <1>2, <1>4, <1>7, <1>8, <2>1 DEF TeamInv, TeamTyped, TeamProceeds
<1>10. TeamByOver' /\ \A d \in Calls \ {c} : TeamRead(d)'
  <2>1. \A i \in DOMAIN invitations :
          /\ invitations'[i].seeds = invitations[i].seeds
          /\ OpenNow(i) => Team!IsOpen(i) /\ invitations'[i] = invitations[i]
    BY <1>8 DEF OpenNow, Team!IsOpen
  <2> QED BY <1>2, <1>4, <1>5, <1>8, <2>1, TeamOthers
<1>11. TeamRead(c)'
  BY <1>3, <1>4, TeamReadOver
<1>12. OpenedApart'
  <2>1. ASSUME NEW j \in DOMAIN invitations, NEW x \in Calls, OpensNow(x, j) PROVE Opens(x, j)
    BY <1>2, <1>4, <1>8, <2>1 DEF OpensNow, Opens, OpenNow, Team!IsOpen, Accepting, TeamProceeds
  <2>2. ASSUME NEW x \in Calls, OpensNow(x, c) PROVE x = c
    <3>1. \A e \in Calls : ~ Accepting(e, c)
      BY <1>7 DEF TeamInv, TeamRead, Accepting
    <3> QED BY <1>2, <1>4, <1>5, <1>8, <2>2, <3>1 DEF OpensNow, Accepting, TeamProceeds
  <2>3. ASSUME NEW j \in DOMAIN invitations, NEW k \in DOMAIN invitations, NEW x \in Calls, NEW y \in Calls,
               j # k, Opens(x, j), Opens(y, k)
        PROVE  ApartNow(j, k) \/ ApartNow(j, y) \/ ApartNow(k, x)
    <3>1. Team!Overlap(j, k) \/ Team!Overlap(j, y) \/ Team!Overlap(k, x)
      BY <2>3 DEF TeamInv, OpenedApart
    <3> QED BY <1>4, <2>3, <3>1, TeamOpeners, TeamOrder
  <2>4. ASSUME NEW j \in DOMAIN invitations, NEW x \in Calls, Opens(x, j)
        PROVE  ApartNow(c, j) \/ ApartNow(c, x)
    <3>1. j \in Calls /\ c \notin teamCalls'[j].after /\ c \notin teamCalls'[x].after
      BY <1>4, <1>7, TeamOrder
    <3>2. CASE Accepting(x, j)
      <4>1. x \notin teamCalls[c].after
        BY <3>2 DEF TeamInv, TeamAfterOver, Accepting, Team!Over
      <4> QED BY <1>4, <3>1, <4>1 DEF ApartNow
    <3>3. CASE Team!IsOpen(j) /\ x = invitations[j].by
      <4>1. j \notin teamCalls[c].after \/ x \notin teamCalls[c].after
        BY <1>2, <3>3 DEF TeamInv, TeamRead
      <4> QED BY <1>4, <3>1, <4>1 DEF ApartNow
    <3> QED BY <2>4, <3>2, <3>3 DEF Opens
  <2>5. ASSUME NEW j \in DOMAIN invitations', NEW k \in DOMAIN invitations', NEW x \in Calls, NEW y \in Calls,
               j # k, OpensNow(x, j), OpensNow(y, k)
        PROVE  ApartNow(j, k) \/ ApartNow(j, y) \/ ApartNow(k, x)
    <3>1. CASE j # c /\ k # c
      BY <1>8, <2>1, <2>3, <2>5, <3>1
    <3>2. CASE j = c
      <4>1. k \in DOMAIN invitations /\ Opens(y, k) /\ x = c
        BY <1>8, <2>1, <2>2, <2>5, <3>2
      <4> QED BY <2>4, <3>2, <4>1
    <3>3. CASE k = c
      <4>1. j \in DOMAIN invitations /\ Opens(x, j) /\ y = c
        BY <1>8, <2>1, <2>2, <2>5, <3>3
      <4> QED BY <2>4, <3>3, <4>1 DEF ApartNow
    <3> QED BY <3>1, <3>2, <3>3
  <2> QED BY <2>5 DEF OpenedApart, Opens, OpensNow, Accepting, Team!IsOpen, OpenNow, Team!Overlap, ApartNow
<1>13. Team!InvitedCanJoin'
  BY <1>2, <1>5, <1>8 DEF Team!InvitedCanJoin, Team!Usable, Team!IsOpen
<1>14. Team!AttendantFollows'
  BY <1>2 DEF TeamInv, Team!AttendantFollows, Team!AttendantStations
<1>15. \A d \in Calls : TeamRead(d)'
  BY <1>10, <1>11
<1> QED BY <1>2, <1>4, <1>9, <1>10, <1>12, <1>13, <1>14, <1>15, TeamOrder, TeamAssignmentsKept DEF TeamInv

\* Accepting closes the invitation, whatever has become of it.
LEMMA TeamWriteAccepted ==
  ASSUME TeamInv, NEW c \in Calls, Team!WriteAccepted(c)
  PROVE  TeamInv'
<1> DEFINE at == "done"
           i == teamCalls[c].invitation
           row == Altered(invitations[i], "ACCEPTED", c)
<1>1. /\ user' = user /\ member' = member /\ assigned' = assigned /\ attendant' = attendant /\ unsynced' = unsynced
      /\ teamCalls[c].at = "accept" /\ Team!Goto(c, at) /\ teamCalls[c].at # "idle" /\ ~ Team!Over(c)
      /\ at \in TeamAts /\ at # "idle" /\ at # "accept"
      /\ invitations' = [invitations EXCEPT ![i] = row]
  BY DEF Team!WriteAccepted, TeamAts, Team!Over, Altered
<1>2. at = "done"
  OBVIOUS
<1> HIDE DEF at
<1>3. TeamProceeds(c) /\ teamCalls'[c].at = at /\ OverNow(c)
  BY <1>1, <1>2, TeamGoesOn DEF OverNow
<1>4. invitations \in [DOMAIN invitations -> InvitationRow] /\ i \in DOMAIN invitations
  BY <1>1 DEF TeamInv, TeamTyped, TeamRead
<1>5. row \in InvitationRow /\ row.status = "ACCEPTED" /\ row.by = c /\ row.seeds = invitations[i].seeds
  <2> DEFINE old == invitations[i]
             status == "ACCEPTED"
  <2>1. old \in InvitationRow /\ status \in {"PENDING", "ACCEPTED", "ACTIVATED", "REVOKED"} /\ row = Altered(old, status, c)
        /\ status = "ACCEPTED"
    BY <1>4
  <2> HIDE DEF old, status, row
  <2>2. row \in InvitationRow /\ row.status = status /\ row.by = c /\ row.seeds = old.seeds
    BY <2>1, RewrittenFits
  <2> QED BY <2>1, <2>2 DEF old
<1>6. Opens(c, i)
  BY <1>1 DEF Opens, Accepting
<1> HIDE DEF row, i
<1>7. /\ DOMAIN invitations' = DOMAIN invitations /\ invitations' \in [DOMAIN invitations' -> InvitationRow]
      /\ invitations'[i] = row /\ \A j \in DOMAIN invitations \ {i} : invitations'[j] = invitations[j]
  BY <1>1, <1>4, <1>5
<1>8. TeamTyped'
  BY <1>1, <1>3, <1>7 DEF TeamInv, TeamTyped, TeamProceeds
<1>9. TeamByOver' /\ \A d \in Calls \ {c} : TeamRead(d)'
  <2>1. ASSUME NEW j \in DOMAIN invitations
        PROVE  /\ invitations'[j].seeds = invitations[j].seeds
               /\ OpenNow(j) => \/ Team!IsOpen(j) /\ invitations'[j] = invitations[j]
                                \/ invitations'[j].by = c /\ invitations'[j].status = "ACCEPTED" /\ OverNow(c)
    BY <1>3, <1>5, <1>7 DEF OpenNow, Team!IsOpen
  <2> QED BY <1>1, <1>3, <1>7, <2>1, TeamOthers
<1>10. TeamRead(c)'
  BY <1>2, <1>3, TeamReadOver
<1>11. OpenedApart'
  <2>1. ASSUME NEW j \in DOMAIN invitations, NEW x \in Calls, OpensNow(x, j) PROVE Opens(x, j)
    <3>1. CASE j = i /\ x = c
      BY <1>6, <3>1
    <3>2. CASE j = i /\ x # c
      BY <1>3, <1>5, <1>7, <2>1, <3>2 DEF OpensNow, Opens, Accepting, TeamProceeds
    <3>3. CASE j # i
      BY <1>1, <1>3, <1>7, <2>1, <3>3 DEF OpensNow, Opens, OpenNow, Team!IsOpen, Accepting, TeamProceeds
    <3> QED BY <3>1, <3>2, <3>3
  <2> QED BY <1>3, <1>7, <2>1, TeamApart
<1>12. Team!InvitedCanJoin'
  <2> SUFFICES ASSUME member.status = "INVITED", member.by \in DOMAIN invitations, member.by # i, ~ OpenNow(member.by)
               PROVE  teamCalls'[invitations'[member.by].by].at \in {"create", "dead"}
    BY <1>1, <1>5, <1>7 DEF Team!InvitedCanJoin, Team!Usable, Team!IsOpen, OpenNow
  <2>1. /\ teamCalls[invitations[member.by].by].at \in {"create", "dead"} /\ invitations[member.by].by \in Calls
    BY <1>4, <1>7 DEF TeamInv, Team!InvitedCanJoin, Team!Usable, InvitationRow, Team!IsOpen, OpenNow
  <2> QED BY <1>1, <1>3, <1>7, <2>1 DEF TeamProceeds
<1>13. Team!AttendantFollows'
  BY <1>1 DEF TeamInv, Team!AttendantFollows, Team!AttendantStations
<1>14. \A d \in Calls : TeamRead(d)'
  BY <1>9, <1>10
<1> QED BY <1>1, <1>3, <1>8, <1>9, <1>11, <1>12, <1>13, <1>14, TeamOrder, TeamAssignmentsKept DEF TeamInv

\* c ends the assignments it has seen and brings its own, one for a station.
LEMMA TeamAssigned ==
  ASSUME TeamInv, NEW c \in Calls, TeamProceeds(c), OverNow(c), teamCalls[c].at \in {"activate", "replace"},
         teamCalls'[c].after = teamCalls[c].after,
         NEW stations \in SUBSET Stations, NEW isAttendant \in BOOLEAN,
         teamCalls[c].at = "activate" => stations = invitations[teamCalls[c].invitation].seeds,
         Team!Assign(c, [by : {c}, station : stations, isAttendant : {isAttendant}])
  PROVE  /\ assigned' \subseteq Team!Assignments /\ attendant' \subseteq Stations /\ unsynced' = FALSE
         /\ \A a \in assigned' : a \in assigned \/ (a.by = c /\ OverNow(c))
         /\ Team!OneAssignment' /\ Team!AttendantFollows'
<1> DEFINE rows == [by : {c}, station : stations, isAttendant : {isAttendant}]
<1>1. /\ assigned' = (assigned \ teamCalls[c].seen) \cup rows /\ attendant' = Team!AttendantStations(assigned')
      /\ unsynced' = FALSE
  BY DEF Team!Assign, Team!Sync
<1>2. /\ rows \subseteq Team!Assignments /\ \A a \in rows : a.by = c /\ a.station \in stations
      /\ \A a, b \in rows : a.station = b.station => a = b
  BY DEF Team!Assignments
<1> HIDE DEF rows
<1>3. assigned \subseteq Team!Assignments
  BY DEF TeamInv, TeamTyped
<1>4. assigned' \subseteq Team!Assignments /\ \A a \in assigned' : a \in assigned \/ a.by = c
  BY <1>1, <1>2, <1>3
<1>5. attendant' \subseteq Stations
  BY <1>1, <1>4 DEF Team!AttendantStations, Team!Assignments
<1>6. ASSUME NEW a \in assigned \ teamCalls[c].seen, NEW b \in rows, a.station = b.station
      PROVE  a.by # b.by /\ ApartNow(a.by, b.by)
  <2>1. b.by = c /\ b.station \in stations
    BY <1>2
  <2>2. a.by \in Calls /\ Team!Over(a.by)
    BY <1>3 DEF TeamInv, TeamByOver, Team!Assignments
  <2>3. a.by \notin teamCalls[c].after
    BY <1>6, <2>1 DEF TeamInv, TeamRead
  <2> QED BY <2>1, <2>2, <2>3, TeamOrder DEF ApartNow
<1>7. ASSUME NEW a \in assigned, NEW b \in assigned, a.station = b.station, a # b
      PROVE  a.by # b.by /\ ApartNow(a.by, b.by)
  <2>1. a.by # b.by /\ Team!Overlap(a.by, b.by)
    BY <1>7 DEF TeamInv, Team!OneAssignment
  <2>2. a.by \in Calls /\ b.by \in Calls /\ teamCalls[a.by].at # "idle" /\ teamCalls[b.by].at # "idle"
    BY <1>3 DEF TeamInv, Team!Assignments, TeamByOver, Team!Over
  <2> QED BY <2>1, <2>2, TeamOrder
<1>8. ASSUME NEW a \in assigned', NEW b \in assigned', a.station = b.station, a # b
      PROVE  a.by # b.by /\ ApartNow(a.by, b.by)
  <2>1. CASE a \in assigned \ teamCalls[c].seen /\ b \in assigned \ teamCalls[c].seen
    BY <1>7, <1>8, <2>1
  <2>2. CASE a \in assigned \ teamCalls[c].seen /\ b \in rows
    BY <1>6, <1>8, <2>2
  <2>3. CASE a \in rows /\ b \in assigned \ teamCalls[c].seen
    BY <1>6, <1>8, <2>3 DEF ApartNow
  <2>4. CASE a \in rows /\ b \in rows
    BY <1>2, <1>8, <2>4
  <2> QED BY <1>1, <2>1, <2>2, <2>3, <2>4
<1>9. Team!OneAssignment'
  BY <1>8 DEF Team!OneAssignment, Team!Overlap, ApartNow
<1>10. Team!AttendantFollows'
  BY <1>1 DEF Team!AttendantFollows, Team!AttendantStations
<1> QED BY <1>1, <1>4, <1>5, <1>9, <1>10

\* Activation makes the member ACTIVE and adds what was not assigned when it looked.
LEMMA TeamCommitActivation ==
  ASSUME TeamInv, NEW c \in Calls, Team!CommitActivation(c)
  PROVE  TeamInv'
<1> DEFINE at == "done"
           i == teamCalls[c].invitation
           row == Altered(invitations[i], "ACTIVATED", c)
           seeds == invitations[i].seeds
<1>1. /\ teamCalls[c].at = "activate" /\ Team!Goto(c, at) /\ teamCalls[c].at # "idle" /\ ~ Team!Over(c)
      /\ at \in TeamAts /\ at # "idle" /\ at # "accept"
      /\ invitations' = [invitations EXCEPT ![i] = row]
      /\ member' = [status |-> "ACTIVE", by |-> c]
      /\ user' = IF teamCalls[c].user = "Invited" THEN "Active" ELSE user
  BY DEF Team!CommitActivation, Team!WriteMember, TeamAts, Team!Over, Altered
<1>2. \/ assigned' = assigned /\ attendant' = attendant /\ unsynced' = unsynced
      \/ \E isAttendant \in BOOLEAN : Team!Assign(c, [by : {c}, station : seeds, isAttendant : {isAttendant}])
  BY DEF Team!CommitActivation
<1>3. at = "done"
  OBVIOUS
<1> HIDE DEF at
<1>4. TeamProceeds(c) /\ teamCalls'[c].at = at /\ OverNow(c) /\ teamCalls'[c].after = teamCalls[c].after
  BY <1>1, <1>3, TeamGoesOn DEF OverNow
<1>5. invitations \in [DOMAIN invitations -> InvitationRow] /\ i \in DOMAIN invitations
  BY <1>1 DEF TeamInv, TeamTyped, TeamRead
<1>6. row \in InvitationRow /\ row.status = "ACTIVATED" /\ row.seeds = invitations[i].seeds
  <2> DEFINE old == invitations[i]
             status == "ACTIVATED"
  <2>1. old \in InvitationRow /\ status \in {"PENDING", "ACCEPTED", "ACTIVATED", "REVOKED"} /\ row = Altered(old, status, c)
        /\ status = "ACTIVATED"
    BY <1>5
  <2> HIDE DEF old, status, row
  <2>2. row \in InvitationRow /\ row.status = status /\ row.by = c /\ row.seeds = old.seeds
    BY <2>1, RewrittenFits
  <2> QED BY <2>1, <2>2 DEF old
<1>7. seeds \in SUBSET Stations
  BY <1>5 DEF InvitationRow
<1> HIDE DEF row
<1>8. /\ DOMAIN invitations' = DOMAIN invitations /\ invitations' \in [DOMAIN invitations' -> InvitationRow]
      /\ invitations'[i] = row /\ \A j \in DOMAIN invitations \ {i} : invitations'[j] = invitations[j]
  BY <1>1, <1>5, <1>6
<1>9. /\ assigned' \subseteq Team!Assignments /\ attendant' \subseteq Stations /\ unsynced' \in BOOLEAN
      /\ \A a \in assigned' : a \in assigned \/ (a.by = c /\ OverNow(c))
      /\ Team!OneAssignment' /\ Team!AttendantFollows'
  <2>1. CASE assigned' = assigned /\ attendant' = attendant /\ unsynced' = unsynced
    <3>1. Team!AttendantFollows'
      BY <2>1 DEF TeamInv, Team!AttendantFollows, Team!AttendantStations
    <3>2. Team!OneAssignment'
      BY <1>4, <2>1, TeamAssignmentsKept
    <3> QED BY <2>1, <3>1, <3>2 DEF TeamInv, TeamTyped
  <2>2. ASSUME NEW isAttendant \in BOOLEAN,
               Team!Assign(c, [by : {c}, station : seeds, isAttendant : {isAttendant}])
        PROVE  /\ assigned' \subseteq Team!Assignments /\ attendant' \subseteq Stations /\ unsynced' \in BOOLEAN
               /\ \A a \in assigned' : a \in assigned \/ (a.by = c /\ OverNow(c))
               /\ Team!OneAssignment' /\ Team!AttendantFollows'
    <3>1. teamCalls[c].at \in {"activate", "replace"} /\ invitations[teamCalls[c].invitation].seeds = seeds
      BY <1>1
    <3> HIDE DEF seeds, i
    <3> QED BY <1>4, <1>7, <2>2, <3>1, TeamAssigned
  <2> QED BY <1>2, <2>1, <2>2
<1> HIDE DEF i, seeds
<1>10. TeamTyped'
  <2>1. user # Team!NoOne
    BY <1>5 DEF TeamInv, TeamTyped
  <2>2. user' \in Team!UserStatuses \cup {Team!NoOne} /\ user' # Team!NoOne /\ member' \in MemberRow
    BY <1>1, <2>1 DEF TeamInv, TeamTyped, Team!UserStatuses, Team!MembershipStatuses, MemberRow, Team!NoOne
  <2> QED BY <1>4, <1>8, <1>9, <2>2 DEF TeamInv, TeamTyped, TeamProceeds
<1>11. \A j \in DOMAIN invitations : /\ invitations'[j].seeds = invitations[j].seeds
                                     /\ OpenNow(j) => Team!IsOpen(j) /\ invitations'[j] = invitations[j]
  BY <1>6, <1>8 DEF OpenNow, Team!IsOpen
<1>12. TeamByOver' /\ \A d \in Calls \ {c} : TeamRead(d)'
  BY <1>4, <1>8, <1>9, <1>11, TeamOthers
<1>13. TeamRead(c)'
  BY <1>3, <1>4, TeamReadOver
<1>14. OpenedApart'
  <2>1. \A j \in DOMAIN invitations : \A x \in Calls : OpensNow(x, j) => Opens(x, j)
    BY <1>1, <1>4, <1>8, <1>11 DEF OpensNow, Opens, Accepting, TeamProceeds
  <2> QED BY <1>4, <1>8, <2>1, TeamApart
<1>15. Team!InvitedCanJoin'
  BY <1>1 DEF Team!InvitedCanJoin, Team!Usable
<1>16. \A d \in Calls : TeamRead(d)'
  BY <1>12, <1>13
<1> QED BY <1>4, <1>9, <1>10, <1>12, <1>14, <1>15, <1>16, TeamOrder DEF TeamInv

\* A replacement leaves the assignments of one call.
LEMMA TeamReplaceAssignments ==
  ASSUME TeamInv, NEW c \in Calls, Team!ReplaceAssignments(c)
  PROVE  TeamInv'
<1> DEFINE at == "done"
<1>1. PICK stations \in SUBSET Stations, isAttendant \in BOOLEAN :
        Team!Assign(c, [by : {c}, station : stations, isAttendant : {isAttendant}])
  BY DEF Team!ReplaceAssignments
<1>2. /\ user' = user /\ member' = member /\ invitations' = invitations
      /\ teamCalls[c].at = "replace" /\ Team!Goto(c, at) /\ teamCalls[c].at # "idle" /\ ~ Team!Over(c)
      /\ at \in TeamAts /\ at # "idle" /\ at # "accept"
  BY DEF Team!ReplaceAssignments, TeamAts, Team!Over
<1>3. at = "done"
  OBVIOUS
<1> HIDE DEF at
<1>4. TeamProceeds(c) /\ teamCalls'[c].at = at /\ OverNow(c) /\ teamCalls'[c].after = teamCalls[c].after
  BY <1>2, <1>3, TeamGoesOn DEF OverNow
<1>5. /\ assigned' \subseteq Team!Assignments /\ attendant' \subseteq Stations /\ unsynced' = FALSE
      /\ \A a \in assigned' : a \in assigned \/ (a.by = c /\ OverNow(c))
      /\ Team!OneAssignment' /\ Team!AttendantFollows'
  BY <1>1, <1>2, <1>4, TeamAssigned
<1>6. TeamTyped'
  BY <1>2, <1>4, <1>5 DEF TeamInv, TeamTyped, TeamProceeds
<1>7. \A i \in DOMAIN invitations : OpenNow(i) => Team!IsOpen(i)
  BY <1>2 DEF OpenNow, Team!IsOpen
<1>8. TeamByOver' /\ \A d \in Calls \ {c} : TeamRead(d)'
  BY <1>2, <1>4, <1>5, <1>7, TeamOthers
<1>9. TeamRead(c)' /\ OpenedApart' /\ Team!InvitedCanJoin'
  BY <1>2, <1>3, <1>4, TeamReadOver, TeamApartRead, TeamJoinKept
<1>10. \A d \in Calls : TeamRead(d)'
  BY <1>8, <1>9
<1> QED BY <1>4, <1>5, <1>6, <1>8, <1>9, <1>10, TeamOrder DEF TeamInv

\* A manager writes the member, and ends assignments at most.
LEMMA TeamManaged ==
  ASSUME TeamInv, NEW c \in Calls, Team!Begin(c, "done", Team!NoOne, {}),
         user # Team!NoOne, user' \in Team!UserStatuses, invitations' = invitations, attendant' = attendant,
         member' = member \/ \E status \in Team!MembershipStatuses : member' = [status |-> status, by |-> c],
         \/ assigned' = assigned /\ unsynced' = unsynced
         \/ assigned' = {} /\ unsynced' = (unsynced \/ Team!AttendantStations(assigned) # {})
  PROVE  TeamInv'
<1> DEFINE at == "done"
           none == Team!NoOne
           nothing == {}
<1>1. /\ Team!Begin(c, at, none, nothing) /\ at \in TeamAts /\ at # "idle" /\ at # "accept"
      /\ none \in Calls \cup {Team!NoOne} /\ nothing \in SUBSET Team!Assignments
  BY DEF TeamAts
<1>2. at = "done"
  OBVIOUS
<1> HIDE DEF at, none, nothing
<1>3. TeamProceeds(c) /\ teamCalls'[c].at = at /\ teamCalls[c].at = "idle"
  BY <1>1, TeamBegun
<1>4. assigned' \subseteq assigned /\ unsynced' \in BOOLEAN
  BY DEF TeamInv, TeamTyped
<1>5. member' \in MemberRow /\ user' # Team!NoOne
  BY DEF TeamInv, TeamTyped, MemberRow, Team!UserStatuses, Team!NoOne
<1>6. TeamTyped'
  BY <1>3, <1>4, <1>5 DEF TeamInv, TeamTyped, TeamProceeds
<1>7. \A i \in DOMAIN invitations : OpenNow(i) => Team!IsOpen(i)
  BY DEF OpenNow, Team!IsOpen
<1>8. TeamByOver' /\ \A d \in Calls \ {c} : TeamRead(d)'
  BY <1>3, <1>4, <1>7, TeamOthers
<1>9. TeamRead(c)' /\ OpenedApart'
  BY <1>1, <1>2, <1>3, TeamReadOver, TeamApartRead
<1>10. Team!InvitedCanJoin'
  <2>1. CASE member' = member
    BY <1>3, <2>1, TeamJoinKept
  <2>2. CASE \E status \in Team!MembershipStatuses : member' = [status |-> status, by |-> c]
    <3>1. c \notin DOMAIN invitations /\ member'.by = c
      BY <1>3, <2>2 DEF TeamInv, TeamByOver, Team!Over
    <3> QED BY <3>1 DEF Team!InvitedCanJoin, Team!Usable
  <2> QED BY <2>1, <2>2
<1>11. Team!AttendantFollows'
  BY DEF TeamInv, Team!AttendantFollows, Team!AttendantStations
<1>12. \A d \in Calls : TeamRead(d)'
  BY <1>8, <1>9
<1> QED BY <1>3, <1>4, <1>6, <1>8, <1>9, <1>10, <1>11, <1>12, TeamOrder, TeamAssignmentsKept DEF TeamInv

\* A manager changes the status, the role or the assignments of the member.
LEMMA TeamManagerSteps ==
  ASSUME TeamInv, NEW c \in Calls, Team!UpdateTeamMember(c) \/ Team!AssignMembership(c)
  PROVE  TeamInv'
<1>1. user \in Team!UserStatuses \cup {Team!NoOne} /\ unsynced \in BOOLEAN
  BY DEF TeamInv, TeamTyped
<1>2. CASE Team!AssignMembership(c)
  <2>1. /\ user # Team!NoOne /\ Team!Begin(c, "done", Team!NoOne, {})
        /\ user' = user /\ invitations' = invitations /\ attendant' = attendant /\ assigned' = assigned
        /\ unsynced' = unsynced
        /\ \E status \in Team!MembershipStatuses : member' = [status |-> status, by |-> c]
    BY <1>2 DEF Team!AssignMembership, Team!WriteMember
  <2> QED BY <1>1, <2>1, TeamManaged
<1>3. CASE Team!UpdateTeamMember(c)
  <2>1. /\ user # Team!NoOne /\ Team!Begin(c, "done", Team!NoOne, {})
        /\ invitations' = invitations /\ attendant' = attendant
    BY <1>3 DEF Team!UpdateTeamMember
  <2>2. PICK status \in Team!UserStatuses \cup {Team!NoOne}, endsAssignments \in BOOLEAN :
          /\ IF status = Team!NoOne THEN user' = user /\ member' = member
             ELSE /\ user' = status
                  /\ IF member.status = Team!NoOne THEN member' = member
                     ELSE member' = [status |-> Team!MembershipOf[status], by |-> c]
          /\ IF endsAssignments
             THEN /\ assigned' = {}
                  /\ unsynced' = (unsynced \/ Team!AttendantStations(assigned) # {})
             ELSE assigned' = assigned /\ unsynced' = unsynced
    BY <1>3 DEF Team!UpdateTeamMember, Team!WriteMember
  <2>3. status # Team!NoOne => Team!MembershipOf[status] \in Team!MembershipStatuses
    BY DEF Team!MembershipOf, Team!MembershipStatuses, Team!UserStatuses
  <2>4. user' \in Team!UserStatuses
    BY <1>1, <2>1, <2>2
  <2>5. member' = member \/ \E s \in Team!MembershipStatuses : member' = [status |-> s, by |-> c]
    BY <2>2, <2>3
  <2>6. \/ assigned' = assigned /\ unsynced' = unsynced
        \/ assigned' = {} /\ unsynced' = (unsynced \/ Team!AttendantStations(assigned) # {})
    BY <2>2
  <2> QED BY <2>1, <2>4, <2>5, <2>6, TeamManaged
<1> QED BY <1>2, <1>3

\* Time closes invitations.
LEMMA TeamExpire ==
  ASSUME TeamInv, NEW i \in DOMAIN invitations, Team!Expire(i)
  PROVE  TeamInv'
<1>1. /\ user' = user /\ member' = member /\ assigned' = assigned /\ attendant' = attendant /\ unsynced' = unsynced
      /\ teamCalls' = teamCalls /\ invitations' = [invitations EXCEPT ![i].expired = TRUE]
  BY DEF Team!Expire
<1>2. invitations \in [DOMAIN invitations -> InvitationRow]
  BY DEF TeamInv, TeamTyped
<1>3. /\ DOMAIN invitations' = DOMAIN invitations /\ invitations' \in [DOMAIN invitations' -> InvitationRow]
      /\ \A j \in DOMAIN invitations :
           /\ invitations'[j].status = invitations[j].status /\ invitations'[j].by = invitations[j].by
           /\ invitations'[j].seeds = invitations[j].seeds
  BY <1>1, <1>2 DEF InvitationRow
<1>4. TeamTyped' /\ TeamAfterOver'
  BY <1>1, <1>3 DEF TeamInv, TeamTyped, TeamAfterOver, Team!Over
<1>5. TeamByOver'
  BY <1>1, <1>3 DEF TeamInv, TeamByOver, Team!Over, Team!IsOpen
<1>6. OpenedApart'
  <2>1. \A j \in DOMAIN invitations : \A x \in Calls : OpensNow(x, j) <=> Opens(x, j)
    BY <1>1, <1>3 DEF OpensNow, Opens, OpenNow, Team!IsOpen, Accepting
  <2>2. \A x, y : ApartNow(x, y) <=> Team!Overlap(x, y)
    BY <1>1 DEF ApartNow, Team!Overlap
  <2>3. \A j, k \in DOMAIN invitations : \A x, y \in Calls :
          j # k /\ OpensNow(x, j) /\ OpensNow(y, k) => ApartNow(j, k) \/ ApartNow(j, y) \/ ApartNow(k, x)
    BY <2>1, <2>2 DEF TeamInv, OpenedApart
  <2> QED BY <1>3, <2>3 DEF OpenedApart, Opens, OpensNow, Accepting, Team!IsOpen, OpenNow, Team!Overlap, ApartNow
<1>7. ASSUME NEW c \in Calls PROVE TeamRead(c)'
  <2>1. TeamRead(c)
    BY DEF TeamInv
  <2> QED BY <1>1, <1>3, <2>1 DEF TeamRead, Team!IsOpen
<1>8. Team!OneAssignment' /\ Team!AttendantFollows'
  BY <1>1 DEF TeamInv, Team!OneAssignment, Team!Overlap, Team!AttendantFollows, Team!AttendantStations
<1>9. Team!InvitedCanJoin'
  BY <1>1, <1>3 DEF TeamInv, Team!InvitedCanJoin, Team!Usable, Team!IsOpen
<1> QED BY <1>4, <1>5, <1>6, <1>7, <1>8, <1>9 DEF TeamInv

\* Every step of the team preserves its invariant.
LEMMA TeamStep == ASSUME TeamInv, [Team!Next]_(Team!vars) PROVE TeamInv'
<1>1. CASE UNCHANGED Team!vars
  <2> USE <1>1 DEF Team!vars, TeamInv
  <2>1. TeamTyped' /\ TeamAfterOver' /\ TeamByOver'
    BY DEF TeamTyped, TeamAfterOver, TeamByOver, Team!Over, Team!IsOpen
  <2>2. OpenedApart'
    BY DEF OpenedApart, Opens, Accepting, Team!IsOpen, Team!Overlap
  <2>3. \A c \in Calls : TeamRead(c)'
    BY DEF TeamRead, Team!IsOpen
  <2>4. Team!OneAssignment' /\ Team!InvitedCanJoin' /\ Team!AttendantFollows'
    BY DEF Team!OneAssignment, Team!Overlap, Team!AttendantFollows, Team!AttendantStations, Team!InvitedCanJoin, Team!Usable,
      Team!IsOpen
  <2> QED BY <2>1, <2>2, <2>3, <2>4
<1>2. CASE Team!Next
  BY <1>2, TeamReadSteps, TeamRevokeOpen, TeamCreateInvitation, TeamWriteAccepted, TeamCommitActivation,
    TeamManagerSteps, TeamReplaceAssignments, TeamExpire
  DEF Team!Next
<1> QED BY <1>1, <1>2

\* What the invariant of the team says of it.
LEMMA TeamProperties ==
  ASSUME TeamInv
  PROVE  /\ Team!TypeOK /\ Team!OneOpenInvitation /\ Team!OneAssignment /\ Team!InvitedCanJoin
         /\ Team!AttendantFollows
<1>1. Team!TypeOK
  BY DEF TeamInv, TeamTyped, Team!TypeOK, TeamCall, TeamAts, InvitationRow, MemberRow
<1>2. Team!OneOpenInvitation
  <2> SUFFICES ASSUME NEW i \in DOMAIN invitations, NEW j \in DOMAIN invitations, i # j, Team!IsOpen(i), Team!IsOpen(j)
               PROVE  \/ Team!Overlap(i, j)
                      \/ Team!Overlap(i, invitations[j].by) \/ Team!Overlap(j, invitations[i].by)
    BY DEF Team!OneOpenInvitation
  <2>1. /\ Opens(invitations[i].by, i) /\ Opens(invitations[j].by, j)
        /\ invitations[i].by \in Calls /\ invitations[j].by \in Calls
    BY DEF Opens, TeamInv, TeamTyped, InvitationRow
  <2> QED BY <2>1 DEF TeamInv, OpenedApart
<1> QED BY <1>1, <1>2 DEF TeamInv

----------------------------------------------------------------------------
(* The onboarding of a tenant                                              *)

Paid == "PAYMENT_CONFIRMED_PENDING_ACTIVATION"
QuoteAccepted == "QUOTE_ACCEPTED_PENDING_ACTIVATION"

ApplicationRow == [stage : Onboarding!Stages, tier : Tiers \cup {Onboarding!Nothing},
                   intent : Onboarding!Keys \cup {Onboarding!Nothing}, approved : BOOLEAN, org : Nat]

IntentRow == [tier : Tiers \cup {Onboarding!Nothing}, status : {"PENDING", "SETTLED", "FAILED"}, settled : BOOLEAN]

OrganizationRow == [tier : Tiers, paid : BOOLEAN, names : SUBSET (Subdomains \cup Domains)]

OnboardingAts == {"idle", "stage", "tier", "pay", "sync", "link", "provision", "join", "move", "complete"}

OnboardingCall == [at : OnboardingAts, stage : Onboarding!Stages \cup {Onboarding!Nothing},
                   tier : Tiers \cup {Onboarding!Nothing}, intent : Onboarding!Keys \cup {Onboarding!Nothing},
                   names : SUBSET (Subdomains \cup Domains), org : Nat, stale : BOOLEAN]

OnboardingTyped ==
  /\ app \in ApplicationRow /\ app.org \in {0} \cup members
  /\ claim \subseteq Subdomains \cup Domains
  /\ DOMAIN payments \subseteq Onboarding!Keys /\ Onboarding!Foreign \in DOMAIN payments
  /\ payments \in [DOMAIN payments -> IntentRow]
  /\ app.intent \in DOMAIN payments \cup {Onboarding!Nothing}
  /\ orgs \in Seq(OrganizationRow) /\ Len(orgs) <= MaxOrganizations
  /\ members \subseteq 1..Len(orgs) /\ home \in 0..Len(orgs)
  /\ onboarding \in [Applying -> OnboardingCall]
  /\ unusual \subseteq {"race", "foreign", "reopened", "died"}
  /\ app.stage = "COMPLETED" => app.org \in members

PaymentsFit ==
  \A k \in DOMAIN payments :
    /\ payments[k].status = "SETTLED" => payments[k].settled
    /\ k # Onboarding!Foreign => payments[k].tier \in Tiers

\* What a call remembers suits what it is at.
CallFits(c) ==
  LET call == onboarding[c]
  IN  /\ IF call.at = "idle" THEN call = Onboarding!Idle ELSE call.stage \in Onboarding!Stages
      /\ call.org \in 0..Len(orgs)
      /\ call.at = "stage" => call.stage \in {"UNDER_REVIEW", "REJECTED", "APPROVED_PENDING_TIER", QuoteAccepted}
      /\ call.at = "tier" =>
           /\ call.tier \in Tiers
           /\ call.stage = IF call.tier \in Custom THEN "QUOTE_PENDING" ELSE "TIER_CONFIRMED_PENDING_PAYMENT"
      /\ call.at = "pay" => call.tier \in Tiers /\ call.intent \in DOMAIN payments \cup {Onboarding!Nothing}
      /\ call.at \in {"sync", "link"} => call.intent \in DOMAIN payments
      /\ call.at = "link" =>
           /\ call.stage \in {Paid, "TIER_CONFIRMED_PENDING_PAYMENT"}
           /\ call.stage = Paid => payments[call.intent].settled
      /\ call.at = "provision" => call.tier \in Tiers /\ call.stage \in Onboarding!Activatable
      /\ call.at \in {"join", "move", "complete"} => call.org # 0
      /\ call.at \in {"move", "complete"} => call.org \in members

\* What a call has read of the row is there unless the row was written since.
ReadOfRow(c) ==
  LET call == onboarding[c]
  IN  /\ call.at = "pay" => call.tier = app.tier
      /\ call.at = "stage" /\ ~ call.stale =>
           IF call.stage = QuoteAccepted THEN app.stage = "QUOTE_PENDING" ELSE app.stage \in Onboarding!Reviewable
      /\ call.at = "tier" /\ ~ call.stale => app.stage = "APPROVED_PENDING_TIER"
      /\ call.at = "provision" /\ ~ call.stale =>
           /\ app.stage = call.stage /\ app.tier = call.tier
           /\ \A o \in 1..call.org : o = app.org \/ orgs[o].names \cap call.names = {}

\* One activation is under way at a time, of an application that is not completed.
ActivatesAlone(c) ==
  Onboarding!Activating(c) =>
    /\ app.stage # "COMPLETED"
    /\ \A d \in Applying \ {c} : ~ Onboarding!Activating(d)
    /\ onboarding[c].at = "complete" => home = onboarding[c].org

\* The row and what was made of it
RowAlone ==
  /\ app.stage \in Onboarding!Reviewable => app.tier = Onboarding!Nothing
  /\ app.stage = "APPROVED_PENDING_TIER" => app.approved /\ app.tier = Onboarding!Nothing
  /\ app.tier # Onboarding!Nothing => app.approved
  /\ orgs # << >> => app.tier # Onboarding!Nothing
  /\ app.org # 0 => app.stage = "COMPLETED" \/ "reopened" \in unusual
  /\ app.stage = "COMPLETED" => home = app.org
  /\ \A k \in DOMAIN payments \ {Onboarding!Foreign} : payments[k].tier = app.tier
  /\ orgs # << >> =>
       \/ app.stage = "COMPLETED" \/ unusual \cap {"reopened", "died"} # {}
       \/ \E c \in Applying : Onboarding!Activating(c)

\* Nothing has raced.
Alone == "race" \notin unusual => RowAlone /\ \A c \in Applying : ReadOfRow(c) /\ ActivatesAlone(c)

\* Nothing has raced, and no sync has named another payment.
OwnPayments ==
  unusual \cap {"race", "foreign"} = {} =>
    /\ app.intent # Onboarding!Foreign /\ \A c \in Applying : onboarding[c].intent # Onboarding!Foreign
    /\ app.stage \in {"QUOTE_PENDING", QuoteAccepted} => app.tier \in Custom
    /\ app.stage = Paid => app.intent # Onboarding!Nothing /\ payments[app.intent].settled

OnboardingInv ==
  /\ OnboardingTyped /\ PaymentsFit /\ Alone /\ OwnPayments
  /\ \A c \in Applying : CallFits(c)
  /\ Onboarding!OneOrganization /\ Onboarding!PaidForItsTier
  /\ "race" \in unusual \/ orgs = << >> \/ app.approved

\* The names of the model differ from each other.
LEMMA OnboardingNames ==
  /\ MaxOrganizations \in Nat /\ Onboarding!Nothing \notin Tiers /\ Onboarding!Nothing # Onboarding!Foreign
  /\ \A t \in Tiers : \A k \in PaymentKeys[t] :
       k \in Onboarding!Keys /\ k # Onboarding!Nothing /\ k # Onboarding!Foreign
  /\ Onboarding!Nothing \notin Onboarding!Keys
  /\ Onboarding!Idle \in OnboardingCall /\ Onboarding!Idle.at = "idle" /\ Onboarding!Idle.org = 0
  /\ Onboarding!Idle.intent = Onboarding!Nothing
  /\ Onboarding!Foreign \in Onboarding!Keys
<1>1. /\ MaxOrganizations \in Nat /\ Onboarding!Nothing \notin Tiers /\ Onboarding!Nothing # Onboarding!Foreign
      /\ \A t \in Tiers : \A k \in PaymentKeys[t] :
           k \in Onboarding!Keys /\ k # Onboarding!Nothing /\ k # Onboarding!Foreign
      /\ Onboarding!Foreign \in Onboarding!Keys /\ Onboarding!Nothing \notin Onboarding!Keys
  <2>1. /\ MaxOrganizations \in Nat /\ Onboarding!Nothing \notin Tiers
        /\ \A t \in Tiers : {Onboarding!Nothing, Onboarding!Foreign} \cap PaymentKeys[t] = {}
    BY RecordsAssumption DEF Onboarding!OnboardingAssumption
  <2>2. Onboarding!Nothing # Onboarding!Foreign
    BY DEF Onboarding!Nothing, Onboarding!Foreign
  <2>3. /\ Onboarding!Foreign \in Onboarding!Keys
        /\ \A t \in Tiers : \A k \in PaymentKeys[t] : k \in Onboarding!Keys
    <3> DEFINE all == UNION {PaymentKeys[t] : t \in Tiers}
    <3>1. ASSUME NEW t \in Tiers, NEW k \in PaymentKeys[t] PROVE k \in all
      <4>1. PaymentKeys[t] \in {PaymentKeys[u] : u \in Tiers}
        OBVIOUS
      <4> QED BY <4>1
    <3>2. Onboarding!Keys = all \cup {Onboarding!Foreign}
      BY DEF Onboarding!Keys
    <3> HIDE DEF all
    <3> QED BY <3>1, <3>2
  <2>4. ASSUME NEW t \in Tiers, NEW k \in PaymentKeys[t] PROVE k # Onboarding!Nothing /\ k # Onboarding!Foreign
    BY <2>1
  <2>5. Onboarding!Nothing \notin Onboarding!Keys
    <3>1. ASSUME NEW k \in UNION {PaymentKeys[t] : t \in Tiers} PROVE k # Onboarding!Nothing
      <4>1. PICK t \in Tiers : k \in PaymentKeys[t]
        OBVIOUS
      <4> QED BY <2>4, <4>1
    <3> DEFINE all == UNION {PaymentKeys[t] : t \in Tiers}
    <3>2. Onboarding!Keys = all \cup {Onboarding!Foreign}
      BY DEF Onboarding!Keys
    <3>3. \A k \in all : k # Onboarding!Nothing
      BY <3>1
    <3> HIDE DEF all
    <3> QED BY <2>2, <3>2, <3>3
  <2> QED BY <2>1, <2>2, <2>3, <2>4, <2>5
<1>2. /\ Onboarding!Idle \in OnboardingCall /\ Onboarding!Idle.at = "idle" /\ Onboarding!Idle.org = 0
      /\ Onboarding!Idle.intent = Onboarding!Nothing
  BY DEF Onboarding!Idle, OnboardingCall, OnboardingAts
<1> QED BY <1>1, <1>2

\* Names are subdomains and domains.
LEMMA NamesAreNames == \A names \in Onboarding!Names : names \subseteq Subdomains \cup Domains
<1>1. ASSUME NEW S, NEW x \in Onboarding!AtMostOne(S) PROVE x \subseteq S
  BY DEF Onboarding!AtMostOne
<1> QED BY <1>1 DEF Onboarding!Names

\* The application is a draft and nothing was paid.
LEMMA OnboardingInit == Onboarding!Init => OnboardingInv
<1> SUFFICES ASSUME Onboarding!Init PROVE OnboardingInv
  OBVIOUS
<1>1. /\ app.stage = "SUBMITTED" /\ app.tier = Onboarding!Nothing /\ app.intent = Onboarding!Nothing
      /\ app.org = 0 /\ app \in ApplicationRow
      /\ claim \in Onboarding!Names /\ orgs = << >> /\ members = {} /\ home = 0 /\ unusual = {}
  BY DEF Onboarding!Init, ApplicationRow, Onboarding!Stages, Onboarding!Reviewable
<1>2. onboarding = [c \in Applying |-> Onboarding!Idle]
  BY DEF Onboarding!Init
<1>3. /\ DOMAIN payments = {Onboarding!Foreign} /\ payments \in [DOMAIN payments -> IntentRow]
      /\ payments[Onboarding!Foreign].settled
  BY DEF Onboarding!Init, IntentRow
<1>4. orgs \in Seq(OrganizationRow) /\ Len(orgs) = 0
  BY <1>1
<1>5. OnboardingTyped /\ PaymentsFit
  <2>1. claim \subseteq Subdomains \cup Domains
    BY <1>1, NamesAreNames
  <2> QED BY <1>1, <1>2, <1>3, <1>4, <2>1, OnboardingNames DEF OnboardingTyped, PaymentsFit
<1>6. \A c \in Applying : CallFits(c) /\ ~ Onboarding!Activating(c)
  BY <1>2, <1>4, OnboardingNames DEF CallFits, Onboarding!Activating, QuoteAccepted, Paid
<1>7. RowAlone
  BY <1>1, <1>3 DEF RowAlone
<1>8. \A c \in Applying : ReadOfRow(c) /\ ActivatesAlone(c)
  BY <1>2, <1>6, OnboardingNames DEF ReadOfRow, ActivatesAlone
<1>9. OwnPayments
  BY <1>1, <1>2, OnboardingNames DEF OwnPayments, QuoteAccepted, Paid
<1>10. Onboarding!OneOrganization /\ Onboarding!PaidForItsTier
  BY <1>1, <1>4 DEF Onboarding!OneOrganization, Onboarding!PaidForItsTier
<1> QED BY <1>1, <1>5, <1>6, <1>7, <1>8, <1>9, <1>10 DEF OnboardingInv, Alone

\* What a call remembers stays, but for the row being written.
CallStays(d) ==
  /\ onboarding'[d].at = onboarding[d].at /\ onboarding'[d].stage = onboarding[d].stage
  /\ onboarding'[d].tier = onboarding[d].tier /\ onboarding'[d].intent = onboarding[d].intent
  /\ onboarding'[d].org = onboarding[d].org /\ onboarding'[d].names = onboarding[d].names
  /\ onboarding[d].at = "idle" => onboarding'[d] = onboarding[d]

\* What has been made and settled stays.
RecordsGrow ==
  /\ members \subseteq members' /\ Len(orgs') \in Nat /\ Len(orgs) <= Len(orgs')
  /\ DOMAIN payments \subseteq DOMAIN payments'
  /\ \A k \in DOMAIN payments : payments'[k].tier = payments[k].tier /\ (payments[k].settled => payments'[k].settled)

\* What a call knows stays true while records are only added.
LEMMA CallStaysFit ==
  ASSUME OnboardingInv, NEW d \in Applying, CallStays(d), RecordsGrow
  PROVE  CallFits(d)'
<1>1. CallFits(d) /\ Len(orgs) \in Nat
  BY DEF OnboardingInv, OnboardingTyped
<1> QED BY <1>1 DEF CallFits, CallStays, RecordsGrow

\* A step of one call leaves the others where they are.
LEMMA OneCallWritten ==
  ASSUME OnboardingInv, NEW c \in Applying, NEW call \in OnboardingCall, onboarding' = [onboarding EXCEPT ![c] = call]
  PROVE  /\ onboarding' \in [Applying -> OnboardingCall] /\ onboarding'[c] = call
         /\ \A d \in Applying \ {c} : onboarding'[d] = onboarding[d] /\ CallStays(d)
  BY DEF OnboardingInv, OnboardingTyped, CallStays

\* A call that reads the row is let in.
LEMMA OnboardingReads ==
  ASSUME OnboardingInv, NEW c \in Applying, NEW call \in OnboardingCall, Onboarding!Read(c, call),
         call.at \in {"stage", "tier", "pay", "sync", "provision"},
         unusual' = unusual \/ unusual' = unusual \cup {"foreign"},
         call.intent = Onboarding!Foreign => app.intent = Onboarding!Foreign \/ "foreign" \in unusual',
         CallFits(c)', ReadOfRow(c)'
  PROVE  OnboardingInv'
<1>1. /\ onboarding[c] = Onboarding!Idle /\ onboarding' = [onboarding EXCEPT ![c] = call]
      /\ app' = app /\ claim' = claim /\ payments' = payments /\ orgs' = orgs /\ members' = members /\ home' = home
      /\ "race" \notin unusual
  BY DEF Onboarding!Read
<1>2. /\ onboarding' \in [Applying -> OnboardingCall] /\ onboarding'[c] = call
      /\ \A d \in Applying \ {c} : onboarding'[d] = onboarding[d] /\ CallStays(d)
  BY <1>1, OneCallWritten
<1>3. RecordsGrow
  BY <1>1 DEF RecordsGrow, OnboardingInv, OnboardingTyped
<1>4. OnboardingTyped' /\ PaymentsFit'
  BY <1>1, <1>2 DEF OnboardingInv, OnboardingTyped, PaymentsFit
<1>5. \A d \in Applying : CallFits(d)'
  BY <1>2, <1>3, CallStaysFit
<1>6. RowAlone /\ \A d \in Applying : ReadOfRow(d) /\ ActivatesAlone(d)
  BY <1>1 DEF OnboardingInv, Alone
<1>7. \A d \in Applying : Onboarding!Activating(d)' <=> Onboarding!Activating(d)
  BY <1>1, <1>2, OnboardingNames DEF Onboarding!Activating
<1>8. RowAlone'
  BY <1>1, <1>6, <1>7 DEF RowAlone
<1>9. \A d \in Applying \ {c} : ReadOfRow(d)'
  BY <1>1, <1>2, <1>6 DEF ReadOfRow
<1>10. \A d \in Applying : ActivatesAlone(d)'
  BY <1>1, <1>2, <1>6, <1>7 DEF ActivatesAlone, Onboarding!Activating
<1>11. Alone'
  BY <1>8, <1>9, <1>10 DEF Alone
<1>12. OwnPayments'
  BY <1>1, <1>2 DEF OnboardingInv, OwnPayments
<1>13. Onboarding!OneOrganization' /\ Onboarding!PaidForItsTier'
  BY <1>1 DEF OnboardingInv, Onboarding!OneOrganization, Onboarding!PaidForItsTier
<1> QED BY <1>1, <1>4, <1>5, <1>11, <1>12, <1>13 DEF OnboardingInv

\* The call that At makes
LEMMA AtFits ==
  ASSUME OnboardingInv, NEW at \in OnboardingAts, NEW stage \in Onboarding!Stages,
         NEW tier \in Tiers \cup {Onboarding!Nothing}, NEW intent \in Onboarding!Keys \cup {Onboarding!Nothing},
         NEW names \in SUBSET (Subdomains \cup Domains)
  PROVE  LET call == Onboarding!At(at, stage, tier, intent, names)
         IN  /\ call \in OnboardingCall /\ call.at = at /\ call.stage = stage /\ call.tier = tier
             /\ call.intent = intent /\ call.names = names /\ ~ call.stale
             /\ call.org = IF at = "provision" THEN Len(orgs) ELSE 0
<1>1. Len(orgs) \in Nat
  BY DEF OnboardingInv, OnboardingTyped
<1> QED BY <1>1 DEF Onboarding!At, OnboardingCall

\* A call that has read is where it is, and knows what it has read.
LEMMA ReadFits ==
  ASSUME OnboardingInv, NEW c \in Applying, NEW at \in OnboardingAts, at # "idle", NEW stage \in Onboarding!Stages,
         NEW tier \in Tiers \cup {Onboarding!Nothing}, NEW intent \in Onboarding!Keys \cup {Onboarding!Nothing},
         NEW names \in SUBSET (Subdomains \cup Domains),
         Onboarding!Read(c, Onboarding!At(at, stage, tier, intent, names))
  PROVE  /\ Onboarding!At(at, stage, tier, intent, names) \in OnboardingCall
         /\ Onboarding!At(at, stage, tier, intent, names).at = at
         /\ Onboarding!At(at, stage, tier, intent, names).intent = intent
         /\ onboarding'[c].at = at /\ onboarding'[c].stage = stage /\ onboarding'[c].tier = tier
         /\ onboarding'[c].intent = intent /\ onboarding'[c].names = names /\ ~ onboarding'[c].stale
         /\ onboarding'[c].org = IF at = "provision" THEN Len(orgs) ELSE 0
         /\ app' = app /\ claim' = claim /\ payments' = payments /\ orgs' = orgs /\ members' = members
         /\ Len(orgs) \in Nat
<1> DEFINE call == Onboarding!At(at, stage, tier, intent, names)
<1>1. /\ call \in OnboardingCall /\ call.at = at /\ call.stage = stage /\ call.tier = tier
      /\ call.intent = intent /\ call.names = names /\ ~ call.stale
      /\ call.org = IF at = "provision" THEN Len(orgs) ELSE 0
  BY AtFits
<1>2. /\ onboarding' = [onboarding EXCEPT ![c] = call]
      /\ app' = app /\ claim' = claim /\ payments' = payments /\ orgs' = orgs /\ members' = members
  BY DEF Onboarding!Read
<1> HIDE DEF call
<1>3. onboarding'[c] = call
  BY <1>1, <1>2, OneCallWritten
<1>4. Len(orgs) \in Nat
  BY DEF OnboardingInv, OnboardingTyped
<1> QED BY <1>1, <1>2, <1>3, <1>4 DEF call

\* What a call reads is what the application is.
LEMMA OnboardingReadSteps ==
  ASSUME OnboardingInv, NEW c \in Applying,
         \/ Onboarding!ReadForReview(c) \/ Onboarding!ReadForQuote(c) \/ Onboarding!ReadForTier(c)
         \/ Onboarding!ReadForPayment(c) \/ Onboarding!ReadForSync(c) \/ Onboarding!ReadForActivation(c)
  PROVE  OnboardingInv'
<1> DEFINE nothing == Onboarding!Nothing
<1>1. /\ app \in ApplicationRow /\ app.intent \in DOMAIN payments \cup {nothing}
      /\ DOMAIN payments \subseteq Onboarding!Keys /\ Onboarding!Foreign \in DOMAIN payments
  BY DEF OnboardingInv, OnboardingTyped
<1>2. /\ nothing \in Tiers \cup {Onboarding!Nothing} /\ nothing \in Onboarding!Keys \cup {Onboarding!Nothing}
      /\ nothing # Onboarding!Foreign /\ {} \in SUBSET (Subdomains \cup Domains)
  BY OnboardingNames
<1>3. ASSUME NEW at \in {"stage", "tier", "pay", "sync", "provision"}, NEW stage \in Onboarding!Stages,
             NEW tier \in Tiers \cup {Onboarding!Nothing}, NEW intent \in Onboarding!Keys \cup {Onboarding!Nothing},
             NEW names \in SUBSET (Subdomains \cup Domains),
             Onboarding!Read(c, Onboarding!At(at, stage, tier, intent, names)),
             unusual' = unusual \/ unusual' = unusual \cup {"foreign"},
             intent = Onboarding!Foreign => app.intent = Onboarding!Foreign \/ "foreign" \in unusual',
             \* what CallFits and ReadOfRow say of it
             at = "stage" =>
               \/ stage = QuoteAccepted /\ app.stage = "QUOTE_PENDING"
               \/ /\ stage \in {"UNDER_REVIEW", "REJECTED", "APPROVED_PENDING_TIER"}
                  /\ app.stage \in Onboarding!Reviewable,
             at = "tier" =>
               /\ tier \in Tiers /\ app.stage = "APPROVED_PENDING_TIER"
               /\ stage = IF tier \in Custom THEN "QUOTE_PENDING" ELSE "TIER_CONFIRMED_PENDING_PAYMENT",
             at = "pay" => tier \in Tiers /\ tier = app.tier /\ intent \in DOMAIN payments \cup {Onboarding!Nothing},
             at = "sync" => intent \in DOMAIN payments,
             at = "provision" =>
               /\ tier \in Tiers /\ tier = app.tier /\ stage = app.stage /\ stage \in Onboarding!Activatable
               /\ \A o \in 1..Len(orgs) : o = app.org \/ orgs[o].names \cap names = {}
      PROVE  OnboardingInv'
  <2> DEFINE call == Onboarding!At(at, stage, tier, intent, names)
  <2>1. at \in OnboardingAts /\ at # "idle" /\ at \notin {"join", "move", "complete", "link"}
    BY DEF OnboardingAts
  <2>2. /\ call \in OnboardingCall /\ call.at = at /\ call.intent = intent
        /\ onboarding'[c].at = at /\ onboarding'[c].stage = stage /\ onboarding'[c].tier = tier
        /\ onboarding'[c].intent = intent /\ onboarding'[c].names = names /\ ~ onboarding'[c].stale
        /\ onboarding'[c].org = IF at = "provision" THEN Len(orgs) ELSE 0
        /\ app' = app /\ claim' = claim /\ payments' = payments /\ orgs' = orgs /\ members' = members
        /\ Len(orgs) \in Nat
    BY <1>3, <2>1, ReadFits
  <2>3. Onboarding!Read(c, call)
    BY <1>3
  <2> HIDE DEF call
  <2>4. CallFits(c)'
    BY <1>3, <2>1, <2>2 DEF CallFits
  <2>5. ReadOfRow(c)'
    BY <1>3, <2>1, <2>2 DEF ReadOfRow, QuoteAccepted
  <2> QED BY <1>3, <2>2, <2>3, <2>4, <2>5, OnboardingReads
<1> HIDE DEF nothing
<1>4. CASE Onboarding!ReadForReview(c)
  <2>1. PICK stage \in {"UNDER_REVIEW", "REJECTED", "APPROVED_PENDING_TIER"} :
          Onboarding!Read(c, Onboarding!At("stage", stage, Onboarding!Nothing, Onboarding!Nothing, {}))
    BY <1>4 DEF Onboarding!ReadForReview
  <2> DEFINE at == "stage"
  <2>2. /\ at \in {"stage", "tier", "pay", "sync", "provision"} /\ at = "stage" /\ stage \in Onboarding!Stages
        /\ Onboarding!Read(c, Onboarding!At(at, stage, nothing, nothing, {}))
        /\ unusual' = unusual /\ app.stage \in Onboarding!Reviewable
    BY <1>4, <2>1 DEF Onboarding!ReadForReview, Onboarding!Stages, Onboarding!Reviewable, nothing
  <2> HIDE DEF at
  <2> QED BY <1>2, <1>3, <2>2
<1>5. CASE Onboarding!ReadForQuote(c)
  <2> DEFINE at == "stage"
             stage == QuoteAccepted
  <2>1. /\ at \in {"stage", "tier", "pay", "sync", "provision"} /\ at = "stage" /\ stage \in Onboarding!Stages
        /\ stage = QuoteAccepted
        /\ Onboarding!Read(c, Onboarding!At(at, stage, nothing, nothing, {}))
        /\ unusual' = unusual /\ app.stage = "QUOTE_PENDING"
    BY <1>5 DEF Onboarding!ReadForQuote, Onboarding!Stages, Onboarding!Activatable, QuoteAccepted, nothing
  <2> HIDE DEF at, stage
  <2> QED BY <1>2, <1>3, <2>1
<1>6. CASE Onboarding!ReadForTier(c)
  <2>1. PICK tier \in Tiers :
          Onboarding!Read(c, Onboarding!At("tier",
            IF tier \in Custom THEN "QUOTE_PENDING" ELSE "TIER_CONFIRMED_PENDING_PAYMENT", tier, Onboarding!Nothing,
            {}))
    BY <1>6 DEF Onboarding!ReadForTier
  <2> DEFINE at == "tier"
             stage == IF tier \in Custom THEN "QUOTE_PENDING" ELSE "TIER_CONFIRMED_PENDING_PAYMENT"
  <2>2. /\ at \in {"stage", "tier", "pay", "sync", "provision"} /\ at = "tier" /\ stage \in Onboarding!Stages
        /\ stage = IF tier \in Custom THEN "QUOTE_PENDING" ELSE "TIER_CONFIRMED_PENDING_PAYMENT"
        /\ tier \in Tiers \cup {Onboarding!Nothing}
        /\ Onboarding!Read(c, Onboarding!At(at, stage, tier, nothing, {}))
        /\ unusual' = unusual /\ app.stage = "APPROVED_PENDING_TIER"
    BY <1>6, <2>1 DEF Onboarding!ReadForTier, Onboarding!Stages, nothing
  <2> HIDE DEF at, stage
  <2> QED BY <1>2, <1>3, <2>2
<1>7. CASE Onboarding!ReadForPayment(c)
  <2> DEFINE at == "pay"
             stage == app.stage
             tier == app.tier
             intent == app.intent
  <2>1. /\ at \in {"stage", "tier", "pay", "sync", "provision"} /\ at = "pay" /\ stage \in Onboarding!Stages
        /\ tier \in Tiers /\ tier \in Tiers \cup {Onboarding!Nothing} /\ tier = app.tier
        /\ intent \in DOMAIN payments \cup {Onboarding!Nothing} /\ intent \in Onboarding!Keys \cup {Onboarding!Nothing}
        /\ intent = app.intent
        /\ Onboarding!Read(c, Onboarding!At(at, stage, tier, intent, {})) /\ unusual' = unusual
    BY <1>1, <1>7 DEF Onboarding!ReadForPayment, ApplicationRow, nothing
  <2> HIDE DEF at, stage, tier, intent
  <2> QED BY <1>2, <1>3, <2>1
<1>8. CASE Onboarding!ReadForSync(c)
  <2>1. PICK intent \in {app.intent, Onboarding!Foreign} \ {Onboarding!Nothing} :
          /\ Onboarding!Read(c, Onboarding!At("sync", app.stage, Onboarding!Nothing, intent, {}))
          /\ unusual' = unusual \cup IF intent = Onboarding!Foreign THEN {"foreign"} ELSE {}
    BY <1>8 DEF Onboarding!ReadForSync, Onboarding!Taken
  <2> DEFINE at == "sync"
             stage == app.stage
  <2>2. /\ at \in {"stage", "tier", "pay", "sync", "provision"} /\ at = "sync" /\ stage \in Onboarding!Stages
        /\ intent \in DOMAIN payments /\ intent \in Onboarding!Keys \cup {Onboarding!Nothing}
        /\ Onboarding!Read(c, Onboarding!At(at, stage, nothing, intent, {}))
        /\ unusual' = unusual \/ unusual' = unusual \cup {"foreign"}
        /\ intent = Onboarding!Foreign => app.intent = Onboarding!Foreign \/ "foreign" \in unusual'
    BY <1>1, <2>1 DEF ApplicationRow, nothing
  <2> HIDE DEF at, stage
  <2> QED BY <1>2, <1>3, <2>2
<1>9. CASE Onboarding!ReadForActivation(c)
  <2> DEFINE at == "provision"
             stage == app.stage
             tier == app.tier
  <2>1. PICK own \in Onboarding!Names :
          /\ Onboarding!Available(Onboarding!Confirmed(own))
          /\ Onboarding!Read(c, Onboarding!At("provision", app.stage, app.tier, Onboarding!Nothing,
                                             Onboarding!Confirmed(own)))
    BY <1>9 DEF Onboarding!ReadForActivation
  <2> DEFINE names == Onboarding!Confirmed(own)
  <2>2. names \in SUBSET (Subdomains \cup Domains)
    <3>1. own \subseteq Subdomains \cup Domains /\ claim \subseteq Subdomains \cup Domains
      BY NamesAreNames DEF OnboardingInv, OnboardingTyped
    <3> QED BY <3>1 DEF Onboarding!Confirmed
  <2>3. \A o \in 1..Len(orgs) : o = app.org \/ orgs[o].names \cap names = {}
    <3>1. DOMAIN orgs = 1..Len(orgs)
      BY DEF OnboardingInv, OnboardingTyped
    <3> QED BY <2>1, <3>1 DEF Onboarding!Available
  <2>4. Onboarding!Read(c, Onboarding!At(at, stage, tier, nothing, names))
    BY <2>1 DEF nothing
  <2> HIDE DEF names
  <2>5. /\ at \in {"stage", "tier", "pay", "sync", "provision"} /\ at = "provision" /\ stage \in Onboarding!Stages
        /\ tier \in Tiers /\ tier \in Tiers \cup {Onboarding!Nothing} /\ tier = app.tier
        /\ stage = app.stage /\ stage \in Onboarding!Activatable /\ unusual' = unusual
    BY <1>1, <1>9 DEF Onboarding!ReadForActivation, ApplicationRow
  <2> HIDE DEF at, stage, tier
  <2> QED BY <1>2, <1>3, <2>2, <2>3, <2>4, <2>5
<1> QED BY <1>4, <1>5, <1>6, <1>7, <1>8, <1>9

----------------------------------------------------------------------------
(* Writing the row *)

\* Every other call has not seen what is written.
LEMMA RowWritten ==
  ASSUME OnboardingInv, NEW c \in Applying, NEW row, Onboarding!Write(c, row)
  PROVE  /\ app' = row /\ payments' = payments /\ orgs' = orgs /\ members' = members /\ home' = home
         /\ onboarding' \in [Applying -> OnboardingCall] /\ onboarding'[c] = Onboarding!Idle
         /\ \A d \in Applying \ {c} : CallStays(d) /\ (onboarding'[d].at # "idle" => onboarding'[d].stale)
         /\ \A d \in Applying : CallFits(d)'
         /\ \A d \in Applying : Onboarding!Activating(d)' <=> d # c /\ Onboarding!Activating(d)
<1>1. /\ app' = row /\ payments' = payments /\ orgs' = orgs /\ members' = members /\ home' = home
      /\ onboarding' = [d \in Applying |-> IF d = c \/ onboarding[d] = Onboarding!Idle THEN Onboarding!Idle
                                           ELSE [onboarding[d] EXCEPT !.stale = TRUE]]
  BY DEF Onboarding!Write
<1>2. ASSUME NEW d \in Applying
      PROVE  /\ onboarding[d] \in OnboardingCall /\ [onboarding[d] EXCEPT !.stale = TRUE] \in OnboardingCall
             /\ onboarding[d].at = "idle" => onboarding[d] = Onboarding!Idle
  BY ZenonT(40) DEF OnboardingInv, OnboardingTyped, OnboardingCall, CallFits
<1>3. onboarding' \in [Applying -> OnboardingCall] /\ onboarding'[c] = Onboarding!Idle
  BY <1>1, <1>2, OnboardingNames
<1>4. ASSUME NEW d \in Applying \ {c}
      PROVE  CallStays(d) /\ (onboarding'[d].at # "idle" => onboarding'[d].stale)
  <2>1. CASE onboarding[d] = Onboarding!Idle
    BY <1>1, <2>1, OnboardingNames DEF CallStays
  <2>2. CASE onboarding[d] # Onboarding!Idle
    BY <1>1, <1>2, <2>2 DEF CallStays, OnboardingCall
  <2> QED BY <2>1, <2>2
<1>5. RecordsGrow /\ Len(orgs) \in Nat
  BY <1>1 DEF RecordsGrow, OnboardingInv, OnboardingTyped
<1>6. CallFits(c)'
  BY <1>1, <1>3, <1>5, OnboardingNames DEF CallFits
<1>7. \A d \in Applying \ {c} : CallFits(d)'
  BY <1>4, <1>5, CallStaysFit
<1>8. \A d \in Applying : Onboarding!Activating(d)' <=> d # c /\ Onboarding!Activating(d)
  BY <1>3, <1>4, OnboardingNames DEF Onboarding!Activating, CallStays
<1> QED BY <1>1, <1>3, <1>4, <1>6, <1>7, <1>8

\* What a row may say while nothing has raced, when "under way" of activations are
RowFits(row, underWay, excused) ==
  /\ row.stage \in Onboarding!Reviewable => row.tier = Onboarding!Nothing
  /\ row.stage = "APPROVED_PENDING_TIER" => row.approved /\ row.tier = Onboarding!Nothing
  /\ row.tier # Onboarding!Nothing => row.approved
  /\ orgs # << >> => row.tier # Onboarding!Nothing
  /\ row.org # 0 => row.stage = "COMPLETED" \/ "reopened" \in excused
  /\ row.stage = "COMPLETED" => home = row.org
  /\ \A k \in DOMAIN payments \ {Onboarding!Foreign} : payments[k].tier = row.tier
  /\ orgs # << >> =>
       \/ row.stage = "COMPLETED" \/ excused \cap {"reopened", "died"} # {}
       \/ underWay

\* A write of the application: what it may change, and what that makes unusual.
LEMMA OnboardingWrites ==
  ASSUME OnboardingInv, NEW c \in Applying, NEW row \in ApplicationRow, Onboarding!Write(c, row),
         claim' \subseteq Subdomains \cup Domains,
         row.org \in {0} \cup members, row.intent \in DOMAIN payments \cup {Onboarding!Nothing},
         row.stage = "COMPLETED" => row.org \in members,
         NEW also \in SUBSET {"race", "reopened"}, unusual' = unusual \cup also,
         "race" \notin unusual' =>
           /\ RowFits(row, \E d \in Applying \ {c} : Onboarding!Activating(d), unusual')
           /\ \A d \in Applying \ {c} :
                /\ onboarding[d].at = "pay" => row.tier = app.tier
                /\ Onboarding!Activating(d) => row.stage # "COMPLETED",
         unusual' \cap {"race", "foreign"} = {} =>
           /\ row.intent # Onboarding!Foreign
           /\ row.stage \in {"QUOTE_PENDING", QuoteAccepted} => row.tier \in Custom
           /\ row.stage = Paid => row.intent # Onboarding!Nothing /\ payments[row.intent].settled
  PROVE  OnboardingInv'
<1>1. /\ app' = row /\ payments' = payments /\ orgs' = orgs /\ members' = members /\ home' = home
      /\ onboarding' \in [Applying -> OnboardingCall] /\ onboarding'[c] = Onboarding!Idle
      /\ \A d \in Applying \ {c} : CallStays(d) /\ (onboarding'[d].at # "idle" => onboarding'[d].stale)
      /\ \A d \in Applying : CallFits(d)'
      /\ \A d \in Applying : Onboarding!Activating(d)' <=> d # c /\ Onboarding!Activating(d)
  BY RowWritten
<1>2. OnboardingTyped' /\ PaymentsFit'
  BY <1>1 DEF OnboardingInv, OnboardingTyped, PaymentsFit
<1>3. ASSUME "race" \notin unusual' PROVE RowAlone' /\ \A d \in Applying : ReadOfRow(d)' /\ ActivatesAlone(d)'
  <2>1. "race" \notin unusual /\ \A d \in Applying : ReadOfRow(d) /\ ActivatesAlone(d)
    BY <1>3 DEF OnboardingInv, Alone
  <2>2. RowFits(row, \E d \in Applying \ {c} : Onboarding!Activating(d), unusual')
    BY <1>3
  <2>3. RowAlone'
    BY <1>1, <2>2 DEF RowAlone, RowFits
  <2>4. ASSUME NEW d \in Applying \ {c} PROVE ReadOfRow(d)'
    <3>1. /\ onboarding'[d].at = onboarding[d].at /\ onboarding'[d].tier = onboarding[d].tier
          /\ onboarding'[d].at # "idle" => onboarding'[d].stale
      BY <1>1, <2>4 DEF CallStays
    <3>2. onboarding[d].at = "pay" => onboarding[d].tier = app.tier /\ row.tier = app.tier
      BY <1>3, <2>1, <2>4 DEF ReadOfRow
    <3> QED BY <1>1, <3>1, <3>2 DEF ReadOfRow
  <2>5. ReadOfRow(c)' /\ ActivatesAlone(c)'
    BY <1>1, OnboardingNames DEF ReadOfRow, ActivatesAlone
  <2>6. ASSUME NEW d \in Applying \ {c} PROVE ActivatesAlone(d)'
    <3>1. onboarding'[d].at = onboarding[d].at /\ onboarding'[d].org = onboarding[d].org
      BY <1>1, <2>6 DEF CallStays
    <3>2. Onboarding!Activating(d) => row.stage # "COMPLETED"
      BY <1>3, <2>6
    <3>3. ActivatesAlone(d)
      BY <2>1
    <3> QED BY <1>1, <3>1, <3>2, <3>3 DEF ActivatesAlone
  <2> QED BY <2>3, <2>4, <2>5, <2>6
<1>4. Alone'
  BY <1>3 DEF Alone
<1>5. OwnPayments'
  <2>1. ASSUME unusual' \cap {"race", "foreign"} = {}
        PROVE  \A d \in Applying : onboarding'[d].intent # Onboarding!Foreign
    <3>1. \A d \in Applying : onboarding[d].intent # Onboarding!Foreign
      BY <2>1 DEF OnboardingInv, OwnPayments
    <3> QED BY <1>1, <3>1, OnboardingNames DEF CallStays
  <2> QED BY <1>1, <2>1 DEF OwnPayments
<1>6. Onboarding!OneOrganization' /\ Onboarding!PaidForItsTier'
  BY <1>1 DEF OnboardingInv, Onboarding!OneOrganization, Onboarding!PaidForItsTier
<1>7. "race" \in unusual' \/ orgs' = << >> \/ app'.approved
  BY <1>1, <1>3 DEF RowAlone
<1> QED BY <1>1, <1>2, <1>4, <1>5, <1>6, <1>7 DEF OnboardingInv

\* Reviews, quotes and approvals write a stage.
LEMMA OnboardingWriteStage ==
  ASSUME OnboardingInv, NEW c \in Applying, Onboarding!WriteStage(c)
  PROVE  OnboardingInv'
<1> DEFINE stage == onboarding[c].stage
           row == [app EXCEPT !.stage = stage,
                    !.approved = CASE stage = "APPROVED_PENDING_TIER" -> TRUE
                                   [] stage = "REJECTED" -> FALSE
                                   [] OTHER -> @]
           also == Onboarding!Race(c)
           underWay == \E d \in Applying \ {c} : Onboarding!Activating(d)
<1>0. claim' \subseteq Subdomains \cup Domains
  BY DEF OnboardingInv, OnboardingTyped, Onboarding!WriteStage
<1>1. /\ onboarding[c].at = "stage" /\ Onboarding!Write(c, row)
      /\ unusual' = unusual \cup also
  BY DEF Onboarding!WriteStage
<1>2. /\ app \in ApplicationRow /\ stage \in Onboarding!Stages
      /\ app.org \in {0} \cup members /\ app.intent \in DOMAIN payments \cup {Onboarding!Nothing}
  BY <1>1 DEF OnboardingInv, OnboardingTyped, CallFits
<1>3. stage \in {"UNDER_REVIEW", "REJECTED", "APPROVED_PENDING_TIER", QuoteAccepted}
  BY <1>1 DEF OnboardingInv, CallFits
<1>4. /\ row \in ApplicationRow /\ row.stage = stage /\ row.tier = app.tier /\ row.intent = app.intent
      /\ row.org = app.org
      /\ row.approved = IF stage = "APPROVED_PENDING_TIER" THEN TRUE
                        ELSE IF stage = "REJECTED" THEN FALSE ELSE app.approved
  BY <1>2 DEF ApplicationRow
<1>5. also \in SUBSET {"race", "reopened"}
  BY DEF Onboarding!Race
<1>6. ASSUME "race" \notin unusual'
      PROVE  /\ RowFits(row, underWay, unusual')
             /\ \A d \in Applying \ {c} :
                  /\ onboarding[d].at = "pay" => row.tier = app.tier
                  /\ Onboarding!Activating(d) => row.stage # "COMPLETED"
  <2>1. "race" \notin unusual /\ ~ onboarding[c].stale /\ unusual' = unusual
    BY <1>1, <1>6 DEF Onboarding!Race
  <2>2. RowAlone /\ ReadOfRow(c)
    BY <2>1 DEF OnboardingInv, Alone
  <2>3. IF stage = QuoteAccepted THEN app.stage = "QUOTE_PENDING" ELSE app.stage \in Onboarding!Reviewable
    BY <1>1, <2>1, <2>2 DEF ReadOfRow
  <2>4. (\E d \in Applying : Onboarding!Activating(d)) => underWay
    BY <1>1 DEF Onboarding!Activating
  <2> HIDE DEF row, stage, underWay
  <2> QED BY <1>3, <1>4, <2>1, <2>2, <2>3, <2>4 DEF RowAlone, RowFits, Onboarding!Reviewable, QuoteAccepted
<1>7. ASSUME unusual' \cap {"race", "foreign"} = {}
      PROVE  /\ row.intent # Onboarding!Foreign
             /\ row.stage \in {"QUOTE_PENDING", QuoteAccepted} => row.tier \in Custom
             /\ row.stage = Paid => row.intent # Onboarding!Nothing /\ payments[row.intent].settled
  <2>1. unusual \cap {"race", "foreign"} = {} /\ ~ onboarding[c].stale
    BY <1>1, <1>7 DEF Onboarding!Race
  <2>2. ReadOfRow(c) /\ OwnPayments
    BY <2>1 DEF OnboardingInv, Alone
  <2>3. stage = QuoteAccepted => app.stage = "QUOTE_PENDING"
    BY <1>1, <2>1, <2>2 DEF ReadOfRow
  <2> HIDE DEF row, stage
  <2> QED BY <1>3, <1>4, <2>1, <2>2, <2>3 DEF OwnPayments, QuoteAccepted, Paid
<1>8. row.stage # "COMPLETED"
  BY <1>3, <1>4 DEF QuoteAccepted
<1> HIDE DEF row, also, stage
<1> QED BY <1>0, <1>1, <1>2, <1>4, <1>5, <1>6, <1>7, <1>8, OnboardingWrites

\* The tier that is confirmed is the one that will be paid.
LEMMA OnboardingConfirmTier ==
  ASSUME OnboardingInv, NEW c \in Applying, Onboarding!ConfirmTier(c)
  PROVE  OnboardingInv'
<1> DEFINE stage == onboarding[c].stage
           tier == onboarding[c].tier
           row == [app EXCEPT !.tier = tier, !.intent = Onboarding!Nothing, !.stage = stage]
           also == Onboarding!Race(c)
           underWay == \E d \in Applying \ {c} : Onboarding!Activating(d)
<1>0. claim' \subseteq Subdomains \cup Domains
  BY DEF OnboardingInv, OnboardingTyped, Onboarding!ConfirmTier
<1>1. onboarding[c].at = "tier" /\ Onboarding!Write(c, row) /\ unusual' = unusual \cup also
  BY DEF Onboarding!ConfirmTier
<1>2. /\ app \in ApplicationRow /\ stage \in Onboarding!Stages /\ tier \in Tiers
      /\ stage = IF tier \in Custom THEN "QUOTE_PENDING" ELSE "TIER_CONFIRMED_PENDING_PAYMENT"
      /\ app.org \in {0} \cup members
  BY <1>1 DEF OnboardingInv, OnboardingTyped, CallFits
<1>3. /\ row \in ApplicationRow /\ row.stage = stage /\ row.tier = tier /\ row.intent = Onboarding!Nothing
      /\ row.org = app.org /\ row.approved = app.approved
  BY <1>2 DEF ApplicationRow
<1>4. also \in SUBSET {"race", "reopened"}
  BY DEF Onboarding!Race
<1>5. stage # "COMPLETED" /\ stage # Paid /\ stage # QuoteAccepted /\ stage \notin Onboarding!Reviewable
      /\ stage # "APPROVED_PENDING_TIER"
  BY <1>2 DEF Paid, QuoteAccepted, Onboarding!Reviewable
<1>6. ASSUME "race" \notin unusual'
      PROVE  /\ RowFits(row, underWay, unusual')
             /\ \A d \in Applying \ {c} :
                  /\ onboarding[d].at = "pay" => row.tier = app.tier
                  /\ Onboarding!Activating(d) => row.stage # "COMPLETED"
  <2>1. "race" \notin unusual /\ ~ onboarding[c].stale /\ unusual' = unusual
    BY <1>1, <1>6 DEF Onboarding!Race
  <2>2. RowAlone /\ \A d \in Applying : ReadOfRow(d) /\ CallFits(d)
    BY <2>1 DEF OnboardingInv, Alone
  <2>3. app.stage = "APPROVED_PENDING_TIER"
    BY <1>1, <2>1, <2>2 DEF ReadOfRow
  <2>4. app.approved /\ app.tier = Onboarding!Nothing /\ orgs = << >>
    BY <2>2, <2>3 DEF RowAlone
  <2>5. \A k \in DOMAIN payments : k = Onboarding!Foreign
    BY <2>2, <2>4, OnboardingNames DEF RowAlone, OnboardingInv, PaymentsFit
  <2>6. \A d \in Applying : onboarding[d].at # "pay"
    BY <2>2, <2>4, OnboardingNames DEF ReadOfRow, CallFits
  <2>7. app.org # 0 => "reopened" \in unusual
    BY <2>2, <2>3 DEF RowAlone
  <2> HIDE DEF row, stage, tier, underWay
  <2> QED BY <1>2, <1>3, <1>5, <2>1, <2>4, <2>5, <2>6, <2>7 DEF RowFits
<1>7. ASSUME unusual' \cap {"race", "foreign"} = {}
      PROVE  /\ row.intent # Onboarding!Foreign
             /\ row.stage \in {"QUOTE_PENDING", QuoteAccepted} => row.tier \in Custom
             /\ row.stage = Paid => row.intent # Onboarding!Nothing /\ payments[row.intent].settled
  <2> HIDE DEF row, stage, tier
  <2> QED BY <1>2, <1>3, <1>5, OnboardingNames
<1> HIDE DEF row, also, stage, tier
<1> QED BY <1>0, <1>1, <1>2, <1>3, <1>4, <1>5, <1>6, <1>7, OnboardingWrites

\* The application is linked to the intent and takes the stage its status stands for.
LEMMA OnboardingLinkIntent ==
  ASSUME OnboardingInv, NEW c \in Applying, Onboarding!LinkIntent(c)
  PROVE  OnboardingInv'
<1> DEFINE stage == onboarding[c].stage
           intent == onboarding[c].intent
           row == [app EXCEPT !.intent = intent, !.stage = stage]
           also == Onboarding!Race(c) \cup (IF app.stage = "COMPLETED" THEN {"reopened"} ELSE {})
           underWay == \E d \in Applying \ {c} : Onboarding!Activating(d)
<1>0. claim' \subseteq Subdomains \cup Domains
  BY DEF OnboardingInv, OnboardingTyped, Onboarding!LinkIntent
<1>1. onboarding[c].at = "link" /\ Onboarding!Write(c, row) /\ unusual' = unusual \cup also
  BY DEF Onboarding!LinkIntent
<1>2. /\ app \in ApplicationRow /\ stage \in Onboarding!Stages
      /\ intent \in DOMAIN payments /\ intent \in Onboarding!Keys
      /\ stage \in {Paid, "TIER_CONFIRMED_PENDING_PAYMENT"} /\ (stage = Paid => payments[intent].settled)
      /\ app.org \in {0} \cup members
  BY <1>1 DEF OnboardingInv, OnboardingTyped, CallFits
<1>3. /\ row \in ApplicationRow /\ row.stage = stage /\ row.tier = app.tier /\ row.intent = intent
      /\ row.org = app.org /\ row.approved = app.approved
  BY <1>2 DEF ApplicationRow
<1>4. also \in SUBSET {"race", "reopened"}
  BY DEF Onboarding!Race
<1>5. stage # "COMPLETED" /\ stage # "QUOTE_PENDING" /\ stage # QuoteAccepted /\ stage \notin Onboarding!Reviewable
      /\ stage # "APPROVED_PENDING_TIER"
  BY <1>2 DEF Paid, QuoteAccepted, Onboarding!Reviewable
<1>6. ASSUME "race" \notin unusual'
      PROVE  /\ RowFits(row, underWay, unusual')
             /\ \A d \in Applying \ {c} :
                  /\ onboarding[d].at = "pay" => row.tier = app.tier
                  /\ Onboarding!Activating(d) => row.stage # "COMPLETED"
  <2>1. "race" \notin unusual
    BY <1>1, <1>6
  <2>2. RowAlone
    BY <2>1 DEF OnboardingInv, Alone
  <2>3. app.stage = "COMPLETED" => "reopened" \in unusual'
    BY <1>1
  <2>4. unusual \subseteq unusual'
    BY <1>1
  <2>5. (\E d \in Applying : Onboarding!Activating(d)) => underWay
    BY <1>1 DEF Onboarding!Activating
  <2> HIDE DEF row, stage, intent, also, underWay
  <2> QED BY <1>3, <1>5, <2>2, <2>3, <2>4, <2>5 DEF RowAlone, RowFits
<1>7. ASSUME unusual' \cap {"race", "foreign"} = {}
      PROVE  /\ row.intent # Onboarding!Foreign
             /\ row.stage \in {"QUOTE_PENDING", QuoteAccepted} => row.tier \in Custom
             /\ row.stage = Paid => row.intent # Onboarding!Nothing /\ payments[row.intent].settled
  <2>1. intent # Onboarding!Foreign
    BY <1>1, <1>7 DEF OnboardingInv, OwnPayments
  <2> HIDE DEF row, stage, intent
  <2> QED BY <1>2, <1>3, <1>5, <2>1, OnboardingNames
<1> HIDE DEF row, also, stage, intent
<1> QED BY <1>0, <1>1, <1>2, <1>3, <1>4, <1>5, <1>6, <1>7, OnboardingWrites

\* The application is completed with the organization that was made.
LEMMA OnboardingComplete ==
  ASSUME OnboardingInv, NEW c \in Applying, Onboarding!Complete(c)
  PROVE  OnboardingInv'
<1> DEFINE stage == "COMPLETED"
           org == onboarding[c].org
           row == [app EXCEPT !.stage = stage, !.org = org]
           also == Onboarding!Race(c)
           underWay == \E d \in Applying \ {c} : Onboarding!Activating(d)
<1>0. claim' \subseteq Subdomains \cup Domains
  BY DEF OnboardingInv, OnboardingTyped, Onboarding!Complete, OnboardingCall
<1>1. onboarding[c].at = "complete" /\ Onboarding!Write(c, row) /\ unusual' = unusual \cup also
  BY DEF Onboarding!Complete
<1>2. /\ app \in ApplicationRow /\ stage \in Onboarding!Stages
      /\ org \in members /\ org \in Nat
      /\ app.intent \in DOMAIN payments \cup {Onboarding!Nothing}
  BY <1>1 DEF OnboardingInv, OnboardingTyped, CallFits, Onboarding!Stages
<1>3. /\ row \in ApplicationRow /\ row.stage = stage /\ row.tier = app.tier /\ row.intent = app.intent
      /\ row.org = org /\ row.approved = app.approved
  BY <1>2 DEF ApplicationRow
<1>4. also \in SUBSET {"race", "reopened"}
  BY DEF Onboarding!Race
<1>5. stage = "COMPLETED" /\ stage # "QUOTE_PENDING" /\ stage # QuoteAccepted /\ stage # Paid
      /\ stage \notin Onboarding!Reviewable /\ stage # "APPROVED_PENDING_TIER"
  BY DEF Paid, QuoteAccepted, Onboarding!Reviewable
<1>6. ASSUME "race" \notin unusual'
      PROVE  /\ RowFits(row, underWay, unusual')
             /\ \A d \in Applying \ {c} :
                  /\ onboarding[d].at = "pay" => row.tier = app.tier
                  /\ Onboarding!Activating(d) => row.stage # "COMPLETED"
  <2>1. "race" \notin unusual
    BY <1>1, <1>6
  <2>2. RowAlone /\ ActivatesAlone(c)
    BY <2>1 DEF OnboardingInv, Alone
  <2>3. /\ \A d \in Applying \ {c} : ~ Onboarding!Activating(d)
        /\ home = org
    BY <1>1, <2>2 DEF ActivatesAlone, Onboarding!Activating
  <2> HIDE DEF row, stage, org, also, underWay
  <2> QED BY <1>3, <1>5, <2>2, <2>3 DEF RowAlone, RowFits
<1>7. ASSUME unusual' \cap {"race", "foreign"} = {}
      PROVE  /\ row.intent # Onboarding!Foreign
             /\ row.stage \in {"QUOTE_PENDING", QuoteAccepted} => row.tier \in Custom
             /\ row.stage = Paid => row.intent # Onboarding!Nothing /\ payments[row.intent].settled
  <2>1. app.intent # Onboarding!Foreign
    BY <1>1, <1>7 DEF OnboardingInv, OwnPayments
  <2> HIDE DEF row, stage, org
  <2> QED BY <1>3, <1>5, <2>1
<1> HIDE DEF row, also, stage, org
<1> QED BY <1>0, <1>1, <1>2, <1>3, <1>4, <1>5, <1>6, <1>7, OnboardingWrites

----------------------------------------------------------------------------
(* What leaves the row as it is                                            *)

\* A call that has an intent, and the stage that follows from it
WithIntent(call, key, stage) ==
  [call EXCEPT !.at = "link", !.tier = Onboarding!Nothing, !.intent = key, !.stage = stage]

\* What a call remembers of the intent it found.
LEMMA WithIntentIs ==
  ASSUME NEW call \in OnboardingCall, NEW key \in Onboarding!Keys, NEW stage \in Onboarding!Stages
  PROVE  /\ WithIntent(call, key, stage) \in OnboardingCall /\ WithIntent(call, key, stage).at = "link"
         /\ WithIntent(call, key, stage).intent = key /\ WithIntent(call, key, stage).stage = stage
         /\ WithIntent(call, key, stage).org = call.org
  BY DEF WithIntent, OnboardingCall, OnboardingAts

\* A call with an intent goes on to link it.
LEMMA OnboardingLinks ==
  ASSUME OnboardingInv, NEW c \in Applying, onboarding[c].at \in {"pay", "sync"},
         NEW key \in DOMAIN payments', key \in Onboarding!Keys, Onboarding!GoLink(c, key, payments'[key]),
         NEW also \in SUBSET {"foreign"}, unusual' = unusual \cup also,
         key = Onboarding!Foreign => onboarding[c].intent = Onboarding!Foreign \/ "foreign" \in unusual',
         \/ payments' = payments
         \/ /\ DOMAIN payments' = DOMAIN payments \cup {key} /\ key \notin DOMAIN payments
            /\ payments' \in [DOMAIN payments' -> IntentRow]
            /\ \A k \in DOMAIN payments : payments'[k] = payments[k]
            /\ payments'[key].status = "PENDING" /\ payments'[key].tier = onboarding[c].tier
            /\ onboarding[c].at = "pay",
         app' = app, claim' = claim, orgs' = orgs, members' = members, home' = home
  PROVE  OnboardingInv'
<1> DEFINE stage == Onboarding!StageFor(payments'[key])
           call == WithIntent(onboarding[c], key, stage)
<1>1. onboarding[c] \in OnboardingCall /\ stage \in Onboarding!Stages /\ stage \in {Paid, "TIER_CONFIRMED_PENDING_PAYMENT"}
  BY DEF OnboardingInv, OnboardingTyped, Onboarding!StageFor, Onboarding!Stages, Onboarding!Activatable, Paid
<1>2. onboarding' = [onboarding EXCEPT ![c] = call]
  BY DEF Onboarding!GoLink, WithIntent, OnboardingInv, OnboardingTyped
<1>3. /\ call \in OnboardingCall /\ call.at = "link" /\ call.intent = key /\ call.stage = stage
      /\ call.org = onboarding[c].org
  BY <1>1, WithIntentIs
<1>4. stage = Paid => payments'[key].status = "SETTLED"
  BY DEF Onboarding!StageFor, Paid
<1> HIDE DEF stage, call
<1>5. /\ onboarding' \in [Applying -> OnboardingCall] /\ onboarding'[c] = call
      /\ \A d \in Applying \ {c} : onboarding'[d] = onboarding[d] /\ CallStays(d)
  BY <1>2, <1>3, OneCallWritten
<1>6. DOMAIN payments \subseteq DOMAIN payments' /\ \A k \in DOMAIN payments : payments'[k] = payments[k]
  OBVIOUS
<1>0. /\ unusual \subseteq unusual' /\ unusual' \subseteq {"race", "foreign", "reopened", "died"}
      /\ "race" \in unusual' => "race" \in unusual
  BY DEF OnboardingInv, OnboardingTyped
<1>7. RecordsGrow /\ Len(orgs) \in Nat
  BY <1>6 DEF RecordsGrow, OnboardingInv, OnboardingTyped
<1>8. CallFits(c) /\ onboarding[c].at = "pay" => onboarding[c].tier \in Tiers
  BY DEF OnboardingInv, CallFits
<1>9. OnboardingTyped'
  BY <1>0, <1>5, <1>6 DEF OnboardingInv, OnboardingTyped
<1>10. PaymentsFit'
  <2>1. PaymentsFit /\ (onboarding[c].at = "pay" => onboarding[c].tier \in Tiers)
    BY DEF OnboardingInv, CallFits
  <2> QED BY <1>6, <2>1 DEF PaymentsFit
<1>11. CallFits(c)'
  <2>1. stage = Paid => payments'[key].settled
    BY <1>4, <1>10 DEF PaymentsFit
  <2>2. onboarding[c].org \in 0..Len(orgs)
    BY DEF OnboardingInv, CallFits
  <2>3. stage \in {Paid, "TIER_CONFIRMED_PENDING_PAYMENT"}
    BY <1>1
  <2> QED BY <1>1, <1>3, <1>5, <2>1, <2>2, <2>3 DEF CallFits
<1>12. \A d \in Applying : CallFits(d)'
  BY <1>5, <1>7, <1>11, CallStaysFit
<1>13. \A d \in Applying : Onboarding!Activating(d)' <=> Onboarding!Activating(d)
  BY <1>3, <1>5 DEF Onboarding!Activating
<1>14. ASSUME "race" \notin unusual' PROVE RowAlone' /\ \A d \in Applying : ReadOfRow(d)' /\ ActivatesAlone(d)'
  <2>1. RowAlone /\ \A d \in Applying : ReadOfRow(d) /\ ActivatesAlone(d)
    BY <1>0, <1>14 DEF OnboardingInv, Alone
  <2>2. onboarding[c].at = "pay" => onboarding[c].tier = app.tier
    BY <2>1 DEF ReadOfRow
  <2>3. \A k \in DOMAIN payments' \ {Onboarding!Foreign} : payments'[k].tier = app.tier
    BY <1>6, <2>1, <2>2 DEF RowAlone
  <2>4. RowAlone'
    BY <1>0, <1>13, <2>1, <2>3 DEF RowAlone
  <2>5. \A d \in Applying : ReadOfRow(d)'
    BY <1>3, <1>5, <2>1 DEF ReadOfRow
  <2>6. \A d \in Applying : ActivatesAlone(d)'
    BY <1>3, <1>5, <1>13, <2>1 DEF ActivatesAlone, Onboarding!Activating
  <2> QED BY <2>4, <2>5, <2>6
<1>15. Alone'
  BY <1>14 DEF Alone
<1>16. OwnPayments'
  BY <1>0, <1>3, <1>5, <1>6, OnboardingNames DEF OnboardingInv, OwnPayments, OnboardingTyped
<1>17. Onboarding!OneOrganization'
  BY <1>0 DEF OnboardingInv, Onboarding!OneOrganization
<1>18. Onboarding!PaidForItsTier'
  BY <1>0, <1>6 DEF OnboardingInv, Onboarding!PaidForItsTier
<1> QED BY <1>0, <1>9, <1>10, <1>12, <1>15, <1>16, <1>17, <1>18 DEF OnboardingInv

\* A call that is over, of which nothing else is left
LEMMA OnboardingCallEnds ==
  ASSUME OnboardingInv, NEW c \in Applying, onboarding' = [onboarding EXCEPT ![c] = Onboarding!Idle],
         app' = app, claim' = claim, payments' = payments, orgs' = orgs, members' = members, home' = home,
         unusual' = IF Onboarding!Activating(c) THEN unusual \cup {"died"} ELSE unusual
  PROVE  OnboardingInv'
<1>1. /\ onboarding' \in [Applying -> OnboardingCall] /\ onboarding'[c] = Onboarding!Idle
      /\ \A d \in Applying \ {c} : onboarding'[d] = onboarding[d] /\ CallStays(d)
  BY OneCallWritten, OnboardingNames
<1>2. RecordsGrow /\ Len(orgs) \in Nat
  BY DEF RecordsGrow, OnboardingInv, OnboardingTyped
<1>3. OnboardingTyped' /\ PaymentsFit'
  BY <1>1 DEF OnboardingInv, OnboardingTyped, PaymentsFit
<1>4. CallFits(c)'
  BY <1>1, <1>2, OnboardingNames DEF CallFits
<1>5. \A d \in Applying : CallFits(d)'
  BY <1>1, <1>2, <1>4, CallStaysFit
<1>6. \A d \in Applying : Onboarding!Activating(d)' <=> d # c /\ Onboarding!Activating(d)
  BY <1>1, OnboardingNames DEF Onboarding!Activating
<1>7. ASSUME "race" \notin unusual' PROVE RowAlone' /\ \A d \in Applying : ReadOfRow(d)' /\ ActivatesAlone(d)'
  <2>1. RowAlone /\ \A d \in Applying : ReadOfRow(d) /\ ActivatesAlone(d)
    BY <1>7 DEF OnboardingInv, Alone
  <2>2. RowAlone'
    BY <1>6, <2>1 DEF RowAlone
  <2>3. \A d \in Applying : ReadOfRow(d)'
    BY <1>1, <2>1, OnboardingNames DEF ReadOfRow
  <2>4. \A d \in Applying : ActivatesAlone(d)'
    BY <1>1, <1>6, <2>1 DEF ActivatesAlone
  <2> QED BY <2>2, <2>3, <2>4
<1>8. Alone'
  BY <1>7 DEF Alone
<1>9. OwnPayments'
  BY <1>1, OnboardingNames DEF OnboardingInv, OwnPayments
<1>10. Onboarding!OneOrganization' /\ Onboarding!PaidForItsTier'
  BY DEF OnboardingInv, Onboarding!OneOrganization, Onboarding!PaidForItsTier
<1> QED BY <1>3, <1>5, <1>8, <1>9, <1>10 DEF OnboardingInv

\* The intent of a tier is found or created, or read for a sync.
LEMMA OnboardingIntentSteps ==
  ASSUME OnboardingInv, NEW c \in Applying, Onboarding!FindOrCreateIntent(c) \/ Onboarding!ReadIntent(c)
  PROVE  OnboardingInv'
<1>1. CASE Onboarding!ReadIntent(c)
  <2> DEFINE key == onboarding[c].intent
  <2>1. /\ onboarding[c].at = "sync" /\ Onboarding!GoLink(c, key, payments[key])
        /\ app' = app /\ claim' = claim /\ orgs' = orgs /\ members' = members /\ home' = home /\ unusual' = unusual
        /\ payments' = payments
    BY <1>1 DEF Onboarding!ReadIntent
  <2>2. key \in DOMAIN payments /\ key \in Onboarding!Keys
    BY <2>1 DEF OnboardingInv, OnboardingTyped, CallFits
  <2>3. key = Onboarding!Foreign => onboarding[c].intent = Onboarding!Foreign
    OBVIOUS
  <2>4. {} \in SUBSET {"foreign"} /\ unusual' = unusual \cup {}
    BY <2>1
  <2> HIDE DEF key
  <2> QED BY <2>1, <2>2, <2>3, <2>4, OnboardingLinks
<1>2. CASE Onboarding!FindOrCreateIntent(c)
  <2>1. /\ onboarding[c].at = "pay"
        /\ app' = app /\ claim' = claim /\ orgs' = orgs /\ members' = members /\ home' = home
    BY <1>2 DEF Onboarding!FindOrCreateIntent
  <2>2. onboarding[c].tier \in Tiers
    BY <2>1 DEF OnboardingInv, CallFits
  <2>3. \/ onboarding' = [onboarding EXCEPT ![c] = Onboarding!Idle] /\ payments' = payments /\ unusual' = unusual
        \/ \E key \in PaymentKeys[onboarding[c].tier] \cup {Onboarding!Foreign} :
             /\ unusual' = unusual \cup Onboarding!Taken(key)
             /\ \/ key \in DOMAIN payments /\ Onboarding!GoLink(c, key, payments[key]) /\ payments' = payments
                \/ LET made == [tier |-> onboarding[c].tier, status |-> "PENDING", settled |-> FALSE]
                   IN  /\ key \notin DOMAIN payments
                       /\ payments' = [k \in DOMAIN payments \cup {key} |-> IF k = key THEN made ELSE payments[k]]
                       /\ Onboarding!GoLink(c, key, made)
    BY <1>2 DEF Onboarding!FindOrCreateIntent
  <2>4. CASE onboarding' = [onboarding EXCEPT ![c] = Onboarding!Idle] /\ payments' = payments /\ unusual' = unusual
    BY <2>1, <2>4, OnboardingCallEnds DEF Onboarding!Activating
  <2>5. ASSUME NEW key \in PaymentKeys[onboarding[c].tier] \cup {Onboarding!Foreign},
               unusual' = unusual \cup Onboarding!Taken(key)
        PROVE  /\ key \in Onboarding!Keys /\ Onboarding!Taken(key) \in SUBSET {"foreign"}
               /\ key = Onboarding!Foreign => "foreign" \in unusual' /\ key \in DOMAIN payments
    <3>1. key \in Onboarding!Keys
      BY <2>2, OnboardingNames
    <3>2. Onboarding!Foreign \in DOMAIN payments
      BY DEF OnboardingInv, OnboardingTyped
    <3> QED BY <2>5, <3>1, <3>2 DEF Onboarding!Taken
  <2>6. ASSUME NEW key \in PaymentKeys[onboarding[c].tier] \cup {Onboarding!Foreign},
               unusual' = unusual \cup Onboarding!Taken(key),
               key \in DOMAIN payments, Onboarding!GoLink(c, key, payments[key]), payments' = payments
        PROVE  OnboardingInv'
    BY <2>1, <2>5, <2>6, OnboardingLinks
  <2>7. ASSUME NEW key \in PaymentKeys[onboarding[c].tier] \cup {Onboarding!Foreign},
               unusual' = unusual \cup Onboarding!Taken(key), key \notin DOMAIN payments,
               NEW made, made = [tier |-> onboarding[c].tier, status |-> "PENDING", settled |-> FALSE],
               payments' = [k \in DOMAIN payments \cup {key} |-> IF k = key THEN made ELSE payments[k]],
               Onboarding!GoLink(c, key, made)
        PROVE  OnboardingInv'
    <3>1. key \in Onboarding!Keys /\ key # Onboarding!Foreign /\ Onboarding!Taken(key) \in SUBSET {"foreign"}
      BY <2>5, <2>7
    <3>2. payments \in [DOMAIN payments -> IntentRow]
      BY DEF OnboardingInv, OnboardingTyped
    <3>3. made \in IntentRow /\ made.status = "PENDING" /\ made.tier = onboarding[c].tier
      BY <2>2, <2>7 DEF IntentRow
    <3>4. /\ DOMAIN payments' = DOMAIN payments \cup {key} /\ payments'[key] = made /\ key \in DOMAIN payments'
          /\ payments' \in [DOMAIN payments' -> IntentRow]
          /\ \A k \in DOMAIN payments : payments'[k] = payments[k]
      BY <2>7, <3>2, <3>3
    <3> QED BY <2>1, <2>7, <3>1, <3>3, <3>4, OnboardingLinks
  <2> QED BY <2>3, <2>4, <2>6, <2>7
<1> QED BY <1>1, <1>2

\* The payment settles beside all calls.
LEMMA OnboardingSettles ==
  ASSUME OnboardingInv, NEW key \in DOMAIN payments, Onboarding!SettleIntent(key)
  PROVE  OnboardingInv'
<1>1. PICK status \in {"SETTLED", "FAILED"} :
        payments' = [payments EXCEPT ![key].status = status, ![key].settled = @ \/ status = "SETTLED"]
  BY DEF Onboarding!SettleIntent
<1>2. /\ app' = app /\ claim' = claim /\ orgs' = orgs /\ members' = members /\ home' = home
      /\ onboarding' = onboarding /\ unusual' = unusual
  BY DEF Onboarding!SettleIntent
<1>3. payments \in [DOMAIN payments -> IntentRow]
  BY DEF OnboardingInv, OnboardingTyped
<1>4. DOMAIN payments' = DOMAIN payments /\ \A k \in DOMAIN payments \ {key} : payments'[k] = payments[k]
  BY <1>1, <1>3
<1>5. /\ payments'[key] \in IntentRow /\ payments'[key].tier = payments[key].tier
      /\ payments'[key].status = status /\ payments'[key].settled = (payments[key].settled \/ status = "SETTLED")
  BY <1>1, <1>3 DEF IntentRow
<1>6. payments' \in [DOMAIN payments -> IntentRow]
  BY <1>1, <1>3, <1>4, <1>5
<1>7. \A k \in DOMAIN payments : payments'[k].tier = payments[k].tier /\ (payments[k].settled => payments'[k].settled)
  BY <1>4, <1>5
<1>8. RecordsGrow
  BY <1>2, <1>4, <1>7 DEF RecordsGrow, OnboardingInv, OnboardingTyped
<1>9. OnboardingTyped'
  BY <1>2, <1>4, <1>6 DEF OnboardingInv, OnboardingTyped
<1>10. PaymentsFit'
  BY <1>4, <1>5 DEF OnboardingInv, PaymentsFit
<1>11. \A d \in Applying : CallStays(d)
  BY <1>2 DEF CallStays
<1>12. \A d \in Applying : CallFits(d)'
  BY <1>8, <1>11, CallStaysFit
<1>13. \A d \in Applying : Onboarding!Activating(d)' <=> Onboarding!Activating(d)
  BY <1>2 DEF Onboarding!Activating
<1>14. ASSUME "race" \notin unusual' PROVE RowAlone' /\ \A d \in Applying : ReadOfRow(d)' /\ ActivatesAlone(d)'
  <2>1. RowAlone /\ \A d \in Applying : ReadOfRow(d) /\ ActivatesAlone(d)
    BY <1>2, <1>14 DEF OnboardingInv, Alone
  <2>2. RowAlone'
    BY <1>2, <1>4, <1>7, <1>13, <2>1 DEF RowAlone
  <2>3. \A d \in Applying : ReadOfRow(d)'
    BY <1>2, <2>1 DEF ReadOfRow
  <2>4. \A d \in Applying : ActivatesAlone(d)'
    BY <1>2, <1>13, <2>1 DEF ActivatesAlone
  <2> QED BY <2>2, <2>3, <2>4
<1>15. Alone'
  BY <1>14 DEF Alone
<1>16. OwnPayments'
  BY <1>2, <1>7 DEF OnboardingInv, OwnPayments, OnboardingTyped
<1>17. Onboarding!OneOrganization'
  BY <1>2 DEF OnboardingInv, Onboarding!OneOrganization
<1>18. Onboarding!PaidForItsTier'
  BY <1>2, <1>4, <1>7 DEF OnboardingInv, Onboarding!PaidForItsTier
<1> QED BY <1>2, <1>9, <1>10, <1>12, <1>15, <1>16, <1>17, <1>18 DEF OnboardingInv

----------------------------------------------------------------------------
(* An activation                                                           *)

\* A call that goes on with an organization
WithOrganization(call, at, org) == [call EXCEPT !.at = at, !.org = org]

\* What a call remembers of the organization it made.
LEMMA WithOrganizationIs ==
  ASSUME NEW call \in OnboardingCall, NEW at \in {"join", "move", "complete"}, NEW org \in Nat
  PROVE  LET next == WithOrganization(call, at, org)
         IN  /\ next \in OnboardingCall /\ next.at = at /\ next.org = org /\ next.stage = call.stage
             /\ next.intent = call.intent
  BY DEF WithOrganization, OnboardingCall, OnboardingAts

\* An organization is made of an application that was approved and paid when it was read.
LEMMA OnboardingProvision ==
  ASSUME OnboardingInv, NEW c \in Applying, Onboarding!Provision(c)
  PROVE  OnboardingInv'
<1> DEFINE n == Len(orgs)
           names == onboarding[c].names
           org == [tier |-> onboarding[c].tier, paid |-> onboarding[c].stage = Paid, names |-> onboarding[c].names]
           at == "join"
           was == onboarding[c]
           made == n + 1
           call == WithOrganization(was, at, made)
<1>1. /\ onboarding[c].at = "provision" /\ n < MaxOrganizations
      /\ \A o \in DOMAIN orgs : orgs[o].names \cap names \cap Subdomains = {}
      /\ orgs' = Append(orgs, org)
      /\ app' = app /\ claim' = claim /\ payments' = payments /\ members' = members /\ home' = home
      /\ unusual' = unusual \cup Onboarding!Race(c) \cup
           (IF onboarding[c].org # n \/ \E d \in Applying \ {c} : Onboarding!Activating(d) THEN {"race"} ELSE {})
  BY DEF Onboarding!Provision, Paid
<1>2. onboarding' = [onboarding EXCEPT ![c] = call]
  BY DEF Onboarding!Provision, WithOrganization, OnboardingInv, OnboardingTyped
<1>3. /\ onboarding[c] \in OnboardingCall /\ n \in Nat /\ MaxOrganizations \in Nat /\ orgs \in Seq(OrganizationRow)
      /\ onboarding[c].tier \in Tiers /\ onboarding[c].stage \in Onboarding!Activatable
      /\ members \subseteq 1..n /\ home \in 0..n /\ onboarding[c].org \in 0..n
  BY <1>1, OnboardingNames DEF OnboardingInv, OnboardingTyped, CallFits
<1>4. /\ org \in OrganizationRow /\ org.tier = onboarding[c].tier /\ org.paid = (onboarding[c].stage = Paid)
      /\ org.names = names
  <2>1. names \in SUBSET (Subdomains \cup Domains)
    BY <1>3 DEF OnboardingCall
  <2> QED BY <1>3, <2>1 DEF OrganizationRow
<1>5. /\ call \in OnboardingCall /\ call.at = "join" /\ call.org = n + 1 /\ call.stage = onboarding[c].stage
      /\ call.intent = onboarding[c].intent
  <2>1. was \in OnboardingCall /\ at \in {"join", "move", "complete"} /\ made \in Nat
    BY <1>3
  <2> HIDE DEF was, at, made
  <2>2. /\ call \in OnboardingCall /\ call.at = at /\ call.org = made /\ call.stage = was.stage
        /\ call.intent = was.intent
    BY SMTT(30), <2>1, WithOrganizationIs
  <2> QED BY <2>2 DEF was, at, made
<1> HIDE DEF n, names, org, call
<1>6. /\ onboarding' \in [Applying -> OnboardingCall] /\ onboarding'[c] = call
      /\ \A d \in Applying \ {c} : onboarding'[d] = onboarding[d] /\ CallStays(d)
  BY <1>2, <1>5, OneCallWritten
<1>7. /\ orgs' \in Seq(OrganizationRow) /\ Len(orgs') = n + 1 /\ orgs'[n + 1] = org
      /\ \A o \in 1..n : orgs'[o] = orgs[o]
  BY <1>1, <1>3, <1>4 DEF n
<1>8. RecordsGrow
  BY <1>1, <1>3, <1>7 DEF RecordsGrow, n
<1>9. OnboardingTyped'
  <2>1. unusual' \subseteq {"race", "foreign", "reopened", "died"}
    BY <1>1 DEF OnboardingInv, OnboardingTyped, Onboarding!Race
  <2>2. members \subseteq 1..Len(orgs') /\ home \in 0..Len(orgs') /\ Len(orgs') <= MaxOrganizations
    BY <1>1, <1>3, <1>7
  <2> QED BY <1>1, <1>6, <1>7, <2>1, <2>2 DEF OnboardingInv, OnboardingTyped
<1>10. PaymentsFit'
  BY <1>1 DEF OnboardingInv, PaymentsFit
<1>11. CallFits(c)'
  <2>1. call.stage \in Onboarding!Stages
    BY <1>3, <1>5 DEF Onboarding!Stages
  <2> QED BY <1>3, <1>5, <1>6, <1>7, <2>1 DEF CallFits
<1>12. \A d \in Applying : CallFits(d)'
  BY <1>6, <1>8, <1>11, CallStaysFit
<1>13. \A d \in Applying : Onboarding!Activating(d)' <=> d = c \/ Onboarding!Activating(d)
  BY <1>5, <1>6 DEF Onboarding!Activating
<1>14. unusual \subseteq unusual'
  BY <1>1
\* what an activation that has raced with nothing knows
<1>15. ASSUME "race" \notin unusual'
       PROVE  /\ RowAlone /\ ReadOfRow(c) /\ (\A d \in Applying : ReadOfRow(d))
              /\ \A d \in Applying : ~ Onboarding!Activating(d)
              /\ onboarding[c].org = n /\ app.stage = onboarding[c].stage /\ app.tier = onboarding[c].tier
              /\ app.stage # "COMPLETED" /\ app.tier # Onboarding!Nothing
              /\ \A o \in 1..n : o = app.org \/ orgs[o].names \cap names = {}
  <2>1. /\ "race" \notin unusual /\ ~ onboarding[c].stale /\ onboarding[c].org = n
        /\ \A d \in Applying \ {c} : ~ Onboarding!Activating(d)
    BY <1>1, <1>15 DEF Onboarding!Race
  <2>2. RowAlone /\ \A d \in Applying : ReadOfRow(d)
    BY <2>1 DEF OnboardingInv, Alone
  <2>3. ~ Onboarding!Activating(c)
    BY <1>1 DEF Onboarding!Activating
  <2>4. /\ app.stage = onboarding[c].stage /\ app.tier = onboarding[c].tier
        /\ \A o \in 1..n : o = app.org \/ orgs[o].names \cap names = {}
    BY <1>1, <2>1, <2>2 DEF ReadOfRow, names
  <2> QED BY <1>3, <2>1, <2>2, <2>3, <2>4, OnboardingNames DEF Onboarding!Activatable
<1>16. ASSUME "race" \notin unusual' PROVE RowAlone' /\ \A d \in Applying : ReadOfRow(d)' /\ ActivatesAlone(d)'
  <2>1. RowAlone'
    <3>1. \E d \in Applying : Onboarding!Activating(d)'
      BY <1>13
    <3> QED BY <1>1, <1>14, <1>15, <1>16, <3>1 DEF RowAlone
  <2>2. ASSUME NEW d \in Applying PROVE ReadOfRow(d)'
    <3>1. app' = app /\ claim' = claim /\ payments' = payments
      BY <1>1
    <3>2. CASE d = c
      BY <1>5, <1>6, <3>2 DEF ReadOfRow
    <3>3. CASE d # c
      <4>1. onboarding'[d] = onboarding[d] /\ ReadOfRow(d) /\ onboarding[d].org \in 0..n
        BY <1>6, <1>15, <1>16, <3>3 DEF OnboardingInv, CallFits, n
      <4>2. \A o \in 1..onboarding[d].org : orgs'[o] = orgs[o]
        BY <1>3, <1>7, <4>1
      <4> QED BY <3>1, <4>1, <4>2 DEF ReadOfRow
    <3> QED BY <3>2, <3>3
  <2>3. \A d \in Applying : ActivatesAlone(d)'
    BY <1>1, <1>5, <1>6, <1>13, <1>15, <1>16 DEF ActivatesAlone
  <2> QED BY <2>1, <2>2, <2>3
<1>17. Alone'
  BY <1>16 DEF Alone
<1>18. OwnPayments'
  BY <1>1, <1>5, <1>6, <1>14 DEF OnboardingInv, OwnPayments
<1>19. Onboarding!OneOrganization'
  <2>1. DOMAIN orgs = 1..n /\ DOMAIN orgs' = 1..(n + 1)
    BY <1>3, <1>7 DEF n
  \* the new one against any other
  <2>2. ASSUME NEW o \in 1..n
        PROVE  /\ orgs[o].names \cap names \cap Subdomains = {}
               /\ \/ unusual' \cap {"race", "reopened"} # {}
                  \/ "died" \in unusual' /\ orgs[o].names \cap names = {}
    <3>1. orgs[o].names \cap names \cap Subdomains = {}
      BY <1>1, <2>1, <2>2
    <3>2. ASSUME unusual' \cap {"race", "reopened"} = {}
          PROVE  "died" \in unusual' /\ orgs[o].names \cap names = {}
      <4>1. orgs # << >>
        BY <1>3, <2>1, <2>2
      <4>2. /\ RowAlone /\ app.stage # "COMPLETED" /\ \A d \in Applying : ~ Onboarding!Activating(d)
            /\ \A p \in 1..n : p = app.org \/ orgs[p].names \cap names = {}
        BY <1>15, <3>2
      <4>3. "reopened" \notin unusual /\ (unusual \cap {"reopened", "died"} # {})
        BY <1>14, <3>2, <4>1, <4>2 DEF RowAlone
      <4>4. app.org = 0
        BY <4>2, <4>3 DEF RowAlone
      <4>5. o # app.org
        BY <1>3, <2>2, <4>4
      <4> QED BY <1>14, <2>2, <4>2, <4>3, <4>5
    <3> QED BY <3>1, <3>2
  <2>3. ASSUME NEW o \in DOMAIN orgs', NEW p \in DOMAIN orgs', o # p
        PROVE  /\ orgs'[o].names \cap orgs'[p].names \cap Subdomains = {}
               /\ \/ unusual' \cap {"race", "reopened"} # {}
                  \/ "died" \in unusual' /\ orgs'[o].names \cap orgs'[p].names = {}
    <3>1. orgs'[n + 1].names = names /\ \A q \in 1..n : orgs'[q] = orgs[q]
      BY <1>4, <1>7
    <3>2. CASE o \in 1..n /\ p \in 1..n
      BY <1>14, <2>1, <2>3, <3>1, <3>2 DEF OnboardingInv, Onboarding!OneOrganization
    <3>3. CASE o = n + 1 /\ p \in 1..n
      BY <2>2, <3>1, <3>3
    <3>4. CASE o \in 1..n /\ p = n + 1
      BY <2>2, <3>1, <3>4
    <3>5. (o \in 1..n \/ o = n + 1) /\ (p \in 1..n \/ p = n + 1)
      BY <1>3, <2>1, <2>3
    <3> QED BY <2>3, <3>2, <3>3, <3>4, <3>5
  <2> QED BY <2>3 DEF Onboarding!OneOrganization
<1>20. Onboarding!PaidForItsTier'
  <2>1. SUFFICES ASSUME unusual' \cap {"race", "foreign"} = {}, NEW o \in DOMAIN orgs'
                 PROVE  IF orgs'[o].paid
                        THEN \E k \in DOMAIN payments : payments[k].tier = orgs'[o].tier /\ payments[k].settled
                        ELSE orgs'[o].tier \in Custom
    BY <1>1 DEF Onboarding!PaidForItsTier
  <2>2. OwnPayments /\ Onboarding!PaidForItsTier /\ unusual \cap {"race", "foreign"} = {}
    BY <1>14, <2>1 DEF OnboardingInv
  <2>3. DOMAIN orgs = 1..n /\ o \in 1..(n + 1)
    BY <1>3, <1>7 DEF n
  <2>4. CASE o \in 1..n
    BY <1>7, <2>2, <2>3, <2>4 DEF Onboarding!PaidForItsTier
  <2>5. CASE o = n + 1
    <3>1. RowAlone /\ app.stage = onboarding[c].stage /\ app.tier = onboarding[c].tier
      BY <1>15, <2>1
    <3>2. app.intent \in DOMAIN payments \cup {Onboarding!Nothing}
      BY DEF OnboardingInv, OnboardingTyped
    <3>3. orgs'[o].tier = app.tier /\ orgs'[o].paid = (app.stage = Paid)
      BY <1>4, <1>7, <2>5, <3>1
    <3>4. CASE app.stage = Paid
      <4>1. app.intent # Onboarding!Foreign /\ app.intent # Onboarding!Nothing /\ payments[app.intent].settled
        BY <2>2, <3>4 DEF OwnPayments
      <4> QED BY <3>1, <3>2, <3>3, <3>4, <4>1 DEF RowAlone
    <3>5. CASE app.stage # Paid
      <4>1. app.stage = QuoteAccepted
        BY <1>3, <3>1, <3>5 DEF Onboarding!Activatable, Paid, QuoteAccepted
      <4> QED BY <2>2, <3>3, <3>5, <4>1 DEF OwnPayments
    <3> QED BY <3>4, <3>5
  <2> QED BY <1>3, <2>3, <2>4, <2>5
<1>21. "race" \in unusual' \/ orgs' = << >> \/ app'.approved
  BY <1>1, <1>15 DEF RowAlone
<1> QED BY <1>9, <1>10, <1>12, <1>17, <1>18, <1>19, <1>20, <1>21 DEF OnboardingInv

\* The applicant joins the organization and moves to it.
LEMMA OnboardingMoves ==
  ASSUME OnboardingInv, NEW c \in Applying, Onboarding!Join(c) \/ Onboarding!MoveApplicant(c)
  PROVE  OnboardingInv'
<1> DEFINE at == IF onboarding[c].at = "join" THEN "move" ELSE "complete"
           was == onboarding[c]
           org == onboarding[c].org
           call == WithOrganization(was, at, org)
<1>1. /\ Onboarding!Activating(c) /\ onboarding[c].at \in {"join", "move"}
      /\ app' = app /\ claim' = claim /\ payments' = payments /\ orgs' = orgs /\ unusual' = unusual
      /\ IF at = "move" THEN members' = members \cup {onboarding[c].org} /\ home' = home
         ELSE members' = members /\ home' = onboarding[c].org
  BY DEF Onboarding!Join, Onboarding!MoveApplicant, Onboarding!Activating
<1>2. /\ onboarding[c] \in OnboardingCall /\ Len(orgs) \in Nat
      /\ onboarding[c].org \in 1..Len(orgs) /\ onboarding[c].org \in Nat /\ onboarding[c].stage \in Onboarding!Stages
      /\ onboarding[c].at = "move" => onboarding[c].org \in members
  BY <1>1 DEF OnboardingInv, OnboardingTyped, CallFits
<1>3. onboarding' = [onboarding EXCEPT ![c] = call]
  <2>1. WithOrganization(onboarding[c], at, onboarding[c].org) = [onboarding[c] EXCEPT !.at = at]
    BY <1>2 DEF WithOrganization, OnboardingCall
  <2> QED BY <1>1, <2>1 DEF Onboarding!Join, Onboarding!MoveApplicant, OnboardingInv, OnboardingTyped
<1>4. at \in {"move", "complete"} /\ at \in {"join", "move", "complete"} /\ (onboarding[c].at = "join" <=> at = "move")
  OBVIOUS
<1>5. /\ call \in OnboardingCall /\ call.at = at /\ call.org = onboarding[c].org /\ call.stage = onboarding[c].stage
      /\ call.intent = onboarding[c].intent
  <2>1. was \in OnboardingCall /\ at \in {"join", "move", "complete"} /\ org \in Nat
    BY <1>2, <1>4
  <2> HIDE DEF was, at, org
  <2>2. /\ call \in OnboardingCall /\ call.at = at /\ call.org = org /\ call.stage = was.stage
        /\ call.intent = was.intent
    BY SMTT(30), <2>1, WithOrganizationIs
  <2> QED BY <2>2 DEF was, org
<1> HIDE DEF at, call
<1>6. /\ onboarding' \in [Applying -> OnboardingCall] /\ onboarding'[c] = call
      /\ \A d \in Applying \ {c} : onboarding'[d] = onboarding[d] /\ CallStays(d)
  BY <1>3, <1>5, OneCallWritten
<1>7. members \subseteq members' /\ members' \subseteq 1..Len(orgs) /\ home' \in 0..Len(orgs)
      /\ onboarding[c].org \in members'
  BY <1>1, <1>2, <1>4 DEF OnboardingInv, OnboardingTyped
<1>8. RecordsGrow
  BY <1>1, <1>2, <1>7 DEF RecordsGrow
<1>9. OnboardingTyped'
  BY <1>1, <1>6, <1>7 DEF OnboardingInv, OnboardingTyped
<1>10. PaymentsFit'
  BY <1>1 DEF OnboardingInv, PaymentsFit
<1>11. CallFits(c)'
  BY <1>1, <1>2, <1>4, <1>5, <1>6, <1>7 DEF CallFits
<1>12. \A d \in Applying : CallFits(d)'
  BY <1>6, <1>8, <1>11, CallStaysFit
<1>13. \A d \in Applying : Onboarding!Activating(d)' <=> Onboarding!Activating(d)
  BY <1>1, <1>4, <1>5, <1>6 DEF Onboarding!Activating
<1>14. ASSUME "race" \notin unusual' PROVE RowAlone' /\ \A d \in Applying : ReadOfRow(d)' /\ ActivatesAlone(d)'
  <2>1. RowAlone /\ \A d \in Applying : ReadOfRow(d) /\ ActivatesAlone(d)
    BY <1>1, <1>14 DEF OnboardingInv, Alone
  <2>2. app.stage # "COMPLETED" /\ \A d \in Applying \ {c} : ~ Onboarding!Activating(d)
    BY <1>1, <2>1 DEF ActivatesAlone
  <2>3. RowAlone'
    BY <1>1, <1>13, <2>1, <2>2 DEF RowAlone
  <2>4. \A d \in Applying : ReadOfRow(d)'
    BY <1>1, <1>4, <1>5, <1>6, <2>1 DEF ReadOfRow
  <2>5. \A d \in Applying : ActivatesAlone(d)'
    BY <1>1, <1>4, <1>5, <1>6, <1>13, <2>2 DEF ActivatesAlone
  <2> QED BY <2>3, <2>4, <2>5
<1>15. Alone'
  BY <1>14 DEF Alone
<1>16. OwnPayments'
  BY <1>1, <1>5, <1>6 DEF OnboardingInv, OwnPayments
<1>17. Onboarding!OneOrganization' /\ Onboarding!PaidForItsTier'
  BY <1>1 DEF OnboardingInv, Onboarding!OneOrganization, Onboarding!PaidForItsTier
<1> QED BY <1>1, <1>9, <1>10, <1>12, <1>15, <1>16, <1>17 DEF OnboardingInv

\* Every step of the onboarding preserves its invariant.
LEMMA OnboardingStep == OnboardingInv /\ [Onboarding!Next]_(Onboarding!vars) => OnboardingInv'
<1> SUFFICES ASSUME OnboardingInv, [Onboarding!Next]_(Onboarding!vars) PROVE OnboardingInv'
  OBVIOUS
<1>1. CASE UNCHANGED Onboarding!vars
  <2>1. /\ app' = app /\ claim' = claim /\ payments' = payments /\ orgs' = orgs /\ members' = members /\ home' = home
        /\ onboarding' = onboarding /\ unusual' = unusual
    BY <1>1 DEF Onboarding!vars
  <2>2. OnboardingTyped' /\ PaymentsFit'
    BY <2>1 DEF OnboardingInv, OnboardingTyped, PaymentsFit
  <2>3. \A c \in Applying : (CallFits(c)' <=> CallFits(c)) /\ (ReadOfRow(c)' <=> ReadOfRow(c))
                            /\ (Onboarding!Activating(c)' <=> Onboarding!Activating(c))
    BY <2>1 DEF CallFits, ReadOfRow, Onboarding!Activating
  <2>4. \A c \in Applying : ActivatesAlone(c)' <=> ActivatesAlone(c)
    BY <2>1, <2>3 DEF ActivatesAlone
  <2>5. RowAlone' <=> RowAlone
    BY <2>1, <2>3 DEF RowAlone
  <2>6. Alone'
    BY <2>1, <2>3, <2>4, <2>5 DEF OnboardingInv, Alone
  <2>7. OwnPayments'
    BY <2>1 DEF OnboardingInv, OwnPayments
  <2>8. Onboarding!OneOrganization' /\ Onboarding!PaidForItsTier'
    BY <2>1 DEF OnboardingInv, Onboarding!OneOrganization, Onboarding!PaidForItsTier
  <2> QED BY <2>1, <2>2, <2>3, <2>6, <2>7, <2>8 DEF OnboardingInv
<1>2. CASE Onboarding!Next
  <2>1. ASSUME NEW c \in Applying, Onboarding!Die(c) PROVE OnboardingInv'
    BY <2>1, OnboardingCallEnds DEF Onboarding!Die
  <2>2. \/ \E c \in Applying :
             \/ \/ Onboarding!ReadForReview(c) \/ Onboarding!ReadForQuote(c) \/ Onboarding!ReadForTier(c)
                \/ Onboarding!ReadForPayment(c) \/ Onboarding!ReadForSync(c) \/ Onboarding!ReadForActivation(c)
             \/ Onboarding!WriteStage(c) \/ Onboarding!ConfirmTier(c) \/ Onboarding!LinkIntent(c)
             \/ Onboarding!Complete(c)
             \/ Onboarding!FindOrCreateIntent(c) \/ Onboarding!ReadIntent(c)
             \/ Onboarding!Provision(c)
             \/ Onboarding!Join(c) \/ Onboarding!MoveApplicant(c)
             \/ Onboarding!Die(c)
        \/ \E key \in DOMAIN payments : Onboarding!SettleIntent(key)
    BY <1>2 DEF Onboarding!Next
  <2> QED BY <2>1, <2>2, OnboardingReadSteps, OnboardingWriteStage, OnboardingConfirmTier, OnboardingLinkIntent,
             OnboardingComplete, OnboardingIntentSteps, OnboardingProvision, OnboardingMoves, OnboardingSettles
<1> QED BY <1>1, <1>2

\* What the invariant of the onboarding says of it.
LEMMA OnboardingProperties ==
  ASSUME OnboardingInv
  PROVE  /\ Onboarding!TypeOK /\ Onboarding!OneOrganization /\ Onboarding!PaidForItsTier
         /\ Onboarding!ProvisionedAsApproved
<1>1. Onboarding!TypeOK
  <2>1. orgs \in Seq([tier : Tiers, paid : BOOLEAN, names : SUBSET (Subdomains \cup Domains)]) /\ DOMAIN orgs = 1..Len(orgs) /\ Len(orgs) \in Nat
    BY DEF OnboardingInv, OnboardingTyped, OrganizationRow
  <2>2. app \in Onboarding!Applications
    <3>1. app.org \in 0..MaxOrganizations
      BY <2>1, OnboardingNames DEF OnboardingInv, OnboardingTyped
    <3> QED BY <3>1 DEF OnboardingInv, OnboardingTyped, ApplicationRow, Onboarding!Applications
  <2>3. \A k \in DOMAIN payments :
          payments[k] \in [tier : Tiers \cup {Onboarding!Nothing}, status : {"PENDING", "SETTLED", "FAILED"},
                           settled : BOOLEAN]
    BY DEF OnboardingInv, OnboardingTyped, IntentRow
  <2>4. ASSUME NEW c \in Applying
        PROVE  \/ onboarding[c] = Onboarding!Idle
               \/ /\ onboarding[c].at \in {"stage", "tier", "pay", "sync", "link", "provision", "join", "move", "complete"}
                  /\ onboarding[c].stage \in Onboarding!Stages
                  /\ onboarding[c].tier \in Tiers \cup {Onboarding!Nothing}
                  /\ onboarding[c].intent \in Onboarding!Keys \cup {Onboarding!Nothing}
                  /\ onboarding[c].names \subseteq Subdomains \cup Domains
                  /\ onboarding[c].org \in 0..Len(orgs) /\ onboarding[c].stale \in BOOLEAN
    <3>1. onboarding[c] \in OnboardingCall /\ CallFits(c)
      BY DEF OnboardingInv, OnboardingTyped
    <3> QED BY <3>1 DEF OnboardingCall, OnboardingAts, CallFits
  <2> QED BY <2>1, <2>2, <2>3, <2>4 DEF Onboarding!TypeOK, OnboardingInv, OnboardingTyped
<1>2. Onboarding!ProvisionedAsApproved
  BY DEF Onboarding!ProvisionedAsApproved, OnboardingInv, OnboardingTyped, Alone, RowAlone
<1> QED BY <1>1, <1>2 DEF OnboardingInv

----------------------------------------------------------------------------
(* Outgoing webhooks                                                       *)
(*                                                                         *)
(* The composition has two instances, for different webhooks and timers;   *)
(* what follows holds for all of them.  A row that is not excused is in    *)
(* the hands of one sender at most, and what that sender remembers of it   *)
(* is what the row will be said to be.                                     *)

SendersOf(R) == Dispatches \cup R

WebhookRow == [is : {"absent", "active", "inactive", "removed"}, maxRetries : 0 .. MaxRetries]
DeliveryStatuses == {"PENDING", "SUCCESS", "FAILED", "DEAD_LETTER", "REMOVED"}
DeliveryRow(H) ==
  [hook : H, status : DeliveryStatuses, attempts : Nat, due : BOOLEAN,
   sent : Nat, taken : BOOLEAN, again : BOOLEAN, excused : BOOLEAN]
SenderRow(H) ==
  [at : {"idle", "create", "read", "post", "record", "over"}, hooks : SUBSET H, todo : SUBSET Nat,
   attempt : Nat, final : BOOLEAN, ok : BOOLEAN]

\* only who is at work has deliveries to attend to
SenderFits(s) ==
  /\ s.at \in {"read", "post", "record"} => s.todo # {}
  /\ s.at \in {"idle", "over"} => s.todo = {}

DeliveringTyped(H, R, N) ==
  /\ hooks \in [H -> WebhookRow]
  /\ deliveries \in Seq(DeliveryRow(H))
  /\ senders \in [SendersOf(R) -> SenderRow(H)]
  /\ cycles \in [R -> 0 .. N]
  /\ \A p \in SendersOf(R) : SenderFits(senders[p]) /\ senders[p].todo \subseteq DOMAIN deliveries

Oldest(todo) == CHOOSE d \in todo : \A e \in todo : d <= e

\* what a sender has yet to record is what it sent
AttemptFits(s) ==
  /\ s.at = "post" => s.attempt <= deliveries[Oldest(s.todo)].sent + 1
  /\ s.at = "record" => s.attempt <= deliveries[Oldest(s.todo)].sent

AttemptsWereSent(R) ==
  /\ \A d \in DOMAIN deliveries : deliveries[d].attempts <= deliveries[d].sent
  /\ \A p \in SendersOf(R) : AttemptFits(senders[p])

RemovedWithHook ==
  \A d \in DOMAIN deliveries :
    deliveries[d].status = "REMOVED" <=> hooks[deliveries[d].hook].is = "removed"

Posting(s, d) == d \in s.todo /\ s.at = "post" /\ Oldest(s.todo) = d
Recording(s, d) == d \in s.todo /\ s.at = "record" /\ Oldest(s.todo) = d

PostFits(s, row) ==
  /\ ~ row.taken /\ row.sent <= MaxRetries /\ s.attempt = row.sent + 1
  /\ ~ s.final => s.attempt <= MaxRetries
RecordFits(s, row) ==
  /\ s.attempt = row.sent /\ (row.taken <=> s.ok)
  /\ ~ s.final => s.attempt <= MaxRetries
AsRecorded(row) ==
  /\ row.attempts = row.sent
  /\ row.taken <=> row.status = "SUCCESS"
  /\ row.status \in {"PENDING", "FAILED"} => row.sent <= MaxRetries

RowRecorded(R, d) ==
  ~ deliveries[d].excused =>
    /\ ~ deliveries[d].again /\ deliveries[d].sent <= MaxRetries + 1
    /\ \A p, q \in SendersOf(R) : d \in senders[p].todo /\ d \in senders[q].todo => p = q
    /\ \A p \in SendersOf(R) : d \in senders[p].todo =>
         /\ deliveries[d].status \in {"PENDING", "FAILED", "REMOVED"}
         /\ Posting(senders[p], d) => PostFits(senders[p], deliveries[d])
         /\ Recording(senders[p], d) => RecordFits(senders[p], deliveries[d])
    /\ (\A p \in SendersOf(R) : ~ Recording(senders[p], d)) /\ deliveries[d].status # "REMOVED" =>
         AsRecorded(deliveries[d])

DeliveringInv(H, R, N) ==
  /\ DeliveringTyped(H, R, N)
  /\ AttemptsWereSent(R)
  /\ RemovedWithHook
  /\ \A d \in DOMAIN deliveries : RowRecorded(R, d)

\* There are no deliveries and nobody sends.
LEMMA DeliveringInit ==
  ASSUME NEW H, NEW R, NEW N \in Nat, Webhooks(H, R, N)!Init
  PROVE  DeliveringInv(H, R, N)
<1>1. DeliveringTyped(H, R, N)
  <2>1. Webhooks(H, R, N)!Idle \in SenderRow(H)
    BY DEF Webhooks!Idle, SenderRow
  <2>2. hooks \in [H -> WebhookRow] /\ deliveries = << >> /\ cycles \in [R -> 0 .. N]
    BY DEF Webhooks!Init, WebhookRow
  <2>3. senders = [p \in SendersOf(R) |-> Webhooks(H, R, N)!Idle]
    BY DEF Webhooks!Init, Webhooks!Senders, SendersOf
  <2>4. \A p \in SendersOf(R) : SenderFits(senders[p]) /\ senders[p].todo = {}
    BY <2>3 DEF Webhooks!Idle, SenderFits
  <2> QED BY <2>1, <2>2, <2>3, <2>4 DEF DeliveringTyped
<1>2. deliveries = << >> /\ \A p \in SendersOf(R) : senders[p].at = "idle"
  BY DEF Webhooks!Init, Webhooks!Senders, Webhooks!Idle, SendersOf
<1> QED BY <1>1, <1>2 DEF DeliveringInv, AttemptsWereSent, AttemptFits, RemovedWithHook

\* Deliveries are numbered from one.
LEMMA DeliveriesTyped ==
  ASSUME NEW H, NEW R, NEW N, DeliveringTyped(H, R, N)
  PROVE  /\ DOMAIN deliveries = 1..Len(deliveries) /\ Len(deliveries) \in Nat
         /\ \A d \in DOMAIN deliveries : deliveries[d] \in DeliveryRow(H)
<1>1. deliveries \in Seq(DeliveryRow(H))
  BY DEF DeliveringTyped
<1> QED BY <1>1

\* A sender is at the oldest of what it has left.
LEMMA CurrentIsOldest ==
  ASSUME NEW H, NEW R, NEW N PROVE \A p : Webhooks(H, R, N)!Current(p) = Oldest(senders[p].todo)
  BY DEF Webhooks!Current, Oldest

\* ... which it has, if it has any.
LEMMA OldestHeld ==
  ASSUME NEW todo, todo \subseteq Nat, todo # {} PROVE Oldest(todo) \in todo
  BY LeastNatural DEF Oldest

\* A row that the step leaves alone keeps what is said of it, if the sender that takes
\* the step neither takes it up nor is about to send or record it.
LEMMA RowKept ==
  ASSUME NEW R, NEW p \in SendersOf(R), NEW d, RowRecorded(R, d), deliveries'[d] = deliveries[d],
         \A q \in SendersOf(R) \ {p} : senders'[q] = senders[q],
         d \in senders'[p].todo => d \in senders[p].todo,
         ~ Posting(senders'[p], d), ~ Recording(senders'[p], d), ~ Recording(senders[p], d)
  PROVE  RowRecorded(R, d)'
<1> SUFFICES ASSUME ~ deliveries[d].excused
             PROVE  /\ ~ deliveries[d].again /\ deliveries[d].sent <= MaxRetries + 1
                    /\ \A q, r \in SendersOf(R) : d \in senders'[q].todo /\ d \in senders'[r].todo => q = r
                    /\ \A q \in SendersOf(R) : d \in senders'[q].todo =>
                         /\ deliveries[d].status \in {"PENDING", "FAILED", "REMOVED"}
                         /\ Posting(senders'[q], d) => PostFits(senders'[q], deliveries[d])
                         /\ Recording(senders'[q], d) => RecordFits(senders'[q], deliveries[d])
                    /\ (\A q \in SendersOf(R) : ~ Recording(senders'[q], d)) /\ deliveries[d].status # "REMOVED" =>
                         AsRecorded(deliveries[d])
  BY Zenon DEF RowRecorded, Posting, Recording, PostFits, RecordFits, AsRecorded, SendersOf
<1>1. \A q \in SendersOf(R) : d \in senders'[q].todo => d \in senders[q].todo
  OBVIOUS
<1>2. \A q \in SendersOf(R) : d \in senders'[q].todo =>
        /\ deliveries[d].status \in {"PENDING", "FAILED", "REMOVED"}
        /\ Posting(senders'[q], d) => PostFits(senders'[q], deliveries[d])
        /\ Recording(senders'[q], d) => RecordFits(senders'[q], deliveries[d])
  <2> SUFFICES ASSUME NEW q \in SendersOf(R), d \in senders'[q].todo
               PROVE  /\ deliveries[d].status \in {"PENDING", "FAILED", "REMOVED"}
                      /\ Posting(senders'[q], d) => PostFits(senders'[q], deliveries[d])
                      /\ Recording(senders'[q], d) => RecordFits(senders'[q], deliveries[d])
    OBVIOUS
  <2>1. CASE q = p
    BY <2>1 DEF RowRecorded
  <2>2. CASE q # p
    BY <2>2 DEF RowRecorded
  <2> QED BY <2>1, <2>2
<1>3. (\A q \in SendersOf(R) : ~ Recording(senders'[q], d)) => \A q \in SendersOf(R) : ~ Recording(senders[q], d)
  <2> SUFFICES ASSUME \A q \in SendersOf(R) : ~ Recording(senders'[q], d), NEW q \in SendersOf(R)
               PROVE  ~ Recording(senders[q], d)
    OBVIOUS
  <2>1. CASE q = p
    BY <2>1
  <2>2. CASE q # p
    BY <2>2
  <2> QED BY <2>1, <2>2
<1> QED BY <1>1, <1>2, <1>3 DEF RowRecorded

\* ... and for a row that the step writes, this is what is to show.
LEMMA RowRecordedIs ==
  ASSUME NEW R, NEW d,
         ~ deliveries'[d].again /\ deliveries'[d].sent <= MaxRetries + 1,
         \A p, q \in SendersOf(R) : d \in senders'[p].todo /\ d \in senders'[q].todo => p = q,
         \A p \in SendersOf(R) : d \in senders'[p].todo =>
           /\ deliveries'[d].status \in {"PENDING", "FAILED", "REMOVED"}
           /\ Posting(senders'[p], d) => PostFits(senders'[p], deliveries'[d])
           /\ Recording(senders'[p], d) => RecordFits(senders'[p], deliveries'[d]),
         (\A p \in SendersOf(R) : ~ Recording(senders'[p], d)) /\ deliveries'[d].status # "REMOVED" =>
           AsRecorded(deliveries'[d])
  PROVE  RowRecorded(R, d)'
  BY Zenon DEF RowRecorded, Posting, Recording, PostFits, RecordFits, AsRecorded, SendersOf

\* A sender that stops holds nothing.
LEMMA StoppedSender ==
  ASSUME NEW H, NEW R, NEW N, NEW p
  PROVE  LET s == Webhooks(H, R, N)!Stopped(p) IN s \in SenderRow(H) /\ SenderFits(s) /\ s.todo = {} /\ s.at \in {"idle", "over"}
  BY DEF Webhooks!Stopped, Webhooks!Idle, SenderRow, SenderFits

\* A sender that is done with a delivery holds the others.
LEMMA RestOfSender ==
  ASSUME NEW H, NEW R, NEW N, NEW p \in SendersOf(R), DeliveringTyped(H, R, N), senders[p].todo # {}
  PROVE  LET s == Webhooks(H, R, N)!Rest(p)
         IN  /\ s \in SenderRow(H) /\ SenderFits(s) /\ s.at \in {"idle", "over", "read"}
             /\ s.todo = senders[p].todo \ {Oldest(senders[p].todo)}
<1>1. senders[p] \in SenderRow(H) /\ senders[p].todo \subseteq Nat
  BY DEF DeliveringTyped, SenderRow
<1>2. Oldest(senders[p].todo) \in senders[p].todo
  BY <1>1, OldestHeld
<1> DEFINE left == senders[p].todo \ {Oldest(senders[p].todo)}
<1>3. left \in SUBSET Nat /\ (senders[p].todo = {Oldest(senders[p].todo)} <=> left = {})
  BY <1>1, <1>2
<1> DEFINE s == [Webhooks(H, R, N)!Idle EXCEPT !.at = "read", !.todo = left]
<1>4. s \in SenderRow(H) /\ s.at = "read" /\ s.todo = left
  BY <1>3 DEF Webhooks!Idle, SenderRow
<1>5. Webhooks(H, R, N)!Rest(p) = IF left = {} THEN Webhooks(H, R, N)!Stopped(p) ELSE s
  BY <1>3, CurrentIsOldest DEF Webhooks!Rest
<1> HIDE DEF s, left
<1>6. /\ Webhooks(H, R, N)!Stopped(p) \in SenderRow(H) /\ SenderFits(Webhooks(H, R, N)!Stopped(p))
      /\ Webhooks(H, R, N)!Stopped(p).todo = {} /\ Webhooks(H, R, N)!Stopped(p).at \in {"idle", "over"}
  BY StoppedSender
<1>7. SenderFits(s) \/ left = {}
  BY <1>4 DEF SenderFits
<1> QED BY <1>4, <1>5, <1>6, <1>7 DEF left

\* What a step of one sender has to show of the rows: those it writes, and that it
\* leaves the others to themselves.
LEMMA SenderSteps ==
  ASSUME NEW H, NEW R, NEW N, DeliveringInv(H, R, N), NEW p \in SendersOf(R), NEW s \in SenderRow(H), NEW W,
         hooks' = hooks, cycles' = cycles, senders' = [senders EXCEPT ![p] = s],
         deliveries' \in Seq(DeliveryRow(H)), DOMAIN deliveries' = DOMAIN deliveries,
         \A d \in DOMAIN deliveries \ W : deliveries'[d] = deliveries[d],
         \A d \in DOMAIN deliveries : /\ deliveries'[d].hook = deliveries[d].hook
                                      /\ deliveries'[d].sent >= deliveries[d].sent
                                      /\ (deliveries'[d].status = "REMOVED") = (deliveries[d].status = "REMOVED")
                                      /\ deliveries'[d].attempts <= deliveries'[d].sent,
         SenderFits(s), s.todo \subseteq DOMAIN deliveries, AttemptFits(s)',
         \A d \in DOMAIN deliveries \ W :
           /\ d \in s.todo => d \in senders[p].todo
           /\ ~ Posting(s, d) /\ ~ Recording(s, d) /\ ~ Recording(senders[p], d),
         \A d \in W \cap DOMAIN deliveries : RowRecorded(R, d)'
  PROVE  DeliveringInv(H, R, N)'
<1>1. senders'[p] = s /\ \A q \in SendersOf(R) \ {p} : senders'[q] = senders[q]
  BY DEF DeliveringInv, DeliveringTyped
<1>2. DeliveringTyped(H, R, N)'
  <2>1. senders' \in [SendersOf(R) -> SenderRow(H)]
    BY DEF DeliveringInv, DeliveringTyped
  <2>2. \A q \in SendersOf(R) : SenderFits(senders'[q]) /\ senders'[q].todo \subseteq DOMAIN deliveries'
    BY <1>1 DEF DeliveringInv, DeliveringTyped
  <2> QED BY <2>1, <2>2 DEF DeliveringInv, DeliveringTyped, SendersOf
<1>3. AttemptsWereSent(R)'
  <2>1. ASSUME NEW q \in SendersOf(R) PROVE AttemptFits(senders[q])'
    <3>1. CASE q = p
      BY <1>1, <3>1 DEF AttemptFits
    <3>2. CASE q # p
      <4>1. senders'[q] = senders[q] /\ AttemptFits(senders[q]) /\ senders[q] \in SenderRow(H) /\ SenderFits(senders[q])
            /\ senders[q].todo \subseteq DOMAIN deliveries
        BY <1>1, <3>2 DEF DeliveringInv, DeliveringTyped, AttemptsWereSent
      <4>2. CASE senders[q].at \in {"post", "record"}
        <5>1. senders[q].todo # {} /\ senders[q].todo \subseteq Nat /\ senders[q].attempt \in Nat
          BY <4>1, <4>2 DEF SenderFits, SenderRow
        <5>2. Oldest(senders[q].todo) \in DOMAIN deliveries
          BY <4>1, <5>1, OldestHeld
        <5> DEFINE o == Oldest(senders[q].todo)
        <5>3. deliveries[o].sent \in Nat /\ deliveries'[o].sent \in Nat /\ deliveries'[o].sent >= deliveries[o].sent
          <6>1. deliveries[o] \in DeliveryRow(H) /\ deliveries'[o] \in DeliveryRow(H)
            BY <5>2, DeliveriesTyped DEF DeliveringInv
          <6> QED BY <5>2, <6>1 DEF DeliveryRow
        <5> QED BY SMTT(40), <4>1, <5>1, <5>3 DEF AttemptFits
      <4>3. CASE senders[q].at \notin {"post", "record"}
        BY <4>1, <4>3 DEF AttemptFits
      <4> QED BY <4>2, <4>3
    <3> QED BY <3>1, <3>2
  <2> QED BY <2>1 DEF AttemptsWereSent, SendersOf
<1>4. RemovedWithHook'
  BY DEF DeliveringInv, RemovedWithHook
<1>5. ASSUME NEW d \in DOMAIN deliveries PROVE RowRecorded(R, d)'
  <2>1. CASE d \in W
    BY <2>1
  <2>2. CASE d \notin W
    <3>1. RowRecorded(R, d) /\ deliveries'[d] = deliveries[d]
      BY <2>2 DEF DeliveringInv
    <3>2. /\ d \in senders'[p].todo => d \in senders[p].todo
          /\ ~ Posting(senders'[p], d) /\ ~ Recording(senders'[p], d) /\ ~ Recording(senders[p], d)
      BY <1>1, <2>2
    <3> QED BY <1>1, <3>1, <3>2, RowKept
  <2> QED BY <2>1, <2>2
<1> QED BY <1>2, <1>3, <1>4, <1>5 DEF DeliveringInv

\* Changes of webhooks: nobody's list changes, and a row only becomes REMOVED.
LEMMA HookSteps ==
  ASSUME NEW H, NEW R, NEW N, DeliveringInv(H, R, N), NEW h \in H,
         Webhooks(H, R, N)!CreateWebhook(h) \/ Webhooks(H, R, N)!UpdateWebhook(h) \/ Webhooks(H, R, N)!RemoveWebhook(h)
  PROVE  DeliveringInv(H, R, N)'
<1> USE DEF DeliveringInv
<1>1. CASE Webhooks(H, R, N)!CreateWebhook(h) \/ Webhooks(H, R, N)!UpdateWebhook(h)
  <2>1. /\ hooks[h].is # "removed"
        /\ UNCHANGED <<deliveries, senders, cycles>>
        /\ \E is \in {"active", "inactive"}, n \in 0 .. MaxRetries :
             hooks' = [hooks EXCEPT ![h] = [is |-> is, maxRetries |-> n]]
    BY <1>1, Zenon DEF Webhooks!CreateWebhook, Webhooks!UpdateWebhook
  <2>2. hooks' \in [H -> WebhookRow] /\ hooks'[h].is # "removed" /\ \A g \in H \ {h} : hooks'[g] = hooks[g]
    BY <2>1 DEF DeliveringTyped, WebhookRow
  <2>3. DeliveringTyped(H, R, N)'
    BY <2>1, <2>2 DEF DeliveringTyped
  <2>4. RemovedWithHook'
    <3>1. \A d \in DOMAIN deliveries : deliveries[d].hook \in H
      BY DeliveriesTyped DEF DeliveryRow
    <3> QED BY <2>1, <2>2, <3>1 DEF RemovedWithHook
  <2> QED BY <2>1, <2>3, <2>4 DEF AttemptsWereSent, AttemptFits, RowRecorded
<1>2. CASE Webhooks(H, R, N)!RemoveWebhook(h)
  <2> DEFINE Removed(d) == IF deliveries[d].hook = h THEN [deliveries[d] EXCEPT !.status = "REMOVED"] ELSE deliveries[d]
  <2>1. /\ hooks' = [hooks EXCEPT ![h].is = "removed"]
        /\ deliveries' = [d \in DOMAIN deliveries |-> Removed(d)]
        /\ UNCHANGED <<senders, cycles>>
    BY <1>2 DEF Webhooks!RemoveWebhook
  <2>2. hooks' \in [H -> WebhookRow] /\ hooks'[h].is = "removed" /\ \A g \in H \ {h} : hooks'[g].is = hooks[g].is
    BY <2>1 DEF DeliveringTyped, WebhookRow
  <2>3. ASSUME NEW d \in DOMAIN deliveries
        PROVE  /\ Removed(d) \in DeliveryRow(H)
               /\ Removed(d).hook = deliveries[d].hook /\ Removed(d).attempts = deliveries[d].attempts
               /\ Removed(d).sent = deliveries[d].sent /\ Removed(d).taken = deliveries[d].taken
               /\ Removed(d).again = deliveries[d].again /\ Removed(d).excused = deliveries[d].excused
               /\ Removed(d).status = IF deliveries[d].hook = h THEN "REMOVED" ELSE deliveries[d].status
    <3>1. deliveries[d] \in DeliveryRow(H)
      BY DeliveriesTyped
    <3> QED BY <3>1 DEF DeliveryRow, DeliveryStatuses
  <2> HIDE DEF Removed
  <2>4. DOMAIN deliveries' = DOMAIN deliveries /\ \A d \in DOMAIN deliveries : deliveries'[d] = Removed(d)
    BY <2>1
  <2>5. deliveries' \in Seq(DeliveryRow(H))
    <3>1. PICK n \in Nat : DOMAIN deliveries = 1..n
      BY DEF DeliveringTyped
    <3>2. deliveries' \in [1..n -> DeliveryRow(H)]
      BY <2>1, <2>3, <3>1
    <3> QED BY <3>2
  <2>6. DeliveringTyped(H, R, N)'
    BY <2>1, <2>2, <2>4, <2>5 DEF DeliveringTyped
  <2>7. AttemptsWereSent(R)'
    <3>1. \A d \in DOMAIN deliveries : deliveries'[d].attempts <= deliveries'[d].sent
      BY <2>3, <2>4 DEF AttemptsWereSent
    <3>2. ASSUME NEW q \in SendersOf(R) PROVE AttemptFits(senders[q])'
      <4>1. CASE senders[q].at \in {"post", "record"}
        <5>1. Oldest(senders[q].todo) \in DOMAIN deliveries
          <6>1. senders[q].todo # {} /\ senders[q].todo \subseteq Nat
            BY <4>1 DEF DeliveringTyped, SenderFits, SenderRow
          <6> QED BY <6>1, OldestHeld DEF DeliveringTyped
        <5>2. AttemptFits(senders[q])
          BY DEF AttemptsWereSent
        <5> QED BY <2>1, <2>3, <2>4, <5>1, <5>2 DEF AttemptFits
      <4>2. CASE senders[q].at \notin {"post", "record"}
        BY <2>1, <4>2 DEF AttemptFits
      <4> QED BY <4>1, <4>2
    <3> QED BY <2>1, <2>4, <3>1, <3>2 DEF AttemptsWereSent
  <2>8. RemovedWithHook'
    <3>1. \A d \in DOMAIN deliveries : deliveries[d].hook \in H
      BY DeliveriesTyped DEF DeliveryRow
    <3> QED BY <2>2, <2>3, <2>4, <3>1 DEF RemovedWithHook
  <2>9. ASSUME NEW d \in DOMAIN deliveries PROVE RowRecorded(R, d)'
    <3>1. RowRecorded(R, d) /\ deliveries'[d] = Removed(d)
      BY <2>4
    <3>2. \A s : PostFits(s, Removed(d)) <=> PostFits(s, deliveries[d])
      BY <2>3 DEF PostFits
    <3>3. \A s : RecordFits(s, Removed(d)) <=> RecordFits(s, deliveries[d])
      BY <2>3 DEF RecordFits
    <3>4. Removed(d).status # "REMOVED" => (AsRecorded(Removed(d)) <=> AsRecorded(deliveries[d]))
      BY <2>3 DEF AsRecorded
    <3> HIDE <1>2
    <3> QED BY <2>1, <2>3, <3>1, <3>2, <3>3, <3>4 DEF RowRecorded, Posting, Recording
  <2> QED BY <2>4, <2>6, <2>7, <2>8, <2>9
<1> QED BY <1>1, <1>2

\* What the invariant says of one sender.
LEMMA SenderTyped ==
  ASSUME NEW H, NEW R, NEW N, DeliveringInv(H, R, N), NEW p \in SendersOf(R)
  PROVE  /\ senders[p] \in SenderRow(H) /\ SenderFits(senders[p]) /\ AttemptFits(senders[p])
         /\ senders[p].todo \subseteq DOMAIN deliveries /\ senders[p].todo \subseteq Nat
         /\ senders[p].todo # {} => Oldest(senders[p].todo) \in senders[p].todo
<1>1. senders[p] \in SenderRow(H) /\ senders[p].todo \subseteq Nat
  BY DEF DeliveringInv, DeliveringTyped, SenderRow
<1> QED BY <1>1, OldestHeld DEF DeliveringInv, DeliveringTyped, AttemptsWereSent

\* Steps that write no row.
LEMMA QuietSteps ==
  ASSUME NEW H, NEW R, NEW N, DeliveringInv(H, R, N), NEW p \in SendersOf(R), NEW s \in SenderRow(H),
         UNCHANGED <<hooks, cycles, deliveries>>, senders' = [senders EXCEPT ![p] = s],
         SenderFits(s), AttemptFits(s), s.todo \subseteq senders[p].todo,
         s.at \notin {"post", "record"}, senders[p].at # "record"
  PROVE  DeliveringInv(H, R, N)'
<1>1. s.todo \subseteq DOMAIN deliveries /\ deliveries' \in Seq(DeliveryRow(H)) /\ deliveries' = deliveries
  BY SenderTyped DEF DeliveringInv, DeliveringTyped
<1>2. \A d \in DOMAIN deliveries : /\ deliveries'[d].hook = deliveries[d].hook
                                   /\ deliveries'[d].sent >= deliveries[d].sent
                                   /\ (deliveries'[d].status = "REMOVED") = (deliveries[d].status = "REMOVED")
                                   /\ deliveries'[d].attempts <= deliveries'[d].sent
  BY DeliveriesTyped DEF DeliveringInv, AttemptsWereSent, DeliveryRow
<1>3. \A d \in DOMAIN deliveries \ {} : ~ Posting(s, d) /\ ~ Recording(s, d) /\ ~ Recording(senders[p], d)
  BY DEF Posting, Recording
<1>4. AttemptFits(s)'
  BY DEF AttemptFits
<1>5. \A d \in {} \cap DOMAIN deliveries : RowRecorded(R, d)'
  OBVIOUS
<1>6. /\ \A d \in DOMAIN deliveries \ {} : deliveries'[d] = deliveries[d]
      /\ \A d \in DOMAIN deliveries \ {} : /\ d \in s.todo => d \in senders[p].todo
                                           /\ ~ Posting(s, d) /\ ~ Recording(s, d) /\ ~ Recording(senders[p], d)
  BY <1>3
<1>7. DOMAIN deliveries' = DOMAIN deliveries /\ hooks' = hooks /\ cycles' = cycles
  OBVIOUS
<1> QED BY <1>1, <1>2, <1>4, <1>5, <1>6, <1>7, SenderSteps

\* A dispatch finds the active webhooks and holds nothing yet.
LEMMA FindHooksPreserves ==
  ASSUME NEW H, NEW R, NEW N, DeliveringInv(H, R, N), NEW p \in SendersOf(R), Webhooks(H, R, N)!FindHooks(p)
  PROVE  DeliveringInv(H, R, N)'
<1>1. PICK found : found = {h \in H : hooks[h].is = "active"}
  OBVIOUS
<1>2. PICK s : s = [senders[p] EXCEPT !.at = IF found = {} THEN "over" ELSE "create", !.hooks = found]
  OBVIOUS
<1>3. /\ senders[p].at = "idle" /\ senders' = [senders EXCEPT ![p] = s]
      /\ UNCHANGED <<hooks, deliveries, cycles>>
  BY <1>1, <1>2 DEF Webhooks!FindHooks, DeliveringInv, DeliveringTyped
<1>4. senders[p] \in SenderRow(H) /\ SenderFits(senders[p])
  BY SenderTyped
<1>5. s \in SenderRow(H) /\ s.todo = {} /\ s.at \in {"over", "create"}
  BY <1>1, <1>2, <1>3, <1>4 DEF SenderRow, SenderFits
<1>6. SenderFits(s) /\ AttemptFits(s)
  BY <1>5 DEF SenderFits, AttemptFits
<1> QED BY <1>3, <1>5, <1>6, QuietSteps

\* A sender reads the row that it is at.
LEMMA ReadDeliveryPreserves ==
  ASSUME NEW H, NEW R, NEW N, DeliveringInv(H, R, N), NEW p \in SendersOf(R), Webhooks(H, R, N)!ReadDelivery(p)
  PROVE  DeliveringInv(H, R, N)'
<1>1. PICK o : o = Oldest(senders[p].todo)
  OBVIOUS
<1>2. /\ senders[p].at = "read" /\ senders[p] \in SenderRow(H) /\ senders[p].todo # {}
      /\ o \in senders[p].todo /\ senders[p].todo \subseteq DOMAIN deliveries
      /\ UNCHANGED <<hooks, deliveries, cycles>>
  BY <1>1, SenderTyped DEF Webhooks!ReadDelivery, SenderFits
<1>3. Webhooks(H, R, N)!Current(p) = o
  BY <1>1, CurrentIsOldest
<1>4. deliveries[o] \in DeliveryRow(H) /\ RowRecorded(R, o) /\ deliveries[o].attempts <= deliveries[o].sent
  BY <1>2, DeliveriesTyped DEF DeliveringInv, AttemptsWereSent
<1>5. PICK hook \in WebhookRow : hook = hooks[deliveries[o].hook]
  BY <1>4 DEF DeliveryRow, DeliveringInv, DeliveringTyped
<1>6. CASE hook.is # "active"
  <2>1. PICK s : s = Webhooks(H, R, N)!Rest(p)
    OBVIOUS
  <2>2. senders' = [senders EXCEPT ![p] = s]
    BY <1>3, <1>5, <1>6, <2>1 DEF Webhooks!ReadDelivery
  <2>3. s \in SenderRow(H) /\ SenderFits(s) /\ s.at \in {"idle", "over", "read"} /\ s.todo \subseteq senders[p].todo
    BY <1>2, <2>1, RestOfSender DEF DeliveringInv
  <2>4. AttemptFits(s)
    BY <2>3 DEF AttemptFits
  <2> QED BY <1>2, <2>2, <2>3, <2>4, QuietSteps
<1>7. CASE hook.is = "active"
  <2>1. deliveries[o].attempts \in Nat /\ deliveries[o].sent \in Nat
    BY <1>4 DEF DeliveryRow
  <2>2. PICK n \in Nat : n = deliveries[o].attempts + 1
    BY <2>1
  <2>3. MaxRetries \in Nat /\ hook.maxRetries \in 0 .. MaxRetries
    BY RecordsAssumption DEF WebhookRow, Webhooks!DeliveryAssumption
  <2>4. PICK last \in BOOLEAN : last <=> n > hook.maxRetries
    <3>1. CASE n > hook.maxRetries
      BY <3>1, Zenon
    <3>2. CASE ~ (n > hook.maxRetries)
      BY <3>2, Zenon
    <3> QED BY <3>1, <3>2, Zenon
  <2>19. last = (n > hook.maxRetries)
    <3>1. CASE n > hook.maxRetries
      <4>1. last = TRUE /\ (n > hook.maxRetries) = TRUE
        BY <2>4, <3>1
      <4> QED BY <4>1
    <3>2. CASE ~ (n > hook.maxRetries)
      <4>1. last = FALSE /\ (n > hook.maxRetries) = FALSE
        BY <2>4, <3>2
      <4> QED BY <4>1
    <3> QED BY <3>1, <3>2
  <2>5. PICK s : s = [senders[p] EXCEPT !.at = "post", !.attempt = n, !.final = last]
    OBVIOUS
  <2>6. senders' = [senders EXCEPT ![p] = s]
    BY <1>3, <1>5, <1>7, <2>2, <2>19, <2>5 DEF Webhooks!ReadDelivery
  <2>7. /\ s \in SenderRow(H) /\ s.todo = senders[p].todo /\ s.at = "post" /\ s.attempt = n /\ s.final = last
    BY <1>2, <2>5 DEF SenderRow
  <2>8. ~ s.final => s.attempt <= MaxRetries
    <3>1. ~ last => n <= MaxRetries
      BY <2>3, <2>4
    <3> QED BY <2>7, <3>1
  <2>9. SenderFits(s) /\ AttemptFits(s)'
    <3>1. s.attempt <= deliveries'[Oldest(s.todo)].sent + 1
      BY <1>1, <1>2, <1>4, <2>1, <2>2, <2>7
    <3> QED BY <1>2, <2>7, <3>1 DEF SenderFits, AttemptFits
  <2>10. senders'[p] = s /\ \A q \in SendersOf(R) \ {p} : senders'[q] = senders[q]
    BY <2>6 DEF DeliveringInv, DeliveringTyped
  <2>11. deliveries[o].status # "REMOVED"
    BY <1>2, <1>5, <1>7 DEF DeliveringInv, RemovedWithHook
  <2>12. ~ deliveries[o].excused => RowRecorded(R, o)'
    <3> SUFFICES ASSUME ~ deliveries[o].excused PROVE RowRecorded(R, o)'
      OBVIOUS
    <3>1. \A q \in SendersOf(R) : o \in senders[q].todo => q = p
      BY <1>2, <1>4 DEF RowRecorded
    <3>2. \A q \in SendersOf(R) : o \in senders'[q].todo => q = p
      BY <2>7, <2>10, <3>1
    <3>3. \A q \in SendersOf(R) : ~ Recording(senders[q], o)
      BY <1>2, <3>1 DEF Recording
    <3>4. AsRecorded(deliveries[o]) /\ deliveries[o].status \in {"PENDING", "FAILED", "REMOVED"}
          /\ ~ deliveries[o].again /\ deliveries[o].sent <= MaxRetries + 1
      BY <1>2, <1>4, <2>11, <3>3 DEF RowRecorded
    <3>5. ~ deliveries[o].taken /\ deliveries[o].attempts = deliveries[o].sent /\ deliveries[o].sent <= MaxRetries
      BY <2>11, <3>4 DEF AsRecorded
    <3>6. PostFits(s, deliveries[o])
      BY <2>2, <2>7, <2>8, <3>5 DEF PostFits
    <3>7. ~ Recording(s, o)
      BY <2>7 DEF Recording
    <3>8. deliveries' = deliveries
      BY <1>2
    <3>9. \A q \in SendersOf(R) : o \in senders'[q].todo =>
             /\ Posting(senders'[q], o) => PostFits(senders'[q], deliveries[o])
             /\ ~ Recording(senders'[q], o)
      BY <2>10, <3>2, <3>6, <3>7
    <3> QED BY <3>2, <3>4, <3>8, <3>9, RowRecordedIs
  <2>13. deliveries[o].excused => RowRecorded(R, o)'
    BY <1>2 DEF RowRecorded
  <2>14. \A d \in DOMAIN deliveries \ {o} :
            /\ d \in s.todo => d \in senders[p].todo
            /\ ~ Posting(s, d) /\ ~ Recording(s, d) /\ ~ Recording(senders[p], d)
    BY <1>1, <1>2, <2>7 DEF Posting, Recording
  <2>15. \A d \in DOMAIN deliveries :
            /\ deliveries'[d].hook = deliveries[d].hook
            /\ deliveries'[d].sent >= deliveries[d].sent
            /\ (deliveries'[d].status = "REMOVED") = (deliveries[d].status = "REMOVED")
            /\ deliveries'[d].attempts <= deliveries'[d].sent
    BY <1>2, DeliveriesTyped DEF DeliveringInv, AttemptsWereSent, DeliveryRow
  <2>16. /\ deliveries' \in Seq(DeliveryRow(H)) /\ DOMAIN deliveries' = DOMAIN deliveries
         /\ \A d \in DOMAIN deliveries \ {o} : deliveries'[d] = deliveries[d]
    BY <1>2 DEF DeliveringInv, DeliveringTyped
  <2>17. \A d \in {o} \cap DOMAIN deliveries : RowRecorded(R, d)'
    BY <2>12, <2>13
  <2>18. hooks' = hooks /\ cycles' = cycles /\ s.todo \subseteq DOMAIN deliveries
    BY <1>2, <2>7
  <2> QED BY <2>6, <2>7, <2>9, <2>14, <2>15, <2>16, <2>17, <2>18, SenderSteps
<1> QED BY <1>6, <1>7

\* The row that a sender has at hand: nobody else has it unless it is excused.
LEMMA RowAtHand ==
  ASSUME NEW H, NEW R, NEW N, DeliveringInv(H, R, N), NEW p \in SendersOf(R),
         senders[p].at \in {"post", "record"}, NEW o, o = Oldest(senders[p].todo)
  PROVE  /\ o \in senders[p].todo /\ o \in DOMAIN deliveries /\ deliveries[o] \in DeliveryRow(H)
         /\ deliveries[o].attempts <= deliveries[o].sent
         /\ ~ deliveries[o].excused =>
              /\ ~ deliveries[o].again /\ deliveries[o].sent <= MaxRetries + 1
              /\ \A q \in SendersOf(R) : o \in senders[q].todo => q = p
              /\ deliveries[o].status \in {"PENDING", "FAILED", "REMOVED"}
              /\ senders[p].at = "post" => PostFits(senders[p], deliveries[o])
              /\ senders[p].at = "record" => RecordFits(senders[p], deliveries[o])
         /\ \A d \in DOMAIN deliveries \ {o} : ~ Posting(senders[p], d) /\ ~ Recording(senders[p], d)
<1>1. o \in senders[p].todo /\ o \in DOMAIN deliveries
  BY SenderTyped DEF SenderFits
<1>2. deliveries[o] \in DeliveryRow(H) /\ RowRecorded(R, o) /\ deliveries[o].attempts <= deliveries[o].sent
  BY <1>1, DeliveriesTyped DEF DeliveringInv, AttemptsWereSent
<1>3. ~ deliveries[o].excused =>
        /\ ~ deliveries[o].again /\ deliveries[o].sent <= MaxRetries + 1
        /\ \A q \in SendersOf(R) : o \in senders[q].todo => q = p
        /\ deliveries[o].status \in {"PENDING", "FAILED", "REMOVED"}
        /\ Posting(senders[p], o) => PostFits(senders[p], deliveries[o])
        /\ Recording(senders[p], o) => RecordFits(senders[p], deliveries[o])
  BY <1>1, <1>2 DEF RowRecorded
<1>4. /\ senders[p].at = "post" => Posting(senders[p], o)
      /\ senders[p].at = "record" => Recording(senders[p], o)
      /\ \A d \in DOMAIN deliveries \ {o} : ~ Posting(senders[p], d) /\ ~ Recording(senders[p], d)
  BY <1>1 DEF Posting, Recording
<1> QED BY <1>1, <1>2, <1>3, <1>4

\* A step of one sender that writes the row at hand.
LEMMA RowSteps ==
  ASSUME NEW H, NEW R, NEW N, DeliveringInv(H, R, N), NEW p \in SendersOf(R),
         senders[p].at \in {"post", "record"}, NEW o, o = Oldest(senders[p].todo),
         NEW s \in SenderRow(H), NEW row \in DeliveryRow(H),
         UNCHANGED <<hooks, cycles>>, senders' = [senders EXCEPT ![p] = s],
         deliveries' = [deliveries EXCEPT ![o] = row],
         row.hook = deliveries[o].hook, row.sent >= deliveries[o].sent, row.attempts <= row.sent,
         (row.status = "REMOVED") = (deliveries[o].status = "REMOVED"),
         SenderFits(s), AttemptFits(s)', s.todo \subseteq senders[p].todo,
         \A d \in DOMAIN deliveries \ {o} : ~ Posting(s, d) /\ ~ Recording(s, d),
         ~ row.excused => RowRecorded(R, o)'
  PROVE  DeliveringInv(H, R, N)'
<1>1. o \in DOMAIN deliveries /\ deliveries[o] \in DeliveryRow(H)
      /\ \A d \in DOMAIN deliveries \ {o} : ~ Posting(senders[p], d) /\ ~ Recording(senders[p], d)
  BY RowAtHand
<1>2. /\ DOMAIN deliveries' = DOMAIN deliveries /\ deliveries'[o] = row
      /\ \A d \in DOMAIN deliveries \ {o} : deliveries'[d] = deliveries[d]
  BY <1>1
<1>3. deliveries' \in Seq(DeliveryRow(H))
  <2>1. deliveries \in Seq(DeliveryRow(H))
    BY DEF DeliveringInv, DeliveringTyped
  <2> QED BY <1>1, <2>1
<1>4. \A d \in DOMAIN deliveries :
         /\ deliveries'[d].hook = deliveries[d].hook
         /\ deliveries'[d].sent >= deliveries[d].sent
         /\ (deliveries'[d].status = "REMOVED") = (deliveries[d].status = "REMOVED")
         /\ deliveries'[d].attempts <= deliveries'[d].sent
  <2>1. \A d \in DOMAIN deliveries : deliveries[d].sent \in Nat /\ deliveries[d].attempts <= deliveries[d].sent
    BY DeliveriesTyped DEF DeliveringInv, AttemptsWereSent, DeliveryRow
  <2> QED BY <1>2, <2>1
<1>5. \A d \in DOMAIN deliveries \ {o} :
         /\ d \in s.todo => d \in senders[p].todo
         /\ ~ Posting(s, d) /\ ~ Recording(s, d) /\ ~ Recording(senders[p], d)
  BY <1>1
<1>6. \A d \in {o} \cap DOMAIN deliveries : RowRecorded(R, d)'
  BY <1>2 DEF RowRecorded
<1>7. hooks' = hooks /\ cycles' = cycles /\ s.todo \subseteq DOMAIN deliveries
  BY SenderTyped
<1> QED BY <1>2, <1>3, <1>4, <1>5, <1>6, <1>7, SenderSteps

\* What a row is after it was sent.
LEMMA SentRow ==
  ASSUME NEW H, NEW R, NEW N, NEW row \in DeliveryRow(H), NEW took \in BOOLEAN, NEW ok \in BOOLEAN
  PROVE  LET sent == Webhooks(H, R, N)!Sent(row, took, ok)
         IN  /\ sent \in DeliveryRow(H) /\ sent.sent = row.sent + 1 /\ sent.hook = row.hook
             /\ sent.attempts = row.attempts /\ sent.status = row.status
             /\ sent.again <=> row.again \/ (took /\ row.taken)
             /\ sent.taken <=> row.taken \/ took
             /\ sent.excused <=> row.excused \/ (took /\ ~ ok)
<1> DEFINE a == row.again \/ (took /\ row.taken)
           t == row.taken \/ took
           e == row.excused \/ (took /\ ~ ok)
           n == row.sent + 1
           sent == Webhooks(H, R, N)!Sent(row, took, ok)
<1>1. a \in BOOLEAN /\ t \in BOOLEAN /\ e \in BOOLEAN /\ n \in Nat
  BY DEF DeliveryRow
<1>2. sent = [row EXCEPT !.sent = n, !.again = a, !.taken = t, !.excused = e]
  BY DEF Webhooks!Sent
<1>3. (a <=> row.again \/ (took /\ row.taken)) /\ (t <=> row.taken \/ took) /\ (e <=> row.excused \/ (took /\ ~ ok))
  OBVIOUS
<1> HIDE DEF a, t, e, n, sent
<1>4. /\ sent \in DeliveryRow(H) /\ sent.sent = n /\ sent.hook = row.hook
      /\ sent.attempts = row.attempts /\ sent.status = row.status
      /\ sent.again = a /\ sent.taken = t /\ sent.excused = e
  BY <1>1, <1>2 DEF DeliveryRow
<1> QED BY <1>3, <1>4, Zenon DEF n, sent

\* The request leaves: what was sent and taken is known before the row says it.
LEMMA PostPreserves ==
  ASSUME NEW H, NEW R, NEW N, DeliveringInv(H, R, N), NEW p \in SendersOf(R), Webhooks(H, R, N)!Post(p)
  PROVE  DeliveringInv(H, R, N)'
<1>1. PICK o : o = Oldest(senders[p].todo)
  OBVIOUS
<1>2. senders[p].at = "post" /\ UNCHANGED <<hooks, cycles>> /\ Webhooks(H, R, N)!Current(p) = o
  BY <1>1, CurrentIsOldest DEF Webhooks!Post
<1>3. PICK took \in BOOLEAN, ok \in BOOLEAN :
        /\ ok => took
        /\ senders' = [senders EXCEPT ![p].at = "record", ![p].ok = ok]
        /\ deliveries' = [deliveries EXCEPT ![o] = Webhooks(H, R, N)!Sent(@, took, ok)]
  BY <1>2 DEF Webhooks!Post
<1>4. /\ o \in senders[p].todo /\ o \in DOMAIN deliveries /\ deliveries[o] \in DeliveryRow(H)
      /\ deliveries[o].attempts <= deliveries[o].sent
      /\ ~ deliveries[o].excused =>
           /\ ~ deliveries[o].again /\ deliveries[o].sent <= MaxRetries + 1
           /\ \A q \in SendersOf(R) : o \in senders[q].todo => q = p
           /\ deliveries[o].status \in {"PENDING", "FAILED", "REMOVED"}
           /\ PostFits(senders[p], deliveries[o])
  BY <1>1, <1>2, RowAtHand
<1>5. senders[p] \in SenderRow(H) /\ SenderFits(senders[p]) /\ AttemptFits(senders[p])
  BY SenderTyped
<1>6. PICK s : s = [senders[p] EXCEPT !.at = "record", !.ok = ok]
  OBVIOUS
<1>7. /\ s \in SenderRow(H) /\ s.at = "record" /\ s.ok = ok /\ s.todo = senders[p].todo
      /\ s.attempt = senders[p].attempt /\ s.final = senders[p].final
  BY <1>5, <1>6 DEF SenderRow
<1>8. senders' = [senders EXCEPT ![p] = s]
  BY <1>3, <1>6 DEF DeliveringInv, DeliveringTyped
<1>9. PICK row : row = Webhooks(H, R, N)!Sent(deliveries[o], took, ok)
  OBVIOUS
<1>10. deliveries' = [deliveries EXCEPT ![o] = row]
  BY <1>3, <1>4, <1>9
<1>11. /\ row \in DeliveryRow(H) /\ row.sent = deliveries[o].sent + 1 /\ row.hook = deliveries[o].hook
       /\ row.attempts = deliveries[o].attempts /\ row.status = deliveries[o].status
  BY <1>4, <1>9, SentRow
<1>12. /\ row.again <=> deliveries[o].again \/ (took /\ deliveries[o].taken)
       /\ row.taken <=> deliveries[o].taken \/ took
       /\ row.excused <=> deliveries[o].excused \/ (took /\ ~ ok)
  BY <1>4, <1>9, SentRow
<1>13. deliveries[o].sent \in Nat /\ deliveries[o].attempts \in Nat /\ MaxRetries \in Nat
  BY <1>4, RecordsAssumption DEF DeliveryRow, Webhooks!DeliveryAssumption
<1>14. deliveries'[o] = row
  BY <1>4, <1>10
<1>15. SenderFits(s) /\ AttemptFits(s)'
  <2>1. s.attempt <= deliveries'[Oldest(s.todo)].sent
    BY <1>1, <1>2, <1>5, <1>7, <1>11, <1>14 DEF AttemptFits
  <2> QED BY <1>4, <1>7, <2>1 DEF SenderFits, AttemptFits
<1>16. senders'[p] = s /\ \A q \in SendersOf(R) \ {p} : senders'[q] = senders[q]
  BY <1>8 DEF DeliveringInv, DeliveringTyped
<1>17. ~ row.excused => RowRecorded(R, o)'
  <2> SUFFICES ASSUME ~ row.excused PROVE RowRecorded(R, o)'
    OBVIOUS
  <2>1. ~ deliveries[o].excused /\ (took <=> ok)
    BY <1>3, <1>12
  <2>2. PostFits(senders[p], deliveries[o]) /\ ~ deliveries[o].taken
    BY <1>4, <2>1 DEF PostFits
  <2>3. ~ row.again /\ row.sent <= MaxRetries + 1 /\ (row.taken <=> s.ok)
    BY <1>4, <1>7, <1>11, <1>12, <1>13, <2>1, <2>2 DEF PostFits
  <2>4. RecordFits(s, row)
    BY <1>7, <1>11, <2>2, <2>3 DEF PostFits, RecordFits
  <2>5. Recording(s, o) /\ ~ Posting(s, o)
    BY <1>1, <1>4, <1>7 DEF Recording, Posting
  <2>6. \A q \in SendersOf(R) : o \in senders'[q].todo => q = p
    BY <1>4, <1>16, <2>1
  <2>7. row.status \in {"PENDING", "FAILED", "REMOVED"}
    BY <1>4, <1>11, <2>1
  <2>8. \A q \in SendersOf(R) : o \in senders'[q].todo =>
          /\ Posting(senders'[q], o) => PostFits(senders'[q], row)
          /\ Recording(senders'[q], o) => RecordFits(senders'[q], row)
    BY <1>16, <2>4, <2>5, <2>6
  <2>9. ~ \A q \in SendersOf(R) : ~ Recording(senders'[q], o)
    BY <1>16, <2>5
  <2> QED BY <1>14, <2>3, <2>6, <2>7, <2>8, <2>9, RowRecordedIs
<1>18. \A d \in DOMAIN deliveries \ {o} : ~ Posting(s, d) /\ ~ Recording(s, d)
  BY <1>1, <1>7 DEF Posting, Recording
<1>19. row.sent >= deliveries[o].sent /\ row.attempts <= row.sent
  BY <1>4, <1>11, <1>13
<1> QED BY <1>1, <1>2, <1>7, <1>8, <1>10, <1>11, <1>15, <1>17, <1>18, <1>19, RowSteps

\* The row is made to say what was done by the one who did it.
LEMMA RecordAttemptPreserves ==
  ASSUME NEW H, NEW R, NEW N, DeliveringInv(H, R, N), NEW p \in SendersOf(R), Webhooks(H, R, N)!RecordAttempt(p)
  PROVE  DeliveringInv(H, R, N)'
<1>1. PICK o : o = Oldest(senders[p].todo)
  OBVIOUS
<1>2. PICK status : status = IF senders[p].ok THEN "SUCCESS" ELSE IF senders[p].final THEN "DEAD_LETTER" ELSE "FAILED"
  OBVIOUS
<1>3. PICK s : s = Webhooks(H, R, N)!Rest(p)
  OBVIOUS
<1>4. /\ senders[p].at = "record" /\ deliveries[o].status # "REMOVED" /\ UNCHANGED <<hooks, cycles>>
      /\ senders' = [senders EXCEPT ![p] = s]
      /\ deliveries' = [deliveries EXCEPT ![o] =
           [@ EXCEPT !.status = status, !.attempts = senders[p].attempt, !.due = FALSE]]
  <2>1. Webhooks(H, R, N)!Current(p) = o
    BY <1>1, CurrentIsOldest
  <2> QED BY <1>2, <1>3, <2>1 DEF Webhooks!RecordAttempt
<1>5. /\ o \in senders[p].todo /\ o \in DOMAIN deliveries /\ deliveries[o] \in DeliveryRow(H)
      /\ ~ deliveries[o].excused =>
           /\ ~ deliveries[o].again /\ deliveries[o].sent <= MaxRetries + 1
           /\ \A q \in SendersOf(R) : o \in senders[q].todo => q = p
           /\ RecordFits(senders[p], deliveries[o])
  BY <1>1, <1>4, RowAtHand
<1>6. senders[p] \in SenderRow(H) /\ AttemptFits(senders[p]) /\ senders[p].attempt \in Nat /\ senders[p].ok \in BOOLEAN
  BY SenderTyped DEF SenderRow
<1>7. s \in SenderRow(H) /\ SenderFits(s) /\ s.at \in {"idle", "over", "read"} /\ s.todo = senders[p].todo \ {o}
  BY <1>1, <1>3, <1>5, RestOfSender DEF DeliveringInv
<1>8. PICK row : row = [deliveries[o] EXCEPT !.status = status, !.attempts = senders[p].attempt, !.due = FALSE]
  OBVIOUS
<1>9. deliveries' = [deliveries EXCEPT ![o] = row]
  BY <1>4, <1>8
<1>10. status \in {"SUCCESS", "DEAD_LETTER", "FAILED"} /\ status \in DeliveryStatuses
  BY <1>2 DEF DeliveryStatuses
<1>11. /\ row \in DeliveryRow(H) /\ row.hook = deliveries[o].hook /\ row.sent = deliveries[o].sent
       /\ row.attempts = senders[p].attempt /\ row.status = status /\ row.taken = deliveries[o].taken
       /\ row.again = deliveries[o].again /\ row.excused = deliveries[o].excused
  BY <1>5, <1>6, <1>8, <1>10 DEF DeliveryRow
<1>12. deliveries[o].sent \in Nat /\ row.attempts <= row.sent /\ row.sent >= deliveries[o].sent
  BY <1>1, <1>4, <1>5, <1>6, <1>11 DEF DeliveryRow, AttemptFits
<1>13. (row.status = "REMOVED") = (deliveries[o].status = "REMOVED")
  BY <1>4, <1>10, <1>11
<1>14. AttemptFits(s)' /\ \A d \in DOMAIN deliveries \ {o} : ~ Posting(s, d) /\ ~ Recording(s, d)
  BY <1>7 DEF AttemptFits, Posting, Recording
<1>15. senders'[p] = s /\ \A q \in SendersOf(R) \ {p} : senders'[q] = senders[q]
  BY <1>4 DEF DeliveringInv, DeliveringTyped
<1>16. ~ row.excused => RowRecorded(R, o)'
  <2> SUFFICES ASSUME ~ row.excused PROVE RowRecorded(R, o)'
    OBVIOUS
  <2>1. RecordFits(senders[p], deliveries[o]) /\ ~ row.again /\ row.sent <= MaxRetries + 1
    BY <1>5, <1>11
  <2>2. \A q \in SendersOf(R) : o \notin senders'[q].todo
    BY <1>5, <1>7, <1>11, <1>15
  <2>3. AsRecorded(row)
    BY <1>2, <1>6, <1>10, <1>11, <2>1 DEF AsRecorded, RecordFits
  <2>4. deliveries'[o] = row
    BY <1>5, <1>9
  <2> QED BY <2>1, <2>2, <2>3, <2>4, RowRecordedIs
<1>17. /\ UNCHANGED <<hooks, cycles>> /\ senders' = [senders EXCEPT ![p] = s]
       /\ senders[p].at \in {"post", "record"} /\ s.todo \subseteq senders[p].todo
  BY <1>4, <1>7
<1> QED BY <1>1, <1>7, <1>9, <1>11, <1>12, <1>13, <1>14, <1>16, <1>17, RowSteps

\* Whoever dies with a delivery excuses it.
LEMMA AbortPreserves ==
  ASSUME NEW H, NEW R, NEW N, DeliveringInv(H, R, N), NEW p \in SendersOf(R), Webhooks(H, R, N)!Abort(p)
  PROVE  DeliveringInv(H, R, N)'
<1>1. PICK s : s = Webhooks(H, R, N)!Stopped(p)
  OBVIOUS
<1>2. s \in SenderRow(H) /\ SenderFits(s) /\ s.todo = {} /\ s.at \in {"idle", "over"}
  BY <1>1, StoppedSender
<1>3. UNCHANGED <<hooks, cycles>> /\ senders' = [senders EXCEPT ![p] = s]
  BY <1>1 DEF Webhooks!Abort
<1>4. AttemptFits(s) /\ AttemptFits(s)' /\ s.todo \subseteq senders[p].todo
  BY <1>2 DEF AttemptFits
<1>5. CASE senders[p].at # "record"
  <2>1. deliveries' = deliveries
    BY <1>5 DEF Webhooks!Abort
  <2> QED BY <1>2, <1>3, <1>4, <1>5, <2>1, QuietSteps
<1>6. CASE senders[p].at = "record"
  <2>1. PICK o : o = Oldest(senders[p].todo)
    OBVIOUS
  <2>2. o \in DOMAIN deliveries /\ deliveries[o] \in DeliveryRow(H) /\ deliveries[o].attempts <= deliveries[o].sent
    BY <1>6, <2>1, RowAtHand
  <2>3. PICK row : row = [deliveries[o] EXCEPT !.excused = TRUE]
    OBVIOUS
  <2>4. /\ row \in DeliveryRow(H) /\ row.hook = deliveries[o].hook /\ row.sent = deliveries[o].sent
        /\ row.attempts = deliveries[o].attempts /\ row.status = deliveries[o].status /\ row.excused
        /\ deliveries[o].sent \in Nat
    BY <2>2, <2>3 DEF DeliveryRow
  <2>5. deliveries' = [deliveries EXCEPT ![o] = row]
    <3>1. Webhooks(H, R, N)!Current(p) = o
      BY <2>1, CurrentIsOldest
    <3> QED BY <1>6, <2>2, <2>3, <3>1 DEF Webhooks!Abort
  <2>6. \A d \in DOMAIN deliveries \ {o} : ~ Posting(s, d) /\ ~ Recording(s, d)
    BY <1>2 DEF Posting, Recording
  <2>7. row.sent >= deliveries[o].sent /\ row.attempts <= row.sent
        /\ (row.status = "REMOVED") = (deliveries[o].status = "REMOVED")
    BY <2>2, <2>4
  <2> QED BY <1>2, <1>3, <1>4, <1>6, <2>1, <2>4, <2>5, <2>6, <2>7, RowSteps
<1> QED BY <1>5, <1>6

\* nextAttemptAt passes
LEMMA ComesDuePreserves ==
  ASSUME NEW H, NEW R, NEW N, DeliveringInv(H, R, N), NEW o \in DOMAIN deliveries, Webhooks(H, R, N)!ComesDue(o)
  PROVE  DeliveringInv(H, R, N)'
<1>1. UNCHANGED <<hooks, senders, cycles>> /\ deliveries' = [deliveries EXCEPT ![o].due = TRUE]
  BY DEF Webhooks!ComesDue
<1>2. deliveries[o] \in DeliveryRow(H)
  BY DeliveriesTyped DEF DeliveringInv
<1>3. PICK row : row = [deliveries[o] EXCEPT !.due = TRUE]
  OBVIOUS
<1>4. /\ row \in DeliveryRow(H) /\ row.hook = deliveries[o].hook /\ row.sent = deliveries[o].sent
      /\ row.attempts = deliveries[o].attempts /\ row.status = deliveries[o].status /\ row.excused = deliveries[o].excused
      /\ row.taken = deliveries[o].taken /\ row.again = deliveries[o].again
  BY <1>2, <1>3 DEF DeliveryRow
<1>5. /\ deliveries' = [deliveries EXCEPT ![o] = row] /\ DOMAIN deliveries' = DOMAIN deliveries
      /\ deliveries'[o] = row /\ \A d \in DOMAIN deliveries \ {o} : deliveries'[d] = deliveries[d]
  BY <1>1, <1>3
<1>6. deliveries' \in Seq(DeliveryRow(H))
  BY <1>4, <1>5 DEF DeliveringInv, DeliveringTyped
<1>7. DeliveringTyped(H, R, N)'
  BY <1>1, <1>5, <1>6 DEF DeliveringInv, DeliveringTyped
<1>8. \A d \in DOMAIN deliveries : deliveries'[d].sent = deliveries[d].sent /\ deliveries'[d].attempts = deliveries[d].attempts
                                   /\ deliveries'[d].status = deliveries[d].status /\ deliveries'[d].hook = deliveries[d].hook
  BY <1>4, <1>5
<1>9. AttemptsWereSent(R)'
  <2>1. ASSUME NEW q \in SendersOf(R) PROVE AttemptFits(senders[q])'
    <3>1. /\ AttemptFits(senders[q]) /\ SenderFits(senders[q])
          /\ senders[q].todo # {} => Oldest(senders[q].todo) \in DOMAIN deliveries
      BY SenderTyped
    <3> QED BY <1>1, <1>8, <3>1 DEF AttemptFits, SenderFits
  <2> QED BY <1>1, <1>5, <1>8, <2>1 DEF DeliveringInv, AttemptsWereSent
<1>10. RemovedWithHook'
  BY <1>1, <1>5, <1>8 DEF DeliveringInv, RemovedWithHook
<1>11. ASSUME NEW d \in DOMAIN deliveries PROVE RowRecorded(R, d)'
  <2>1. CASE d # o
    <3>1. deliveries'[d] = deliveries[d] /\ RowRecorded(R, d)
      BY <1>5, <2>1 DEF DeliveringInv
    <3> QED BY <1>1, <3>1 DEF RowRecorded
  <2>2. CASE d = o
    <3>1. deliveries'[o] = row /\ RowRecorded(R, o)
      BY <1>5 DEF DeliveringInv
    <3>2. \A s : (PostFits(s, row) <=> PostFits(s, deliveries[o])) /\ (RecordFits(s, row) <=> RecordFits(s, deliveries[o]))
      BY <1>4 DEF PostFits, RecordFits
    <3>3. AsRecorded(row) <=> AsRecorded(deliveries[o])
      BY <1>4 DEF AsRecorded
    <3> QED BY <1>1, <1>4, <2>2, <3>1, <3>2, <3>3 DEF RowRecorded, Posting, Recording
  <2> QED BY <2>1, <2>2
<1> QED BY <1>5, <1>7, <1>9, <1>10, <1>11 DEF DeliveringInv

\* A new row belongs to the dispatch that created it.
LEMMA CreateDeliveryPreserves ==
  ASSUME NEW H, NEW R, NEW N, DeliveringInv(H, R, N), NEW p \in SendersOf(R), Webhooks(H, R, N)!CreateDelivery(p)
  PROVE  DeliveringInv(H, R, N)'
<1>1. PICK h \in senders[p].hooks :
        IF hooks[h].is = "removed"
        THEN senders' = [senders EXCEPT ![p] = Webhooks(H, R, N)!Stopped(p)] /\ UNCHANGED deliveries
        ELSE /\ deliveries' = Append(deliveries,
                  [hook |-> h, status |-> "PENDING", attempts |-> 0, due |-> TRUE,
                   sent |-> 0, taken |-> FALSE, again |-> FALSE, excused |-> FALSE])
             /\ senders' = [senders EXCEPT ![p] = Webhooks(H, R, N)!WithDelivery(@, h, Len(deliveries) + 1)]
  BY DEF Webhooks!CreateDelivery
<1>2. senders[p].at = "create" /\ UNCHANGED <<hooks, cycles>>
  BY DEF Webhooks!CreateDelivery
<1>3. senders[p] \in SenderRow(H) /\ h \in H /\ senders[p].todo \subseteq DOMAIN deliveries
  BY SenderTyped DEF SenderRow
<1>4. CASE hooks[h].is = "removed"
  <2>1. PICK s : s = Webhooks(H, R, N)!Stopped(p)
    OBVIOUS
  <2>2. s \in SenderRow(H) /\ SenderFits(s) /\ s.todo = {} /\ s.at \in {"idle", "over"}
    BY <2>1, StoppedSender
  <2>3. AttemptFits(s) /\ s.todo \subseteq senders[p].todo
    BY <2>2 DEF AttemptFits
  <2>4. senders' = [senders EXCEPT ![p] = s] /\ UNCHANGED <<hooks, cycles, deliveries>>
    BY <1>1, <1>2, <1>4, <2>1
  <2> QED BY <1>2, <2>2, <2>3, <2>4, QuietSteps
<1>5. CASE hooks[h].is # "removed"
  <2>1. PICK row : row = [hook |-> h, status |-> "PENDING", attempts |-> 0, due |-> TRUE,
                          sent |-> 0, taken |-> FALSE, again |-> FALSE, excused |-> FALSE]
    OBVIOUS
  <2>2. PICK n \in Nat : n = Len(deliveries) /\ DOMAIN deliveries = 1..n
    BY DeliveriesTyped DEF DeliveringInv
  <2>3. PICK s : s = Webhooks(H, R, N)!WithDelivery(senders[p], h, n + 1)
    OBVIOUS
  <2>4. deliveries' = Append(deliveries, row) /\ senders' = [senders EXCEPT ![p] = s]
    BY <1>1, <1>5, <2>1, <2>2, <2>3 DEF DeliveringInv, DeliveringTyped
  <2>5. /\ row \in DeliveryRow(H) /\ row.hook = h /\ row.status = "PENDING" /\ row.attempts = 0 /\ row.sent = 0
        /\ ~ row.taken /\ ~ row.again
    BY <1>3, <2>1 DEF DeliveryRow, DeliveryStatuses
  <2>6. /\ deliveries' \in Seq(DeliveryRow(H)) /\ DOMAIN deliveries' = 1..(n + 1) /\ deliveries'[n + 1] = row
        /\ \A d \in 1..n : deliveries'[d] = deliveries[d]
    <3>1. deliveries \in Seq(DeliveryRow(H))
      BY DEF DeliveringInv, DeliveringTyped
    <3> QED BY <2>2, <2>4, <2>5, <3>1
  <2>7. s \in SenderRow(H) /\ s.at \in {"read", "create"} /\ s.todo = senders[p].todo \cup {n + 1}
    <3>1. senders[p].todo \cup {n + 1} \in SUBSET Nat /\ senders[p].hooks \ {h} \in SUBSET H
      BY <1>3 DEF SenderRow
    <3> QED BY <1>3, <2>3, <3>1 DEF SenderRow, Webhooks!WithDelivery
  <2>8. senders'[p] = s /\ \A q \in SendersOf(R) \ {p} : senders'[q] = senders[q]
    BY <2>4 DEF DeliveringInv, DeliveringTyped
  <2>9. /\ SenderFits(s) /\ \A q \in SendersOf(R) : SenderFits(senders'[q])
        /\ s.todo \subseteq 1..(n + 1) /\ \A q \in SendersOf(R) : senders[q].todo \subseteq 1..n
    BY <1>3, <2>2, <2>7, <2>8 DEF SenderFits, DeliveringInv, DeliveringTyped
  <2>10. DeliveringTyped(H, R, N)'
    <3>1. senders' \in [SendersOf(R) -> SenderRow(H)]
      BY <2>4, <2>7 DEF DeliveringInv, DeliveringTyped
    <3>2. \A q \in SendersOf(R) : SenderFits(senders'[q]) /\ senders'[q].todo \subseteq DOMAIN deliveries'
      BY <2>6, <2>8, <2>9
    <3> QED BY <1>2, <2>6, <3>1, <3>2 DEF DeliveringInv, DeliveringTyped, SendersOf
  <2>11. AttemptsWereSent(R)'
    <3>1. ASSUME NEW q \in SendersOf(R) PROVE AttemptFits(senders[q])'
      <4>1. CASE q = p
        BY <2>7, <2>8, <4>1 DEF AttemptFits
      <4>2. CASE q # p
        <5>1. /\ senders'[q] = senders[q] /\ AttemptFits(senders[q]) /\ SenderFits(senders[q])
              /\ senders[q].todo # {} => Oldest(senders[q].todo) \in DOMAIN deliveries
          BY <2>8, <4>2, SenderTyped
        <5> QED BY <2>2, <2>6, <5>1 DEF AttemptFits, SenderFits
      <4> QED BY <4>1, <4>2
    <3>2. \A d \in DOMAIN deliveries' : deliveries'[d].attempts <= deliveries'[d].sent
      <4> SUFFICES ASSUME NEW d \in 1..(n + 1) PROVE deliveries'[d].attempts <= deliveries'[d].sent
        BY <2>6
      <4>1. CASE d = n + 1
        BY <2>5, <2>6, <4>1
      <4>2. CASE d # n + 1
        <5>1. d \in 1..n
          BY <4>2
        <5> QED BY <2>2, <2>6, <5>1 DEF DeliveringInv, AttemptsWereSent
      <4> QED BY <4>1, <4>2
    <3> QED BY <3>1, <3>2 DEF AttemptsWereSent, SendersOf
  <2>12. RemovedWithHook'
    <3> SUFFICES ASSUME NEW d \in 1..(n + 1)
                 PROVE  deliveries'[d].status = "REMOVED" <=> hooks[deliveries'[d].hook].is = "removed"
      BY <1>2, <2>6 DEF RemovedWithHook
    <3>1. CASE d = n + 1
      BY <1>5, <2>5, <2>6, <3>1
    <3>2. CASE d # n + 1
      <4>1. d \in 1..n
        BY <3>2
      <4> QED BY <2>2, <2>6, <4>1 DEF DeliveringInv, RemovedWithHook
    <3> QED BY <3>1, <3>2
  <2>13. ASSUME NEW d \in 1..n PROVE RowRecorded(R, d)'
    <3>1. RowRecorded(R, d) /\ deliveries'[d] = deliveries[d] /\ d # n + 1
      BY <2>2, <2>6 DEF DeliveringInv
    <3>2. d \in senders'[p].todo => d \in senders[p].todo
      BY <2>7, <2>8, <3>1
    <3>3. ~ Posting(senders'[p], d) /\ ~ Recording(senders'[p], d) /\ ~ Recording(senders[p], d)
      BY <1>2, <2>7, <2>8 DEF Posting, Recording
    <3> QED BY <2>8, <3>1, <3>2, <3>3, RowKept
  <2>14. RowRecorded(R, n + 1)'
    <3>1. n + 1 \notin 1..n
      OBVIOUS
    <3>2. \A q \in SendersOf(R) : n + 1 \in senders'[q].todo => q = p
      BY <2>8, <2>9, <3>1
    <3>3. AsRecorded(row) /\ 0 <= MaxRetries + 1
      BY <2>5, RecordsAssumption DEF AsRecorded, Webhooks!DeliveryAssumption
    <3>4. ~ Posting(s, n + 1) /\ ~ Recording(s, n + 1)
      BY <2>7 DEF Posting, Recording
    <3> QED BY <2>5, <2>6, <2>8, <3>2, <3>3, <3>4, RowRecordedIs
  <2> QED
    <3> SUFFICES ASSUME NEW d \in DOMAIN deliveries' PROVE RowRecorded(R, d)'
      BY <2>10, <2>11, <2>12 DEF DeliveringInv
    <3>1. d \in 1..n \/ d = n + 1
      BY <2>6
    <3> QED BY <2>13, <2>14, <3>1
<1> QED BY <1>4, <1>5

\* A retry cycle takes up rows; the ones that another sender holds are excused.
LEMMA FindDuePreserves ==
  ASSUME NEW H, NEW R, NEW N \in Nat, DeliveringInv(H, R, N), NEW p \in R, Webhooks(H, R, N)!FindDue(p)
  PROVE  DeliveringInv(H, R, N)'
<1>1. PICK due \in SUBSET {d \in DOMAIN deliveries : Webhooks(H, R, N)!IsDue(d)} :
        /\ due # {}
        /\ senders' = [senders EXCEPT ![p] = [Webhooks(H, R, N)!Idle EXCEPT !.at = "read", !.todo = due]]
        /\ deliveries' = [d \in DOMAIN deliveries |->
             IF d \in due /\ \E q \in Webhooks(H, R, N)!Senders : Webhooks(H, R, N)!Holds(q, d)
             THEN [deliveries[d] EXCEPT !.excused = TRUE] ELSE deliveries[d]]
  BY Zenon DEF Webhooks!FindDue
<1>2. p \in SendersOf(R) /\ senders[p].at = "idle" /\ cycles[p] < N /\ cycles' = [cycles EXCEPT ![p] = @ + 1] /\ hooks' = hooks
  BY DEF Webhooks!FindDue, SendersOf
<1>3. due \subseteq DOMAIN deliveries /\ due \subseteq Nat
      /\ \A d \in due : deliveries[d].status \in {"PENDING", "FAILED"}
  BY DeliveriesTyped DEF Webhooks!IsDue, DeliveringInv
<1>4. PICK s : s = [Webhooks(H, R, N)!Idle EXCEPT !.at = "read", !.todo = due]
  OBVIOUS
<1>5. s \in SenderRow(H) /\ s.at = "read" /\ s.todo = due /\ SenderFits(s) /\ AttemptFits(s)'
  BY <1>1, <1>3, <1>4 DEF SenderRow, SenderFits, AttemptFits, Webhooks!Idle
<1>6. senders' = [senders EXCEPT ![p] = s]
  BY <1>1, <1>4
<1>7. senders'[p] = s /\ \A q \in SendersOf(R) \ {p} : senders'[q] = senders[q]
  BY <1>2, <1>6 DEF DeliveringInv, DeliveringTyped
<1> DEFINE Shared(d) == d \in due /\ \E q \in SendersOf(R) : d \in senders[q].todo
           Row(d) == IF Shared(d) THEN [deliveries[d] EXCEPT !.excused = TRUE] ELSE deliveries[d]
<1>8. deliveries' = [d \in DOMAIN deliveries |-> Row(d)]
  BY <1>1 DEF Webhooks!Senders, Webhooks!Holds, SendersOf
<1>9. ASSUME NEW d \in DOMAIN deliveries
      PROVE  /\ Row(d) \in DeliveryRow(H) /\ Row(d).hook = deliveries[d].hook /\ Row(d).attempts = deliveries[d].attempts
             /\ Row(d).status = deliveries[d].status /\ Row(d).sent = deliveries[d].sent
             /\ Row(d).excused \/ (Row(d) = deliveries[d] /\ ~ Shared(d))
  <2>1. deliveries[d] \in DeliveryRow(H)
    BY DeliveriesTyped DEF DeliveringInv
  <2> QED BY <2>1 DEF DeliveryRow
<1> HIDE DEF Row
<1>10. DOMAIN deliveries' = DOMAIN deliveries /\ \A d \in DOMAIN deliveries : deliveries'[d] = Row(d)
  BY <1>8
<1>11. deliveries' \in Seq(DeliveryRow(H))
  <2>1. PICK n \in Nat : DOMAIN deliveries = 1..n
    BY DeliveriesTyped DEF DeliveringInv
  <2>2. deliveries' \in [1..n -> DeliveryRow(H)]
    BY <1>8, <1>9, <2>1
  <2> QED BY <2>2
<1>12. DeliveringTyped(H, R, N)'
  <2>1. senders' \in [SendersOf(R) -> SenderRow(H)]
    BY <1>2, <1>5, <1>6 DEF DeliveringInv, DeliveringTyped
  <2>2. cycles' \in [R -> 0 .. N]
    BY <1>2 DEF DeliveringInv, DeliveringTyped
  <2>3. \A q \in SendersOf(R) : SenderFits(senders'[q]) /\ senders'[q].todo \subseteq DOMAIN deliveries'
    BY <1>3, <1>5, <1>7, <1>10 DEF DeliveringInv, DeliveringTyped
  <2> QED BY <1>2, <1>11, <2>1, <2>2, <2>3 DEF DeliveringInv, DeliveringTyped, SendersOf
<1>13. AttemptsWereSent(R)'
  <2>1. ASSUME NEW q \in SendersOf(R) PROVE AttemptFits(senders[q])'
    <3>1. CASE q = p
      BY <1>5, <1>7, <3>1 DEF AttemptFits
    <3>2. CASE q # p
      <4>1. /\ senders'[q] = senders[q] /\ AttemptFits(senders[q]) /\ SenderFits(senders[q])
            /\ senders[q].todo # {} => Oldest(senders[q].todo) \in DOMAIN deliveries
        BY <1>7, <3>2, SenderTyped
      <4> QED BY <1>9, <1>10, <4>1 DEF AttemptFits, SenderFits
    <3> QED BY <3>1, <3>2
  <2>2. \A d \in DOMAIN deliveries : deliveries'[d].attempts <= deliveries'[d].sent
    BY <1>9, <1>10 DEF DeliveringInv, AttemptsWereSent
  <2> QED BY <1>10, <2>1, <2>2 DEF AttemptsWereSent, SendersOf
<1>14. RemovedWithHook'
  BY <1>2, <1>9, <1>10 DEF DeliveringInv, RemovedWithHook
<1>15. senders[p].todo = {}
  BY <1>2, SenderTyped DEF SenderFits
<1>16. ASSUME NEW d \in DOMAIN deliveries PROVE RowRecorded(R, d)'
  <2>1. CASE Row(d).excused
    <3>1. deliveries'[d].excused
      BY <1>10, <2>1
    <3> QED BY <3>1 DEF RowRecorded
  <2>2. CASE ~ Row(d).excused
    <3>1. deliveries'[d] = deliveries[d] /\ ~ Shared(d) /\ RowRecorded(R, d) /\ ~ deliveries[d].excused
      BY <1>9, <1>10, <2>2 DEF DeliveringInv
    <3>2. ~ Posting(s, d) /\ ~ Recording(s, d) /\ ~ Recording(senders[p], d)
      BY <1>2, <1>5 DEF Posting, Recording
    <3>3. CASE d \notin due
      <4>1. d \in senders'[p].todo => d \in senders[p].todo
        BY <1>5, <1>7, <3>3
      <4> QED BY <1>2, <1>7, <3>1, <3>2, <4>1, RowKept
    <3>4. CASE d \in due
      <4>1. \A q \in SendersOf(R) : d \notin senders[q].todo
        BY <3>1, <3>4
      <4>2. \A q \in SendersOf(R) : d \in senders'[q].todo => q = p
        BY <1>7, <4>1
      <4>3. deliveries[d].status \in {"PENDING", "FAILED"}
        BY <1>3, <3>4
      <4>4. AsRecorded(deliveries[d]) /\ ~ deliveries[d].again /\ deliveries[d].sent <= MaxRetries + 1
        BY <3>1, <4>1, <4>3 DEF RowRecorded, Recording
      <4>5. \A q \in SendersOf(R) : d \in senders'[q].todo => ~ Posting(senders'[q], d) /\ ~ Recording(senders'[q], d)
        BY <1>7, <3>2, <4>2
      <4> QED BY <3>1, <4>2, <4>3, <4>4, <4>5, RowRecordedIs
    <3> QED BY <3>3, <3>4
  <2> QED BY <2>1, <2>2
<1> QED BY <1>10, <1>12, <1>13, <1>14, <1>16 DEF DeliveringInv

\* Every step of an instance preserves its invariant.
LEMMA DeliveringStep ==
  ASSUME NEW H, NEW R, NEW N \in Nat, DeliveringInv(H, R, N), [Webhooks(H, R, N)!Next]_(Webhooks(H, R, N)!vars)
  PROVE  DeliveringInv(H, R, N)'
<1>1. CASE UNCHANGED Webhooks(H, R, N)!vars
  BY <1>1 DEF Webhooks!vars, DeliveringInv, DeliveringTyped, AttemptsWereSent, AttemptFits, RemovedWithHook, RowRecorded
<1>2. ASSUME NEW h \in H,
             Webhooks(H, R, N)!CreateWebhook(h) \/ Webhooks(H, R, N)!UpdateWebhook(h) \/ Webhooks(H, R, N)!RemoveWebhook(h)
      PROVE  DeliveringInv(H, R, N)'
  BY <1>2, HookSteps
<1>3. ASSUME NEW p \in SendersOf(R),
             \/ Webhooks(H, R, N)!FindHooks(p) \/ Webhooks(H, R, N)!CreateDelivery(p)
             \/ Webhooks(H, R, N)!ReadDelivery(p) \/ Webhooks(H, R, N)!Post(p)
             \/ Webhooks(H, R, N)!RecordAttempt(p) \/ Webhooks(H, R, N)!Abort(p)
      PROVE  DeliveringInv(H, R, N)'
  BY <1>3, FindHooksPreserves, CreateDeliveryPreserves, ReadDeliveryPreserves, PostPreserves, RecordAttemptPreserves,
     AbortPreserves
<1>4. ASSUME NEW r \in R, Webhooks(H, R, N)!FindDue(r) PROVE DeliveringInv(H, R, N)'
  BY <1>4, FindDuePreserves
<1>5. ASSUME NEW d \in DOMAIN deliveries, Webhooks(H, R, N)!ComesDue(d) PROVE DeliveringInv(H, R, N)'
  BY <1>5, ComesDuePreserves
<1> QED BY <1>1, <1>2, <1>3, <1>4, <1>5 DEF Webhooks!Next, Webhooks!Senders, SendersOf

\* What the invariant says of an instance.
LEMMA DeliveringProperties ==
  ASSUME NEW H, NEW R, NEW N, DeliveringInv(H, R, N)
  PROVE  Webhooks(H, R, N)!TypeOK /\ Webhooks(H, R, N)!DeliveryIsAsRecorded
<1>1. Webhooks(H, R, N)!TypeOK
  <2>1. \A h \in H : hooks[h].is \in {"absent", "active", "inactive", "removed"} /\ hooks[h].maxRetries \in 0 .. MaxRetries
    BY DEF DeliveringInv, DeliveringTyped, WebhookRow
  <2>2. ASSUME NEW d \in DOMAIN deliveries
        PROVE  /\ deliveries[d].hook \in H
               /\ deliveries[d].status \in {"PENDING", "SUCCESS", "FAILED", "DEAD_LETTER", "REMOVED"}
               /\ deliveries[d].attempts \in 0 .. deliveries[d].sent
    BY DeliveriesTyped DEF DeliveringInv, AttemptsWereSent, DeliveryRow, DeliveryStatuses
  <2>3. \A p \in SendersOf(R) :
          /\ senders[p].at \in {"idle", "create", "read", "post", "record", "over"}
          /\ senders[p].todo \subseteq DOMAIN deliveries
          /\ senders[p].at \in {"read", "post", "record"} => senders[p].todo # {}
    BY SenderTyped DEF SenderRow, SenderFits
  <2> QED BY <2>1, <2>2, <2>3 DEF DeliveringInv, DeliveringTyped, Webhooks!TypeOK, Webhooks!Senders, SendersOf
<1>2. Webhooks(H, R, N)!DeliveryIsAsRecorded
  <2> SUFFICES ASSUME NEW d \in DOMAIN deliveries, ~ deliveries[d].excused
               PROVE  /\ ~ deliveries[d].again
                      /\ deliveries[d].sent <= MaxRetries + 1
                      /\ (\A p \in SendersOf(R) : d \in senders[p].todo =>
                            senders[p].at # "record" \/ Oldest(senders[p].todo) # d) /\ deliveries[d].status # "REMOVED" =>
                           /\ deliveries[d].attempts = deliveries[d].sent
                           /\ deliveries[d].taken <=> deliveries[d].status = "SUCCESS"
    BY CurrentIsOldest DEF Webhooks!DeliveryIsAsRecorded, Webhooks!Senders, Webhooks!Holds, SendersOf
  <2> QED BY DEF DeliveringInv, RowRecorded, AsRecorded, Recording
<1> QED BY <1>1, <1>2

\* The two instances of the composition.
WebhooksInv == DeliveringInv(Hooks, {"process"}, 1)
TimersInv == DeliveringInv({"hook"}, Timers, MaxCycles)

\* Several webhooks, the timer of one process ...
LEMMA WebhooksInit == Webhooks(Hooks, {"process"}, 1)!Init => WebhooksInv
  BY DeliveringInit DEF WebhooksInv

\* ... at every step.
LEMMA WebhooksStep ==
  ASSUME WebhooksInv, [Webhooks(Hooks, {"process"}, 1)!Next]_(Webhooks(Hooks, {"process"}, 1)!vars) PROVE WebhooksInv'
  BY DeliveringStep DEF WebhooksInv

\* One webhook, the timers of several processes ...
LEMMA TimersInit == Webhooks({"hook"}, Timers, MaxCycles)!Init => TimersInv
  BY DeliveringInit, RecordsAssumption DEF TimersInv, Webhooks!DeliveryAssumption

\* ... at every step.
LEMMA TimersStep ==
  ASSUME TimersInv, [Webhooks({"hook"}, Timers, MaxCycles)!Next]_(Webhooks({"hook"}, Timers, MaxCycles)!vars)
  PROVE  TimersInv'
  BY DeliveringStep, RecordsAssumption DEF TimersInv, Webhooks!DeliveryAssumption

\* What the invariant says of several webhooks ...
LEMMA WebhooksProperties ==
  WebhooksInv => /\ Webhooks(Hooks, {"process"}, 1)!TypeOK
                 /\ Webhooks(Hooks, {"process"}, 1)!DeliveryIsAsRecorded
  BY DeliveringProperties DEF WebhooksInv

\* ... and of several timers.
LEMMA TimersProperties ==
  TimersInv => /\ Webhooks({"hook"}, Timers, MaxCycles)!TypeOK
               /\ Webhooks({"hook"}, Timers, MaxCycles)!DeliveryIsAsRecorded
  BY DeliveringProperties DEF TimersInv
=============================================================================
