---------------------------- MODULE PaymentMethods ----------------------------
(***************************************************************************)
(* The payment methods of one user in commerce.service.ts: what adds,      *)
(* edits, revokes one and makes one the default.  A transaction that sets  *)
(* a default first takes it from the methods that have it when its         *)
(* statement starts (READ COMMITTED), which is a step, and then commits.   *)
(***************************************************************************)
CONSTANTS
  Calls,  \* calls of the endpoints; a method has the name of the call that adds it
  Stored  \* methods there are before

VARIABLES
  methods,  \* payment_methods, with the call that last wrote each
  changes   \* what each call is at

vars == <<methods, changes>>

NoOne == "none"

MethodsAssumption == NoOne \notin Calls /\ Stored \cap Calls = {}

Statuses == {"ACTIVE", "INACTIVE", "REVOKED"}
NoChange == [at |-> "idle", method |-> NoOne, status |-> NoOne, edits |-> FALSE,
             seen |-> {}, after |-> {}]

TypeOK ==
  /\ DOMAIN methods \subseteq Stored \cup Calls
  /\ \A m \in DOMAIN methods :
       methods[m] \in [status : Statuses, isDefault : BOOLEAN, by : Calls \cup {NoOne}]
  /\ \A c \in Calls : /\ changes[c].at \in {"idle", "see", "commit", "done"}
                      /\ changes[c].status \in Statuses \cup {NoOne}
                      /\ changes[c].seen \subseteq DOMAIN methods

Init ==
  /\ \E default \in Stored \cup {NoOne} :
       methods = [m \in Stored |-> [status |-> "ACTIVE", isDefault |-> m = default, by |-> NoOne]]
  /\ changes = [c \in Calls |-> NoChange]

\* status is what the call will write, if anything, and edits tells updatePaymentMethod
Begin(c, at, m, status, edits) ==
  /\ changes[c].at = "idle"
  /\ changes' = [changes EXCEPT ![c] =
       [at |-> at, method |-> m, status |-> status, edits |-> edits, seen |-> {},
        \* history: the calls that were done when this one began
        after |-> {d \in Calls : changes[d].at = "done"}]]

\* createPaymentMethod, of one that is not to be the default
CreateMethod(c) ==
  /\ Begin(c, "done", c, "ACTIVE", FALSE)
  /\ methods' = [m \in DOMAIN methods \cup {c} |->
       IF m = c THEN [status |-> "ACTIVE", isDefault |-> FALSE, by |-> c] ELSE methods[m]]

\* updatePaymentMethod without setDefault: isDefault is written all the same
EditMethod(c) ==
  \E m \in DOMAIN methods, status \in Statuses \cup {NoOne} :
    /\ Begin(c, "done", m, status, TRUE)
    /\ methods' = [methods EXCEPT ![m] =
         [status |-> IF status = NoOne THEN @.status ELSE status, isDefault |-> FALSE, by |-> c]]

RevokeMethod(c) ==
  \E m \in DOMAIN methods :
    /\ Begin(c, "done", m, "REVOKED", FALSE)
    /\ methods' = [methods EXCEPT ![m] = [status |-> "REVOKED", isDefault |-> FALSE, by |-> c]]

\* setDefaultPaymentMethod reads the status before its transaction begins, the other two
\* with setDefault read none
BeginDefault(c) ==
  /\ \/ \E m \in DOMAIN methods :
          methods[m].status = "ACTIVE" /\ Begin(c, "see", m, NoOne, FALSE)
     \/ \E m \in DOMAIN methods, status \in Statuses \cup {NoOne} :
          Begin(c, "see", m, status, TRUE)
     \/ Begin(c, "see", c, "ACTIVE", FALSE)
  /\ UNCHANGED methods

SeeDefaults(c) ==
  /\ changes[c].at = "see"
  /\ changes' = [changes EXCEPT ![c].at = "commit",
       ![c].seen = {m \in DOMAIN methods : methods[m].isDefault}]
  /\ UNCHANGED methods

\* updatePaymentMethod makes no revoked method the default, setDefaultPaymentMethod one
\* that was revoked meanwhile.  An inactive one may be the default.
CommitDefault(c) ==
  /\ changes[c].at = "commit"
  /\ LET m == changes[c].method
         status == IF changes[c].status = NoOne THEN methods[m].status ELSE changes[c].status
     IN  methods' = [n \in DOMAIN methods \cup {m} |->
           CASE n = m -> [status |-> status, isDefault |-> ~ (changes[c].edits /\ status = "REVOKED"),
                          by |-> c]
             [] n # m /\ n \in changes[c].seen -> [methods[n] EXCEPT !.isDefault = FALSE]
             [] OTHER -> methods[n]]
  /\ changes' = [changes EXCEPT ![c].at = "done"]

Next ==
  \E c \in Calls :
    \/ CreateMethod(c) \/ EditMethod(c) \/ RevokeMethod(c)
    \/ BeginDefault(c) \/ SeeDefaults(c) \/ CommitDefault(c)

Spec == Init /\ [][Next]_vars

----------------------------------------------------------------------------
(* Properties *)

\* Neither was done when the other began.
Overlap(c, d) == c \notin changes[d].after /\ d \notin changes[c].after

\* Two methods are the default only if the calls that made them overlapped.
OneDefault ==
  \A m, n \in DOMAIN methods :
    methods[m].isDefault /\ methods[n].isDefault /\ m # n =>
      Overlap(methods[m].by, methods[n].by)

\* A revoked method is the default only if what revoked it overlapped what made it the
\* default.
RevokedIsNoDefault ==
  \A m \in DOMAIN methods :
    methods[m].status = "REVOKED" /\ methods[m].isDefault =>
      \E c \in Calls : /\ changes[c].at = "done" /\ changes[c].method = m
                       /\ changes[c].status = "REVOKED"
                       /\ Overlap(c, methods[m].by)
=============================================================================
