-------------------------- MODULE EnergyAllocation --------------------------
(***************************************************************************)
(* How the energy manager divides a site's amps among the chargers of a    *)
(* load group: buildEnergyAllocationPlan of                                *)
(* apps/api/src/modules/energy-management/energy-management.logic.ts.      *)
(*                                                                         *)
(* The function is pure; the module is its run: one action per block of    *)
(* statements, the body of the water-filling loop being one action, from   *)
(* any input to the plan it returns.  Members are the active members       *)
(* (enabled, capable and online) in the order the function sorts them:     *)
(* by priority, then by id, so that prio is never decreasing.              *)
(* Telemetry only chooses alert and reason codes, never amps, and is left  *)
(* out with them.                                                          *)
(***************************************************************************)
EXTENDS Integers, FiniteSets, FiniteSetsExt, Functions

CONSTANTS
  N,       \* number of active members
  Phases,  \* the phases of the site
  Inputs,  \* the arguments tried: EnergyAllocationPlanInput, for the active members
  Null     \* an absent cap, previous limit or override

Members == 1 .. N

Optional == Nat \union {Null}

(* due: the refresh window is over, or no decision was ever applied to the *)
(* member.  deadband: a deadbandAmps below 1 counts as 1.                  *)
InputShape ==
  [site: [Phases -> Nat], load: [Phases -> Nat], buffer: [Phases -> Nat],
   failSafe: [Phases -> Nat], override: Optional,
   method: {"EQUAL", "PRIORITY"}, mode: {"ACTIVE", "OBSERVE_ONLY", "DISABLED"},
   cap: [Members -> Optional], prio: [Members -> Nat], prev: [Members -> Optional],
   due: [Members -> BOOLEAN], deadband: Nat \ {0}]

ASSUME EnergyAssumption ==
  /\ N \in Nat \ {0}
  /\ IsFiniteSet(Phases) /\ Phases # {}
  /\ Null \notin Nat
  /\ Inputs \subseteq InputShape
  /\ \A i \in Inputs : \A a, b \in Members : a < b => i.prio[a] <= i.prio[b]

VARIABLES
  in,         \* the function's argument
  pc,         \* the block that runs next
  limit,      \* effectiveLimitAmps
  remaining,  \* amps not given out yet
  cursor,     \* the first member no band has taken yet
  eligible,   \* members of the current band that still take amps
  targets,    \* amps given to each member
  plan        \* the decision for each member

allocationVars == <<in, pc, limit, remaining, cursor, eligible, targets, plan>>

NoPlan == [m \in Members |-> [amps |-> 0, command |-> "None", send |-> FALSE]]

(* Max(0, x), the clamp every subtraction of phases goes through. *)
AtLeastZero(x) == IF x < 0 THEN 0 ELSE x

Smaller(a, b) == IF a < b THEN a ELSE b

(* subtractPhaseTriple, applied twice: the load first, then the buffer. *)
Headroom(p) == AtLeastZero(AtLeastZero(in.site[p] - in.load[p]) - in.buffer[p])

(* failSafeCeilingAmps: the fail-safe amps bound the headroom always, not   *)
(* only when the meter is silent.                                          *)
Ceiling(p) == Smaller(Headroom(p), in.failSafe[p])

(* resolveScalarLimit: the smallest phase that has any amps; a phase with   *)
(* none is passed over.                                                    *)
\* mutant of ScalarLimit: the phase with most amps decides
LoosestPhase ==
  LET live == {Ceiling(p) : p \in Phases} \ {0}
  IN  IF live = {} THEN 0 ELSE Max(live)

ScalarLimit ==
  LET live == {Ceiling(p) : p \in Phases} \ {0}
  IN  IF live = {} THEN 0 ELSE Min(live)

EffectiveLimit ==
  IF in.override = Null THEN ScalarLimit ELSE Smaller(ScalarLimit, in.override)

Capped(m, amps) == IF in.cap[m] = Null THEN amps ELSE Smaller(amps, in.cap[m])

(* cap === null || targets[index] < cap fails *)
AtCap(m, amps) == in.cap[m] # Null /\ amps >= in.cap[m]

(* A band is every member under EQUAL, and the members that share the       *)
(* cursor's priority under PRIORITY.                                       *)
\* mutant of BandOf: PRIORITY puts everyone in one band, like EQUAL
OneBand(m) == Members

BandOf(m) == IF in.method = "EQUAL" THEN Members
             ELSE {k \in Members : in.prio[k] = in.prio[m]}

(* desired, capped: one member's amps after a round.  The first             *)
(* remaining % n eligible members, in order, take one amp of the remainder. *)
\* mutant of AfterRound: one member too many takes an amp of the remainder
OneExtraAmp(m) ==
  LET n        == Cardinality(eligible)
      position == Cardinality({k \in eligible : k < m})
      extra    == IF position <= remaining % n THEN 1 ELSE 0
  IN  Capped(m, targets[m] + (remaining \div n) + extra)

AfterRound(m) ==
  LET n        == Cardinality(eligible)
      position == Cardinality({k \in eligible : k < m})
      extra    == IF position < remaining % n THEN 1 ELSE 0
  IN  Capped(m, targets[m] + (remaining \div n) + extra)

(* allocateMembers' last pass: hasRefreshWindowExpired and the null hash    *)
(* are in.due.                                                             *)
\* mutant of AmpsChanged: a change of exactly one deadband is held back
BeyondDeadband(m) ==
  \/ in.prev[m] = Null
  \/ targets[m] - in.prev[m] > in.deadband
  \/ in.prev[m] - targets[m] > in.deadband

AmpsChanged(m) ==
  \/ in.prev[m] = Null
  \/ targets[m] - in.prev[m] >= in.deadband
  \/ in.prev[m] - targets[m] >= in.deadband

Decision(m) ==
  [amps    |-> IF in.mode = "DISABLED" THEN 0 ELSE targets[m],
   command |-> IF targets[m] > 0 THEN "ApplyChargingLimit" ELSE "ClearChargingLimit",
   send    |-> in.mode = "ACTIVE" /\ (AmpsChanged(m) \/ in.due[m])]

-----------------------------------------------------------------------------

AllocationInit ==
  /\ in \in Inputs
  /\ pc = "limit"
  /\ limit = 0 /\ remaining = 0 /\ cursor = 1 /\ eligible = {}
  /\ targets = [m \in Members |-> 0]
  /\ plan = NoPlan

(* effectiveLimitAmps, and the early return of allocateEqual and            *)
(* allocatePriority when there is nothing to give.                         *)
ResolveLimit ==
  /\ pc = "limit"
  /\ limit' = EffectiveLimit
  /\ remaining' = limit'
  /\ pc' = "band"
  /\ UNCHANGED <<in, cursor, eligible, targets, plan>>

(* The outer loop of allocatePriority, or allocateEqual's one call. *)
TakeBand ==
  /\ pc = "band" /\ cursor <= N /\ remaining > 0
  /\ eligible' = BandOf(cursor)
  /\ cursor' = Max(BandOf(cursor)) + 1
  /\ pc' = "round"
  /\ UNCHANGED <<in, limit, remaining, targets, plan>>

\* mutants of SettleRound: every member is assumed to have taken its share;
\* nobody takes part in a second round; a round that gives nothing goes on
AssumeAllTaken(next, assigned) ==
  remaining' = 0 /\ eligible' = {} /\ UNCHANGED pc

SingleRound(next, assigned) ==
  remaining' = remaining - assigned /\ eligible' = {} /\ UNCHANGED pc

NeverBreaks(next, assigned) ==
  remaining' = remaining - assigned /\ UNCHANGED <<pc, eligible>>

(* The end of a round: a round that gave nothing breaks; after any other    *)
(* the members that are not full take part in the next one.                *)
SettleRound(next, assigned) ==
  \/ assigned <= 0 /\ pc' = "band" /\ UNCHANGED <<remaining, eligible>>
  \/ /\ assigned > 0
     /\ remaining' = remaining - assigned
     /\ eligible' = {m \in eligible : ~AtCap(m, next[m])}
     /\ UNCHANGED pc

(* One turn of the loop of distributeEvenlyWithCaps. *)
DistributeRound ==
  /\ pc = "round" /\ remaining > 0 /\ eligible # {}
  /\ targets' = [m \in Members |-> IF m \in eligible THEN AfterRound(m) ELSE targets[m]]
  /\ SettleRound(targets', SumFunction([m \in eligible |-> targets'[m] - targets[m]]))
  /\ UNCHANGED <<in, limit, cursor, plan>>

EndBand ==
  /\ pc = "round" /\ (remaining = 0 \/ eligible = {})
  /\ pc' = "band"
  /\ UNCHANGED <<in, limit, remaining, cursor, eligible, targets, plan>>

Decide ==
  /\ pc = "band" /\ (cursor > N \/ remaining = 0)
  /\ plan' = [m \in Members |-> Decision(m)]
  /\ pc' = "done"
  /\ UNCHANGED <<in, limit, remaining, cursor, eligible, targets>>

AllocationNext == ResolveLimit \/ TakeBand \/ DistributeRound \/ EndBand \/ Decide

AllocationSpec ==
  AllocationInit /\ [][AllocationNext]_allocationVars /\ WF_allocationVars(AllocationNext)

-----------------------------------------------------------------------------

Allocated == SumFunction(targets)

(* What a charger goes on with: the new limit if a command is sent, its     *)
(* previous one otherwise.                                                 *)
Held(m) == IF plan[m].send \/ in.prev[m] = Null THEN plan[m].amps ELSE in.prev[m]

ZeroCappedIn(band) == {z \in band : in.cap[z] = 0}

AtTheirCap(band) == {c \in band : AtCap(c, targets[c])}

(* Types: amps are naturals, a plan is a decision per member. *)
AllocationTypeOK ==
  /\ in \in InputShape
  /\ pc \in {"limit", "band", "round", "done"}
  /\ limit \in Nat /\ remaining \in Nat /\ cursor \in 1 .. N + 1
  /\ eligible \subseteq Members
  /\ targets \in [Members -> Nat]
  /\ plan \in [Members -> [amps : Nat, command : {"None", "ApplyChargingLimit", "ClearChargingLimit"},
                           send : BOOLEAN]]

(* The rounds neither create nor lose amps: what was given and what remains *)
(* is the limit (remaining -= assigned in both loops), and no member is     *)
(* given more than its maxAmps in any round.                               *)
AmpsConserved ==
  /\ pc # "limit" => Allocated + remaining = limit /\ Allocated <= limit
  /\ \A m \in Members : in.cap[m] # Null => targets[m] <= in.cap[m]

(* A member that could take more goes without only when nothing is left --  *)
(* or when its band has a member of maxAmps 0: such members sort first, are *)
(* counted in the remainder and can use it all up, so the round assigns     *)
(* nothing and the loop breaks with amps in hand, though never with more    *)
(* than there are such members.                                            *)
NothingWasted ==
  pc = "done" /\ remaining > 0 =>
    \A m \in Members :
      AtCap(m, targets[m]) \/ remaining <= Cardinality(ZeroCappedIn(BandOf(m)))

(* Under PRIORITY a member is given amps only once every member of a more   *)
(* urgent band is full; the exception is again a band with a member of      *)
(* maxAmps 0.  Within a band, two members that are not full differ by one   *)
(* amp, plus one for each member that filled up: every such member starts a *)
(* new round, whose remainder goes to the first in order once more.         *)
SharedInOrder ==
  pc = "done" =>
    /\ \A a, b \in Members :
         in.method = "PRIORITY" /\ in.prio[a] < in.prio[b] /\ targets[b] > 0 =>
           AtCap(a, targets[a]) \/ ZeroCappedIn(BandOf(a)) # {}
    /\ \A a \in Members : \A b \in BandOf(a) :
         AtCap(b, targets[b])
         \/ targets[a] - targets[b] <= 1 + Cardinality(AtTheirCap(BandOf(a)))

(* The one limit fits every phase that has amps to give, the fail-safe and  *)
(* the override included; only a phase left with none can be overrun.      *)
LivePhasesFit ==
  pc # "limit" =>
    /\ \A p \in Phases : Allocated > Ceiling(p) => Ceiling(p) = 0
    /\ in.override # Null => Allocated <= in.override

(* In ACTIVE mode what the chargers go on with exceeds the limit by less    *)
(* than one deadband per charger: changes smaller than the deadband are not *)
(* sent (deadbandAmps, shouldSendCommand).                                 *)
HeldWithinDeadband ==
  pc = "done" /\ in.mode = "ACTIVE" =>
    SumFunction([m \in Members |-> Held(m)]) <= limit + N * (in.deadband - 1)

(* The loops end on every input: a turn that gives nothing breaks           *)
(* (assigned <= 0), every other one uses up amps.                          *)
Terminates == <>(pc = "done")

=============================================================================
