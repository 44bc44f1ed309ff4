----------------------------- MODULE EnergyGroups ----------------------------
(***************************************************************************)
(* The load groups of one station in energy-management.service.ts: which   *)
(* of them is active, and the decision each was last given.  Every change  *)
(* of a group but its deletion ends in recalculateGroup, which runs under  *)
(* a lock kept in the memory of the process (withLock).                    *)
(*                                                                         *)
(* What a decision contains is EnergyAllocation's matter; here it is named *)
(* by the version of the group it was computed from.  A process that dies  *)
(* takes its calls and its locks with it: they take no further step, and   *)
(* what is started in its place is another replica.                        *)
(***************************************************************************)
EXTENDS Naturals, Sequences

CONSTANTS
  Groups,    \* groups of the station
  Replicas,  \* processes of the API
  Calls      \* calls of the endpoints

VARIABLES
  groups,   \* rows of energy_load_groups
  locks,    \* in each process and for each group, the calls in withLock
  calls     \* what each call is at

vars == <<groups, locks, calls>>

NoOne == "none"
NoCall == [at |-> "idle", kind |-> "none", group |-> NoOne, replica |-> NoOne,
           seen |-> {}, read |-> 0, after |-> {}]

Over(c) == calls[c].at \in {"done", "failed"}
InLock == {"queued", "decide"}

TypeOK ==
  /\ DOMAIN groups \subseteq Groups
  /\ \A g \in DOMAIN groups :
       /\ groups[g].active \in BOOLEAN
       /\ groups[g].decided \in 0..groups[g].version
       /\ groups[g].writer \in Calls /\ groups[g].activator \in Calls \cup {NoOne}
  /\ \A p \in Replicas, g \in Groups :
       locks[p][g] \in Seq({c \in Calls : calls[c].replica = p /\ calls[c].group = g})
  \* in the lock's queue are the calls that are in withLock, each once, and at most
  \* its head is in the handler
  /\ \A c \in Calls :
       LET q == locks[calls[c].replica][calls[c].group]
       IN  /\ calls[c].at \in InLock =>
                /\ \E n \in DOMAIN q : q[n] = c /\ \A m \in DOMAIN q \ {n} : q[m] # c
                /\ calls[c].at = "decide" => c = Head(q)
           /\ calls[c].at \in {"see", "commit", "lock"} \/ Over(c) =>
                \A n \in DOMAIN q : q[n] # c

Init ==
  /\ groups = << >>
  /\ locks = [p \in Replicas |-> [g \in Groups |-> << >>]]
  /\ calls = [c \in Calls |-> NoCall]

Goto(c, at) == calls' = [calls EXCEPT ![c].at = at]

Begin(c, kind, g, at) ==
  /\ calls[c].at = "idle"
  /\ \E p \in Replicas :
       calls' = [calls EXCEPT ![c] =
         [NoCall EXCEPT !.at = at, !.kind = kind, !.group = g, !.replica = p,
                        \* history: the calls that were over when this one began
                        !.after = {d \in Calls : Over(d)}]]
  /\ UNCHANGED locks

\* a write of the row; writer is history
Written(row, c) == [row EXCEPT !.version = @ + 1, !.writer = c]
Activated(row, c)   == [Written(row, c) EXCEPT !.active = TRUE, !.activator = c]
Deactivated(row, c) == [Written(row, c) EXCEPT !.active = FALSE, !.activator = NoOne]
Created(c, active) == [active |-> active, version |-> 1, decided |-> 0, writer |-> c,
                       activator |-> IF active THEN c ELSE NoOne]

----------------------------------------------------------------------------
(* The operations up to recalculateGroup *)

\* createGroup: with isActive the group begins active; its memberships are recalculated,
\* with activateNow it is activated instead (and decided on once, not twice)
CreateGroup(c) ==
  \E g \in Groups \ DOMAIN groups, active \in BOOLEAN, at \in {"see", "lock", "done"} :
    /\ Begin(c, "create", g, at)
    /\ groups' = [h \in DOMAIN groups \cup {g} |-> IF h = g THEN Created(c, active) ELSE groups[h]]

BeginActivation(c) ==
  /\ \E g \in DOMAIN groups : Begin(c, "activate", g, "see")
  /\ UNCHANGED groups

\* activateGroup's updateMany decides on what is committed when it starts ...
SeeActive(c) ==
  /\ calls[c].at = "see"
  /\ calls' = [calls EXCEPT ![c].at = "commit",
                            ![c].seen = {h \in DOMAIN groups : groups[h].active} \ {calls[c].group}]
  /\ UNCHANGED <<groups, locks>>

\* ... and, once it has their locks, deactivates those that are still active.
ActivateGroup(c) ==
  /\ calls[c].at = "commit"
  /\ groups' = [h \in DOMAIN groups |->
       CASE h = calls[c].group -> Activated(groups[h], c)
         [] h \in calls[c].seen /\ groups[h].active -> Deactivated(groups[h], c)
         [] OTHER -> groups[h]]
  /\ Goto(c, "lock")
  /\ UNCHANGED locks

DisableGroup(c) ==
  \E g \in DOMAIN groups :
    /\ Begin(c, "disable", g, "lock")
    /\ groups' = [groups EXCEPT ![g] = Deactivated(@, c)]

\* deleteGroup only disables, and recalculates nothing
DeleteGroup(c) ==
  \E g \in DOMAIN groups :
    /\ Begin(c, "delete", g, "done")
    /\ groups' = [groups EXCEPT ![g] = Deactivated(@, c)]

\* what a decision is made from changes
Configure(c, at) ==
  \E g \in DOMAIN groups :
    /\ Begin(c, "configure", g, at)
    /\ groups' = [groups EXCEPT ![g] = Written(@, c)]

\* with recalculateNow or memberships, the group is decided on again
UpdateGroup(c) == \E at \in {"lock", "done"} : Configure(c, at)

\* with no members left, it is not
ReplaceMemberships(c) == \E at \in {"lock", "done"} : Configure(c, at)

IngestTelemetry(c)   == Configure(c, "lock")
CreateOverride(c)    == Configure(c, "lock")
ClearOverride(c)     == Configure(c, "lock")
SimulateMeterLoss(c) == Configure(c, "lock")

\* the recalculate endpoint
BeginRecalculation(c) ==
  /\ \E g \in DOMAIN groups : Begin(c, "recalculate", g, "lock")
  /\ UNCHANGED groups

\* recalculateStation finds the active groups
RecalculateStation(c) ==
  /\ \E g \in DOMAIN groups : groups[g].active /\ Begin(c, "recalculate", g, "lock")
  /\ UNCHANGED groups

----------------------------------------------------------------------------
(* recalculateGroup under withLock *)

Queue(c) == locks[calls[c].replica][calls[c].group]
LeaveLock(c) == locks' = [locks EXCEPT ![calls[c].replica][calls[c].group] = Tail(@)]

QueueForLock(c) ==
  /\ calls[c].at = "lock"
  /\ locks' = [locks EXCEPT ![calls[c].replica][calls[c].group] = Append(@, c)]
  /\ Goto(c, "queued")
  /\ UNCHANGED groups

\* mutant of LoadGroup: the handler does not wait for the one before it
LoadGroupAtOnce(c) ==
  /\ calls[c].at = "queued"
  /\ calls' = [calls EXCEPT ![c].at = "decide", ![c].read = groups[calls[c].group].version]
  /\ UNCHANGED <<groups, locks>>

\* first in line, the handler reads the group
LoadGroup(c) ==
  /\ calls[c].at = "queued" /\ Head(Queue(c)) = c
  /\ calls' = [calls EXCEPT ![c].at = "decide", ![c].read = groups[calls[c].group].version]
  /\ UNCHANGED <<groups, locks>>

\* ... and writes the decision it made from it
RecordDecision(c) ==
  /\ calls[c].at = "decide"
  /\ groups' = [groups EXCEPT ![calls[c].group].decided = calls[c].read]
  /\ LeaveLock(c)
  /\ Goto(c, "done")

\* finally: release()
HandlerThrows(c) ==
  /\ calls[c].at = "decide"
  /\ LeaveLock(c)
  /\ Goto(c, "failed")
  /\ UNCHANGED groups

Next ==
  \E c \in Calls :
    \/ CreateGroup(c) \/ BeginActivation(c) \/ DisableGroup(c) \/ DeleteGroup(c)
    \/ UpdateGroup(c) \/ ReplaceMemberships(c) \/ IngestTelemetry(c)
    \/ CreateOverride(c) \/ ClearOverride(c) \/ SimulateMeterLoss(c)
    \/ BeginRecalculation(c) \/ RecalculateStation(c)
    \/ SeeActive(c) \/ ActivateGroup(c)
    \/ QueueForLock(c) \/ LoadGroup(c) \/ RecordDecision(c) \/ HandlerThrows(c)

Spec == Init /\ [][Next]_vars

----------------------------------------------------------------------------
(* Properties *)

\* Neither was over when the other began.
Overlap(c, d) == c \notin calls[d].after /\ d \notin calls[c].after

\* Of two active groups, one was created active, or the activations overlapped and
\* neither saw the other.
OneActiveGroup ==
  \A g, h \in DOMAIN groups :
    /\ g # h
    /\ groups[g].active /\ groups[h].active
    => \/ calls[groups[g].activator].kind = "create"
       \/ calls[groups[h].activator].kind = "create"
       \/ Overlap(groups[g].activator, groups[h].activator)

\* When the call that changed a group last has recalculated it, the decision on record
\* is made from what the group is now, unless a call on the group in another process,
\* which does not share the lock, overlapped with it.
DecisionIsCurrent ==
  \A g \in DOMAIN groups :
    LET w == groups[g].writer
    IN  /\ calls[w].at = "done" /\ calls[w].group = g /\ calls[w].read # 0
        /\ \A d \in Calls :
             calls[d].at # "idle" /\ calls[d].group = g /\ calls[d].replica # calls[w].replica
             => ~ Overlap(d, w)
        => groups[g].decided = groups[g].version
=============================================================================
