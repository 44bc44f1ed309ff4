----------------------------- MODULE EnergyPlans -----------------------------
(***************************************************************************)
(* Charging schedules of one station: an optimization plan is created and  *)
(* approved (energy-optimization.service.ts), schedules are created from a *)
(* plan or without one and approved (energy-management.service.ts), and a  *)
(* demand-response event adds a schedule that falls back to plain load     *)
(* management (vendor-baseline.service.ts).                                *)
(*                                                                         *)
(* The log of plan runs, on which nothing is decided, is left out.         *)
(***************************************************************************)
CONSTANTS
  Planners,  \* calls of the endpoints, each also the id of the row it creates
  Earlier,   \* schedules created before, still waiting for approval
  Scopes     \* what a schedule is for: load groups, or the whole station

Station == "station"

VARIABLES
  plans,      \* energy_optimization_plans: the state of each
  schedules,  \* energy_management_schedules
  planning    \* what each call is at

vars == <<plans, schedules, planning>>

PlansAssumption == Planners \cap Earlier = {}

NoOne == "none"
NoPlanning == [at |-> "idle", kind |-> "none", row |-> NoOne, fallback |-> FALSE,
               seen |-> {}, after |-> {}]

TypeOK ==
  /\ DOMAIN plans \subseteq Planners /\ DOMAIN schedules \subseteq Planners \cup Earlier
  /\ \A p \in DOMAIN plans :
       plans[p] \in {"DRAFT", "READY_FOR_APPROVAL", "SCHEDULED", "APPROVED", "FALLBACK_DLM"}
  /\ \A s \in DOMAIN schedules :
       /\ schedules[s].plan \in DOMAIN plans \cup {NoOne}
       /\ schedules[s].scope \in Scopes \cup {Station}
       /\ schedules[s].status \in {"PENDING_APPROVAL", "ACTIVE", "SUPERSEDED", "FALLBACK_DLM"}
       /\ schedules[s].activator \in Planners \cup {NoOne}
  /\ \A c \in Planners :
       planning[c].at \in {"idle", "create", "plan", "approvePlan", "see", "commit", "done"}

Init ==
  /\ plans = << >>
  /\ \E scope \in [Earlier -> Scopes \cup {Station}] :
       schedules = [s \in Earlier |->
         [plan |-> NoOne, scope |-> scope[s], status |-> "PENDING_APPROVAL", fallback |-> FALSE,
          activator |-> NoOne]]
  /\ planning = [c \in Planners |-> NoPlanning]

Begin(c, kind, at, row, fallback) ==
  /\ planning[c].at = "idle"
  /\ planning' = [planning EXCEPT ![c] =
       [at |-> at, kind |-> kind, row |-> row, fallback |-> fallback, seen |-> {},
        \* history: the calls that were done when this one began
        after |-> {d \in Planners : planning[d].at = "done"}]]

Goto(c, at) == planning' = [planning EXCEPT ![c].at = at]

----------------------------------------------------------------------------
(* Plans *)

\* createPlan: a dry run is a draft, an inconsistent tariff a fallback
CreatePlan(c) ==
  /\ Begin(c, "plan", "done", NoOne, FALSE)
  /\ \E state \in {"DRAFT", "READY_FOR_APPROVAL", "FALLBACK_DLM"} : 
       plans' = [p \in DOMAIN plans \cup {c} |-> IF p = c THEN state ELSE plans[p]]
  /\ UNCHANGED schedules

\* approvePlan refuses a plan that fell back ...
ReadPlan(c) ==
  /\ \E p \in DOMAIN plans :
       Begin(c, "approvePlan", IF plans[p] = "FALLBACK_DLM" THEN "done" ELSE "approvePlan", p, FALSE)
  /\ UNCHANGED <<plans, schedules>>

\* ... and approves the one it read, whatever it is by then
ApprovePlan(c) ==
  /\ planning[c].at = "approvePlan"
  /\ plans' = [plans EXCEPT ![planning[c].row] = "APPROVED"]
  /\ Goto(c, "done")
  /\ UNCHANGED schedules

----------------------------------------------------------------------------
(* Schedules *)

\* createSchedule reads the plan, if there is one
BeginSchedule(c) ==
  /\ \E fallback \in BOOLEAN :
       \/ Begin(c, "schedule", "create", NoOne, fallback)
       \/ \E p \in DOMAIN plans :
            Begin(c, "schedule", "create", p, fallback \/ plans[p] = "FALLBACK_DLM")
  /\ UNCHANGED <<plans, schedules>>

\* What normalizeScheduleStatus lets a caller ask for: a schedule may be active at once.
\* Drafts, approved, superseded and cancelled ones wait like those pending approval.
Requested == {"PENDING_APPROVAL", "ACTIVE", "FALLBACK_DLM"}

Insert(c, schedule) ==
  schedules' = [s \in DOMAIN schedules \cup {c} |-> IF s = c THEN schedule ELSE schedules[s]]

CreateSchedule(c) ==
  /\ planning[c].at = "create"
  /\ \E scope \in Scopes \cup {Station}, requested \in Requested :
       LET status == IF planning[c].fallback THEN "FALLBACK_DLM" ELSE requested
       IN  Insert(c, [plan |-> planning[c].row, scope |-> scope, status |-> status,
                      fallback |-> planning[c].fallback,
                      activator |-> IF status = "ACTIVE" THEN c ELSE NoOne])
  /\ Goto(c, IF planning[c].row = NoOne THEN "done" ELSE "plan")
  /\ UNCHANGED plans

\* the plan follows if it is still waiting
UpdatePlan(c) ==
  /\ planning[c].at = "plan"
  /\ plans' = [plans EXCEPT ![planning[c].row] =
       IF @ \notin {"DRAFT", "READY_FOR_APPROVAL"} THEN @
       ELSE IF planning[c].fallback THEN "FALLBACK_DLM" ELSE "SCHEDULED"]
  /\ Goto(c, "done")
  /\ UNCHANGED schedules

\* A demand-response event waits for approval too, and falls back when it gets it.
DemandResponse(c) ==
  /\ Begin(c, "schedule", "done", NoOne, TRUE)
  /\ Insert(c, [plan |-> NoOne, scope |-> Station, status |-> "PENDING_APPROVAL", fallback |-> TRUE,
                activator |-> NoOne])
  /\ UNCHANGED plans

\* approveSchedule reads the schedule, in any status
ReadSchedule(c) ==
  /\ \E s \in DOMAIN schedules, forced \in BOOLEAN :
       LET fallback == forced \/ schedules[s].fallback \/ schedules[s].status = "FALLBACK_DLM"
       IN  Begin(c, "approve", IF fallback THEN "commit" ELSE "see", s, fallback)
  /\ UNCHANGED <<plans, schedules>>

\* A group's schedule supersedes the group's, the station's all of the station.
Supersedes(s, x) ==
  /\ x # s /\ schedules[x].status = "ACTIVE"
  /\ schedules[s].scope \in {schedules[x].scope, Station}

\* updateMany decides on the schedules that are active when it starts ...
SeeActiveSchedules(c) ==
  /\ planning[c].at = "see"
  /\ planning' = [planning EXCEPT ![c].at = "commit",
       ![c].seen = {x \in DOMAIN schedules : Supersedes(planning[c].row, x)}]
  /\ UNCHANGED <<plans, schedules>>

\* ... and supersedes those that still are; the transaction goes on to the schedule
\* and its plan.
ApproveSchedule(c) ==
  /\ planning[c].at = "commit"
  /\ LET call == planning[c]
     IN  /\ schedules' = [x \in DOMAIN schedules |->
              CASE x = call.row -> [schedules[x] EXCEPT
                     !.status = IF call.fallback THEN "FALLBACK_DLM" ELSE "ACTIVE",
                     !.fallback = call.fallback,
                     !.activator = IF call.fallback THEN NoOne ELSE c]
                [] x \in call.seen /\ schedules[x].status = "ACTIVE" ->
                     [schedules[x] EXCEPT !.status = "SUPERSEDED"]
                [] OTHER -> schedules[x]]
         /\ plans' = [p \in DOMAIN plans |->
              IF p = schedules[call.row].plan
              THEN IF call.fallback THEN "FALLBACK_DLM" ELSE "APPROVED"
              ELSE plans[p]]
  /\ Goto(c, "done")

Next ==
  \E c \in Planners :
    \/ CreatePlan(c) \/ ReadPlan(c) \/ ApprovePlan(c)
    \/ BeginSchedule(c) \/ CreateSchedule(c) \/ UpdatePlan(c) \/ DemandResponse(c)
    \/ ReadSchedule(c) \/ SeeActiveSchedules(c) \/ ApproveSchedule(c)

Spec == Init /\ [][Next]_vars

----------------------------------------------------------------------------
(* Properties *)

\* Neither was done when the other began.
Overlap(c, d) == c \notin planning[d].after /\ d \notin planning[c].after

Activated(s) == schedules[s].activator

\* Of two active schedules, one was created active, or their approvals overlapped, or
\* a group's was approved after the whole station's, which it does not supersede.
OneActiveSchedule ==
  \A s, x \in DOMAIN schedules :
    /\ s # x /\ schedules[s].status = "ACTIVE" /\ schedules[x].status = "ACTIVE"
    /\ schedules[s].scope \in {schedules[x].scope, Station}
    => \/ Activated(s) = s \/ Activated(x) = x
       \/ Overlap(Activated(s), Activated(x))
       \/ /\ schedules[s].scope # schedules[x].scope
          /\ Activated(s) \in planning[Activated(x)].after
=============================================================================
