-------------------------- MODULE VehicleTelemetry ---------------------------
(***************************************************************************)
(* The latest telemetry of one vehicle and its faults in telemetry.service *)
(* .ts: webhooks, the fleet poll of each replica and status reads store    *)
(* what they learnt and then bring the fault rows in line with it, every   *)
(* database call on its own; users acknowledge and resolve faults in       *)
(* diagnostics.service.ts.                                                 *)
(*                                                                         *)
(* Readings are abstracted to the fault codes and to whether they count as *)
(* stale.  The append-only snapshots and the alerts are left out: nothing  *)
(* is decided on them.                                                     *)
(***************************************************************************)
EXTENDS Naturals, Sequences, SequencesExt

CONSTANTS
  Ingests,   \* webhooks, polls and status reads
  Replicas,  \* processes of the API
  Reports,   \* what a webhook may carry: [faults, stale], faults a sequence of codes
  MaxActs    \* bound on users' actions

VARIABLES
  latest,       \* the row of vehicle_telemetry_latest
  faults,       \* the rows of vehicle_faults in order of creation
  ingests,      \* what each ingest is at
  acts,         \* users' actions so far
  undisturbed   \* history: the ingest with nothing beside it since it began

vars == <<latest, faults, ingests, acts, undisturbed>>

NoOne   == "none"
NoRow   == [faults |-> << >>, stale |-> TRUE]  \* a missing row reads like a stale one without faults
NoIngest == [at |-> "idle", kind |-> "none", replica |-> NoOne, report |-> NoRow,
             todo |-> {}, gone |-> {}, after |-> {}]

Codes == UNION {ToSet(report.faults) : report \in Reports}

TelemetryAssumption ==
  /\ Reports \subseteq [faults : Seq(Codes), stale : BOOLEAN]
  /\ MaxActs \in Nat
  /\ NoOne \notin Ingests

TypeOK ==
  /\ ToSet(latest.faults) \subseteq Codes /\ latest.stale \in BOOLEAN
  /\ \A n \in DOMAIN faults :
       /\ faults[n].code \in Codes /\ faults[n].by \in Ingests
       /\ faults[n].status \in {"OPEN", "ACKNOWLEDGED", "RESOLVED"}
       /\ faults[n].reopened \in BOOLEAN
  /\ \A i \in Ingests :
       /\ ingests[i].at \in {"idle", "persist", "sync", "write", "done", "dead"}
       /\ ingests[i].gone \subseteq DOMAIN faults
       \* a step is left only where the code has one
       /\ ingests[i].at = "write" => ingests[i].todo # {} \/ ingests[i].gone # {}
       /\ ingests[i].kind = "pull" => ingests[i].at \in {"persist", "done", "dead"}
  /\ acts \in 0..MaxActs
  /\ undisturbed \in Ingests \cup {NoOne}

Init ==
  /\ latest = NoRow
  /\ faults = << >>
  /\ ingests = [i \in Ingests |-> NoIngest]
  /\ acts = 0
  /\ undisturbed = NoOne

Over(i) == ingests[i].at \in {"done", "dead"}
Running == {i \in Ingests : ingests[i].at # "idle" /\ ~ Over(i)}
Active == {n \in DOMAIN faults : faults[n].status \in {"OPEN", "ACKNOWLEDGED"}}

Begin(i, kind, replica, report) ==
  /\ ingests[i].at = "idle"
  /\ ingests' = [ingests EXCEPT ![i] =
       [NoIngest EXCEPT !.at = "persist", !.kind = kind, !.replica = replica, !.report = report,
                        \* history: the ingests that were over when this one began
                        !.after = {j \in Ingests : Over(j)}]]
  /\ undisturbed' = IF Running = {} THEN i ELSE NoOne
  /\ UNCHANGED <<latest, faults, acts>>

\* A webhook's faults are its own; what else it leaves out it takes from the latest row.
ReceiveWebhook(i) == \E report \in Reports : Begin(i, "webhook", NoOne, report)

\* Smartcar reports no faults, the synthetic adapters repeat the last known ones;
\* what was fetched now is fresh.
Fetched(known) == [faults : {known, << >>}, stale : {FALSE}]

\* pollRunning: one poll at a time in each process
Poll(i) ==
  \E p \in Replicas :
    /\ ~ \E j \in Running : ingests[j].replica = p
    /\ \E report \in Fetched(latest.faults) : Begin(i, "poll", p, report)

\* A status read asks the provider only if the row is stale, by the flag stored with it.
ReadStatus(i) ==
  /\ latest.stale
  /\ Begin(i, "read", NoOne, [faults |-> latest.faults, stale |-> FALSE])

\* Smartcar's path, an endpoint and the end of some status reads, stores what it
\* learns, never a fault, and leaves the fault rows alone.
PullStatus(i) == Begin(i, "pull", NoOne, [faults |-> << >>, stale |-> FALSE])

\* the upsert, whatever the row holds by now
PersistTelemetrySnapshot(i) ==
  /\ ingests[i].at = "persist"
  /\ latest' = ingests[i].report
  /\ ingests' = [ingests EXCEPT ![i].at = IF ingests[i].kind = "pull" THEN "done" ELSE "sync"]
  /\ UNCHANGED <<faults, acts, undisturbed>>

AtWrite(ingest) ==
  [ingest EXCEPT !.at = IF ingest.todo = {} /\ ingest.gone = {} THEN "done" ELSE "write"]

\* The rows that are open or acknowledged decide what is created (each occurrence of a
\* code, not each code) and what is resolved.
ReadOpenFaults(i) ==
  /\ ingests[i].at = "sync"
  /\ LET IsNew(code) == \A n \in Active : faults[n].code # code
         reported == ingests[i].report.faults
     IN  ingests' = [ingests EXCEPT ![i] = AtWrite([@ EXCEPT
           !.todo = {k \in DOMAIN reported : IsNew(reported[k])},
           !.gone = {n \in Active : faults[n].code \notin ToSet(reported)}])]
  /\ UNCHANGED <<latest, faults, acts, undisturbed>>

\* in the order of the report
CreateFault(i) ==
  /\ ingests[i].at = "write"
  /\ \E k \in ingests[i].todo :
       /\ \A m \in ingests[i].todo : k <= m
       /\ faults' = Append(faults, [code |-> ingests[i].report.faults[k], status |-> "OPEN",
                                    by |-> i, reopened |-> FALSE])
       /\ ingests' = [ingests EXCEPT ![i] = AtWrite([@ EXCEPT !.todo = ingests[i].todo \ {k}])]
  /\ UNCHANGED <<latest, acts, undisturbed>>

\* mutant of ResolveFault: the first row that is gone ends the loop
ResolveOneFault(i) ==
  /\ ingests[i].at = "write" /\ ingests[i].todo = {}
  /\ \E n \in ingests[i].gone :
       /\ faults' = [faults EXCEPT ![n].status = "RESOLVED"]
       /\ ingests' = [ingests EXCEPT ![i] = AtWrite([@ EXCEPT !.gone = {}])]
  /\ UNCHANGED <<latest, acts, undisturbed>>

\* the loop over the rows that were read, in any order
ResolveFault(i) ==
  /\ ingests[i].at = "write" /\ ingests[i].todo = {}
  /\ \E n \in ingests[i].gone :
       /\ faults' = [faults EXCEPT ![n].status = "RESOLVED"]
       /\ ingests' = [ingests EXCEPT ![i] = AtWrite([@ EXCEPT !.gone = ingests[i].gone \ {n}])]
  /\ UNCHANGED <<latest, acts, undisturbed>>

\* a call fails or the process dies: what was written stays
Die(i) ==
  /\ i \in Running
  /\ ingests' = [ingests EXCEPT ![i] = [@ EXCEPT !.at = "dead", !.todo = {}, !.gone = {}]]
  /\ UNCHANGED <<latest, faults, acts, undisturbed>>

----------------------------------------------------------------------------
(* Users: a fault is written by id, whatever its status *)

UserWrites(n, status) ==
  /\ acts < MaxActs
  /\ acts' = acts + 1
  /\ faults' = [faults EXCEPT ![n] =
       [@ EXCEPT !.status = status,
                 !.reopened = faults[n].reopened \/ (faults[n].status = "RESOLVED" /\ status # "RESOLVED")]]
  /\ undisturbed' = NoOne
  /\ UNCHANGED <<latest, ingests>>

AcknowledgeFault(n) == UserWrites(n, "ACKNOWLEDGED")
ResolveByUser(n)    == UserWrites(n, "RESOLVED")

Next ==
  \/ \E i \in Ingests :
       \/ ReceiveWebhook(i) \/ Poll(i) \/ ReadStatus(i) \/ PullStatus(i)
       \/ PersistTelemetrySnapshot(i)
       \/ ReadOpenFaults(i) \/ CreateFault(i) \/ ResolveFault(i)
       \/ Die(i)
  \/ \E n \in DOMAIN faults : AcknowledgeFault(n) \/ ResolveByUser(n)

Spec == Init /\ [][Next]_vars

----------------------------------------------------------------------------
(* Properties *)

\* Neither was over when the other began.
Overlap(i, j) == i \notin ingests[j].after /\ j \notin ingests[i].after

Repeats(s) == \E m, n \in DOMAIN s : m # n /\ s[m] = s[n]

\* A code has one row that is not resolved, unless two ingests overlapped, a report
\* named the code twice, or a user acknowledged a fault that was resolved.
OneActiveFaultPerCode ==
  \A m, n \in Active : faults[m].code = faults[n].code /\ m # n =>
    LET x == faults[m]  y == faults[n]
    IN  \/ x.by # y.by /\ Overlap(x.by, y.by)
        \/ x.by = y.by /\ Repeats(ingests[x.by].report.faults)
        \/ x.reopened \/ y.reopened

\* Whatever others left behind, died over or overlapped in, an ingest that syncs
\* faults and has nothing beside it leaves exactly its own codes unresolved.
SyncAloneSettles ==
  \A i \in Ingests :
    undisturbed = i /\ ingests[i].at = "done" /\ ingests[i].kind # "pull" =>
      {faults[n].code : n \in Active} = ToSet(ingests[i].report.faults)
=============================================================================
