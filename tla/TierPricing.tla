----------------------------- MODULE TierPricing -----------------------------
(***************************************************************************)
(* The price versions of one platform tier in platform-tier-pricing        *)
(* .service.ts: a draft takes the next version number, publishing makes a  *)
(* version the active one and archives the one before.  Queries are steps  *)
(* of their own (READ COMMITTED); the prices themselves are left out.      *)
(***************************************************************************)
EXTENDS Naturals, Sequences, FiniteSetsExt

CONSTANT Clerks  \* calls of the endpoints

VARIABLES
  versions,  \* platform_tier_pricing_versions: status and publisher by version number
  pricing    \* what each call is at

vars == <<versions, pricing>>

NoOne == "none"

PricingAssumption == NoOne \notin Clerks

NoPricing == [at |-> "idle", version |-> 0, seen |-> {}, after |-> {}]

TypeOK ==
  \* version numbers have no gaps
  /\ versions \in Seq([status : {"DRAFT", "ACTIVE", "ARCHIVED"}, publisher : Clerks \cup {NoOne}])
  /\ \A v \in DOMAIN versions : (versions[v].publisher = NoOne) = (versions[v].status = "DRAFT")
  /\ \A c \in Clerks : /\ pricing[c].at \in {"idle", "draft", "see", "commit", "done"}
                       /\ pricing[c].version \in Nat

Init ==
  /\ versions = << >>
  /\ pricing = [c \in Clerks |-> NoPricing]

Begin(c, at, version) ==
  /\ pricing[c].at = "idle"
  /\ pricing' = [pricing EXCEPT ![c] =
       [NoPricing EXCEPT !.at = at, !.version = version,
                         \* history: the calls that were done when this one began
                         !.after = {d \in Clerks : pricing[d].at = "done"}]]
  /\ UNCHANGED versions

Goto(c, at) == pricing' = [pricing EXCEPT ![c].at = at]

\* createDraft reads the latest version ...
ReadLatestVersion(c) == Begin(c, "draft", Max({0} \cup DOMAIN versions) + 1)

\* ... and inserts the next one, which the unique index refuses if it is taken.
CreateDraft(c) ==
  /\ pricing[c].at = "draft"
  /\ versions' = [v \in DOMAIN versions \cup {pricing[c].version} |->
       IF v \in DOMAIN versions THEN versions[v] ELSE [status |-> "DRAFT", publisher |-> NoOne]]
  /\ Goto(c, "done")

\* publishVersion finds its target; a draft without prices is refused here
FindTarget(c) == \E v \in DOMAIN versions : Begin(c, "see", v)

\* updateMany decides on the versions that are active when it starts ...
SeeActiveVersions(c) ==
  /\ pricing[c].at = "see"
  /\ pricing' = [pricing EXCEPT ![c].at = "commit",
       ![c].seen = {v \in DOMAIN versions : versions[v].status = "ACTIVE"} \ {pricing[c].version}]
  /\ UNCHANGED versions

\* mutant of PublishVersion: only versions before the published one are archived
PublishOverOlder(c) ==
  /\ pricing[c].at = "commit"
  /\ versions' = [v \in DOMAIN versions |->
       CASE v = pricing[c].version -> [status |-> "ACTIVE", publisher |-> c]
         [] v \in pricing[c].seen /\ v < pricing[c].version -> [versions[v] EXCEPT !.status = "ARCHIVED"]
         [] OTHER -> versions[v]]
  /\ Goto(c, "done")

\* ... and archives them; an archived version may be published again.
PublishVersion(c) ==
  /\ pricing[c].at = "commit"
  /\ versions' = [v \in DOMAIN versions |->
       CASE v = pricing[c].version -> [status |-> "ACTIVE", publisher |-> c]
         [] v \in pricing[c].seen -> [versions[v] EXCEPT !.status = "ARCHIVED"]
         [] OTHER -> versions[v]]
  /\ Goto(c, "done")

Next ==
  \E c \in Clerks :
    \/ ReadLatestVersion(c) \/ CreateDraft(c)
    \/ FindTarget(c) \/ SeeActiveVersions(c) \/ PublishVersion(c)

Spec == Init /\ [][Next]_vars

----------------------------------------------------------------------------
(* Properties *)

\* Neither was done when the other began.
Overlap(c, d) == c \notin pricing[d].after /\ d \notin pricing[c].after

\* Two versions of a tier are active only if their publications overlapped and neither
\* saw the other.
OneActiveVersion ==
  \A v, w \in DOMAIN versions :
    versions[v].status = "ACTIVE" /\ versions[w].status = "ACTIVE" /\ v # w =>
      Overlap(versions[v].publisher, versions[w].publisher)
=============================================================================
