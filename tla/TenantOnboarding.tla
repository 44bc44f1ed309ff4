--------------------------- MODULE TenantOnboarding ---------------------------
(***************************************************************************)
(* One tenant application in applications.service.ts, from its submission  *)
(* over review, choice of a tier, and payment or quote to the organization *)
(* it is given.                                                            *)
(*                                                                         *)
(* Every call reads the row, decides and later writes it by its id: no     *)
(* transaction, and the second read of activate's "forUpdate" locks        *)
(* nothing.  Prices are left out.  The names of the row are those it has   *)
(* once a tier is chosen: updateOwn and a review that confirms others      *)
(* write them before, and only an activation reads them.                   *)
(***************************************************************************)
EXTENDS Naturals, Sequences

CONSTANTS
  Calls,             \* calls of the endpoints under way at a time
  Tiers, Custom,     \* tiers on sale, and those that are quoted for
  PaymentKeys,       \* keys that a tier's payments are made under: the caller's, or one with
                     \* the number of the tier's price version but not the tier
  Subdomains, Domains,  \* what an organization may be named
  MaxOrganizations

VARIABLES
  app,       \* the row of tenant_applications
  claim,     \* the names in the row, confirmed or preferred
  intents,   \* payment intents by idempotency key
  orgs,      \* organizations provisioned for it
  members,   \* those in which the applicant has a membership
  home,      \* users.organizationId of the applicant
  calls,     \* what each call is at
  unusual    \* history: what excuses an outcome

vars == <<app, claim, intents, orgs, members, home, calls, unusual>>

Nothing == "nothing"
Foreign == "foreign"   \* the key of a settled intent, of any user, for something else

Reviewable == {"SUBMITTED", "UNDER_REVIEW"}
Activatable == {"PAYMENT_CONFIRMED_PENDING_ACTIVATION", "QUOTE_ACCEPTED_PENDING_ACTIVATION"}
Stages == Reviewable \cup Activatable \cup
  {"APPROVED_PENDING_TIER", "TIER_CONFIRMED_PENDING_PAYMENT", "QUOTE_PENDING", "REJECTED", "COMPLETED"}

Keys == (UNION {PaymentKeys[t] : t \in Tiers}) \cup {Foreign}

OnboardingAssumption ==
  /\ MaxOrganizations \in Nat
  /\ Nothing \notin Tiers
  \* an applicant may give the foreign key too: FindOrCreateIntent
  /\ \A t \in Tiers : {Nothing, Foreign} \cap PaymentKeys[t] = {}
  /\ Subdomains \cap Domains = {}

\* at most one subdomain and one domain
AtMostOne(S) == {{}} \cup {{x} : x \in S}
Names == {s \cup d : s \in AtMostOne(Subdomains), d \in AtMostOne(Domains)}

Applications ==
  [stage : Stages, tier : Tiers \cup {Nothing}, intent : Keys \cup {Nothing},
   approved : BOOLEAN, org : 0..MaxOrganizations]

Idle == [at |-> "idle", stage |-> Nothing, tier |-> Nothing, intent |-> Nothing, names |-> {},
         org |-> 0, stale |-> FALSE]

TypeOK ==
  /\ app \in Applications
  /\ claim \subseteq Subdomains \cup Domains
  /\ DOMAIN intents \subseteq Keys
  /\ \A k \in DOMAIN intents :
       intents[k] \in [tier : Tiers \cup {Nothing}, status : {"PENDING", "SETTLED", "FAILED"}, settled : BOOLEAN]
  /\ orgs \in Seq([tier : Tiers, paid : BOOLEAN, names : SUBSET (Subdomains \cup Domains)]) /\ Len(orgs) <= MaxOrganizations
  /\ members \subseteq DOMAIN orgs /\ home \in {0} \cup DOMAIN orgs
  /\ \A c \in Calls :
       \/ calls[c] = Idle
       \/ /\ calls[c].at \in {"stage", "tier", "pay", "sync", "link", "provision", "join", "move", "complete"}
          /\ calls[c].stage \in Stages
          /\ calls[c].tier \in Tiers \cup {Nothing} /\ calls[c].intent \in Keys \cup {Nothing}
          /\ calls[c].names \subseteq Subdomains \cup Domains
          /\ calls[c].org \in 0..Len(orgs) /\ calls[c].stale \in BOOLEAN
  /\ unusual \subseteq {"race", "foreign", "reopened", "died"}

Init ==
  /\ app = [stage |-> "SUBMITTED", tier |-> Nothing, intent |-> Nothing, approved |-> FALSE, org |-> 0]
  /\ claim \in Names
  /\ intents = [k \in {Foreign} |-> [tier |-> Nothing, status |-> "SETTLED", settled |-> TRUE]]
  /\ orgs = << >> /\ members = {} /\ home = 0
  /\ calls = [c \in Calls |-> Idle]
  /\ unusual = {}

----------------------------------------------------------------------------
(* Reading and writing the row *)

\* bound: after a race, which excuses what the properties forbid, no call is begun
Read(c, call) ==
  /\ calls[c] = Idle
  /\ "race" \notin unusual
  /\ calls' = [calls EXCEPT ![c] = call]
  /\ UNCHANGED <<app, claim, intents, orgs, members, home>>

\* a call remembers the stage it writes, or for an activation read, a tier, an intent and
\* names; and as history that the row was written since, and how many organizations there were
At(at, stage, tier, intent, names) ==
  [at |-> at, stage |-> stage, tier |-> tier, intent |-> intent, names |-> names, stale |-> FALSE,
   org |-> IF at = "provision" THEN Len(orgs) ELSE 0]

Race(c) == IF calls[c].stale THEN {"race"} ELSE {}

Write(c, row) ==
  /\ app' = row
  /\ calls' = [d \in Calls |-> IF d = c \/ calls[d] = Idle THEN Idle ELSE [calls[d] EXCEPT !.stale = TRUE]]
  /\ UNCHANGED <<intents, orgs, members, home>>

----------------------------------------------------------------------------
(* review, confirmTier, acceptEnterpriseQuote *)

\* the names that an approval confirms are no organization's of this application yet
ReadForReview(c) ==
  /\ app.stage \in Reviewable
  /\ \E next \in {"UNDER_REVIEW", "REJECTED", "APPROVED_PENDING_TIER"} :
       Read(c, At("stage", next, Nothing, Nothing, {}))
  /\ UNCHANGED unusual

ReadForQuote(c) ==
  /\ app.stage = "QUOTE_PENDING"
  /\ Read(c, At("stage", "QUOTE_ACCEPTED_PENDING_ACTIVATION", Nothing, Nothing, {}))
  /\ UNCHANGED unusual

\* approvedAt is set by an approval and cleared by a rejection
WriteStage(c) ==
  /\ calls[c].at = "stage"
  /\ Write(c, [app EXCEPT !.stage = calls[c].stage,
       !.approved = CASE calls[c].stage = "APPROVED_PENDING_TIER" -> TRUE
                      [] calls[c].stage = "REJECTED" -> FALSE
                      [] OTHER -> @])
  /\ unusual' = unusual \cup Race(c)
  /\ UNCHANGED claim

ReadForTier(c) ==
  /\ app.stage = "APPROVED_PENDING_TIER"
  /\ \E t \in Tiers :
       Read(c, At("tier", IF t \in Custom THEN "QUOTE_PENDING" ELSE "TIER_CONFIRMED_PENDING_PAYMENT",
                  t, Nothing, {}))
  /\ UNCHANGED unusual

ConfirmTier(c) ==
  /\ calls[c].at = "tier"
  /\ Write(c, [app EXCEPT !.tier = calls[c].tier, !.intent = Nothing, !.stage = calls[c].stage])
  /\ unusual' = unusual \cup Race(c)
  /\ UNCHANGED claim

----------------------------------------------------------------------------
(* createPaymentIntent, syncPaymentStatus *)

\* no payment for what was not priced
ReadForPayment(c) ==
  /\ app.stage = "TIER_CONFIRMED_PENDING_PAYMENT"
  /\ app.tier \in Tiers \ Custom
  /\ Read(c, At("pay", app.stage, app.tier, app.intent, {}))
  /\ UNCHANGED unusual

\* mutant of StageFor: a payment that came to an end is taken for a settled one
StageForFinal(intent) ==
  IF intent.status # "PENDING" THEN "PAYMENT_CONFIRMED_PENDING_ACTIVATION"
  ELSE "TIER_CONFIRMED_PENDING_PAYMENT"

StageFor(intent) ==
  IF intent.status = "SETTLED" THEN "PAYMENT_CONFIRMED_PENDING_ACTIVATION"
  ELSE "TIER_CONFIRMED_PENDING_PAYMENT"

GoLink(c, key, intent) ==
  calls' = [calls EXCEPT ![c].at = "link", ![c].tier = Nothing, ![c].intent = key, ![c].stage = StageFor(intent)]

\* history: a payment for something else is taken for the application's
Taken(key) == IF key = Foreign THEN {"foreign"} ELSE {}

\* The intent of the row is returned unless it failed; otherwise commerce's
\* createPaymentIntent finds the one with the key, failed or not, whose and for what it may
\* be, or creates it.
FindOrCreateIntent(c) ==
  /\ calls[c].at = "pay"
  /\ LET known == calls[c].intent
     IN  IF known # Nothing /\ intents[known].status # "FAILED"
         THEN calls' = [calls EXCEPT ![c] = Idle] /\ UNCHANGED <<intents, unusual>>
         ELSE \E key \in PaymentKeys[calls[c].tier] \cup {Foreign} :
                /\ unusual' = unusual \cup Taken(key)
                /\ IF key \in DOMAIN intents
                   THEN GoLink(c, key, intents[key]) /\ UNCHANGED intents
                   ELSE LET made == [tier |-> calls[c].tier, status |-> "PENDING", settled |-> FALSE]
                        IN  /\ intents' = [k \in DOMAIN intents \cup {key} |->
                                              IF k = key THEN made ELSE intents[k]]
                            /\ GoLink(c, key, made)
  /\ UNCHANGED <<app, claim, orgs, members, home>>

\* syncPaymentStatus looks at no stage.  The caller may name an intent.
ReadForSync(c) ==
  \E key \in {app.intent, Foreign} \ {Nothing} :
    /\ Read(c, At("sync", app.stage, Nothing, key, {}))
    /\ unusual' = unusual \cup Taken(key)

\* its status is read, or reconciled first: SettleIntent just before
ReadIntent(c) ==
  /\ calls[c].at = "sync"
  /\ GoLink(c, calls[c].intent, intents[calls[c].intent])
  /\ UNCHANGED <<app, claim, intents, orgs, members, home, unusual>>

\* the last statement of both
LinkIntent(c) ==
  /\ calls[c].at = "link"
  /\ Write(c, [app EXCEPT !.intent = calls[c].intent, !.stage = calls[c].stage])
  /\ unusual' = unusual \cup Race(c) \cup (IF app.stage = "COMPLETED" THEN {"reopened"} ELSE {})
  /\ UNCHANGED claim

\* webhooks and operators: a final status may follow another
SettleIntent(key) ==
  /\ key # Foreign
  /\ \E status \in {"SETTLED", "FAILED"} :
       /\ status # intents[key].status
       /\ intents' = [intents EXCEPT ![key].status = status, ![key].settled = @ \/ status = "SETTLED"]
  /\ UNCHANGED <<app, claim, orgs, members, home, calls, unusual>>

----------------------------------------------------------------------------
(* activate: five writes *)

\* the names the caller confirms, and of a kind that it does not the row's
Confirmed(own) ==
  own \cup {n \in claim : own \cap (IF n \in Subdomains THEN Subdomains ELSE Domains) = {}}

\* assertDomainAvailability, which does not count the application's own organization
Available(names) == \A o \in DOMAIN orgs \ {app.org} : orgs[o].names \cap names = {}

ReadForActivation(c) ==
  /\ app.stage \in Activatable
  /\ app.tier # Nothing
  /\ \E own \in Names :
       /\ Available(Confirmed(own))
       /\ Read(c, At("provision", app.stage, app.tier, Nothing, Confirmed(own)))
  /\ UNCHANGED unusual

Activating(c) == calls[c].at \in {"join", "move", "complete"}

\* createTenant; the subdomain is unique, the primary domain is not
Provision(c) ==
  /\ calls[c].at = "provision"
  /\ \A o \in DOMAIN orgs : orgs[o].names \cap calls[c].names \cap Subdomains = {}
  /\ Len(orgs) < MaxOrganizations
  /\ orgs' = Append(orgs, [tier |-> calls[c].tier,
                           paid |-> calls[c].stage = "PAYMENT_CONFIRMED_PENDING_ACTIVATION",
                           names |-> calls[c].names])
  /\ calls' = [calls EXCEPT ![c].at = "join", ![c].org = Len(orgs) + 1]
  \* history: another activation has provisioned since this one read, or is not through
  /\ unusual' = unusual \cup Race(c) \cup
       (IF calls[c].org # Len(orgs) \/ \E d \in Calls \ {c} : Activating(d) THEN {"race"} ELSE {})
  /\ UNCHANGED <<app, claim, intents, members, home>>

\* assignMembership
Join(c) ==
  /\ calls[c].at = "join"
  /\ members' = members \cup {calls[c].org}
  /\ calls' = [calls EXCEPT ![c].at = "move"]
  /\ UNCHANGED <<app, claim, intents, orgs, home, unusual>>

MoveApplicant(c) ==
  /\ calls[c].at = "move"
  /\ home' = calls[c].org
  /\ calls' = [calls EXCEPT ![c].at = "complete"]
  /\ UNCHANGED <<app, claim, intents, orgs, members, unusual>>

Complete(c) ==
  /\ calls[c].at = "complete"
  /\ Write(c, [app EXCEPT !.stage = "COMPLETED", !.org = calls[c].org])
  /\ claim' = calls[c].names
  /\ unusual' = unusual \cup Race(c)

----------------------------------------------------------------------------
(* A statement of the call fails, or its process dies; before its first     *)
(* write it might as well not have begun                                    *)
Die(c) ==
  /\ calls[c].at = "link" \/ Activating(c)
  /\ calls' = [calls EXCEPT ![c] = Idle]
  /\ unusual' = IF Activating(c) THEN unusual \cup {"died"} ELSE unusual
  /\ UNCHANGED <<app, claim, intents, orgs, members, home>>

Next ==
  \/ \E c \in Calls :
       \/ ReadForReview(c) \/ ReadForQuote(c) \/ WriteStage(c) \/ ReadForTier(c) \/ ConfirmTier(c)
       \/ ReadForPayment(c) \/ FindOrCreateIntent(c)
       \/ ReadForSync(c) \/ ReadIntent(c) \/ LinkIntent(c)
       \/ ReadForActivation(c) \/ Provision(c) \/ Join(c) \/ MoveApplicant(c) \/ Complete(c)
       \/ Die(c)
  \/ \E key \in DOMAIN intents : SettleIntent(key)

Spec == Init /\ [][Next]_vars

----------------------------------------------------------------------------
(* Properties *)

\* An application is given a second organization only if calls raced, a payment's call
\* reopened it, or an activation stopped half way and another one confirmed other names;
\* and never one with the same subdomain.
OneOrganization ==
  \A o, p \in DOMAIN orgs :
    o # p =>
      /\ orgs[o].names \cap orgs[p].names \cap Subdomains = {}
      /\ \/ unusual \cap {"race", "reopened"} # {}
         \/ "died" \in unusual /\ orgs[o].names \cap orgs[p].names = {}

\* An organization whose tier was to be paid has the tier that was paid for, and one that
\* was quoted for has such a tier, unless calls raced or the caller named
\* another payment, by its key or by its id.
PaidForItsTier ==
  unusual \cap {"race", "foreign"} = {} =>
    \A o \in DOMAIN orgs :
      IF orgs[o].paid THEN \E k \in DOMAIN intents : intents[k].tier = orgs[o].tier /\ intents[k].settled
      ELSE orgs[o].tier \in Custom

\* Only an approved application is provisioned, and when it is completed its applicant is
\* a member and at home in the organization, unless calls raced.
ProvisionedAsApproved ==
  /\ app.stage = "COMPLETED" => app.org \in members
  /\ "race" \notin unusual =>
       /\ orgs # << >> => app.approved
       /\ app.stage = "COMPLETED" => home = app.org
=============================================================================
