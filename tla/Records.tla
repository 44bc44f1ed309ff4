------------------------------ MODULE Records ------------------------------
(***************************************************************************)
(* The components that keep their records in the database and share        *)
(* nothing with each other, composed.  A behaviour is one component's, the *)
(* others stay as they are: each component is explored on its own, from    *)
(* its own initial state, and what is proved of the composition is proved  *)
(* of each.                                                                *)
(***************************************************************************)
EXTENDS Naturals

CONSTANTS
  Calls,         \* the calls of a component that is not named below
  Users, WalletKeys, Amounts, Opening,  \* of the wallets
  Editors,       \* who edit an organization's branding or the prices of a tier
  Hosts, Reports, MaxActs,        \* of the vehicle telemetry
  Groups, Replicas,               \* of the load groups
  Earlier, PlanScopes,            \* of the plans and schedules
  Stations,      \* of the team
  Hooks, Dispatches, Timers, MaxRetries, Batch, MaxCycles,   \* of the webhooks
  Applying, Tiers, Custom, PaymentKeys, Subdomains, Domains, MaxOrganizations,  \* of the onboarding
  StoredRows, Sites  \* of the payment methods and the tariff calendars

VARIABLES
  part,  \* the component of this behaviour
  balance, locked, ledger, intents, calls,
  live, revisions, written, edits,
  latest, faults, ingests, acts, undisturbed,
  groups, locks, groupCalls,
  plans, schedules, planning,
  versions, pricing,
  user, member, invitations, assigned, attendant, unsynced, teamCalls,
  hooks, deliveries, senders, cycles,
  app, claim, payments, orgs, members, home, onboarding, unusual,
  methods, changes,
  calendars, tariffing, served,
  point, listed, identifying,
  provider, relationships, documents, vetting

Wallet == INSTANCE WalletLedger WITH Keys <- WalletKeys

Branding == INSTANCE BrandingRevisions

Telemetry == INSTANCE VehicleTelemetry WITH Ingests <- Calls, Replicas <- Hosts

LoadGroups == INSTANCE EnergyGroups WITH calls <- groupCalls

Planning == INSTANCE EnergyPlans WITH Planners <- Calls, Scopes <- PlanScopes

Pricing == INSTANCE TierPricing WITH Clerks <- Editors

Team == INSTANCE TeamMembership WITH calls <- teamCalls

\* Deliveries of several webhooks compete for the batch of one process, or the timers of
\* several processes for the delivery of one webhook.
Webhooks(H, R, N) == INSTANCE WebhookDelivery WITH Hooks <- H, Replicas <- R, MaxCycles <- N

Onboarding == INSTANCE TenantOnboarding WITH
  Calls <- Applying, intents <- payments, calls <- onboarding

Methods == INSTANCE PaymentMethods WITH Stored <- StoredRows

Tariffs == INSTANCE TariffCalendars WITH Stored <- StoredRows

Identities == INSTANCE ChargePointIdentity

Providers == INSTANCE ProviderRelationships

ASSUME RecordsAssumption ==
  /\ Wallet!WalletAssumption /\ Branding!BrandingAssumption /\ Pricing!PricingAssumption
  /\ Methods!MethodsAssumption /\ Planning!PlansAssumption
  /\ Identities!IdentityAssumption /\ Providers!ProvidersAssumption
  /\ Onboarding!OnboardingAssumption /\ Telemetry!TelemetryAssumption
  /\ Webhooks(Hooks, {"process"}, 1)!DeliveryAssumption
  /\ Webhooks({"hook"}, Timers, MaxCycles)!DeliveryAssumption

\* the variables of the other components
Absent == "absent"

Init ==
  /\ part \in {"wallet", "branding", "telemetry", "groups", "plans", "tiers", "team",
              "webhooks", "timers", "onboarding", "methods", "tariffs", "identity", "providers"}
  /\ IF part = "wallet" THEN Wallet!Init
     ELSE /\ balance = Absent /\ locked = Absent /\ ledger = Absent /\ intents = Absent
          /\ calls = Absent
  /\ IF part = "branding" THEN Branding!Init
     ELSE /\ live = Absent /\ revisions = Absent /\ written = Absent /\ edits = Absent
  /\ IF part = "telemetry" THEN Telemetry!Init
     ELSE /\ latest = Absent /\ faults = Absent /\ ingests = Absent /\ acts = Absent
          /\ undisturbed = Absent
  /\ IF part = "groups" THEN LoadGroups!Init
     ELSE /\ groups = Absent /\ locks = Absent /\ groupCalls = Absent
  /\ IF part = "plans" THEN Planning!Init
     ELSE /\ plans = Absent /\ schedules = Absent /\ planning = Absent
  /\ IF part = "tiers" THEN Pricing!Init
     ELSE /\ versions = Absent /\ pricing = Absent
  /\ IF part = "team" THEN Team!Init
     ELSE /\ user = Absent /\ member = Absent /\ invitations = Absent /\ assigned = Absent
          /\ attendant = Absent /\ unsynced = Absent /\ teamCalls = Absent
  /\ IF part = "webhooks" THEN Webhooks(Hooks, {"process"}, 1)!Init
     ELSE IF part = "timers" THEN Webhooks({"hook"}, Timers, MaxCycles)!Init
     ELSE /\ hooks = Absent /\ deliveries = Absent /\ senders = Absent /\ cycles = Absent
  /\ IF part = "onboarding" THEN Onboarding!Init
     ELSE /\ app = Absent /\ claim = Absent /\ payments = Absent /\ orgs = Absent
          /\ members = Absent /\ home = Absent /\ onboarding = Absent /\ unusual = Absent
  /\ IF part = "methods" THEN Methods!Init ELSE methods = Absent /\ changes = Absent
  /\ IF part = "tariffs" THEN Tariffs!Init
     ELSE calendars = Absent /\ tariffing = Absent /\ served = Absent
  /\ IF part = "identity" THEN Identities!Init
     ELSE point = Absent /\ listed = Absent /\ identifying = Absent
  /\ IF part = "providers" THEN Providers!Init
     ELSE /\ provider = Absent /\ relationships = Absent /\ documents = Absent /\ vetting = Absent

Next ==
  /\ UNCHANGED part
  /\ IF part = "wallet" THEN Wallet!Next ELSE UNCHANGED <<balance, locked, ledger, intents, calls>>
  /\ IF part = "branding" THEN Branding!Next ELSE UNCHANGED <<live, revisions, written, edits>>
  /\ IF part = "telemetry" THEN Telemetry!Next
     ELSE UNCHANGED <<latest, faults, ingests, acts, undisturbed>>
  /\ IF part = "groups" THEN LoadGroups!Next ELSE UNCHANGED <<groups, locks, groupCalls>>
  /\ IF part = "plans" THEN Planning!Next ELSE UNCHANGED <<plans, schedules, planning>>
  /\ IF part = "tiers" THEN Pricing!Next ELSE UNCHANGED <<versions, pricing>>
  /\ IF part = "team" THEN Team!Next
     ELSE UNCHANGED <<user, member, invitations, assigned, attendant, unsynced, teamCalls>>
  /\ IF part = "webhooks" THEN Webhooks(Hooks, {"process"}, 1)!Next
     ELSE IF part = "timers" THEN Webhooks({"hook"}, Timers, MaxCycles)!Next
     ELSE UNCHANGED <<hooks, deliveries, senders, cycles>>
  /\ IF part = "onboarding" THEN Onboarding!Next
     ELSE UNCHANGED <<app, claim, payments, orgs, members, home, onboarding, unusual>>
  /\ IF part = "methods" THEN Methods!Next ELSE UNCHANGED <<methods, changes>>
  /\ IF part = "tariffs" THEN Tariffs!Next ELSE UNCHANGED <<calendars, tariffing, served>>
  /\ IF part = "identity" THEN Identities!Next ELSE UNCHANGED <<point, listed, identifying>>
  /\ IF part = "providers" THEN Providers!Next
     ELSE UNCHANGED <<provider, relationships, documents, vetting>>

vars == <<part,
  balance, locked, ledger, intents, calls, live, revisions, written, edits,
  latest, faults, ingests, acts, undisturbed, groups, locks, groupCalls,
  plans, schedules, planning, versions, pricing,
  user, member, invitations, assigned, attendant, unsynced, teamCalls,
  hooks, deliveries, senders, cycles,
  app, claim, payments, orgs, members, home, onboarding, unusual,
  methods, changes, calendars, tariffing, served, point, listed, identifying,
  provider, relationships, documents, vetting>>

Spec == Init /\ [][Next]_vars

----------------------------------------------------------------------------
(* Properties, each stated in its component's module *)

\* The shapes of all rows and calls.
TypeOK ==
  /\ part = "wallet" => Wallet!TypeOK
  /\ part = "branding" => Branding!TypeOK
  /\ part = "telemetry" => Telemetry!TypeOK
  /\ part = "groups" => LoadGroups!TypeOK
  /\ part = "plans" => Planning!TypeOK
  /\ part = "tiers" => Pricing!TypeOK
  /\ part = "team" => Team!TypeOK
  /\ part = "webhooks" => Webhooks(Hooks, {"process"}, 1)!TypeOK
  /\ part = "timers" => Webhooks({"hook"}, Timers, MaxCycles)!TypeOK
  /\ part = "onboarding" => Onboarding!TypeOK
  /\ part = "methods" => Methods!TypeOK
  /\ part = "tariffs" => Tariffs!TypeOK
  /\ part = "identity" => Identities!TypeOK
  /\ part = "providers" => Providers!TypeOK

\* The balance of a wallet is what it began with and its POSTED rows.
LedgerExplainsBalance == part = "wallet" => Wallet!LedgerExplainsBalance
\* An idempotency key moves money once, unless the calls overlapped.
ChargedOncePerKey == part = "wallet" => Wallet!ChargedOncePerKey
\* A wallet is overdrawn only by debits that overlapped.
OverdrawnByOverlapOnly == part = "wallet" => Wallet!OverdrawnByOverlapOnly

\* What is live is the branding published last, or a save raced its publication; and a
\* published charge point keeps the identity it was published with, confirmed and not
\* overwritten by a boot, unless what changed it overlapped.
PublishedStands ==
  /\ part = "branding" => Branding!LiveIsLastPublished
  /\ part = "identity" =>
       /\ Identities!LockedWhilePublished
       /\ Identities!PublishedIsConfirmed
       /\ Identities!BootKeepsConfirmed

\* A fault code has one unresolved row, unless ingests overlapped, a report named it
\* twice or a user reopened a fault; and an ingest with nothing beside it leaves exactly
\* its own codes unresolved.
FaultsFollowReports ==
  part = "telemetry" => Telemetry!OneActiveFaultPerCode /\ Telemetry!SyncAloneSettles

\* A recalculated group's decision is made from what the group is, unless a call on it in
\* another process overlapped.
DecisionIsCurrent == part = "groups" => LoadGroups!DecisionIsCurrent

\* What replaces the one in force leaves one: a station's active load group, a scope's
\* active schedule, a tier's active version, an organization's draft of its branding,
\* a member's open invitation and assignment to a station, a user's default payment
\* method, a site's active calendar, a provider's open relationship.  The exceptions,
\* calls that overlap above all, are those that each module names.
OneInForce ==
  /\ part = "groups" => LoadGroups!OneActiveGroup
  /\ part = "plans" => Planning!OneActiveSchedule
  /\ part = "tiers" => Pricing!OneActiveVersion
  /\ part = "branding" => Branding!OneDraft
  /\ part = "team" => Team!OneOpenInvitation /\ Team!OneAssignment
  /\ part = "methods" => Methods!OneDefault /\ Methods!RevokedIsNoDefault
  /\ part = "tariffs" => Tariffs!OneActiveCalendar /\ Tariffs!ActiveIsKept
  /\ part = "providers" => Providers!OneOpenRelationship

\* Whom an invitation made INVITED can join with it until it expires, unless the call
\* that revoked it has not created its own or died before.
InvitedCanJoin == part = "team" => Team!InvitedCanJoin
\* The attendant's stations are those the member is assigned to as an attendant, unless
\* a change of role took assignments away.
AttendantFollows == part = "team" => Team!AttendantFollows

\* A delivery that one sender at a time held, none of whose answers was lost, is taken
\* once, sent maxRetries + 1 times at most, and its row says what was done.
DeliveryIsAsRecorded ==
  /\ part = "webhooks" => Webhooks(Hooks, {"process"}, 1)!DeliveryIsAsRecorded
  /\ part = "timers" => Webhooks({"hook"}, Timers, MaxCycles)!DeliveryIsAsRecorded

\* An application is given one organization, only once approved, and of the tier that was
\* paid or quoted for, unless calls raced, the caller named another payment, a payment's
\* call reopened the application, or an activation died.  A provider and its relationships are
\* approved with their documents, a relationship is an approved provider's, and what was
\* terminated stays so, unless calls or changes of documents overlapped.
GrantedAsDecided ==
  /\ part = "onboarding" =>
       Onboarding!OneOrganization /\ Onboarding!PaidForItsTier /\ Onboarding!ProvisionedAsApproved
  /\ part = "providers" =>
       Providers!ApprovedWithDocuments /\ Providers!RelatedIsApproved /\ Providers!TerminatedStays
=============================================================================
