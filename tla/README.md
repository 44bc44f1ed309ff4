# Formal models of the EVzone charging backend

TLA+ models of the protocols by which this backend moves commands, bookings,
sessions, amps and money and keeps its records, the TLC runs that check them on
small instances, and TLAPS proofs of what holds for every instance.

    tlasany M.tla                       parse
    tlc -config X.cfg MCM.tla           check (PROJECT.json lists runs and cfgs)
    tlapm CommandOutboxProofs.tla       prove (likewise the other seven *Proofs modules)

`PROJECT.json` lists components, runs, hazards, findings and theorems, and maps
every definition to the source lines it stands for. Paths below are relative
to the repository.

## 1. The system

Two programs share one PostgreSQL database: the API (`apps/api`, NestJS, HTTP plus a
Kafka consumer and timers) and the worker (`apps/worker`, timers plus a Kafka
consumer). Both run in several replicas. Chargers speak through an OCPP
gateway and roaming partners through an OCPI gateway; neither is in the
repository, nor are the payment providers. Inside one process handlers
interleave at every `await`; across processes only the database and Kafka are
shared.

| Component | State it keeps | Operations | What makes it hard | What makes it correct |
|---|---|---|---|---|
| Command enqueueing (`api/.../commands`) | `commands`, `command_outbox`, `command_events` | `enqueueCommand` | three writes in no transaction; look-up of a correlation id before the insert | a command that was promised is queued |
| Outbox worker (`worker/.../command-outbox.worker.ts`) | outbox rows with attempts and lock; circuit breaker in memory | tick: claim, publish, settle, retry, dead-letter | replicas compete; crash or lost acknowledgement between send and write; locks that expire under a slow holder | one holder per row, at-least-once, a copy too many only for a fault, everything settles |
| Dead-letter replay, history cleanup | the same rows | select and requeue; delete old rows | two steps each, beside the workers and each other, re-checking nothing | a replayed dead letter is sent once more and no more, a row nobody replayed is not lost |
| Command event consumer (`worker/.../command-events.consumer.ts`) | `commands.status`, `command_events`, `bookings` | reconcile one event | events late, repeated, out of order; reads without a lock; a failing handler moves on | outcome shown is an outcome reported; booking agrees with it unless the worker overtook it |
| OCPI internal API and callback | the command's JSON payload | request, result, callback | check-then-create; two writers of one JSON value; POST and its record are two steps | one command per call, callback recorded only if received |
| Booking (`api/.../booking`) | booking status and its reservation command | create, check in, cancel, no-show, expire, update, dispatch | every operation reads, tests and writes by id | a closed booking stays closed except by a race |
| Payments (`api/.../payments`) | `payment_intents`, webhook events, credit rows | top-up, webhook, reconcile | repeated, reordered and interrupted webhooks; ids shared by several events | credited once; no event is left behind unless its delivery died |
| Wallets (`api/.../billing/commerce.service.ts`) | balances, ledger, locks, idempotency keys | top-up, debit, refund, transfer, lock | balance and key are read before the transaction | ledger explains balance; a key charges once |
| Payment methods (same file) | `payment_methods` and the default among them | add, edit, revoke, make default | two statements of one transaction, neither locking the user | one default, which is not revoked |
| Charging sessions (`api/.../session`) | one session row | start, update, end, stop, the OCPI service's patch of any field | Kafka redelivery, rebalances, three writers | ended stays ended, last reading is kept, active ends |
| Energy allocation (`api/.../energy-management/energy-management.logic.ts`) | none: a pure function | divide amps, decide commands | integer remainders, caps, deadbands | limit kept, amps conserved, nothing wasted, shared in order |
| Load groups (`energy-management.service.ts`) | groups, memberships, overrides, decisions; a lock in memory | create, activate, configure, recalculate | the lock is one process's; two activations do not see each other | the decision on record is made from the group as it is; one active group |
| Charging schedules (`energy-optimization`, `energy-management`, `vendor-baseline`) | plans, schedules | create, approve, fall back | three services write the same rows | one schedule in force per scope |
| Vehicle telemetry (`api/.../telemetry`, `diagnostics`) | latest row, fault rows | webhook, poll, status read, acknowledge, resolve | every database call on its own, four sources at once, death half-way | one open fault per code; the next sync puts right what was left |
| Tenant branding (`tenant-branding`) | revisions, the live configuration | save, publish, roll back | a draft is read and later updated by id | what is live is what was published last |
| Tier prices (`platform`) | price versions | draft, publish | two publications do not see each other | one active version |
| Tariff calendars (`tariffs`) | calendars | create, update, activate, archive | activation is two statements in no transaction | a site keeps exactly one active calendar |
| Team membership (`auth`) | users, memberships, invitations, assignments, the attendant's copy | invite, accept, activate, change, assign | revoking and creating an invitation are not one transaction; a copy that each writer must keep up | who is invited can join; the copy follows |
| Outgoing webhooks (`webhooks`) | webhooks, deliveries | dispatch, retry timers | nobody claims a delivery | a delivery's row says what was sent and answered |
| Tenant onboarding (`applications`) | application, payment intents, organizations | review, tier, payment, quote, activate | every step reads the stage and writes by id; activation is five writes; callers choose payment keys and names | one organization, approved, of the tier that was paid |
| Charge-point identity (`station`, `ocpi`) | charge point, published locations | boot, edit, confirm, publish, remove | boots and operators write the same fields | locked after publication, confirmed stands |
| Battery-swap providers (`providers`) | provider, relationships, documents | review, request, approve, suspend, terminate, upload, verify | compliance is read query by query and decided on later | approved only with its documents; one open relationship |
| The rest | see `PROJECT.json`, status `not_modelled` | | | |

How they interact: an API call (booking, OCPI request, energy manager, operator)
calls `enqueueCommand`; the worker publishes the row to Kafka; the gateway asks
the charger and publishes events; the consumer writes the command's status, the
booking and the OCPI callback. OCPP transaction events reach the session
service through Kafka. Webhooks and operators settle payment intents, and settlement
credits wallets and moves tenant applications on. A recalculated load group calls the
allocation; a publication to roaming partners freezes a charge point's identity. The
MQTT handlers of the session and billing modules are never bound (their classes are
providers, not controllers, and `main.ts` connects Kafka only), so nothing happens in
them.

## 2. Modules

| Module | Models | Uses |
|---|---|---|
| `CommandDelivery` | what the outbox promises: at-least-once, finished once (abstract) | |
| `CommandOutbox` | the worker, the replay script and the cleanup, step by step | implements `CommandDelivery` |
| `CommandStatus` | status ranks, terminal statuses, event types (`command-status.ts`) | |
| `CommandPipeline` | command from outbox to outcome, with the consumer and the booking | `CommandDelivery` for the worker, `CommandStatus` |
| `BookingLifecycle` | one booking, all its calls, its commands' outcomes | `CommandStatus` |
| `OcpiCommand` | one OCPI request id: endpoint, result, callback | `CommandStatus` |
| `PaymentSettlement` | one wallet top-up through a provider | |
| `WalletLedger` | wallets, ledger rows, keys, the lock | |
| `ChargingSession` | one transaction's events, stop calls and patches | |
| `EnergyAllocation` | `buildEnergyAllocationPlan`, loop by loop | |
| `EnergyGroups` | the load groups of one station and the lock around a recalculation | |
| `EnergyPlans` | plans and schedules of one station | |
| `VehicleTelemetry` | one vehicle's latest reading and its faults | |
| `BrandingRevisions` | one tenant's branding | |
| `TierPricing` | the price versions of one tier | |
| `TariffCalendars` | one tenant's calendars | |
| `TeamMembership` | one person's membership of one organization | |
| `WebhookDelivery` | outgoing webhooks, deliveries and the timers that retry them | |
| `TenantOnboarding` | one tenant application | |
| `PaymentMethods` | one user's payment methods | |
| `ChargePointIdentity` | the identity of the charge point with one OCPP id | |
| `ProviderRelationships` | one provider, one owner and their documents | |
| `*Proofs` | TLAPS proofs about the module of that name: `CommandOutbox`, `CommandPipeline`, `BookingLifecycle`, `OcpiCommand`, `PaymentSettlement` | |
| `ChargingProofs` | TLAPS proofs about `ChargingSession` and `EnergyAllocation` | |
| `Records` | all the modules from `WalletLedger` on that have no run of their own, one beside the other | instances of each |
| `TenantRecordsProofs`, `RecordsProofs` | TLAPS proofs about `Records`: an inductive invariant for every module in it, and the theorems | `Records` |

Every `MC*` module holds the values its runs give the constants; `MCRecords`
does so for `Records`. A
mutant is an operator placed before the definition it would replace and says in its
comment what bug it stands for.

Conventions common to the modules. An `await` that another handler can get in
front of ends a step; a database transaction is one step when its first
statement locks the row it decides on, and a read step and a write step when it
does not (the pool runs in READ COMMITTED, so a query sees what is committed when it
starts, and the writes of a transaction that wait for each other's row locks are one
step, its commit). A process that dies is a handler that returns to idle with its
local variables lost, or a call that takes no further step. Clock readings are kept as
what the comparisons in the code tell apart (a lock is free, held or stale; a
row backs off or not; a booking is overdue or not). A call that is refused at its first
query has done nothing and is not a step, unless something it leaves tells. History variables and
fields are marked as such and restrict no step; most record which calls were over when
another began, so that "the calls overlapped" can be said. Names of statuses, of
operations and, where TLA+ allows, of functions are the source's.

### 2.1 `CommandOutbox`

A row has `outbox`, `attempts`, `lock`, `backoff`; a worker has the program
counter of its tick, the candidates it read (`todo`), the rows it locked
(`batch`) and its copy of the attempt counts (`local`). `FindCandidates` is
`findMany`; `ClaimRow` the `updateMany` that re-tests status and lock, `LoseRow`
its count 0, `ClaimRowLate` a claim of a row whose lock was stale when it was
read; `PublishRequest` and `PublishRejected` the two ends of the send (the broker
may have stored a request whose send rejects); `MarkSent`, `ConfirmVehicle`,
`ScheduleRetry`, `MoveToDeadLetter` and `AnnounceDeadLetter` the transactions and the
message that follow; `SettleFails`, `AbortTick`, `Crash` what may go wrong in
between. A run of the operator's script reads the dead letters (`SelectDeadLetters`) and
requeues them one by one by id, whatever they are by then (`ReplayDeadLetter`); runs may
overlap, and `reopened` counts the rows requeued that were no dead letters. The retention job
reads old settled rows (`FindOldRows`) and deletes them by id (`DeleteOldRows`); a row that
was queued again in between is "Lost", any other "Purged".

### 2.2 `CommandPipeline`

Takes the worker by its promise (`CommandDelivery`, for rows that stay in one worker's hand: no
row is disturbed), so the state of locks and batches is gone, and adds the gateway (external: reports for each copy of a request any event the
contract knows, in any order, and one outcome) and the consumer: `ReadCommand`, then
`Reconcile`, decided on the status that was read; `LoseEvent` is the swallowed error,
`Redeliver` the restart before the offset commit.

### 2.3 `BookingLifecycle`

`ReadBooking` is the first query of any operation with its early return; the
`...Writes` actions are the writes by id. `ReadResult`/`WriteResult` are the OCPI result
endpoint, `Reconcile` the worker's consumer, `SyncBooking` what both do to
the booking. `OutboxWrites` is the outbox worker, which writes a command's status (Sent, Failed,
Queued) at any time and knows of no booking; the order of its writes is `CommandOutbox`'s matter.

### 2.4 `OcpiCommand`

`FindNoDuplicate`, `CreateCommand` and `CreateOutbox` are the endpoint's three database
calls; `CheckDelivered` ... `AnnotateFails` the callback's delivery, whose
annotation reads the payload (`ReadPayload`) and writes it back (`Annotate`).

### 2.5 `PaymentSettlement`

`TopUpBegins`, `ProviderCreates`, `TopUpCreates`: the call and the provider in it.
`ReceiveWebhook`, `RecordWebhook`, `DismissWebhook`, `ApplyWebhook`, `MarkEventStatus`:
the webhook's database steps. `EventId` gives each event the id its row is kept under,
which some providers' events share. `Reconcile` is the operator's. CANCELED and
EXPIRED take the same path as FAILED and are one value.

### 2.6 `WalletLedger`, `PaymentMethods`

A wallet call reads (`ReadWallet`, `ReadTarget`), looks its key up (`FindDuplicate`), and posts
in one transaction (`Post...`). A retry is another call with the same key. The methods'
transactions first take the default from those that have it, then commit.

### 2.7 `ChargingSession`

The log of one transaction's events is delivered in order, again from an earlier
offset after `Restart` or `Rebalance`; after a rebalance the old handler goes on.
Handlers read (`ReadSession`) and write (`CreateSession`, `UpdateSession`) in two steps,
as do stop calls. `PatchSession` is the OCPI service's update, whose body is written as it comes: any
subset of status, meterStart and energy with any value; a body with another id or transaction would
make it another session's row and is left out. `patched` remembers the fields patched since they were
last read or written by the events.

### 2.8 `EnergyAllocation`

From any input, the blocks of the function in order: the limit, a band of
members, rounds of the water-filling loop, the decision per member. Telemetry
age, alerts, reason codes and the decision's hash change no amps and are left
out. (Its specification is `AllocationSpec`, so that one module of proofs can extend it and `ChargingSession`.) The service around it stores every membership as not capable
(`energy-management.service.ts:573` passes a literal `false`), so today no group
written through the API has an active member to divide amps among.

### 2.9 `EnergyGroups`, `EnergyPlans`

A group's row is its `version`, which every write of it increases, and the version its
last decision was made from (`decided`); what a decision contains is `EnergyAllocation`'s
matter. Every operation that ends in `recalculateGroup` goes on with `QueueForLock`,
`LoadGroup`, and `RecordDecision` or `HandlerThrows`, under the promise chain that `withLock` keeps
per process and group. `activateGroup` is two steps: the groups its `updateMany` finds active,
and the commit. Schedules are created by three services. `approvePlan`
refuses a plan that fell back; `approveSchedule` takes its schedule, as a fallback, and moves
the plan's state along. The model keeps both.

### 2.10 `VehicleTelemetry`

One ingest persists the latest row (`PersistTelemetrySnapshot`), reads the open faults
(`ReadOpenFaults`) and writes them one by one (`CreateFault`, `ResolveFault`), each a database
call of its own; `Die` stops it anywhere. What starts one is a webhook, the poll of a
process (one at a time in each), a status read that finds the stored flag stale, or the provider's
pull, which never looks at faults.

### 2.11 `BrandingRevisions`, `TierPricing`, `TariffCalendars`

Documents with versions: what replaces the one in force, step by step between the queries of
each transaction, or between the statements where there is none (`TariffCalendars`).
Contents are named by the call that wrote them. `saveDraft` deletes by id the drafts it read as stale,
also one that was published meanwhile; `Discarded` says so, and `LiveIsLastPublished` excuses it.

### 2.12 `TeamMembership`

`inviteUser`'s revocation and creation of invitations (a call may die in between), acceptance,
the login that activates, the managers' changes of role and status, assignments to
stations, and `Sync`, the copy to `attendant_assignments` that most of them end with. The
status EXPIRED that acceptance writes for an invitation out of date is in a transaction that
then throws (`auth-service.service.ts:1372`), so it is never kept, and the model has no such write.

### 2.13 `WebhookDelivery`

`dispatchEvent` creates a delivery for each webhook and attempts it; each process's timer takes
the oldest deliveries that are due and attempts them. An attempt counts itself, sends, and
records the answer in steps of their own. The instance has `part = "webhooks"` (two deliveries
compete for a batch) and `part = "timers"` (two processes for one delivery): one instance of the
module with parameters, `Webhooks(H, R, N)`, used twice.

### 2.14 `TenantOnboarding`

Every endpoint is a read with its tests (`ReadFor...`) and writes by id; `FindOrCreateIntent`
is commerce's look-up by idempotency key, which is the caller's if there is one: the key
`Foreign` stands for that of a settled intent of any user, for anything. Each activation chooses its names
(`Confirmed`: the caller's, and the row's for a kind that is not given). `Provision`, `Join`, `MoveApplicant`, `Complete` are
`activate`'s writes after its reads, between which a call may die.

### 2.15 `ChargePointIdentity`, `ProviderRelationships`

Boots, operators and publications of one charge point; reviews, approvals and documents of
one provider and owner. Every query and every write is on its own. An expired approved document
blocks compliance even beside a newer valid one (`provider-compliance.service.ts`), and nothing
writes PROVIDER_ACCEPTED or ADMIN_APPROVED.

## 3. What is checked

| Run | Instance and bounds | Shows |
|---|---|---|
| `outbox_one_row` | 2 workers, 1 row, 2 attempts, 1 fault, 1 replay, the retention job, with fairness | `PublishedWasSent`, `DuplicatesNeedAFault`, that the worker implements `CommandDelivery` (`DeliversAtLeastOnce`), and `Settles` |
| `outbox_batch` | 2 workers, a charge-point and a vehicle row in one batch, 1 attempt, circuit at its threshold, 2 overlapping replay runs, 2 replays | `Exclusive`, `DuplicatesNeedAFault` |
| `pipeline` | a reservation and its cancellation, 1 copy each, 1 fault of the consumer | `OutcomeIsShown`, `BookingFollowsCommands`, `AcceptedKeepsBooking` |
| `booking` | 2 calls at a time, 2 commands, a success and a refusal, the outbox worker's writes in any order | `ShownFollowsCommand`, `ClosedChangesByRaceOnly` |
| `ocpi` | 2 calls at a time, up to 3 rows, 2 attempts, 2 messages, 1 fault, 2 outcomes | `CallbacksNeedAFault`, `DeliveredWasReceived`, `OneCommandPerCall`, `AcceptedIsQueued` |
| `settlement` | 2 calls at a time, 5 events (3 successes, one of a wrong amount; a failure; one that says nothing and shares its id with a success), 1 death | `CreditedOnce`, `ProcessedStaysCredited`, `LeftByDeathOnly` |
| `session` | 5 events, 2 handlers, 2 calls (stops, patches of any fields, one value), 2 restarts, 1 rebalance, 1 throw, with fairness | `ShowsLastReading`, `EndedIsFinal`, `ActiveEnds` |
| `energy` | 4 members; caps none/0/1/3, 3 priorities, 1..7 amps, both methods; 3 phases, all small limits, loads, buffers and fail-safe amps, an override; previous limits none/0/1/3, deadbands 1 and 2, all modes | `AllocationTypeOK`, `AmpsConserved`, `NothingWasted`, `SharedInOrder`, `LivePhasesFit`, `HeldWithinDeadband`, `Terminates` |
| `records` | fourteen parts, below | `TypeOK` and the properties below |

`records` checks the components that keep records in the database and share nothing with
one another. `Records` gives all of them their variables; a behaviour is one component's
(`part`) and leaves the others' variables "absent", so the parts are explored one beside the
other and never multiplied. Its properties are those of the modules, with the part as a condition, and `RecordsAssumption`
is what the modules assume of their constants (`WalletAssumption` and so on).

| Part | Bounds | Properties (in `Records`: of the module) |
|---|---|---|
| `wallet` | 3 calls, 2 users, 2 keys, amount and opening balance 1 | `LedgerExplainsBalance`, `ChargedOncePerKey`, `OverdrawnByOverlapOnly` |
| `branding` | 5 calls | `PublishedStands`: `LiveIsLastPublished`; `OneInForce`: `OneDraft` |
| `identity` | 3 boots or calls, from any stored point | `PublishedStands`: `LockedWhilePublished`, `PublishedIsConfirmed`, `BootKeepsConfirmed` |
| `telemetry` | 3 ingests, 1 user's action, 1 polling process, a code that stays and one reported twice | `FaultsFollowReports`: `OneActiveFaultPerCode`, `SyncAloneSettles` |
| `groups` | 3 calls, 2 groups, 2 processes | `DecisionIsCurrent`; `OneInForce`: `OneActiveGroup` |
| `plans` | 3 calls, 2 earlier schedules, a group and the station | `OneInForce`: `OneActiveSchedule` |
| `tiers` | 5 calls | `OneInForce`: `OneActiveVersion` |
| `team` | 3 calls, 2 stations | `InvitedCanJoin`, `AttendantFollows`; `OneInForce`: `OneOpenInvitation`, `OneAssignment` |
| `webhooks` | 2 webhooks, 1 dispatch, 1 process, batch of 1, 1 retry, 1 cycle | `DeliveryIsAsRecorded` |
| `timers` | 1 webhook, 1 dispatch, 2 processes, 2 cycles each | `DeliveryIsAsRecorded` |
| `onboarding` | 2 calls at a time, 2 organizations, a tier on sale and a quoted one, an own payment key and a foreign one, a subdomain and a domain that any call may give, no call begun after a race | `GrantedAsDecided`: `OneOrganization`, `PaidForItsTier`, `ProvisionedAsApproved` |
| `methods` | 3 calls, 2 stored methods | `OneInForce`: `OneDefault`, `RevokedIsNoDefault` |
| `tariffs` | 3 calls, 2 stored calendars, 2 sites | `OneInForce`: `OneActiveCalendar`, `ActiveIsKept` |
| `providers` | 3 calls, a provider at any stage, stored documents pending or approved and not yet expired | `GrantedAsDecided`: `ApprovedWithDocuments`, `RelatedIsApproved`, `TerminatedStays`; `OneInForce`: `OneOpenRelationship` |

The three families of inputs of `energy` (shares, limits, decisions) each vary what one
part of the function looks at; the parts pass on one number, the limit, and the
targets.

Why the bounds are enough. Two workers, calls or handlers are what a race on one row
needs: every condition the code tests is about one row and at most one other
actor. Three calls allow a race and what comes before or after it; five, two
saves, their publications and a roll-back. Two attempts distinguish a first failure from the
last (a failed publication is no fault, so both may fail); one fault strikes at any step; one
replay puts a row through its whole life a second time, and two overlapping runs requeue
one that is claimed or published by then. Faults and overlapping replays are in different
runs; that safety and refinement hold whatever the number of both is proved. A second
command lets an outcome meet a booking that has moved on to another one. Four members allow a band with a full, a
zero-capped and two hungry members, seven amps a remainder of every size. A batch of one
is full with one delivery, a batch of a hundred with a hundred. In `onboarding` every property
excuses what comes after a race, so nothing is begun then.
Symmetry is used over workers, calls, users, keys, groups and rows that the code does not tell
apart, and in safety runs only.

`CHECK_DEADLOCK FALSE` stands where a system may rest: every row settled, every
call made, every event consumed, the function returned.

### 3.1 Fairness

* `CommandOutbox!Fairness`: a worker's step is weakly fair (`setInterval` keeps
  ticking, an await returns), time passes (locks get stale, back-off and the circuit's
  cool-down end), the broker comes back. No user, operator, crash or
  replay is forced; crashes are bounded by `MaxFaults`.
* `ChargingSession!FairSpec`: the consumer polls, a handler that is awaited
  finishes. `ActiveEnds` excepts a rebalance: a handler that outlives its partition may
  create the session after the other consumer has passed its end over; an event whose handler threw;
  and a patch of the status after the end was consumed.
* `EnergyAllocation!AllocationSpec`: the function runs on.

The record modules state no liveness: their calls are users', and none has to come.

### 3.2 Findings

Runs with `expect: violation` show where the code and what the repository
says of it part. Each checks one property, and `PROJECT.json` quotes the line.

* `pipeline_overtaken`: the worker's 'Sent' overwrites an outcome that was faster
  (`command-outbox.worker.ts:231`).
* `settlement_failed_row`: a FAILED top-up is credited by a later success
  (`payment-settlement.service.ts:151`; the runbook says only pending rows are).
* `settlement_lost_event`: a webhook whose first delivery died is a duplicate ever
  after (`payment-webhooks.service.ts:82`).

### 3.3 What the passing properties except

A passing property that names an exception does so because the code has it; it
is the exact statement of what the code does. A maintainer should know of these.

Commands, bookings, money:

* a check-in that read the booking earlier reopens a closed one
  (`booking-service.service.ts:206`; `ClosedChangesByRaceOnly`);
* a final payment status is overwritten by a later one (`payment-settlement.service.ts:96`,
  `commerce.service.ts:974`; `ProcessedStaysCredited` says that the credit survives), and a success
  whose id another event of the payment has taken is never applied (`payment-webhooks.service.ts:230`,
  listed as a hazard no property covers); an event of another amount, or whose delivery died, stays
  RECEIVED (`LeftByDeathOnly`);
* overlapping debits overdraw a wallet and overlapping retries charge a key twice
  (`commerce.service.ts:490`, `:498`; `OverdrawnByOverlapOnly`, `ChargedOncePerKey`);
* an edit of a payment method that says nothing of the default clears it, an INACTIVE one may be
  the default, and so may one that is revoked meanwhile (`RevokedIsNoDefault`);
* rows whose lock expired under a live holder (`DuplicatesNeedAFault`, `Exclusive`: `overrun`)
  have no defence; a replay run that overlaps another one requeues rows that a worker has claimed
  or published since, each time with one more holder and one more copy
  (`replay-dead-letters.ts:104`; `reopened`); and a dead letter that the retention job has read is
  deleted although it is replayed before, and never sent
  (`command-history-cleanup.worker.ts:143`; `Lost`, `Remove` of `CommandDelivery`);
* the outbox worker writes a command over an outcome that its booking goes on to show
  (`command-outbox.worker.ts:231`; `ShownFollowsCommand`: `overwritten`);
* a patch can make an ended session active again, for good, or give it any reading
  (`ocpi-internal.controller.ts:451`; `EndedIsFinal`, `ShowsLastReading`, `ActiveEnds`).

Energy:

* a band with a member of `maxAmps` 0 can leave amps unused or hand them to a less urgent
  band, and members of a band may differ by the amps of those that filled up (`NothingWasted`,
  `SharedInOrder`); the limit ignores phases without headroom (`LivePhasesFit`);
* overlapping activations leave two active groups, or schedules, of a station, and a group
  created active deactivates none (`OneActiveGroup`, `OneActiveSchedule`); a decision may be stale
  once two processes are involved (`DecisionIsCurrent`); memberships replaced by none, and
  deletion, decide nothing anew.

Records:

* a branding draft saved late is written over the revision published meanwhile
  (`LiveIsLastPublished`), and a save deletes by id the older drafts it read, one published meanwhile
  among them, so that what is live has no revision to roll back to; overlapping publications leave two active tier prices
  (`OneActiveVersion`); overlapping activations may leave a site no active tariff calendar, a
  death between the two statements leaves two (`ActiveIsKept`, `OneActiveCalendar`);
* overlapping ingests open one fault twice, a report that names a code twice does so alone,
  and acknowledging a resolved fault reopens it (`OneActiveFaultPerCode`); a Smartcar poll, which
  reports no faults, resolves them all; the stale flag is the one stored with the
  row, so a row that was fresh when written stays fresh;
* an invitation that dies between revocation and creation leaves the member none, and one that
  expired stays open but opens nothing (`InvitedCanJoin`); a change of role leaves the attendant's rows behind
  (`AttendantFollows`);
* overlapping timers send a delivery twice and may write a failure over its success
  (`DeliveryIsAsRecorded`); deliveries of inactive webhooks stay due, and a hundred of them
  starve the batch (listed as a hazard no property covers);
* synchronising the payment of a completed application reopens it, so that it can be given a
  second organization; a payment key has the number of the tier's price version but not the
  tier, so another tier's intent may be found, and a key or intent that the caller names may be of
  a payment for something else; a failed intent is found again by its key; an activation that died
  after `createTenant` can be repeated only under another subdomain and domain, and then gives a second
  organization (`OneOrganization`, `PaidForItsTier`);
* a boot that began before a publication writes back the identity it read
  (`LockedWhilePublished`); removing a charge point leaves its published location;
* `approveRelationship` does not look at the provider's status; a suspended provider can never be
  approved again; a relationship read before its termination is written over it
  (`TerminatedStays`, `RelatedIsApproved`).

## 4. What is proved

Eight modules, for every value of the constants:

| Module | Theorem | Says |
|---|---|---|
| `CommandOutboxProofs` | `Invariance`, `TypeCorrect` | `Spec => []IInv`, `Spec => []TypeOK` |
| | `Exclusion` | `Spec => []Exclusive` |
| | `NoSilentSuccess` | `Spec => []PublishedWasSent` |
| | `BoundedDuplication` | `Spec => []DuplicatesNeedAFault` |
| | `Refinement` | `Spec => DeliversAtLeastOnce`: initial states and every step map to `CommandDelivery` |
| `CommandPipelineProofs` | `TypeCorrect`, `BookingAgrees`, `AcceptedStands`, `ShowsAnOutcome` | `TypeOK`, `BookingFollowsCommands`, `AcceptedKeepsBooking`, `OutcomeIsShown` always hold |
| `BookingLifecycleProofs` | `TypeCorrect`, `ShowsItsCommand`, `ClosedIsGuarded` | `TypeOK`, `ShownFollowsCommand`, and the action property `ClosedChangesByRaceOnly` |
| `OcpiCommandProofs` | `TypeCorrect`, `CommandsBounded`, `AcceptedHasOutbox`, `CallbacksBounded`, `RecordIsTrue` | `TypeOK`, `OneCommandPerCall`, `AcceptedIsQueued`, `CallbacksNeedAFault`, `DeliveredWasReceived` |
| `PaymentSettlementProofs` | `TypeCorrect`, `SingleCredit`, `ProcessedIsCredited`, `LeftBehindByDeath` | `TypeOK`, `CreditedOnce`, `ProcessedStaysCredited`, `LeftByDeathOnly` |
| `ChargingProofs` | `TypeCorrect`, `LastReadingShown`, `EndIsFinal` | `ChargingSession`: `TypeOK`, `ShowsLastReading`, and the action property `EndedIsFinal` |
| | `AllocationTyped`, `Conservation`, `NoWaste`, `OrderOfShares`, `PhasesFit`, `DeadbandBounds` | `EnergyAllocation`: `AllocationTypeOK`, `AmpsConserved`, `NothingWasted`, `SharedInOrder`, `LivePhasesFit`, `HeldWithinDeadband` |
| `RecordsProofs`, on `TenantRecordsProofs` | `RecordsInvariant` | `Spec => []RecordsInv`: the inductive invariant of each of the fourteen parts |
| | `RecordsTyped` | `TypeOK` of all of them |
| | `BalanceIsLedger`, `KeyMovesMoneyOnce`, `OverdrawnByOverlap` | `LedgerExplainsBalance`, `ChargedOncePerKey`, `OverdrawnByOverlapOnly` |
| | `PublicationStands` | `PublishedStands` (branding, charge points) |
| | `FaultsAreReported` | `FaultsFollowReports` (telemetry) |
| | `DecisionsAreCurrent` | `DecisionIsCurrent` (load groups) |
| | `OneIsInForce` | `OneInForce` (groups, schedules, prices, drafts, invitations and assignments, payment methods, calendars, relationships) |
| | `InvitationsOpenTheDoor`, `AttendantsFollow` | `InvitedCanJoin`, `AttendantFollows` |
| | `DeliveriesAreAsRecorded` | `DeliveryIsAsRecorded` (both instances, for any hooks, senders and cycles) |
| | `GrantsAreAsDecided` | `GrantedAsDecided` (onboarding, providers) |

With these every safety property of a passing run, invariant or action property, is a theorem; so is
the refinement. What TLC alone checks is liveness.

Assumptions, each by name in the module it is about: `CommandsAssumption` (ids are naturals, in
the order of creation, and vehicle commands are commands), `SettingsAssumption` (attempts, batch size
and threshold are positive), `BoundsAssumption`, `WorkersAssumption` (finitely many workers); `PipelineAssumption` (a cancellation is no
reservation); `BookingAssumption` and OcpiCommand's `BoundsAreNat` (outcomes are statuses that events have);
`EventsAssumption` (no event both settles and fails); `SessionAssumption` (the log is a
sequence of readings, patched values are integers) and `TransactionAssumption` (the last event of a transaction is its end, and "none"
names no handler); `EnergyAssumption` (members are sorted by priority, as the function sorts them, amps are
naturals, a deadband is positive, there is a phase); `RecordsAssumption`, the conjunction of what the modules of `Records`
assume: amounts are positive; the opening balance, bounds and retries are naturals, the names a model uses
for "nobody", "stored" or "nothing" name no call, key or tier, stored rows and calls have
different ids, and no subdomain is a domain. Where a bound is a
constant, such as `MaxFaults`, the theorem holds for every value of it.

The arguments. None of the invariants is inductive as it stands; what each proof adds:

* `CommandOutbox`. `OneHand` counts a row's holders and its `Offer` (1 while it may yet be claimed, created or
  requeued as a dead letter): together they are one, and one more for each replay of what was no dead
  letter. `CopiesAccountedFor` counts in the same way the copies sent, the holders that may still send
  (`Senders`) and the offer. To keep the counts `IInv` adds `HoldersOwnTheRow` (whoever may write an undisturbed row
  has its lock, and it is queued or deleted), `RowsInUseExist` (nobody works on a row that does not exist yet),
  `SelectedWereDead` and `DoomedWereSettled` (what a replay or a retention job has read still holds, or
  the row was replayed since), `ReopenedWasReplayed`, and `UnrecordedWasSent` (a worker between send and
  record has sent).
* `CommandPipeline`. A consumer writes what it decided on a status that it read. `HandledInTurn` says
  that without a fault nobody else handles the command meanwhile and that only the worker's 'Sent'
  can have come in between; `HeardIsShown` what that leaves; `OneOutcomePerCopy` and `CancelledByEvents`
  tie the booking to what was reported.
* `BookingLifecycle`. `CallsRemember`: a call goes on to write only what it saw open, for a command
  that exists. `ReportedUnlessOverwritten`: nobody but the outbox worker writes a status that was not reported;
  `ShownWasReported`: the booking shows what was reported last, or 'Queued'.
* `OcpiCommand`. `SomeoneQueues` (a command without outbox row is a running or dead call's),
  `DeliveredIsReceived` and `OnRecord` (while no result overwrote the payload, the callbacks received
  are the recorded one and the faults'), `CreatorsBounded` (calls about to create and commands
  created are no more than the calls), `CommandsExist`, `AttemptsLeft`.
* `PaymentSettlement`. `CallsOwnTheirRow`: a call past the insert of its event's row has that id to itself,
  and is marking a success only after crediting it; `IntentIsThere`. `LeftByDeathOnly` is kept by every step
  from these: a call leaves its row RECEIVED only by refusing the amount or dying (`LeftStep`).
* `ChargingSession`. `HandlersHaveEvents` and `CallsSawSession`: who writes found a session, and rows are
  never deleted. For `ShowsLastReading`, `OneAtWork` (while nothing was thrown or rebalanced, the one handler at
  work is that of the event delivered last), `WritersKnow` (a writer knows what the session's meter began
  with, or it was patched since) and `EndIsStored` (when the end was delivered, its handler is at work or has stored it,
  and what differs was patched since).
* `EnergyAllocation`. `AllocationInv` says of the rounds: a member is *taken* when its band had its turn and
  *open* while it may still be given amps. `RoundGives` and `RoundAddsUp` are about one turn of the loop: the
  shares add up to what remains (`SharesAddUp`: the quotient for everyone, the remainder by `FirstFew`), nobody
  loses amps, who does not get the whole share is full, and a round leaves amps only when someone filled
  up. From these: `OpenCanTake` (after the first round of a band, whoever is open can take an amp, so only a first
  round can break on `assigned <= 0`, and then as many members of maxAmps 0 as there are amps took the
  remainder: `LeftOver`), `UrgentFirst` (amps left for the next band mean that this one is full) and `KeepsUp`
  (every round that leaves amps closes a member, so two open members differ by at most the number of those
  closed). `HeldWithinDeadband` adds up a bound for each member.
* `Records`. `TenantRecordsProofs` and `RecordsProofs` have for each part an invariant `XInv`, a lemma
  that `Init` gives it (`XInit`), one that every step keeps it (`XStep`, by a lemma for each action) and
  one that it implies the part's properties (`XProperties`); `Stepped` says that a step of the composition
  is a step of its part. The parts' invariants have a common plan. "Who was over when a call
  began stays over" and "who wrote a row is over" make overlap a relation that steps only add to.
  On top of that each says what a call has read and not yet used: it still holds, or whoever changed it
  was not over when the call began (`LookedUp`, `UnseenVersions`, `MethodsUnseen`, `UnseenBy`, `FaultsUnseen`,
  `TeamRead`, `ReadSince`, `FoundSince`, `GoesBy`). A write then finds either what it expects, or a call to
  blame. Beyond this:
  * wallets: `WalletDebitsAreCovered` (a call about to debit was covered when it read, and whatever lowered
    the balance since overlaps it) and `WalletBalances`;
  * load groups: `GroupsLockHeld`, `GroupsReadInLock`, `GroupsLine` (in one process, one call at a time decides on a
    group, in the order in which they queue) and `GroupsReadBack` (once the last writer has read the
    group back, whoever decides on it has read the same version);
  * branding: `LiveExplained` (what is live was published last by a call, whose revision is still there, or
    was discarded) and `ReadAsDrafts`;
  * telemetry: `Settles`, how far an ingest is that has nothing beside it;
  * team: `OpenedApart`, who has opened or is about to open an invitation;
  * webhooks: `RowRecorded`, for a delivery that one sender at a time held: the attempts on the row are those
    made, or the sender with the answer in its hands is about to record it;
  * onboarding: `Alone` (while nothing raced, the row is as every call has read it and one activation is under
    way) and `OwnPayments` (no call named another payment);
  * tariffs: `TariffsPairs`, which call left both calendars of a site active or has still to demote one;
  * providers: `StillApproved`, who could take an approval back began before the request was over.

Sums. That a balance is the sum of the posted rows (`LedgerExplainsBalance`), or that amps are conserved, is
about the library's `MapThenSumSet` and `SumFunction`, folds over a finite set. Folds are defined by recursion on the set, and the library's
induction theorems cannot be used (an operator is their parameter). The lemmas on sums
argue by a least counterexample instead: `AdditiveExists` and `AdditiveUnique` give a function
on the subsets of a finite set with f[{}] = 0 and f[S] = f[S \ {x}] + value of x, and `SumIsAdditive` says
that the library's sum is that function. `ChargingProofs` has the same for `SumFunctionOnSet`, and what follows:
sums are monotone and additive, `SumOfEqual`, `SumInside`, `SumOfOnes`.

What the proofs found. Two properties that TLC had passed on the instances were not inductive for a good
reason and false with more calls; both are restated, and TLC checks what is proved:

* `LiveIsLastPublished`: with six calls a save that had read two drafts deletes the older by id after
  another call published it, and what is live has no revision (`tenant-branding.service.ts:339`);
  the property excuses this and names the call (`Discarded`);
* `RelatedIsApproved`: with five calls a provider is suspended and a submission or rejection that overlapped an
  earlier request comes last; the property now says what may take the approval back.

The proofs have a step for every action; actions that leave the same part of the state
alone share a lemma.

Only model-checked:

* liveness (`Settles`, `ActiveEnds`, `Terminates`), since neither fairness nor ENABLED is within
  the prover's reach.

No module declares a RECURSIVE operator.

## 5. Plan

In order; each step adds a module or a theorem.

1. One abstract "the one in force" document (a set of versions, at most one in force unless
   replacements overlap) that `TierPricing`, `EnergyGroups`, `EnergyPlans`, `PaymentMethods` implement; an
   abstract ledger for `WalletLedger` and `PaymentSettlement`.
2. Applying an energy plan: recalculation composed with the idempotency window of
   `enqueueCommand` (a limit that recurs within it is not sent again).
3. Developer platform: API keys, usage windows and quotas; attendants' offline actions with their
   idempotency keys.
4. Plug-and-charge contracts and certificates; tokens, refresh and clean-up; provisioning credentials and
   the status of stations from OCPP messages.
5. Device adapters; fleet accounts; settlements between providers.
6. Tenant routing: caches of connections, eviction, concurrent creation; batches of the telemetry
   storage maintenance.

## 6. Not modelled, and why

* Most of the code by lines: look-ups, lists, reports and analytics, request validation, formatting,
  mapping between rows and answers, mail texts, seeds, page-long CRUD services whose every operation is
  one write. They have no state of their own to go wrong between two steps; a model of them would restate
  them line by line, so the map stays at the protocols.
* Authorization rules, signatures and validation of requests: a step is enabled for whoever may
  take it.
* The gateways, Kafka, PostgreSQL and payment providers: environment actions, marked external in the
  map or described above by what the code relies on.
* `BillingService.topUp` has no controller (they call `CommerceService.topUp`); the vendor adapters'
  `processIncomingPayload` has no caller; the MQTT handlers are never bound and the MQTT publisher's
  topics do not match what they would subscribe to. These are noted rather than modelled.
* The storage and idempotency window of commands (`commands.service.ts:86`): no row the API writes has an
  active member to send a limit to (2.8), so the hazard is listed and waits for step 2 of the plan.
