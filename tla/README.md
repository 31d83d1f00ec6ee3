# Verification of the write paths of Admin Next

TLA+ models of the parts of the admin console that change state, the TLC configurations that
check them on small instances, and TLAPS proofs of what they promise for every instance. Every
definition is translated from the code under `src/src`; `PROJECT.json` maps each one to its lines.
Paths below are relative to `src/src`.

1. [The system](#1-the-system) - inventory
2. [The plan](#2-the-plan)
3. [ControlledWrites](#3-controlledwrites) - the facade and its three pipelines
4. [AgentBridge](#4-agentbridge) - two stores and two routes for one agent
5. [SettlementV2](#5-settlementv2) - settlements and their payments, and the books they implement
6. [SettlementV1](#6-settlementv1) - the older settlements and the journal
7. [FinanceCommands](#7-financecommands) - adjustments, payouts, snapshots, reconciliation
8. [FinancePilots](#8-financepilots) - the procedures FR0 to FR6, and the chain they implement
9. [Provisioning](#9-provisioning) - the synthetic driver of phase 5J
10. [DriverPilots](#10-driverpilots) - the one production write (5M) and its repair (5N)
11. [PanelWrites](#11-panelwrites) - personas, tickets, notifications, master data
12. [Runs](#12-runs)
13. [Proofs](#13-proofs)
14. [What the code does otherwise than it says](#14-what-the-code-does-otherwise-than-it-says)
15. [What is not modelled](#15-what-is-not-modelled)

## 1. The system

Admin Next is a Next.js console over a ride-hailing back office. Its production write paths are
locked by flags. Two kinds of program run: services over in-memory and "Fake" repositories, written
so that a real store can replace them, and command-line procedures (the pilots) that write a few
named documents of a live Firestore and Auth. The services live in one Node process: no two steps
run at the same time, but every `await` lets other requests run, and all state is lost at a
restart. The pilots are processes of their own: they can be run twice, at the same time or after a
crash, and what they wrote stays.

| Component | State it keeps | Operations | Interacts with | What is hard | What makes it correct | Module |
|---|---|---|---|---|---|---|
| **Controlled-write facade** `application/controlled-writes/ControlledWritesService.ts` | shared idempotency store, consolidated audit trail | execute a driver, agent or customer command | calls one pipeline per command | a key is checked before and stored after the awaited write; port calls may reject | a settled key never buys a second mutation; the trail says what the caller was told | `ControlledWrites` |
| **Driver, agent, customer pipelines** `.../drivers`, `.../agents`, `.../customers` | per domain: snapshots with state, token, account and trip; idempotency store; audit trail; for agents the index of active agents | approve, reject, suspend, request changes; activate, deactivate, suspend; disable, block, reactivate | called by the facade; locks are promise chains per target or country | seven awaited port calls per command, interleaved with other calls and with trips | one mutation per token; one active agent per country; nothing before the audit intents; no block mid-trip | `ControlledWrites` |
| **Agent runtime bridge and routes** `.../runtime/AgentAdminWriteBridge.ts`, `application/agents` | a Fake store seeded agent by agent next to the read model of the console | seed, apply and copy back, find the active agent of a country; activate by the other route | between the API services and the pipelines | the guard sees only what was seeded; a second route changes the read model alone | screen and guard agree; the guard holds across both stores | `AgentBridge` |
| **Settlements V2** `repositories/fake/FakeSettlementV2Repository.ts`, `application/finance/SettlementCommandService.ts` | settlements, payments, two key maps, audit trail | draft, lock, void; create, confirm and reverse a payment | payments route -> bridge -> service -> repository | long legal sequences, retries under client keys, several pending payments | money never contradicts the status; settled is final; two people; the trail names who did it | `SettlementV2` |
| **Settlements V1 and journal** `application/settlements/SettlementService.ts`, `domain/ledger/Journal.ts` | settlements, journal entries | draft, submit, approve, reject, close, reverse | trips, ledger, audit | awaits between read and save; two stores written one after the other; ids from the clock | a trip is owed once; journal and status agree; creator is not approver | `SettlementV1` |
| **Finance command services** `application/finance/*CommandService.ts`, `rollout/`, `ReconciliationService.ts` | rows (adjustments, refunds, chargebacks, payouts, snapshots, runs) with key indexes, audit trail | create, approve, reject, record, prepare, transition, materialize, run | settlements (amounts), audit | look up, await, store; limits checked at creation only | a repeated call finds the row; two people; the trail tells what was done | `FinanceCommands` |
| **Finance pilots FR0 to FR6** `application/finance/pilot` | one document per stage, idempotency documents, audit events, in Firestore | provision a fixture, store a snapshot, draft, approve, pay and adjust one settlement | each stage reads what the earlier ones wrote | nothing is a transaction; runs overlap, crash, lose answers | stages take effect once and in order; duties stay separate; money agrees | `FinancePilots`, `PilotChain` |
| **Provisioning (5J)** `application/controlled-writes/pilot/SyntheticDriverProvisioningService.ts` | Auth account, `user/{uid}`, claims, a registry file | provision one synthetic driver | a Cloud Function derives the claims | a cut between two remote writes, a trigger that may be late | nothing is made twice unless a cut hid it; "ready" is true | `Provisioning` |
| **Driver pilot and repair (5M, 5N)** `.../pilot/Phase5M*`, `Phase5N*` | the driver document, audit intents and results, one idempotency document | move the driver once; complete its metadata | the driver pipeline with Firestore adapters | a cut after the transaction, a rerun meanwhile, a lost answer | applied once, on what was verified; "pass" is true and final | `DriverPilots` |
| **Other controlled writes** support, identity, notifications, geography, P0 master data | one Fake store each | one pipeline each | - | tokens from the clock, keys without fingerprints, personas known from requests only | nothing unseen is overwritten; a write replaces what it was authorised on; nothing is announced twice | `PanelWrites` |
| **Emulator, Disabled, Production repositories; generic Phase-5 pipeline** | none of their own | refuse, delegate, or plan a dry run | - | - | - | - |
| **Driver and customer bridges, circuit breaker and read gate, preparation phases, gates and calculators, periods, reporting, mappers, UI** | none, or one nobody asks | mapping, filters, verdicts, pages | - | - | - | see 15 |

The hazards, each at its line and with the properties that would catch it, are listed in
`PROJECT.json`.

## 2. The plan

The order followed what a reader of the code would worry about first: what is shared by requests of
one process, then what two processes share through live services.

| # | Modules | Subject | Status |
|---|---|---|---|
| 1 | `ControlledWrites`, `ControlledWritesProofs` | facade and pipelines under interleaving, retries and faults | checked, proved |
| 2 | `SettlementBooks`, `SettlementV2`, `SettlementV2Proofs` | settlements and payments, refining abstract books | checked, proved |
| 3 | `AgentBridge`, `AgentBridgeProofs` | two stores and two routes | checked, proved |
| 4 | `SettlementV1`, `SettlementV1Proofs` | draft to reversal with awaits between read and save | checked, proved |
| 5 | `FinanceCommands`, `FinanceCommandsProofs` | rows, keys, limits, audit | checked, proved |
| 6 | `PilotChain`, `FinancePilots`, `FinancePilotsProofs` | six procedures over one Firestore, refining a chain of stages | checked, proved |
| 7 | `DriverPilots`, `SyntheticDriverProofs` | the one production write and its repair | checked, proved |
| 8 | `Provisioning`, `SyntheticDriverProofs` | a saga over Auth, Firestore and a file, cut anywhere | checked, proved |
| 9 | `PanelWrites`, `PanelWritesProofs` | the pipelines that share no machinery | checked, proved |

Each has an `MC` module with its instances. Every invariant and action property that a run checks is
also proved (section 13). What would come next: runs of their own for the disagreements of section
14 that are only described, and models of the parts of section 15 that keep state.

**Composition.** `AgentBridge` stands in front of the agent pipeline of `ControlledWrites` and takes
over from it what happens between the check and `apply()`; it abstracts the port calls in between
to "something else may happen here, and the call may be refused". `DriverPilots` is the driver
pipeline once more, with Firestore adapters in place of the in-memory ones and one command only.
`Provisioning` ends where `DriverPilots` begins, with a fixture in `pending_review`. `SettlementV2`
implements `SettlementBooks` (`KeepsTheBooks`), `FinancePilots` implements `PilotChain` (`InOrder`).

## 3. ControlledWrites

**State.** `snap` is the Fake store of each target (state, precondition token, account, trip),
`active` is `activeByCountry`, `shared` and `domain` are the two layers of idempotency stores,
`facadeAudit` and `domainAudit` the two trails. A request is one call of
`executeDriver/Agent/CustomerCommand`; `pc[r]` names the port call it makes next, `cmd`, `plan`,
`mode`, `outcome` and `reply` are the local variables of the async functions. `applied` and `after`
are history: which calls mutated, and which had been answered "applied" when a call was made.

**Steps.** JavaScript runs to the next `await`, so a step is what one call does between two port
calls. `Submit`, `Retry` and `ApiRetry` start a call (new command; the same command again; the same
command filled in afresh by the API service). `CheckShared` ... `FacadeResult` are the facade,
`LoadDriver` ... `FailureResult` the pipelines, in the order of the code: load, role and scope,
preconditions, (agents: lookup of the active agent,) domain key, intent, apply, put, result, put
again. `PortFails` lets any port call reject and store nothing; where the error goes depends on
which `catch` surrounds it. `TripChanges` (a customer's trip starts or ends; nothing in the code
changes the trip of a driver in his snapshot) and `Resubmit` are what the world does to a snapshot.

**Abstractions.** Reason codes, notes and correlation ids are left out, so fingerprints are records
of the fields the model has. The lock of a target never delays a call longer than one step, as its
critical section has no `await`: acquiring it and running the section are one step. The promise
chain of a lock is therefore not a variable: that it is released in `finally` is taken from the code,
and a lock that were not would not be noticed here. Wiring with
`allowOfflineExecution = false` refuses every command before it reads anything and is not modelled.
Operational membership (`isOperationalDriver` and the like) is fixed by the seed.

**Properties.** `TokenSpentOnce` (no last-write-wins), `SettledKeyNotReapplied`, `OutcomeIsTrue`,
`NothingBeforeIntent`, `FreshTrailMatchesReply`, `OneActiveAgentPerCountry`, `IndexIsExact`,
`CustomersFinishTheirTrips`, `EveryCallAnswered`, and `Inductive`, the invariant of the proofs,
which also gives the theorems `AccountsFollow` and `StepsAreLegal`. `FreshTrailMatchesReply` speaks of calls the facade did
not take for a replay; a replay leaves a result of its own in the trail.

## 4. AgentBridge

**State.** `record` is the read model (`InMemoryAgentRepository`), `fake` the Fake store, where an
agent is `None` until a command first names it, `order` the insertion order of its Map, `index`
its `activeByCountry`. `bypassed` and `overlooked` are history: the countries where
`/agents/activate` activated somebody who was not active, and those where `apply()` activated an agent
while another one was active whom no command had named yet and whose record spells the country
otherwise than with the canonical id (`Hidden`), so that the guard's list could not show him.

**Steps.** `Ask` is `AgentWriteApiService.execute` up to the pipeline: it seeds the agent, which
rebuilds the whole index from the Map, and fills the current token in. `Check` is the load and the
preconditions, with the lookup that prefers the index and falls back on the read model. `Apply` is
the bridge's `apply()`: the Fake's critical section and the copy of the status into the read model.
`GiveUp` stands for everything else the pipeline can answer in between (role, scope, keys, a port
that rejects), `ApplyRefused` for the critical section that throws. `List` and `SaveActive` are
`attemptActivate`, which lists the country the *client* names, tells the policy that the agent is
inactive, and saves.

**Granularity.** Calls of the in-memory repository resolve one microtask later and wait for
nothing. Between the two halves of `Apply` (or of a seeding) only a step that was already queued
can run. Such a step either touches another agent, and commutes, or is a seeding of the same agent,
which writes the same snapshot, or a `SaveActive`, whose order with the copy the model has both ways,
or it only reads (the `Check` or `List` of another call), and sees what it would have seen just
before or just after, or is refused (`GiveUp`).

**Properties.** `OneActiveAgentPerCountry` over the read model, by canonical country, outside the
countries in `bypassed` and `overlooked` (`AgentWriteApiService.ts:2` declares the guarded route to be
the only one, so the guard is judged where it was not gone around, and what it cannot see is a finding
of its own); `GuardSeesAliases`, which leaves out the first exception only and does not hold on the
records of the seed data (section 14); `ShowsWhatGuardKnows` (screen and guard agree
on every agent they share). Proved besides: `IndexHonest` (no country is blocked by an agent that
left), and `GuardInv`, the invariant of the proofs.

## 5. SettlementV2

**State.** `settlement` and `payment` are the repository's Maps, `byIdempotency` and
`paymentByIdempotency` its key maps, `trail` the results the audit service recorded.

**Steps.** One action per command of the service: `CreateDraft`, `Lock`, `Void`, `CreatePayment`,
`ConfirmPayment`, `ReversePayment`, each with its permission, its key lookup (a known key answers
with what it stands for), the guards of the repository in their order, and the record in the trail.
A refused call has written nothing and is no step. The repository methods have no `await`, so a
command is one step; its audit record is part of it because the only audit repository cannot fail,
nothing reads it, and the trail is kept as a set.

**Abstractions.** Claims are abstracted to their sum, which is all that is read after the draft; the
checks of a draft's claims (not empty, one currency, a direction and kinds of line that fit the
party) refuse malformed input before anything is read and are left out. Amounts are positive
(`app/api/settlements/[id]/payments/route.ts` refuses others). The finance write gate is constant
per deployment and taken as open. A payment copies the currency of its settlement, and no step of
this code compares countries: both are left out.

**SettlementBooks** is the abstract specification: a settlement is owed an amount fixed when it is
opened; a payment counts at most once and, once undone, never again; nothing is counted beyond the
amount due; nothing is undone once it is reached. `KeepsTheBooks` maps the amount due, the paid
total and the payments of `SettlementV2` onto it; keys, people, statuses and the trail are invisible.

**Properties.** `StatusFitsMoney`, `PaidIsConfirmed`, `MoneyNeedsTwo`, `TrailNamesTheActor`,
`KeepsTheBooks`; proved besides: `SettledIsFinal`.

## 6. SettlementV1

**State.** `store` is the settlement store, `posted` and `mirrored` the two journal entries a
settlement may have (`JE-<id>`, `JE-REV-<id>`), `clock` the millisecond that names a draft. `pc`,
`call`, `copy`, `left` and `found` are the locals of the calls under way. `scars` is history: which
settlements were touched by a race, by overlapping look-ups of trips or keys, by a call cut between
its saves, or by a collision of ids.

**Steps.** Every repository call is awaited, so a call is one step per await: `AskDraft`, `Preview`,
`Recheck`, `SaveDraft` are `createDraft`; `Read` starts every other command and decides on the copy
it reads; `SaveReview` saves submit, approve and reject; `LookUpTrip`, `PostEntry`, `SaveClosed` are
the closing; `FindEntry`, `MarkEntry`, `PostReversal`, `SaveReversed` the reversal. `Stop` ends a
call at any await. A save writes back the copy, whatever happened to the record in between.

**Abstractions.** An amount is a function of the trips it sums up, so an entry carries trips. Party,
period and eligibility rules are the constant set `Fit`. Audit and timeline texts are left out.

**Properties.** `FourEyes`, `OwedOnce`, `BooksAgree`, `OneDraftPerKey`; proved besides
`OneClosedPerTrip` and `StatusesMoveOn`. `FourEyes` has no exception. The others are claimed
wherever no scar says otherwise, and the scars say exactly where the code gives no protection: a
closing that looked a trip up before another one saved, a call stopped between its two saves, a
write over a record that had moved on, two drafts of one millisecond. Where no calls overlap or
stop, and no ids collide, there are no scars.

## 7. FinanceCommands

**State.** `rows` stands for the seven maps of rows, in the order in which they were stored, `byKey`
and `byOrder` for the key index and the snapshot index, `trail` for the audit events. `pc`, `cmd`,
`reply`, `mine` and `seen` belong to the calls; `wrote` and a row's `lookedAt` (how many rows there
were when its call looked) are history. `env` is production or offline.

**Steps.** Most commands look up, store and index in one piece and then wait for the audit append:
`CreateAdjustment`, `RecordRefund`, `RecordChargeback`, `PreparePayment`, `PreparePayout`, `Approve`,
`Reject`, `Transition`, followed by `Record`. `Materialize` waits for its intent (`RecordIntent`)
before it stores (`StoreSnapshot`); `Reconcile` waits for its repository (`SaveRun`). `Refuse` is
every answer that stores nothing, `PortRejects` an audit or repository call that rejects.

**Abstractions.** What the checks of an input look for is one field `valid`; variances and the
amounts inside a snapshot are left out. A command names the amount it compares with.

**Properties.** `RowsAreWarranted` (nothing in production, permissions, two people),
`RepeatedCallsFindTheRow`, `TrailMatchesRows`; proved besides `HistoryStands` (append-only).
`ClaimNotOvercorrected` does not hold (section 14).

## 8. FinancePilots

**State.** `made` says which run created each document of the pilot (or nobody), `settlement` holds
the fields of the settlement document, `audits` the events. Each run has a `stage`, an `actor`, a
place `pc`, what it has read (`seen`, `basis`, `checked`) and a `reply`. `overtaken` is history: an
update changed a settlement it had not looked at.

**Steps.** Every stage reads its documents one by one (`ReadOne`), decides (`Verdict`, from the
stage's own conditions in their order), and makes its writes one by one in the order of its script:
`WriteAudit`, `WriteEffect`, `CheckUpdate` and `UpdateSettlement`, `WriteIdempotency`; all but FR6
then read back (`VerifyApply`). A write may be refused (`Refused`) or lose its answer after it took
effect (`Answered`), and the process may end anywhere (`Crash`). Runs start from an empty store or
from the stages already applied (`Prefixes`).

**Abstractions.** The money is fixed by the pilot (one fare, one claim), so paid or unpaid is all
that is left of it. Environment gates, RBAC and IAM preflight are the guard `Permits` of `Begin`:
a run they stop has read and written nothing.

**PilotChain** is the abstract specification: each stage takes effect at most once and only after
the one before it, and nothing is undone. `Applied` maps the documents onto it; runs, people, audit
and idempotency are invisible. FR4 has no document of its own: it has taken effect when the
settlement has an approver.

**Properties.** `DualControl`, `PassIsBacked`, `MoneyAgrees`, `ChainIsWhole`, `InOrder`; proved
besides `MarksOwnEffect` and `SettlementMovesOn`.

## 9. Provisioning

**State.** `reg` is the registry file, `accounts`, `docs`, `claims` and `touched` are Auth and
Firestore, `stage`, `uidOf`, `polls`, `told` the runs of the harness (`Attempts`), `spent` counts
crashes, faults and changes by hand against their bounds. `mishaps` is history: what happened that
the code has no means to notice. No name is shared with `DriverPilots`, so that one proof module
extends both.

**Steps.** `LoadRegistry` reads the registry and decides to start, to resume or to refuse; `AuditIntent`,
`CheckGeography`, `CreateAccount`, `NameAccount` or `CreationFailed`, `CheckAccount`, `DocExists`,
`CreateDoc`, `DocMade`, `PollClaims`, `VerifyFixture`, `AuditResult` follow the service, one await each,
with the status that each saves. `SyncClaims` is the trigger (external), at a time of its own or
never. `Crash` cuts a run at any await or while it rewrites the file, which the next run reads as
"planned". `TouchFixture` is a person at the console (external).

**Properties.** `OneAccountUnlessCut`, `ReadyFixtureIsSound`, `EveryRunEnds`.

## 10. DriverPilots

**State.** `doc` is the driver document with its update time in milliseconds, as the precondition token
keeps it: a change may carry the millisecond of the one before it (`Stamps`). `intents`, `results` and `key` are the
audit events and the idempotency document. A pilot remembers the document it verified (`read`), a
reconcile run what it observed (`seen`). `wrote` (pilots whose transaction committed), `after`
(runs begun after a "pass") and `misled` (pilots whose verified document changed once more within
its millisecond) are history.

**Steps.** A pilot: `Begin` (verify), `Lookup`, `Reread`, `Load`, `Check`, `Intent`, `Write` (the
transaction), `Put`, `Result`, `PutAgain`, `Verify`, with `ReplayIntent`/`ReplayResult` for a key
that is known and `Refuse` for a pipeline that throws. A reconcile run: `Inspect`, `ReadIntent`,
`ReadKey`, `Plan`, `Create`, `Recheck`, `Patch`, and three reads back. `CallFails` lets a write fail
or lose its answer, `Cut` ends a process, `Touch` changes the driver by hand.

**Properties.** `WritesWhatItVerified`, `KeyNamesASuccess`, `PassTellsTheTruth`, `PassIsFinal`.

## 11. PanelWrites

**State.** `users`, `tickets` and `masters` are the Fake stores, `mark` the token of each target with
how often it was written, `recent` the titles closed to resending, `noted` and `pushed` the
announcements created and delivered, `replies` the idempotency stores, `clock` the millisecond.
`blind` is history: targets written by a call that had not seen their last write. `users` starts
empty: nothing seeds the store of personas but the route itself, from the request that mentions a
user first.

**Steps.** `Send` starts a command of the menu, one of five kinds, each with its own order of steps:
`Lookup` (before or after the load, as the service does it), `Receive`/`LoadPersona`/`ApplyPersona`,
`LoadTicket`/`ApplyPatch`, `Compose`/`CreatePanelNotification`/`Deliver`, `MarkRead`, `ApplyMaster`,
and `RecordIntent`, `RecordResult`, `RecordFailure`, `Put`. `PortRejects` lets a port call reject,
`Tick` moves the clock.

`Receive` is the part of the personas' route before its service: it refuses whoever lacks
`users:manage`, and stores a user it does not know as the request describes him (`FirstMention`: the
role, the standing and the country it claims, the role accountant if it claims none), unless the
action is `create_persona`. Responses carry no token, so the panel goes on sending the first one; the
model also lets clients send the current one, which `apply()` returns to its caller (`Sights`).

**Abstractions.** A notice stands for a title and its audience. The route makes a persona's first
token from what its client sends; the model has one first token for all clients, which is what a
request without one gets. The routes of tickets and notifications pass `allowOfflineExecution: false`,
so offline those two pipelines are reached by unit tests only. All four master data routes ask for
`agents:manage`; whoever has it by `permissions/rbac.ts` also passes the services' own checks by role,
which are not repeated;
`isCp5OrQa` is never true in this code. The creation of a driver (one
look-up in a set of phones, without an await) and the production gates, which refuse everything,
are left out.

**Properties.** `ReplacesWhatWasAuthorized`, `NoBlindWrite`, `AnnouncedOnce`, `SettledKeyWritesOnce`.
The first ties a persona write to the row that was loaded, compared with the client's claim and shown
to the policy. It does not say that this row was true: no property can, as the code takes it from the
request (section 14).

## 12. Runs

| Run | Instance | Question |
|---|---|---|
| `cw_agents` | 2 agents of one country spelled in two ways, 2 keys, 3 calls | does any race or retry spend a token twice, lie in a reply, leave two active agents, or an index that does not name the one? |
| `cw_mixed` | a pending driver, a customer, 2 actors (an admin, and a clerk for drivers of another country), 1 key, 2 calls, 1 rejected port call, trips, resubmission, fairness | keys across kinds and actors, intents, trips, trails, the inductive invariant; is every call answered? |
| `ab_guard` | 2 Saudi agents whose records say "SA", 2 Emirati ones with the canonical id, one of each active, 3 calls of either route | does the guard hold across two stores, but for what it was kept from seeing? |
| `sv_duties` | 2 settlements of 3 units, 2 payments of 1 or 2, 3 actors with separate duties, 1 client key | money, people, trail, and the abstract books |
| `sv1_overlap` | 2 trips, 3 keys, 3 calls of a clerk and a chief, 4 milliseconds, 4 starting stores of two settlements that share a trip | what do overlaps, interruptions and equal ids break, and nothing else? |
| `fc_overlap` | 1 resource, 2 actors, 2 client keys, every command, 3 calls, 3 rows, 1 rejected port call, production and offline | rows, people and trail |
| `fp_overlap` | a clerk, a chief, a cashier, 3 runs of any stage from 0, 3 or 5 applied stages; lost answers and crashes unbounded | do stages take effect once, in order, by the right people, and is success true? |
| `pv_runs` | 2 runs, 2 uids, 2 polls, 2 crashes, 1 fault, 1 change by hand, fairness | can an account be made twice, "ready" be untrue, a run never end? |
| `dp_overlap` | 2 pilots, 1 reconcile run, 2 cuts, 2 failed or lost calls, 1 change by hand | is the driver moved once, as verified (to the millisecond), and "pass" true and final? |
| `pw_panel` | 2 super_admins, a country_admin whom the store does not know and each request describes otherwise, a ticket, a notice, a master record, 3 calls, 2 keys, 2 milliseconds, 1 rejected port call | what do overlapping panel writes lose, do twice, or do to what they were not shown? |
| `ab_v_spelling`, `fc_v_claim` | as small as shows it | the counterexamples of section 14 |

**Why the bounds are enough.** A race is between a call that reads and a call that writes the same
target: two calls show it, and a third shows a retry, or the rerun after a crash, overtaking both.
Two keys distinguish "same key" from "different key". Tokens of `ControlledWrites` are not bounded:
a token grows only with an applied call. One rejected port call reaches every `catch` around a write; the theorems of
section 13 hold for any number of them. Two agents are a race for a
country, a third is the one the index does not know. A settlement of three units paid in ones and
twos reaches partial payment, exact payment and an attempted overpayment. Two settlements that share
a trip, at four points of their way, put each closing, reversal and rejection next to every other
one with three calls. Three runs of the finance pilots are two that overlap and a third that finds
what they left; starting with 0, 3 or 5 applied stages brings each of the six within reach of three
runs. Two pilots and a repair are the run that was cut, its rerun, and what completes it; further
repairs are covered by the proofs only. Two polls distinguish "again" from "give up" where the code has eight. Two milliseconds are
needed for two writes that share one and a later one that does not. The bounds `MaxClock`, `MaxRows`,
`MaxFaults`, `MaxPortFaults`, `MaxCrashes`, `MaxCuts`, `MaxTouches`, `MaxFixtureTouches` and
`MaxPolls` are guards of the models; the proofs hold for every value of them. Calls, runs and record ids are interchangeable where a run
declares symmetry; the two runs with liveness declare none.

**Fairness.** `cw_mixed` assumes weak fairness of each started call, and nothing else: a started
async function goes on as soon as the port it awaits settles, every in-memory port settles (it
answers or rejects), and the locks are released in `finally`. New calls, retries, trips and faults
are not fair. `pv_runs` assumes weak fairness of each started run: a process keeps running until it
ends or is cut. The trigger that writes the claims is not fair, so `EveryRunEnds` is about the
bounded polling. No other run states fairness.

**Deadlock.** It is checked in `cw_agents`, `cw_mixed`, `ab_guard`, `sv_duties` and `sv1_overlap`:
the only states without another step are those in which every call is done, and `Next` says so
(`AllAnswered`, `Finished`); `SettlementV2` never stops, because a known key can always be sent
again. The other configurations say `CHECK_DEADLOCK FALSE`, because calls, runs and cuts are used
up there and the system stops when they are: for processes that end that is the normal end.

## 13. Proofs

The proofs hold for any number of targets, actors, keys, calls, runs, settlements, trips, amounts,
cuts and faults. They assume only what the `ASSUME`s of the modules say of the constants: kinds are
disjoint, the wiring has its types, the stores start as the code can have left them, amounts are
positive, and `None` is not one of the values. TLC evaluates the same assumptions in every run.

**ControlledWrites.** None of the properties is inductive: that a token is spent once follows from
the tokens calls hold being behind the store, that a reply is true from the idempotency stores
holding only what was applied. `Inductive` joins these facts; it has one part per question, and
`ControlledWritesProofs` proves each part over the few shapes a step can have (`Shapes`: the facade
moves, the pipeline moves, a call writes a target, a key is stored, the world moves). Types and
what a call knows at each `pc` (`Base`) come first. From `Inductive`
follow `TokenSpentOnce`, `OutcomeIsTrue`, `NothingBeforeIntent`, `AccountFollowsState`,
`OneActiveAgentPerCountry`, `SettledKeyNotReapplied` and the action properties `LegalStep` and
`CustomersFinishTheirTrips`. `IndexIsExact` needs both directions of the index, that it covers the
active agents and that it names nobody else (`IndexCoversActive`, `IndexNamesActive`);
`FreshTrailMatchesReply` needs what the trails hold at each place of a call (`TrailsFollow`), which
the two recordings before the answer establish.

**SettlementV2.** `MoneyInv` says of each record by itself what its status, its amounts and its
people have to do with each other; each command keeps it, and `TypeOK`, `StatusFitsMoney`,
`MoneyNeedsTwo` and `SettledIsFinal` follow. `TrailInv` adds that a key stands for the doer of its
operation (`KeysInv`), which makes `TrailNamesTheActor` inductive. `ImplementsBooks` is the
refinement: every step changes the due, the paid and the slips of at most one record as one step of
`SettlementBooks` does, or leaves all of them alone. `PaidIsConfirmed` compares a running total with
a sum over a set of payments, which the community modules define by recursion over subsets, one
element at a time in an order of their own. Theorems of the library that take a predicate cannot be
instantiated by the prover, so what a sum needs - that the recursion is well defined, gives numbers
and loses exactly the weight of whatever element is taken out (`AddUpWithout`) - is proved by
smallest counterexample: the finite sets on which a claim fails have one of least size (`Smallest`, from
the well-foundedness of the numbers), and its claim follows from those of its subsets. On that,
`SumInv` is kept because a confirmation adds one element to the sum of one settlement and a reversal
takes one out; that a set of confirmed payments is finite is part of it, so `Payments` need not be.

**AgentBridge.** Three kinds of step touch the stores: a seeding, an `apply()`, the bypass. The heart
is `NoRival`: an activation that `apply()` accepts has no active rival, because a seeded rival would
be in the index (`IndexCovers`) and an unseeded one was ruled out by the lookup (`CheckedAlone`) and
cannot have become active since, as `apply()` activates seeded agents only. `CheckFinds` is where
the country ids matter: the lookup sees an unseeded rival only when his record carries the canonical
id; any other one is `Hidden`, and an activation next to him puts the country into `overlooked`.
No theorem assumes anything of the spellings; `NothingOverlooked` says that with canonical ids on all
records the second exception never happens.
That a non-empty set of Map positions has a least one would need an induction the prover cannot do;
it is carried along as the invariant `FirstExists` instead.

**SettlementV1.** Four layers, each inductive on top of those before it. `Calls`: what a call knows
about itself and that every record was kept by two people, which gives `TypesHold` and
`CreatorNeverApproves`. `Copies`: a copy that a call holds is the record, or the record is scarred,
and a key that a call looked up is still free, or both drafts are scarred. `Lookups`: a trip that a
closing looked up is not in another closed settlement, or both are scarred; two closed settlements
stand apart. `Journal`: where the entries are while a call is between its saves. That the newest
closed settlement of a trip exists if any does is the library's `WFMin`. The proof found the
exception for colliding ids in `OneDraftPerKey`: a draft that replaces another one of the same
millisecond may be overwritten again by an old copy, and an earlier key then names two drafts.

**FinanceCommands.** `Inv` says that every row is indexed (`Indexed`), was made and decided by
somebody entitled (`Warranted`), repeats an earlier one only as `RepeatedCallsFindTheRow` allows
(`Repeats`) and is what the decisions on the trail say (`Told`), and what a call that waits has
established (`CallKnows`): its permission, its intent, and that no row it would repeat was there
when it looked. `HistoryIsAppendOnly` is proved from the same invariant.

**FinancePilots.** Nothing a run has read can be undone: documents are only created, and a
settlement keeps its creator. `Inv` says what each run may rely on for that reason (`Recalls` for
the settlement, `Grounds` for the documents behind its stage, `Tracks` for how far its own script
has come), that the settlement fits its documents (`SettlementFits`, `PaidBy`), that stages stand
on one another (`Chained`) and what an ended run left (`Ended`). For the refinement `StagesInOrder`,
`AppliedIsPrefix` shows from `Inv` that the applied stages are always a prefix of the chain,
`AppliesOne` that a step adds at most one, and a step that adds one to a prefix of length n makes it
the prefix of length n + 1 (`OneMore`).

**Provisioning.** `FixtureBase` holds whatever happens: types, that a run past the creation has a
uid and one about to create has none, that "ready" is said at the end only, and that the registry names no
account which does not exist. The two promises are conditional on what the code cannot notice, so
their invariants are as well. `Untouched`, unless somebody changed the fixture by hand: claims are
right only where the document is, and whoever has seen the right claims, or reads "pilot_ready",
can rely on both - also after other runs, as documents are created only and claims follow them.
`Alone`, unless a run was cut before its account was on record, the file was torn or runs
overlapped: at most one run is active, there is one account, the registry is "planned" only while
there is none or a run is about to name it, and a run that may still create knows that there is none.

**DriverPilots.** What the stores hold only grows, apart from the driver document (`Grows`), so what
a run knew when it waited stays true while others move; `PilotKnows` and `RepairKnows` say what that
is at each place. `NothingAfterPass` needs that a run begun after a "pass" meets a key with a result
and gets no further than its look-up.

**PanelWrites.** Four groups of facts on top of the types, one for each property. `RowsAsLoaded`: a
persona call past its load has compared the row its target still has, unless the token has moved on -
tokens of a persona never repeat - or it creates a user who was missing, whose row, if there is one by
now, nobody has written under that token; so what passes the comparison in `apply()` is what was
authorised (`PersonasAsAuthorized`). `TokensInOrder`: what
a call saw of its target is behind what the target went through since, and so is its token, unless
two writes left the same one - the exception of `NoBlindWrite`, which a persona never needs because
its tokens are a chain. `OneSender`: the call that claimed a notice is the only one at work on it,
and a notice nobody claimed has not been created. `KeysSettle`: an answer "applied" is on record
under its key, and a call sent later does not get past the record. Assumed is that targets of
different kinds are different (`Apart`) and that a route sends commands of its own kind (`Routes`);
nothing is assumed of the personas.

**Only model-checked.** `EveryCallAnswered` and `EveryRunEnds`: liveness under fairness is out of
the prover's reach. Half of each is proved: `CallsAreFinite` and `RunsAreFinite` count the steps a
call or a run still has before it (`Ahead`, `Remaining`), show that each of its steps makes the count
smaller and that no other step makes it larger, and that it is zero at the end only. What remains to
TLC is that a started call or run which has not ended always has a next step (`ENABLED`). Every other property of a passing run is a theorem. The two properties of the
runs that expect a violation are false of the code.

## 14. What the code does otherwise than it says

Two disagreements have a run that shows them; the others were met while modelling.

**Shown by a run**

* `ab_v_spelling` - in a fresh process a second agent of a country is activated: for agents no
  command has named, the guard asks the read model for the canonical id ("saudi_arabia"), while the
  records say "SA" (`AgentAdminWriteBridge.ts:113`, `test/fixtures/seed.ts:108`), although
  `AgentCountryUniqueness.ts:2` speaks of one active agent per country.
* `fc_v_claim` - two drafts of adjustments that each fit the claim are both approved, and the
  approved decreases exceed it: the room left is compared at creation only
  (`Fr6CorrectionIntegrity.ts:148` asks for the cumulative limit).

**Controlled writes and bridges**

* The retry of an applied command is refused with `PRECONDITION_FAILED` and not replayed:
  preconditions are evaluated before the domain key is looked up (`DriverControlledWriteService.ts:151`).
  The replay branch is reached only by calls that overlap.
* Two overlapping calls under one key, on different targets, both apply: the key is looked up before
  and stored after the write (`ControlledWritesService.ts:285`).
* `POST /agents/activate` goes around the guard (`AgentCommandService.ts:65`), which
  `AgentWriteApiService.ts:2` declares to be the only way; it also lists before an await and saves
  after it, and tells the policy that the agent is inactive whatever it is (`:27`, `:36`).

**Settlements**

* V2: a payment left pending on a voided settlement can be confirmed, and the settlement is paid
  again (`FakeSettlementV2Repository.ts:232`, against `SettlementV2StateMachine.ts:20`); a partially
  paid settlement can be voided; the key of a confirmation or reversal names the settlement and not
  the payment, so the same client key on a second payment is answered with the first (`:216`).
* V1: no save compares versions; an approval or rejection that overlaps another transition writes an
  old copy back. Two drafts of one millisecond and country share an id, and the second replaces the
  first. A failure between the two saves of a reversal leaves an entry marked as reversed with
  nothing that reverses it.

**Finance commands**

* `materialize()` looks the order up, waits for its intent and stores: overlapping calls store two
  snapshots of one order, although `AccountingSnapshotCommandService.ts:130` says "Historical
  immutable - return existing; no silent edit".
* The retry of a creation whose adjustment has been approved meanwhile is refused as infeasible,
  because the limit is checked before the key is looked up. The sum of approved adjustments ignores
  their direction; the refund limit is not cumulative; a payout preparation moves from any status to
  any other.

**Finance pilots**

* A rerun of FR2 or FR4 after the next stage answers `CONFLICT_NO_GO`; `docs/FINANCE_FR2_SETTLEMENT_PILOT_PREPARATION.md:59`
  promises `ALREADY_APPLIED`.
* The adapters of FR4 and FR5 read the settlement and update it in a second call, without a
  transaction. An approval that waits in between can overwrite another approver, or lock a settled
  settlement again (`overtaken` names these cases).
* `ALREADY_APPLIED` does not mean that the result audit exists. A create whose answer is lost is
  reported as refused or as a conflict although it happened. FR6 approves in the name of a constant
  actor unless one is given.

**Driver pilots**

* 5J: a second Auth account is made when a run is cut after Auth has answered and before the
  registry names the account, or when the registry file is torn and read as "planned";
  `docs/PHASE_5J_SYNTHETIC_DRIVER_PROVISIONING_IMPLEMENTATION_REPORT.md:134` says "never multi Auth".
  A run cut at `firestore_created` can never be completed (`FIXTURE_ALREADY_EXISTS`). A stored
  document that cannot be read is replaced by the expected one, which then verifies. The service
  moves from `claims_verified` to `pilot_ready`, and from `auth_created` to `failed_partial`, which
  the table of the state machine does not have.
* 5M: the token is the update time cut to milliseconds (`Phase5MProductionWriteAdapters.ts:126`): a
  change by hand within the millisecond of the one that was verified is not noticed by the
  transaction (`misled` names the case). A rerun after success answers `PILOT_PRECONDITION_FAILED`; `ALREADY_APPLIED` is reached only
  when the status was put back. The report of a partial failure cannot be reached, as the pipeline
  catches everything.
* 5N: a repair that is cut between its result and the patch of the key cannot be completed - its
  document id is fixed and create-only - although `Phase5NMetadataReconciliationApply.ts:318` allows
  a patch "for crash-recovery completion". A pilot cut between its result and its second put leaves
  a success result 5N does not look for, so there can be two. The check before the patch and the
  patch are not one transaction.

**Panel writes**

* The store of personas is filled from requests: the first one that mentions a user says which role
  and standing he has (`app/api/users/[id]/[action]/route.ts:190`), and later ones are compared with
  that. The last super_admin is protected by a count that the same lines set to 2 and nothing
  recomputes, so `LAST_SUPER_ADMIN_PROTECTED` (`docs/ADMIN_NEXT_IDENTITY_WRITE_SECURITY.md:11`) is never
  answered, and a super_admin first mentioned as accountant is not even looked at. A country_admin
  whose session carries `users:manage` may deactivate a super_admin.
* `create_persona` for a user the store does not know is meant to seed him ("create path seeds via
  apply", `route.ts:191`) and answers `USER_NOT_FOUND`, as the repository requires a row
  (`IdentityWriteRepository.ts:46`). If another request mentions the user between the load and the
  apply, the creation replaces what that request described.
* Tokens are the clock in milliseconds, so two writes of one millisecond are not told apart. The
  idempotency stores keep no fingerprint: another command under the same key is answered with the
  first one's reply.
* A delivery that rejects cannot be repeated: its title stays closed to resending. A ticket is loaded
  as "open" whatever its record says. Creating a master record that exists overwrites it and takes
  it out of the archive; an archived one can be activated.

## 15. What is not modelled

* **Driver and customer bridges**: the scheme of the agent bridge without index and second route.
  The trip state they copy once cannot grow stale in this code, as nothing else saves it.
* **Circuit breaker and read gate**: the containers build a breaker, but no code asks it or reports
  to it. The gate is a conjunction of flags.
* **The preparation of the pilots** - the phases 5E to 5I, 5K and 5L, the gates, IAM derivations and
  calculators of the finance pilots, FR3 and FR7: dry runs and verdicts over documents. They write
  nothing; what they establish is where the modelled runs start.
* **Financial periods**: `executeFinancialPeriodWrite` judges a status it is given; no store keeps
  one.
* **Reporting, legacy mappers, production reads, permission tables, pages, translations**: functions
  of documents, by far the largest part of the code by lines and without any state or order. The
  share of mapped lines is low for that reason.
* **`Disabled*`, `Emulator*` and `Production*` repositories and the generic Phase-5 pipeline**: they
  refuse every write, delegate, or end in a dry run.
* **Restarts of the console**: no modelled in-memory store survives one. A restart is the initial
  state: a fresh process knows no agent and no key.
