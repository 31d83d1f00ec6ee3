-------------------------- MODULE ControlledWrites --------------------------
(***************************************************************************)
(* The controlled-write path of the admin console: the ControlledWrites-   *)
(* Service facade, the three domain pipelines behind it (drivers, agents,  *)
(* customers) and the Fake repositories they write to.                     *)
(*                                                                         *)
(* A request is one call of executeDriver/Agent/CustomerCommand.  It stops *)
(* at every await of a port (store, audit trail, repository), so one step  *)
(* of a request is what it does between two awaits, and the steps of       *)
(* different requests interleave.  pc[r] names the call r makes next.      *)
(*                                                                         *)
(* The wiring modelled is the one with allowOfflineExecution = true.  With *)
(* false every command is refused at the facade before it reads anything.  *)
(***************************************************************************)
EXTENDS Naturals, FiniteSets

CONSTANTS
    Drivers, Agents, Customers,  \* the targets of writes
    Actors,                      \* verified actors
    Keys,                        \* idempotency keys clients choose
    Requests,                    \* calls of the facade
    Countries,                   \* country ids as the records spell them
    Buckets,                     \* canonical country ids
    Permits,                     \* Permits[a]: kinds of target a's role may write
    Scope,                       \* Scope[a]: countries a may write in
    CountryOf,                   \* CountryOf[t]: the country of a target
    Bucket,                      \* Bucket[c]: the canonical id of a country
    NotReady,                    \* drivers with incomplete or expired compliance
    Seed,                        \* Seed[t]: state of t when the store is seeded
    MaxFaults,                   \* bound: port calls that reject
    None

Targets == Drivers \cup Agents \cup Customers
Kinds   == {"driver", "agent", "customer"}

KindOf(t) == IF t \in Drivers THEN "driver"
             ELSE IF t \in Agents THEN "agent" ELSE "customer"
BucketOf(t) == Bucket[CountryOf[t]]

Transition(from, action, to) == [from |-> from, action |-> action, to |-> to]

DriverTransitions ==
    { Transition("pending_review", "approve", "approved"),
      Transition("pending_review", "reject", "rejected"),
      Transition("pending_review", "needs_changes", "needs_changes"),
      Transition("approved", "suspend", "suspended"),
      Transition("suspended", "approve", "approved") }

AgentTransitions ==
    { Transition("inactive", "activate", "active"),
      Transition("pending", "activate", "active"),
      Transition("suspended", "activate", "active"),
      Transition("active", "deactivate", "inactive"),
      Transition("active", "suspend", "suspended") }

CustomerTransitions ==
    { Transition("enabled", "disable", "disabled"),
      Transition("enabled", "block", "blocked"),
      Transition("disabled", "reactivate", "enabled"),
      Transition("blocked", "reactivate", "enabled") }

TransitionsOf(t) == CASE KindOf(t) = "driver"   -> DriverTransitions
                      [] KindOf(t) = "agent"    -> AgentTransitions
                      [] KindOf(t) = "customer" -> CustomerTransitions

ActionsOf(t) == {tr.action : tr \in TransitionsOf(t)}

(* The states a transition leaves or enters; a record in another one       *)
(* ("draft", "unknown") refuses every command.                             *)
DriverStates   == {"pending_review", "approved", "rejected", "needs_changes",
                   "suspended"}
AgentStates    == {"inactive", "pending", "active", "suspended"}
CustomerStates == {"enabled", "disabled", "blocked"}
StatesOf(t) == CASE KindOf(t) = "driver"   -> DriverStates
                 [] KindOf(t) = "agent"    -> AgentStates
                 [] KindOf(t) = "customer" -> CustomerStates
States  == DriverStates \cup AgentStates \cup CustomerStates
Actions == {"approve", "reject", "needs_changes", "suspend", "activate",
            "deactivate", "disable", "block", "reactivate"}

ASSUME KindAssumption ==
    /\ Drivers \cap Agents = {}
    /\ Drivers \cap Customers = {}
    /\ Agents \cap Customers = {}
ASSUME WiringAssumption ==
    /\ Permits \in [Actors -> SUBSET Kinds]
    /\ Scope \in [Actors -> SUBSET Countries]
    /\ CountryOf \in [Targets -> Countries]
    /\ Bucket \in [Countries -> Buckets]
    /\ NotReady \subseteq Drivers
    /\ MaxFaults \in Nat
(* The Fake agent store is never seeded with two active agents of a country. *)
ASSUME SeedAssumption ==
    /\ Seed \in [Targets -> States]
    /\ \A t \in Targets : Seed[t] \in StatesOf(t)
    /\ \A a, b \in Agents :
          Seed[a] = "active" /\ Seed[b] = "active" /\ BucketOf(a) = BucketOf(b)
              => a = b

Commands == [actor : Actors, target : Targets, action : Actions,
             expected : States, token : Nat, key : Keys]
Plans == [from : States, to : States]

(* What the idempotency stores keep of a command.                          *)
SharedPrints == [actor : Actors, target : Targets, action : Actions,
                 expected : States, token : Nat]
DomainPrints == [target : Targets, action : Actions, expected : States,
                 token : Nat]

Outcomes == {"applied", "denied", "failed", "idempotent_replay"}
Replies  == Outcomes \cup {"error"}

ASSUME NoneAssumption ==
    None \notin Agents \cup Replies \cup Plans \cup SharedPrints \cup DomainPrints

VARIABLES
    snap,      \* the Fake stores: state, token, account and trip of each target
    active,    \* activeByCountry of the agent store
    shared,    \* the facade's idempotency store: key -> fingerprint
    domain,    \* the domains' idempotency stores: kind -> key -> fingerprint
    pc, cmd,   \* the next await of each request, and its command
    mode,      \* "replay" once the facade has recognised the command
    plan,      \* the transition the precondition check granted
    applied,   \* the requests whose apply() mutated a store
    outcome,   \* what the domain pipeline returned to the facade
    reply,     \* what the facade returned to its caller
    domainAudit, facadeAudit,  \* per request: the intent and the results
    after,     \* history: the requests already answered "applied" at the call
    faults     \* port calls that have rejected so far

stores   == <<snap, active>>
idem     == <<shared, domain>>
audits   == <<domainAudit, facadeAudit>>
outcomes == <<outcome, reply>>
vars == <<snap, active, shared, domain, pc, cmd, mode, plan, applied, outcome,
          reply, domainAudit, facadeAudit, after, faults>>

DomainSteps == {"load", "lookup", "domain_check", "intent", "apply", "put",
                "result", "put_again", "fail_result", "replay_intent",
                "replay_result"}
FacadeSteps == {"shared_check", "facade_intent", "facade_replay_intent",
                "facade_replay_result", "shared_put", "facade_result"}
Steps == {"new", "done"} \cup DomainSteps \cup FacadeSteps
Snapshots == [state : States, token : Nat, account : {"enabled", "disabled"},
              trip : {"idle", "busy"}]
Trail == [intent : BOOLEAN, results : SUBSET Outcomes]

TypeOK ==
    /\ snap \in [Targets -> Snapshots]
    /\ active \in [Buckets -> Agents \cup {None}]
    /\ shared \in [Keys -> SharedPrints \cup {None}]
    /\ domain \in [Kinds -> [Keys -> DomainPrints \cup {None}]]
    /\ pc \in [Requests -> Steps]
    /\ cmd \in [Requests -> Commands \cup {None}]
    /\ mode \in [Requests -> {"fresh", "replay"}]
    /\ plan \in [Requests -> Plans \cup {None}]
    /\ applied \subseteq Requests
    /\ outcome \in [Requests -> Outcomes \cup {None}]
    /\ reply \in [Requests -> Replies \cup {None}]
    /\ domainAudit \in [Requests -> Trail]
    /\ facadeAudit \in [Requests -> Trail]
    /\ after \in [Requests -> SUBSET Requests]
    /\ faults \in Nat

-----------------------------------------------------------------------------
(* An account is disabled exactly in these states when a store is seeded.  *)
AccountFor(state) ==
    IF state \in {"suspended", "disabled", "blocked"} THEN "disabled"
                                                      ELSE "enabled"

(* rebuildActiveIndex: the active agent of each canonical country.         *)
SeedIndex ==
    [b \in Buckets |->
        LET live == {a \in Agents : Seed[a] = "active" /\ BucketOf(a) = b}
        IN  IF live = {} THEN None ELSE CHOOSE a \in live : TRUE]

Init ==
    /\ snap = [t \in Targets |-> [state |-> Seed[t], token |-> 0,
                                  account |-> AccountFor(Seed[t]),
                                  trip |-> "idle"]]
    /\ active = SeedIndex
    /\ shared = [k \in Keys |-> None]
    /\ domain = [d \in Kinds |-> [k \in Keys |-> None]]
    /\ pc = [r \in Requests |-> "new"]
    /\ cmd = [r \in Requests |-> None]
    /\ mode = [r \in Requests |-> "fresh"]
    /\ plan = [r \in Requests |-> None]
    /\ applied = {}
    /\ outcome = [r \in Requests |-> None]
    /\ reply = [r \in Requests |-> None]
    /\ domainAudit = [r \in Requests |-> [intent |-> FALSE, results |-> {}]]
    /\ facadeAudit = [r \in Requests |-> [intent |-> FALSE, results |-> {}]]
    /\ after = [r \in Requests |-> {}]
    /\ faults = 0

(* Mutant of SharedFingerprint: a key says nothing of the resource.        *)
BugFingerprintWithoutResource(c) == [actor |-> c.actor, token |-> c.token]

(* The shared fingerprint names the actor, the domain fingerprint does not. *)
SharedFingerprint(c) ==
    [actor |-> c.actor, target |-> c.target, action |-> c.action,
     expected |-> c.expected, token |-> c.token]
DomainFingerprint(c) ==
    [target |-> c.target, action |-> c.action,
     expected |-> c.expected, token |-> c.token]

Goto(r, step) == pc' = [pc EXCEPT ![r] = step]

(* The facade answers its caller.                                          *)
Answer(r, what) ==
    /\ Goto(r, "done")
    /\ reply' = [reply EXCEPT ![r] = what]

(* Mutant of DomainReturns: a refusal is handed to the caller at once,     *)
(* past the facade's own audit result.                                     *)
BugRefusalReturnsEarly(r, what) ==
    /\ outcome' = [outcome EXCEPT ![r] = what]
    /\ IF mode[r] = "replay" \/ what # "applied"
       THEN Answer(r, what)
       ELSE Goto(r, "shared_put") /\ UNCHANGED reply

(* The domain pipeline returns to the facade.  On the replay branch the    *)
(* facade hands the domain's response to the caller as it is.              *)
DomainReturns(r, what) ==
    /\ outcome' = [outcome EXCEPT ![r] = what]
    /\ IF mode[r] = "replay"
       THEN Answer(r, what)
       ELSE /\ Goto(r, IF what = "applied" THEN "shared_put" ELSE "facade_result")
            /\ UNCHANGED reply

-----------------------------------------------------------------------------
(* A client calls the facade: with a command built from the snapshot it    *)
(* has just read, with a command object sent before (a retry or a double   *)
(* click), or through the API, which keeps the client's key and expected   *)
(* state and reads the token afresh.                                       *)
Call(r, c) ==
    /\ pc[r] = "new"
    /\ Goto(r, "shared_check")
    /\ cmd' = [cmd EXCEPT ![r] = c]
    /\ after' = [after EXCEPT ![r] = {q \in Requests : reply[q] = "applied"}]
    /\ UNCHANGED <<stores, idem, mode, plan, applied, outcomes, audits, faults>>

Submit(r) ==
    \E a \in Actors, t \in Targets, k \in Keys : \E act \in ActionsOf(t) :
        Call(r, [actor |-> a, target |-> t, action |-> act,
                 expected |-> snap[t].state, token |-> snap[t].token,
                 key |-> k])

Retry(r) ==
    \E q \in Requests \ {r} : /\ pc[q] # "new"
                              /\ Call(r, cmd[q])

ApiRetry(r) ==
    \E q \in Requests \ {r} :
        /\ pc[q] # "new"
        /\ Call(r, [cmd[q] EXCEPT !.token = snap[cmd[q].target].token])

(* checkConsolidatedIdempotency.  A conflict is refused without an audit   *)
(* record: no intent has been written yet.                                 *)
CheckShared(r) ==
    LET seen == shared[cmd[r].key] IN
    /\ pc[r] = "shared_check"
    /\ \/ /\ seen = None
          /\ Goto(r, "facade_intent")
          /\ UNCHANGED <<mode, reply>>
       \/ /\ seen = SharedFingerprint(cmd[r])
          /\ mode' = [mode EXCEPT ![r] = "replay"]
          /\ Goto(r, "facade_replay_intent")
          /\ UNCHANGED reply
       \/ /\ seen \notin {None, SharedFingerprint(cmd[r])}
          /\ Answer(r, "denied")
          /\ UNCHANGED mode
    /\ UNCHANGED <<stores, idem, cmd, plan, applied, outcome, audits, after, faults>>

(* Mutant of RecordDomainIntent: the append is not awaited and is lost.    *)
BugIntentLost(r) == UNCHANGED domainAudit
RecordFacadeIntent(r) ==
    facadeAudit' = [facadeAudit EXCEPT ![r].intent = TRUE]
RecordFacadeResult(r, what) ==
    facadeAudit' = [facadeAudit EXCEPT ![r].results = @ \cup {what}]
RecordDomainIntent(r) ==
    domainAudit' = [domainAudit EXCEPT ![r].intent = TRUE]
RecordDomainResult(r, what) ==
    domainAudit' = [domainAudit EXCEPT ![r].results = @ \cup {what}]

FacadeIntent(r) ==
    /\ pc[r] = "facade_intent"
    /\ RecordFacadeIntent(r)
    /\ Goto(r, "load")
    /\ UNCHANGED <<stores, idem, cmd, mode, plan, applied, outcomes,
                   domainAudit, after, faults>>

FacadeReplayIntent(r) ==
    /\ pc[r] = "facade_replay_intent"
    /\ RecordFacadeIntent(r)
    /\ Goto(r, "facade_replay_result")
    /\ UNCHANGED <<stores, idem, cmd, mode, plan, applied, outcomes,
                   domainAudit, after, faults>>

(* The facade records the replay, then runs the domain pipeline anyway.    *)
FacadeReplayResult(r) ==
    /\ pc[r] = "facade_replay_result"
    /\ RecordFacadeResult(r, "idempotent_replay")
    /\ Goto(r, "load")
    /\ UNCHANGED <<stores, idem, cmd, mode, plan, applied, outcomes,
                   domainAudit, after, faults>>

-----------------------------------------------------------------------------
(* RBAC on the role, then country scope on the loaded snapshot.            *)
Authorized(c) == /\ KindOf(c.target) \in Permits[c.actor]
                 /\ CountryOf[c.target] \in Scope[c.actor]

(* The checks the three precondition evaluators share: expected state,     *)
(* token and a proven transition.                                          *)
Current(c) == /\ snap[c.target].state = c.expected
              /\ snap[c.target].token = c.token
LegalTransitions(c) ==
    {tr \in TransitionsOf(c.target) : tr.action = c.action /\ tr.from = c.expected}

DriverReady(c) ==
    /\ c.action = "approve" /\ c.expected = "pending_review"
           => c.target \notin NotReady
    /\ c.action = "suspend" => snap[c.target].trip # "busy"

CustomerReady(c) ==
    c.action \in {"disable", "block"} => snap[c.target].trip # "busy"

(* The read of the snapshot and everything decided from it before the next *)
(* await: either the command is refused, or a transition is planned.       *)
Decide(r, ready, next) ==
    /\ pc[r] = "load"
    /\ \/ /\ Authorized(cmd[r]) /\ Current(cmd[r]) /\ ready
          /\ \E tr \in LegalTransitions(cmd[r]) :
                 plan' = [plan EXCEPT ![r] = [from |-> tr.from, to |-> tr.to]]
          /\ Goto(r, next)
          /\ UNCHANGED outcomes
       \/ /\ \/ ~Authorized(cmd[r]) \/ ~Current(cmd[r]) \/ ~ready
             \/ LegalTransitions(cmd[r]) = {}
          /\ DomainReturns(r, "denied")
          /\ UNCHANGED plan
    /\ UNCHANGED <<stores, idem, cmd, mode, applied, audits, after, faults>>

LoadDriver(r) ==
    /\ pc[r] = "load" /\ cmd[r].target \in Drivers
    /\ Decide(r, DriverReady(cmd[r]), "domain_check")

LoadCustomer(r) ==
    /\ pc[r] = "load" /\ cmd[r].target \in Customers
    /\ Decide(r, CustomerReady(cmd[r]), "domain_check")

LoadAgent(r) ==
    /\ pc[r] = "load" /\ cmd[r].target \in Agents
    /\ Decide(r, TRUE, IF cmd[r].action = "activate" THEN "lookup"
                                                     ELSE "domain_check")

(* assertNoOtherActiveAgentForCountry: a second await, on the index.       *)
OtherActive(t) == active[BucketOf(t)] \notin {None, t}

LookupActiveAgent(r) ==
    /\ pc[r] = "lookup"
    /\ \/ /\ ~OtherActive(cmd[r].target)
          /\ Goto(r, "domain_check")
          /\ UNCHANGED outcomes
       \/ /\ OtherActive(cmd[r].target)
          /\ DomainReturns(r, "denied")
    /\ UNCHANGED <<stores, idem, cmd, mode, plan, applied, audits, after, faults>>

(* Mutant of CheckDomain: any stored result is replayed.                   *)
BugReplayWithoutComparing(r) ==
    LET seen == domain[KindOf(cmd[r].target)][cmd[r].key] IN
    /\ pc[r] = "domain_check"
    /\ Goto(r, IF seen = None THEN "intent" ELSE "replay_intent")
    /\ UNCHANGED <<stores, idem, cmd, mode, plan, applied, outcomes, audits, after,
                   faults>>

CheckDomain(r) ==
    LET seen == domain[KindOf(cmd[r].target)][cmd[r].key] IN
    /\ pc[r] = "domain_check"
    /\ \/ /\ seen = None
          /\ Goto(r, "intent")
          /\ UNCHANGED outcomes
       \/ /\ seen = DomainFingerprint(cmd[r])
          /\ Goto(r, "replay_intent")
          /\ UNCHANGED outcomes
       \/ /\ seen \notin {None, DomainFingerprint(cmd[r])}
          /\ DomainReturns(r, "denied")
    /\ UNCHANGED <<stores, idem, cmd, mode, plan, applied, audits, after, faults>>

ReplayIntent(r) ==
    /\ pc[r] = "replay_intent"
    /\ RecordDomainIntent(r)
    /\ Goto(r, "replay_result")
    /\ UNCHANGED <<stores, idem, cmd, mode, plan, applied, outcomes,
                   facadeAudit, after, faults>>

ReplayResult(r) ==
    /\ pc[r] = "replay_result"
    /\ RecordDomainResult(r, "idempotent_replay")
    /\ DomainReturns(r, "idempotent_replay")
    /\ UNCHANGED <<stores, idem, cmd, mode, plan, applied, facadeAudit, after,
                   faults>>

DomainIntent(r) ==
    /\ pc[r] = "intent"
    /\ RecordDomainIntent(r)
    /\ Goto(r, "apply")
    /\ UNCHANGED <<stores, idem, cmd, mode, plan, applied, outcomes,
                   facadeAudit, after, faults>>

-----------------------------------------------------------------------------
(* apply(): under the lock of the target (of the country, for an agent)    *)
(* the Fake repository repeats the token and state checks and writes.  The *)
(* section has no await in it, so it is one step.                          *)
AccountAfter(t, from, to) ==
    CASE KindOf(t) = "driver" ->
           IF to = "suspended" THEN "disabled"
           ELSE IF from = "suspended" /\ to = "approved" THEN "enabled"
           ELSE snap[t].account
      [] KindOf(t) = "agent" ->
           IF to = "suspended" THEN "disabled"
           ELSE IF to \in {"active", "inactive"} THEN "enabled"
           ELSE snap[t].account
      [] KindOf(t) = "customer" ->
           IF to \in {"disabled", "blocked"} THEN "disabled"
           ELSE IF to = "enabled" THEN "enabled"
           ELSE snap[t].account

(* Mutant of StillCurrent: the lock is taken, the checks are not repeated. *)
BugNoRecheck(r) == TRUE

StillCurrent(r) == /\ snap[cmd[r].target].token = cmd[r].token
                   /\ snap[cmd[r].target].state = plan[r].from

Mutate(r) ==
    LET t == cmd[r].target IN
    /\ snap' = [snap EXCEPT ![t] =
                  [state |-> plan[r].to, token |-> snap[t].token + 1,
                   account |-> AccountAfter(t, plan[r].from, plan[r].to),
                   trip |-> snap[t].trip]]
    /\ applied' = applied \cup {r}
    /\ Goto(r, "put")
    /\ UNCHANGED outcomes

(* Mutant of Refuse: a stale token is tried again instead of refused.      *)
BugRetryForever(r, why) ==
    /\ Goto(r, "apply")
    /\ UNCHANGED <<snap, applied, outcomes>>

Refuse(r, why) ==
    /\ outcome' = [outcome EXCEPT ![r] = why]
    /\ Goto(r, "fail_result")
    /\ UNCHANGED <<snap, applied, reply>>

ApplyDriver(r) ==
    /\ pc[r] = "apply" /\ cmd[r].target \in Drivers
    /\ \/ StillCurrent(r) /\ Mutate(r)
       \/ ~StillCurrent(r) /\ Refuse(r, "denied")
    /\ UNCHANGED <<active, idem, cmd, mode, plan, audits, after, faults>>

(* Mutant of CustomerMidTrip: the trip is looked at before the lock only.  *)
BugTripNotRechecked(r) == FALSE

CustomerMidTrip(r) == /\ cmd[r].action \in {"disable", "block"}
                      /\ snap[cmd[r].target].trip = "busy"

ApplyCustomer(r) ==
    /\ pc[r] = "apply" /\ cmd[r].target \in Customers
    /\ \/ StillCurrent(r) /\ ~CustomerMidTrip(r) /\ Mutate(r)
       \/ ~(StillCurrent(r) /\ ~CustomerMidTrip(r)) /\ Refuse(r, "denied")
    /\ UNCHANGED <<active, idem, cmd, mode, plan, audits, after, faults>>

(* Mutant of CountryTaken: uniqueness is looked at before the lock only.   *)
BugCountryNotRechecked(r) == FALSE

CountryTaken(r) == plan[r].to = "active" /\ OtherActive(cmd[r].target)

(* Mutant of IndexAfter: leaving the active state keeps the entry.         *)
BugEntryKept(r) ==
    IF plan[r].to = "active"
    THEN [active EXCEPT ![BucketOf(cmd[r].target)] = cmd[r].target] ELSE active

(* activeByCountry after the agent moves: activation enters it, leaving    *)
(* the active state removes it, and nothing else touches the entry.        *)
IndexAfter(r) ==
    LET a == cmd[r].target
        b == BucketOf(a)
    IN  IF plan[r].to = "active" THEN [active EXCEPT ![b] = a]
        ELSE IF plan[r].from = "active" /\ active[b] = a
             THEN [active EXCEPT ![b] = None]
        ELSE active

ApplyAgent(r) ==
    /\ pc[r] = "apply" /\ cmd[r].target \in Agents
    /\ \/ /\ StillCurrent(r) /\ ~CountryTaken(r)
          /\ Mutate(r)
          /\ active' = IndexAfter(r)
       \/ /\ ~(StillCurrent(r) /\ ~CountryTaken(r))
          /\ Refuse(r, "denied")
          /\ UNCHANGED active
    /\ UNCHANGED <<idem, cmd, mode, plan, audits, after, faults>>

(* Mutant of PutDomain: nothing is stored.                                 *)
BugNothingStored(r) == UNCHANGED domain

(* The success path after the mutation: store the result, write the audit  *)
(* result, store the result again with the audit id in it.                 *)
PutDomain(r) ==
    domain' = [domain EXCEPT ![KindOf(cmd[r].target)][cmd[r].key] =
                                 DomainFingerprint(cmd[r])]

Put(r) ==
    /\ pc[r] = "put"
    /\ PutDomain(r)
    /\ Goto(r, "result")
    /\ UNCHANGED <<stores, shared, cmd, mode, plan, applied, outcomes, audits,
                   after, faults>>

AppliedResult(r) ==
    /\ pc[r] = "result"
    /\ RecordDomainResult(r, "applied")
    /\ Goto(r, "put_again")
    /\ UNCHANGED <<stores, idem, cmd, mode, plan, applied, outcomes,
                   facadeAudit, after, faults>>

PutAgain(r) ==
    /\ pc[r] = "put_again"
    /\ PutDomain(r)
    /\ DomainReturns(r, "applied")
    /\ UNCHANGED <<stores, shared, cmd, mode, plan, applied, audits, after, faults>>

(* The inner catch: whatever was thrown since the intent is recorded.      *)
FailureResult(r) ==
    /\ pc[r] = "fail_result"
    /\ RecordDomainResult(r, outcome[r])
    /\ DomainReturns(r, outcome[r])
    /\ UNCHANGED <<stores, idem, cmd, mode, plan, applied, facadeAudit, after,
                   faults>>

SharedPut(r) ==
    /\ pc[r] = "shared_put"
    /\ shared' = [shared EXCEPT ![cmd[r].key] = SharedFingerprint(cmd[r])]
    /\ Goto(r, "facade_result")
    /\ UNCHANGED <<stores, domain, cmd, mode, plan, applied, outcomes, audits,
                   after, faults>>

FacadeResult(r) ==
    /\ pc[r] = "facade_result"
    /\ RecordFacadeResult(r, outcome[r])
    /\ Answer(r, outcome[r])
    /\ UNCHANGED <<stores, idem, cmd, mode, plan, applied, outcome,
                   domainAudit, after, faults>>

-----------------------------------------------------------------------------
(* A port call of r rejects and stores nothing.  In the facade the error   *)
(* reaches the caller; in the pipeline the catch around the repository     *)
(* records it, and the outer catch turns anything else into "failed".      *)
PortFails(r) ==
    /\ faults < MaxFaults
    /\ faults' = faults + 1
    /\ \/ /\ pc[r] \in FacadeSteps
          /\ Answer(r, "error")
          /\ UNCHANGED outcome
       \/ /\ pc[r] \in {"load", "lookup", "domain_check", "intent",
                        "replay_intent", "replay_result", "fail_result"}
          /\ DomainReturns(r, "failed")
       \/ /\ pc[r] \in {"apply", "put", "result", "put_again"}
          /\ outcome' = [outcome EXCEPT ![r] = "failed"]
          /\ Goto(r, "fail_result")
          /\ UNCHANGED reply
    /\ UNCHANGED <<stores, idem, cmd, mode, plan, applied, audits, after>>

(* What else changes a snapshot: the trip of a customer starts or ends     *)
(* (forceTripState, which only the customer repository has: the trip of a  *)
(* driver stays as it was seeded), and a driver asked for changes resubmits*)
(* (forceTransition).                                                      *)
TripChanges(t) ==
    /\ t \in Customers
    /\ snap' = [snap EXCEPT ![t].trip = IF @ = "idle" THEN "busy" ELSE "idle"]
    /\ UNCHANGED <<active, idem, pc, cmd, mode, plan, applied, outcomes, audits,
                   after, faults>>

Resubmit(d) ==
    /\ d \in Drivers
    /\ snap[d].state = "needs_changes"
    /\ snap' = [snap EXCEPT ![d].state = "pending_review", ![d].token = @ + 1]
    /\ UNCHANGED <<active, idem, pc, cmd, mode, plan, applied, outcomes, audits,
                   after, faults>>

FacadeStep(r) ==
    \/ CheckShared(r) \/ FacadeIntent(r) \/ FacadeReplayIntent(r)
    \/ FacadeReplayResult(r) \/ SharedPut(r) \/ FacadeResult(r)

DomainStep(r) ==
    \/ LoadDriver(r) \/ LoadCustomer(r) \/ LoadAgent(r) \/ LookupActiveAgent(r)
    \/ CheckDomain(r) \/ ReplayIntent(r) \/ ReplayResult(r) \/ DomainIntent(r)
    \/ ApplyDriver(r) \/ ApplyCustomer(r) \/ ApplyAgent(r)
    \/ Put(r) \/ AppliedResult(r) \/ PutAgain(r) \/ FailureResult(r)

AllAnswered == \A r \in Requests : pc[r] = "done"

Next ==
    \/ \E r \in Requests : \/ Submit(r) \/ Retry(r) \/ ApiRetry(r)
                           \/ FacadeStep(r) \/ DomainStep(r) \/ PortFails(r)
    \/ \E t \in Targets : TripChanges(t) \/ Resubmit(t)
    \/ AllAnswered /\ UNCHANGED vars

Spec == Init /\ [][Next]_vars

(* A started async function runs on: nothing stops it between two awaits   *)
(* but the answer of a port, and every port call settles.                  *)
Fairness == \A r \in Requests : WF_vars(FacadeStep(r) \/ DomainStep(r))
FairSpec == Spec /\ Fairness

-----------------------------------------------------------------------------
(* No last-write-wins: of the calls that carry the same token of a target, *)
(* at most one mutates it, however they interleave (token re-check under   *)
(* the target's lock in apply()).                                          *)
TokenSpentOnce ==
    \A r, q \in applied :
        cmd[r].target = cmd[q].target /\ cmd[r].token = cmd[q].token => r = q

(* A key whose command was answered "applied" never buys a second          *)
(* mutation for a call made afterwards, of any kind of target, by any      *)
(* actor, whatever port call failed in between (both idempotency stores).  *)
SettledKeyNotReapplied ==
    \A r, q \in Requests :
        q \in after[r] /\ cmd[q].key = cmd[r].key => r \notin applied

(* Some call applied this very command, under this key.                    *)
Backed(c) ==
    \E q \in applied : /\ cmd[q].key = c.key
                       /\ DomainFingerprint(cmd[q]) = DomainFingerprint(c)

(* What the pipeline answers is what it did: "applied" only after its own  *)
(* mutation, "idempotent_replay" only when the same command under the same *)
(* key was applied by some call, "denied" only when it changed nothing.    *)
OutcomeIsTrue ==
    \A r \in Requests :
        /\ outcome[r] = "applied" => r \in applied
        /\ outcome[r] \in {"denied", "idempotent_replay"} => r \notin applied
        /\ outcome[r] = "idempotent_replay" => Backed(cmd[r])

(* A mutation without both audit intents on record, or by an actor without *)
(* the role or the country, never happens; an unauthorised call leaves no  *)
(* trace in the domain's trail.                                            *)
NothingBeforeIntent ==
    \A r \in Requests :
        /\ r \in applied => domainAudit[r].intent /\ facadeAudit[r].intent
        /\ domainAudit[r].intent => Authorized(cmd[r])

(* A call the facade did not take for a replay, answered without an error, *)
(* leaves in the consolidated trail the one result its caller was given;   *)
(* "applied" stands alone in the domain's trail too.                       *)
FreshTrailMatchesReply ==
    \A r \in Requests :
        pc[r] = "done" /\ mode[r] = "fresh" /\ facadeAudit[r].intent
            /\ reply[r] # "error" =>
               /\ facadeAudit[r].results = {reply[r]}
               /\ reply[r] = "applied" => domainAudit[r].results = {"applied"}

(* One country, at most one active agent, under any race of activations,   *)
(* also when the agents' records spell the country differently.            *)
OneActiveAgentPerCountry ==
    \A a, b \in Agents :
        snap[a].state = "active" /\ snap[b].state = "active"
            /\ BucketOf(a) = BucketOf(b) => a = b

(* activeByCountry names the active agent of a country if it has one.      *)
IndexIsExact ==
    \A b \in Buckets :
        active[b] = IF \E a \in Agents : BucketOf(a) = b /\ snap[a].state = "active"
                    THEN CHOOSE a \in Agents : BucketOf(a) = b /\ snap[a].state = "active"
                    ELSE None

(* An account is disabled exactly while its state says so, through every   *)
(* sequence of suspensions, blocks and reactivations.                      *)
AccountFollowsState == \A t \in Targets : snap[t].account = AccountFor(snap[t].state)

(* A state changes only along a proven transition (or a resubmission), and *)
(* never without the token changing with it.                               *)
LegalStep ==
    [][\A t \in Targets :
          snap'[t].state # snap[t].state =>
             /\ snap'[t].token > snap[t].token
             /\ \/ \E tr \in TransitionsOf(t) : /\ tr.from = snap[t].state
                                                /\ tr.to = snap'[t].state
                \/ t \in Drivers /\ snap[t].state = "needs_changes"
                                 /\ snap'[t].state = "pending_review"]_vars

(* A customer in the middle of a trip is never disabled or blocked, even   *)
(* when the trip starts after the precondition check.                      *)
CustomersFinishTheirTrips ==
    [][\A c \in Customers :
          snap[c].trip = "busy" /\ snap'[c].state # snap[c].state
              => snap'[c].state = "enabled"]_vars

(* Every call is answered.                                                 *)
EveryCallAnswered == \A r \in Requests : pc[r] # "new" ~> pc[r] = "done"

-----------------------------------------------------------------------------
(* The inductive invariant behind the safety properties above, in parts.   *)

(* Where a request stands fixes what it knows.                             *)
BeforeApply == {"shared_check", "facade_intent", "facade_replay_intent",
                "facade_replay_result", "load", "lookup", "domain_check",
                "intent", "apply", "replay_intent", "replay_result"}
AfterApply  == {"put", "result", "put_again", "shared_put"}

Knows(r) ==
    /\ pc[r] # "new" => cmd[r] \in Commands
    /\ pc[r] = "new" => r \notin applied /\ outcome[r] = None
                        /\ reply[r] = None /\ ~domainAudit[r].intent
    /\ pc[r] \in {"lookup", "domain_check", "intent", "apply"} => plan[r] \in Plans
    /\ pc[r] \in BeforeApply => r \notin applied /\ outcome[r] = None
    /\ pc[r] \in AfterApply => r \in applied
    /\ pc[r] = "shared_put" => outcome[r] = "applied"
    /\ pc[r] = "fail_result" => outcome[r] \in {"denied", "failed"}
    /\ pc[r] = "facade_result" => outcome[r] \in Outcomes
    /\ pc[r] # "done" => reply[r] = None
    /\ reply[r] = "applied" => outcome[r] = "applied"
RequestKnows == \A r \in Requests : Knows(r)

(* A planned transition is one the state machine allows for the command.   *)
PlansAreLegal ==
    \A r \in Requests :
        pc[r] \in {"lookup", "domain_check", "intent", "apply"} =>
            \E tr \in LegalTransitions(cmd[r]) :
                plan[r] = [from |-> tr.from, to |-> tr.to]

StatesFitKinds == \A t \in Targets : snap[t].state \in StatesOf(t)

(* A token held by a call is never ahead of the store, and behind it once  *)
(* the call has spent it.                                                  *)
TokensInOrder ==
    \A r \in Requests :
        /\ pc[r] # "new" => cmd[r].token <= snap[cmd[r].target].token
        /\ r \in applied => cmd[r].token < snap[cmd[r].target].token

(* The audit and authorisation a request has behind it.                    *)
Intents(r) ==
    /\ pc[r] \in {"facade_replay_result", "load", "lookup", "domain_check",
                  "intent", "apply"}
          => facadeAudit[r].intent
    /\ pc[r] \in {"lookup", "domain_check", "intent", "apply",
                  "replay_intent", "replay_result"}
          => Authorized(cmd[r])
    /\ pc[r] = "apply" => domainAudit[r].intent
    /\ pc[r] # "new" /\ domainAudit[r].intent => Authorized(cmd[r])
IntentsInOrder == \A r \in Requests : Intents(r)

IndexCoversActive ==
    \A a \in Agents : snap[a].state = "active" => active[BucketOf(a)] = a
IndexNamesActive ==
    \A b \in Buckets : active[b] # None =>
        /\ active[b] \in Agents
        /\ BucketOf(active[b]) = b
        /\ snap[active[b]].state = "active"

(* What the two trails hold where a request stands.                        *)
Trails(r) ==
    /\ pc[r] \in {"new", "shared_check", "facade_intent"} => ~facadeAudit[r].intent
    /\ pc[r] \in {"facade_replay_intent", "facade_replay_result"} => mode[r] = "replay"
    /\ mode[r] = "fresh" /\ pc[r] # "done" => facadeAudit[r].results = {}
    /\ pc[r] \in BeforeApply \cup {"new", "put", "result"} => domainAudit[r].results = {}
    /\ pc[r] = "put_again" \/ outcome[r] = "applied" => domainAudit[r].results = {"applied"}
TrailsFollow == FreshTrailMatchesReply /\ \A r \in Requests : Trails(r)

(* A stored domain fingerprint is that of a command some call applied.     *)
StoresAreBacked ==
    /\ \A d \in Kinds, k \in Keys :
          domain[d][k] # None =>
             \E q \in applied : /\ cmd[q].key = k
                                /\ DomainFingerprint(cmd[q]) = domain[d][k]
    /\ \A r \in Requests : pc[r] \in {"replay_intent", "replay_result"} => Backed(cmd[r])

(* A settled key stays settled: in the shared store, and in the store of   *)
(* the domain whose command settled it.                                    *)
InDomain(c) == domain[KindOf(c.target)][c.key] # None
Settles(r) ==
    /\ mode[r] = "replay" =>
          /\ InDomain(cmd[r])
          /\ pc[r] \notin {"new", "intent", "apply"} \cup AfterApply
          /\ r \notin applied
    /\ pc[r] \in {"put_again", "result", "shared_put"} \/ outcome[r] = "applied"
          => InDomain(cmd[r])
    /\ outcome[r] = "applied" /\ pc[r] \in {"facade_result", "done"} /\ reply[r] # "error"
          => shared[cmd[r].key] # None
    /\ \A q \in after[r] :
          /\ pc[r] # "new" /\ pc[q] = "done"
          /\ shared[cmd[q].key] # None
          /\ cmd[q].key = cmd[r].key /\ mode[r] = "fresh" =>
                pc[r] \in {"shared_check", "done"} /\ r \notin applied
KeysStaySettled ==
    /\ \A k \in Keys :
          shared[k] # None => domain[KindOf(shared[k].target)][k] # None
    /\ \A r \in Requests : Settles(r)

Inductive ==
    /\ TypeOK
    /\ RequestKnows
    /\ PlansAreLegal
    /\ StatesFitKinds
    /\ AccountFollowsState
    /\ TokensInOrder
    /\ TokenSpentOnce
    /\ IntentsInOrder
    /\ NothingBeforeIntent
    /\ IndexCoversActive
    /\ IndexNamesActive
    /\ TrailsFollow
    /\ StoresAreBacked
    /\ OutcomeIsTrue
    /\ KeysStaySettled

=============================================================================
