----------------------- MODULE ControlledWritesProofs -----------------------
(***************************************************************************)
(* The inductive invariant of ControlledWrites and what follows from it.   *)
(* Types are proved together with what each control point of a request     *)
(* implies (RequestKnows): neither is inductive alone, since apply() is    *)
(* well typed only because a plan was made.  The other parts are proved    *)
(* one by one on top of this Base; NextAll puts them together, and the     *)
(* theorems at the end read the properties off.                            *)
(***************************************************************************)
EXTENDS ControlledWrites, TLAPS

-----------------------------------------------------------------------------
(* Types, and what each control point implies.                             *)

(* The state machines relate states of the model by actions of the model.  *)
LEMMA TransitionTypes ==
    ASSUME NEW t \in Targets, NEW tr \in TransitionsOf(t)
    PROVE  tr.from \in States /\ tr.to \in States /\ tr.action \in Actions
BY DEF TransitionsOf, DriverTransitions, AgentTransitions, CustomerTransitions,
       Transition, KindOf, Targets, States, DriverStates, AgentStates,
       CustomerStates, Actions

(* Every target is of one of the three kinds.                              *)
LEMMA KindType == \A t \in Targets : KindOf(t) \in Kinds
BY DEF KindOf, Kinds

(* Every target has a country, and the country a canonical id.             *)
LEMMA CountryTypes ==
    ASSUME NEW t \in Targets
    PROVE  CountryOf[t] \in Countries /\ BucketOf(t) \in Buckets
BY WiringAssumption DEF BucketOf

(* A fingerprint of a command is never mistaken for an empty entry.        *)
LEMMA PrintTypes ==
    ASSUME NEW c \in Commands
    PROVE  /\ SharedFingerprint(c) \in SharedPrints
           /\ DomainFingerprint(c) \in DomainPrints
           /\ SharedFingerprint(c) # None
           /\ DomainFingerprint(c) # None
BY NoneAssumption
   DEF Commands, SharedFingerprint, DomainFingerprint, SharedPrints, DomainPrints

(* The base invariant: types, and what each control point implies.         *)
Base == TypeOK /\ RequestKnows

(* The seeded store is well typed and no request knows anything yet.       *)
LEMMA InitBase == Init => Base
<1> SUFFICES ASSUME Init PROVE Base OBVIOUS
<1>1. TypeOK
  <2>1. snap \in [Targets -> Snapshots]
    BY SeedAssumption DEF Init, Snapshots, AccountFor
  <2>2. active \in [Buckets -> Agents \cup {None}]
    BY DEF Init, SeedIndex
  <2> QED BY <2>1, <2>2 DEF Init, TypeOK, Steps, Trail
<1>2. RequestKnows
  BY NoneAssumption
     DEF Init, RequestKnows, Knows, BeforeApply, AfterApply, Replies, Outcomes
<1> QED BY <1>1, <1>2 DEF Base

(* A call with a well-formed command keeps types and knowledge.            *)
LEMMA CallBase ==
    ASSUME Base, NEW r \in Requests, NEW c \in Commands, Call(r, c)
    PROVE  Base'
BY DEF Base, TypeOK, RequestKnows, Knows, Call, Goto, stores, idem, outcomes,
   audits, Steps, FacadeSteps, DomainSteps, BeforeApply, AfterApply, Trail

(* Every way to call the facade passes a well-formed command whose token the *)
(* store has reached (submit, retry, API retry).                           *)
LEMMA CallsAreCommands ==
    ASSUME Base, NEW r \in Requests, Submit(r) \/ Retry(r) \/ ApiRetry(r)
    PROVE  \E c \in Commands :
              /\ Call(r, c)
              /\ TokensInOrder => c.token <= snap[c.target].token
<1>1. CASE Submit(r)
  <2>1. PICK a \in Actors, t \in Targets, k \in Keys : \E act \in ActionsOf(t) :
           Call(r, [actor |-> a, target |-> t, action |-> act,
                    expected |-> snap[t].state, token |-> snap[t].token, key |-> k])
    BY <1>1 DEF Submit
  <2>2. PICK act \in ActionsOf(t) :
           Call(r, [actor |-> a, target |-> t, action |-> act,
                    expected |-> snap[t].state, token |-> snap[t].token, key |-> k])
    BY <2>1
  <2>3. snap[t].state \in States /\ snap[t].token \in Nat /\ act \in Actions
    BY TransitionTypes DEF Base, TypeOK, Snapshots, ActionsOf
  <2>4. [actor |-> a, target |-> t, action |-> act, expected |-> snap[t].state,
         token |-> snap[t].token, key |-> k] \in Commands
    BY <2>3 DEF Commands
  <2> QED BY <2>2, <2>3, <2>4
<1>2. CASE Retry(r)
  BY <1>2 DEF Base, RequestKnows, Knows, Retry, TokensInOrder
<1>3. CASE ApiRetry(r)
  <2>1. PICK q \in Requests :
           pc[q] # "new" /\ Call(r, [cmd[q] EXCEPT !.token = snap[cmd[q].target].token])
    BY <1>3 DEF ApiRetry
  <2>2. cmd[q] \in Commands /\ snap[cmd[q].target].token \in Nat
    BY <2>1 DEF Base, TypeOK, RequestKnows, Knows, Commands, Snapshots
  <2>3. [cmd[q] EXCEPT !.token = snap[cmd[q].target].token] \in Commands
    BY <2>2 DEF Commands
  <2> QED BY <2>1, <2>2, <2>3 DEF Commands
<1> QED BY <1>1, <1>2, <1>3

(* Recording an intent keeps both audit trails well typed.                 *)
LEMMA IntentTypes ==
    ASSUME Base, NEW r \in Requests
    PROVE  /\ RecordFacadeIntent(r) => facadeAudit' \in [Requests -> Trail]
           /\ RecordDomainIntent(r) => domainAudit' \in [Requests -> Trail]
<1> facadeAudit \in [Requests -> Trail] /\ domainAudit \in [Requests -> Trail]
    BY DEF Base, TypeOK
<1> QED BY DEF RecordFacadeIntent, RecordDomainIntent, Trail

(* Recording a result keeps both audit trails well typed.                  *)
LEMMA ResultTypes ==
    ASSUME Base, NEW r \in Requests, NEW o \in Outcomes
    PROVE  /\ RecordFacadeResult(r, o) => facadeAudit' \in [Requests -> Trail]
           /\ RecordDomainResult(r, o) => domainAudit' \in [Requests -> Trail]
<1> facadeAudit \in [Requests -> Trail] /\ domainAudit \in [Requests -> Trail]
    BY DEF Base, TypeOK
<1> QED BY DEF RecordFacadeResult, RecordDomainResult, Trail

(* The steps of ControlledWritesService keep types and knowledge.          *)
LEMMA FacadeBase ==
    ASSUME Base, NEW r \in Requests, FacadeStep(r)
    PROVE  Base'
<1> USE DEF Base, Goto, Answer, stores, idem, outcomes, audits, Steps, FacadeSteps, DomainSteps
<1>1. CASE CheckShared(r)
  <2>1. /\ pc' \in [Requests -> Steps]
        /\ mode' \in [Requests -> {"fresh", "replay"}]
        /\ reply' \in [Requests -> Replies \cup {None}]
    <3>1. \/ Goto(r, "facade_intent") /\ UNCHANGED <<mode, reply>>
          \/ /\ Goto(r, "facade_replay_intent") /\ UNCHANGED reply
             /\ mode' = [mode EXCEPT ![r] = "replay"]
          \/ Answer(r, "denied") /\ UNCHANGED mode
       BY <1>1 DEF CheckShared
    <3> QED BY <3>1 DEF TypeOK, Replies, Outcomes
  <2>3. TypeOK' BY <1>1, <2>1 DEF CheckShared, TypeOK
  <2>2. RequestKnows'
    BY <1>1
       DEF CheckShared, RequestKnows, Knows, TypeOK, BeforeApply, AfterApply
  <2> QED BY <2>3, <2>2
<1>2. CASE FacadeIntent(r)
  <2>1. TypeOK' BY <1>2, IntentTypes DEF FacadeIntent, TypeOK
  <2>2. RequestKnows'
    BY <1>2
       DEF FacadeIntent, RequestKnows, Knows, TypeOK, BeforeApply, AfterApply
  <2> QED BY <2>1, <2>2
<1>3. CASE FacadeReplayIntent(r) 
  <2>1. TypeOK' BY <1>3, IntentTypes DEF FacadeReplayIntent, TypeOK
  <2>2. RequestKnows'
    BY <1>3
       DEF FacadeReplayIntent, RequestKnows, Knows, TypeOK, BeforeApply, AfterApply
  <2> QED BY <2>1, <2>2
<1>4. CASE FacadeReplayResult(r)
  <2>1. TypeOK' BY <1>4, ResultTypes DEF FacadeReplayResult, TypeOK, Outcomes
  <2>2. RequestKnows'
    BY <1>4
       DEF FacadeReplayResult, RequestKnows, Knows, TypeOK, BeforeApply, AfterApply
  <2> QED BY <2>1, <2>2
<1>5. CASE SharedPut(r)
  <2>1. TypeOK' BY <1>5, PrintTypes DEF SharedPut, TypeOK, RequestKnows, Knows
  <2>2. RequestKnows'
    BY <1>5
       DEF SharedPut, RequestKnows, Knows, TypeOK, BeforeApply, AfterApply, Outcomes
  <2> QED BY <2>1, <2>2
<1>6. CASE FacadeResult(r)
  <2>1. TypeOK'
    BY <1>6, ResultTypes
       DEF FacadeResult, TypeOK, RequestKnows, Knows, Replies
  <2>2. RequestKnows'
    BY <1>6
       DEF FacadeResult, RequestKnows, Knows, TypeOK, BeforeApply, AfterApply
  <2> QED BY <2>1, <2>2
<1> QED BY <1>1, <1>2, <1>3, <1>4, <1>5, <1>6 DEF FacadeStep

(* A return of the domain pipeline keeps control and answers well typed.   *)
LEMMA ReturnTypes ==
    ASSUME Base, NEW r \in Requests, NEW what \in Outcomes, DomainReturns(r, what)
    PROVE  /\ pc' \in [Requests -> Steps]
           /\ outcome' \in [Requests -> Outcomes \cup {None}]
           /\ reply' \in [Requests -> Replies \cup {None}]
<1> /\ pc \in [Requests -> Steps]
    /\ outcome \in [Requests -> Outcomes \cup {None}]
    /\ reply \in [Requests -> Replies \cup {None}]
    BY DEF Base, TypeOK
<1> QED BY DEF DomainReturns, Goto, Answer, Steps, DomainSteps, FacadeSteps, Replies

(* A return of the domain pipeline keeps what the requests know.           *)
LEMMA ReturnKnows ==
    ASSUME Base, NEW r \in Requests, NEW what \in Outcomes, DomainReturns(r, what),
           pc[r] \notin {"new", "done"}, what = "applied" => r \in applied,
           UNCHANGED <<cmd, plan, applied>>,
           \A q \in Requests : domainAudit'[q].intent = domainAudit[q].intent
    PROVE  RequestKnows'
<1> SUFFICES ASSUME NEW q \in Requests PROVE Knows(q)'
    BY DEF RequestKnows
<1> /\ Knows(q) /\ Knows(r)
    /\ pc \in [Requests -> Steps]
    /\ outcome \in [Requests -> Outcomes \cup {None}]
    /\ reply \in [Requests -> Replies \cup {None}]
    BY DEF Base, TypeOK, RequestKnows
<1>1. CASE q # r
  <2>1. /\ pc'[q] = pc[q] /\ outcome'[q] = outcome[q] /\ reply'[q] = reply[q]
        /\ domainAudit'[q].intent = domainAudit[q].intent
    BY <1>1 DEF DomainReturns, Goto, Answer
  <2> QED BY <2>1 DEF Knows
<1>2. CASE q = r
  <2>1. /\ outcome'[r] = what
        /\ \/ pc'[r] = "done" /\ reply'[r] = what
           \/ pc'[r] = "shared_put" /\ what = "applied" /\ reply'[r] = reply[r]
           \/ pc'[r] = "facade_result" /\ what # "applied" /\ reply'[r] = reply[r]
    BY DEF DomainReturns, Goto, Answer
  <2>2. cmd'[r] = cmd[r] /\ (r \in applied' <=> r \in applied)
    OBVIOUS
  <2> QED BY <1>2, <2>1, <2>2, NoneAssumption
          DEF Knows, BeforeApply, AfterApply, Replies, Outcomes
<1> QED BY <1>1, <1>2

(* The decision on a loaded snapshot, for any readiness check.             *)
LEMMA DecideBase ==
    ASSUME Base, NEW r \in Requests, NEW ready \in BOOLEAN,
           NEW next \in {"lookup", "domain_check"}, Decide(r, ready, next)
    PROVE  Base'
<1>1. cmd[r] \in Commands
  BY DEF Base, Decide, RequestKnows, Knows
<1>2. ASSUME NEW tr \in LegalTransitions(cmd[r])
      PROVE  [from |-> tr.from, to |-> tr.to] \in Plans
  BY <1>1, <1>2, TransitionTypes DEF LegalTransitions, Plans, Commands
<1>3. CASE DomainReturns(r, "denied") /\ UNCHANGED <<cmd, plan, applied, audits>>
  <2>1. TypeOK'
    BY <1>3, ReturnTypes DEF Base, Decide, TypeOK, stores, idem, audits, Outcomes
  <2>2. RequestKnows'
    BY <1>3, ReturnKnows DEF Decide, audits, Outcomes
  <2> QED BY <2>1, <2>2 DEF Base
<1>4. CASE /\ UNCHANGED <<outcomes, cmd, applied, audits>>
           /\ Goto(r, next)
           /\ \E tr \in LegalTransitions(cmd[r]) :
                 plan' = [plan EXCEPT ![r] = [from |-> tr.from, to |-> tr.to]]
  <2>1. TypeOK'
    BY <1>2, <1>4 DEF Base, Decide, TypeOK, Goto, stores, idem, audits, outcomes,
                      Steps, DomainSteps
  <2>2. RequestKnows'
    BY <1>2, <1>4 DEF Base, Decide, TypeOK, Goto, audits, outcomes, RequestKnows,
                      Knows, BeforeApply, AfterApply
  <2> QED BY <2>1, <2>2 DEF Base
<1> QED BY <1>3, <1>4 DEF Decide

(* The three load steps are that decision with their own checks.           *)
LEMMA LoadBase ==
    ASSUME Base, NEW r \in Requests,
           LoadDriver(r) \/ LoadCustomer(r) \/ LoadAgent(r)
    PROVE  Base'
<1>1. CASE LoadDriver(r)
   BY <1>1, DecideBase DEF LoadDriver, DriverReady
<1>2. CASE LoadCustomer(r)
   BY <1>2, DecideBase DEF LoadCustomer, CustomerReady
<1>3. CASE LoadAgent(r)
   BY <1>3, DecideBase DEF LoadAgent
<1> QED BY <1>1, <1>2, <1>3

(* The other steps of a domain pipeline that leave the stores alone.       *)
LEMMA PipelineBase ==
    ASSUME Base, NEW r \in Requests,
           \/ LookupActiveAgent(r) \/ CheckDomain(r) \/ ReplayIntent(r)
           \/ ReplayResult(r) \/ DomainIntent(r) \/ Put(r) \/ AppliedResult(r)
           \/ PutAgain(r) \/ FailureResult(r)
    PROVE  Base'
<1> USE DEF Base, stores, idem, audits, outcomes
<1>1. CASE LookupActiveAgent(r)
  <2>1. CASE DomainReturns(r, "denied")
    <3>1. TypeOK'
      BY <1>1, <2>1, ReturnTypes DEF LookupActiveAgent, TypeOK, Outcomes
    <3>2. RequestKnows'
      BY <1>1, <2>1, ReturnKnows DEF LookupActiveAgent, Outcomes
    <3> QED BY <3>1, <3>2
  <2>2. CASE Goto(r, "domain_check") /\ UNCHANGED outcomes
    <3>1. TypeOK'
      BY <1>1, <2>2 DEF LookupActiveAgent, Goto, TypeOK, Steps, DomainSteps
    <3>2. RequestKnows'
      BY <1>1, <2>2 DEF LookupActiveAgent, Goto, TypeOK, RequestKnows, Knows,
                        BeforeApply, AfterApply
    <3> QED BY <3>1, <3>2
  <2> QED BY <1>1, <2>1, <2>2 DEF LookupActiveAgent
<1>2. CASE CheckDomain(r)
  <2>1. CASE DomainReturns(r, "denied")
    <3>1. TypeOK'
      BY <1>2, <2>1, ReturnTypes DEF CheckDomain, TypeOK, Outcomes
    <3>2. RequestKnows'
      BY <1>2, <2>1, ReturnKnows DEF CheckDomain, Outcomes
    <3> QED BY <3>1, <3>2
  <2>2. CASE \E next \in {"intent", "replay_intent"} : Goto(r, next) /\ UNCHANGED outcomes
    <3>1. TypeOK'
      BY <1>2, <2>2 DEF CheckDomain, Goto, TypeOK, Steps, DomainSteps
    <3>2. RequestKnows'
      BY <1>2, <2>2 DEF CheckDomain, Goto, TypeOK, RequestKnows, Knows,
                        BeforeApply, AfterApply
    <3> QED BY <3>1, <3>2
  <2> QED BY <1>2, <2>1, <2>2 DEF CheckDomain
<1>3. CASE ReplayIntent(r) \/ DomainIntent(r)
  <2>1. TypeOK'
    BY <1>3, IntentTypes
       DEF ReplayIntent, DomainIntent, Goto, TypeOK, Steps, DomainSteps
  <2>2. RequestKnows'
    BY <1>3 DEF ReplayIntent, DomainIntent, Goto, RecordDomainIntent, TypeOK,
                RequestKnows, Knows, BeforeApply, AfterApply
  <2> QED BY <2>1, <2>2
<1>4. CASE ReplayResult(r)
  <2>1. TypeOK'
    BY <1>4, ResultTypes, ReturnTypes DEF ReplayResult, TypeOK, Outcomes
  <2>2. \A q \in Requests : domainAudit'[q].intent = domainAudit[q].intent
    BY <1>4 DEF ReplayResult, RecordDomainResult, TypeOK, Trail
  <2>3. RequestKnows'
    BY <1>4, <2>2, ReturnKnows DEF ReplayResult, Outcomes
  <2> QED BY <2>1, <2>3
<1>5. CASE Put(r)
  <2>1. TypeOK'
    BY <1>5, PrintTypes, KindType DEF Put, PutDomain, Goto, TypeOK, RequestKnows,
             Knows, Commands, Steps, DomainSteps
  <2>2. RequestKnows'
    BY <1>5 DEF Put, Goto, TypeOK, RequestKnows, Knows, BeforeApply, AfterApply
  <2> QED BY <2>1, <2>2
<1>6. CASE AppliedResult(r)
  <2>1. TypeOK'
    BY <1>6, ResultTypes DEF AppliedResult, Goto, TypeOK, Outcomes, Steps, DomainSteps
  <2>2. RequestKnows'
    BY <1>6 DEF AppliedResult, RecordDomainResult, Goto, TypeOK, RequestKnows, Knows,
                BeforeApply, AfterApply
  <2> QED BY <2>1, <2>2
<1>7. CASE PutAgain(r)
  <2>1. TypeOK'
    BY <1>7, PrintTypes, KindType, ReturnTypes DEF PutAgain, PutDomain, TypeOK,
             RequestKnows, Knows, Commands, Outcomes
  <2>2. RequestKnows'
    BY <1>7, ReturnKnows DEF PutAgain, Outcomes, RequestKnows, Knows, AfterApply
  <2> QED BY <2>1, <2>2
<1>8. CASE FailureResult(r)
  <2>1. outcome[r] \in {"denied", "failed"}
    BY <1>8 DEF FailureResult, RequestKnows, Knows
  <2>2. TypeOK'
    BY <1>8, <2>1, ResultTypes, ReturnTypes DEF FailureResult, TypeOK, Outcomes
  <2>3. \A q \in Requests : domainAudit'[q].intent = domainAudit[q].intent
    BY <1>8 DEF FailureResult, RecordDomainResult, TypeOK, Trail
  <2>4. RequestKnows'
    BY <1>8, <2>1, <2>3, ReturnKnows DEF FailureResult, Outcomes
  <2> QED BY <2>2, <2>4
<1> QED BY <1>1, <1>2, <1>3, <1>4, <1>5, <1>6, <1>7, <1>8

(* The mutation inside apply(), with any well-typed index after it.        *)
LEMMA MutateBase ==
    ASSUME Base, NEW r \in Requests, pc[r] = "apply", Mutate(r),
           active' \in [Buckets -> Agents \cup {None}],
           UNCHANGED <<idem, cmd, mode, plan, audits, after, faults>>
    PROVE  Base'
<1> DEFINE t == cmd[r].target
<1>1. cmd[r] \in Commands /\ plan[r] \in Plans /\ t \in Targets
  BY DEF Base, RequestKnows, Knows, Commands
<1>2. snap[t] \in Snapshots
  BY <1>1 DEF Base, TypeOK
<1>3. AccountAfter(t, plan[r].from, plan[r].to) \in {"enabled", "disabled"}
  <2>1. KindOf(t) \in {"driver", "agent", "customer"} /\ snap[t].account \in {"enabled", "disabled"}
    BY <1>1, <1>2, KindType DEF Snapshots, Kinds
  <2>2. CASE KindOf(t) = "driver" BY <2>1, <2>2 DEF AccountAfter
  <2>3. CASE KindOf(t) = "agent" BY <2>1, <2>3 DEF AccountAfter
  <2>4. CASE KindOf(t) = "customer" BY <2>1, <2>4 DEF AccountAfter
  <2> QED BY <2>1, <2>2, <2>3, <2>4
<1>4. [state |-> plan[r].to, token |-> snap[t].token + 1,
       account |-> AccountAfter(t, plan[r].from, plan[r].to),
       trip |-> snap[t].trip] \in Snapshots
  BY <1>1, <1>2, <1>3 DEF Snapshots, Plans
<1>5. snap' \in [Targets -> Snapshots]
  BY <1>1, <1>4 DEF Mutate, Base, TypeOK
<1>6. TypeOK'
  BY <1>5 DEF Base, TypeOK, Mutate, Goto, idem, audits, outcomes, Steps, DomainSteps
<1>7. RequestKnows'
  BY DEF Base, TypeOK, RequestKnows, Knows, Mutate, Goto, audits, outcomes,
     BeforeApply, AfterApply
<1> QED BY <1>6, <1>7 DEF Base

(* A throw caught around the repository, from apply() or a rejected port.  *)
LEMMA RefuseBase ==
    ASSUME Base, NEW r \in Requests, NEW why \in {"denied", "failed"},
           pc[r] \in {"apply", "put", "result", "put_again"},
           outcome' = [outcome EXCEPT ![r] = why], Goto(r, "fail_result"),
           faults' \in Nat,
           UNCHANGED <<snap, active, idem, cmd, mode, plan, applied, reply, audits, after>>
    PROVE  Base'
<1>1. TypeOK'
  BY DEF Base, TypeOK, Goto, idem, audits, Outcomes, Steps, DomainSteps
<1>2. RequestKnows'
  <2> SUFFICES ASSUME NEW q \in Requests PROVE Knows(q)'
    BY DEF RequestKnows
  <2>1. Knows(q) /\ cmd[r] \in Commands /\ reply[r] = None
    BY DEF Base, RequestKnows, Knows
  <2>2. CASE q # r
    BY <2>1, <2>2 DEF Base, TypeOK, Goto, audits, Knows
  <2>3. CASE q = r
    BY <2>1, <2>3, NoneAssumption
       DEF Base, TypeOK, Goto, audits, Knows, BeforeApply, AfterApply,
       Replies, Outcomes
  <2> QED BY <2>2, <2>3
<1> QED BY <1>1, <1>2 DEF Base

(* The three apply() sections.                                             *)
LEMMA ApplyBase ==
    ASSUME Base, NEW r \in Requests,
           ApplyDriver(r) \/ ApplyCustomer(r) \/ ApplyAgent(r)
    PROVE  Base'
<1>1. CASE ApplyDriver(r) \/ ApplyCustomer(r)
  <2>1. pc[r] = "apply" /\ UNCHANGED <<active, idem, cmd, mode, plan, audits, after, faults>>
    BY <1>1 DEF ApplyDriver, ApplyCustomer
  <2>2. CASE Mutate(r)
    BY <2>1, <2>2, MutateBase DEF Base, TypeOK
  <2>3. CASE Refuse(r, "denied")
    BY <2>1, <2>3, RefuseBase DEF Refuse, Base, TypeOK
  <2> QED BY <1>1, <2>2, <2>3 DEF ApplyDriver, ApplyCustomer
<1>2. CASE ApplyAgent(r)
  <2>1. /\ pc[r] = "apply"
        /\ cmd[r].target \in Agents
        /\ UNCHANGED <<idem, cmd, mode, plan, audits, after, faults>>
    BY <1>2 DEF ApplyAgent
  <2>2. CASE Mutate(r) /\ active' = IndexAfter(r)
    <3>1. IndexAfter(r) \in [Buckets -> Agents \cup {None}]
      BY <2>1, CountryTypes DEF IndexAfter, Base, TypeOK, Targets
    <3> QED BY <2>1, <2>2, <3>1, MutateBase
  <2>3. CASE Refuse(r, "denied") /\ UNCHANGED active
    BY <2>1, <2>3, RefuseBase DEF Refuse, Base, TypeOK
  <2> QED BY <1>2, <2>2, <2>3 DEF ApplyAgent
<1> QED BY <1>1, <1>2

(* A rejected port call.                                                   *)
LEMMA FailBase ==
    ASSUME Base, NEW r \in Requests, PortFails(r)
    PROVE  Base'
<1> USE DEF PortFails, stores, idem, audits
<1>1. faults' \in Nat
  BY DEF Base, TypeOK
<1>2. CASE pc[r] \in FacadeSteps /\ Answer(r, "error") /\ UNCHANGED outcome
  <2>1. TypeOK'
    BY <1>1, <1>2 DEF Base, TypeOK, Answer, Goto, Steps, Replies
  <2>2. RequestKnows'
    BY <1>2
       DEF Base, TypeOK, Answer, Goto, RequestKnows, Knows, BeforeApply, AfterApply,
       FacadeSteps
  <2> QED BY <2>1, <2>2 DEF Base
<1>3. CASE DomainReturns(r, "failed") /\ pc[r] \notin {"new", "done"}
  <2>1. TypeOK'
    BY <1>1, <1>3, ReturnTypes DEF Base, TypeOK, Outcomes
  <2>2. RequestKnows'
    BY <1>3, ReturnKnows DEF Outcomes
  <2> QED BY <2>1, <2>2 DEF Base
<1>4. CASE /\ pc[r] \in {"apply", "put", "result", "put_again"}
           /\ outcome' = [outcome EXCEPT ![r] = "failed"]
           /\ Goto(r, "fail_result")
           /\ UNCHANGED reply
  BY <1>1, <1>4, RefuseBase
<1> QED BY <1>2, <1>3, <1>4

(* Trips and resubmissions.                                                *)
LEMMA WorldBase ==
    ASSUME Base, NEW t \in Targets, TripChanges(t) \/ Resubmit(t)
    PROVE  Base'
<1>1. snap' \in [Targets -> Snapshots]
  BY DEF Base, TypeOK, Snapshots, TripChanges, Resubmit, States, DriverStates, Targets
<1>2. UNCHANGED <<active, idem, pc, cmd, mode, plan, applied, outcomes, audits, after, faults>>
  BY DEF TripChanges, Resubmit
<1> QED
  BY <1>1, <1>2 DEF Base, TypeOK, RequestKnows, Knows, idem, outcomes, audits

(* Nothing changes.                                                        *)
LEMMA StutterBase == ASSUME Base, UNCHANGED vars PROVE Base'
BY DEF Base, TypeOK, RequestKnows, Knows, vars

(* Every step keeps the base invariant.                                    *)
LEMMA NextBase == ASSUME Base, [Next]_vars PROVE Base'
BY CallsAreCommands, CallBase, FacadeBase, LoadBase, PipelineBase, ApplyBase, FailBase,
   WorldBase, StutterBase DEF Next, DomainStep

(* Types are kept and every request knows what its control point implies.  *)
THEOREM BaseHolds == Spec => []Base
BY InitBase, NextBase, PTL DEF Spec

(* Type correctness: every value the stores, trails and requests hold is   *)
(* one the code can put there.                                             *)
THEOREM TypesHold == Spec => []TypeOK
<1>1. Base => TypeOK
  BY DEF Base
<1> QED BY <1>1, BaseHolds, PTL

-----------------------------------------------------------------------------
(* The parts on top of Base.                                               *)

(* apply() succeeds: the checks it repeats under the lock held.            *)
Writes(r) ==
    /\ pc[r] = "apply" /\ StillCurrent(r) /\ Mutate(r) /\ UNCHANGED cmd
    /\ IF cmd[r].target \in Agents
       THEN ~CountryTaken(r) /\ active' = IndexAfter(r)
       ELSE UNCHANGED active
    /\ cmd[r].target \in Customers => ~CustomerMidTrip(r)

(* Stores and commands are left alone.                                     *)
Quiet ==
    /\ UNCHANGED <<cmd, applied, snap, active>>
    /\ \A q \in Requests : pc'[q] = "new" <=> pc[q] = "new"

(* A step is one of four shapes, as far as the stores and commands go: it leaves *)
(* them alone, it is a call, a write, or a change from outside.            *)
LEMMA Shapes ==
    ASSUME Base, [Next]_vars
    PROVE  \/ Quiet
           \/ \E r \in Requests : Submit(r) \/ Retry(r) \/ ApiRetry(r)
           \/ \E r \in Requests : Writes(r)
           \/ \E t \in Targets : TripChanges(t) \/ Resubmit(t)
<1> pc \in [Requests -> Steps]
  BY DEF Base, TypeOK
<1> USE DEF stores, Goto, Answer, DomainReturns
<1>1. ASSUME NEW r \in Requests, FacadeStep(r)
      PROVE  Quiet
  BY <1>1
     DEF FacadeStep, CheckShared, FacadeIntent, FacadeReplayIntent, FacadeReplayResult,
              SharedPut, FacadeResult, Quiet
<1>2. ASSUME NEW r \in Requests, \/ LoadDriver(r) \/ LoadCustomer(r) \/ LoadAgent(r)
      PROVE  Quiet
  BY <1>2 DEF LoadDriver, LoadCustomer, LoadAgent, Decide, Quiet
<1>3. ASSUME NEW r \in Requests,
             \/ LookupActiveAgent(r) \/ CheckDomain(r) \/ ReplayIntent(r)
             \/ ReplayResult(r) \/ DomainIntent(r) \/ Put(r) \/ AppliedResult(r)
             \/ PutAgain(r) \/ FailureResult(r)
      PROVE  Quiet
  BY <1>3
     DEF LookupActiveAgent, CheckDomain, ReplayIntent, ReplayResult, DomainIntent, Put,
              AppliedResult, PutAgain, FailureResult, Quiet
<1>4. ASSUME NEW r \in Requests, PortFails(r)
      PROVE  Quiet
  BY <1>4 DEF PortFails, FacadeSteps, Quiet
<1>5. ASSUME NEW r \in Requests, ApplyDriver(r) \/ ApplyCustomer(r) \/ ApplyAgent(r)
      PROVE  Quiet \/ Writes(r)
  <2>1. CASE ApplyDriver(r)
    BY <1>5, <2>1, KindAssumption DEF ApplyDriver, Refuse, Writes, Quiet
  <2>2. CASE ApplyCustomer(r)
    BY <1>5, <2>2, KindAssumption DEF ApplyCustomer, Refuse, Writes, Quiet
  <2>3. CASE ApplyAgent(r)
    BY <1>5, <2>3, KindAssumption DEF ApplyAgent, Refuse, Writes, Quiet
  <2> QED BY <1>5, <2>1, <2>2, <2>3
<1>6. CASE UNCHANGED vars
  BY <1>6 DEF vars, Quiet
<1> HIDE DEF stores, Goto, Answer, DomainReturns
<1> QED
  BY <1>1, <1>2, <1>3, <1>4, <1>5, <1>6 DEF Next, DomainStep

(* The parts of the inductive invariant, in groups proved together.        *)
TokenInv == TokensInOrder /\ TokenSpentOnce

(* A call with a token the store has reached keeps the tokens in order.    *)
LEMMA CallTokens ==
    ASSUME Base, TokenInv, NEW r \in Requests, NEW c \in Commands, Call(r, c),
           c.token <= snap[c.target].token
    PROVE  TokenInv'
<1>1. r \notin applied /\ cmd'[r] = c /\ UNCHANGED <<snap, applied>>
  BY DEF Base, TypeOK, RequestKnows, Knows, Call, stores
<1>2. \A q \in Requests : q # r => cmd'[q] = cmd[q] /\ pc'[q] = pc[q]
  BY DEF Base, TypeOK, Call, Goto
<1>3. applied \subseteq Requests
  BY DEF Base, TypeOK
<1> QED BY <1>1, <1>2, <1>3 DEF TokenInv, TokensInOrder, TokenSpentOnce

(* Tokens stay in order: a write spends the current token and moves past it. *)
LEMMA NextTokens == ASSUME Base, TokenInv, [Next]_vars PROVE TokenInv'
<1>1. CASE Quiet
  BY <1>1 DEF Base, TypeOK, Quiet, TokenInv, TokensInOrder, TokenSpentOnce
<1>2. ASSUME NEW r \in Requests, Submit(r) \/ Retry(r) \/ ApiRetry(r) PROVE TokenInv'
  BY <1>2, CallsAreCommands, CallTokens DEF TokenInv
<1>5. ASSUME NEW r \in Requests, Writes(r) PROVE TokenInv'
  <2> DEFINE t == cmd[r].target
  <2>1. t \in Targets /\ cmd[r] \in Commands
    BY <1>5 DEF Writes, Base, RequestKnows, Knows, Commands
  <2>2. /\ cmd[r].token = snap[t].token
        /\ snap'[t].token = snap[t].token + 1
        /\ \A u \in Targets : u # t => snap'[u] = snap[u]
        /\ applied' = applied \cup {r} /\ UNCHANGED cmd
        /\ \A q \in Requests : pc'[q] = "new" <=> pc[q] = "new"
    BY <1>5, <2>1 DEF Writes, StillCurrent, Mutate, Base, TypeOK, Goto
  <2>3. \A q \in Requests :
           pc[q] # "new" => cmd[q].target \in Targets /\ cmd[q].token \in Nat
    BY DEF Base, RequestKnows, Knows, Commands
  <2>4. \A u \in Targets : snap[u].token \in Nat
    BY DEF Base, TypeOK, Snapshots
  <2>5. \A q \in applied : q \in Requests /\ pc[q] # "new"
    BY DEF Base, TypeOK, RequestKnows, Knows
  <2>6. TokensInOrder'
    <3> SUFFICES ASSUME NEW q \in Requests
                 PROVE  /\ pc'[q] # "new" => cmd[q].token <= snap'[cmd[q].target].token
                        /\ q \in applied' => cmd[q].token < snap'[cmd[q].target].token
      BY <2>2 DEF TokensInOrder
    <3>1. pc[q] # "new" => cmd[q].token <= snap[cmd[q].target].token
      BY DEF TokenInv, TokensInOrder
    <3>2. q \in applied => cmd[q].token < snap[cmd[q].target].token
      BY DEF TokenInv, TokensInOrder
    <3>3. q = r \/ q \in applied => pc[q] # "new"
      BY <1>5, <2>5 DEF Writes
    <3> QED
      BY <2>1, <2>2, <2>3, <2>4, <3>1, <3>2, <3>3
  <2>7. TokenSpentOnce'
    BY <2>1, <2>2, <2>3, <2>4, <2>5 DEF TokenInv, TokensInOrder, TokenSpentOnce
  <2> QED BY <2>6, <2>7 DEF TokenInv
<1>6. ASSUME NEW t \in Targets, TripChanges(t) \/ Resubmit(t) PROVE TokenInv'
  <2>1. /\ \A u \in Targets : snap'[u].token \in Nat /\ snap[u].token <= snap'[u].token
        /\ \A u \in Targets : snap[u].token \in Nat
    <3>1. snap \in [Targets -> Snapshots]
      BY DEF Base, TypeOK
    <3>2. CASE TripChanges(t)
      BY <3>1, <3>2 DEF TripChanges, Snapshots
    <3>3. CASE Resubmit(t)
      BY <3>1, <3>3 DEF Resubmit, Snapshots
    <3> QED BY <1>6, <3>2, <3>3
  <2>2. UNCHANGED <<pc, cmd, applied>>
    BY <1>6 DEF TripChanges, Resubmit
  <2>3. \A q \in Requests :
           pc[q] # "new" => cmd[q].target \in Targets /\ cmd[q].token \in Nat
    BY DEF Base, RequestKnows, Knows, Commands
  <2>4. \A q \in applied : q \in Requests /\ pc[q] # "new"
    BY DEF Base, TypeOK, RequestKnows, Knows
  <2> QED BY <2>1, <2>2, <2>3, <2>4 DEF TokenInv, TokensInOrder, TokenSpentOnce
<1> QED BY <1>1, <1>2, <1>5, <1>6, Shapes

(* No token has been spent at the start.                                   *)
LEMMA InitTokens == Init => TokenInv
BY DEF Init, TokenInv, TokensInOrder, TokenSpentOnce

(* The rebuilt index names every active agent of the seed.                 *)
LEMMA InitIndex == Init => IndexCoversActive
<1> SUFFICES ASSUME Init, NEW a \in Agents, snap[a].state = "active"
             PROVE  active[BucketOf(a)] = a
  BY DEF IndexCoversActive
<1>1. Seed[a] = "active" /\ BucketOf(a) \in Buckets
  BY CountryTypes DEF Init, Targets
<1>2. \A c \in Agents : Seed[c] = "active" /\ BucketOf(c) = BucketOf(a) => c = a
  BY <1>1, SeedAssumption
<1>3. {c \in Agents : Seed[c] = "active" /\ BucketOf(c) = BucketOf(a)} = {a}
  BY <1>1, <1>2
<1> QED BY <1>1, <1>3 DEF Init, SeedIndex

(* The index covers the active agents: a write that activates one found no *)
(* other in the entry of its country.                                      *)
LEMMA NextIndex == ASSUME Base, IndexCoversActive, [Next]_vars PROVE IndexCoversActive'
<1>1. CASE Quiet
  BY <1>1 DEF Quiet, IndexCoversActive
<1>2. ASSUME NEW r \in Requests, Submit(r) \/ Retry(r) \/ ApiRetry(r)
      PROVE  IndexCoversActive'
  BY <1>2 DEF Submit, Retry, ApiRetry, Call, stores, IndexCoversActive
<1>3. ASSUME NEW r \in Requests, Writes(r) PROVE IndexCoversActive'
  <2> DEFINE t == cmd[r].target
  <2>1. t \in Targets /\ plan[r] \in Plans /\ snap[t].state = plan[r].from
    BY <1>3 DEF Writes, StillCurrent, Base, RequestKnows, Knows, Commands
  <2>2. snap'[t].state = plan[r].to /\ \A u \in Targets : u # t => snap'[u] = snap[u]
    BY <1>3, <2>1 DEF Writes, Mutate, Base, TypeOK
  <2>3. Agents \subseteq Targets
    BY DEF Targets
  <2>4. CASE t \notin Agents
    BY <1>3, <2>2, <2>3, <2>4 DEF Writes, IndexCoversActive
  <2>5. CASE t \in Agents
    <3>1. active' = IndexAfter(r) /\ ~CountryTaken(r)
      BY <1>3, <2>5 DEF Writes
    <3>2. active \in [Buckets -> Agents \cup {None}] /\ \A a \in Agents : BucketOf(a) \in Buckets
      BY <2>3, CountryTypes DEF Base, TypeOK
    <3> SUFFICES ASSUME NEW a \in Agents, snap'[a].state = "active"
                 PROVE  active'[BucketOf(a)] = a
      BY DEF IndexCoversActive
    <3>3. CASE a = t
      BY <2>2, <2>5, <3>1, <3>2, <3>3 DEF IndexAfter
    <3>4. CASE a # t
      <4>1. active[BucketOf(a)] = a
        BY <2>2, <2>3, <3>4 DEF IndexCoversActive
      <4>2. CASE plan[r].to = "active"
        <5>1. BucketOf(a) # BucketOf(t)
          BY <3>1, <3>4, <4>1, <4>2, NoneAssumption DEF CountryTaken, OtherActive
        <5> QED BY <3>1, <3>2, <4>1, <4>2, <5>1 DEF IndexAfter
      <4>3. CASE plan[r].to # "active"
        BY <3>1, <3>2, <3>4, <4>1, <4>3 DEF IndexAfter
      <4> QED BY <4>2, <4>3
    <3> QED BY <3>3, <3>4
  <2> QED BY <2>4, <2>5
<1>4. ASSUME NEW t \in Targets, TripChanges(t) \/ Resubmit(t) PROVE IndexCoversActive'
  <2>1. \A a \in Agents : snap'[a] = snap[a]
    BY <1>4, KindAssumption DEF TripChanges, Resubmit, Base, TypeOK, Targets
  <2> QED BY <1>4, <2>1 DEF TripChanges, Resubmit, IndexCoversActive
<1> QED BY <1>1, <1>2, <1>3, <1>4, Shapes

(* Every entry of the rebuilt index is an active agent of its country.      *)
LEMMA InitNames == Init => IndexNamesActive
<1> SUFFICES ASSUME Init, NEW b \in Buckets, active[b] # None
             PROVE  active[b] \in Agents /\ BucketOf(active[b]) = b
                    /\ snap[active[b]].state = "active"
  BY DEF IndexNamesActive
<1>1. active[b] \in {a \in Agents : Seed[a] = "active" /\ BucketOf(a) = b}
  BY DEF Init, SeedIndex
<1>2. \A a \in Agents : snap[a].state = Seed[a]
  BY DEF Init, Targets
<1> QED BY <1>1, <1>2

(* An entry goes with the agent it names: activation replaces it by the     *)
(* agent it found room for, leaving the active state removes it.           *)
LEMMA NextNames == ASSUME Base, IndexNamesActive, [Next]_vars PROVE IndexNamesActive'
<1>1. CASE Quiet
  BY <1>1 DEF Quiet, IndexNamesActive
<1>2. ASSUME NEW r \in Requests, Submit(r) \/ Retry(r) \/ ApiRetry(r)
      PROVE  IndexNamesActive'
  BY <1>2 DEF Submit, Retry, ApiRetry, Call, stores, IndexNamesActive
<1>3. ASSUME NEW r \in Requests, Writes(r) PROVE IndexNamesActive'
  <2> DEFINE t == cmd[r].target
  <2>1. t \in Targets /\ snap[t].state = plan[r].from
    BY <1>3 DEF Writes, StillCurrent, Base, RequestKnows, Knows, Commands
  <2>2. snap'[t].state = plan[r].to /\ \A u \in Targets : u # t => snap'[u] = snap[u]
    BY <1>3, <2>1 DEF Writes, Mutate, Base, TypeOK
  <2>3. Agents \subseteq Targets
    BY DEF Targets
  <2>4. CASE t \notin Agents
    BY <1>3, <2>2, <2>3, <2>4 DEF Writes, IndexNamesActive
  <2>5. CASE t \in Agents
    <3>1. active' = IndexAfter(r)
      BY <1>3, <2>5 DEF Writes
    <3>2. active \in [Buckets -> Agents \cup {None}] /\ BucketOf(t) \in Buckets
      BY <2>3, <2>5, CountryTypes DEF Base, TypeOK
    <3> SUFFICES ASSUME NEW b \in Buckets, active'[b] # None
                 PROVE  active'[b] \in Agents /\ BucketOf(active'[b]) = b
                        /\ snap'[active'[b]].state = "active"
      BY DEF IndexNamesActive
    <3>3. CASE active'[b] = active[b] /\ active[b] # t
      BY <2>2, <2>3, <3>3 DEF IndexNamesActive
    <3>4. CASE active'[b] = active[b] /\ active[b] = t
      <4>1. BucketOf(t) = b /\ plan[r].from = "active"
        BY <2>1, <3>4 DEF IndexNamesActive
      <4>2. plan[r].to = "active"
        BY <3>1, <3>2, <3>4, <4>1, NoneAssumption DEF IndexAfter
      <4> QED BY <2>2, <2>5, <3>4, <4>1, <4>2
    <3>5. CASE active'[b] # active[b]
      <4>1. b = BucketOf(t) /\ active'[b] = t /\ plan[r].to = "active"
        BY <3>1, <3>2, <3>5 DEF IndexAfter
      <4> QED BY <2>2, <2>5, <4>1
    <3> QED BY <3>3, <3>4, <3>5
  <2> QED BY <2>4, <2>5
<1>4. ASSUME NEW t \in Targets, TripChanges(t) \/ Resubmit(t) PROVE IndexNamesActive'
  <2>1. \A a \in Agents : snap'[a] = snap[a]
    BY <1>4, KindAssumption DEF TripChanges, Resubmit, Base, TypeOK, Targets
  <2> QED BY <1>4, <2>1 DEF TripChanges, Resubmit, IndexNamesActive
<1> QED BY <1>1, <1>2, <1>3, <1>4, Shapes

(* What one request does, from its call to its answer.                     *)
RequestStep(r) == \/ Submit(r) \/ Retry(r) \/ ApiRetry(r)
                  \/ FacadeStep(r) \/ DomainStep(r) \/ PortFails(r)

(* Everything request q owns is left alone.                                *)
Same(q) ==
    /\ pc'[q] = pc[q] /\ cmd'[q] = cmd[q] /\ mode'[q] = mode[q] /\ plan'[q] = plan[q]
    /\ outcome'[q] = outcome[q] /\ reply'[q] = reply[q] /\ after'[q] = after[q]
    /\ domainAudit'[q] = domainAudit[q] /\ facadeAudit'[q] = facadeAudit[q]
    /\ q \in applied' <=> q \in applied

(* A step of one request leaves everything another request owns alone.     *)
LEMMA Frame ==
    ASSUME Base, NEW r \in Requests, NEW q \in Requests, q # r, RequestStep(r)
    PROVE  Same(q)
<1>1. /\ pc \in [Requests -> Steps] /\ mode \in [Requests -> {"fresh", "replay"}]
      /\ cmd \in [Requests -> Commands \cup {None}]
      /\ outcome \in [Requests -> Outcomes \cup {None}]
      /\ reply \in [Requests -> Replies \cup {None}]
      /\ domainAudit \in [Requests -> Trail] /\ facadeAudit \in [Requests -> Trail]
      /\ after \in [Requests -> SUBSET Requests] /\ plan \in [Requests -> Plans \cup {None}]
  BY DEF Base, TypeOK
<1> USE <1>1 DEF Same, Goto, Answer, stores, idem, outcomes, audits, DomainReturns,
    RecordFacadeIntent, RecordFacadeResult, RecordDomainIntent, RecordDomainResult
<1>2. CASE Submit(r) \/ Retry(r) \/ ApiRetry(r)
  BY <1>2 DEF Submit, Retry, ApiRetry, Call
<1>3. CASE FacadeStep(r)
  BY <1>3 DEF FacadeStep, CheckShared, FacadeIntent, FacadeReplayIntent,
              FacadeReplayResult, SharedPut, FacadeResult
<1>4. CASE LoadDriver(r) \/ LoadCustomer(r) \/ LoadAgent(r)
  BY <1>4 DEF LoadDriver, LoadCustomer, LoadAgent, Decide
<1>5. CASE LookupActiveAgent(r) \/ CheckDomain(r) \/ ReplayIntent(r) \/ ReplayResult(r)
  BY <1>5 DEF LookupActiveAgent, CheckDomain, ReplayIntent, ReplayResult
<1>6. CASE DomainIntent(r) \/ Put(r) \/ AppliedResult(r) \/ PutAgain(r) \/ FailureResult(r)
  BY <1>6 DEF DomainIntent, Put, AppliedResult, PutAgain, FailureResult
<1>7. CASE ApplyDriver(r) \/ ApplyCustomer(r) \/ ApplyAgent(r)
  BY <1>7 DEF ApplyDriver, ApplyCustomer, ApplyAgent, Mutate, Refuse
<1>8. CASE PortFails(r)
  BY <1>8 DEF PortFails
<1> QED
  BY <1>2, <1>3, <1>4, <1>5, <1>6, <1>7, <1>8 DEF RequestStep, DomainStep

AuditInv == IntentsInOrder /\ NothingBeforeIntent

(* Intents are written before what they announce.                          *)
LEMMA NextAudit == ASSUME Base, AuditInv, [Next]_vars PROVE AuditInv'
<1>1. ASSUME NEW r \in Requests, RequestStep(r) PROVE AuditInv'
  <2> SUFFICES ASSUME NEW q \in Requests
               PROVE  /\ Intents(q)'
                      /\ q \in applied' => domainAudit'[q].intent /\ facadeAudit'[q].intent
                      /\ domainAudit'[q].intent => Authorized(cmd'[q])
    BY DEF AuditInv, IntentsInOrder, NothingBeforeIntent
  <2>1. /\ Intents(q) /\ Knows(q)
        /\ q \in applied => domainAudit[q].intent /\ facadeAudit[q].intent
        /\ domainAudit[q].intent => Authorized(cmd[q])
    BY DEF AuditInv, IntentsInOrder, NothingBeforeIntent, Base, RequestKnows
  <2>2. CASE q # r
    <3>1. Same(q)
      BY <1>1, <2>2, Frame
    <3> QED BY <2>1, <3>1 DEF Same, Intents, Authorized
  <2>3. CASE q = r
    <3>1. /\ pc \in [Requests -> Steps] /\ cmd \in [Requests -> Commands \cup {None}]
          /\ domainAudit \in [Requests -> Trail] /\ facadeAudit \in [Requests -> Trail]
      BY DEF Base, TypeOK
    <3> USE <2>1, <2>3, <3>1 DEF Intents, Authorized, Goto, Answer, DomainReturns, audits, Trail
    <3>2. CASE Submit(r) \/ Retry(r) \/ ApiRetry(r)
      BY <3>2 DEF Submit, Retry, ApiRetry, Call, Knows
    <3>3. CASE FacadeStep(r)
      <4>1. CASE CheckShared(r) \/ SharedPut(r)
        BY <4>1 DEF CheckShared, SharedPut
      <4>2. CASE FacadeIntent(r) \/ FacadeReplayIntent(r)
        BY <4>2 DEF FacadeIntent, FacadeReplayIntent, RecordFacadeIntent
      <4>3. CASE FacadeReplayResult(r) \/ FacadeResult(r)
        BY <4>3 DEF FacadeReplayResult, FacadeResult, RecordFacadeResult
      <4> QED BY <3>3, <4>1, <4>2, <4>3 DEF FacadeStep
    <3>4. CASE LoadDriver(r) \/ LoadCustomer(r) \/ LoadAgent(r)
      BY <3>4 DEF LoadDriver, LoadCustomer, LoadAgent, Decide
    <3>5. CASE LookupActiveAgent(r) \/ CheckDomain(r) \/ ReplayIntent(r) \/ ReplayResult(r)
      BY <3>5 DEF LookupActiveAgent, CheckDomain, ReplayIntent, ReplayResult,
                  RecordDomainIntent, RecordDomainResult
    <3>6. CASE DomainIntent(r) \/ Put(r) \/ AppliedResult(r) \/ PutAgain(r) \/ FailureResult(r)
      BY <3>6 DEF DomainIntent, Put, AppliedResult, PutAgain, FailureResult,
                  RecordDomainIntent, RecordDomainResult
    <3>7. CASE ApplyDriver(r) \/ ApplyCustomer(r) \/ ApplyAgent(r)
      BY <3>7 DEF ApplyDriver, ApplyCustomer, ApplyAgent, Mutate, Refuse
    <3>8. CASE PortFails(r)
      BY <3>8 DEF PortFails, FacadeSteps
    <3> QED
      BY <1>1, <3>2, <3>3, <3>4, <3>5, <3>6, <3>7, <3>8 DEF RequestStep, DomainStep
  <2> QED BY <2>2, <2>3
<1>2. ASSUME NEW t \in Targets, TripChanges(t) \/ Resubmit(t) PROVE AuditInv'
  BY <1>2 DEF TripChanges, Resubmit, audits, AuditInv, IntentsInOrder, Intents,
              NothingBeforeIntent, Authorized
<1>3. CASE UNCHANGED vars
  BY <1>3 DEF vars, AuditInv, IntentsInOrder, Intents, NothingBeforeIntent, Authorized
<1> QED BY <1>1, <1>2, <1>3 DEF Next, RequestStep

(* The two trails of a request follow it from its call to its answer: the  *)
(* facade's result is the last thing a fresh call writes.                  *)
LEMMA NextTrails == ASSUME Base, TrailsFollow, [Next]_vars PROVE TrailsFollow'
<1> DEFINE Matches(q) ==
      pc[q] = "done" /\ mode[q] = "fresh" /\ facadeAudit[q].intent /\ reply[q] # "error" =>
         /\ facadeAudit[q].results = {reply[q]}
         /\ reply[q] = "applied" => domainAudit[q].results = {"applied"}
<1>1. ASSUME NEW r \in Requests, RequestStep(r) PROVE TrailsFollow'
  <2> SUFFICES ASSUME NEW q \in Requests PROVE Matches(q)' /\ Trails(q)'
    BY DEF TrailsFollow, FreshTrailMatchesReply
  <2>1. Matches(q) /\ Trails(q) /\ Knows(q)
    BY DEF TrailsFollow, FreshTrailMatchesReply, Base, RequestKnows
  <2>2. CASE q # r
    <3>1. Same(q)
      BY <1>1, <2>2, Frame
    <3> QED BY <2>1, <3>1 DEF Same, Trails
  <2>3. CASE q = r
    <3>1. /\ pc \in [Requests -> Steps] /\ mode \in [Requests -> {"fresh", "replay"}]
          /\ outcome \in [Requests -> Outcomes \cup {None}]
          /\ reply \in [Requests -> Replies \cup {None}]
          /\ domainAudit \in [Requests -> Trail] /\ facadeAudit \in [Requests -> Trail]
      BY DEF Base, TypeOK
    <3> USE <2>1, <2>3, <3>1, NoneAssumption
        DEF Trails, Goto, Answer, DomainReturns, audits, Trail, Knows, BeforeApply, AfterApply,
            Outcomes, Replies
    <3>2. CASE Submit(r) \/ Retry(r) \/ ApiRetry(r)
      BY <3>2 DEF Submit, Retry, ApiRetry, Call, outcomes
    <3>3. CASE FacadeStep(r)
      <4>1. CASE CheckShared(r)
        BY <4>1 DEF CheckShared
      <4>2. CASE SharedPut(r)
        BY <4>2 DEF SharedPut, outcomes
      <4>3. CASE FacadeIntent(r) \/ FacadeReplayIntent(r)
        BY <4>3 DEF FacadeIntent, FacadeReplayIntent, RecordFacadeIntent, outcomes
      <4>4. CASE FacadeReplayResult(r)
        BY <4>4 DEF FacadeReplayResult, RecordFacadeResult, outcomes
      <4>5. CASE FacadeResult(r)
        BY <4>5 DEF FacadeResult, RecordFacadeResult
      <4> QED BY <3>3, <4>1, <4>2, <4>3, <4>4, <4>5 DEF FacadeStep
    <3>4. CASE LoadDriver(r) \/ LoadCustomer(r) \/ LoadAgent(r)
      BY <3>4 DEF LoadDriver, LoadCustomer, LoadAgent, Decide, outcomes
    <3>5. CASE LookupActiveAgent(r) \/ CheckDomain(r)
      BY <3>5 DEF LookupActiveAgent, CheckDomain, outcomes
    <3>6. CASE ReplayIntent(r) \/ DomainIntent(r)
      BY <3>6 DEF ReplayIntent, DomainIntent, RecordDomainIntent, outcomes
    <3>7. CASE ReplayResult(r)
      BY <3>7 DEF ReplayResult, RecordDomainResult
    <3>8. CASE Put(r) \/ AppliedResult(r)
      BY <3>8 DEF Put, AppliedResult, RecordDomainResult, outcomes
    <3>9. CASE PutAgain(r) \/ FailureResult(r)
      BY <3>9 DEF PutAgain, FailureResult, RecordDomainResult
    <3>10. CASE ApplyDriver(r) \/ ApplyCustomer(r) \/ ApplyAgent(r)
      BY <3>10 DEF ApplyDriver, ApplyCustomer, ApplyAgent, Mutate, Refuse, outcomes
    <3>11. CASE PortFails(r)
      BY <3>11 DEF PortFails, FacadeSteps
    <3> QED
      BY <1>1, <3>2, <3>3, <3>4, <3>5, <3>6, <3>7, <3>8, <3>9, <3>10, <3>11
         DEF RequestStep, DomainStep
  <2> QED BY <2>2, <2>3
<1>2. ASSUME NEW t \in Targets, TripChanges(t) \/ Resubmit(t) PROVE TrailsFollow'
  BY <1>2 DEF TripChanges, Resubmit, audits, outcomes, TrailsFollow, FreshTrailMatchesReply, Trails
<1>3. CASE UNCHANGED vars
  BY <1>3 DEF vars, TrailsFollow, FreshTrailMatchesReply, Trails
<1> QED BY <1>1, <1>2, <1>3 DEF Next, RequestStep

TruthInv == StoresAreBacked /\ OutcomeIsTrue

(* An applied request stays applied, with the command it was applied for.  *)
LEMMA AppliedStays ==
    ASSUME Base, [Next]_vars, NEW q \in applied
    PROVE  q \in applied' /\ cmd'[q] = cmd[q]
<1>1. q \in Requests /\ pc[q] # "new"
  BY DEF Base, TypeOK, RequestKnows, Knows
<1>2. ASSUME NEW r \in Requests, Submit(r) \/ Retry(r) \/ ApiRetry(r)
      PROVE  q \in applied' /\ cmd'[q] = cmd[q]
  <2>1. r # q
    BY <1>1, <1>2 DEF Submit, Retry, ApiRetry, Call
  <2> QED BY <1>1, <1>2, <2>1, Frame DEF RequestStep, Same
<1>3. CASE Quiet \/ \E t \in Targets : TripChanges(t) \/ Resubmit(t)
  BY <1>3 DEF Quiet, TripChanges, Resubmit
<1>4. ASSUME NEW r \in Requests, Writes(r)
      PROVE  q \in applied' /\ cmd'[q] = cmd[q]
  BY <1>4 DEF Writes, Mutate
<1> QED BY <1>2, <1>3, <1>4, Shapes

(* A command once applied under a key stays so.                            *)
LEMMA BackedStays ==
    ASSUME Base, [Next]_vars, NEW c, Backed(c)
    PROVE  Backed(c)'
BY AppliedStays DEF Backed, DomainFingerprint

(* Only the two put() calls change a domain store, for a request that applied. *)
LEMMA DomainOnlyByPut ==
    ASSUME Base, NEW r \in Requests, RequestStep(r)
    PROVE  \/ UNCHANGED domain
           \/ (Put(r) \/ PutAgain(r)) /\ PutDomain(r) /\ r \in applied
<1>1. CASE Put(r) \/ PutAgain(r)
  BY <1>1 DEF Put, PutAgain, Base, RequestKnows, Knows, AfterApply
<1> USE DEF idem
<1>2. CASE Submit(r) \/ Retry(r) \/ ApiRetry(r)
  BY <1>2 DEF Submit, Retry, ApiRetry, Call
<1>3. CASE FacadeStep(r)
  BY <1>3
     DEF FacadeStep, CheckShared, FacadeIntent, FacadeReplayIntent, FacadeReplayResult,
              SharedPut, FacadeResult
<1>4. CASE DomainStep(r) /\ ~Put(r) /\ ~PutAgain(r)
  BY <1>4
     DEF DomainStep, LoadDriver, LoadCustomer, LoadAgent, Decide, LookupActiveAgent,
              CheckDomain, ReplayIntent, ReplayResult, DomainIntent, ApplyDriver,
              ApplyCustomer, ApplyAgent, AppliedResult, FailureResult
<1>5. CASE PortFails(r)
  BY <1>5 DEF PortFails
<1> QED BY <1>1, <1>2, <1>3, <1>4, <1>5 DEF RequestStep

(* Every entry of a domain store stands for an applied command.            *)
LEMMA StoresStayBacked ==
    ASSUME Base, StoresAreBacked, [Next]_vars, NEW d \in Kinds, NEW k \in Keys,
           domain'[d][k] # None
    PROVE  \E q \in applied' : cmd'[q].key = k /\ DomainFingerprint(cmd'[q]) = domain'[d][k]
<1>1. CASE domain'[d][k] = domain[d][k]
  <2>1. PICK q \in applied : cmd[q].key = k /\ DomainFingerprint(cmd[q]) = domain[d][k]
    BY <1>1 DEF StoresAreBacked
  <2> QED BY <1>1, <2>1, AppliedStays
<1>2. CASE domain'[d][k] # domain[d][k]
  <2>1. PICK r \in Requests : RequestStep(r)
    BY <1>2 DEF Next, RequestStep, TripChanges, Resubmit, idem, vars
  <2>2. PutDomain(r) /\ r \in applied
    BY <1>2, <2>1, DomainOnlyByPut
  <2>3. cmd[r].key = k /\ domain'[d][k] = DomainFingerprint(cmd[r])
    BY <1>2, <2>2 DEF PutDomain, Base, TypeOK
  <2> QED BY <2>2, <2>3, AppliedStays
<1> QED BY <1>1, <1>2

(* What a pipeline answers stays true.                                     *)
LEMMA NextTruth == ASSUME Base, TruthInv, [Next]_vars PROVE TruthInv'
<1>1. \A d \in Kinds, k \in Keys :
        domain'[d][k] # None =>
           \E q \in applied' : cmd'[q].key = k /\ DomainFingerprint(cmd'[q]) = domain'[d][k]
  BY StoresStayBacked DEF TruthInv
<1> SUFFICES ASSUME NEW q \in Requests
             PROVE  /\ pc'[q] \in {"replay_intent", "replay_result"} => Backed(cmd[q])'
                    /\ outcome'[q] = "applied" => q \in applied'
                    /\ outcome'[q] \in {"denied", "idempotent_replay"} => q \notin applied'
                    /\ outcome'[q] = "idempotent_replay" => Backed(cmd[q])'
  BY <1>1 DEF TruthInv, StoresAreBacked, OutcomeIsTrue
<1>2. /\ pc[q] \in {"replay_intent", "replay_result"} => Backed(cmd[q])
      /\ outcome[q] = "applied" => q \in applied
      /\ outcome[q] \in {"denied", "idempotent_replay"} => q \notin applied
      /\ outcome[q] = "idempotent_replay" => Backed(cmd[q])
  BY DEF TruthInv, StoresAreBacked, OutcomeIsTrue
<1>3. cmd'[q] = cmd[q] /\ Backed(cmd[q]) => Backed(cmd[q])'
  BY BackedStays DEF Backed
<1>4. CASE Same(q)
  BY <1>2, <1>3, <1>4 DEF Same
<1>5. CASE RequestStep(q)
  <2>1. Knows(q) /\ pc \in [Requests -> Steps] /\ outcome \in [Requests -> Outcomes \cup {None}]
    BY DEF Base, TypeOK, RequestKnows
  <2> USE <1>2, <1>3, <2>1, NoneAssumption DEF Goto, Answer, DomainReturns, outcomes, Knows, BeforeApply,
      AfterApply, Replies, Outcomes
  <2>2. CASE Submit(q) \/ Retry(q) \/ ApiRetry(q)
    BY <2>2 DEF Submit, Retry, ApiRetry, Call
  <2>3. CASE FacadeStep(q)
    BY <2>3
       DEF FacadeStep, CheckShared, FacadeIntent, FacadeReplayIntent,
           FacadeReplayResult,
                SharedPut, FacadeResult
  <2>4. CASE LoadDriver(q) \/ LoadCustomer(q) \/ LoadAgent(q) \/ LookupActiveAgent(q)
    BY <2>4 DEF LoadDriver, LoadCustomer, LoadAgent, Decide, LookupActiveAgent
  <2>5. CASE CheckDomain(q)
    <3>1. cmd[q] \in Commands /\ UNCHANGED <<cmd, applied>>
      BY <2>5 DEF CheckDomain
    <3>2. ASSUME domain[KindOf(cmd[q].target)][cmd[q].key] = DomainFingerprint(cmd[q])
          PROVE  Backed(cmd[q])
      BY <3>1, <3>2, KindType, PrintTypes
         DEF TruthInv, StoresAreBacked, Backed, Commands
    <3>3. CASE Goto(q, "replay_intent") /\ UNCHANGED outcomes /\ Backed(cmd[q])
      BY <3>1, <3>3
    <3>4. CASE Goto(q, "intent") /\ UNCHANGED outcomes
      BY <3>1, <3>4
    <3>5. CASE pc[q] = "domain_check" /\ DomainReturns(q, "denied")
      BY <3>1, <3>5
    <3> QED BY <2>5, <3>2, <3>3, <3>4, <3>5 DEF CheckDomain
  <2>6. CASE ReplayIntent(q) \/ ReplayResult(q)
    BY <2>6 DEF ReplayIntent, ReplayResult
  <2>7. CASE DomainIntent(q) \/ Put(q) \/ AppliedResult(q) \/ PutAgain(q) \/ FailureResult(q)
    BY <2>7 DEF DomainIntent, Put, AppliedResult, PutAgain, FailureResult
  <2>8. CASE ApplyDriver(q) \/ ApplyCustomer(q) \/ ApplyAgent(q)
    BY <2>8 DEF ApplyDriver, ApplyCustomer, ApplyAgent, Mutate, Refuse
  <2>9. CASE PortFails(q)
    BY <2>9 DEF PortFails, FacadeSteps
  <2> QED
    BY <1>5, <2>2, <2>3, <2>4, <2>5, <2>6, <2>7, <2>8, <2>9 DEF RequestStep, DomainStep
<1>6. Same(q) \/ RequestStep(q)
  <2>1. CASE UNCHANGED vars \/ \E t \in Targets : TripChanges(t) \/ Resubmit(t)
    BY <2>1 DEF vars, TripChanges, Resubmit, outcomes, audits, Same
  <2>2. CASE \E r \in Requests : RequestStep(r)
    BY <2>2, Frame
  <2> QED BY <2>1, <2>2 DEF Next, RequestStep
<1> QED BY <1>4, <1>5, <1>6

(* Only put() changes the facade's store.                                  *)
LEMMA SharedOnlyByPut ==
    ASSUME Base, NEW r \in Requests, RequestStep(r)
    PROVE  UNCHANGED shared \/ SharedPut(r)
<1> USE DEF idem
<1>1. CASE Submit(r) \/ Retry(r) \/ ApiRetry(r)
  BY <1>1 DEF Submit, Retry, ApiRetry, Call
<1>2. CASE FacadeStep(r)
  BY <1>2
     DEF FacadeStep, CheckShared, FacadeIntent, FacadeReplayIntent, FacadeReplayResult,
              FacadeResult
<1>3. CASE DomainStep(r)
  BY <1>3
     DEF DomainStep, LoadDriver, LoadCustomer, LoadAgent, Decide, LookupActiveAgent,
              CheckDomain, ReplayIntent, ReplayResult, DomainIntent, ApplyDriver,
              ApplyCustomer, ApplyAgent, Put, AppliedResult, PutAgain, FailureResult
<1>4. CASE PortFails(r)
  BY <1>4 DEF PortFails
<1> QED BY <1>1, <1>2, <1>3, <1>4 DEF RequestStep

(* Entries are never removed from an idempotency store.                    *)
LEMMA KeysStay ==
    ASSUME Base, [Next]_vars
    PROVE  /\ \A d \in Kinds, k \in Keys : domain[d][k] # None => domain'[d][k] # None
           /\ \A k \in Keys : shared[k] # None => shared'[k] # None
<1>1. CASE UNCHANGED vars \/ \E t \in Targets : TripChanges(t) \/ Resubmit(t)
  BY <1>1 DEF vars, TripChanges, Resubmit, idem
<1>2. ASSUME NEW r \in Requests, RequestStep(r)
      PROVE  /\ \A d \in Kinds, k \in Keys : domain[d][k] # None => domain'[d][k] # None
             /\ \A k \in Keys : shared[k] # None => shared'[k] # None
  <2>1. CASE SharedPut(r)
    <3>1. cmd[r] \in Commands /\ UNCHANGED domain
      BY <2>1 DEF SharedPut, Base, RequestKnows, Knows
    <3> QED BY <2>1, <3>1, PrintTypes DEF SharedPut, Base, TypeOK
  <2>2. CASE UNCHANGED shared /\ UNCHANGED domain
    BY <2>2
  <2>3. CASE UNCHANGED shared /\ PutDomain(r) /\ r \in applied
    <3>1. cmd[r] \in Commands
      BY <2>3 DEF Base, TypeOK, RequestKnows, Knows
    <3> QED BY <2>3, <3>1, PrintTypes DEF PutDomain, Base, TypeOK
  <2>4. SharedPut(r) => UNCHANGED domain
    BY DEF SharedPut
  <2> QED BY <1>2, <2>1, <2>2, <2>3, SharedOnlyByPut, DomainOnlyByPut
<1> QED BY <1>1, <1>2 DEF Next, RequestStep

(* A key in the facade's store is in the store of its command's domain.    *)
LEMMA SharedStaysCovered ==
    ASSUME Base, KeysStaySettled, [Next]_vars, NEW k \in Keys, shared'[k] # None
    PROVE  domain'[KindOf(shared'[k].target)][k] # None
<1>1. CASE shared'[k] = shared[k]
  <2>1. shared[k] \in SharedPrints
    BY <1>1 DEF Base, TypeOK
  <2>2. KindOf(shared[k].target) \in Kinds
    BY <2>1, KindType DEF SharedPrints
  <2> QED BY <1>1, <2>2, KeysStay DEF KeysStaySettled
<1>2. CASE shared'[k] # shared[k]
  <2>1. PICK r \in Requests : SharedPut(r)
    BY <1>2, SharedOnlyByPut DEF Next, RequestStep, TripChanges, Resubmit, idem, vars
  <2>2. cmd[r] \in Commands /\ InDomain(cmd[r]) /\ UNCHANGED domain
    BY <2>1 DEF SharedPut, Base, RequestKnows, Knows, KeysStaySettled, Settles
  <2>3. k = cmd[r].key /\ shared'[k] = SharedFingerprint(cmd[r])
    BY <1>2, <2>1, <2>2 DEF SharedPut, Base, TypeOK, Commands
  <2> QED BY <2>2, <2>3 DEF InDomain, SharedFingerprint
<1> QED BY <1>1, <1>2

(* A step is one of this request's own, or leaves what it owns alone.      *)
LEMMA StepOrSame ==
    ASSUME Base, [Next]_vars, NEW q \in Requests
    PROVE  Same(q) \/ RequestStep(q)
<1>1. CASE UNCHANGED vars \/ \E t \in Targets : TripChanges(t) \/ Resubmit(t)
  BY <1>1 DEF vars, TripChanges, Resubmit, outcomes, audits, Same
<1>2. CASE \E r \in Requests : RequestStep(r)
  BY <1>2, Frame
<1> QED BY <1>1, <1>2 DEF Next, RequestStep

(* An answered request takes no further step.                              *)
LEMMA DoneStays ==
    ASSUME Base, [Next]_vars, NEW q \in Requests, pc[q] = "done"
    PROVE  Same(q)
<1> SUFFICES ASSUME RequestStep(q) PROVE FALSE
  BY StepOrSame
<1>1. CASE Submit(q) \/ Retry(q) \/ ApiRetry(q)
  BY <1>1 DEF Submit, Retry, ApiRetry, Call
<1>2. CASE FacadeStep(q)
  BY <1>2
     DEF FacadeStep, CheckShared, FacadeIntent, FacadeReplayIntent, FacadeReplayResult,
              FacadeResult, SharedPut
<1>3. CASE DomainStep(q)
  BY <1>3
     DEF DomainStep, LoadDriver, LoadCustomer, LoadAgent, Decide, LookupActiveAgent,
              CheckDomain, ReplayIntent, ReplayResult, DomainIntent, ApplyDriver,
              ApplyCustomer, ApplyAgent, Put, AppliedResult, PutAgain, FailureResult
<1>4. CASE PortFails(q)
  BY <1>4 DEF PortFails, FacadeSteps
<1> QED BY <1>1, <1>2, <1>3, <1>4 DEF RequestStep

(* At the call, every request answered "applied" has its key in both stores. *)
LEMMA CallSettles ==
    ASSUME Base, KeysStaySettled, [Next]_vars, NEW r \in Requests, NEW c \in Commands, Call(r, c)
    PROVE  Settles(r)'
<1>1. /\ pc[r] = "new" /\ pc'[r] = "shared_check" /\ outcome'[r] = None /\ r \notin applied'
      /\ mode'[r] = mode[r] /\ after'[r] = {q \in Requests : reply[q] = "applied"}
      /\ UNCHANGED <<shared, reply>>
  BY DEF Call, Goto, Base, TypeOK, RequestKnows, Knows, idem, outcomes
<1>2. mode[r] # "replay"
  BY <1>1 DEF KeysStaySettled, Settles
<1>3. ASSUME NEW q \in after'[r] PROVE pc'[q] = "done" /\ shared'[cmd'[q].key] # None
  <2>1. q \in Requests /\ reply[q] = "applied"
    BY <1>1
  <2>2. outcome[q] = "applied" /\ pc[q] = "done"
    BY <2>1, NoneAssumption DEF Base, RequestKnows, Knows, Replies, Outcomes
  <2>3. shared[cmd[q].key] # None
    BY <2>1, <2>2 DEF KeysStaySettled, Settles
  <2>4. Same(q)
    BY <2>1, <2>2, DoneStays
  <2> QED BY <1>1, <2>2, <2>3, <2>4 DEF Same
<1> QED BY <1>1, <1>2, <1>3, NoneAssumption DEF Settles, AfterApply, Replies, Outcomes

(* Steps of others keep what has been settled for a request.               *)
LEMMA SameSettles ==
    ASSUME Base, KeysStaySettled, [Next]_vars, NEW r \in Requests, Same(r)
    PROVE  Settles(r)'
<1>1. Settles(r)
  BY DEF KeysStaySettled
<1>2. InDomain(cmd[r]) => InDomain(cmd[r])' \/ pc[r] = "new"
  BY KeysStay, KindType DEF InDomain, Same, Base, RequestKnows, Knows, Commands
<1>3. shared[cmd[r].key] # None => shared'[cmd'[r].key] # None \/ pc[r] = "new"
  BY KeysStay DEF Same, Base, RequestKnows, Knows, Commands
<1>4. pc[r] = "new" => outcome[r] = None
  BY DEF Base, RequestKnows, Knows
<1>5. ASSUME NEW q \in after'[r]
      PROVE  /\ q \in after[r] /\ pc'[q] = "done" /\ cmd'[q] = cmd[q]
             /\ shared'[cmd'[q].key] # None
  <2>1. q \in after[r] /\ q \in Requests
    BY <1>5 DEF Same, Base, TypeOK
  <2>2. pc[q] = "done" /\ shared[cmd[q].key] # None /\ Same(q)
    BY <1>1, <2>1, DoneStays DEF Settles
  <2>3. cmd[q] \in Commands
    BY <2>1, <2>2 DEF Base, RequestKnows, Knows
  <2> QED BY <2>1, <2>2, <2>3, KeysStay DEF Same, Commands
<1>6. mode'[r] = "replay" =>
         /\ InDomain(cmd[r])'
         /\ pc'[r] \notin {"new", "intent", "apply"} \cup AfterApply
         /\ r \notin applied'
  BY <1>1, <1>2 DEF Same, Settles
<1>7. pc'[r] \in {"put_again", "result", "shared_put"} \/ outcome'[r] = "applied"
         => InDomain(cmd[r])'
  BY <1>1, <1>2, <1>4, NoneAssumption DEF Same, Settles, Replies, Outcomes
<1>8. outcome'[r] = "applied" /\ pc'[r] \in {"facade_result", "done"}
          /\ reply'[r] # "error"
          => shared'[cmd'[r].key] # None
  BY <1>1, <1>3 DEF Same, Settles
<1>9. \A q \in after'[r] :
         /\ pc'[r] # "new"
         /\ cmd'[q].key = cmd'[r].key /\ mode'[r] = "fresh" =>
                pc'[r] \in {"shared_check", "done"} /\ r \notin applied'
  BY <1>1, <1>5 DEF Same, Settles
<1> QED BY <1>5, <1>6, <1>7, <1>8, <1>9 DEF Settles

(* A running request keeps its command.                                    *)
LEMMA OwnFrame ==
    ASSUME Base, NEW r \in Requests, FacadeStep(r) \/ DomainStep(r) \/ PortFails(r)
    PROVE  UNCHANGED <<cmd, after>> /\ pc[r] \notin {"new", "done"} /\ cmd[r] \in Commands
<1>1. UNCHANGED <<cmd, after>> /\ pc[r] \notin {"new", "done"}
  <2>1. CASE FacadeStep(r)
    BY <2>1
       DEF FacadeStep, CheckShared, FacadeIntent, FacadeReplayIntent,
           FacadeReplayResult,
                FacadeResult, SharedPut
  <2>2. CASE DomainStep(r)
    BY <2>2
       DEF DomainStep, LoadDriver, LoadCustomer, LoadAgent, Decide, LookupActiveAgent,
                CheckDomain, ReplayIntent, ReplayResult, DomainIntent, ApplyDriver,
                ApplyCustomer, ApplyAgent, Put, AppliedResult, PutAgain, FailureResult
  <2>3. CASE PortFails(r)
    BY <2>3 DEF PortFails, FacadeSteps
  <2> QED BY <2>1, <2>2, <2>3
<1> QED BY <1>1 DEF Base, RequestKnows, Knows

(* A request's own step keeps what has been settled for it.                *)
LEMMA StepSettles ==
    ASSUME Base, KeysStaySettled, [Next]_vars, NEW r \in Requests,
           FacadeStep(r) \/ DomainStep(r) \/ PortFails(r)
    PROVE  Settles(r)'
<1>1. Settles(r) /\ Knows(r)
  BY DEF KeysStaySettled, Base, RequestKnows
<1>2. /\ UNCHANGED <<cmd, after>> /\ pc[r] \notin {"new", "done"}
      /\ cmd[r] \in Commands /\ cmd[r].key \in Keys /\ KindOf(cmd[r].target) \in Kinds
  BY OwnFrame, KindType DEF Commands
<1>3. /\ InDomain(cmd[r]) => InDomain(cmd[r])'
      /\ shared[cmd[r].key] # None => shared'[cmd'[r].key] # None
  BY <1>2, KeysStay DEF InDomain
<1>4. /\ pc \in [Requests -> Steps] /\ mode \in [Requests -> {"fresh", "replay"}]
      /\ outcome \in [Requests -> Outcomes \cup {None}]
      /\ reply \in [Requests -> Replies \cup {None}]
  BY DEF Base, TypeOK
<1>5. ASSUME NEW q \in after[r]
      PROVE  pc'[q] = "done" /\ cmd'[q] = cmd[q] /\ shared'[cmd'[q].key] # None
  <2>1. q \in Requests
    BY <1>5 DEF Base, TypeOK
  <2>2. pc[q] = "done" /\ shared[cmd[q].key] # None /\ Same(q)
    BY <1>1, <1>5, <2>1, DoneStays DEF Settles
  <2>3. cmd[q] \in Commands
    BY <2>1, <2>2 DEF Base, RequestKnows, Knows
  <2> QED BY <2>1, <2>2, <2>3, KeysStay DEF Same, Commands
<1> DEFINE Met == \E q \in after[r] : cmd[q].key = cmd[r].key
           Parts ==
             /\ mode'[r] = "replay" =>
                   /\ InDomain(cmd[r])'
                   /\ pc'[r] \notin {"intent", "apply"} \cup AfterApply
                   /\ r \notin applied'
             /\ pc'[r] # "new"
             /\ pc'[r] \in {"put_again", "result", "shared_put"} \/ outcome'[r] = "applied"
                   => InDomain(cmd[r])'
             /\ outcome'[r] = "applied" /\ pc'[r] \in {"facade_result", "done"}
                   /\ reply'[r] # "error" => shared'[cmd'[r].key] # None
             /\ Met /\ mode'[r] = "fresh"
                   => pc'[r] \in {"shared_check", "done"} /\ r \notin applied'
<1>6. Parts => Settles(r)'
  BY <1>2, <1>5 DEF Settles
<1>7. Met => /\ shared[cmd[r].key] # None
             /\ mode[r] = "fresh" => pc[r] = "shared_check" /\ r \notin applied
  BY <1>1, <1>2 DEF Settles
<1> SUFFICES Parts BY <1>6
<1> HIDE DEF Met
<1>8. CASE CheckShared(r)
  <2>1. CASE Goto(r, "facade_intent") /\ UNCHANGED <<mode, reply>> /\ shared[cmd[r].key] = None
    BY <1>1, <1>2, <1>3, <1>4, <1>7, <1>8, <2>1, NoneAssumption
       DEF CheckShared, Goto, Settles, Knows, BeforeApply, AfterApply, Replies, Outcomes
  <2>2. CASE Goto(r, "facade_replay_intent") /\ shared[cmd[r].key] = SharedFingerprint(cmd[r])
             /\ mode' = [mode EXCEPT ![r] = "replay"]
    <3>1. InDomain(cmd[r])
      BY <1>2, <2>2, PrintTypes DEF KeysStaySettled, InDomain, SharedFingerprint
    <3> QED
      BY <1>1, <1>2, <1>3, <1>4, <1>7, <1>8, <2>2, <3>1, NoneAssumption
         DEF CheckShared, Goto, Settles, Knows, BeforeApply, AfterApply, Replies,
             Outcomes
  <2>3. CASE Answer(r, "denied") /\ UNCHANGED mode
    BY <1>1, <1>2, <1>3, <1>4, <1>7, <1>8, <2>3, NoneAssumption
       DEF CheckShared, Goto, Answer, Settles, Knows, BeforeApply, AfterApply,
           Replies, Outcomes
  <2> QED BY <1>8, <2>1, <2>2, <2>3 DEF CheckShared
<1>9. CASE SharedPut(r)
  <2>1. shared'[cmd'[r].key] # None
    BY <1>2, <1>9, PrintTypes DEF SharedPut, Base, TypeOK
  <2> QED
    BY <1>1, <1>2, <1>3, <1>4, <1>7, <1>9, <2>1
       DEF SharedPut, Goto, Settles, Knows, AfterApply, outcomes
<1>10. CASE Put(r) \/ PutAgain(r)
  <2>1. InDomain(cmd[r])'
    BY <1>2, <1>10, PrintTypes DEF Put, PutAgain, PutDomain, InDomain, Base, TypeOK
  <2>2. mode[r] # "replay" /\ ~Met /\ UNCHANGED <<mode, applied>>
    BY <1>1, <1>4, <1>7, <1>10 DEF Put, PutAgain, Settles, AfterApply
  <2>3. CASE Put(r)
    BY <1>1, <1>2, <1>4, <2>1, <2>2, <2>3, NoneAssumption
       DEF Put, Goto, Knows, AfterApply, outcomes, Settles
  <2>4. CASE PutAgain(r)
    BY <1>1, <1>2, <1>4, <2>1, <2>2, <2>4 DEF PutAgain, DomainReturns, Goto, Answer
  <2> QED BY <1>10, <2>3, <2>4
<1>11. CASE FacadeIntent(r) \/ FacadeReplayIntent(r) \/ FacadeReplayResult(r) \/ FacadeResult(r)
  BY <1>1, <1>2, <1>3, <1>4, <1>7, <1>11, NoneAssumption
     DEF FacadeIntent, FacadeReplayIntent, FacadeReplayResult, FacadeResult, Goto,
         Answer, Settles, Knows,
         BeforeApply, AfterApply, Replies, Outcomes, outcomes
<1>12. CASE \/ LoadDriver(r) \/ LoadCustomer(r) \/ LoadAgent(r)
            \/ LookupActiveAgent(r) \/ CheckDomain(r)
  <2>1. mode' = mode /\ applied' = applied /\ pc[r] \in {"load", "lookup", "domain_check"}
    BY <1>12
       DEF LoadDriver, LoadCustomer, LoadAgent, Decide, LookupActiveAgent, CheckDomain
  <2>2. CASE DomainReturns(r, "denied")
    BY <1>1, <1>2, <1>3, <1>4, <1>7, <2>1, <2>2
       DEF DomainReturns, Goto, Answer, Settles, AfterApply, BeforeApply
  <2>3. CASE /\ UNCHANGED outcomes
             /\ \E next \in {"lookup", "domain_check", "intent", "replay_intent"} :
                   Goto(r, next) /\ (next = "intent" => ~InDomain(cmd[r]))
    BY <1>1, <1>2, <1>3, <1>4, <1>7, <2>1, <2>3, NoneAssumption
       DEF Goto, Settles, Knows, BeforeApply, AfterApply, Replies, Outcomes, outcomes
  <2> QED
    BY <1>12, <2>2, <2>3
       DEF LoadDriver, LoadCustomer, LoadAgent, Decide, LookupActiveAgent, CheckDomain,
           InDomain
<1>13. CASE \/ ReplayIntent(r) \/ ReplayResult(r) \/ DomainIntent(r)
            \/ AppliedResult(r) \/ FailureResult(r)
  BY <1>1, <1>2, <1>3, <1>4, <1>7, <1>13, NoneAssumption
     DEF ReplayIntent, ReplayResult, DomainIntent, AppliedResult, FailureResult,
         DomainReturns, Goto, Answer,
         Settles, Knows, BeforeApply, AfterApply, Replies, Outcomes, outcomes
<1>14. CASE ApplyDriver(r) \/ ApplyCustomer(r) \/ ApplyAgent(r)
  BY <1>1, <1>2, <1>3, <1>4, <1>7, <1>14, NoneAssumption
     DEF ApplyDriver, ApplyCustomer, ApplyAgent, Mutate, Refuse, Goto,
         Settles, Knows, BeforeApply, AfterApply, Replies, Outcomes, outcomes
<1>15. CASE PortFails(r)
  BY <1>1, <1>2, <1>3, <1>4, <1>7, <1>15, NoneAssumption
     DEF PortFails, DomainReturns, Goto, Answer, FacadeSteps,
         Settles, Knows, BeforeApply, AfterApply, Replies, Outcomes, outcomes
<1> QED
  BY <1>8, <1>9, <1>10, <1>11, <1>12, <1>13, <1>14, <1>15 DEF FacadeStep, DomainStep

(* Settled keys stay settled.                                              *)
LEMMA NextKeys == ASSUME Base, KeysStaySettled, [Next]_vars PROVE KeysStaySettled'
<1>1. ASSUME NEW r \in Requests PROVE Settles(r)'
  <2>1. CASE Same(r)
    BY <2>1, SameSettles
  <2>2. CASE FacadeStep(r) \/ DomainStep(r) \/ PortFails(r)
    BY <2>2, StepSettles
  <2>3. CASE Submit(r) \/ Retry(r) \/ ApiRetry(r)
    <3>1. PICK c \in Commands : Call(r, c)
      BY <2>3, CallsAreCommands
    <3> QED BY <3>1, CallSettles
  <2> QED BY <2>1, <2>2, <2>3, StepOrSame DEF RequestStep
<1> QED BY <1>1, SharedStaysCovered DEF KeysStaySettled

PlanInv == PlansAreLegal /\ StatesFitKinds /\ AccountFollowsState

(* A plan is made at the load and stays a legal transition until it is applied. *)
LEMMA PlanKept ==
    ASSUME Base, PlansAreLegal, [Next]_vars PROVE PlansAreLegal'
<1> SUFFICES ASSUME NEW r \in Requests,
                    pc'[r] \in {"lookup", "domain_check", "intent", "apply"}
             PROVE  \E tr \in LegalTransitions(cmd'[r]) :
                       plan'[r] = [from |-> tr.from, to |-> tr.to]
  BY DEF PlansAreLegal, LegalTransitions
<1>1. pc \in [Requests -> Steps] /\ plan \in [Requests -> Plans \cup {None}]
  BY DEF Base, TypeOK
<1>2. CASE Same(r)
  BY <1>1, <1>2 DEF Same, PlansAreLegal, LegalTransitions
<1>3. CASE Submit(r) \/ Retry(r) \/ ApiRetry(r)
  BY <1>1, <1>3 DEF Submit, Retry, ApiRetry, Call, Goto
<1>4. CASE FacadeStep(r) \/ DomainStep(r) \/ PortFails(r)
  <2>1. UNCHANGED cmd /\ pc[r] # "new"
    BY <1>4, OwnFrame
  <2>2. CASE LoadDriver(r) \/ LoadCustomer(r) \/ LoadAgent(r)
    BY <1>1, <2>1, <2>2
       DEF LoadDriver, LoadCustomer, LoadAgent, Decide, DomainReturns, Goto, Answer
  <2>3. CASE ~(LoadDriver(r) \/ LoadCustomer(r) \/ LoadAgent(r))
    <3>1. plan' = plan /\ pc[r] \in {"lookup", "domain_check", "intent", "apply"}
      <4> USE <1>1 DEF Goto, Answer, DomainReturns
      <4>1. CASE FacadeStep(r)
        BY <4>1, <1>1, <2>2
           DEF FacadeStep, CheckShared, FacadeIntent, FacadeReplayIntent,
                    FacadeReplayResult, FacadeResult, SharedPut
      <4>2. CASE DomainStep(r)
        BY <4>2, <2>3
           DEF DomainStep, LookupActiveAgent, CheckDomain, ReplayIntent, ReplayResult,
            DomainIntent, ApplyDriver, ApplyCustomer, ApplyAgent, Mutate, Refuse, Put,
            AppliedResult, PutAgain, FailureResult
      <4>3. CASE PortFails(r)
        BY <4>3 DEF PortFails
      <4> QED BY <1>4, <4>1, <4>2, <4>3
    <3> QED BY <2>1, <3>1 DEF PlansAreLegal, LegalTransitions
  <2> QED BY <2>2, <2>3
<1> QED BY <1>2, <1>3, <1>4, StepOrSame DEF RequestStep

(* A transition of a kind of target ends in a state of that kind.          *)
LEMMA TransitionsFit ==
    ASSUME NEW t \in Targets, NEW tr \in TransitionsOf(t)
    PROVE  tr.to \in StatesOf(t)
BY DEF TransitionsOf, DriverTransitions, AgentTransitions, CustomerTransitions,
       Transition, KindOf, StatesOf, DriverStates, AgentStates, CustomerStates

(* A write moves its target along one transition of its state machine.     *)
LEMMA WritePlanned ==
    ASSUME Base, PlanInv, NEW r \in Requests, Writes(r), NEW t, t = cmd[r].target
    PROVE  /\ t \in Targets
           /\ \A u \in Targets : u # t => snap'[u] = snap[u]
           /\ snap'[t].token = snap[t].token + 1
           /\ \E tr \in TransitionsOf(t) :
                 /\ tr.from = snap[t].state /\ tr.to = snap'[t].state
                 /\ tr.action = cmd[r].action
                 /\ snap'[t].account = AccountAfter(t, tr.from, tr.to)
<1>1. t \in Targets /\ pc[r] = "apply" /\ snap[t].state = plan[r].from /\ Mutate(r)
  BY DEF Writes, StillCurrent, Base, RequestKnows, Knows, Commands
<1>2. PICK tr \in LegalTransitions(cmd[r]) : plan[r] = [from |-> tr.from, to |-> tr.to]
  BY <1>1 DEF PlanInv, PlansAreLegal
<1>3. /\ tr \in TransitionsOf(t) /\ tr.action = cmd[r].action
      /\ plan[r].from = tr.from /\ plan[r].to = tr.to
  BY <1>2 DEF LegalTransitions
<1>4. /\ snap'[t] = [state |-> plan[r].to, token |-> snap[t].token + 1,
                     account |-> AccountAfter(t, plan[r].from, plan[r].to),
                     trip |-> snap[t].trip]
      /\ \A u \in Targets : u # t => snap'[u] = snap[u]
  BY <1>1 DEF Mutate, Base, TypeOK
<1>5. /\ snap'[t].state = tr.to /\ snap'[t].token = snap[t].token + 1
      /\ snap'[t].account = AccountAfter(t, tr.from, tr.to)
  BY <1>3, <1>4
<1> QED BY <1>1, <1>3, <1>4, <1>5

(* The state of a target is one of its kind, and its account agrees.       *)
Fits(u) == /\ snap[u].state \in StatesOf(u)
           /\ snap[u].account = AccountFor(snap[u].state)

(* Plans stay legal, states fit their kind and accounts follow the state.  *)
LEMMA NextPlan == ASSUME Base, PlanInv, [Next]_vars PROVE PlanInv'
<1>1. PlansAreLegal'
  BY PlanKept DEF PlanInv
<1> SUFFICES ASSUME NEW u \in Targets PROVE Fits(u)'
  BY <1>1 DEF PlanInv, StatesFitKinds, AccountFollowsState, Fits
<1>2. Fits(u)
  BY DEF PlanInv, StatesFitKinds, AccountFollowsState, Fits
<1>3. CASE snap'[u] = snap[u]
  BY <1>2, <1>3 DEF Fits, StatesOf, AccountFor
<1>4. ASSUME NEW r \in Requests, Writes(r), cmd[r].target = u PROVE Fits(u)'
  <2>1. PICK tr \in TransitionsOf(u) :
           /\ tr.from = snap[u].state /\ tr.to = snap'[u].state
           /\ snap'[u].account = AccountAfter(u, tr.from, tr.to)
    BY <1>4, WritePlanned
  <2>3. tr.to \in StatesOf(u)
    BY TransitionsFit
  <2>4. AccountAfter(u, tr.from, tr.to) = AccountFor(tr.to)
    <3>1. CASE u \in Drivers
      BY <1>2, <2>1, <3>1
         DEF Fits, AccountAfter, AccountFor, TransitionsOf, KindOf, DriverTransitions,
             Transition
    <3>2. CASE u \notin Drivers /\ u \in Agents
      BY <1>2, <2>1, <3>2
         DEF Fits, AccountAfter, AccountFor, TransitionsOf, KindOf, AgentTransitions,
             Transition
    <3>3. CASE u \notin Drivers /\ u \notin Agents
      BY <1>2, <2>1, <3>3
         DEF Fits, AccountAfter, AccountFor, TransitionsOf, KindOf, CustomerTransitions,
             Transition
    <3> QED BY <3>1, <3>2, <3>3
  <2> QED BY <2>1, <2>3, <2>4 DEF Fits, StatesOf
<1>5. ASSUME NEW t \in Targets, TripChanges(t) \/ Resubmit(t) PROVE Fits(u)'
  <2>1. snap[u] \in Snapshots /\ snap \in [Targets -> Snapshots]
    BY DEF Base, TypeOK
  <2>2. CASE TripChanges(t)
    BY <1>2, <2>1, <2>2 DEF Fits, TripChanges, Snapshots, AccountFor, StatesOf
  <2>3. CASE Resubmit(t)
    <3>1. CASE u = t
      BY <1>2, <2>1, <2>3, <3>1
         DEF Fits, Resubmit, Snapshots, AccountFor, StatesOf, KindOf, DriverStates
    <3>2. CASE u # t
      BY <1>2, <2>1, <2>3, <3>2 DEF Fits, Resubmit, AccountFor, StatesOf
    <3> QED BY <3>1, <3>2
  <2> QED BY <1>5, <2>2, <2>3
<1> QED
  <2>1. CASE Quiet \/ \E r \in Requests : Submit(r) \/ Retry(r) \/ ApiRetry(r)
    BY <1>3, <2>1 DEF Quiet, Submit, Retry, ApiRetry, Call, stores
  <2>2. ASSUME NEW r \in Requests, Writes(r) PROVE Fits(u)'
    BY <1>3, <1>4, <2>2, WritePlanned
  <2> QED BY <1>5, <2>1, <2>2, Shapes

(* What LegalStep says of one target.                                      *)
LegalMove(t) ==
    snap'[t].state # snap[t].state =>
       /\ snap'[t].token > snap[t].token
       /\ \/ \E tr \in TransitionsOf(t) : tr.from = snap[t].state /\ tr.to = snap'[t].state
          \/ t \in Drivers /\ snap[t].state = "needs_changes" /\ snap'[t].state = "pending_review"

(* No step moves a target outside its state machine or without its token.  *)
LEMMA NextLegal == ASSUME Base, PlanInv, [Next]_vars, NEW u \in Targets PROVE LegalMove(u)
<1>0. snap \in [Targets -> Snapshots] /\ snap[u].token \in Nat
  BY DEF Base, TypeOK, Snapshots
<1>1. CASE Quiet \/ \E r \in Requests : Submit(r) \/ Retry(r) \/ ApiRetry(r)
  BY <1>1 DEF Quiet, Submit, Retry, ApiRetry, Call, stores, LegalMove
<1>2. ASSUME NEW r \in Requests, Writes(r) PROVE LegalMove(u)
  <2>1. CASE cmd[r].target # u
    BY <1>2, <2>1, WritePlanned DEF LegalMove
  <2>2. CASE cmd[r].target = u
    BY <1>0, <1>2, <2>2, WritePlanned DEF LegalMove
  <2> QED BY <2>1, <2>2
<1>3. ASSUME NEW t \in Targets, TripChanges(t) \/ Resubmit(t) PROVE LegalMove(u)
  <2>1. CASE TripChanges(t)
    BY <1>0, <2>1 DEF TripChanges, LegalMove, Snapshots
  <2>2. CASE Resubmit(t)
    BY <1>0, <2>2 DEF Resubmit, LegalMove, Snapshots
  <2> QED BY <1>3, <2>1, <2>2
<1> QED BY <1>1, <1>2, <1>3, Shapes

(* No step disables or blocks a customer whose trip is busy.               *)
LEMMA NextCustomers ==
    ASSUME Base, PlanInv, [Next]_vars, NEW c \in Customers,
           snap[c].trip = "busy", snap'[c].state # snap[c].state
    PROVE  snap'[c].state = "enabled"
<1>1. c \in Targets /\ c \notin Drivers /\ c \notin Agents
  BY KindAssumption DEF Targets
<1>2. ~(Quiet \/ \E r \in Requests : Submit(r) \/ Retry(r) \/ ApiRetry(r))
  BY DEF Quiet, Submit, Retry, ApiRetry, Call, stores
<1>3. ASSUME NEW t \in Targets, TripChanges(t) \/ Resubmit(t)
      PROVE  FALSE
  <2>1. snap \in [Targets -> Snapshots]
    BY DEF Base, TypeOK
  <2>2. snap'[c].state = snap[c].state
    BY <1>1, <1>3, <2>1 DEF TripChanges, Resubmit, Snapshots
  <2> QED BY <2>2
<1>4. PICK r \in Requests : Writes(r)
  BY <1>2, <1>3, Shapes
<1>5. cmd[r].target = c /\ ~CustomerMidTrip(r)
  BY <1>1, <1>4, WritePlanned DEF Writes
<1>6. cmd[r].action \notin {"disable", "block"}
  BY <1>5 DEF CustomerMidTrip
<1>7. PICK tr \in TransitionsOf(c) : tr.to = snap'[c].state /\ tr.action = cmd[r].action
  BY <1>4, <1>5, WritePlanned
<1> QED
  BY <1>1, <1>6, <1>7 DEF TransitionsOf, KindOf, CustomerTransitions, Transition

(* The seeded store satisfies the inductive invariant.                     *)
LEMMA InitAll == Init => Inductive
<1> SUFFICES ASSUME Init PROVE Inductive
  OBVIOUS
<1>1. IntentsInOrder /\ NothingBeforeIntent
  BY DEF Init, IntentsInOrder, Intents, NothingBeforeIntent
<1>2. StoresAreBacked /\ OutcomeIsTrue
  BY NoneAssumption DEF Init, StoresAreBacked, OutcomeIsTrue, Replies, Outcomes
<1>3. KeysStaySettled
  BY NoneAssumption DEF Init, KeysStaySettled, Settles, Replies, Outcomes
<1>4. PlansAreLegal /\ StatesFitKinds /\ AccountFollowsState
  BY SeedAssumption DEF Init, PlansAreLegal, StatesFitKinds, AccountFollowsState
<1>5. TrailsFollow
  BY NoneAssumption
     DEF Init, TrailsFollow, FreshTrailMatchesReply, Trails, Replies, Outcomes
<1> QED
  BY <1>1, <1>2, <1>3, <1>4, <1>5, InitBase, InitTokens, InitIndex, InitNames
     DEF Inductive, Base, TokenInv

(* Every step preserves the inductive invariant.                           *)
LEMMA NextAll == ASSUME Inductive, [Next]_vars PROVE Inductive'
<1>1. /\ Base /\ PlanInv /\ TokenInv /\ AuditInv /\ IndexCoversActive
      /\ IndexNamesActive /\ TrailsFollow /\ TruthInv /\ KeysStaySettled
  BY DEF Inductive, Base, PlanInv, TokenInv, AuditInv, TruthInv
<1>2. /\ Base' /\ PlanInv' /\ TokenInv' /\ AuditInv' /\ IndexCoversActive'
      /\ IndexNamesActive' /\ TrailsFollow' /\ TruthInv' /\ KeysStaySettled'
  BY <1>1, NextBase, NextPlan, NextTokens, NextAudit, NextIndex, NextNames, NextTrails,
     NextTruth, NextKeys
<1> QED BY <1>2 DEF Inductive, Base, PlanInv, TokenInv, AuditInv, TruthInv

(* The inductive invariant holds in every reachable state, for any number of *)
(* drivers, agents, customers, actors, keys, calls and port failures.      *)
THEOREM InductiveHolds == Spec => []Inductive
BY InitAll, NextAll, PTL DEF Spec

(* No last-write-wins: two calls never mutate a target with the same token *)
(* (the token re-check under the lock in the repositories' apply()).       *)
THEOREM TokensAreSpentOnce == Spec => []TokenSpentOnce
<1>1. Inductive => TokenSpentOnce
  BY DEF Inductive
<1> QED BY <1>1, InductiveHolds, PTL

(* The pipelines answer what they did: applied, denied or replayed.        *)
THEOREM OutcomesAreTrue == Spec => []OutcomeIsTrue
<1>1. Inductive => OutcomeIsTrue
  BY DEF Inductive
<1> QED BY <1>1, InductiveHolds, PTL

(* No mutation without both audit intents, none by an unauthorised actor.  *)
THEOREM IntentsComeFirst == Spec => []NothingBeforeIntent
<1>1. Inductive => NothingBeforeIntent
  BY DEF Inductive
<1> QED BY <1>1, InductiveHolds, PTL

(* An account is disabled exactly while its target's state says so.        *)
THEOREM AccountsFollow == Spec => []AccountFollowsState
<1>1. Inductive => AccountFollowsState
  BY DEF Inductive
<1> QED BY <1>1, InductiveHolds, PTL

(* One country never has two active agents, whatever activations race      *)
(* (assertNoOtherActiveAgentForCountry under the country's lock).          *)
THEOREM OneActive == Spec => []OneActiveAgentPerCountry
<1>1. Inductive => OneActiveAgentPerCountry
  BY DEF Inductive, IndexCoversActive, OneActiveAgentPerCountry
<1> QED BY <1>1, InductiveHolds, PTL

(* activeByCountry names the active agent of every country that has one    *)
(* and nothing else (rebuildActiveIndex and apply() of the agent store).   *)
THEOREM IndexExact == Spec => []IndexIsExact
<1>1. Inductive => IndexIsExact
  <2> SUFFICES ASSUME Inductive, NEW b \in Buckets
               PROVE  active[b] =
                        IF \E a \in Agents : BucketOf(a) = b /\ snap[a].state = "active"
                        THEN CHOOSE a \in Agents : BucketOf(a) = b /\ snap[a].state = "active"
                        ELSE None
    BY DEF IndexIsExact
  <2>1. \A a \in Agents : BucketOf(a) = b /\ snap[a].state = "active" => active[b] = a
    BY DEF Inductive, IndexCoversActive
  <2>2. active[b] # None =>
          active[b] \in Agents /\ BucketOf(active[b]) = b /\ snap[active[b]].state = "active"
    BY DEF Inductive, IndexNamesActive
  <2>3. CASE \E a \in Agents : BucketOf(a) = b /\ snap[a].state = "active"
    <3> DEFINE found == CHOOSE a \in Agents : BucketOf(a) = b /\ snap[a].state = "active"
    <3>1. found \in Agents /\ BucketOf(found) = b /\ snap[found].state = "active"
      BY <2>3
    <3>2. active[b] = found
      BY <2>1, <3>1
    <3> QED BY <2>3, <3>2
  <2> QED BY <2>2, <2>3
<1> QED BY <1>1, InductiveHolds, PTL

(* A fresh call answered without an error has exactly its answer in the    *)
(* consolidated trail (the facade's audit result precedes the return).     *)
THEOREM TrailsMatch == Spec => []FreshTrailMatchesReply
<1>1. Inductive => FreshTrailMatchesReply
  BY DEF Inductive, TrailsFollow
<1> QED BY <1>1, InductiveHolds, PTL

(* A key answered "applied" never buys another mutation afterwards         *)
(* (the facade's and the domains' idempotency stores together).            *)
THEOREM SettledKeys == Spec => []SettledKeyNotReapplied
<1>1. Inductive => SettledKeyNotReapplied
  <2> SUFFICES ASSUME Inductive, NEW r \in Requests, NEW q \in Requests,
                      q \in after[r], cmd[q].key = cmd[r].key
               PROVE  r \notin applied
    BY DEF SettledKeyNotReapplied
  <2>1. Settles(r) /\ mode[r] \in {"fresh", "replay"}
    BY DEF Inductive, TypeOK, KeysStaySettled
  <2> QED BY <2>1 DEF Settles
<1> QED BY <1>1, InductiveHolds, PTL

(* States move only along the proven transitions, always with a new token. *)
THEOREM StepsAreLegal == Spec => LegalStep
<1>1. Inductive /\ [Next]_vars => [\A t \in Targets : LegalMove(t)]_vars
  BY NextLegal DEF Inductive, Base, PlanInv
<1>2. (\A t \in Targets : LegalMove(t))
        <=> \A t \in Targets :
               snap'[t].state # snap[t].state =>
                 /\ snap'[t].token > snap[t].token
                 /\ \/ \E tr \in TransitionsOf(t) : /\ tr.from = snap[t].state
                                                    /\ tr.to = snap'[t].state
                    \/ t \in Drivers /\ snap[t].state = "needs_changes"
                                     /\ snap'[t].state = "pending_review"
  BY DEF LegalMove
<1> QED BY <1>1, <1>2, InductiveHolds, PTL DEF Spec, LegalStep

(* A customer in the middle of a trip is never disabled or blocked (the trip *)
(* re-check in CustomerWriteRepository.apply).                             *)
THEOREM CustomersFinish == Spec => CustomersFinishTheirTrips
<1>1. Inductive /\ [Next]_vars =>
        [\A c \in Customers : snap[c].trip = "busy" /\ snap'[c].state # snap[c].state
                                => snap'[c].state = "enabled"]_vars
  BY NextCustomers DEF Inductive, Base, PlanInv
<1> QED BY <1>1, InductiveHolds, PTL DEF Spec, CustomersFinishTheirTrips

-----------------------------------------------------------------------------
(* How the calls end.                                                      *)

(* The steps a request still has before it, along its longest way: a       *)
(* rejection after the intent leads through the failure result.            *)
Ahead(step) ==
    CASE step = "done" -> 0
      [] step = "facade_result" -> 1
      [] step = "shared_put" -> 2
      [] step \in {"fail_result", "replay_result"} -> 3
      [] step \in {"put_again", "replay_intent"} -> 4
      [] step = "result" -> 5
      [] step = "put" -> 6
      [] step = "apply" -> 7
      [] step = "intent" -> 8
      [] step = "domain_check" -> 9
      [] step = "lookup" -> 10
      [] step = "load" -> 11
      [] step \in {"facade_intent", "facade_replay_result"} -> 12
      [] step = "facade_replay_intent" -> 13
      [] step = "shared_check" -> 14
      [] step = "new" -> 15

(* Each step of a call brings it nearer to its answer, and nobody else's   *)
(* step, nor a rejected port call, takes it back.                          *)
CallsWindDown ==
    [][\A r \in Requests :
          /\ Ahead(pc[r]) \in 0..15 /\ (Ahead(pc[r]) = 0 <=> pc[r] = "done")
          /\ Ahead(pc'[r]) <= Ahead(pc[r])
          /\ FacadeStep(r) \/ DomainStep(r) => Ahead(pc'[r]) < Ahead(pc[r])]_vars

(* The definition, line by line.                                           *)
LEMMA AheadIs ==
    /\ Ahead("done") = 0 /\ Ahead("facade_result") = 1 /\ Ahead("shared_put") = 2
    /\ Ahead("fail_result") = 3 /\ Ahead("replay_result") = 3
    /\ Ahead("put_again") = 4 /\ Ahead("replay_intent") = 4 /\ Ahead("result") = 5
    /\ Ahead("put") = 6 /\ Ahead("apply") = 7 /\ Ahead("intent") = 8
    /\ Ahead("domain_check") = 9 /\ Ahead("lookup") = 10 /\ Ahead("load") = 11
    /\ Ahead("facade_intent") = 12 /\ Ahead("facade_replay_result") = 12
    /\ Ahead("facade_replay_intent") = 13 /\ Ahead("shared_check") = 14 /\ Ahead("new") = 15
BY DEF Ahead

(* Fifteen steps at most, and none only when the call is answered.         *)
LEMMA AheadType ==
    ASSUME NEW step \in Steps
    PROVE  Ahead(step) \in 0..15 /\ (Ahead(step) = 0 <=> step = "done")
BY AheadIs DEF Steps, DomainSteps, FacadeSteps

(* The steps that move a call, a rejected port call among them.            *)
CallMoves(r) == FacadeStep(r) \/ DomainStep(r) \/ PortFails(r)
                  \/ Submit(r) \/ Retry(r) \/ ApiRetry(r)

(* The pipeline returns to the last steps of the facade or to the caller.  *)
LEMMA ReturnNears ==
    ASSUME NEW r \in Requests, NEW what, pc \in [Requests -> Steps], DomainReturns(r, what)
    PROVE  \E s \in {"done", "facade_result", "shared_put"} : pc' = [pc EXCEPT ![r] = s]
BY DEF DomainReturns, Answer, Goto

(* Every such step leads nearer to the answer.                             *)
LEMMA MovesOn ==
    ASSUME NEW r \in Requests, pc \in [Requests -> Steps], CallMoves(r)
    PROVE  \E s \in Steps : pc' = [pc EXCEPT ![r] = s] /\ Ahead(s) < Ahead(pc[r])
<1> USE AheadIs DEF Goto, Answer, Steps, DomainSteps, FacadeSteps
<1>1. CASE Submit(r) \/ Retry(r) \/ ApiRetry(r)
  <2>1. pc[r] = "new" /\ pc' = [pc EXCEPT ![r] = "shared_check"]
    BY <1>1 DEF Submit, Retry, ApiRetry, Call
  <2> QED BY <2>1
<1>2. CASE CheckShared(r)
  <2>1. pc[r] = "shared_check" /\ \E s \in {"facade_intent", "facade_replay_intent", "done"} : pc' = [pc EXCEPT ![r] = s]
    BY <1>2 DEF CheckShared
  <2>2. PICK s \in {"facade_intent", "facade_replay_intent", "done"} : pc' = [pc EXCEPT ![r] = s]
    BY <2>1
  <2>3. s \in Steps /\ Ahead(s) < Ahead(pc[r])
    BY <2>1
  <2> QED BY <2>2, <2>3
<1>3. CASE FacadeIntent(r) \/ FacadeReplayIntent(r) \/ FacadeReplayResult(r)
  BY <1>3 DEF FacadeIntent, FacadeReplayIntent, FacadeReplayResult
<1>4. CASE SharedPut(r) \/ FacadeResult(r)
  BY <1>4 DEF SharedPut, FacadeResult
<1>5. CASE LoadDriver(r) \/ LoadCustomer(r) \/ LoadAgent(r)
  <2>1. pc[r] = "load" /\ \E s \in {"domain_check", "lookup", "done", "facade_result", "shared_put"} : pc' = [pc EXCEPT ![r] = s]
    BY <1>5, ReturnNears DEF LoadDriver, LoadCustomer, LoadAgent, Decide
  <2>2. PICK s \in {"domain_check", "lookup", "done", "facade_result", "shared_put"} : pc' = [pc EXCEPT ![r] = s]
    BY <2>1
  <2>3. s \in Steps /\ Ahead(s) < Ahead(pc[r])
    BY <2>1
  <2> QED BY <2>2, <2>3
<1>6. CASE LookupActiveAgent(r)
  <2>1. pc[r] = "lookup" /\ \E s \in {"domain_check", "done", "facade_result", "shared_put"} : pc' = [pc EXCEPT ![r] = s]
    BY <1>6, ReturnNears DEF LookupActiveAgent
  <2>2. PICK s \in {"domain_check", "done", "facade_result", "shared_put"} : pc' = [pc EXCEPT ![r] = s]
    BY <2>1
  <2>3. s \in Steps /\ Ahead(s) < Ahead(pc[r])
    BY <2>1
  <2> QED BY <2>2, <2>3
<1>7. CASE CheckDomain(r)
  <2>1. pc[r] = "domain_check"
        /\ \E s \in {"intent", "replay_intent", "done", "facade_result", "shared_put"} : pc' = [pc EXCEPT ![r] = s]
    BY <1>7, ReturnNears DEF CheckDomain
  <2>2. PICK s \in {"intent", "replay_intent", "done", "facade_result", "shared_put"} : pc' = [pc EXCEPT ![r] = s]
    BY <2>1
  <2>3. s \in Steps /\ Ahead(s) < Ahead(pc[r])
    BY <2>1
  <2> QED BY <2>2, <2>3
<1>8. CASE ReplayIntent(r) \/ DomainIntent(r)
  BY <1>8 DEF ReplayIntent, DomainIntent
<1>9. CASE ReplayResult(r) \/ PutAgain(r) \/ FailureResult(r)
  <2>1. pc[r] \in {"replay_result", "put_again", "fail_result"}
        /\ \E s \in {"done", "facade_result", "shared_put"} : pc' = [pc EXCEPT ![r] = s]
    BY <1>9, ReturnNears DEF ReplayResult, PutAgain, FailureResult
  <2>2. PICK s \in {"done", "facade_result", "shared_put"} : pc' = [pc EXCEPT ![r] = s]
    BY <2>1
  <2>3. s \in Steps /\ Ahead(s) < Ahead(pc[r])
    BY <2>1
  <2> QED BY <2>2, <2>3
<1>10. CASE ApplyDriver(r) \/ ApplyCustomer(r) \/ ApplyAgent(r)
  <2>1. pc[r] = "apply" /\ \E s \in {"put", "fail_result"} : pc' = [pc EXCEPT ![r] = s]
    BY <1>10 DEF ApplyDriver, ApplyCustomer, ApplyAgent, Mutate, Refuse
  <2>2. PICK s \in {"put", "fail_result"} : pc' = [pc EXCEPT ![r] = s]
    BY <2>1
  <2>3. s \in Steps /\ Ahead(s) < Ahead(pc[r])
    BY <2>1
  <2> QED BY <2>2, <2>3
<1>11. CASE Put(r) \/ AppliedResult(r)
  BY <1>11 DEF Put, AppliedResult
<1>12. CASE PortFails(r)
  <2>1. CASE pc[r] \in FacadeSteps /\ pc' = [pc EXCEPT ![r] = "done"]
    BY <2>1
  <2>2. CASE pc[r] \in {"apply", "put", "result", "put_again"} /\ pc' = [pc EXCEPT ![r] = "fail_result"]
    BY <2>2
  <2>3. CASE pc[r] \in {"load", "lookup", "domain_check", "intent", "replay_intent", "replay_result", "fail_result"}
             /\ \E s \in {"done", "facade_result", "shared_put"} : pc' = [pc EXCEPT ![r] = s]
    <3>1. PICK s \in {"done", "facade_result", "shared_put"} : pc' = [pc EXCEPT ![r] = s]
      BY <2>3
    <3>2. s \in Steps /\ Ahead(s) < Ahead(pc[r])
      BY <2>3
    <3> QED BY <3>1, <3>2
  <2> QED BY <1>12, <2>1, <2>2, <2>3, ReturnNears DEF PortFails
<1> QED BY <1>1, <1>2, <1>3, <1>4, <1>5, <1>6, <1>7, <1>8, <1>9, <1>10, <1>11, <1>12
        DEF CallMoves, FacadeStep, DomainStep

(* No call takes more than fifteen steps, whatever is rejected: what         *)
(* EveryCallAnswered adds is that a started call keeps taking them.        *)
THEOREM CallsAreFinite == Spec => CallsWindDown
<1> DEFINE Winds == \A r \in Requests :
          /\ Ahead(pc[r]) \in 0..15 /\ (Ahead(pc[r]) = 0 <=> pc[r] = "done")
          /\ Ahead(pc'[r]) <= Ahead(pc[r])
          /\ FacadeStep(r) \/ DomainStep(r) => Ahead(pc'[r]) < Ahead(pc[r])
<1>1. ASSUME TypeOK, Next, NEW r \in Requests
      PROVE  /\ Ahead(pc[r]) \in 0..15 /\ (Ahead(pc[r]) = 0 <=> pc[r] = "done")
             /\ Ahead(pc'[r]) <= Ahead(pc[r])
             /\ FacadeStep(r) \/ DomainStep(r) => Ahead(pc'[r]) < Ahead(pc[r])
  <2>1. pc \in [Requests -> Steps]
    BY <1>1 DEF TypeOK
  <2>2. Ahead(pc[r]) \in 0..15 /\ (Ahead(pc[r]) = 0 <=> pc[r] = "done")
    BY <2>1, AheadType
  <2>3. CASE CallMoves(r)
    <3>1. PICK s \in Steps : pc' = [pc EXCEPT ![r] = s] /\ Ahead(s) < Ahead(pc[r])
      BY <2>1, <2>3, MovesOn
    <3>2. pc'[r] = s /\ Ahead(s) \in 0..15
      BY <2>1, <3>1, AheadType
    <3> QED BY <2>2, <3>1, <3>2
  <2>4. CASE ~CallMoves(r)
    <3>1. pc'[r] = pc[r]
      <4>1. ASSUME NEW q \in Requests, CallMoves(q) PROVE pc'[r] = pc[r]
        BY <2>1, <2>4, <4>1, MovesOn
      <4>2. CASE \E t \in Targets : TripChanges(t) \/ Resubmit(t)
        BY <4>2 DEF TripChanges, Resubmit
      <4>3. CASE UNCHANGED vars
        BY <4>3 DEF vars
      <4> QED BY <1>1, <4>1, <4>2, <4>3 DEF Next, CallMoves
    <3> QED BY <2>2, <2>4, <3>1 DEF CallMoves
  <2> QED BY <2>2, <2>3, <2>4
<1>2. TypeOK /\ [Next]_vars => [Winds]_vars
  BY <1>1
<1> QED BY <1>2, TypesHold, PTL DEF Spec, CallsWindDown
=============================================================================
