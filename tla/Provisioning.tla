----------------------------- MODULE Provisioning -----------------------------
(***************************************************************************)
(* Provisioning of the one synthetic driver of phase 5J: an operator's run *)
(* makes a disabled Auth account, the document user/{uid}, waits for the   *)
(* claims that a trigger derives from the document, verifies the document  *)
(* and writes its progress to a registry file, which the next run reads to *)
(* decide whether to start, to resume or to refuse.                        *)
(*                                                                         *)
(* A step is what happens between two awaits.  The process may stop at any *)
(* await and while it writes the file; a call to Auth or Firestore may     *)
(* fail, or take effect and lose its answer.  The console may change,      *)
(* enable or delete the fixture behind a run's back.  What a run counts    *)
(* and reports besides its outcome is left out; its side-effect check      *)
(* compares counters that no step of it increments.                        *)
(***************************************************************************)
EXTENDS Naturals, FiniteSets

CONSTANTS
    Attempts,           \* runs of the harness, each used once
    Uids,               \* uids that Auth may hand out
    MaxPolls,           \* reads of the claims before a run gives up (8 in the code)
    MaxCrashes,         \* bound: runs cut short
    MaxPortFaults,      \* bound: port calls that fail or lose their answer
    MaxFixtureTouches,  \* bound: changes made by hand in the console
    NoUid

ASSUME ProvisioningAssumption ==
    /\ MaxPolls \in Nat \ {0}
    /\ MaxCrashes \in Nat /\ MaxPortFaults \in Nat /\ MaxFixtureTouches \in Nat
    /\ NoUid \notin Uids
    /\ Cardinality(Attempts) <= Cardinality(Uids)

VARIABLES
    reg,            \* the registry file: status and uid
    accounts,       \* uids that exist in Auth
    touched,        \* accounts no longer disabled or no longer without contact
    docs,           \* uid -> "absent", "fixture" or "changed"
    claims,         \* uid -> "none", "expected" or "unexpected"
    stage,          \* run -> where it waits
    uidOf,          \* run -> the uid it works on
    polls,          \* run -> claim reads made
    told,           \* run -> what the operator is told
    spent,          \* crashes, faults and touches so far
    mishaps         \* history: what went wrong that the code does not guard against

fixtureVars ==
    <<reg, accounts, touched, docs, claims, stage, uidOf, polls, told, spent, mishaps>>
world == <<accounts, touched, docs, claims>>

PartialFailures == {"failed_partial", "failed_partial_auth_only",
                    "failed_partial_claims", "failed_partial_canonical"}
Provisioned == {"firestore_created", "claims_verified", "pilot_ready"}
FixtureStatus == {"planned", "auth_created"} \cup Provisioned \cup PartialFailures
Planned == [status |-> "planned", uid |-> NoUid]

Places == {"idle", "intent", "geography", "create", "created", "createFailed", "getUser",
           "exists", "createDoc", "docMade", "poll", "canonical", "audit", "done", "cut"}
Active(r) == stage[r] \notin {"idle", "done", "cut"}

FixtureTypeOK ==
    /\ reg \in [status : FixtureStatus, uid : Uids \cup {NoUid}]
    /\ accounts \subseteq Uids /\ touched \subseteq accounts
    /\ docs \in [Uids -> {"absent", "fixture", "changed"}]
    /\ \A u \in Uids : docs[u] # "absent" => u \in accounts
    /\ claims \in [Uids -> {"none", "expected", "unexpected"}]
    /\ stage \in [Attempts -> Places]
    /\ uidOf \in [Attempts -> accounts \cup {NoUid}]
    /\ polls \in [Attempts -> 0..MaxPolls - 1]
    /\ told \in [Attempts -> {"none", "refused", "failed", "ready"}]
    /\ spent \in [crash : 0..MaxCrashes, fault : 0..MaxPortFaults, touch : 0..MaxFixtureTouches]
    /\ mishaps \subseteq {"overlap", "cut after create", "torn file", "lost create", "touched"}

FixtureInit ==
    /\ reg = Planned
    /\ accounts = {} /\ touched = {}
    /\ docs = [u \in Uids |-> "absent"]
    /\ claims = [u \in Uids |-> "none"]
    /\ stage = [r \in Attempts |-> "idle"]
    /\ uidOf = [r \in Attempts |-> NoUid]
    /\ polls = [r \in Attempts |-> 0]
    /\ told = [r \in Attempts |-> "none"]
    /\ spent = [crash |-> 0, fault |-> 0, touch |-> 0]
    /\ mishaps = {}

-----------------------------------------------------------------------------
(* Saving, answering, failing.                                               *)

MoveTo(r, place) == stage' = [stage EXCEPT ![r] = place]
Say(r, word) == told' = [told EXCEPT ![r] = word]

Persist(status, u) == reg' = [status |-> status, uid |-> u]

\* Save the new status and go on; another run's entry is overwritten unread.
Advance(r, status, place) ==
    /\ Persist(status, uidOf[r])
    /\ MoveTo(r, place)
    /\ UNCHANGED told

\* Save a failure and go on to the result audit.
Fail(r, status) ==
    /\ Persist(status, uidOf[r])
    /\ MoveTo(r, "audit")
    /\ Say(r, "failed")

Faulty == spent.fault < MaxPortFaults /\ spent' = [spent EXCEPT !.fault = @ + 1]

-----------------------------------------------------------------------------
(* Starting.                                                                 *)

MayCreate == reg = Planned
MayResume == reg.status = "auth_created" /\ reg.uid # NoUid

\* mistake: a failed run may be tried again from the start
BugRetryFailed == MayCreate \/ MayResume \/ reg.status \in PartialFailures

\* evaluatePhase5JIdempotency: any other entry refuses, also one without a uid.
MayStart == MayCreate \/ MayResume

\* An unarmed or unsafe environment is refused before anything is read.
Gated(r) ==
    /\ stage[r] = "idle"
    /\ MoveTo(r, "done")
    /\ Say(r, "refused")
    /\ UNCHANGED <<reg, world, uidOf, polls, spent, mishaps>>

LoadRegistry(r) ==
    /\ stage[r] = "idle"
    /\ IF MayStart
       THEN MoveTo(r, "intent") /\ UNCHANGED told
       ELSE MoveTo(r, "done") /\ Say(r, "refused")
    /\ uidOf' = [uidOf EXCEPT ![r] = IF MayResume THEN reg.uid ELSE NoUid]
    /\ mishaps' = mishaps \cup (IF \E s \in Attempts : Active(s) THEN {"overlap"} ELSE {})
    /\ UNCHANGED <<reg, world, polls, spent>>

\* Nothing is attempted unless the intent is on the audit trail.
AuditIntent(r) ==
    /\ stage[r] = "intent"
    /\ \/ MoveTo(r, "geography") /\ UNCHANGED <<told, spent>>
       \/ Faulty /\ MoveTo(r, "done") /\ Say(r, "failed")
    /\ UNCHANGED <<reg, world, uidOf, polls, mishaps>>

\* A missing country or village ends the run and leaves the registry alone.
CheckGeography(r) ==
    /\ stage[r] = "geography"
    /\ \/ /\ MoveTo(r, IF uidOf[r] = NoUid THEN "create" ELSE "getUser")
          /\ UNCHANGED <<told, spent>>
       \/ Faulty /\ MoveTo(r, "audit") /\ Say(r, "failed")
    /\ UNCHANGED <<reg, world, uidOf, polls, mishaps>>

-----------------------------------------------------------------------------
(* The account.                                                              *)

CreateAccount(r) ==
    /\ stage[r] = "create"
    /\ \E u \in Uids \ accounts :
          \/ /\ accounts' = accounts \cup {u}
             /\ uidOf' = [uidOf EXCEPT ![r] = u]
             /\ MoveTo(r, "created")
             /\ UNCHANGED <<spent, mishaps>>
          \/ /\ Faulty
             /\ \/ UNCHANGED <<accounts, mishaps>>
                \/ accounts' = accounts \cup {u} /\ mishaps' = mishaps \cup {"lost create"}
             /\ MoveTo(r, "createFailed")
             /\ UNCHANGED uidOf
    /\ UNCHANGED <<reg, touched, docs, claims, polls, told>>

NameAccount(r) ==
    /\ stage[r] = "created"
    /\ Advance(r, "auth_created", "getUser")
    /\ UNCHANGED <<world, uidOf, polls, spent, mishaps>>

CreationFailed(r) ==
    /\ stage[r] = "createFailed"
    /\ Fail(r, "failed_partial")
    /\ UNCHANGED <<world, uidOf, polls, spent, mishaps>>

\* The account must still be disabled and without e-mail and phone.
CheckAccount(r) ==
    /\ stage[r] = "getUser"
    /\ \/ uidOf[r] \notin touched /\ MoveTo(r, "exists") /\ UNCHANGED <<reg, told, spent>>
       \/ uidOf[r] \in touched /\ Fail(r, "failed_partial_auth_only") /\ UNCHANGED spent
       \/ Faulty /\ Fail(r, "failed_partial_auth_only")
    /\ UNCHANGED <<world, uidOf, polls, mishaps>>

-----------------------------------------------------------------------------
(* The document and its claims.                                              *)

DocExists(r) ==
    /\ stage[r] = "exists"
    /\ IF docs[uidOf[r]] = "absent"
       THEN MoveTo(r, "createDoc") /\ UNCHANGED <<reg, told>>
       ELSE Fail(r, "failed_partial")
    /\ UNCHANGED <<world, uidOf, polls, spent, mishaps>>

\* Create-only: a document that appeared meanwhile is not overwritten.
CreateDoc(r) ==
    /\ stage[r] = "createDoc"
    /\ \/ /\ docs[uidOf[r]] = "absent"
          /\ docs' = [docs EXCEPT ![uidOf[r]] = "fixture"]
          /\ MoveTo(r, "docMade")
          /\ UNCHANGED <<reg, told, spent>>
       \/ /\ docs[uidOf[r]] # "absent"
          /\ Fail(r, "failed_partial")
          /\ UNCHANGED <<docs, spent>>
       \/ /\ Faulty
          /\ docs' \in {docs, [docs EXCEPT ![uidOf[r]] = IF @ = "absent" THEN "fixture" ELSE @]}
          /\ Fail(r, "failed_partial_auth_only")
    /\ UNCHANGED <<accounts, touched, claims, uidOf, polls, mishaps>>

DocMade(r) ==
    /\ stage[r] = "docMade"
    /\ Advance(r, "firestore_created", "poll")
    /\ UNCHANGED <<world, uidOf, polls, spent, mishaps>>

\* The claims are derived from the document by a trigger outside this program.
Derived(u) == IF docs[u] = "fixture" THEN "expected" ELSE "unexpected"
SyncClaims(u) ==
    /\ docs[u] # "absent"
    /\ claims[u] # Derived(u)
    /\ claims' = [claims EXCEPT ![u] = Derived(u)]
    /\ UNCHANGED <<reg, accounts, touched, docs, stage, uidOf, polls, told, spent, mishaps>>

\* mistake: running out of attempts counts as success
BugTimeoutPasses(r) ==
    IF polls[r] + 1 < MaxPolls
    THEN polls' = [polls EXCEPT ![r] = @ + 1] /\ UNCHANGED <<reg, stage, told>>
    ELSE Advance(r, "claims_verified", "canonical") /\ UNCHANGED polls

\* mistake: the attempts are not counted
BugPollForever(r) == UNCHANGED <<polls, reg, stage, told>>

\* One more read without an answer, or the end of the poll.
Again(r) ==
    IF polls[r] + 1 < MaxPolls
    THEN polls' = [polls EXCEPT ![r] = @ + 1] /\ UNCHANGED <<reg, stage, told>>
    ELSE Fail(r, "failed_partial_claims") /\ UNCHANGED polls

\* No claims yet or no answer: read again, up to the bound.  Wrong claims end the
\* poll at once.
PollClaims(r) ==
    /\ stage[r] = "poll"
    /\ \/ /\ claims[uidOf[r]] = "expected"
          /\ Advance(r, "claims_verified", "canonical")
          /\ UNCHANGED <<polls, spent>>
       \/ /\ claims[uidOf[r]] = "unexpected"
          /\ Fail(r, "failed_partial_claims")
          /\ UNCHANGED <<polls, spent>>
       \/ /\ \/ claims[uidOf[r]] = "none" /\ UNCHANGED spent
             \/ Faulty
          /\ Again(r)
    /\ UNCHANGED <<world, uidOf, mishaps>>

\* What cannot be read is replaced by the document it is compared with.
Canonical(u) == docs[u] # "changed"

VerifyFixture(r) ==
    /\ stage[r] = "canonical"
    /\ IF Canonical(uidOf[r])
       THEN /\ Persist("pilot_ready", uidOf[r])
            /\ MoveTo(r, "audit")
            /\ Say(r, "ready")
       ELSE Fail(r, "failed_partial_canonical")
    /\ UNCHANGED <<world, uidOf, polls, spent, mishaps>>

\* The result audit may fail without anybody being told.
AuditResult(r) ==
    /\ stage[r] = "audit"
    /\ MoveTo(r, "done")
    /\ UNCHANGED <<reg, world, uidOf, polls, told, spent, mishaps>>

-----------------------------------------------------------------------------
(* Crashes and the console.                                                  *)

\* A run also ends like this when a read of Firestore throws.
Crash(r) ==
    /\ Active(r)
    /\ spent.crash < MaxCrashes
    /\ spent' = [spent EXCEPT !.crash = @ + 1]
    /\ MoveTo(r, "cut")
    /\ \/ /\ mishaps' = mishaps \cup (IF stage[r] \in {"created", "createFailed"}
                                     THEN {"cut after create"} ELSE {})
          /\ UNCHANGED reg
       \/ \* the file is truncated and not yet rewritten: it reads as if nothing was planned
          /\ stage[r] \notin {"intent", "geography", "create", "audit"}
          /\ reg' = Planned
          /\ mishaps' = mishaps \cup {"torn file"}
    /\ UNCHANGED <<world, uidOf, polls, told>>

TouchFixture(u) ==
    /\ u \in accounts
    /\ spent.touch < MaxFixtureTouches
    /\ spent' = [spent EXCEPT !.touch = @ + 1]
    /\ mishaps' = mishaps \cup {"touched"}
    /\ \/ touched' = touched \cup {u} /\ UNCHANGED docs
       \/ docs[u] # "absent" /\ docs' \in {[docs EXCEPT ![u] = s] : s \in {"absent", "changed"}}
          /\ UNCHANGED touched
    /\ UNCHANGED <<reg, accounts, claims, stage, uidOf, polls, told>>

Step(r) == \/ LoadRegistry(r) \/ AuditIntent(r) \/ CheckGeography(r) \/ CreateAccount(r)
           \/ NameAccount(r) \/ CreationFailed(r) \/ CheckAccount(r) \/ DocExists(r)
           \/ CreateDoc(r) \/ DocMade(r) \/ PollClaims(r) \/ VerifyFixture(r) \/ AuditResult(r)

FixtureNext == \/ \E r \in Attempts : Step(r) \/ Gated(r) \/ Crash(r)
               \/ \E u \in Uids : SyncClaims(u) \/ TouchFixture(u)

FixtureSpec == FixtureInit /\ [][FixtureNext]_fixtureVars
\* A started process keeps running until it ends or is cut; the trigger may take
\* for ever and nobody has to start a run.
FairFixtureSpec == FixtureSpec /\ \A r \in Attempts : WF_fixtureVars(stage[r] # "idle" /\ Step(r))

-----------------------------------------------------------------------------
(* Properties.                                                               *)

\* "Never multi Auth": a second account appears only after a run was cut between
\* Auth's answer and the registry entry, the file was torn, or two runs overlapped.
OneAccountUnlessCut ==
    Cardinality(accounts) > 1 =>
        mishaps \cap {"cut after create", "torn file", "overlap"} # {}

\* A fixture announced as ready to pilot has its account, its document and its
\* claims, provided nobody changed it by hand, also when runs overlap.
ReadyFixtureIsSound ==
    "touched" \notin mishaps =>
        /\ \A r \in Attempts : told[r] = "ready" =>
              docs[uidOf[r]] = "fixture" /\ claims[uidOf[r]] = "expected"
        /\ reg.status = "pilot_ready" =>
              docs[reg.uid] = "fixture" /\ claims[reg.uid] = "expected"

\* Every run that has started ends, whether or not the claims ever appear.
EveryRunEnds == \A r \in Attempts : Active(r) ~> ~Active(r)
=============================================================================
