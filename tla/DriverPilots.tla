---------------------------- MODULE DriverPilots ----------------------------
(***************************************************************************)
(* The one production write of phase 5M and its repair in phase 5N.  A     *)
(* pilot run moves the synthetic driver from pending_review to             *)
(* needs_changes through the driver pipeline with Firestore adapters:      *)
(* audit intent, transaction on user/{uid}, idempotency document, audit    *)
(* result, idempotency document again with the id of the result.  A        *)
(* reconcile run looks at what an earlier pilot left behind and writes the *)
(* success result and the id that are missing.                             *)
(*                                                                         *)
(* A step is what happens between two awaits.  A process may stop at any   *)
(* of them (a read that rejects ends it as well), a write may fail or take *)
(* effect and lose its answer, and the console may change the driver.      *)
(* Gates, permissions and the registry are taken to have passed: a run     *)
(* they refuse writes nothing.  The second read for the country scope, the *)
(* Auth user, whose claims a trigger keeps, and the counters of writes no  *)
(* step makes are left out.                                                *)
(***************************************************************************)
EXTENDS Naturals, FiniteSets

CONSTANTS
    Pilots,         \* runs of the phase 5M harness
    Reconcilers,    \* runs of the phase 5N harness
    Original,       \* the pilot whose ids phase 5N has as constants
    MaxCuts,        \* bound: runs cut short
    MaxFaults,      \* bound: writes that fail or lose their answer
    MaxTouches,     \* bound: changes of the driver by hand
    None

Runs == Pilots \cup Reconcilers

(* The ids of audit results: a pilot draws fresh ones, the reconcile run    *)
(* always plans the document dwr_phase5n_reconcile.                         *)
Applied(m) == [by |-> m, outcome |-> "applied"]
Refused(m) == [by |-> m, outcome |-> "refused"]
Replayed(m) == [by |-> m, outcome |-> "replayed"]
Repair == [by |-> "5N", outcome |-> "applied"]
Results == {Applied(m) : m \in Pilots} \cup {Refused(m) : m \in Pilots}
               \cup {Replayed(m) : m \in Pilots} \cup {Repair}

(* The idempotency document: the intent it belongs to, the id of the result *)
(* once it is known, and the token that is part of its fingerprint.         *)
Records == [intent : Pilots, result : Results \cup {None}, time : Nat]

ASSUME PilotAssumption ==
    /\ Pilots \cap Reconcilers = {}
    /\ Original \in Pilots /\ "5N" \notin Pilots
    /\ MaxCuts \in Nat /\ MaxFaults \in Nat /\ MaxTouches \in Nat
    /\ None \notin Results \cup Records

VARIABLES
    doc,        \* user/{uid}: state, whether it is on a trip, update time
                \* in milliseconds
    intents,    \* pilots whose audit intent is stored
    results,    \* audit results stored
    key,        \* the idempotency document of the pilot key
    pc,         \* run -> where it waits
    read,       \* pilot -> the document it verified
    seen,       \* reconcile run -> what it has read and not yet used
    reply,      \* run -> what the operator is told
    wrote,      \* history: pilots whose transaction committed
    misled,     \* history: pilots whose driver changed once more in the
                \* millisecond they had verified
    after,      \* history: runs that began after somebody was told "pass"
    used        \* cuts, faults and touches so far

stores == <<doc, intents, results, key>>
vars == <<stores, pc, read, seen, reply, wrote, misled, after, used>>

States == {"pending_review", "needs_changes", "approved"}
Documents == [state : States, busy : BOOLEAN, time : Nat]
Observations == [driver : States, intent : BOOLEAN, key : Records \cup {None}]
PilotPlaces == {"idle", "lookup", "reread", "load", "check", "replayIntent",
                "replayResult", "intent", "write", "put", "result", "putAgain",
                "verify", "refuse", "done", "cut"}
RepairPlaces == {"idle", "readIntent", "readKey", "plan", "create", "recheck",
                 "patch", "seeDriver", "seeKey", "seeResults", "done", "cut"}
Replies == {"none", "precondition", "already", "nogo", "pass"}

TypeOK ==
    /\ doc \in Documents
    /\ intents \subseteq Pilots
    /\ results \subseteq Results
    /\ key \in Records \cup {None}
    /\ pc \in [Runs -> PilotPlaces \cup RepairPlaces]
    /\ \A m \in Pilots : pc[m] \in PilotPlaces
    /\ \A n \in Reconcilers : pc[n] \in RepairPlaces
    /\ read \in [Pilots -> Documents]
    /\ seen \in [Reconcilers -> Observations]
    /\ reply \in [Runs -> Replies]
    /\ wrote \subseteq Pilots
    /\ misled \subseteq Pilots
    /\ after \subseteq Runs
    /\ used \in [cut : Nat, fault : Nat, touch : Nat]

Fresh == [state |-> "pending_review", busy |-> FALSE, time |-> 0]
Nothing == [driver |-> "pending_review", intent |-> FALSE, key |-> None]

Init ==
    /\ doc = Fresh
    /\ intents = {} /\ results = {} /\ key = None
    /\ pc = [r \in Runs |-> "idle"]
    /\ read = [m \in Pilots |-> Fresh]
    /\ seen = [n \in Reconcilers |-> Nothing]
    /\ reply = [r \in Runs |-> "none"]
    /\ wrote = {} /\ misled = {} /\ after = {}
    /\ used = [cut |-> 0, fault |-> 0, touch |-> 0]

Goto(r, place) == pc' = [pc EXCEPT ![r] = place] /\ UNCHANGED reply
Finish(r, word) == pc' = [pc EXCEPT ![r] = "done"] /\ reply' = [reply EXCEPT ![r] = word]
Passed == {r \in Runs : reply[r] = "pass"}
Begins(r) == after' = IF Passed = {} THEN after ELSE after \cup {r}

-----------------------------------------------------------------------------
(* The pilot: checks before the pipeline.                                   *)

Verified(d) == d.state = "pending_review" /\ ~d.busy

(* Mutant of Unchanged: the state is compared, the update time is not.      *)
BugStateOnly(m, d) == d.state = "pending_review"

(* The race guard, the precondition check and the transaction all ask that  *)
(* the document is still the one that was verified, by its state and its    *)
(* update time; the token holds that time cut to milliseconds.              *)
Unchanged(m, d) == d.state = "pending_review" /\ d.time = read[m].time

Begin(m) ==
    /\ pc[m] = "idle"
    /\ read' = [read EXCEPT ![m] = doc]
    /\ Begins(m)
    /\ \/ Verified(doc) /\ Goto(m, "lookup")
       \/ ~Verified(doc) /\ Finish(m, "precondition")
    /\ UNCHANGED <<stores, seen, wrote, misled, used>>

Settled == key # None

Lookup(m) ==
    /\ pc[m] = "lookup"
    /\ \/ ~Settled /\ Goto(m, "reread")
       \/ Settled /\ Finish(m, "already")
    /\ UNCHANGED <<stores, read, seen, wrote, misled, after, used>>

Reread(m) ==
    /\ pc[m] = "reread"
    /\ \/ Unchanged(m, doc) /\ Goto(m, "load")
       \/ ~Unchanged(m, doc) /\ Finish(m, "precondition")
    /\ UNCHANGED <<stores, read, seen, wrote, misled, after, used>>

-----------------------------------------------------------------------------
(* The pilot: the driver pipeline over the adapters.                        *)

Load(m) ==
    /\ pc[m] = "load"
    /\ \/ Unchanged(m, doc) /\ Goto(m, "check")
       \/ ~Unchanged(m, doc) /\ Finish(m, "nogo")
    /\ UNCHANGED <<stores, read, seen, wrote, misled, after, used>>

(* The fingerprints of two pilots differ in the token alone.                *)
Check(m) ==
    /\ pc[m] = "check"
    /\ \/ key = None /\ Goto(m, "intent")
       \/ key # None /\ key.time = read[m].time /\ Goto(m, "replayIntent")
       \/ key # None /\ key.time # read[m].time /\ Finish(m, "nogo")
    /\ UNCHANGED <<stores, read, seen, wrote, misled, after, used>>

ReplayIntent(m) ==
    /\ pc[m] = "replayIntent"
    /\ intents' = intents \cup {m}
    /\ Goto(m, "replayResult")
    /\ UNCHANGED <<doc, results, key, read, seen, wrote, misled, after, used>>

ReplayResult(m) ==
    /\ pc[m] = "replayResult"
    /\ results' = results \cup {Replayed(m)}
    /\ Finish(m, "already")
    /\ UNCHANGED <<doc, intents, key, read, seen, wrote, misled, after, used>>

StoreIntent(m) ==
    /\ intents' = intents \cup {m}
    /\ UNCHANGED <<doc, results, key, wrote, misled>>

(* recordIntent: create-only under an id nobody else draws.                 *)
Intent(m) ==
    /\ pc[m] = "intent"
    /\ StoreIntent(m)
    /\ Goto(m, "write")
    /\ UNCHANGED <<read, seen, after, used>>

(* A change gets its update time: the millisecond of the last one or later. *)
Stamps(d) ==
    \E t \in {doc.time, doc.time + 1} :
       /\ doc' = [d EXCEPT !.time = t]
       /\ misled' = IF t > doc.time THEN misled
                    ELSE misled \cup {m \in Pilots : pc[m] # "idle" /\ read[m].time = t}

Commit(m) ==
    /\ Stamps([doc EXCEPT !.state = "needs_changes"])
    /\ wrote' = wrote \cup {m}
    /\ UNCHANGED <<intents, results, key>>

Write(m) ==
    /\ pc[m] = "write"
    /\ \/ Unchanged(m, doc) /\ Commit(m) /\ Goto(m, "put")
       \/ ~Unchanged(m, doc) /\ Goto(m, "refuse") /\ UNCHANGED <<stores, wrote, misled>>
    /\ UNCHANGED <<read, seen, after, used>>

(* Mutant of StoreKey: the first put already names the result to come.      *)
BugResultPromised(m) ==
    /\ key' = [intent |-> m, result |-> Applied(m), time |-> read[m].time]
    /\ UNCHANGED <<doc, intents, results, wrote, misled>>

StoreKey(m) ==
    /\ key' = [intent |-> m, result |-> None, time |-> read[m].time]
    /\ UNCHANGED <<doc, intents, results, wrote, misled>>

(* Mutant of Put: the first put merges, as the second one does.             *)
BugPutMerges(m) ==
    /\ pc[m] = "put" /\ StoreKey(m) /\ Goto(m, "result")
    /\ UNCHANGED <<read, seen, after, used>>

(* The first put of a store is a create: an existing document refuses it.   *)
Put(m) ==
    /\ pc[m] = "put"
    /\ \/ key = None /\ StoreKey(m) /\ Goto(m, "result")
       \/ key # None /\ Goto(m, "refuse") /\ UNCHANGED <<stores, wrote, misled>>
    /\ UNCHANGED <<read, seen, after, used>>

StoreResult(m) ==
    /\ results' = results \cup {Applied(m)}
    /\ UNCHANGED <<doc, intents, key, wrote, misled>>

Result(m) ==
    /\ pc[m] = "result"
    /\ StoreResult(m)
    /\ Goto(m, "putAgain")
    /\ UNCHANGED <<read, seen, after, used>>

(* The second put merges the whole record, whatever the document says now.  *)
StoreKeyAgain(m) ==
    /\ key' = [intent |-> m, result |-> Applied(m), time |-> read[m].time]
    /\ UNCHANGED <<doc, intents, results, wrote, misled>>

PutAgain(m) ==
    /\ pc[m] = "putAgain"
    /\ StoreKeyAgain(m)
    /\ Goto(m, "verify")
    /\ UNCHANGED <<read, seen, after, used>>

(* The catch of the pipeline records a failure and answers "not ok".        *)
Refuse(m) ==
    /\ pc[m] = "refuse"
    /\ results' = results \cup {Refused(m)}
    /\ Finish(m, "nogo")
    /\ UNCHANGED <<doc, intents, key, read, seen, wrote, misled, after, used>>

Verify(m) ==
    /\ pc[m] = "verify"
    /\ Finish(m, IF doc.state = "needs_changes" /\ doc.busy = read[m].busy
                 THEN "pass" ELSE "nogo")
    /\ UNCHANGED <<stores, read, seen, wrote, misled, after, used>>

-----------------------------------------------------------------------------
(* The reconcile run: what is read, one document after the other, and what  *)
(* is planned from it.                                                      *)

Notes(n, o) == seen' = [seen EXCEPT ![n] = o]

Inspect(n) ==
    /\ pc[n] = "idle"
    /\ Notes(n, [seen[n] EXCEPT !.driver = doc.state])
    /\ Begins(n)
    /\ Goto(n, "readIntent")
    /\ UNCHANGED <<stores, read, wrote, misled, used>>

ReadIntent(n) ==
    /\ pc[n] = "readIntent"
    /\ Notes(n, [seen[n] EXCEPT !.intent = Original \in intents])
    /\ Goto(n, "readKey")
    /\ UNCHANGED <<stores, read, wrote, misled, after, used>>

ReadKey(n) ==
    /\ pc[n] = "readKey"
    /\ Notes(n, [seen[n] EXCEPT !.key = key])
    /\ Goto(n, "plan")
    /\ UNCHANGED <<stores, read, wrote, misled, after, used>>

(* Two results are fetched: the known failure and the one the key names.  A *)
(* success the key does not name is never seen, so that the plan to patch   *)
(* the key alone is never made.                                             *)
Candidates(k) == {Refused(Original)} \cup
                 (IF k = None \/ k.result = None THEN {} ELSE {k.result})
Fetched(k) == Candidates(k) \cap results
Successes(o) == Fetched(o.key) \cap {Applied(Original), Repair}

Conflicting(o) ==
    \/ o.driver # "needs_changes"
    \/ o.key # None /\ o.key.intent # Original
    \/ o.key # None /\ o.key.result # None /\ o.key.result \notin Successes(o)
Unidentified(o) == ~o.intent \/ o.key = None

(* Mutant of Complete: the plan does not see that nothing is missing.       *)
BugNeverComplete(o) == FALSE

Complete(o) == Successes(o) # {} /\ o.key.result # None

Plan(n) ==
    LET o == seen[n] IN
    /\ pc[n] = "plan"
    /\ seen' = [seen EXCEPT ![n] = Nothing]
    /\ \/ (Conflicting(o) \/ Unidentified(o)) /\ Finish(n, "nogo")
       \/ ~Conflicting(o) /\ ~Unidentified(o) /\ Complete(o) /\ Finish(n, "already")
       \/ ~Conflicting(o) /\ ~Unidentified(o) /\ ~Complete(o) /\ Goto(n, "create")
    /\ UNCHANGED <<stores, read, wrote, misled, after, used>>

-----------------------------------------------------------------------------
(* The reconcile run: its two writes, neither of them retried.              *)

StoreRepair == results' = results \cup {Repair} /\ UNCHANGED <<doc, intents, key>>

Create(n) ==
    /\ pc[n] = "create"
    /\ \/ Repair \notin results /\ StoreRepair /\ Goto(n, "recheck")
       \/ Repair \in results /\ Finish(n, "nogo") /\ UNCHANGED stores
    /\ UNCHANGED <<read, seen, wrote, misled, after, used>>

(* A key that names a result by now is left alone, and the run, one write   *)
(* short, does not pass whatever it goes on to verify.                      *)
Recheck(n) ==
    /\ pc[n] = "recheck"
    /\ \/ key.result = None /\ Goto(n, "patch")
       \/ key.result # None /\ Finish(n, "nogo")
    /\ UNCHANGED <<stores, read, seen, wrote, misled, after, used>>

StorePatch == key' = [key EXCEPT !.result = Repair] /\ UNCHANGED <<doc, intents, results>>

Patch(n) ==
    /\ pc[n] = "patch"
    /\ StorePatch
    /\ Goto(n, "seeDriver")
    /\ UNCHANGED <<read, seen, wrote, misled, after, used>>

SeeDriver(n) ==
    /\ pc[n] = "seeDriver"
    /\ Notes(n, [seen[n] EXCEPT !.driver = doc.state])
    /\ Goto(n, "seeKey")
    /\ UNCHANGED <<stores, read, wrote, misled, after, used>>

SeeKey(n) ==
    /\ pc[n] = "seeKey"
    /\ Notes(n, [seen[n] EXCEPT !.key = key])
    /\ Goto(n, "seeResults")
    /\ UNCHANGED <<stores, read, wrote, misled, after, used>>

Reconciled(o) == /\ o.driver = "needs_changes"
                 /\ o.key.result = Repair
                 /\ Repair \in Successes(o)

SeeResults(n) ==
    /\ pc[n] = "seeResults"
    /\ seen' = [seen EXCEPT ![n] = Nothing]
    /\ Finish(n, IF Reconciled(seen[n]) THEN "pass" ELSE "nogo")
    /\ UNCHANGED <<stores, read, wrote, misled, after, used>>

-----------------------------------------------------------------------------
(* Faults.                                                                  *)

(* The write a run is waiting for, as a store would carry it out.           *)
Lands(r) ==
    \/ pc[r] \in {"intent", "replayIntent"} /\ StoreIntent(r)
    \/ pc[r] = "write" /\ Unchanged(r, doc) /\ Commit(r)
    \/ pc[r] = "put" /\ key = None /\ StoreKey(r)
    \/ pc[r] = "result" /\ StoreResult(r)
    \/ pc[r] = "putAgain" /\ StoreKeyAgain(r)
    \/ pc[r] = "create" /\ Repair \notin results /\ StoreRepair /\ UNCHANGED <<wrote, misled>>
    \/ pc[r] = "patch" /\ StorePatch /\ UNCHANGED <<wrote, misled>>

Caught == {"write", "put", "result", "putAgain"}
Answered == {"lookup", "load", "check", "intent", "replayIntent", "replayResult",
             "refuse", "create", "recheck", "patch"}

(* A call rejects, before or after its effect.  Inside the inner try of the *)
(* pipeline the failure is recorded, everywhere else the run answers no-go. *)
CallFails(r) ==
    /\ used.fault < MaxFaults
    /\ used' = [used EXCEPT !.fault = @ + 1]
    /\ Lands(r) \/ UNCHANGED <<stores, wrote, misled>>
    /\ \/ pc[r] \in Caught /\ Goto(r, "refuse")
       \/ pc[r] \in Answered /\ Finish(r, "nogo")
    /\ UNCHANGED <<read, seen, after>>

(* The process ends, between two calls or with one of them under way.       *)
Cut(r) ==
    /\ used.cut < MaxCuts
    /\ used' = [used EXCEPT !.cut = @ + 1]
    /\ pc[r] \notin {"idle", "done", "cut"}
    /\ Lands(r) \/ UNCHANGED <<stores, wrote, misled>>
    /\ Goto(r, "cut")
    /\ UNCHANGED <<read, seen, after>>

(* Somebody else changes the driver: it is resubmitted, approved, on a trip. *)
Touch ==
    /\ used.touch < MaxTouches
    /\ used' = [used EXCEPT !.touch = @ + 1]
    /\ \E s \in States, b \in BOOLEAN : Stamps([state |-> s, busy |-> b, time |-> doc.time])
    /\ UNCHANGED <<intents, results, key, pc, read, seen, reply, wrote, after>>

PilotStep(m) ==
    \/ Begin(m) \/ Lookup(m) \/ Reread(m) \/ Load(m) \/ Check(m)
    \/ ReplayIntent(m) \/ ReplayResult(m) \/ Intent(m) \/ Write(m) \/ Put(m)
    \/ Result(m) \/ PutAgain(m) \/ Refuse(m) \/ Verify(m)

RepairStep(n) ==
    \/ Inspect(n) \/ ReadIntent(n) \/ ReadKey(n) \/ Plan(n) \/ Create(n)
    \/ Recheck(n) \/ Patch(n) \/ SeeDriver(n) \/ SeeKey(n) \/ SeeResults(n)

Next ==
    \/ \E m \in Pilots : PilotStep(m)
    \/ \E n \in Reconcilers : RepairStep(n)
    \/ \E r \in Runs : CallFails(r) \/ Cut(r)
    \/ Touch

Spec == Init /\ [][Next]_vars

-----------------------------------------------------------------------------
(* What the two phases promise.                                             *)

\* "Never apply twice", "no second logical operation": once an operator has
\* been told "pass", a run that begins later writes nothing at all, even if
\* the driver was put back in the meantime or other runs are still under way.
PassIsFinal ==
    [][\A r \in after : pc'[r] # pc[r] => UNCHANGED stores]_vars

\* The pilot moves the driver it has verified: one that is not on a trip and
\* that nobody has changed since, though the trip itself is looked at once,
\* five awaits before the transaction.  A change within the very millisecond
\* of the verified one is the only one it can miss.
WritesWhatItVerified ==
    [][\A m \in Pilots : m \in wrote' \ wrote =>
          \/ m \in misled
          \/ /\ ~doc.busy /\ doc = read[m]
             /\ doc'.busy = read[m].busy]_vars

\* The key never names a result that is not stored, nor a result of another
\* operation than the one it belongs to, and there is no key without the
\* intent and the transaction of its pilot: a cut run leaves too little,
\* never something untrue.
KeyNamesASuccess ==
    key # None =>
        /\ key.intent \in intents \cap wrote
        /\ key.result # None =>
              /\ key.result \in results
              /\ \/ key.result = Applied(key.intent)
                 \/ key.result = Repair /\ key.intent = Original

\* "Pass" is said on the strength of the records: of a pilot, by the one that
\* moved the driver and owns the key; of a reconcile run, about a driver the
\* original pilot had moved.
PassTellsTheTruth ==
    \A r \in Passed :
        /\ key # None /\ key.result # None
        /\ r \in Pilots => /\ key.intent = r /\ Applied(r) \in results
                           /\ {q \in Passed \cap Pilots : q # r} = {}
        /\ r \in Reconcilers => key.intent = Original /\ Repair \in results
=============================================================================
