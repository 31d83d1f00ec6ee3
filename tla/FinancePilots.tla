---------------------------- MODULE FinancePilots ----------------------------
(***************************************************************************)
(* The finance pilots (application/finance/pilot): command-line procedures  *)
(* that a person runs, one stage after the other, against one Firestore.    *)
(*                                                                          *)
(*   FR0  registry fixture            FR4  approve (lock) the settlement    *)
(*   FR1  accounting snapshot         FR5  record the payment and settle    *)
(*   FR2  settlement draft            FR6  approved adjustment              *)
(*                                                                          *)
(* Every stage has one shape: read some documents one by one, decide,       *)
(* write the documents of its script one by one, read them back, report.    *)
(* Nothing is a transaction, so a run is one step per Firestore call; runs  *)
(* of one stage, or of several, may overlap, and any call may be refused,   *)
(* may lose its answer after it took effect, or may be the run's last.      *)
(*                                                                          *)
(* The money of the pilot is fixed (one fare, one claim of 1500), so of     *)
(* the settlement the model keeps the status, the people and whether the    *)
(* claim has been paid.  Audit ids are drawn at random: they are the run.   *)
(***************************************************************************)
EXTENDS Naturals, Sequences, FiniteSets

CONSTANTS
    Actors,
    Runs,       \* the runs that may be started
    Permits,    \* Permits[a]: the stages whose RBAC check a passes
    Team,       \* Team[s]: who ran stage s before the model begins
    Prefixes,   \* how many stages may be applied already
    None

Stages == {"FR0", "FR1", "FR2", "FR4", "FR5", "FR6"}
Chain == <<"FR0", "FR1", "FR2", "FR4", "FR5", "FR6">>

(* Each procedure: what it reads before it decides, the document it creates *)
(* or updates, and the writes it makes, in order.  The idempotency document *)
(* of a stage goes by the name of the stage.                                *)
FixtureProvision ==
    [reads |-> <<"registry", "FR0">>, effect |-> "registry",
     script |-> <<"effect", "idem">>]
Fr1PilotApply ==
    [reads |-> <<"registry", "snapshot", "FR1">>, effect |-> "snapshot",
     script |-> <<"intent", "effect", "idem", "result">>]
Fr2PilotApply ==
    [reads |-> <<"snapshot", "FR1", "settlement", "FR2">>, effect |-> "settlement",
     script |-> <<"intent", "effect", "idem", "result">>]
Fr4PilotApply ==
    [reads |-> <<"FR2", "settlement", "FR4">>, effect |-> "settlement",
     script |-> <<"intent", "update", "idem", "result">>]

(* Mutant of Fr5PilotApply: the settlement is settled before it is paid.    *)
BugSettleFirst ==
    [reads |-> <<"FR4", "settlement", "payment", "FR5">>, effect |-> "payment",
     script |-> <<"intent", "update", "effect", "idem", "result">>]

Fr5PilotApply ==
    [reads |-> <<"FR4", "settlement", "payment", "FR5">>, effect |-> "payment",
     script |-> <<"intent", "effect", "update", "idem", "result">>]
Fr6PilotApply ==   \* reads with Promise.all, in any order
    [reads |-> <<"settlement", "payment", "adjustment", "FR6">>,
     effect |-> "adjustment", script |-> <<"intent", "effect", "idem", "result">>]

Procedure ==
    [FR0 |-> FixtureProvision, FR1 |-> Fr1PilotApply, FR2 |-> Fr2PilotApply,
     FR4 |-> Fr4PilotApply, FR5 |-> Fr5PilotApply, FR6 |-> Fr6PilotApply]
Effect(s) == Procedure[s].effect
Papers == {"registry", "snapshot", "settlement", "payment", "adjustment"} \cup Stages

ASSUME TeamAssumption == Team \in [Stages -> Actors]
ASSUME DistinctAssumption == /\ None \notin Actors
                             /\ Runs \cap Stages = {}
                             /\ None \notin Runs \cup Stages
ASSUME PrefixAssumption == Prefixes \subseteq 0..6
ASSUME DutiesAssumption == /\ Team["FR4"] # Team["FR2"]
                           /\ Team["FR5"] \notin {Team["FR2"], Team["FR4"]}

(* The runs before the model begins go by the name of their stage.          *)
AllRuns == Runs \cup Stages
People == Actors \cup {None}
Settlements == [status : {"none", "draft", "locked", "settled"}, paid : BOOLEAN,
                creator : People, locker : People, settler : People]
Replies == {"none", "PASS", "ALREADY_APPLIED", "CONFLICT_NO_GO",
            "REFUSED_GATES", "VERIFICATION_FAILED", "crashed"}
Positions == {"new", "reading", "intent", "effect", "update", "checked",
              "idem", "result", "verify", "done"}

VARIABLES
    made,        \* by whom each document was created: a run, or None
    settlement,  \* the fields of the settlement document
    audits,      \* <<run, "intent" or "result">>
    stage, actor, pc, reply,   \* of each run
    seen,        \* the documents it has read, and what it read
    basis,       \* the settlement its reads returned
    checked,     \* the settlement that its update looked at
    overtaken    \* history: an update hit a settlement it had not looked at

store == <<made, settlement, audits>>
vars == <<made, settlement, audits, stage, actor, pc, reply, seen, basis,
          checked, overtaken>>

Blank == [status |-> "none", paid |-> FALSE, creator |-> None,
          locker |-> None, settler |-> None]
Owners == AllRuns \cup {None}

TypeOK ==
    /\ made \in [Papers -> Owners]
    /\ settlement \in Settlements
    /\ audits \subseteq AllRuns \X {"intent", "result"}
    /\ stage \in [AllRuns -> Stages]
    /\ actor \in [AllRuns -> People]
    /\ pc \in [AllRuns -> Positions]
    /\ reply \in [AllRuns -> Replies]
    /\ seen \in [AllRuns -> [Papers -> Owners \cup {"unread"}]]
    /\ basis \in [AllRuns -> Settlements]
    /\ checked \in [AllRuns -> Settlements]
    /\ overtaken \in BOOLEAN

(* The settlement after the first n stages have been applied undisturbed.   *)
SettlementAfter(n) ==
    [status |-> IF n < 3 THEN "none" ELSE IF n < 4 THEN "draft"
                ELSE IF n < 5 THEN "locked" ELSE "settled",
     paid |-> n >= 5,
     creator |-> IF n < 3 THEN None ELSE Team["FR2"],
     locker  |-> IF n < 4 THEN None ELSE Team["FR4"],
     settler |-> IF n < 5 THEN None ELSE Team["FR5"]]

Past(n) == {Chain[i] : i \in 1..n}
Maker(p) == IF p \in Stages THEN p
            ELSE CHOOSE s \in Stages \ {"FR4"} : Effect(s) = p

Init ==
    \E n \in Prefixes :
        /\ made = [p \in Papers |-> IF Maker(p) \in Past(n) THEN Maker(p) ELSE None]
        /\ settlement = SettlementAfter(n)
        /\ audits = (Past(n) \ {"FR0"}) \X {"intent", "result"}
        /\ stage = [r \in AllRuns |-> IF r \in Stages THEN r ELSE "FR0"]
        /\ actor = [r \in AllRuns |-> IF r \in Past(n) THEN Team[r] ELSE None]
        /\ pc = [r \in AllRuns |-> IF r \in Past(n) THEN "done" ELSE "new"]
        /\ reply = [r \in AllRuns |-> IF r \in Past(n) THEN "PASS" ELSE "none"]
        /\ seen = [r \in AllRuns |-> [p \in Papers |-> "unread"]]
        /\ basis = [r \in AllRuns |-> Blank]
        /\ checked = [r \in AllRuns |-> Blank]
        /\ overtaken = FALSE

-----------------------------------------------------------------------------
(* What a run makes of the documents m and of settlement d.  "none" is the  *)
(* decision to go ahead.                                                    *)
Has(m, papers) == \A p \in papers : m[p] # None

FixtureApplied(m) == Has(m, {"registry", "FR0"})
FixtureVerdict(m) ==
    IF FixtureApplied(m) THEN "ALREADY_APPLIED"
    ELSE IF \E p \in {"registry", "FR0"} : Has(m, {p}) THEN "CONFLICT_NO_GO"
    ELSE "none"

(* Mutant of Fr1Applied: the snapshot alone is taken for FR1's success.      *)
BugSnapshotOnly(m) == Has(m, {"snapshot"})

Fr1Applied(m) == Has(m, {"snapshot", "FR1"})

Fr1Verdict(m) ==
    IF ~Has(m, {"registry"}) THEN "REFUSED_GATES"
    ELSE IF Fr1Applied(m) THEN "ALREADY_APPLIED"
    ELSE IF Has(m, {"snapshot"}) \/ Has(m, {"FR1"}) THEN "CONFLICT_NO_GO"
    ELSE "none"

(* A settlement counts as FR2's, or FR4's, only until the next stage moves  *)
(* it: a rerun then meets a conflict.                                       *)
Fr2Applied(m, d) == Has(m, {"settlement", "FR2"}) /\ d.status = "draft" /\ ~d.paid
Fr2Verdict(m, d) ==
    IF ~Fr1Applied(m) THEN "REFUSED_GATES"
    ELSE IF Fr2Applied(m, d) THEN "ALREADY_APPLIED"
    ELSE IF Has(m, {"settlement"}) \/ Has(m, {"FR2"}) THEN "CONFLICT_NO_GO"
    ELSE "none"

Fr4Applied(m, d) == Has(m, {"settlement", "FR4"}) /\ d.status = "locked" /\ ~d.paid
Fr2DraftPrecondition(m, d) == Fr2Applied(m, d) /\ d.locker = None

(* Mutant of MayApprove: the drafter may approve.                           *)
BugOneEye(a, d) == TRUE

MayApprove(a, d) == a # d.creator
Fr4Verdict(a, m, d) ==
    IF Fr4Applied(m, d) THEN "ALREADY_APPLIED"
    ELSE IF Has(m, {"FR4"}) THEN "CONFLICT_NO_GO"
    ELSE IF ~Fr2DraftPrecondition(m, d) \/ ~MayApprove(a, d) THEN "REFUSED_GATES"
    ELSE "none"

Fr5Applied(m, d) == Has(m, {"payment", "FR5"}) /\ d.status = "settled" /\ d.paid
Fr5Partial(m, d) == Has(m, {"FR5"}) \/ Has(m, {"payment"}) \/ d.status = "settled"

(* Mutant of Fr4LockedPrecondition: a draft will do.                        *)
BugDraftWillDo(m, d) == Has(m, {"settlement"}) /\ ~d.paid

Fr4LockedPrecondition(m, d) == Fr4Applied(m, d)
MayExecute(a, d) == a \notin {d.creator, d.locker}
Fr5Verdict(a, m, d) ==
    IF Fr5Applied(m, d) THEN "ALREADY_APPLIED"
    ELSE IF Fr5Partial(m, d) THEN "CONFLICT_NO_GO"
    ELSE IF ~Fr4LockedPrecondition(m, d) \/ ~MayExecute(a, d) THEN "REFUSED_GATES"
    ELSE "none"

Fr5SettledPrecondition(m, d) == Has(m, {"payment"}) /\ d.status = "settled" /\ d.paid
Fr6Applied(m) == Has(m, {"adjustment", "FR6"})
Fr6Verdict(m, d) ==
    IF ~Fr5SettledPrecondition(m, d) THEN "CONFLICT_NO_GO"
    ELSE IF Fr6Applied(m) THEN "ALREADY_APPLIED"
    ELSE IF Has(m, {"adjustment"}) \/ Has(m, {"FR6"}) THEN "CONFLICT_NO_GO"
    ELSE "none"

Verdict(s, a, m, d) ==
    CASE s = "FR0" -> FixtureVerdict(m)
      [] s = "FR1" -> Fr1Verdict(m)
      [] s = "FR2" -> Fr2Verdict(m, d)
      [] s = "FR4" -> Fr4Verdict(a, m, d)
      [] s = "FR5" -> Fr5Verdict(a, m, d)
      [] s = "FR6" -> Fr6Verdict(m, d)

-----------------------------------------------------------------------------
(* Steps of run r.                                                          *)
Goto(r, where) == pc' = [pc EXCEPT ![r] = where]
Reply(r, answer) == reply' = [reply EXCEPT ![r] = answer]
End(r, answer) == Goto(r, "done") /\ Reply(r, answer)

(* Where the script goes after `step`; every stage but FR6 then verifies.   *)
After(r, step) ==
    LET script == Procedure[stage[r]].script
        i == CHOOSE k \in 1..Len(script) : script[k] = step
    IN  IF i < Len(script) THEN script[i + 1]
        ELSE IF stage[r] = "FR6" THEN "done" ELSE "verify"

(* Once the gates, the actor's permissions and the IAM preflight have let   *)
(* it through.                                                              *)
Begin(r, s, a) ==
    /\ pc[r] = "new"
    /\ s \in Permits[a]
    /\ stage' = [stage EXCEPT ![r] = s]
    /\ actor' = [actor EXCEPT ![r] = a]
    /\ Goto(r, "reading")
    /\ UNCHANGED <<made, settlement, audits, reply, seen, basis, checked, overtaken>>

Unread(r) == {i \in 1..Len(Procedure[stage[r]].reads) : seen[r][Procedure[stage[r]].reads[i]] = "unread"}
NextReads(r) == IF stage[r] = "FR6" THEN Unread(r)
                ELSE {i \in Unread(r) : \A j \in Unread(r) : i <= j}

(* One document is read; after the last one the run decides.                *)
ReadOne(r) ==
    /\ pc[r] = "reading"
    /\ \E i \in NextReads(r) :
         LET paper == Procedure[stage[r]].reads[i]
             now == [seen[r] EXCEPT ![paper] = made[paper]]
             doc == IF paper = "settlement" THEN settlement ELSE basis[r]
             verdict == Verdict(stage[r], actor[r], now, doc)
         IN  /\ seen' = [seen EXCEPT ![r] = now]
             /\ basis' = [basis EXCEPT ![r] = doc]
             /\ IF Unread(r) # {i} THEN UNCHANGED <<pc, reply>>
                ELSE IF verdict = "none"
                THEN Goto(r, Procedure[stage[r]].script[1]) /\ UNCHANGED reply
                ELSE End(r, verdict)
    /\ UNCHANGED <<store, stage, actor, checked, overtaken>>

(* What is reported of a write that fails: FR0 calls it a refusal when the  *)
(* registry document was not there before.                                  *)
Failure(r) == IF stage[r] = "FR0" /\ pc[r] = "effect" /\ made["registry"] = None
              THEN "REFUSED_GATES" ELSE "CONFLICT_NO_GO"

(* A write that took effect is answered, or its answer is lost.             *)
Answered(r, step) == \/ /\ Goto(r, After(r, step))
                        /\ IF After(r, step) = "done" THEN Reply(r, "PASS")
                           ELSE UNCHANGED reply
                     \/ End(r, Failure(r))
locals == <<stage, actor, seen, basis, checked>>

(* Audit events go under a fresh id, so nothing is in their way.            *)
WriteAudit(r, kind) ==
    /\ pc[r] = kind
    /\ audits' = audits \cup {<<r, kind>>}
    /\ Answered(r, kind)
    /\ UNCHANGED <<made, settlement, locals, overtaken>>

(* Mutant of Free: the document is set, not created.                        *)
BugSet(p) == TRUE

(* Firestore's create() refuses a document that exists.                     *)
Free(p) == made[p] = None

Draft(a) == [Blank EXCEPT !.status = "draft", !.creator = a]

WriteEffect(r) ==
    LET p == Effect(stage[r])
    IN  /\ pc[r] = "effect"
        /\ Free(p)
        /\ made' = [made EXCEPT ![p] = r]
        /\ settlement' = IF p = "settlement" THEN Draft(actor[r]) ELSE settlement
        /\ Answered(r, "effect")
        /\ UNCHANGED <<audits, locals, overtaken>>

WriteIdempotency(r) ==
    /\ pc[r] = "idem"
    /\ Free(stage[r])
    /\ made' = [made EXCEPT ![stage[r]] = r]
    /\ Answered(r, "idem")
    /\ UNCHANGED <<settlement, audits, locals, overtaken>>

UpdateFits(s, d) == d.status = IF s = "FR4" THEN "draft" ELSE "locked"

(* The adapter reads the settlement once more ...                           *)
CheckUpdate(r) ==
    /\ pc[r] = "update"
    /\ UpdateFits(stage[r], settlement)
    /\ checked' = [checked EXCEPT ![r] = settlement]
    /\ Goto(r, "checked")
    /\ UNCHANGED <<store, stage, actor, reply, seen, basis, overtaken>>

Fr4Patch(a, d) == [d EXCEPT !.status = "locked", !.locker = a]
Fr5Patch(a, d) == [d EXCEPT !.status = "settled", !.paid = TRUE, !.settler = a]

(* ... and updates it, whatever has become of it.                           *)
UpdateSettlement(r) ==
    /\ pc[r] = "checked"
    /\ settlement' = IF stage[r] = "FR4" THEN Fr4Patch(actor[r], settlement)
                      ELSE Fr5Patch(actor[r], settlement)
    /\ overtaken' = (overtaken \/ settlement # checked[r])
    /\ Answered(r, "update")
    /\ UNCHANGED <<made, audits, locals>>

(* A write that is refused, or fails without effect, ends the run; what it  *)
(* has written stays.                                                       *)
Refused(r) ==
    /\ pc[r] \in {"intent", "effect", "update", "checked", "idem", "result"}
    /\ End(r, Failure(r))
    /\ UNCHANGED <<store, locals, overtaken>>

(* verifyPostApply: all that a run reads back but the settlement is final   *)
(* by then, so it is one step.                                              *)
OwnTrail(r) == /\ made[stage[r]] = r
               /\ {<<r, "intent">>, <<r, "result">>} \subseteq audits
Fr1Verified(r) == Fr1Applied(made) /\ OwnTrail(r) /\ Has(made, {"registry"})
Fr2Verified(r) == Fr2Applied(made, settlement) /\ OwnTrail(r) /\ Has(made, {"snapshot"})
Fr4Verified(r) == /\ Fr4Applied(made, settlement) /\ OwnTrail(r)
                  /\ settlement.creator = basis[r].creator
                  /\ Has(made, {"snapshot"})
Fr5Verified(r) == /\ Fr5Applied(made, settlement) /\ OwnTrail(r)
                  /\ settlement.creator = basis[r].creator
                  /\ settlement.locker = basis[r].locker
                  /\ Has(made, {"snapshot"})
Verified(r) ==
    CASE stage[r] = "FR0" -> FixtureApplied(made)
      [] stage[r] = "FR1" -> Fr1Verified(r)
      [] stage[r] = "FR2" -> Fr2Verified(r)
      [] stage[r] = "FR4" -> Fr4Verified(r)
      [] stage[r] = "FR5" -> Fr5Verified(r)

VerifyApply(r) ==
    /\ pc[r] = "verify"
    /\ End(r, IF Verified(r) THEN "PASS" ELSE "VERIFICATION_FAILED")
    /\ UNCHANGED <<store, locals, overtaken>>

(* The process ends, or a read throws.                                      *)
Crash(r) ==
    /\ pc[r] \notin {"new", "done"}
    /\ End(r, "crashed")
    /\ UNCHANGED <<store, locals, overtaken>>

Step(r) ==
    \/ \E s \in Stages, a \in Actors : Begin(r, s, a)
    \/ ReadOne(r)
    \/ \E kind \in {"intent", "result"} : WriteAudit(r, kind)
    \/ WriteEffect(r)
    \/ WriteIdempotency(r)
    \/ CheckUpdate(r)
    \/ UpdateSettlement(r)
    \/ Refused(r)
    \/ VerifyApply(r)
    \/ Crash(r)

Next == \E r \in Runs : Step(r)

Spec == Init /\ [][Next]_vars

-----------------------------------------------------------------------------
(* Properties.                                                              *)

Running(s) == {r \in Runs : stage[r] = s /\ pc[r] \notin {"new", "done"}}

(* Whoever drafted the settlement never approved it and never executed it,  *)
(* whatever overlaps; and unless an approval hit a settlement that had      *)
(* moved on since its status was checked, who approved did not execute.     *)
DualControl ==
    /\ settlement.locker # None => settlement.locker # settlement.creator
    /\ settlement.settler # None => settlement.settler # settlement.creator
    /\ ~overtaken /\ settlement.settler # None => settlement.settler # settlement.locker

(* The idempotency document of a stage, which carries the ids of its audit  *)
(* events, is written by the run that made the stage's effect: two runs can *)
(* never share a stage, the effect of one under the trail of the other.     *)
MarksOwnEffect ==
    \A s \in Stages : made[s] # None =>
        /\ s # "FR4" => made[Effect(s)] = made[s]
        /\ s # "FR0" => <<made[s], "intent">> \in audits
        /\ s = "FR4" /\ ~overtaken => settlement.locker = actor[made[s]]
        /\ s = "FR5" => settlement.settler = actor[made[s]]

(* A run that reports success made its stage's documents itself and left    *)
(* both audit events, so no stage succeeds twice.  An applied stage without *)
(* its result event was applied by a run that did not end well.             *)
PassIsBacked ==
    \A r \in AllRuns :
        /\ reply[r] = "PASS" => made[stage[r]] = r
        /\ /\ reply[r] \in {"PASS", "VERIFICATION_FAILED"}
           /\ stage[r] # "FR0"
           => {<<r, "intent">>, <<r, "result">>} \subseteq audits

(* The payment document and the settlement agree on the money, up to a run  *)
(* of FR5 that is between the two or was cut off there.                     *)
MoneyAgrees ==
    /\ settlement.paid => /\ made["payment"] # None
                          /\ settlement.settler = actor[made["payment"]]
    /\ made["payment"] # None /\ ~settlement.paid
         => reply[made["payment"]] \in {"none", "CONFLICT_NO_GO", "crashed"}

(* A stage that was left half applied stops the chain: the settlement, the  *)
(* approval and the payment exist only on top of a stage whose idempotency  *)
(* document was written.  (FR1 asks only for the registry document of FR0,  *)
(* and FR6 only for the settled settlement and the payment of FR5.)         *)
ChainIsWhole ==
    /\ made["settlement"] # None => made["FR1"] # None
    /\ settlement.locker # None => made["FR2"] # None
    /\ made["payment"] # None => made["FR4"] # None

(* The settlement moves forward only, unless an update overtook another.    *)
SettlementMovesOn ==
    [][\/ settlement' = settlement
       \/ overtaken'
       \/ <<settlement.status, settlement'.status>> \in
             {<<"none", "draft">>, <<"draft", "locked">>, <<"locked", "settled">>}]_vars

(* Seen from afar, the stages take effect once each and in their order,     *)
(* through every overlap, lost answer and crash: PilotChain.                *)
Applied ==
    {s \in Stages : IF s = "FR4" THEN settlement.locker # None
                    ELSE made[Effect(s)] # None}
Order == INSTANCE PilotChain WITH applied <- Applied
InOrder == Order!Spec

=============================================================================
