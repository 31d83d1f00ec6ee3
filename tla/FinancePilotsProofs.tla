------------------------- MODULE FinancePilotsProofs -------------------------
(***************************************************************************)
(* What the finance pilots promise for any number of overlapping runs of    *)
(* any people: duties stay separate, success is backed by documents and     *)
(* audit events, money and settlement agree, and the stages take effect     *)
(* once each and in order, which is that FinancePilots implements           *)
(* PilotChain.  The invariant says what a run has made sure of when it      *)
(* decides to go ahead, and that none of it can be undone: documents are    *)
(* only created, and a settlement keeps its creator.                        *)
(***************************************************************************)
EXTENDS FinancePilots, TLAPS

Before == {"new", "reading", "intent", "effect"}
Script == {"intent", "effect", "update", "checked", "idem", "result", "verify"}

(* The settlement document: no field without its status.                    *)
SettlementFits ==
    /\ settlement.status # "none" <=> made["settlement"] # None
    /\ settlement.creator # None <=> settlement.status # "none"
    /\ settlement.status = "none" => settlement = Blank
    /\ settlement.status = "draft" =>
          settlement.locker = None /\ settlement.settler = None /\ ~settlement.paid
    /\ settlement.status \in {"locked", "settled"} => settlement.locker # None
    /\ settlement.settler # None => settlement.paid /\ settlement.locker # None

(* A settlement document as somebody read it: what is left of it now.       *)
Recalls(d) ==
    /\ d.status # "none" => d.creator # None /\ settlement.creator = d.creator
                            /\ settlement.status # "none"
    /\ d.status = "locked" => d.locker # None /\ settlement.locker # None
    /\ ~overtaken /\ d.status = "locked" => settlement.locker = d.locker

(* What a run that goes ahead has seen.                                     *)
Grounds(r) ==
    CASE stage[r] = "FR0" -> TRUE
      [] stage[r] = "FR1" -> Has(made, {"registry"})
      [] stage[r] = "FR2" -> Has(made, {"snapshot", "FR1"})
      [] stage[r] = "FR4" -> /\ Has(made, {"settlement", "FR2"})
                             /\ basis[r].status = "draft" /\ actor[r] # basis[r].creator
      [] stage[r] = "FR5" -> /\ Has(made, {"settlement", "FR4"})
                             /\ basis[r].status = "locked"
                             /\ actor[r] \notin {basis[r].creator, basis[r].locker}
      [] stage[r] = "FR6" -> Has(made, {"payment"})

(* What a run has left behind at each place of its script.                  *)
Tracks(r) ==
    /\ pc[r] \in Before => \A p \in Papers : made[p] # r
    /\ pc[r] \in {"intent", "result"} => stage[r] # "FR0"
    /\ pc[r] = "effect" => stage[r] # "FR4"
    /\ pc[r] \in {"update", "checked"} => stage[r] \in {"FR4", "FR5"}
    /\ pc[r] = "checked" => checked[r].status = IF stage[r] = "FR4" THEN "draft" ELSE "locked"
    /\ pc[r] \in Script \ Before /\ stage[r] # "FR4" => made[Effect(stage[r])] = r
    /\ pc[r] \in Script \ {"intent"} /\ stage[r] # "FR0" => <<r, "intent">> \in audits
    /\ pc[r] \in {"result", "verify"} => made[stage[r]] = r
    /\ pc[r] = "verify" /\ stage[r] # "FR0" => <<r, "result">> \in audits
    /\ pc[r] \in {"idem", "result", "verify"} /\ stage[r] = "FR5" => settlement.paid
    /\ pc[r] = "idem" /\ stage[r] = "FR4" /\ ~overtaken => settlement.locker = actor[r]

RunKnows(r) ==
    /\ \A p \in Papers : seen[r][p] \notin {"unread", None} => made[p] # None
    /\ Recalls(basis[r])
    /\ pc[r] # "new" => actor[r] \in Actors
    /\ pc[r] # "done" => reply[r] = "none"
    /\ pc[r] \in Script => Grounds(r)
    /\ Tracks(r)

(* What is known of every run, also of those before the model begins.       *)
EndedFor(r) ==
    /\ \A p \in Papers : made[p] = r => actor[r] \in Actors
    /\ reply[r] = "PASS" => made[stage[r]] = r
    /\ reply[r] \in {"PASS", "VERIFICATION_FAILED"} /\ stage[r] # "FR0" =>
          <<r, "intent">> \in audits /\ <<r, "result">> \in audits
    /\ made["payment"] = r =>
          /\ stage[r] = "FR5"
          /\ \/ settlement.paid
             \/ pc[r] \in {"update", "checked"} /\ reply[r] = "none"
             \/ pc[r] = "done" /\ reply[r] \in {"CONFLICT_NO_GO", "crashed"}

Ended == \A r \in AllRuns : EndedFor(r)

(* Each stage stands on the one before it.                                  *)
Chained ==
    /\ made["snapshot"] # None => made["registry"] # None
    /\ made["settlement"] # None => made["snapshot"] # None /\ made["FR1"] # None
    /\ settlement.locker # None => made["settlement"] # None /\ made["FR2"] # None
    /\ made["payment"] # None => settlement.locker # None /\ made["FR4"] # None
    /\ made["adjustment"] # None => made["payment"] # None

(* Who executed is who made the payment document.                           *)
PaidBy == settlement.paid => made["payment"] # None /\ settlement.settler = actor[made["payment"]]

Inv ==
    /\ TypeOK
    /\ \A r \in Runs : RunKnows(r)
    /\ SettlementFits /\ Ended /\ Chained
    /\ DualControl
    /\ PaidBy
    /\ MarksOwnEffect

-----------------------------------------------------------------------------
(* The scripts.                                                             *)

LEMMA Names ==
    /\ None \notin Actors /\ None \notin AllRuns /\ Runs \subseteq AllRuns /\ Stages \subseteq AllRuns
    /\ \A r \in Runs : r \notin Stages
    /\ Stages \subseteq Papers
    /\ \A s \in Stages : Team[s] \in Actors
  BY DistinctAssumption, TeamAssumption DEF AllRuns, Papers

LEMMA EffectFacts ==
    /\ Effect("FR0") = "registry" /\ Effect("FR1") = "snapshot" /\ Effect("FR2") = "settlement"
    /\ Effect("FR4") = "settlement" /\ Effect("FR5") = "payment" /\ Effect("FR6") = "adjustment"
    /\ \A s \in Stages : Effect(s) \in Papers /\ Effect(s) \notin Stages
  BY DEF Effect, Procedure, Stages, Papers, FixtureProvision, Fr1PilotApply, Fr2PilotApply,
         Fr4PilotApply, Fr5PilotApply, Fr6PilotApply

LEMMA AfterFacts ==
    ASSUME NEW r, stage[r] \in Stages
    PROVE  /\ stage[r] \in {"FR1", "FR2", "FR5", "FR6"} => After(r, "intent") = "effect"
           /\ stage[r] = "FR4" => After(r, "intent") = "update"
           /\ stage[r] \in {"FR0", "FR1", "FR2", "FR6"} => After(r, "effect") = "idem"
           /\ stage[r] = "FR5" => After(r, "effect") = "update"
           /\ stage[r] \in {"FR4", "FR5"} => After(r, "update") = "idem"
           /\ stage[r] = "FR0" => After(r, "idem") = "verify"
           /\ stage[r] # "FR0" => After(r, "idem") = "result"
           /\ stage[r] \in {"FR1", "FR2", "FR4", "FR5"} => After(r, "result") = "verify"
           /\ stage[r] = "FR6" => After(r, "result") = "done"
<1>1. CASE stage[r] = "FR0"
  <2>1. Procedure[stage[r]].script = <<"effect", "idem">>
    BY <1>1 DEF Procedure, FixtureProvision
  <2>2. /\ (CHOOSE k \in 1..2 : <<"effect", "idem">>[k] = "effect") = 1
        /\ (CHOOSE k \in 1..2 : <<"effect", "idem">>[k] = "idem") = 2
    OBVIOUS
  <2> QED BY <1>1, <2>1, <2>2 DEF After
<1>2. CASE stage[r] \in {"FR1", "FR2", "FR6"}
  <2>1. Procedure[stage[r]].script = <<"intent", "effect", "idem", "result">>
    BY <1>2 DEF Procedure, Fr1PilotApply, Fr2PilotApply, Fr6PilotApply
  <2> DEFINE T == <<"intent", "effect", "idem", "result">>
  <2>2. /\ (CHOOSE k \in 1..4 : T[k] = "intent") = 1
        /\ (CHOOSE k \in 1..4 : T[k] = "effect") = 2
        /\ (CHOOSE k \in 1..4 : T[k] = "idem") = 3
        /\ (CHOOSE k \in 1..4 : T[k] = "result") = 4
    OBVIOUS
  <2> QED BY <1>2, <2>1, <2>2 DEF After
<1>3. CASE stage[r] = "FR4"
  <2>1. Procedure[stage[r]].script = <<"intent", "update", "idem", "result">>
    BY <1>3 DEF Procedure, Fr4PilotApply
  <2> DEFINE T == <<"intent", "update", "idem", "result">>
  <2>2. /\ (CHOOSE k \in 1..4 : T[k] = "intent") = 1
        /\ (CHOOSE k \in 1..4 : T[k] = "update") = 2
        /\ (CHOOSE k \in 1..4 : T[k] = "idem") = 3
        /\ (CHOOSE k \in 1..4 : T[k] = "result") = 4
    OBVIOUS
  <2> QED BY <1>3, <2>1, <2>2 DEF After
<1>4. CASE stage[r] = "FR5"
  <2>1. Procedure[stage[r]].script = <<"intent", "effect", "update", "idem", "result">>
    BY <1>4 DEF Procedure, Fr5PilotApply
  <2> DEFINE T == <<"intent", "effect", "update", "idem", "result">>
  <2>2. /\ (CHOOSE k \in 1..5 : T[k] = "intent") = 1
        /\ (CHOOSE k \in 1..5 : T[k] = "effect") = 2
        /\ (CHOOSE k \in 1..5 : T[k] = "update") = 3
        /\ (CHOOSE k \in 1..5 : T[k] = "idem") = 4
        /\ (CHOOSE k \in 1..5 : T[k] = "result") = 5
    OBVIOUS
  <2> QED BY <1>4, <2>1, <2>2 DEF After
<1> QED BY <1>1, <1>2, <1>3, <1>4 DEF Stages

LEMMA FirstStep ==
    /\ Procedure["FR0"].script[1] = "effect"
    /\ \A s \in Stages \ {"FR0"} : Procedure[s].script[1] = "intent"
  BY DEF Stages, Procedure, FixtureProvision, Fr1PilotApply, Fr2PilotApply,
         Fr4PilotApply, Fr5PilotApply, Fr6PilotApply

(* What each stage reads before it decides.                                 *)
ReadBy(s) ==
    CASE s = "FR0" -> {"registry", "FR0"}
      [] s = "FR1" -> {"registry", "snapshot", "FR1"}
      [] s = "FR2" -> {"snapshot", "FR1", "settlement", "FR2"}
      [] s = "FR4" -> {"FR2", "settlement", "FR4"}
      [] s = "FR5" -> {"FR4", "settlement", "payment", "FR5"}
      [] s = "FR6" -> {"settlement", "payment", "adjustment", "FR6"}

LEMMA ReadsFacts ==
    ASSUME NEW s \in Stages
    PROVE  /\ Len(Procedure[s].reads) \in Nat
           /\ \A i \in 1..Len(Procedure[s].reads) : Procedure[s].reads[i] \in Papers
           /\ \A p \in ReadBy(s) : \E i \in 1..Len(Procedure[s].reads) : Procedure[s].reads[i] = p
<1>0. CASE s = "FR0"
  <2>1. Procedure[s].reads = <<"registry", "FR0">>
    BY <1>0 DEF Procedure, FixtureProvision
  <2> QED BY <1>0, <2>1 DEF ReadBy, Papers, Stages
<1>1. CASE s = "FR1"
  <2>1. Procedure[s].reads = <<"registry", "snapshot", "FR1">>
    BY <1>1 DEF Procedure, Fr1PilotApply
  <2> QED BY <1>1, <2>1 DEF ReadBy, Papers, Stages
<1>2. CASE s = "FR2"
  <2>1. Procedure[s].reads = <<"snapshot", "FR1", "settlement", "FR2">>
    BY <1>2 DEF Procedure, Fr2PilotApply
  <2> QED BY <1>2, <2>1 DEF ReadBy, Papers, Stages
<1>4. CASE s = "FR4"
  <2>1. Procedure[s].reads = <<"FR2", "settlement", "FR4">>
    BY <1>4 DEF Procedure, Fr4PilotApply
  <2> QED BY <1>4, <2>1 DEF ReadBy, Papers, Stages
<1>5. CASE s = "FR5"
  <2>1. Procedure[s].reads = <<"FR4", "settlement", "payment", "FR5">>
    BY <1>5 DEF Procedure, Fr5PilotApply
  <2> QED BY <1>5, <2>1 DEF ReadBy, Papers, Stages
<1>6. CASE s = "FR6"
  <2>1. Procedure[s].reads = <<"settlement", "payment", "adjustment", "FR6">>
    BY <1>6 DEF Procedure, Fr6PilotApply
  <2> QED BY <1>6, <2>1 DEF ReadBy, Papers, Stages
<1> QED BY <1>0, <1>1, <1>2, <1>4, <1>5, <1>6 DEF Stages

-----------------------------------------------------------------------------
(* Types.                                                                   *)

LEMMA BlankFits == Blank \in Settlements
  BY DEF Blank, Settlements, People

LEMMA AfterIsPosition ==
    ASSUME NEW r, stage[r] \in Stages, NEW step \in {"intent", "effect", "update", "idem", "result"},
           step \in {"intent", "result"} => stage[r] # "FR0",
           step = "effect" => stage[r] # "FR4",
           step = "update" => stage[r] \in {"FR4", "FR5"}
    PROVE  After(r, step) \in Positions
  BY AfterFacts DEF Stages, Positions

LEMMA TypeStep ==
    ASSUME Inv, NEW r \in Runs, Step(r)
    PROVE  TypeOK'
<1>t. /\ r \in AllRuns /\ r \in Owners /\ Stages \subseteq Papers /\ stage[r] \in Stages
      /\ made \in [Papers -> Owners] /\ settlement \in Settlements
      /\ audits \subseteq AllRuns \X {"intent", "result"}
      /\ stage \in [AllRuns -> Stages] /\ actor \in [AllRuns -> People]
      /\ pc \in [AllRuns -> Positions] /\ reply \in [AllRuns -> Replies]
      /\ seen \in [AllRuns -> [Papers -> Owners \cup {"unread"}]]
      /\ basis \in [AllRuns -> Settlements] /\ checked \in [AllRuns -> Settlements]
      /\ overtaken \in BOOLEAN /\ Tracks(r) /\ actor[r] \in People
  BY Names DEF Inv, TypeOK, Owners, RunKnows
<1>f. Failure(r) \in Replies
  BY DEF Failure, Replies
<1>g. /\ \A x \in Positions : Goto(r, x) => pc' \in [AllRuns -> Positions]
      /\ \A y \in Replies : Reply(r, y) => reply' \in [AllRuns -> Replies]
  BY <1>t DEF Goto, Reply
<1>e. \A y \in Replies : End(r, y) => pc' \in [AllRuns -> Positions] /\ reply' \in [AllRuns -> Replies]
  BY <1>g DEF End, Positions
<1>a. ASSUME NEW step \in {"intent", "effect", "update", "idem", "result"}, Answered(r, step),
             After(r, step) \in Positions
      PROVE  pc' \in [AllRuns -> Positions] /\ reply' \in [AllRuns -> Replies]
  BY <1>a, <1>t, <1>f, <1>g, <1>e DEF Answered, Replies
<1>1. ASSUME NEW s \in Stages, NEW a \in Actors, Begin(r, s, a) PROVE TypeOK'
  BY <1>1, <1>t, <1>g DEF Begin, TypeOK, Positions, People
<1>2. CASE ReadOne(r)
  <2>1. PICK i \in NextReads(r) :
           LET paper == Procedure[stage[r]].reads[i]
               now == [seen[r] EXCEPT ![paper] = made[paper]]
               doc == IF paper = "settlement" THEN settlement ELSE basis[r]
               verdict == Verdict(stage[r], actor[r], now, doc)
           IN  /\ seen' = [seen EXCEPT ![r] = now]
               /\ basis' = [basis EXCEPT ![r] = doc]
               /\ IF Unread(r) # {i} THEN UNCHANGED <<pc, reply>>
                  ELSE IF verdict = "none"
                  THEN Goto(r, Procedure[stage[r]].script[1]) /\ UNCHANGED reply
                  ELSE End(r, verdict)
    BY <1>2 DEF ReadOne
  <2>2. Procedure[stage[r]].reads[i] \in Papers
    BY <1>t, ReadsFacts DEF NextReads, Unread
  <2>3. Procedure[stage[r]].script[1] \in Positions
    BY <1>t, FirstStep DEF Positions
  <2>4. \A m, d : Verdict(stage[r], actor[r], m, d) \in Replies
    BY <1>t DEF Verdict, Stages, FixtureVerdict, Fr1Verdict, Fr2Verdict, Fr4Verdict, Fr5Verdict,
               Fr6Verdict, Replies
  <2>5. seen' \in [AllRuns -> [Papers -> Owners \cup {"unread"}]] /\ basis' \in [AllRuns -> Settlements]
    BY <2>1, <2>2, <1>t
  <2>6. pc' \in [AllRuns -> Positions] /\ reply' \in [AllRuns -> Replies]
    BY <2>1, <2>3, <2>4, <1>t, <1>g, <1>e
  <2> QED BY <1>2, <2>5, <2>6, <1>t DEF ReadOne, TypeOK, store
<1>3. ASSUME NEW kind \in {"intent", "result"}, WriteAudit(r, kind) PROVE TypeOK'
  <2>1. After(r, kind) \in Positions
    BY <1>3, <1>t, AfterIsPosition DEF WriteAudit, Tracks
  <2>2. pc' \in [AllRuns -> Positions] /\ reply' \in [AllRuns -> Replies]
    BY <1>3, <1>a, <2>1 DEF WriteAudit
  <2> QED BY <1>3, <2>2, <1>t DEF WriteAudit, TypeOK, locals
<1>4. CASE WriteEffect(r)
  <2>1. After(r, "effect") \in Positions
    BY <1>4, <1>t, AfterIsPosition DEF WriteEffect, Tracks
  <2>2. pc' \in [AllRuns -> Positions] /\ reply' \in [AllRuns -> Replies]
    BY <1>4, <1>a, <2>1 DEF WriteEffect
  <2>3. Draft(actor[r]) \in Settlements /\ Effect(stage[r]) \in Papers
    BY <1>t, EffectFacts DEF Draft, Blank, Settlements, People
  <2> QED BY <1>4, <2>2, <2>3, <1>t DEF WriteEffect, TypeOK, locals
<1>5. CASE WriteIdempotency(r)
  <2>1. After(r, "idem") \in Positions
    BY <1>5, <1>t, AfterIsPosition DEF WriteIdempotency, Tracks
  <2>2. pc' \in [AllRuns -> Positions] /\ reply' \in [AllRuns -> Replies]
    BY <1>5, <1>a, <2>1 DEF WriteIdempotency
  <2> QED BY <1>5, <2>2, <1>t DEF WriteIdempotency, TypeOK, locals
<1>6. CASE CheckUpdate(r)
  BY <1>6, <1>t, <1>g DEF CheckUpdate, TypeOK, store, Positions
<1>7. CASE UpdateSettlement(r)
  <2>1. After(r, "update") \in Positions
    BY <1>7, <1>t, AfterIsPosition DEF UpdateSettlement, Tracks
  <2>2. pc' \in [AllRuns -> Positions] /\ reply' \in [AllRuns -> Replies]
    BY <1>7, <1>a, <2>1 DEF UpdateSettlement
  <2>3. Fr4Patch(actor[r], settlement) \in Settlements /\ Fr5Patch(actor[r], settlement) \in Settlements
    BY <1>t DEF Fr4Patch, Fr5Patch, Settlements
  <2> QED BY <1>7, <2>2, <2>3, <1>t DEF UpdateSettlement, TypeOK, locals
<1>8. CASE Refused(r)
  BY <1>8, <1>t, <1>f, <1>e DEF Refused, TypeOK, store, locals
<1>9. CASE VerifyApply(r)
  BY <1>9, <1>t, <1>e DEF VerifyApply, TypeOK, store, locals, Replies
<1>10. CASE Crash(r)
  BY <1>10, <1>t, <1>e DEF Crash, TypeOK, store, locals, Replies
<1> QED BY <1>1, <1>2, <1>3, <1>4, <1>5, <1>6, <1>7, <1>8, <1>9, <1>10 DEF Step

-----------------------------------------------------------------------------
(* What a step of r leaves: documents, audit events and the settlement's    *)
(* people stay, and nothing is known of r by anybody but r.                 *)
Kept(r) ==
    /\ \A p \in Papers : made[p] # None => made'[p] = made[p]
    /\ \A p \in Papers : made'[p] = made[p] \/ made'[p] = r
    /\ audits \subseteq audits' /\ (overtaken => overtaken')
    /\ settlement.paid => settlement'.paid
    /\ settlement.status # "none" =>
          settlement'.status # "none" /\ settlement'.creator = settlement.creator
    /\ settlement.locker # None =>
          settlement'.locker # None /\ (~overtaken' => settlement'.locker = settlement.locker)

Others(r) ==
    \A q \in AllRuns \ {r} :
        /\ stage'[q] = stage[q] /\ actor'[q] = actor[q] /\ pc'[q] = pc[q] /\ reply'[q] = reply[q]
        /\ seen'[q] = seen[q] /\ basis'[q] = basis[q] /\ checked'[q] = checked[q]

Still == UNCHANGED <<made, settlement, audits, overtaken>>

LEMMA MoversTypes ==
    ASSUME Inv, NEW r \in Runs
    PROVE  /\ r \in AllRuns /\ r \notin Stages /\ r # None /\ stage[r] \in Stages
           /\ made \in [Papers -> Owners] /\ settlement \in Settlements
           /\ audits \subseteq AllRuns \X {"intent", "result"}
           /\ stage \in [AllRuns -> Stages] /\ actor \in [AllRuns -> People]
           /\ pc \in [AllRuns -> Positions] /\ reply \in [AllRuns -> Replies]
           /\ DOMAIN seen = AllRuns /\ basis \in [AllRuns -> Settlements]
           /\ checked \in [AllRuns -> Settlements] /\ overtaken \in BOOLEAN
           /\ basis[r] \in Settlements /\ RunKnows(r) /\ Stages \subseteq Papers
  BY Names DEF Inv, TypeOK

LEMMA OthersStep ==
    ASSUME Inv, NEW r \in Runs, Step(r)
    PROVE  Others(r)
<1> USE MoversTypes DEF Others, Goto, Reply, End, locals
<1>1. ASSUME NEW s \in Stages, NEW a \in Actors, Begin(r, s, a) PROVE Others(r)
  BY <1>1 DEF Begin
<1>2. CASE ReadOne(r)
  BY <1>2 DEF ReadOne
<1>3. ASSUME NEW kind \in {"intent", "result"}, WriteAudit(r, kind) PROVE Others(r)
  BY <1>3 DEF WriteAudit, Answered
<1>4. CASE WriteEffect(r)
  BY <1>4 DEF WriteEffect, Answered
<1>5. CASE WriteIdempotency(r)
  BY <1>5 DEF WriteIdempotency, Answered
<1>6. CASE CheckUpdate(r)
  BY <1>6 DEF CheckUpdate
<1>7. CASE UpdateSettlement(r)
  BY <1>7 DEF UpdateSettlement, Answered
<1>8. CASE Refused(r)
  BY <1>8 DEF Refused
<1>9. CASE VerifyApply(r)
  BY <1>9 DEF VerifyApply
<1>10. CASE Crash(r)
  BY <1>10 DEF Crash
<1> QED BY <1>1, <1>2, <1>3, <1>4, <1>5, <1>6, <1>7, <1>8, <1>9, <1>10 DEF Step

LEMMA QuietSteps ==
    ASSUME NEW r \in Runs,
           \/ \E s \in Stages, a \in Actors : Begin(r, s, a)
           \/ ReadOne(r) \/ CheckUpdate(r) \/ Refused(r) \/ VerifyApply(r) \/ Crash(r)
    PROVE  Still
  BY DEF Begin, ReadOne, CheckUpdate, Refused, VerifyApply, Crash, Still, store

(* The settlement before and after an approval or an execution: it exists,  *)
(* it has a locker afterwards, and unless the update overtook another one   *)
(* it was the draft, or the locked settlement, that the run had looked at.  *)
LEMMA UpdateFacts ==
    ASSUME Inv, NEW r \in Runs, UpdateSettlement(r)
    PROVE  /\ stage[r] \in {"FR4", "FR5"} /\ pc[r] = "checked" /\ actor[r] \in Actors
           /\ settlement.status # "none" /\ settlement'.creator = settlement.creator
           /\ made["settlement"] # None /\ made' = made /\ audits' = audits
           /\ stage[r] = "FR4" =>
                 /\ settlement'.status = "locked" /\ settlement'.locker = actor[r]
                 /\ settlement'.paid = settlement.paid /\ settlement'.settler = settlement.settler
                 /\ actor[r] # settlement.creator /\ made["FR2"] # None
                 /\ ~overtaken' => settlement.status = "draft"
           /\ stage[r] = "FR5" =>
                 /\ settlement'.status = "settled" /\ settlement'.locker = settlement.locker
                 /\ settlement'.paid /\ settlement'.settler = actor[r]
                 /\ settlement.locker # None
                 /\ actor[r] # settlement.creator /\ made["payment"] = r
                 /\ ~overtaken' => actor[r] # settlement.locker /\ settlement.status = "locked"
           /\ overtaken => overtaken'
<1>1. /\ pc[r] = "checked" /\ Tracks(r) /\ Grounds(r) /\ Recalls(basis[r]) /\ actor[r] \in Actors
      /\ stage[r] \in {"FR4", "FR5"} /\ settlement \in Settlements
      /\ made' = made /\ audits' = audits
  BY MoversTypes DEF UpdateSettlement, RunKnows, Tracks, Script
<1>2. checked[r].status = IF stage[r] = "FR4" THEN "draft" ELSE "locked"
  BY <1>1 DEF Tracks
<1>3. overtaken' = (overtaken \/ settlement # checked[r])
  BY DEF UpdateSettlement
<1>4. ~overtaken' => ~overtaken /\ settlement.status = checked[r].status
  BY <1>3
<1>5. CASE stage[r] = "FR4"
  <2>1. settlement' = Fr4Patch(actor[r], settlement)
    BY <1>5 DEF UpdateSettlement
  <2>2. /\ settlement'.status = "locked" /\ settlement'.locker = actor[r]
        /\ settlement'.paid = settlement.paid /\ settlement'.settler = settlement.settler
        /\ settlement'.creator = settlement.creator
    BY <1>1, <2>1 DEF Fr4Patch, Settlements
  <2>3. /\ basis[r].status = "draft" /\ actor[r] # basis[r].creator
        /\ made["settlement"] # None /\ made["FR2"] # None
    BY <1>1, <1>5 DEF Grounds, Has
  <2>4. settlement.creator = basis[r].creator /\ settlement.status # "none"
    BY <1>1, <2>3 DEF Recalls
  <2> QED BY <1>1, <1>2, <1>3, <1>4, <1>5, <2>2, <2>3, <2>4
<1>6. CASE stage[r] = "FR5"
  <2>1. settlement' = Fr5Patch(actor[r], settlement)
    BY <1>6 DEF UpdateSettlement
  <2>2. /\ settlement'.status = "settled" /\ settlement'.settler = actor[r] /\ settlement'.paid
        /\ settlement'.locker = settlement.locker /\ settlement'.creator = settlement.creator
    BY <1>1, <2>1 DEF Fr5Patch, Settlements
  <2>3. /\ basis[r].status = "locked" /\ actor[r] \notin {basis[r].creator, basis[r].locker}
        /\ made["settlement"] # None
    BY <1>1, <1>6 DEF Grounds, Has
  <2>4. /\ settlement.creator = basis[r].creator /\ settlement.status # "none"
        /\ settlement.locker # None /\ (~overtaken => settlement.locker = basis[r].locker)
    BY <1>1, <2>3 DEF Recalls
  <2>5. made["payment"] = r
    BY <1>1, <1>6, EffectFacts DEF Tracks, Script, Before
  <2> QED BY <1>1, <1>2, <1>3, <1>4, <1>6, <2>2, <2>3, <2>4, <2>5
<1> QED BY <1>1, <1>5, <1>6

(* A document is created where there was none; the settlement document is   *)
(* a draft of the actor, and whatever it replaces is blank.                 *)
LEMMA EffectMade ==
    ASSUME Inv, NEW r \in Runs, WriteEffect(r)
    PROVE  /\ pc[r] = "effect" /\ stage[r] \in Stages \ {"FR4"} /\ actor[r] \in Actors
           /\ Effect(stage[r]) \in Papers \ Stages /\ made[Effect(stage[r])] = None
           /\ made' = [made EXCEPT ![Effect(stage[r])] = r]
           /\ audits' = audits /\ overtaken' = overtaken
           /\ stage[r] # "FR2" => settlement' = settlement
           /\ stage[r] = "FR2" =>
                 /\ settlement = Blank
                 /\ settlement'.status = "draft" /\ settlement'.creator = actor[r]
                 /\ settlement'.locker = None /\ settlement'.settler = None /\ ~settlement'.paid
<1>1. /\ pc[r] = "effect" /\ Tracks(r) /\ actor[r] \in Actors /\ stage[r] \in Stages
      /\ Free(Effect(stage[r])) /\ audits' = audits /\ overtaken' = overtaken
      /\ made' = [made EXCEPT ![Effect(stage[r])] = r]
      /\ settlement' = IF Effect(stage[r]) = "settlement" THEN Draft(actor[r]) ELSE settlement
  BY MoversTypes DEF WriteEffect, RunKnows
<1>2. stage[r] # "FR4"
  BY <1>1 DEF Tracks
<1>3. Effect(stage[r]) = "settlement" <=> stage[r] = "FR2"
  BY <1>1, <1>2, EffectFacts DEF Stages
<1>4. ASSUME stage[r] = "FR2" PROVE settlement = Blank
  <2>1. made["settlement"] = None
    BY <1>1, <1>3, <1>4 DEF Free
  <2> QED BY <2>1 DEF Inv, SettlementFits
<1>5. /\ Draft(actor[r]).status = "draft" /\ Draft(actor[r]).creator = actor[r]
      /\ Draft(actor[r]).locker = None /\ Draft(actor[r]).settler = None /\ ~Draft(actor[r]).paid
  BY DEF Draft, Blank
<1> QED BY <1>1, <1>2, <1>3, <1>4, <1>5, EffectFacts DEF Free

LEMMA StoreStep ==
    ASSUME Inv, NEW r \in Runs, Step(r)
    PROVE  Kept(r)
<1>1. ASSUME Still PROVE Kept(r)
  BY <1>1 DEF Still, Kept
<1>2. ASSUME NEW kind \in {"intent", "result"}, WriteAudit(r, kind) PROVE Kept(r)
  BY <1>2 DEF WriteAudit, Kept
<1>3. CASE WriteEffect(r)
  BY <1>3, EffectMade, MoversTypes DEF Kept, Blank
<1>4. CASE WriteIdempotency(r)
  <2>1. /\ made' = [made EXCEPT ![stage[r]] = r] /\ made[stage[r]] = None
        /\ settlement' = settlement /\ audits' = audits /\ overtaken' = overtaken
    BY <1>4 DEF WriteIdempotency, Free
  <2> QED BY <2>1, MoversTypes DEF Kept
<1>5. CASE UpdateSettlement(r)
  <2>1. settlement.locker # None => settlement.status # "draft"
    BY DEF Inv, SettlementFits
  <2> QED BY <1>5, <2>1, UpdateFacts, Names DEF Kept
<1> QED BY <1>1, <1>2, <1>3, <1>4, <1>5, QuietSteps DEF Step

-----------------------------------------------------------------------------
(* What the runs know stays true.                                           *)

LEMMA OthersKnow ==
    ASSUME Inv, NEW r \in Runs, Kept(r), Others(r), NEW q \in Runs, q # r
    PROVE  RunKnows(q)'
<1>1. /\ stage'[q] = stage[q] /\ actor'[q] = actor[q] /\ pc'[q] = pc[q] /\ reply'[q] = reply[q]
      /\ seen'[q] = seen[q] /\ basis'[q] = basis[q] /\ checked'[q] = checked[q]
  BY MoversTypes DEF Others
<1>2. RunKnows(q) /\ q # None /\ stage[q] \in Stages /\ Stages \subseteq Papers
      /\ Effect(stage[q]) \in Papers
  BY MoversTypes, EffectFacts
<1>3. \A p \in Papers : /\ made[p] # None => made'[p] = made[p]
                        /\ made'[p] = made[p] \/ made'[p] = r
  BY DEF Kept
<1>4. \A p \in Papers : seen'[q][p] \notin {"unread", None} => made'[p] # None
  BY <1>1, <1>2, <1>3 DEF RunKnows
<1>5. Recalls(basis[q])'
  BY <1>1, <1>2 DEF RunKnows, Recalls, Kept
<1>6. pc'[q] \in Script => Grounds(q)'
  <2>1. pc[q] \in Script => Grounds(q)
    BY <1>2 DEF RunKnows
  <2>2. \A p \in Papers : made[p] # None => made'[p] # None
    BY <1>3
  <2>3. /\ Has(made, {"registry"}) => Has(made', {"registry"})
        /\ Has(made, {"snapshot", "FR1"}) => Has(made', {"snapshot", "FR1"})
        /\ Has(made, {"settlement", "FR2"}) => Has(made', {"settlement", "FR2"})
        /\ Has(made, {"settlement", "FR4"}) => Has(made', {"settlement", "FR4"})
        /\ Has(made, {"payment"}) => Has(made', {"payment"})
    BY <2>2 DEF Has, Papers, Stages
  <2> QED BY <1>1, <1>2, <2>1, <2>3 DEF Grounds, Stages
<1>7. Tracks(q)'
  <2>1. Tracks(q) /\ (pc[q] # "new" => actor[q] # None)
    BY <1>2, Names DEF RunKnows
  <2>2. pc'[q] \in Before => \A p \in Papers : made'[p] # q
    BY <1>1, <1>3, <2>1 DEF Tracks
  <2>3. /\ pc'[q] \in Script \ Before /\ stage'[q] # "FR4" => made'[Effect(stage[q])] = q
        /\ pc'[q] \in {"result", "verify"} => made'[stage[q]] = q
    BY <1>1, <1>2, <1>3, <2>1 DEF Tracks
  <2>4. /\ pc'[q] \in {"idem", "result", "verify"} /\ stage'[q] = "FR5" => settlement'.paid
        /\ pc'[q] = "idem" /\ stage'[q] = "FR4" /\ ~overtaken' => settlement'.locker = actor'[q]
    BY <1>1, <2>1 DEF Tracks, Kept
  <2>5. /\ pc'[q] \in Script \ {"intent"} /\ stage'[q] # "FR0" => <<q, "intent">> \in audits'
        /\ pc'[q] = "verify" /\ stage'[q] # "FR0" => <<q, "result">> \in audits'
    BY <1>1, <2>1 DEF Tracks, Kept
  <2>6. Effect(stage[q])' = Effect(stage[q])
    BY <1>1 DEF Effect
  <2> QED BY <1>1, <2>1, <2>2, <2>3, <2>4, <2>5, <2>6 DEF Tracks
<1> QED BY <1>1, <1>2, <1>4, <1>5, <1>6, <1>7 DEF RunKnows

(* A run that decides to go ahead has its grounds.                          *)
LEMMA GoesAhead ==
    ASSUME Inv, NEW r \in Runs, ReadOne(r)
    PROVE  /\ stage' = stage /\ actor' = actor /\ checked' = checked /\ pc[r] = "reading"
           /\ \A p \in Papers : seen'[r][p] \notin {"unread", None} => made[p] # None
           /\ basis'[r] \in {basis[r], settlement}
           /\ \/ pc'[r] = "reading" /\ reply'[r] = reply[r]
              \/ pc'[r] = "done" /\ reply'[r] \notin {"PASS", "VERIFICATION_FAILED"}
              \/ /\ pc'[r] = Procedure[stage[r]].script[1] /\ reply'[r] = reply[r]
                 /\ CASE stage[r] = "FR0" -> TRUE
                      [] stage[r] = "FR1" -> Has(made, {"registry"})
                      [] stage[r] = "FR2" -> Has(made, {"snapshot", "FR1"})
                      [] stage[r] = "FR4" -> /\ Has(made, {"settlement", "FR2"})
                                             /\ basis'[r].status = "draft" /\ actor[r] # basis'[r].creator
                      [] stage[r] = "FR5" -> /\ Has(made, {"settlement", "FR4"})
                                             /\ basis'[r].status = "locked"
                                             /\ actor[r] \notin {basis'[r].creator, basis'[r].locker}
                      [] stage[r] = "FR6" -> Has(made, {"payment"})
<1>t. /\ DOMAIN seen = AllRuns /\ seen \in [AllRuns -> [Papers -> Owners \cup {"unread"}]]
      /\ r \in AllRuns /\ stage[r] \in Stages /\ pc \in [AllRuns -> Positions]
      /\ reply \in [AllRuns -> Replies] /\ basis \in [AllRuns -> Settlements]
      /\ \A p \in Papers : seen[r][p] \notin {"unread", None} => made[p] # None
  BY MoversTypes DEF Inv, TypeOK, RunKnows
<1>1. PICK i \in NextReads(r) :
         LET paper == Procedure[stage[r]].reads[i]
             now == [seen[r] EXCEPT ![paper] = made[paper]]
             doc == IF paper = "settlement" THEN settlement ELSE basis[r]
             verdict == Verdict(stage[r], actor[r], now, doc)
         IN  /\ seen' = [seen EXCEPT ![r] = now]
             /\ basis' = [basis EXCEPT ![r] = doc]
             /\ IF Unread(r) # {i} THEN UNCHANGED <<pc, reply>>
                ELSE IF verdict = "none"
                THEN Goto(r, Procedure[stage[r]].script[1]) /\ UNCHANGED reply
                ELSE End(r, verdict)
  BY DEF ReadOne
<1> DEFINE paper == Procedure[stage[r]].reads[i]
           now == [seen[r] EXCEPT ![paper] = made[paper]]
           doc == IF paper = "settlement" THEN settlement ELSE basis[r]
           verdict == Verdict(stage[r], actor[r], now, doc)
<1>2. paper \in Papers /\ i \in Unread(r)
  BY <1>t, ReadsFacts DEF NextReads, Unread
<1>3. /\ seen'[r] = now /\ basis'[r] = doc
      /\ now[paper] = made[paper] /\ \A p \in Papers : p # paper => now[p] = seen[r][p]
  BY <1>1, <1>2, <1>t
<1>4. pc[r] = "reading" /\ stage' = stage /\ actor' = actor /\ checked' = checked
  BY DEF ReadOne
<1>5. \A p \in Papers : now[p] \notin {"unread", None} => made[p] # None
  BY <1>t, <1>3
<1>6. CASE Unread(r) # {i}
  <2>1. pc' = pc /\ reply' = reply
    BY <1>1, <1>6
  <2> QED BY <2>1, <1>3, <1>4, <1>5
<1>7. CASE Unread(r) = {i} /\ verdict # "none"
  <2>1. pc'[r] = "done" /\ reply'[r] = verdict
    BY <1>1, <1>7, <1>t DEF End, Goto, Reply
  <2>2. verdict \notin {"PASS", "VERIFICATION_FAILED"}
    BY <1>t DEF Verdict, Stages, FixtureVerdict, Fr1Verdict, Fr2Verdict, Fr4Verdict, Fr5Verdict,
               Fr6Verdict
  <2> QED BY <2>1, <2>2, <1>3, <1>4, <1>5
<1>8. CASE Unread(r) = {i} /\ verdict = "none"
  <2>1. pc'[r] = Procedure[stage[r]].script[1] /\ reply'[r] = reply[r]
    BY <1>1, <1>8, <1>t DEF Goto
  <2>2. \A p \in ReadBy(stage[r]) : now[p] # None => made[p] # None
    <3> SUFFICES ASSUME NEW p \in ReadBy(stage[r]), now[p] # None PROVE made[p] # None
      OBVIOUS
    <3>1. PICK j \in 1..Len(Procedure[stage[r]].reads) : Procedure[stage[r]].reads[j] = p
      BY <1>t, ReadsFacts
    <3>2. p \in Papers
      BY <3>1, <1>t, ReadsFacts
    <3>3. CASE p = paper
      BY <3>3, <1>3
    <3>4. CASE p # paper
      <4>1. j \notin Unread(r)
        BY <3>1, <3>4, <1>8
      <4>2. seen[r][p] # "unread"
        BY <3>1, <4>1 DEF Unread
      <4> QED BY <3>2, <3>4, <4>2, <1>3, <1>t
    <3> QED BY <3>3, <3>4
  <2>3. CASE stage[r] = "FR0"
    BY <2>1, <2>3, <1>3, <1>4, <1>5
  <2>4. CASE stage[r] = "FR1"
    <3>1. made["registry"] # None
      BY <1>8, <2>2, <2>4 DEF Verdict, Fr1Verdict, Has, ReadBy
    <3> QED BY <3>1, <2>1, <2>4, <1>3, <1>4, <1>5 DEF Has
  <2>5. CASE stage[r] = "FR2"
    <3>1. made["snapshot"] # None /\ made["FR1"] # None
      BY <1>8, <2>2, <2>5 DEF Verdict, Fr2Verdict, Fr1Applied, Has, ReadBy
    <3> QED BY <3>1, <2>1, <2>5, <1>3, <1>4, <1>5 DEF Has
  <2>6. CASE stage[r] = "FR4"
    <3>1. /\ made["settlement"] # None /\ made["FR2"] # None
          /\ doc.status = "draft" /\ actor[r] # doc.creator
      BY <1>8, <2>2, <2>6 DEF Verdict, Fr4Verdict, Fr2DraftPrecondition, Fr2Applied, MayApprove, Has, ReadBy
    <3> QED BY <3>1, <2>1, <2>6, <1>3, <1>4, <1>5 DEF Has
  <2>7. CASE stage[r] = "FR5"
    <3>1. /\ made["settlement"] # None /\ made["FR4"] # None
          /\ doc.status = "locked" /\ actor[r] \notin {doc.creator, doc.locker}
      BY <1>8, <2>2, <2>7 DEF Verdict, Fr5Verdict, Fr4LockedPrecondition, Fr4Applied, MayExecute, Has, ReadBy
    <3> QED BY <3>1, <2>1, <2>7, <1>3, <1>4, <1>5 DEF Has
  <2>8. CASE stage[r] = "FR6"
    <3>1. made["payment"] # None
      BY <1>8, <2>2, <2>8 DEF Verdict, Fr6Verdict, Fr5SettledPrecondition, Has, ReadBy
    <3> QED BY <3>1, <2>1, <2>8, <1>3, <1>4, <1>5 DEF Has
  <2> QED BY <2>3, <2>4, <2>5, <2>6, <2>7, <2>8, <1>t DEF Stages
<1> QED BY <1>6, <1>7, <1>8

LEMMA OwnKnows ==
    ASSUME Inv, NEW r \in Runs, Step(r), Kept(r)
    PROVE  RunKnows(r)'
<1>t. /\ r \in AllRuns /\ r # None /\ stage[r] \in Stages /\ Stages \subseteq Papers
      /\ stage \in [AllRuns -> Stages] /\ actor \in [AllRuns -> People]
      /\ pc \in [AllRuns -> Positions] /\ reply \in [AllRuns -> Replies]
      /\ checked \in [AllRuns -> Settlements] /\ made \in [Papers -> Owners]
      /\ RunKnows(r) /\ Tracks(r) /\ Recalls(basis[r]) /\ SettlementFits
      /\ \A p \in Papers : seen[r][p] \notin {"unread", None} => made[p] # None
  BY MoversTypes DEF RunKnows, Inv
<1>k. /\ \A p \in Papers : made[p] # None => made'[p] # None
      /\ audits \subseteq audits' /\ (overtaken => overtaken')
  BY <1>t DEF Kept
<1>c. Recalls(basis[r])' \/ basis'[r] # basis[r]
  BY <1>t DEF Recalls, Kept
<1>g. Grounds(r) /\ stage'[r] = stage[r] /\ actor'[r] = actor[r] /\ basis'[r] = basis[r] => Grounds(r)'
  <2>1. /\ Has(made, {"registry"}) => Has(made', {"registry"})
        /\ Has(made, {"snapshot", "FR1"}) => Has(made', {"snapshot", "FR1"})
        /\ Has(made, {"settlement", "FR2"}) => Has(made', {"settlement", "FR2"})
        /\ Has(made, {"settlement", "FR4"}) => Has(made', {"settlement", "FR4"})
        /\ Has(made, {"payment"}) => Has(made', {"payment"})
    BY <1>k DEF Has, Papers, Stages
  <2> QED BY <1>t, <2>1 DEF Grounds, Stages
<1>d. ASSUME pc'[r] = "done", stage'[r] = stage[r], actor'[r] = actor[r], seen'[r] = seen[r],
             basis'[r] = basis[r], pc[r] # "new"
      PROVE  RunKnows(r)'
  BY <1>d, <1>t, <1>k, <1>c DEF RunKnows, Tracks, Script, Before
<1>w. ASSUME pc'[r] \in Script, pc[r] \in Script, reply'[r] = reply[r], stage'[r] = stage[r],
             actor'[r] = actor[r], seen'[r] = seen[r], basis'[r] = basis[r], Tracks(r)'
      PROVE  RunKnows(r)'
  BY <1>w, <1>t, <1>k, <1>c, <1>g DEF RunKnows, Script
<1>a. ASSUME NEW step, Answered(r, step)
      PROVE  pc'[r] = "done" \/ (pc'[r] = After(r, step) /\ reply'[r] = reply[r])
  BY <1>a, <1>t DEF Answered, Goto, End, Reply
<1>e. Effect(stage[r])' = Effect(stage[r]) \/ stage'[r] # stage[r]
  BY DEF Effect
<1>1. ASSUME NEW s \in Stages, NEW a \in Actors, Begin(r, s, a) PROVE RunKnows(r)'
  <2>1. /\ pc[r] = "new" /\ pc'[r] = "reading" /\ actor'[r] = a /\ reply' = reply /\ seen' = seen
        /\ basis' = basis /\ made' = made
    BY <1>1, <1>t DEF Begin, Goto
  <2> QED BY <2>1, <1>t, <1>k, <1>c DEF RunKnows, Tracks, Script, Before
<1>2. CASE ReadOne(r)
  <2>1. /\ stage' = stage /\ actor' = actor /\ pc[r] = "reading"
        /\ \A p \in Papers : seen'[r][p] \notin {"unread", None} => made[p] # None
        /\ basis'[r] \in {basis[r], settlement} /\ Still
    BY <1>2, GoesAhead, QuietSteps
  <2>2. Recalls(basis'[r]) /\ made' = made /\ settlement' = settlement /\ overtaken' = overtaken
        /\ audits' = audits
    BY <2>1, <1>t DEF Still, Recalls, SettlementFits
  <2>3. Recalls(basis[r])'
    BY <2>2 DEF Recalls
  <2>4. CASE pc'[r] = "reading" /\ reply'[r] = reply[r]
    BY <2>1, <2>2, <2>3, <2>4, <1>t DEF RunKnows, Tracks, Script, Before
  <2>5. CASE pc'[r] = "done"
    BY <2>1, <2>2, <2>3, <2>5, <1>t DEF RunKnows, Tracks, Script, Before
  <2>6. CASE pc'[r] = Procedure[stage[r]].script[1] /\ reply'[r] = reply[r] /\ pc'[r] # "done"
             /\ pc'[r] # "reading"
    <3>1. pc'[r] = IF stage[r] = "FR0" THEN "effect" ELSE "intent"
      BY <2>6, <1>t, FirstStep
    <3>2. Grounds(r)'
      BY <2>1, <2>2, <2>6, <1>2, <1>t, GoesAhead DEF Grounds, Stages
    <3>3. Tracks(r)'
      BY <2>1, <2>2, <3>1, <1>t DEF Tracks, Script, Before
    <3> QED BY <2>1, <2>2, <2>3, <2>6, <3>1, <3>2, <3>3, <1>t DEF RunKnows
  <2> QED BY <1>2, <2>4, <2>5, <2>6, GoesAhead
<1>3. ASSUME NEW kind \in {"intent", "result"}, WriteAudit(r, kind) PROVE RunKnows(r)'
  <2>1. /\ pc[r] = kind /\ stage[r] # "FR0" /\ made' = made /\ settlement' = settlement
        /\ overtaken' = overtaken /\ stage' = stage /\ actor' = actor /\ seen' = seen
        /\ basis' = basis /\ checked' = checked /\ <<r, kind>> \in audits' /\ Answered(r, kind)
    BY <1>3, <1>t DEF WriteAudit, locals, Tracks
  <2>2. CASE pc'[r] = After(r, kind) /\ reply'[r] = reply[r] /\ pc'[r] # "done"
    <3>1. /\ kind = "intent" => pc'[r] = IF stage[r] = "FR4" THEN "update" ELSE "effect"
          /\ kind = "result" => pc'[r] = "verify"
      BY <2>1, <2>2, <1>t, AfterFacts DEF Stages
    <3>2. Tracks(r)'
      BY <2>1, <3>1, <1>t, <1>k, <1>e DEF Tracks, Script, Before
    <3> QED BY <2>1, <2>2, <3>1, <3>2, <1>w DEF Script
  <2> QED BY <2>1, <2>2, <1>a, <1>d
<1>4. CASE WriteEffect(r)
  <2>1. /\ pc[r] = "effect" /\ stage[r] # "FR4" /\ stage' = stage /\ actor' = actor
        /\ seen' = seen /\ basis' = basis /\ checked' = checked /\ Answered(r, "effect")
        /\ made'[Effect(stage[r])] = r /\ Effect(stage[r]) \in Papers
    BY <1>4, <1>t, EffectMade DEF WriteEffect, locals
  <2>2. CASE pc'[r] = After(r, "effect") /\ reply'[r] = reply[r] /\ pc'[r] # "done"
    <3>1. pc'[r] = IF stage[r] = "FR5" THEN "update" ELSE "idem"
      BY <2>1, <2>2, <1>t, AfterFacts DEF Stages
    <3>2. Tracks(r)'
      BY <2>1, <3>1, <1>t, <1>k, <1>e DEF Tracks, Script, Before
    <3> QED BY <2>1, <2>2, <3>1, <3>2, <1>w DEF Script
  <2> QED BY <2>1, <2>2, <1>a, <1>d
<1>5. CASE WriteIdempotency(r)
  <2>1. /\ pc[r] = "idem" /\ stage' = stage /\ actor' = actor
        /\ seen' = seen /\ basis' = basis /\ checked' = checked /\ Answered(r, "idem")
        /\ made' = [made EXCEPT ![stage[r]] = r] /\ settlement' = settlement
    BY <1>5 DEF WriteIdempotency, locals
  <2>2. CASE pc'[r] = After(r, "idem") /\ reply'[r] = reply[r] /\ pc'[r] # "done"
    <3>1. pc'[r] = IF stage[r] = "FR0" THEN "verify" ELSE "result"
      BY <2>1, <2>2, <1>t, AfterFacts DEF Stages
    <3>2. /\ made'[stage[r]] = r
          /\ stage[r] # "FR4" => made'[Effect(stage[r])] = r
      BY <2>1, <1>t, EffectFacts DEF Tracks, Script, Before
    <3>3. Tracks(r)'
      BY <2>1, <3>1, <3>2, <1>t, <1>k, <1>e DEF Tracks, Script, Before
    <3> QED BY <2>1, <2>2, <3>1, <3>3, <1>w DEF Script
  <2> QED BY <2>1, <2>2, <1>a, <1>d
<1>6. CASE CheckUpdate(r)
  <2>1. /\ pc[r] = "update" /\ pc'[r] = "checked" /\ stage' = stage /\ actor' = actor
        /\ seen' = seen /\ basis' = basis /\ checked'[r] = settlement /\ reply' = reply
        /\ made' = made /\ settlement' = settlement
        /\ settlement.status = IF stage[r] = "FR4" THEN "draft" ELSE "locked"
    BY <1>6, <1>t DEF CheckUpdate, UpdateFits, Goto, store
  <2>2. Tracks(r)'
    BY <2>1, <1>t, <1>k, <1>e DEF Tracks, Script, Before
  <2> QED BY <2>1, <2>2, <1>w DEF Script
<1>7. CASE UpdateSettlement(r)
  <2>1. /\ pc[r] = "checked" /\ stage[r] \in {"FR4", "FR5"} /\ stage' = stage /\ actor' = actor
        /\ seen' = seen /\ basis' = basis /\ checked' = checked /\ Answered(r, "update")
        /\ made' = made
        /\ stage[r] = "FR4" => settlement'.locker = actor[r]
        /\ stage[r] = "FR5" => settlement'.paid
    BY <1>7, UpdateFacts DEF UpdateSettlement, locals
  <2>2. CASE pc'[r] = After(r, "update") /\ reply'[r] = reply[r] /\ pc'[r] # "done"
    <3>1. pc'[r] = "idem"
      BY <2>1, <2>2, <1>t, AfterFacts
    <3>2. Tracks(r)'
      BY <2>1, <3>1, <1>t, <1>k, <1>e DEF Tracks, Script, Before
    <3> QED BY <2>1, <2>2, <3>1, <3>2, <1>w DEF Script
  <2> QED BY <2>1, <2>2, <1>a, <1>d
<1>8. CASE Refused(r) \/ VerifyApply(r) \/ Crash(r)
  <2>1. /\ pc'[r] = "done" /\ stage' = stage /\ actor' = actor /\ seen' = seen /\ basis' = basis
        /\ pc[r] # "new"
    BY <1>8, <1>t DEF Refused, VerifyApply, Crash, End, Goto, locals
  <2> QED BY <2>1, <1>d
<1> QED BY <1>1, <1>2, <1>3, <1>4, <1>5, <1>6, <1>7, <1>8 DEF Step

-----------------------------------------------------------------------------
(* The documents.                                                           *)

(* Every step but these three leaves documents and settlement alone.        *)
LEMMA StoreKinds ==
    ASSUME NEW r \in Runs, Step(r)
    PROVE  \/ Still
           \/ \E kind \in {"intent", "result"} : WriteAudit(r, kind)
           \/ WriteEffect(r) \/ WriteIdempotency(r) \/ UpdateSettlement(r)
  BY QuietSteps DEF Step

LEMMA IdempotencyFacts ==
    ASSUME Inv, NEW r \in Runs, WriteIdempotency(r)
    PROVE  /\ pc[r] = "idem" /\ stage[r] \in Stages /\ actor[r] \in Actors /\ Tracks(r)
           /\ made[stage[r]] = None /\ made' = [made EXCEPT ![stage[r]] = r]
           /\ settlement' = settlement /\ audits' = audits /\ overtaken' = overtaken
  BY MoversTypes DEF WriteIdempotency, Free, RunKnows

LEMMA SettlementKept ==
    ASSUME Inv, NEW r \in Runs, Step(r)
    PROVE  SettlementFits' /\ Chained'
<1>t. /\ SettlementFits /\ Chained /\ made \in [Papers -> Owners] /\ r # None
      /\ {"registry", "snapshot", "settlement", "payment", "adjustment", "FR1", "FR2", "FR4"} \subseteq Papers
      /\ stage[r] \in Stages /\ RunKnows(r)
  BY MoversTypes DEF Inv, Papers, Stages
<1>1. CASE Still \/ \E kind \in {"intent", "result"} : WriteAudit(r, kind)
  <2>1. made' = made /\ settlement' = settlement
    BY <1>1 DEF Still, WriteAudit
  <2> QED BY <2>1, <1>t DEF SettlementFits, Chained
<1>2. CASE WriteIdempotency(r)
  <2>1. made' = [made EXCEPT ![stage[r]] = r] /\ settlement' = settlement
    BY <1>2, IdempotencyFacts
  <2>2. \A p \in Papers \ Stages : made'[p] = made[p]
    BY <2>1, <1>t
  <2>3. \A p \in Papers : made[p] # None => made'[p] # None
    BY <2>1, <1>t
  <2> QED BY <2>1, <2>2, <2>3, <1>t DEF SettlementFits, Chained, Papers, Stages
<1>3. CASE WriteEffect(r)
  <2>1. /\ stage[r] \in Stages \ {"FR4"} /\ actor[r] \in Actors
        /\ made' = [made EXCEPT ![Effect(stage[r])] = r] /\ made[Effect(stage[r])] = None
        /\ stage[r] # "FR2" => settlement' = settlement
        /\ stage[r] = "FR2" =>
              /\ settlement'.status = "draft" /\ settlement'.creator = actor[r]
              /\ settlement'.locker = None /\ settlement'.settler = None /\ ~settlement'.paid
    BY <1>3, EffectMade
  <2>2. pc[r] = "effect" /\ Grounds(r) /\ Recalls(basis[r])
    BY <1>3, <1>t DEF WriteEffect, RunKnows, Script
  <2>3. CASE stage[r] = "FR0"
    BY <2>1, <2>3, <1>t, EffectFacts DEF SettlementFits, Chained
  <2>4. CASE stage[r] = "FR1"
    <3>1. made["registry"] # None
      BY <2>2, <2>4 DEF Grounds, Has
    <3> QED BY <3>1, <2>1, <2>4, <1>t, EffectFacts DEF SettlementFits, Chained
  <2>5. CASE stage[r] = "FR2"
    <3>1. made["snapshot"] # None /\ made["FR1"] # None
      BY <2>2, <2>5 DEF Grounds, Has
    <3>2. made' = [made EXCEPT !["settlement"] = r] /\ made["settlement"] = None
      BY <2>1, <2>5, EffectFacts
    <3>3. SettlementFits'
      BY <3>2, <2>1, <2>5, <1>t, Names DEF SettlementFits
    <3> QED BY <3>1, <3>2, <3>3, <2>1, <2>5, <1>t DEF Chained
  <2>6. CASE stage[r] = "FR5"
    <3>1. made["FR4"] # None /\ settlement.locker # None
      BY <2>2, <2>6 DEF Grounds, Has, Recalls
    <3> QED BY <3>1, <2>1, <2>6, <1>t, EffectFacts DEF SettlementFits, Chained
  <2>7. CASE stage[r] = "FR6"
    <3>1. made["payment"] # None
      BY <2>2, <2>7 DEF Grounds, Has
    <3> QED BY <3>1, <2>1, <2>7, <1>t, EffectFacts DEF SettlementFits, Chained
  <2> QED BY <2>1, <2>3, <2>4, <2>5, <2>6, <2>7 DEF Stages
<1>4. CASE UpdateSettlement(r)
  BY <1>4, <1>t, UpdateFacts, Names DEF SettlementFits, Chained
<1> QED BY <1>1, <1>2, <1>3, <1>4, StoreKinds

(* The idempotency documents, the people and the money.                     *)
LEMMA ActorsStay ==
    ASSUME Inv, NEW r \in Runs, Step(r)
    PROVE  \A p \in Papers : made[p] # None => actor'[made[p]] = actor[made[p]] /\ actor[made[p]] \in Actors
<1>1. \A q \in AllRuns \ {r} : actor'[q] = actor[q]
  BY OthersStep DEF Others
<1>2. pc[r] = "new" \/ actor'[r] = actor[r]
  BY DEF Step, Begin, ReadOne, WriteAudit, WriteEffect, WriteIdempotency, CheckUpdate,
         UpdateSettlement, Refused, VerifyApply, Crash, locals
<1>3. pc[r] = "new" => \A p \in Papers : made[p] # r
  BY MoversTypes DEF RunKnows, Tracks, Before
<1>4. \A p \in Papers : made[p] # None => made[p] \in AllRuns
  BY MoversTypes DEF Owners
<1> QED BY <1>1, <1>2, <1>3, <1>4 DEF Inv, Ended, EndedFor

LEMMA PeopleKept ==
    ASSUME Inv, NEW r \in Runs, Step(r)
    PROVE  DualControl' /\ PaidBy' /\ MarksOwnEffect'
<1>t. /\ DualControl /\ PaidBy /\ MarksOwnEffect /\ SettlementFits /\ Chained
      /\ made \in [Papers -> Owners] /\ r # None
      /\ Stages \subseteq Papers /\ "payment" \in Papers /\ "settlement" \in Papers
      /\ stage[r] \in Stages /\ RunKnows(r)
  BY MoversTypes DEF Inv, Papers
<1>a. /\ \A p \in Papers : made[p] # None => actor'[made[p]] = actor[made[p]] /\ actor[made[p]] \in Actors
  BY ActorsStay
<1>1. CASE Still \/ \E kind \in {"intent", "result"} : WriteAudit(r, kind)
  <2>1. made' = made /\ settlement' = settlement /\ overtaken' = overtaken /\ audits \subseteq audits'
    BY <1>1 DEF Still, WriteAudit
  <2>2. MarksOwnEffect'
    BY <2>1, <1>t, <1>a DEF MarksOwnEffect
  <2> QED BY <2>1, <2>2, <1>t, <1>a DEF DualControl, PaidBy
<1>2. CASE WriteIdempotency(r)
  <2>1. /\ pc[r] = "idem" /\ actor[r] \in Actors /\ Tracks(r)
        /\ made[stage[r]] = None /\ made' = [made EXCEPT ![stage[r]] = r]
        /\ settlement' = settlement /\ audits' = audits /\ overtaken' = overtaken /\ actor' = actor
    BY <1>2, IdempotencyFacts DEF WriteIdempotency, locals
  <2>2. "payment" \notin Stages
    BY DEF Stages
  <2>3. MarksOwnEffect'
    <3> SUFFICES ASSUME NEW s \in Stages, made'[s] # None
                 PROVE  /\ s # "FR4" => made'[Effect(s)] = made'[s]
                        /\ s # "FR0" => <<made'[s], "intent">> \in audits
                        /\ s = "FR4" /\ ~overtaken => settlement.locker = actor[made'[s]]
                        /\ s = "FR5" => settlement.settler = actor[made'[s]]
      BY <2>1 DEF MarksOwnEffect, Effect
    <3>1. made'[Effect(s)] = made[Effect(s)]
      BY <2>1, <1>t, EffectFacts
    <3>2. CASE s # stage[r]
      BY <3>1, <3>2, <2>1, <1>t DEF MarksOwnEffect
    <3>3. CASE s = stage[r]
      <4>1. /\ made'[s] = r
            /\ s # "FR4" => made[Effect(s)] = r
            /\ s # "FR0" => <<r, "intent">> \in audits
            /\ s = "FR4" /\ ~overtaken => settlement.locker = actor[r]
            /\ s = "FR5" => settlement.paid
        BY <3>3, <2>1, <1>t DEF Tracks, Script, Before
      <4>2. s = "FR5" => settlement.settler = actor[r]
        BY <4>1, <1>t, EffectFacts DEF PaidBy
      <4> QED BY <4>1, <4>2, <3>1
    <3> QED BY <3>2, <3>3
  <2> QED BY <2>1, <2>2, <2>3, <1>t DEF DualControl, PaidBy
<1>3. CASE WriteEffect(r)
  <2>1. /\ stage[r] \in Stages \ {"FR4"} /\ Effect(stage[r]) \in Papers \ Stages
        /\ made[Effect(stage[r])] = None
        /\ made' = [made EXCEPT ![Effect(stage[r])] = r]
        /\ audits' = audits /\ overtaken' = overtaken /\ actor' = actor
        /\ stage[r] # "FR2" => settlement' = settlement
        /\ stage[r] = "FR2" =>
              /\ settlement = Blank
              /\ settlement'.status = "draft" /\ settlement'.creator = actor[r]
              /\ settlement'.locker = None /\ settlement'.settler = None /\ ~settlement'.paid
    BY <1>3, EffectMade DEF WriteEffect, locals
  <2>2. DualControl'
    BY <2>1, <1>t DEF DualControl
  <2>3. PaidBy'
    BY <2>1, <1>t DEF PaidBy
  <2>4. settlement' = settlement \/ made["settlement"] = None
    BY <2>1, EffectFacts
  <2>5. ASSUME made["settlement"] = None, settlement = Blank
        PROVE  (~overtaken => made["FR4"] = None) /\ made["FR5"] = None
    <3>1. made["payment"] = None
      BY <2>5, <1>t DEF Chained
    <3>2. made["FR5"] = None
      BY <3>1, <1>t, EffectFacts DEF MarksOwnEffect, Stages
    <3>3. ~overtaken => made["FR4"] = None
      BY <2>5, <1>t, <1>a, Names DEF MarksOwnEffect, Stages, Blank
    <3> QED BY <3>2, <3>3
  <2>6. MarksOwnEffect'
    <3> SUFFICES ASSUME NEW s \in Stages, made'[s] # None
                 PROVE  /\ s # "FR4" => made'[Effect(s)] = made'[s]
                        /\ s # "FR0" => <<made'[s], "intent">> \in audits
                        /\ s = "FR4" /\ ~overtaken => settlement'.locker = actor[made'[s]]
                        /\ s = "FR5" => settlement'.settler = actor[made'[s]]
      BY <2>1 DEF MarksOwnEffect, Effect
    <3>1. made'[s] = made[s]
      BY <2>1, <1>t
    <3>2. s # "FR4" => made[Effect(s)] = made[s] /\ Effect(s) # Effect(stage[r])
      BY <3>1, <2>1, <1>t DEF MarksOwnEffect
    <3>3. s # "FR4" => made'[Effect(s)] = made[Effect(s)]
      BY <3>2, <2>1, <1>t, EffectFacts
    <3> QED BY <3>1, <3>2, <3>3, <2>1, <2>4, <2>5, <1>t DEF MarksOwnEffect
  <2> QED BY <2>2, <2>3, <2>6
<1>4. CASE UpdateSettlement(r)
  <2>1. /\ made' = made /\ audits' = audits /\ actor' = actor
        /\ actor[r] \in Actors /\ settlement'.creator = settlement.creator
        /\ overtaken => overtaken'
    BY <1>4, UpdateFacts DEF UpdateSettlement, locals
  <2>2. CASE stage[r] = "FR4"
    <3>1. /\ settlement'.locker = actor[r] /\ settlement'.paid = settlement.paid
          /\ settlement'.settler = settlement.settler /\ actor[r] # settlement.creator
          /\ ~overtaken' => settlement.status = "draft"
      BY <1>4, <2>2, UpdateFacts
    <3>2. ~overtaken' => settlement.settler = None /\ settlement.locker = None
      BY <3>1, <1>t DEF SettlementFits
    <3>3. ~overtaken' => made["FR4"] = None
      BY <3>2, <2>1, <1>t, <1>a, Names DEF MarksOwnEffect, Stages
    <3> QED BY <3>1, <3>2, <3>3, <2>1, <1>t DEF DualControl, PaidBy, MarksOwnEffect
  <2>3. CASE stage[r] = "FR5"
    <3>1. /\ settlement'.locker = settlement.locker /\ settlement'.paid
          /\ settlement'.settler = actor[r] /\ actor[r] # settlement.creator
          /\ made["payment"] = r /\ settlement.locker # None
          /\ ~overtaken' => actor[r] # settlement.locker
      BY <1>4, <2>3, UpdateFacts
    <3>2. made["FR5"] # None => made["FR5"] = r
      BY <3>1, <1>t, EffectFacts DEF MarksOwnEffect, Stages
    <3> QED BY <3>1, <3>2, <2>1, <1>t DEF DualControl, PaidBy, MarksOwnEffect
  <2> QED BY <1>4, <2>2, <2>3, UpdateFacts
<1> QED BY <1>1, <1>2, <1>3, <1>4, StoreKinds

-----------------------------------------------------------------------------
(* What the runs report.                                                    *)

LEMMA EndedOthers ==
    ASSUME Inv, NEW r \in Runs, Kept(r), Others(r), NEW q \in AllRuns, q # r
    PROVE  EndedFor(q)'
<1>1. /\ stage'[q] = stage[q] /\ actor'[q] = actor[q] /\ pc'[q] = pc[q] /\ reply'[q] = reply[q]
      /\ q # None /\ stage[q] \in Papers /\ "payment" \in Papers
  BY MoversTypes, Names DEF Others, Papers
<1>2. EndedFor(q)
  BY DEF Inv, Ended
<1>3. /\ \A p \in Papers : made[p] # None => made'[p] = made[p]
      /\ \A p \in Papers : made'[p] = made[p] \/ made'[p] = r
      /\ audits \subseteq audits' /\ (settlement.paid => settlement'.paid)
  BY DEF Kept
<1>4. \A p \in Papers : made'[p] = q <=> made[p] = q
  BY <1>1, <1>3
<1> QED BY <1>1, <1>2, <1>3, <1>4 DEF EndedFor

LEMMA EndedOwn ==
    ASSUME Inv, NEW r \in Runs, Step(r), Kept(r), RunKnows(r)'
    PROVE  EndedFor(r)'
<1> USE DEF EndedFor
<1>t. /\ r \in AllRuns /\ r # None /\ stage[r] \in Stages /\ Stages \subseteq Papers
      /\ made \in [Papers -> Owners] /\ "payment" \in Papers /\ "payment" \notin Stages
      /\ pc \in [AllRuns -> Positions] /\ reply \in [AllRuns -> Replies]
      /\ Tracks(r) /\ (pc[r] # "done" => reply[r] = "none")
  BY MoversTypes DEF RunKnows, Papers, Stages
<1>o. made["payment"] = r =>
            /\ stage[r] = "FR5"
            /\ \/ settlement.paid
               \/ pc[r] \in {"update", "checked"} /\ reply[r] = "none"
               \/ pc[r] = "done" /\ reply[r] \in {"CONFLICT_NO_GO", "crashed"}
  BY <1>t DEF Inv, Ended
<1>p. settlement.paid => settlement'.paid
  BY DEF Kept
<1>1. \A p \in Papers : made'[p] = r => actor'[r] \in Actors
  BY DEF RunKnows, Tracks, Before
<1>2. pc[r] # "done" /\ reply[r] = "none"
  BY <1>t DEF Step, Begin, ReadOne, WriteAudit, WriteEffect, WriteIdempotency, CheckUpdate,
              UpdateSettlement, Refused, VerifyApply, Crash
<1>f. Failure(r) \in {"REFUSED_GATES", "CONFLICT_NO_GO"} /\ ((pc[r] # "effect" \/ stage[r] # "FR0") => Failure(r) = "CONFLICT_NO_GO")
  BY DEF Failure
<1>a. ASSUME NEW step, Answered(r, step)
      PROVE  \/ pc'[r] = "done" /\ reply'[r] = Failure(r)
             \/ /\ pc'[r] = After(r, step)
                /\ reply'[r] = IF After(r, step) = "done" THEN "PASS" ELSE reply[r]
  BY <1>a, <1>t DEF Answered, Goto, End, Reply
<1>3. ASSUME NEW s \in Stages, NEW a \in Actors, Begin(r, s, a)
      PROVE  /\ reply'[r] = "none" /\ made'["payment"] # r
  BY <1>3, <1>2, <1>t DEF Begin, Tracks, Before
<1>4. CASE ReadOne(r)
  <2>1. reply'[r] \notin {"PASS", "VERIFICATION_FAILED"} /\ made' = made /\ pc[r] = "reading"
    BY <1>4, <1>2, GoesAhead, QuietSteps DEF Still
  <2> QED BY <2>1, <1>1, <1>t DEF Tracks, Before
<1>5. ASSUME NEW kind \in {"intent", "result"}, WriteAudit(r, kind)
      PROVE  /\ reply'[r] = "PASS" => made'[stage'[r]] = r
             /\ reply'[r] \in {"PASS", "VERIFICATION_FAILED"} /\ stage'[r] # "FR0" =>
                   <<r, "intent">> \in audits' /\ <<r, "result">> \in audits'
             /\ made'["payment"] = r => stage'[r] = "FR5" /\ settlement'.paid
  <2>1. /\ pc[r] = kind /\ stage[r] # "FR0" /\ made' = made /\ stage' = stage
        /\ audits' = audits \cup {<<r, kind>>} /\ settlement' = settlement /\ Answered(r, kind)
    BY <1>5, <1>t DEF WriteAudit, locals, Tracks
  <2>2. kind = "intent" => After(r, kind) # "done"
    BY <2>1, <1>t, AfterFacts DEF Stages
  <2>3. reply'[r] \in {"PASS", "VERIFICATION_FAILED"} => kind = "result"
    BY <2>1, <2>2, <1>a, <1>f, <1>2
  <2>4. kind = "result" => made[stage[r]] = r /\ <<r, "intent">> \in audits
    BY <2>1, <1>t DEF Tracks, Script
  <2>5. made["payment"] = r => stage[r] = "FR5" /\ settlement.paid
    BY <2>1, <1>o
  <2> QED BY <2>1, <2>3, <2>4, <2>5
<1>6. CASE WriteEffect(r)
  <2>1. /\ pc[r] = "effect" /\ stage[r] \in Stages \ {"FR4"} /\ stage' = stage /\ Answered(r, "effect")
        /\ made' = [made EXCEPT ![Effect(stage[r])] = r] /\ made["payment"] # r
    BY <1>6, <1>t, EffectMade DEF WriteEffect, locals, Tracks, Before
  <2>2. After(r, "effect") = IF stage[r] = "FR5" THEN "update" ELSE "idem"
    BY <2>1, AfterFacts DEF Stages
  <2>3. reply'[r] \notin {"PASS", "VERIFICATION_FAILED"}
    BY <2>1, <2>2, <1>a, <1>f, <1>2
  <2>4. made'["payment"] = r => stage[r] = "FR5"
    BY <2>1, <1>t, EffectFacts DEF Stages
  <2>5. stage[r] = "FR5" =>
            \/ pc'[r] = "update" /\ reply'[r] = "none"
            \/ pc'[r] = "done" /\ reply'[r] = "CONFLICT_NO_GO"
    BY <2>1, <2>2, <1>2, <1>a, <1>f
  <2> QED BY <1>1, <2>1, <2>3, <2>4, <2>5
<1>7. CASE WriteIdempotency(r)
  <2>1. /\ pc[r] = "idem" /\ stage' = stage /\ Answered(r, "idem") /\ settlement' = settlement
        /\ made' = [made EXCEPT ![stage[r]] = r]
    BY <1>7 DEF WriteIdempotency, locals
  <2>2. After(r, "idem") # "done"
    BY <1>t, AfterFacts
  <2>3. reply'[r] \notin {"PASS", "VERIFICATION_FAILED"}
    BY <2>1, <2>2, <1>a, <1>f, <1>2
  <2>4. made'["payment"] = r => stage[r] = "FR5" /\ settlement.paid
    BY <2>1, <1>t, <1>o
  <2> QED BY <1>1, <2>1, <2>3, <2>4
<1>8. CASE CheckUpdate(r)
  <2>1. /\ pc[r] = "update" /\ pc'[r] = "checked" /\ stage' = stage /\ reply' = reply /\ made' = made
    BY <1>8, <1>t DEF CheckUpdate, Goto, store
  <2> QED BY <2>1, <1>1, <1>2, <1>o
<1>9. CASE UpdateSettlement(r)
  <2>1. /\ pc[r] = "checked" /\ stage[r] \in {"FR4", "FR5"} /\ stage' = stage
        /\ Answered(r, "update") /\ made' = made /\ (stage[r] = "FR5" => settlement'.paid)
    BY <1>9, UpdateFacts DEF UpdateSettlement, locals
  <2>2. After(r, "update") # "done"
    BY <2>1, <1>t, AfterFacts
  <2>3. reply'[r] \notin {"PASS", "VERIFICATION_FAILED"}
    BY <2>1, <2>2, <1>a, <1>f, <1>2
  <2> QED BY <1>1, <2>1, <2>3, <1>o
<1>10. CASE Refused(r)
  <2>1. /\ pc'[r] = "done" /\ reply'[r] = Failure(r) /\ stage' = stage /\ made' = made
        /\ settlement' = settlement
    BY <1>10, <1>t DEF Refused, End, Goto, Reply, locals, store
  <2> QED BY <2>1, <1>1, <1>2, <1>f, <1>o
<1>11. CASE VerifyApply(r)
  <2>1. /\ pc[r] = "verify" /\ pc'[r] = "done" /\ stage' = stage /\ made' = made
        /\ settlement' = settlement /\ audits' = audits
    BY <1>11, <1>t DEF VerifyApply, End, Goto, locals, store
  <2>2. made[stage[r]] = r /\ (stage[r] # "FR0" => <<r, "intent">> \in audits /\ <<r, "result">> \in audits)
    BY <2>1, <1>t DEF Tracks, Script
  <2> QED BY <2>1, <2>2, <1>1, <1>o
<1>12. CASE Crash(r)
  <2>1. /\ pc'[r] = "done" /\ reply'[r] = "crashed" /\ stage' = stage /\ made' = made
        /\ settlement' = settlement
    BY <1>12, <1>t DEF Crash, End, Goto, Reply, locals, store
  <2> QED BY <2>1, <1>1, <1>2, <1>o
<1> QED BY <1>1, <1>3, <1>4, <1>5, <1>6, <1>7, <1>8, <1>9, <1>10, <1>11, <1>12 DEF Step

-----------------------------------------------------------------------------
(* The initial states: n stages have been applied undisturbed.              *)

LEMMA PastFacts ==
    ASSUME NEW n \in 0..6
    PROVE  /\ "FR0" \in Past(n) <=> n >= 1
           /\ "FR1" \in Past(n) <=> n >= 2
           /\ "FR2" \in Past(n) <=> n >= 3
           /\ "FR4" \in Past(n) <=> n >= 4
           /\ "FR5" \in Past(n) <=> n >= 5
           /\ "FR6" \in Past(n) <=> n >= 6
           /\ Past(n) \subseteq Stages
<1>1. /\ Chain[1] = "FR0" /\ Chain[2] = "FR1" /\ Chain[3] = "FR2"
      /\ Chain[4] = "FR4" /\ Chain[5] = "FR5" /\ Chain[6] = "FR6"
  BY DEF Chain
<1>2. \A i \in 1..n : i \in {1, 2, 3, 4, 5, 6} /\ i <= n
  OBVIOUS
<1>3. \A k \in {1, 2, 3, 4, 5, 6} : k \in 1..n <=> n >= k
  OBVIOUS
<1>4. \A s : s \in Past(n) <=> \E i \in 1..n : s = Chain[i]
  BY DEF Past
<1>5. \A k \in {1, 2, 3, 4, 5, 6} : Chain[k] \in Past(n) <=> n >= k
  <2> SUFFICES ASSUME NEW k \in {1, 2, 3, 4, 5, 6} PROVE Chain[k] \in Past(n) <=> n >= k
    OBVIOUS
  <2>1. \A i \in {1, 2, 3, 4, 5, 6} : Chain[i] = Chain[k] => i = k
    BY <1>1
  <2> QED BY <2>1, <1>2, <1>3, <1>4
<1>6. Past(n) \subseteq Stages
  BY <1>1, <1>2, <1>4 DEF Stages
<1> QED BY <1>1, <1>5, <1>6

LEMMA MakerFacts ==
    /\ Maker("registry") = "FR0" /\ Maker("snapshot") = "FR1" /\ Maker("settlement") = "FR2"
    /\ Maker("payment") = "FR5" /\ Maker("adjustment") = "FR6"
    /\ \A s \in Stages : Maker(s) = s
    /\ \A p \in Papers : Maker(p) \in Stages
    /\ \A s \in Stages \ {"FR4"} : Maker(Effect(s)) = s
<1>1. /\ \A s \in Stages \ {"FR4"} : Effect(s) = "registry" <=> s = "FR0"
      /\ \A s \in Stages \ {"FR4"} : Effect(s) = "snapshot" <=> s = "FR1"
      /\ \A s \in Stages \ {"FR4"} : Effect(s) = "settlement" <=> s = "FR2"
      /\ \A s \in Stages \ {"FR4"} : Effect(s) = "payment" <=> s = "FR5"
      /\ \A s \in Stages \ {"FR4"} : Effect(s) = "adjustment" <=> s = "FR6"
      /\ {"FR0", "FR1", "FR2", "FR5", "FR6"} = Stages \ {"FR4"}
  BY EffectFacts DEF Stages
<1>2. /\ (CHOOSE s \in Stages \ {"FR4"} : Effect(s) = "registry") = "FR0"
      /\ (CHOOSE s \in Stages \ {"FR4"} : Effect(s) = "snapshot") = "FR1"
      /\ (CHOOSE s \in Stages \ {"FR4"} : Effect(s) = "settlement") = "FR2"
      /\ (CHOOSE s \in Stages \ {"FR4"} : Effect(s) = "payment") = "FR5"
      /\ (CHOOSE s \in Stages \ {"FR4"} : Effect(s) = "adjustment") = "FR6"
  BY <1>1
<1>3. /\ Maker("registry") = "FR0" /\ Maker("snapshot") = "FR1" /\ Maker("settlement") = "FR2"
      /\ Maker("payment") = "FR5" /\ Maker("adjustment") = "FR6"
      /\ \A s \in Stages : Maker(s) = s
  BY <1>2 DEF Maker, Stages
<1> QED BY <1>3, EffectFacts DEF Papers, Stages

LEMMA InitHolds == Init => Inv
<1> SUFFICES ASSUME Init PROVE Inv
  OBVIOUS
<1>1. PICK n \in Prefixes :
        /\ made = [p \in Papers |-> IF Maker(p) \in Past(n) THEN Maker(p) ELSE None]
        /\ settlement = SettlementAfter(n)
        /\ audits = (Past(n) \ {"FR0"}) \X {"intent", "result"}
        /\ stage = [r \in AllRuns |-> IF r \in Stages THEN r ELSE "FR0"]
        /\ actor = [r \in AllRuns |-> IF r \in Past(n) THEN Team[r] ELSE None]
        /\ pc = [r \in AllRuns |-> IF r \in Past(n) THEN "done" ELSE "new"]
        /\ reply = [r \in AllRuns |-> IF r \in Past(n) THEN "PASS" ELSE "none"]
        /\ seen = [r \in AllRuns |-> [p \in Papers |-> "unread"]]
        /\ basis = [r \in AllRuns |-> Blank]
        /\ checked = [r \in AllRuns |-> Blank]
        /\ overtaken = FALSE
  BY DEF Init
<1>n. n \in 0..6
  BY PrefixAssumption
<1>s. /\ settlement.status = IF n < 3 THEN "none" ELSE IF n < 4 THEN "draft"
                             ELSE IF n < 5 THEN "locked" ELSE "settled"
      /\ settlement.paid <=> n >= 5
      /\ settlement.creator = IF n < 3 THEN None ELSE Team["FR2"]
      /\ settlement.locker = IF n < 4 THEN None ELSE Team["FR4"]
      /\ settlement.settler = IF n < 5 THEN None ELSE Team["FR5"]
  BY <1>1 DEF SettlementAfter
<1>m. \A p \in Papers : made[p] # None <=> Maker(p) \in Past(n)
  BY <1>1, <1>n, PastFacts, MakerFacts, Names
<1>p. /\ made["registry"] # None <=> n >= 1
      /\ made["snapshot"] # None <=> n >= 2
      /\ made["settlement"] # None <=> n >= 3
      /\ made["payment"] # None <=> n >= 5
      /\ made["adjustment"] # None <=> n >= 6
      /\ made["FR1"] # None <=> n >= 2
      /\ made["FR2"] # None <=> n >= 3
      /\ made["FR4"] # None <=> n >= 4
  BY <1>m, <1>n, PastFacts, MakerFacts DEF Papers, Stages
<1>2. TypeOK
  <2>1. settlement \in Settlements
    BY <1>1, <1>n, Names DEF SettlementAfter, Settlements, People, Stages
  <2>2. made \in [Papers -> Owners] /\ audits \subseteq AllRuns \X {"intent", "result"}
    BY <1>1, <1>n, PastFacts, MakerFacts, Names DEF Owners
  <2>3. stage \in [AllRuns -> Stages]
    BY <1>1 DEF Stages
  <2>4. /\ actor \in [AllRuns -> People] /\ pc \in [AllRuns -> Positions]
        /\ reply \in [AllRuns -> Replies]
    BY <1>1, <1>n, PastFacts, Names DEF People, Positions, Replies
  <2> QED BY <1>1, <2>1, <2>2, <2>3, <2>4, BlankFits DEF TypeOK
<1>3. SettlementFits
  <2>1. n < 3 => settlement = Blank
    <3> SUFFICES ASSUME n < 3 PROVE settlement = Blank
      OBVIOUS
    <3>1. (n >= 5) = FALSE
      BY <1>n
    <3>2. SettlementAfter(n) = [status |-> "none", paid |-> n >= 5, creator |-> None,
                                locker |-> None, settler |-> None]
      BY <1>n DEF SettlementAfter
    <3>3. SettlementAfter(n) = Blank
      BY <3>1, <3>2 DEF Blank
    <3> QED BY <1>1, <3>3
  <2>2. Team["FR2"] # None /\ Team["FR4"] # None /\ Team["FR5"] # None
    BY Names DEF Stages
  <2> QED BY <2>1, <2>2, <1>s, <1>p, <1>n DEF SettlementFits
<1>4. Chained
  BY <1>s, <1>p, <1>n, Names DEF Chained, Stages
<1>5. ASSUME NEW r \in Runs PROVE RunKnows(r)
  <2>1. r \in AllRuns /\ r \notin Past(n) /\ r # None
    BY <1>n, PastFacts, Names
  <2>2. /\ pc[r] = "new" /\ reply[r] = "none" /\ basis[r] = Blank
        /\ \A p \in Papers : seen[r][p] = "unread"
    BY <1>1, <2>1
  <2>3. \A p \in Papers : made[p] # r
    BY <1>1, <2>1
  <2> QED BY <2>2, <2>3 DEF RunKnows, Recalls, Blank, Tracks, Script, Before
<1>6. Ended
  <2> SUFFICES ASSUME NEW r \in AllRuns
               PROVE  /\ \A p \in Papers : made[p] = r => actor[r] \in Actors
                      /\ reply[r] = "PASS" => made[stage[r]] = r
                      /\ reply[r] \in {"PASS", "VERIFICATION_FAILED"} /\ stage[r] # "FR0" =>
                            <<r, "intent">> \in audits /\ <<r, "result">> \in audits
                      /\ made["payment"] = r => stage[r] = "FR5" /\ settlement.paid
    BY DEF Ended, EndedFor
  <2>1. \A p \in Papers : made[p] = r => r \in Past(n)
    BY <1>1, Names
  <2>2. r \in Past(n) => r \in Stages /\ actor[r] \in Actors /\ stage[r] = r /\ made[r] = r
    BY <1>1, <1>n, PastFacts, MakerFacts, Names
  <2>3. reply[r] = "PASS" \/ (reply[r] = "none" /\ r \notin Past(n))
    BY <1>1
  <2>4. reply[r] = "PASS" => r \in Past(n)
    BY <1>1
  <2>5. made["payment"] = r => r = "FR5" /\ n >= 5
    BY <1>1, <1>p, MakerFacts, Names DEF Papers
  <2>6. "payment" \in Papers
    BY DEF Papers
  <2> QED BY <1>1, <1>s, <1>n, <2>1, <2>2, <2>3, <2>4, <2>5, <2>6
<1>7. PaidBy /\ DualControl
  <2>1. n >= 5 => made["payment"] = "FR5" /\ actor["FR5"] = Team["FR5"]
    BY <1>1, <1>n, PastFacts, MakerFacts, Names DEF Papers, Stages
  <2>2. PaidBy
    BY <2>1, <1>s, <1>p, <1>n, Names DEF PaidBy, Stages
  <2>3. DualControl
    BY <1>s, <1>n, DutiesAssumption DEF DualControl
  <2> QED BY <2>2, <2>3
<1>8. MarksOwnEffect
  <2> SUFFICES ASSUME NEW s \in Stages, made[s] # None
               PROVE  /\ s # "FR4" => made[Effect(s)] = made[s]
                      /\ s # "FR0" => <<made[s], "intent">> \in audits
                      /\ s = "FR4" => settlement.locker = actor[made[s]]
                      /\ s = "FR5" => settlement.settler = actor[made[s]]
    BY DEF MarksOwnEffect
  <2>1. made[s] = s /\ s \in Past(n) /\ s \in AllRuns /\ actor[s] = Team[s]
    BY <1>1, <1>m, MakerFacts, Names
  <2>2. s # "FR4" => made[Effect(s)] = s
    BY <1>1, <2>1, MakerFacts, EffectFacts
  <2>3. s # "FR0" => <<s, "intent">> \in audits
    BY <1>1, <2>1
  <2>4. /\ s = "FR4" => settlement.locker = Team["FR4"]
        /\ s = "FR5" => settlement.settler = Team["FR5"]
    BY <1>s, <1>n, <2>1, PastFacts
  <2> QED BY <2>1, <2>2, <2>3, <2>4
<1> QED BY <1>2, <1>3, <1>4, <1>5, <1>6, <1>7, <1>8 DEF Inv

-----------------------------------------------------------------------------
(* The theorems.                                                            *)

LEMMA NextHolds == Inv /\ [Next]_vars => Inv'
<1> SUFFICES ASSUME Inv, [Next]_vars PROVE Inv'
  OBVIOUS
<1>1. CASE UNCHANGED vars
  <2>1. /\ UNCHANGED <<made, settlement, audits, stage, actor, pc>>
        /\ UNCHANGED <<reply, seen, basis, checked, overtaken>>
    BY <1>1 DEF vars
  <2>2. TypeOK' /\ SettlementFits' /\ Chained'
    BY <2>1 DEF Inv, TypeOK, SettlementFits, Chained
  <2>3. ASSUME NEW r \in Runs PROVE RunKnows(r)'
    <3>1. RunKnows(r)
      BY DEF Inv
    <3>2. Grounds(r)' <=> Grounds(r)
      BY <2>1 DEF Grounds, Has
    <3>3. Tracks(r)' <=> Tracks(r)
      BY <2>1 DEF Tracks, Effect
    <3>4. Recalls(basis[r])' <=> Recalls(basis[r])
      BY <2>1 DEF Recalls
    <3> QED BY <2>1, <3>1, <3>2, <3>3, <3>4 DEF RunKnows
  <2>4. Ended'
    BY <2>1 DEF Inv, Ended, EndedFor
  <2>5. DualControl' /\ PaidBy' /\ MarksOwnEffect'
    BY <2>1 DEF Inv, DualControl, PaidBy, MarksOwnEffect, Effect
  <2> QED BY <2>2, <2>3, <2>4, <2>5 DEF Inv
<1>2. ASSUME NEW r \in Runs, Step(r) PROVE Inv'
  <2>1. Kept(r) /\ Others(r) /\ TypeOK'
    BY <1>2, StoreStep, OthersStep, TypeStep
  <2>2. RunKnows(r)'
    BY <1>2, <2>1, OwnKnows
  <2>3. \A q \in Runs : RunKnows(q)'
    BY <2>1, <2>2, OthersKnow
  <2>4. SettlementFits' /\ Chained' /\ DualControl' /\ PaidBy' /\ MarksOwnEffect'
    BY <1>2, SettlementKept, PeopleKept
  <2>5. Ended'
    BY <1>2, <2>1, <2>2, EndedOwn, EndedOthers DEF Ended
  <2> QED BY <2>1, <2>3, <2>4, <2>5 DEF Inv
<1> QED BY <1>1, <1>2 DEF Next

LEMMA InvHolds == Spec => []Inv
  BY InitHolds, NextHolds, PTL DEF Spec

(* Every variable keeps its type: documents are made by runs, and a run is  *)
(* at one place of its procedure with one of the reported outcomes.         *)
THEOREM TypesHold == Spec => []TypeOK
<1>1. Inv => TypeOK
  BY DEF Inv
<1> QED BY <1>1, InvHolds, PTL

(* However runs of any people overlap, whoever drafted the settlement       *)
(* neither approved nor executed it, and unless an update overtook another  *)
(* one, who approved did not execute.                                       *)
THEOREM DutiesStaySeparate == Spec => []DualControl
<1>1. Inv => DualControl
  BY DEF Inv
<1> QED BY <1>1, InvHolds, PTL

(* A run that reports PASS wrote its stage's idempotency document itself    *)
(* and left both audit events.                                              *)
THEOREM SuccessIsBacked == Spec => []PassIsBacked
<1>1. Inv => PassIsBacked
  BY DEF Inv, Ended, EndedFor, PassIsBacked
<1> QED BY <1>1, InvHolds, PTL

(* Payment document and settlement agree on the money, up to a run of FR5   *)
(* between the two writes or cut off there.                                 *)
THEOREM MoneyIsTold == Spec => []MoneyAgrees
<1>1. Inv => MoneyAgrees
  <2> SUFFICES ASSUME Inv PROVE MoneyAgrees
    OBVIOUS
  <2>1. PaidBy /\ Ended /\ made["payment"] \in Owners
    BY DEF Inv, TypeOK, Papers
  <2>2. ASSUME made["payment"] # None, ~settlement.paid
        PROVE  reply[made["payment"]] \in {"none", "CONFLICT_NO_GO", "crashed"}
    <3> DEFINE r == made["payment"]
    <3>1. r \in AllRuns
      BY <2>1, <2>2 DEF Owners
    <3>2. \/ pc[r] \in {"update", "checked"} /\ reply[r] = "none"
          \/ reply[r] \in {"CONFLICT_NO_GO", "crashed"}
      BY <2>1, <2>2, <3>1 DEF Ended, EndedFor
    <3> QED BY <3>2
  <2> QED BY <2>1, <2>2 DEF PaidBy, MoneyAgrees
<1> QED BY <1>1, InvHolds, PTL

(* A stage that was left half applied stops the chain.                      *)
THEOREM ChainHolds == Spec => []ChainIsWhole
<1>1. Inv => ChainIsWhole
  BY DEF Inv, Chained, ChainIsWhole
<1> QED BY <1>1, InvHolds, PTL

(* The idempotency document of a stage is written by the run that made the  *)
(* stage's effect, so no run ever stands for the work of another one.       *)
THEOREM MarksAreOwn == Spec => []MarksOwnEffect
<1>1. Inv => MarksOwnEffect
  BY DEF Inv
<1> QED BY <1>1, InvHolds, PTL

(* The settlement goes from draft to locked to settled, unless an update    *)
(* overtook another one.                                                    *)
THEOREM StatusMovesOn == Spec => SettlementMovesOn
<1>1. Inv /\ [Next]_vars =>
        [\/ settlement' = settlement
         \/ overtaken'
         \/ <<settlement.status, settlement'.status>> \in
               {<<"none", "draft">>, <<"draft", "locked">>, <<"locked", "settled">>}]_vars
  <2> SUFFICES ASSUME Inv, NEW r \in Runs, Step(r)
               PROVE  \/ settlement' = settlement
                      \/ overtaken'
                      \/ <<settlement.status, settlement'.status>> \in
                            {<<"none", "draft">>, <<"draft", "locked">>, <<"locked", "settled">>}
    BY DEF Next
  <2>1. CASE Still \/ \E kind \in {"intent", "result"} : WriteAudit(r, kind)
    BY <2>1 DEF Still, WriteAudit
  <2>2. CASE WriteEffect(r)
    BY <2>2, EffectMade DEF Blank
  <2>3. CASE WriteIdempotency(r)
    BY <2>3, IdempotencyFacts
  <2>4. CASE UpdateSettlement(r)
    BY <2>4, UpdateFacts
  <2> QED BY <2>1, <2>2, <2>3, <2>4, StoreKinds
<1> QED BY <1>1, InvHolds, PTL DEF Spec, SettlementMovesOn

-----------------------------------------------------------------------------
(* The pilots implement the chain.                                          *)

LEMMA ChainSteps ==
    /\ Len(Chain) = 6
    /\ Order!Upto(0) = {}
    /\ Order!Upto(1) = {"FR0"}
    /\ Order!Upto(2) = {"FR0", "FR1"}
    /\ Order!Upto(3) = {"FR0", "FR1", "FR2"}
    /\ Order!Upto(4) = {"FR0", "FR1", "FR2", "FR4"}
    /\ Order!Upto(5) = {"FR0", "FR1", "FR2", "FR4", "FR5"}
    /\ Order!Upto(6) = Stages
<1>1. /\ Len(Chain) = 6
      /\ Chain[1] = "FR0" /\ Chain[2] = "FR1" /\ Chain[3] = "FR2"
      /\ Chain[4] = "FR4" /\ Chain[5] = "FR5" /\ Chain[6] = "FR6"
  BY DEF Chain
<1>2. /\ 1..0 = {} /\ 1..1 = {1} /\ 1..2 = {1, 2} /\ 1..3 = {1, 2, 3} /\ 1..4 = {1, 2, 3, 4}
      /\ 1..5 = {1, 2, 3, 4, 5} /\ 1..6 = {1, 2, 3, 4, 5, 6}
  OBVIOUS
<1> QED BY <1>1, <1>2 DEF Order!Upto, Stages

LEMMA AppliedStages ==
    /\ "FR0" \in Applied <=> made["registry"] # None
    /\ "FR1" \in Applied <=> made["snapshot"] # None
    /\ "FR2" \in Applied <=> made["settlement"] # None
    /\ "FR4" \in Applied <=> settlement.locker # None
    /\ "FR5" \in Applied <=> made["payment"] # None
    /\ "FR6" \in Applied <=> made["adjustment"] # None
    /\ Applied \subseteq Stages
  BY EffectFacts DEF Applied, Stages

(* Whatever is applied is applied from the start of the chain on.           *)
LEMMA AppliedIsPrefix ==
    ASSUME Chained
    PROVE  \E n \in 0..6 : Applied = Order!Upto(n)
<1>1. \A s : s \in Applied => s \in {"FR0", "FR1", "FR2", "FR4", "FR5", "FR6"}
  BY AppliedStages DEF Stages
<1>2. /\ "FR1" \in Applied => "FR0" \in Applied
      /\ "FR2" \in Applied => "FR1" \in Applied
      /\ "FR4" \in Applied => "FR2" \in Applied
      /\ "FR5" \in Applied => "FR4" \in Applied
      /\ "FR6" \in Applied => "FR5" \in Applied
  BY AppliedStages DEF Chained
<1>3. CASE "FR6" \in Applied
  <2>1. Applied = Stages
    BY <1>1, <1>2, <1>3 DEF Stages
  <2> QED BY <2>1, ChainSteps
<1>4. CASE "FR6" \notin Applied /\ "FR5" \in Applied
  <2>1. Applied = {"FR0", "FR1", "FR2", "FR4", "FR5"}
    BY <1>1, <1>2, <1>4
  <2> QED BY <2>1, ChainSteps
<1>5. CASE "FR5" \notin Applied /\ "FR4" \in Applied
  <2>1. Applied = {"FR0", "FR1", "FR2", "FR4"}
    BY <1>1, <1>2, <1>5
  <2> QED BY <2>1, ChainSteps
<1>6. CASE "FR4" \notin Applied /\ "FR2" \in Applied
  <2>1. Applied = {"FR0", "FR1", "FR2"}
    BY <1>1, <1>2, <1>6
  <2> QED BY <2>1, ChainSteps
<1>7. CASE "FR2" \notin Applied /\ "FR1" \in Applied
  <2>1. Applied = {"FR0", "FR1"}
    BY <1>1, <1>2, <1>7
  <2> QED BY <2>1, ChainSteps
<1>8. CASE "FR1" \notin Applied /\ "FR0" \in Applied
  <2>1. Applied = {"FR0"}
    BY <1>1, <1>2, <1>8
  <2> QED BY <2>1, ChainSteps
<1>9. CASE "FR0" \notin Applied
  <2>1. Applied = {}
    BY <1>1, <1>2, <1>9
  <2> QED BY <2>1, ChainSteps
<1> QED BY <1>3, <1>4, <1>5, <1>6, <1>7, <1>8, <1>9

(* A step applies at most one stage and takes none back.                    *)
LEMMA AppliesOne ==
    ASSUME Inv, NEW r \in Runs, Step(r)
    PROVE  Applied' = Applied \/ \E s \in Stages \ Applied : Applied' = Applied \cup {s}
<1>1. CASE Still \/ \E kind \in {"intent", "result"} : WriteAudit(r, kind)
  <2>1. made' = made /\ settlement' = settlement
    BY <1>1 DEF Still, WriteAudit
  <2> QED BY <2>1 DEF Applied, Effect
<1>2. CASE WriteIdempotency(r)
  <2>1. /\ made' = [made EXCEPT ![stage[r]] = r] /\ settlement' = settlement
    BY <1>2, IdempotencyFacts
  <2>2. \A s \in Stages : made'[Effect(s)] = made[Effect(s)]
    BY <2>1, <1>2, IdempotencyFacts, EffectFacts, MoversTypes
  <2> QED BY <2>1, <2>2 DEF Applied, Effect
<1>3. CASE WriteEffect(r)
  <2>1. /\ stage[r] \in Stages \ {"FR4"} /\ Effect(stage[r]) \in Papers /\ r # None
        /\ made' = [made EXCEPT ![Effect(stage[r])] = r] /\ made[Effect(stage[r])] = None
        /\ settlement'.locker = settlement.locker /\ made \in [Papers -> Owners]
    BY <1>3, EffectMade, MoversTypes DEF Blank
  <2>2. \A s \in Stages \ {"FR4"} :
            made'[Effect(s)] # None <=> made[Effect(s)] # None \/ s = stage[r]
    BY <2>1, EffectFacts DEF Stages
  <2>3. \A s \in Stages : s \in Applied' <=> s \in Applied \/ s = stage[r]
    BY <2>1, <2>2 DEF Applied, Effect
  <2>4. Applied \subseteq Stages /\ Applied' \subseteq Stages
    BY DEF Applied
  <2>5. stage[r] \notin Applied
    BY <2>1 DEF Applied
  <2> QED BY <2>1, <2>3, <2>4, <2>5
<1>4. CASE UpdateSettlement(r)
  <2>1. made' = made /\ settlement'.locker # None
    BY <1>4, UpdateFacts, Names
  <2>2. \A s \in Stages : s \in Applied' <=> s \in Applied \/ s = "FR4"
    BY <2>1 DEF Applied, Effect
  <2>3. Applied \subseteq Stages /\ Applied' \subseteq Stages /\ "FR4" \in Stages
    BY DEF Applied, Stages
  <2>4. CASE "FR4" \in Applied
    BY <2>2, <2>3, <2>4
  <2>5. CASE "FR4" \notin Applied
    BY <2>2, <2>3, <2>5
  <2> QED BY <2>4, <2>5
<1> QED BY <1>1, <1>2, <1>3, <1>4, StoreKinds

LEMMA OneMore ==
    ASSUME NEW A, NEW B, NEW n \in 0..6, NEW m \in 0..6, NEW s, s \notin A,
           A = Order!Upto(n), B = Order!Upto(m), B = A \cup {s}
    PROVE  n \in 0..5 /\ m = n + 1
<1>1. \A j, k \in {1, 2, 3, 4, 5, 6} : Chain[j] = Chain[k] => j = k
  BY DEF Chain
<1>2. \A k \in 0..6 : \A j \in {1, 2, 3, 4, 5, 6} : Chain[j] \in Order!Upto(k) <=> j <= k
  <2> SUFFICES ASSUME NEW k \in 0..6, NEW j \in {1, 2, 3, 4, 5, 6}
               PROVE  Chain[j] \in Order!Upto(k) <=> j <= k
    OBVIOUS
  <2>1. \A i \in 1..k : i \in {1, 2, 3, 4, 5, 6} /\ i <= k
    OBVIOUS
  <2>2. Chain[j] \in Order!Upto(k) <=> \E i \in 1..k : Chain[i] = Chain[j]
    BY DEF Order!Upto
  <2> QED BY <1>1, <2>1, <2>2
<1>3. m > n
  <2> SUFFICES ASSUME m <= n PROVE FALSE
    OBVIOUS
  <2>1. \A i \in 1..m : i \in 1..n
    OBVIOUS
  <2>2. B \subseteq A
    BY <2>1 DEF Order!Upto
  <2> QED BY <2>2
<1>4. n + 1 \in {1, 2, 3, 4, 5, 6}
  BY <1>3
<1>5. Chain[n + 1] = s
  <2>1. n + 1 <= m /\ ~(n + 1 <= n)
    BY <1>3
  <2>2. Chain[n + 1] \in Order!Upto(m) /\ Chain[n + 1] \notin Order!Upto(n)
    BY ONLY <2>1, <1>2, <1>4, n \in 0..6, m \in 0..6
  <2> QED BY <2>2
<1>6. ASSUME m > n + 1 PROVE FALSE
  <2>1. n + 2 \in {1, 2, 3, 4, 5, 6}
    BY <1>6
  <2>2. Chain[n + 2] = s
    <3>1. n + 2 <= m /\ ~(n + 2 <= n)
      BY <1>6
    <3>2. Chain[n + 2] \in Order!Upto(m) /\ Chain[n + 2] \notin Order!Upto(n)
      BY ONLY <3>1, <1>2, <2>1, n \in 0..6, m \in 0..6
    <3> QED BY <3>2
  <2>3. n + 2 # n + 1
    OBVIOUS
  <2> QED BY <1>1, <1>4, <1>5, <2>1, <2>2, <2>3
<1> QED BY <1>3, <1>6

(* Through every overlap, lost answer and crash the stages take effect once *)
(* each and in their order: FinancePilots implements PilotChain.            *)
THEOREM StagesInOrder == Spec => InOrder
<1>1. Inv => \E n \in 0..6 : Applied = Order!Upto(n)
  BY AppliedIsPrefix DEF Inv
<1>2. Init => Order!Init
  BY <1>1, InitHolds, ChainSteps DEF Order!Init
<1>p. Inv' => (\E n \in 0..6 : Applied = Order!Upto(n))'
  BY <1>1, PTL
<1>3. Inv /\ Inv' /\ [Next]_vars => [Order!Next]_Applied
  <2> SUFFICES ASSUME Inv, Inv', [Next]_vars, Applied' # Applied PROVE Order!Next
    OBVIOUS
  <2>1. PICK r \in Runs : Step(r)
    <3>1. UNCHANGED vars => Applied' = Applied
      BY DEF vars, Applied, Effect
    <3> QED BY <3>1 DEF Next
  <2>2. PICK s \in Stages \ Applied : Applied' = Applied \cup {s}
    BY <2>1, AppliesOne
  <2>3. PICK n \in 0..6 : Applied = Order!Upto(n)
    BY <1>1
  <2>4. PICK m \in 0..6 : Applied' = Order!Upto(m)
    BY <1>p DEF Order!Upto
  <2>5. n \in 0..5 /\ m = n + 1
    BY <2>2, <2>3, <2>4, OneMore
  <2> QED BY <2>3, <2>4, <2>5, ChainSteps DEF Order!Next, Order!Apply
<1> QED BY <1>2, <1>3, InvHolds, PTL DEF Spec, InOrder, Order!Spec
=============================================================================
