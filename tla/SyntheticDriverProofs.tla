------------------------ MODULE SyntheticDriverProofs ------------------------
(***************************************************************************)
(* The two things the program does to its one synthetic driver: phases 5M  *)
(* and 5N pilot it and reconcile the metadata (first part), phase 5J made  *)
(* it (second part).  They share no state: each part proves its own        *)
(* specification, for any number of runs, cuts, faults and changes by hand.*)
(***************************************************************************)
EXTENDS DriverPilots, Provisioning, FiniteSetTheorems, TLAPS

-----------------------------------------------------------------------------
(* The pilot and its reconciliation.  The invariant says what a run knows   *)
(* at the place where it waits, whatever the others do.  What the stores    *)
(* hold only ever grows (Grows), so what a run knew stays true while others *)
(* move; each action has to show that it lets the stores grow and what its  *)
(* own run knows next.                                                      *)
Over == {"idle", "done", "cut"}
Final == key # None /\ key.result # None

(* A document with the update time a pilot has read is the one it has read, *)
(* unless it changed once more in that millisecond;                         *)
(* past its checks a pilot has stored what it must; it says "pass" with the *)
(* records to show for it; and after another's "pass" it gets nowhere.      *)
PilotKnows(m) ==
    /\ read[m].time <= doc.time
    /\ pc[m] # "idle" /\ read[m].time = doc.time => read[m] = doc \/ m \in misled
    /\ pc[m] \notin Over => Verified(read[m])
    /\ pc[m] \in {"write", "put", "result", "putAgain", "verify"} => m \in intents
    /\ pc[m] \in {"put", "result", "putAgain", "verify"} => m \in wrote
    /\ pc[m] \in {"result", "putAgain", "verify"} => key # None /\ key.intent = m
    /\ pc[m] \in {"putAgain", "verify"} => Applied(m) \in results
    /\ pc[m] = "verify" => Final
    /\ reply[m] = "pass" =>
          pc[m] = "done" /\ Final /\ key.intent = m /\ Applied(m) \in results
    /\ m \in after => Final /\ pc[m] \in {"lookup", "done", "cut"}

Writing == {"create", "recheck", "patch", "seeDriver", "seeKey", "seeResults"}

(* A key a reconcile run has seen does not change hands; the run writes     *)
(* under the key of the original pilot only.                                *)
RepairKnows(n) ==
    /\ seen[n].key # None => key # None /\ key.intent = seen[n].key.intent
    /\ pc[n] \in Writing => key # None /\ key.intent = Original
    /\ pc[n] \in Writing \ {"create"} => Repair \in results
    /\ pc[n] \in {"seeDriver", "seeKey", "seeResults"} => Final
    /\ reply[n] = "pass" =>
          pc[n] = "done" /\ Final /\ key.intent = Original /\ Repair \in results
    /\ n \in after =>
          /\ Final /\ pc[n] \in {"readIntent", "readKey", "plan", "done", "cut"}
          /\ pc[n] = "plan" => seen[n].key # None /\ seen[n].key.result # None

Inv ==
    /\ TypeOK /\ KeyNamesASuccess
    /\ \A m \in Pilots : PilotKnows(m)
    /\ \A n \in Reconcilers : RepairKnows(n)

Grows ==
    /\ doc'.time \in {doc.time, doc.time + 1} /\ misled \subseteq misled'
    /\ doc'.time = doc.time =>
          \/ doc' = doc
          \/ \A m \in Pilots : pc[m] # "idle" /\ read[m].time = doc.time => m \in misled'
    /\ intents \subseteq intents' /\ results \subseteq results' /\ wrote \subseteq wrote'
    /\ key # None => key' # None /\ key'.intent = key.intent
    /\ Final => Final'
    /\ KeyNamesASuccess'

OthersStay(r) ==
    \A q \in Runs \ {r} :
        /\ pc'[q] = pc[q] /\ reply'[q] = reply[q] /\ (q \in after' <=> q \in after)
        /\ q \in Pilots => read'[q] = read[q]
        /\ q \in Reconcilers => seen'[q] = seen[q]

-----------------------------------------------------------------------------

LEMMA Values ==
    /\ \A m \in Pilots : {Applied(m), Refused(m), Replayed(m)} \subseteq Results
    /\ Repair \in Results
    /\ \A x \in Results : x # None
    /\ \A m \in Pilots, x \in Results \cup {None}, t \in Nat :
          [intent |-> m, result |-> x, time |-> t] # None
    /\ Pilots \cap Reconcilers = {} /\ Original \in Pilots
  BY PilotAssumption DEF Results, Records

LEMMA InitHolds == Init => Inv
  BY Values DEF Init, Inv, TypeOK, PilotKnows, RepairKnows, KeyNamesASuccess, Final,
     Fresh, Nothing, Documents, Observations, States, PilotPlaces, RepairPlaces,
     Replies, Runs, Over, Writing, Verified

(* What a run knew stays true while the others let the stores grow.         *)
LEMMA PilotFrame ==
    ASSUME TypeOK, Grows, NEW q \in Pilots, PilotKnows(q), pc'[q] = pc[q],
           reply'[q] = reply[q], read'[q] = read[q], q \in after' <=> q \in after
    PROVE  PilotKnows(q)'
<1>1. doc.time \in Nat /\ read[q].time \in Nat
  BY DEF TypeOK, Documents
<1> QED BY <1>1 DEF Grows, PilotKnows, Final, Verified

LEMMA RepairFrame ==
    ASSUME Grows, NEW q \in Reconcilers, RepairKnows(q), pc'[q] = pc[q],
           reply'[q] = reply[q], seen'[q] = seen[q], q \in after' <=> q \in after
    PROVE  RepairKnows(q)'
  BY DEF Grows, RepairKnows, Final

(* "Pass" has been told: the key is final.                                  *)
LEMMA PassedIsFinal == Inv /\ Passed # {} => Final
  BY DEF Inv, Passed, Runs, PilotKnows, RepairKnows


LEMMA PilotMoves ==
    ASSUME Inv, NEW m \in Pilots, PilotStep(m)
    PROVE  Grows /\ OthersStay(m) /\ PilotKnows(m)'
<1> USE Values, PassedIsFinal DEF Inv, TypeOK, stores, Goto, Finish, Begins, Runs, Over, Writing, Final, OthersStay
<1>1. CASE Begin(m)
  <2>1. Grows
    BY <1>1 DEF Begin, Verified, Documents, Grows, KeyNamesASuccess, PilotKnows
  <2>2. OthersStay(m)
    BY <1>1 DEF Begin, Verified, Documents
  <2>3. PilotKnows(m)'
    BY <1>1 DEF Begin, Verified, Documents, PilotKnows
  <2> QED BY <2>1, <2>2, <2>3
<1>2. CASE Lookup(m)
  <2>1. Grows
    BY <1>2 DEF Lookup, Settled, Grows, KeyNamesASuccess, PilotKnows
  <2>2. OthersStay(m)
    BY <1>2 DEF Lookup, Settled
  <2>3. PilotKnows(m)'
    BY <1>2 DEF Lookup, Settled, PilotKnows
  <2> QED BY <2>1, <2>2, <2>3
<1>3. CASE Reread(m)
  <2>1. Grows
    BY <1>3 DEF Reread, Grows, KeyNamesASuccess, PilotKnows
  <2>2. OthersStay(m)
    BY <1>3 DEF Reread
  <2>3. PilotKnows(m)'
    BY <1>3 DEF Reread, PilotKnows
  <2> QED BY <2>1, <2>2, <2>3
<1>4. CASE Load(m)
  <2>1. Grows
    BY <1>4 DEF Load, Grows, KeyNamesASuccess, PilotKnows
  <2>2. OthersStay(m)
    BY <1>4 DEF Load
  <2>3. PilotKnows(m)'
    BY <1>4 DEF Load, PilotKnows
  <2> QED BY <2>1, <2>2, <2>3
<1>5. CASE Check(m)
  <2>1. Grows
    BY <1>5 DEF Check, Grows, KeyNamesASuccess, PilotKnows
  <2>2. OthersStay(m)
    BY <1>5 DEF Check
  <2>3. PilotKnows(m)'
    BY <1>5 DEF Check, PilotKnows
  <2> QED BY <2>1, <2>2, <2>3
<1>6. CASE ReplayIntent(m)
  <2>1. Grows
    BY <1>6 DEF ReplayIntent, StoreIntent, Grows, KeyNamesASuccess, PilotKnows
  <2>2. OthersStay(m)
    BY <1>6 DEF ReplayIntent, StoreIntent
  <2>3. PilotKnows(m)'
    BY <1>6 DEF ReplayIntent, StoreIntent, PilotKnows
  <2> QED BY <2>1, <2>2, <2>3
<1>7. CASE ReplayResult(m)
  <2>1. Grows
    BY <1>7 DEF ReplayResult, Grows, KeyNamesASuccess, PilotKnows
  <2>2. OthersStay(m)
    BY <1>7 DEF ReplayResult
  <2>3. PilotKnows(m)'
    BY <1>7 DEF ReplayResult, PilotKnows
  <2> QED BY <2>1, <2>2, <2>3
<1>8. CASE Intent(m)
  <2>1. Grows
    BY <1>8 DEF Intent, StoreIntent, Grows, KeyNamesASuccess, PilotKnows
  <2>2. OthersStay(m)
    BY <1>8 DEF Intent, StoreIntent
  <2>3. PilotKnows(m)'
    BY <1>8 DEF Intent, StoreIntent, PilotKnows
  <2> QED BY <2>1, <2>2, <2>3
<1>9. CASE Write(m)
  <2>1. Grows
    <3>1. doc.time \in Nat /\ doc \in Documents
      BY DEF Documents
    <3>2. CASE UNCHANGED <<stores, wrote, misled>>
      BY <3>1, <3>2 DEF Grows, KeyNamesASuccess
    <3>3. CASE Commit(m)
      <4>1. PICK t \in {doc.time, doc.time + 1} :
               /\ doc'.time = t
               /\ misled' = IF t > doc.time THEN misled
                    ELSE misled \cup {q \in Pilots : pc[q] # "idle" /\ read[q].time = t}
        BY <3>1, <3>3 DEF Commit, Stamps, Documents
      <4>2. /\ doc'.time \in {doc.time, doc.time + 1} /\ misled \subseteq misled'
            /\ doc'.time = doc.time =>
                  \A q \in Pilots : pc[q] # "idle" /\ read[q].time = doc.time => q \in misled'
        BY <3>1, <4>1
      <4> QED BY <3>3, <4>2 DEF Commit, Grows, KeyNamesASuccess
    <3> QED BY <1>9, <3>2, <3>3 DEF Write
  <2>2. OthersStay(m)
    BY <1>9 DEF Write, Commit
  <2>3. /\ doc.time \in Nat /\ (read[m].time = doc.time \/ pc'[m] = "refuse")
        /\ pc'[m] = "put" => m \in wrote' /\ pc'[m] \in {"put", "refuse"}
    BY <1>9 DEF Write, Commit, Stamps, Unchanged, Documents
  <2>4. PilotKnows(m)'
    BY <1>9, <2>1, <2>3 DEF Write, Grows, Documents, PilotKnows, Verified
  <2> QED BY <2>1, <2>2, <2>4
<1>10. CASE Put(m)
  <2>1. Grows
    BY <1>10 DEF Put, StoreKey, Documents, Grows, KeyNamesASuccess, PilotKnows
  <2>2. OthersStay(m)
    BY <1>10 DEF Put, StoreKey, Documents
  <2>3. PilotKnows(m)'
    BY <1>10 DEF Put, StoreKey, Documents, PilotKnows
  <2> QED BY <2>1, <2>2, <2>3
<1>11. CASE Result(m)
  <2>1. Grows
    BY <1>11 DEF Result, StoreResult, Grows, KeyNamesASuccess, PilotKnows
  <2>2. OthersStay(m)
    BY <1>11 DEF Result, StoreResult
  <2>3. PilotKnows(m)'
    BY <1>11 DEF Result, StoreResult, PilotKnows
  <2> QED BY <2>1, <2>2, <2>3
<1>12. CASE PutAgain(m)
  <2>1. Grows
    BY <1>12 DEF PutAgain, StoreKeyAgain, Documents, Grows, KeyNamesASuccess, PilotKnows
  <2>2. OthersStay(m)
    BY <1>12 DEF PutAgain, StoreKeyAgain, Documents
  <2>3. PilotKnows(m)'
    BY <1>12 DEF PutAgain, StoreKeyAgain, Documents, PilotKnows
  <2> QED BY <2>1, <2>2, <2>3
<1>13. CASE Refuse(m)
  <2>1. Grows
    BY <1>13 DEF Refuse, Grows, KeyNamesASuccess, PilotKnows
  <2>2. OthersStay(m)
    BY <1>13 DEF Refuse
  <2>3. PilotKnows(m)'
    BY <1>13 DEF Refuse, PilotKnows
  <2> QED BY <2>1, <2>2, <2>3
<1>14. CASE Verify(m)
  <2>1. Grows
    BY <1>14 DEF Verify, Grows, KeyNamesASuccess, PilotKnows
  <2>2. OthersStay(m)
    BY <1>14 DEF Verify
  <2>3. PilotKnows(m)'
    BY <1>14 DEF Verify, PilotKnows
  <2> QED BY <2>1, <2>2, <2>3
<1> QED BY <1>1, <1>2, <1>3, <1>4, <1>5, <1>6, <1>7, <1>8, <1>9, <1>10, <1>11, <1>12, <1>13, <1>14 DEF PilotStep

LEMMA RepairMoves ==
    ASSUME Inv, NEW n \in Reconcilers, RepairStep(n)
    PROVE  Grows /\ OthersStay(n) /\ RepairKnows(n)'
<1> USE Values, PassedIsFinal DEF Inv, TypeOK, stores, Goto, Finish, Begins, Runs, Over, Writing, Final, OthersStay
<1>1. CASE Inspect(n)
  <2>1. Grows
    BY <1>1 DEF Inspect, Notes, Grows, KeyNamesASuccess, RepairKnows
  <2>2. OthersStay(n)
    BY <1>1 DEF Inspect, Notes
  <2>3. RepairKnows(n)'
    BY <1>1 DEF Inspect, Notes, RepairKnows
  <2> QED BY <2>1, <2>2, <2>3
<1>2. CASE ReadIntent(n)
  <2>1. Grows
    BY <1>2 DEF ReadIntent, Notes, Grows, KeyNamesASuccess, RepairKnows
  <2>2. OthersStay(n)
    BY <1>2 DEF ReadIntent, Notes
  <2>3. RepairKnows(n)'
    BY <1>2 DEF ReadIntent, Notes, RepairKnows
  <2> QED BY <2>1, <2>2, <2>3
<1>3. CASE ReadKey(n)
  <2>1. Grows
    BY <1>3 DEF ReadKey, Notes, Observations, Grows, KeyNamesASuccess, RepairKnows
  <2>2. OthersStay(n)
    BY <1>3 DEF ReadKey, Notes, Observations
  <2>3. RepairKnows(n)'
    BY <1>3 DEF ReadKey, Notes, Observations, RepairKnows
  <2> QED BY <2>1, <2>2, <2>3
<1>4. CASE Plan(n)
  <2>1. Grows
    BY <1>4 DEF Plan, Conflicting, Unidentified, Complete, Nothing, Successes, Fetched, Grows, KeyNamesASuccess, RepairKnows
  <2>2. OthersStay(n)
    BY <1>4 DEF Plan, Conflicting, Unidentified, Complete, Nothing, Successes, Fetched
  <2>3. RepairKnows(n)'
    BY <1>4 DEF Plan, Conflicting, Unidentified, Complete, Nothing, Successes, Fetched, RepairKnows
  <2> QED BY <2>1, <2>2, <2>3
<1>5. CASE Create(n)
  <2>1. Grows
    BY <1>5 DEF Create, StoreRepair, Grows, KeyNamesASuccess, RepairKnows
  <2>2. OthersStay(n)
    BY <1>5 DEF Create, StoreRepair
  <2>3. RepairKnows(n)'
    BY <1>5 DEF Create, StoreRepair, RepairKnows
  <2> QED BY <2>1, <2>2, <2>3
<1>6. CASE Recheck(n)
  <2>1. Grows
    BY <1>6 DEF Recheck, Grows, KeyNamesASuccess, RepairKnows
  <2>2. OthersStay(n)
    BY <1>6 DEF Recheck
  <2>3. RepairKnows(n)'
    BY <1>6 DEF Recheck, RepairKnows
  <2> QED BY <2>1, <2>2, <2>3
<1>7. CASE Patch(n)
  <2>1. Grows
    BY <1>7 DEF Patch, StorePatch, Records, Grows, KeyNamesASuccess, RepairKnows
  <2>2. OthersStay(n)
    BY <1>7 DEF Patch, StorePatch, Records
  <2>3. RepairKnows(n)'
    BY <1>7 DEF Patch, StorePatch, Records, RepairKnows
  <2> QED BY <2>1, <2>2, <2>3
<1>8. CASE SeeDriver(n)
  <2>1. Grows
    BY <1>8 DEF SeeDriver, Notes, Grows, KeyNamesASuccess, RepairKnows
  <2>2. OthersStay(n)
    BY <1>8 DEF SeeDriver, Notes
  <2>3. RepairKnows(n)'
    BY <1>8 DEF SeeDriver, Notes, RepairKnows
  <2> QED BY <2>1, <2>2, <2>3
<1>9. CASE SeeKey(n)
  <2>1. Grows
    BY <1>9 DEF SeeKey, Notes, Grows, KeyNamesASuccess, RepairKnows
  <2>2. OthersStay(n)
    BY <1>9 DEF SeeKey, Notes
  <2>3. RepairKnows(n)'
    BY <1>9 DEF SeeKey, Notes, RepairKnows
  <2> QED BY <2>1, <2>2, <2>3
<1>10. CASE SeeResults(n)
  <2>1. Grows
    BY <1>10 DEF SeeResults, Reconciled, Nothing, Grows, KeyNamesASuccess, RepairKnows
  <2>2. OthersStay(n)
    BY <1>10 DEF SeeResults, Reconciled, Nothing
  <2>3. RepairKnows(n)'
    BY <1>10 DEF SeeResults, Reconciled, Nothing, RepairKnows
  <2> QED BY <2>1, <2>2, <2>3
<1> QED BY <1>1, <1>2, <1>3, <1>4, <1>5, <1>6, <1>7, <1>8, <1>9, <1>10 DEF RepairStep

LEMMA PlaceOfRun ==
    ASSUME Inv, NEW r \in Runs
    PROVE  \/ r \in Pilots /\ pc[r] \in PilotPlaces
           \/ r \in Reconcilers /\ pc[r] \in RepairPlaces
<1>1. /\ \A m \in Pilots : pc[m] \in PilotPlaces
      /\ \A n \in Reconcilers : pc[n] \in RepairPlaces
  BY DEF Inv, TypeOK
<1>2. r \in Pilots \/ r \in Reconcilers
  BY DEF Runs
<1> QED BY <1>1, <1>2

(* A call that fails or is cut off may have landed in the store.            *)
LEMMA LandsGrows ==
    ASSUME Inv, NEW r \in Runs, Lands(r)
    PROVE  Grows
<1>1. \/ r \in Pilots /\ pc[r] \in PilotPlaces
      \/ r \in Reconcilers /\ pc[r] \in RepairPlaces
  BY PlaceOfRun
<1> USE Values DEF Inv, TypeOK, stores, Runs, Final, Grows, KeyNamesASuccess
<1>2. CASE pc[r] \in {"intent", "replayIntent"} /\ StoreIntent(r)
  BY <1>1, <1>2 DEF StoreIntent, PilotPlaces, RepairPlaces
<1>3. CASE pc[r] = "write" /\ Unchanged(r, doc) /\ Commit(r)
  BY <1>1, <1>3 DEF Commit, Stamps, Documents, RepairPlaces
<1>4. CASE pc[r] = "put" /\ key = None /\ StoreKey(r)
  BY <1>1, <1>4 DEF StoreKey, RepairPlaces, PilotKnows, Documents
<1>5. CASE pc[r] = "result" /\ StoreResult(r)
  BY <1>1, <1>5 DEF StoreResult, RepairPlaces
<1>6. CASE pc[r] = "putAgain" /\ StoreKeyAgain(r)
  BY <1>1, <1>6 DEF StoreKeyAgain, RepairPlaces, PilotKnows, Documents
<1>7. CASE pc[r] = "create" /\ Repair \notin results /\ StoreRepair /\ UNCHANGED <<wrote, misled>>
  BY <1>1, <1>7 DEF StoreRepair
<1>8. CASE pc[r] = "patch" /\ StorePatch /\ UNCHANGED <<wrote, misled>>
  BY <1>1, <1>8 DEF StorePatch, PilotPlaces, RepairKnows, Records, Writing
<1> QED BY <1>2, <1>3, <1>4, <1>5, <1>6, <1>7, <1>8 DEF Lands

(* A run that failed or was cut off knows nothing more.                     *)
LEMMA FaultMoves ==
    ASSUME Inv, NEW r \in Runs, CallFails(r) \/ Cut(r)
    PROVE  /\ Grows /\ OthersStay(r)
           /\ r \in Pilots => PilotKnows(r)'
           /\ r \in Reconcilers => RepairKnows(r)'
<1> USE Values DEF Inv, TypeOK, stores, Goto, Finish, Runs, Final, Over, Writing
<1>1. Grows
  <2>1. CASE Lands(r)
    BY <2>1, LandsGrows
  <2>2. CASE UNCHANGED <<stores, wrote, misled>>
    BY <2>2 DEF Grows, KeyNamesASuccess
  <2> QED BY <2>1, <2>2 DEF CallFails, Cut
<1>2. OthersStay(r) /\ UNCHANGED <<read, seen, after>>
  BY DEF CallFails, Cut, OthersStay
<1>3. /\ pc'[r] \in {"refuse", "done", "cut"} /\ pc[r] \notin {"idle", "done", "cut"}
      /\ pc'[r] = "refuse" => pc[r] \in Caught
      /\ reply'[r] # "pass"
  BY DEF CallFails, Cut, Caught, Answered, PilotKnows, RepairKnows
<1>4. ASSUME r \in Pilots PROVE PilotKnows(r)'
  <2>1. doc.time \in Nat /\ read[r].time \in Nat
    BY <1>4 DEF Documents
  <2> QED BY <1>1, <1>2, <1>3, <1>4, <2>1 DEF Grows, PilotKnows, Verified, Caught
<1>5. ASSUME r \in Reconcilers PROVE RepairKnows(r)'
  <2>1. pc'[r] # "refuse"
    BY <1>3, <1>5 DEF Caught, RepairPlaces
  <2> QED BY <1>1, <1>2, <1>3, <1>5, <2>1 DEF Grows, RepairKnows
<1> QED BY <1>1, <1>2, <1>4, <1>5

LEMMA TouchMoves ==
    ASSUME Inv, Touch
    PROVE  Grows /\ UNCHANGED <<pc, read, seen, reply, after>>
  BY DEF Inv, TypeOK, Touch, Stamps, Documents, Grows, Final, KeyNamesASuccess

-----------------------------------------------------------------------------

LEMMA LandsTypes ==
    ASSUME Inv, NEW r \in Runs, Lands(r)
    PROVE  /\ doc' \in Documents /\ intents' \subseteq Pilots /\ results' \subseteq Results
           /\ key' \in Records \cup {None} /\ wrote' \subseteq Pilots
           /\ misled' \subseteq Pilots
<1>1. \/ r \in Pilots /\ pc[r] \in PilotPlaces
      \/ r \in Reconcilers /\ pc[r] \in RepairPlaces
  BY PlaceOfRun
<1> USE Values DEF Inv, TypeOK, Runs
<1>2. CASE pc[r] \in {"intent", "replayIntent"} /\ StoreIntent(r)
  BY <1>1, <1>2 DEF StoreIntent, RepairPlaces
<1>3. CASE pc[r] = "write" /\ Unchanged(r, doc) /\ Commit(r)
  <2>1. \E t \in {doc.time, doc.time + 1} :
           doc' = [state |-> "needs_changes", busy |-> doc.busy, time |-> t]
    BY <1>3 DEF Commit, Stamps, Documents
  <2> QED BY <1>1, <1>3, <2>1 DEF Commit, Stamps, Documents, States, RepairPlaces
<1>4. CASE pc[r] \in {"put", "putAgain"} /\ (StoreKey(r) \/ StoreKeyAgain(r))
  BY <1>1, <1>4 DEF StoreKey, StoreKeyAgain, Documents, Records, RepairPlaces
<1>5. CASE pc[r] = "result" /\ StoreResult(r)
  BY <1>1, <1>5 DEF StoreResult, RepairPlaces
<1>6. CASE pc[r] = "create" /\ StoreRepair /\ UNCHANGED <<wrote, misled>>
  BY <1>6 DEF StoreRepair
<1>7. CASE pc[r] = "patch" /\ StorePatch /\ UNCHANGED <<wrote, misled>>
  <2>1. key # None
    BY <1>1, <1>7 DEF RepairKnows, Writing, PilotPlaces
  <2>2. key' = [intent |-> key.intent, result |-> Repair, time |-> key.time]
    BY <1>7, <2>1 DEF StorePatch, Records
  <2> QED BY <1>7, <2>1, <2>2 DEF StorePatch, Records
<1> QED BY <1>2, <1>3, <1>4, <1>5, <1>6, <1>7 DEF Lands


LEMMA PilotTypes ==
    ASSUME Inv, NEW m \in Pilots, PilotStep(m)
    PROVE  TypeOK'
<1> USE Values DEF Inv, TypeOK, stores, Goto, Finish, Begins, Runs, PilotPlaces, RepairPlaces, Replies
<1>1. CASE Begin(m)
  BY <1>1 DEF Begin
<1>2. CASE Lookup(m)
  BY <1>2 DEF Lookup
<1>3. CASE Reread(m)
  BY <1>3 DEF Reread
<1>4. CASE Load(m)
  BY <1>4 DEF Load
<1>5. CASE Check(m)
  BY <1>5 DEF Check
<1>6. CASE ReplayIntent(m)
  BY <1>6 DEF ReplayIntent
<1>7. CASE ReplayResult(m)
  BY <1>7 DEF ReplayResult
<1>8. CASE Intent(m)
  BY <1>8 DEF Intent, StoreIntent
<1>9. CASE Write(m)
  <2>1. \/ doc' = doc
        \/ \E t \in {doc.time, doc.time + 1} :
              doc' = [state |-> "needs_changes", busy |-> doc.busy, time |-> t]
    BY <1>9 DEF Write, Commit, Stamps, Documents
  <2>2. doc' \in Documents
    BY <2>1 DEF Documents, States
  <2>3. misled' \subseteq Pilots
    BY <1>9 DEF Write, Commit, Stamps
  <2> QED BY <1>9, <2>2, <2>3 DEF Write, Commit
<1>10. CASE Put(m)
  BY <1>10 DEF Put, StoreKey, Documents, Records
<1>11. CASE Result(m)
  BY <1>11 DEF Result, StoreResult
<1>12. CASE PutAgain(m)
  BY <1>12 DEF PutAgain, StoreKeyAgain, Documents, Records
<1>13. CASE Refuse(m)
  BY <1>13 DEF Refuse
<1>14. CASE Verify(m)
  BY <1>14 DEF Verify
<1> QED BY <1>1, <1>2, <1>3, <1>4, <1>5, <1>6, <1>7, <1>8, <1>9, <1>10, <1>11, <1>12, <1>13, <1>14 DEF PilotStep

LEMMA RepairTypes ==
    ASSUME Inv, NEW n \in Reconcilers, RepairStep(n)
    PROVE  TypeOK'
<1> USE Values DEF Inv, TypeOK, stores, Goto, Finish, Begins, Runs, PilotPlaces, RepairPlaces, Replies
<1>1. CASE Inspect(n)
  <2>1. seen[n] \in Observations /\ doc.state \in States
    BY DEF Documents
  <2>2. [seen[n] EXCEPT !.driver = doc.state] \in Observations
    BY <2>1 DEF Observations
  <2> QED BY <1>1, <2>2 DEF Inspect, Notes
<1>2. CASE ReadIntent(n)
  <2>1. seen[n] \in Observations /\ (Original \in intents) \in BOOLEAN
    BY DEF Documents
  <2>2. [seen[n] EXCEPT !.intent = Original \in intents] \in Observations
    BY <2>1 DEF Observations
  <2> QED BY <1>2, <2>2 DEF ReadIntent, Notes
<1>3. CASE ReadKey(n)
  BY <1>3 DEF ReadKey, Notes, Observations
<1>4. CASE Plan(n)
  BY <1>4 DEF Plan, Nothing, Observations, States
<1>5. CASE Create(n)
  BY <1>5 DEF Create, StoreRepair
<1>6. CASE Recheck(n)
  BY <1>6 DEF Recheck
<1>7. CASE Patch(n)
  BY <1>7 DEF Patch, StorePatch, Records, RepairKnows, Writing
<1>8. CASE SeeDriver(n)
  <2>1. seen[n] \in Observations /\ doc.state \in States
    BY DEF Documents
  <2>2. [seen[n] EXCEPT !.driver = doc.state] \in Observations
    BY <2>1 DEF Observations
  <2> QED BY <1>8, <2>2 DEF SeeDriver, Notes
<1>9. CASE SeeKey(n)
  BY <1>9 DEF SeeKey, Notes, Observations
<1>10. CASE SeeResults(n)
  BY <1>10 DEF SeeResults, Nothing, Observations, States
<1> QED BY <1>1, <1>2, <1>3, <1>4, <1>5, <1>6, <1>7, <1>8, <1>9, <1>10 DEF RepairStep

LEMMA OtherTypes ==
    ASSUME Inv, Touch \/ \E r \in Runs : CallFails(r) \/ Cut(r)
    PROVE  TypeOK'
<1>1. ASSUME NEW r \in Runs, CallFails(r) \/ Cut(r) PROVE TypeOK'
  <2>1. /\ doc' \in Documents /\ intents' \subseteq Pilots /\ results' \subseteq Results
        /\ key' \in Records \cup {None} /\ wrote' \subseteq Pilots
        /\ misled' \subseteq Pilots
    <3>1. CASE Lands(r)
      BY <3>1, LandsTypes
    <3>2. CASE UNCHANGED <<stores, wrote, misled>>
      BY <3>2 DEF Inv, TypeOK, stores
    <3> QED BY <1>1, <3>1, <3>2 DEF CallFails, Cut
  <2>2. used' \in [cut : Nat, fault : Nat, touch : Nat]
    BY <1>1 DEF CallFails, Cut, Inv, TypeOK
  <2>3. /\ pc' \in [Runs -> PilotPlaces \cup RepairPlaces] /\ reply' \in [Runs -> Replies]
        /\ \A m \in Pilots : pc'[m] \in PilotPlaces
        /\ \A n \in Reconcilers : pc'[n] \in RepairPlaces
    BY <1>1, Values DEF CallFails, Cut, Caught, Goto, Finish, Inv, TypeOK, Runs, PilotPlaces,
       RepairPlaces, Replies
  <2> QED BY <1>1, <2>1, <2>2, <2>3 DEF CallFails, Cut, Inv, TypeOK
<1>2. CASE Touch
  BY <1>2 DEF Touch, Stamps, Inv, TypeOK, Documents
<1> QED BY <1>1, <1>2

LEMMA InvKept == Inv /\ [Next]_vars => Inv'
<1> SUFFICES ASSUME Inv, [Next]_vars PROVE Inv'
  OBVIOUS
<1>1. ASSUME NEW r \in Runs, Grows, OthersStay(r), TypeOK',
             r \in Pilots => PilotKnows(r)', r \in Reconcilers => RepairKnows(r)'
      PROVE  Inv'
  <2>1. \A q \in Pilots : PilotKnows(q)'
    BY <1>1, PilotFrame DEF OthersStay, Inv, Runs
  <2>2. \A q \in Reconcilers : RepairKnows(q)'
    BY <1>1, RepairFrame DEF OthersStay, Inv, Runs
  <2> QED BY <1>1, <2>1, <2>2 DEF Inv, Grows
<1>2. ASSUME NEW m \in Pilots, PilotStep(m) PROVE Inv'
  BY <1>1, <1>2, PilotMoves, PilotTypes, Values DEF Runs
<1>3. ASSUME NEW n \in Reconcilers, RepairStep(n) PROVE Inv'
  BY <1>1, <1>3, RepairMoves, RepairTypes, Values DEF Runs
<1>4. ASSUME NEW r \in Runs, CallFails(r) \/ Cut(r) PROVE Inv'
  BY <1>1, <1>4, FaultMoves, OtherTypes
<1>5. CASE Touch
  <2>1. Grows /\ TypeOK' /\ UNCHANGED <<pc, read, seen, reply, after>>
    BY <1>5, TouchMoves, OtherTypes
  <2> QED BY <2>1, PilotFrame, RepairFrame DEF Inv, Grows
<1>6. CASE UNCHANGED vars
  BY <1>6 DEF vars, stores, Inv, TypeOK, KeyNamesASuccess, PilotKnows, RepairKnows, Final, Verified
<1> QED BY <1>2, <1>3, <1>4, <1>5, <1>6 DEF Next

THEOREM InvHolds == Spec => []Inv
  BY InitHolds, InvKept, PTL DEF Spec

-----------------------------------------------------------------------------

(* Only its own steps and faults move a run.                                *)
LEMMA StepOf ==
    ASSUME Inv, [Next]_vars, NEW r \in Runs, pc'[r] # pc[r]
    PROVE  /\ r \in Pilots => PilotStep(r) \/ CallFails(r) \/ Cut(r)
           /\ r \in Reconcilers => RepairStep(r) \/ CallFails(r) \/ Cut(r)
<1>1. ASSUME NEW m \in Pilots, PilotStep(m) PROVE r = m
  BY <1>1, PilotMoves DEF OthersStay
<1>2. ASSUME NEW n \in Reconcilers, RepairStep(n) PROVE r = n
  BY <1>2, RepairMoves DEF OthersStay
<1>3. ASSUME NEW q \in Runs, CallFails(q) \/ Cut(q) PROVE r = q
  BY <1>3, FaultMoves DEF OthersStay
<1>4. pc' # pc
  OBVIOUS
<1> QED BY <1>1, <1>2, <1>3, <1>4, Values DEF Next, Touch, vars

\* The type invariant of the pilot and the reconcile run.
THEOREM TypesHold == Spec => []TypeOK
<1>1. Inv => TypeOK
  BY DEF Inv
<1> QED BY <1>1, InvHolds, PTL

\* The idempotency document never names a result that is not stored or that is
\* another operation's, wherever runs are cut and however they overlap.
THEOREM KeyIsTrue == Spec => []KeyNamesASuccess
<1>1. Inv => KeyNamesASuccess
  BY DEF Inv
<1> QED BY <1>1, InvHolds, PTL

\* An operator is told "pass" on the strength of the records; no two pilots are.
THEOREM PassIsTrue == Spec => []PassTellsTheTruth
<1>1. Inv => PassTellsTheTruth
  BY Values DEF Inv, PassTellsTheTruth, Passed, Runs, PilotKnows, RepairKnows, Final
<1> QED BY <1>1, InvHolds, PTL

\* The transaction moves the very document that was verified, not on a trip,
\* unless that document changed again within its millisecond.
THEOREM WritesTheVerified == Spec => WritesWhatItVerified
<1>1. ASSUME Inv, [Next]_vars, NEW m \in Pilots, m \in wrote' \ wrote
      PROVE  m \in misled \/ (~doc.busy /\ doc = read[m] /\ doc'.busy = read[m].busy)
  <2>1. ASSUME NEW q \in Pilots, PilotStep(q), ~Write(q) PROVE UNCHANGED wrote
    BY <2>1 DEF PilotStep, Begin, Lookup, Reread, Load, Check, ReplayIntent, ReplayResult,
       Intent, StoreIntent, Put, StoreKey, Result, StoreResult, PutAgain, StoreKeyAgain,
       Refuse, Verify
  <2>2. ASSUME NEW n \in Reconcilers, RepairStep(n) PROVE UNCHANGED wrote
    BY <2>2 DEF RepairStep, Inspect, ReadIntent, ReadKey, Plan, Create, Recheck, Patch,
       SeeDriver, SeeKey, SeeResults
  <2>3. ASSUME NEW r \in Runs, Lands(r), ~(pc[r] = "write" /\ Unchanged(r, doc) /\ Commit(r))
        PROVE  UNCHANGED wrote
    BY <2>3 DEF Lands, StoreIntent, StoreKey, StoreResult, StoreKeyAgain
  <2>4. PICK r \in Runs : pc[r] = "write" /\ Unchanged(r, doc) /\ Commit(r)
    <3>1. CASE \E q \in Pilots : PilotStep(q)
      BY <3>1, <2>1, <1>1 DEF Write, Runs
    <3>2. CASE \E r \in Runs : CallFails(r) \/ Cut(r)
      BY <3>2, <2>3, <1>1 DEF CallFails, Cut
    <3> QED BY <1>1, <2>2, <3>1, <3>2 DEF Next, Touch, vars
  <2>5. pc[m] = "write" /\ Unchanged(m, doc) /\ Commit(m)
    BY <1>1, <2>4 DEF Commit
  <2> QED BY <1>1, <2>5 DEF Inv, PilotKnows, Unchanged, Commit, Stamps, Verified, Over, TypeOK, Documents
<1>2. Inv /\ [Next]_vars =>
          [\A m \in Pilots : m \in wrote' \ wrote =>
              \/ m \in misled
              \/ /\ ~doc.busy /\ doc = read[m]
                 /\ doc'.busy = read[m].busy]_vars
  BY <1>1
<1> QED BY <1>2, InvHolds, PTL DEF Spec, WritesWhatItVerified

\* Nothing that begins after a "pass" writes, though the driver be put back and
\* other runs be still under way.
THEOREM NothingAfterPass == Spec => PassIsFinal
<1>1. ASSUME Inv, [Next]_vars, NEW r \in after, pc'[r] # pc[r]
      PROVE  UNCHANGED stores
  <2>1. r \in Runs
    BY <1>1 DEF Inv, TypeOK
  <2>2. CASE r \in Pilots
    <3>1. pc[r] \in {"lookup", "done", "cut"}
      BY <1>1, <2>2 DEF Inv, PilotKnows
    <3>2. ASSUME PilotStep(r) PROVE UNCHANGED stores
      BY <3>1, <3>2 DEF PilotStep, Begin, Lookup, Reread, Load, Check, ReplayIntent,
         ReplayResult, Intent, Write, Put, Result, PutAgain, Refuse, Verify
    <3>3. ASSUME CallFails(r) \/ Cut(r) PROVE UNCHANGED stores
      BY <3>1, <3>3 DEF CallFails, Cut, Lands, stores
    <3> QED BY <1>1, <2>1, <2>2, <3>2, <3>3, StepOf
  <2>3. CASE r \in Reconcilers
    <3>1. pc[r] \in {"readIntent", "readKey", "plan", "done", "cut"}
      BY <1>1, <2>3 DEF Inv, RepairKnows
    <3>2. ASSUME RepairStep(r) PROVE UNCHANGED stores
      BY <3>1, <3>2 DEF RepairStep, Inspect, ReadIntent, ReadKey, Plan, Create, Recheck,
         Patch, SeeDriver, SeeKey, SeeResults
    <3>3. ASSUME CallFails(r) \/ Cut(r) PROVE UNCHANGED stores
      BY <3>1, <3>3 DEF CallFails, Cut, Lands, stores
    <3> QED BY <1>1, <2>1, <2>3, <3>2, <3>3, StepOf
  <2> QED BY <2>1, <2>2, <2>3 DEF Runs
<1>2. Inv /\ [Next]_vars => [\A r \in after : pc'[r] # pc[r] => UNCHANGED stores]_vars
  BY <1>1
<1> QED BY <1>2, InvHolds, PTL DEF Spec, PassIsFinal

-----------------------------------------------------------------------------
(* The provisioning.  What a run knows of its uid, and what registry, Auth  *)
(* and documents have to do with one another, is true whatever happens; the *)
(* two promises hold as long as none of the mishaps occurs that the code    *)
(* does not guard against, so their invariants are conditional on that.     *)
(* A run past the creation holds a uid; it says "ready" only at its end.   *)
Holding == {"created", "getUser", "exists", "createDoc", "docMade", "poll", "canonical"}
RunKnows(r) ==
    /\ stage[r] \in Holding => uidOf[r] # NoUid
    /\ stage[r] = "create" => uidOf[r] = NoUid
    /\ told[r] = "ready" => stage[r] \in {"audit", "done", "cut"} /\ uidOf[r] # NoUid

FixtureBase ==
    /\ FixtureTypeOK
    /\ reg.uid \in accounts \cup {NoUid}
    /\ \A r \in Attempts : RunKnows(r)

(* While nobody touches a fixture, documents and claims only get better,   *)
(* and a run that has seen the right claims can rely on them.              *)
FixtureGood(u) == docs[u] = "fixture" /\ claims[u] = "expected"
Untouched == "touched" \notin mishaps =>
    /\ \A u \in Uids : docs[u] # "changed" /\ claims[u] # "unexpected"
    /\ \A u \in Uids : claims[u] = "expected" => docs[u] = "fixture"
    /\ \A r \in Attempts : stage[r] = "canonical" \/ told[r] = "ready" => FixtureGood(uidOf[r])
    /\ reg.status = "pilot_ready" => reg.uid # NoUid /\ FixtureGood(reg.uid)

(* While runs take turns, none is cut before its account is on record and  *)
(* the file stays whole, there is one account, and whoever might create    *)
(* another would know of it.                                               *)
Undisturbed == mishaps \cap {"cut after create", "torn file", "overlap"} = {}
Naming == {"created", "createFailed"}
Alone == Undisturbed =>
    /\ \A r, s \in Attempts : Active(r) /\ Active(s) => r = s
    /\ \A a, b \in accounts : a = b
    /\ accounts # {} => reg # Planned \/ \E r \in Attempts : stage[r] \in Naming
    /\ \A r \in Attempts :
          stage[r] \in {"intent", "geography", "create"} /\ uidOf[r] = NoUid => accounts = {}

FixtureInv == FixtureBase /\ Untouched /\ Alone

(* An empty registry, an empty project.                                    *)
LEMMA FixtureInitHolds == FixtureInit => FixtureInv
<1> SUFFICES ASSUME FixtureInit PROVE FixtureInv
  OBVIOUS
<1>1. FixtureBase
  BY ProvisioningAssumption
     DEF FixtureInit, FixtureBase, FixtureTypeOK, RunKnows, Planned, FixtureStatus, Places, Holding
<1>2. Untouched
  BY DEF FixtureInit, Untouched, Planned
<1>3. Alone
  BY DEF FixtureInit, Alone, Active
<1> QED BY <1>1, <1>2, <1>3 DEF FixtureInv

(* The steps of the specification, one by one.                             *)
LEMMA FixtureCases ==
    ASSUME FixtureNext
    PROVE  \/ \E r \in Attempts :
                 \/ Gated(r) \/ LoadRegistry(r) \/ AuditIntent(r) \/ CheckGeography(r)
                 \/ CreateAccount(r) \/ NameAccount(r) \/ CreationFailed(r) \/ CheckAccount(r)
                 \/ DocExists(r) \/ CreateDoc(r) \/ DocMade(r) \/ PollClaims(r)
                 \/ VerifyFixture(r) \/ AuditResult(r) \/ Crash(r)
           \/ \E u \in Uids : SyncClaims(u) \/ TouchFixture(u)
BY DEF FixtureNext, Step

RunAction(r) == Step(r) \/ Gated(r) \/ Crash(r)
Words == {"none", "refused", "failed", "ready"}
Turns(r) ==
    /\ \E p \in Places : stage' = [stage EXCEPT ![r] = p]
    /\ \E w \in Words : told' = [told EXCEPT ![r] = w]
    /\ \E u \in accounts' \cup {NoUid} : uidOf' = [uidOf EXCEPT ![r] = u]

(* A step of a run moves that run to a place, with a word and a uid ...     *)
LEMMA RunTurns ==
    ASSUME FixtureBase, NEW r \in Attempts, RunAction(r)
    PROVE  Turns(r)
<1>1. \E p \in Places : stage' = [stage EXCEPT ![r] = p]
  <2>1. /\ stage = [stage EXCEPT ![r] = stage[r]] /\ stage[r] \in Places
    BY DEF FixtureBase, FixtureTypeOK
  <2>2. CASE Gated(r) \/ LoadRegistry(r) \/ AuditIntent(r) \/ CheckGeography(r)
    BY <2>2 DEF Gated, LoadRegistry, AuditIntent, CheckGeography, MoveTo, Places
  <2>3. CASE CreateAccount(r) \/ NameAccount(r) \/ CreationFailed(r) \/ CheckAccount(r)
    BY <2>3 DEF CreateAccount, NameAccount, CreationFailed, CheckAccount, Advance, Fail, MoveTo, Places
  <2>4. CASE DocExists(r) \/ CreateDoc(r) \/ DocMade(r) \/ VerifyFixture(r)
    BY <2>4 DEF DocExists, CreateDoc, DocMade, VerifyFixture, Advance, Fail, MoveTo, Places
  <2>5. CASE PollClaims(r)
    <3>1. \/ stage' = [stage EXCEPT ![r] = "canonical"] \/ stage' = [stage EXCEPT ![r] = "audit"]
          \/ stage' = stage
      BY <2>5 DEF PollClaims, Again, Advance, Fail, MoveTo
    <3> QED BY <3>1, <2>1 DEF Places
  <2>6. CASE AuditResult(r) \/ Crash(r)
    BY <2>6 DEF AuditResult, Crash, MoveTo, Places
  <2> QED BY <2>2, <2>3, <2>4, <2>5, <2>6 DEF RunAction, Step
<1>2. \E w \in Words : told' = [told EXCEPT ![r] = w]
  <2>1. told = [told EXCEPT ![r] = told[r]] /\ told[r] \in Words
    BY DEF FixtureBase, FixtureTypeOK, Words
  <2>2. \/ told' = told \/ told' = [told EXCEPT ![r] = "refused"]
        \/ told' = [told EXCEPT ![r] = "failed"] \/ told' = [told EXCEPT ![r] = "ready"]
    BY DEF RunAction, Step, Gated, LoadRegistry, AuditIntent, CheckGeography, CreateAccount,
           NameAccount, CreationFailed, CheckAccount, DocExists, CreateDoc, DocMade, PollClaims,
           VerifyFixture, AuditResult, Crash, Again, Advance, Fail, Say
  <2> QED BY <2>1, <2>2 DEF Words
<1>3. \E u \in accounts' \cup {NoUid} : uidOf' = [uidOf EXCEPT ![r] = u]
  <2>1. /\ uidOf = [uidOf EXCEPT ![r] = uidOf[r]] /\ uidOf[r] \in accounts \cup {NoUid}
    BY DEF FixtureBase, FixtureTypeOK
  <2>2. CASE LoadRegistry(r)
    BY <2>2 DEF LoadRegistry, FixtureBase, world
  <2>3. CASE CreateAccount(r)
    BY <2>1, <2>3 DEF CreateAccount
  <2>4. CASE ~LoadRegistry(r) /\ ~CreateAccount(r)
    <3>1. uidOf' = uidOf /\ accounts' = accounts
      BY <2>4 DEF RunAction, Step, Gated, AuditIntent, CheckGeography,
           NameAccount, CreationFailed, CheckAccount, DocExists, CreateDoc, DocMade, PollClaims,
           VerifyFixture, AuditResult, Crash, world
    <3> QED BY <3>1, <2>1
  <2> QED BY <2>2, <2>3, <2>4
<1> QED BY <1>1, <1>2, <1>3 DEF Turns

(* ... and no other run.                                                   *)
LEMMA OthersStand ==
    ASSUME FixtureBase, NEW r \in Attempts, Turns(r)
    PROVE  /\ stage' \in [Attempts -> Places] /\ told' \in [Attempts -> Words]
           /\ \A q \in Attempts \ {r} :
                 stage'[q] = stage[q] /\ told'[q] = told[q] /\ uidOf'[q] = uidOf[q]
<1>1. /\ stage \in [Attempts -> Places] /\ told \in [Attempts -> Words]
      /\ uidOf \in [Attempts -> accounts \cup {NoUid}]
  BY DEF FixtureBase, FixtureTypeOK, Words
<1>2. PICK p \in Places : stage' = [stage EXCEPT ![r] = p]
  BY DEF Turns
<1>3. PICK w \in Words : told' = [told EXCEPT ![r] = w]
  BY DEF Turns
<1>4. PICK u \in accounts' \cup {NoUid} : uidOf' = [uidOf EXCEPT ![r] = u]
  BY DEF Turns
<1> QED BY <1>1, <1>2, <1>3, <1>4

Saves(r, st) == Persist(st, uidOf[r]) /\ accounts' = accounts

(* The registry file is planned anew only by a torn write; "pilot_ready" is *)
(* entered only for a document that has been verified.                     *)
LEMMA FileChanges ==
    ASSUME NEW r \in Attempts, RunAction(r)
    PROVE  \/ reg' = reg
           \/ reg' = Planned /\ Crash(r) /\ mishaps' = mishaps \cup {"torn file"}
           \/ \E st \in FixtureStatus \ {"planned"} :
                 Saves(r, st) /\ (st = "pilot_ready" => VerifyFixture(r) /\ Canonical(uidOf[r]))
<1>1. \/ reg' = reg
      \/ reg' = Planned /\ Crash(r) /\ mishaps' = mishaps \cup {"torn file"}
      \/ Saves(r, "auth_created") \/ Saves(r, "firestore_created") \/ Saves(r, "claims_verified")
      \/ Saves(r, "failed_partial") \/ Saves(r, "failed_partial_auth_only")
      \/ Saves(r, "failed_partial_claims") \/ Saves(r, "failed_partial_canonical")
      \/ Saves(r, "pilot_ready") /\ VerifyFixture(r) /\ Canonical(uidOf[r])
  BY DEF RunAction, Step, Gated, LoadRegistry, AuditIntent, CheckGeography, CreateAccount,
         NameAccount, CreationFailed, CheckAccount, DocExists, CreateDoc, DocMade, PollClaims,
         VerifyFixture, AuditResult, Crash, Again, Advance, Fail, Saves, world
<1>2. {"auth_created", "firestore_created", "claims_verified", "failed_partial", "pilot_ready",
       "failed_partial_auth_only", "failed_partial_claims", "failed_partial_canonical"}
         \subseteq FixtureStatus \ {"planned"}
  BY DEF FixtureStatus, PartialFailures, Provisioned
<1> QED BY <1>1, <1>2

(* Accounts are made by CreateAccount, one at a time, and never removed.   *)
LEMMA AccountChanges ==
    ASSUME NEW r \in Attempts, RunAction(r)
    PROVE  \/ accounts' = accounts
           \/ \E u \in Uids \ accounts : accounts' = accounts \cup {u} /\ CreateAccount(r)
BY DEF RunAction, Step, Gated, LoadRegistry, AuditIntent, CheckGeography, CreateAccount,
       NameAccount, CreationFailed, CheckAccount, DocExists, CreateDoc, DocMade, PollClaims,
       VerifyFixture, AuditResult, Crash, world

(* The bounds are kept, and so is the number of reads of the claims.       *)
LEMMA CountersKept ==
    ASSUME FixtureBase, FixtureNext
    PROVE  /\ spent' \in [crash : 0..MaxCrashes, fault : 0..MaxPortFaults, touch : 0..MaxFixtureTouches]
           /\ polls' \in [Attempts -> 0..MaxPolls - 1]
<1>1. spent' \in [crash : 0..MaxCrashes, fault : 0..MaxPortFaults, touch : 0..MaxFixtureTouches]
  <2>1. \/ spent' = spent \/ Faulty
        \/ spent.crash < MaxCrashes /\ spent' = [spent EXCEPT !.crash = @ + 1]
        \/ spent.touch < MaxFixtureTouches /\ spent' = [spent EXCEPT !.touch = @ + 1]
    <3>1. CASE \E u \in Uids : SyncClaims(u) \/ TouchFixture(u)
      BY <3>1 DEF SyncClaims, TouchFixture
    <3>2. CASE \E r \in Attempts : Step(r) \/ Gated(r) \/ Crash(r)
      BY <3>2 DEF Step, Gated, LoadRegistry, AuditIntent, CheckGeography, CreateAccount,
           NameAccount, CreationFailed, CheckAccount, DocExists, CreateDoc, DocMade, PollClaims,
           VerifyFixture, AuditResult, Crash
    <3> QED BY <3>1, <3>2 DEF FixtureNext
  <2>2. /\ spent \in [crash : 0..MaxCrashes, fault : 0..MaxPortFaults, touch : 0..MaxFixtureTouches]
        /\ MaxCrashes \in Nat /\ MaxPortFaults \in Nat /\ MaxFixtureTouches \in Nat
    BY ProvisioningAssumption DEF FixtureBase, FixtureTypeOK
  <2> QED BY <2>1, <2>2 DEF Faulty
<1>2. polls' \in [Attempts -> 0..MaxPolls - 1]
  <2>1. \/ polls' = polls
        \/ \E r \in Attempts : polls[r] + 1 < MaxPolls /\ polls' = [polls EXCEPT ![r] = @ + 1]
    <3>1. CASE \E u \in Uids : SyncClaims(u) \/ TouchFixture(u)
      BY <3>1 DEF SyncClaims, TouchFixture
    <3>2. CASE \E r \in Attempts : Step(r) \/ Gated(r) \/ Crash(r)
      BY <3>2 DEF Step, Gated, LoadRegistry, AuditIntent, CheckGeography, CreateAccount,
           NameAccount, CreationFailed, CheckAccount, DocExists, CreateDoc, DocMade, PollClaims,
           VerifyFixture, AuditResult, Crash, Again
    <3> QED BY <3>1, <3>2 DEF FixtureNext
  <2>2. polls \in [Attempts -> 0..MaxPolls - 1] /\ MaxPolls \in Nat
    BY ProvisioningAssumption DEF FixtureBase, FixtureTypeOK
  <2> QED BY <2>1, <2>2
<1> QED BY <1>1, <1>2

(* What a step may do to documents and claims.                             *)
LEMMA FixtureChanges ==
    ASSUME FixtureBase, FixtureNext
    PROVE  /\ docs' \in [Uids -> {"absent", "fixture", "changed"}]
           /\ claims' \in [Uids -> {"none", "expected", "unexpected"}]
           /\ \A u \in Uids : docs'[u] # "absent" => u \in accounts'
           /\ "touched" \notin mishaps' => \A u \in Uids :
                 docs'[u] = docs[u] \/ (docs[u] = "absent" /\ docs'[u] = "fixture")
           /\ \A u \in Uids : claims'[u] = claims[u] \/ claims'[u] = Derived(u)
<1> USE DEF FixtureBase, FixtureTypeOK
<1>1. CASE \E r \in Attempts : CreateDoc(r)
  <2>1. PICK r \in Attempts : CreateDoc(r)
    BY <1>1
  <2>2. uidOf[r] \in Uids /\ uidOf[r] \in accounts
    BY <2>1 DEF CreateDoc, RunKnows, Holding
  <2>3. \/ docs' = docs
        \/ docs[uidOf[r]] = "absent" /\ docs' = [docs EXCEPT ![uidOf[r]] = "fixture"]
    <3> DEFINE u == uidOf[r]
    <3>1. \/ docs' = docs \/ (docs[u] = "absent" /\ docs' = [docs EXCEPT ![u] = "fixture"])
          \/ docs' = [docs EXCEPT ![u] = IF docs[u] = "absent" THEN "fixture" ELSE docs[u]]
      BY <2>1 DEF CreateDoc
    <3>2. [docs EXCEPT ![u] = docs[u]] = docs
      BY <2>2
    <3> HIDE DEF u
    <3>3. docs[u] = "absent" => docs' = docs \/ docs' = [docs EXCEPT ![u] = "fixture"]
      BY <3>1
    <3>4. docs[u] # "absent" => docs' = docs
      BY <3>1, <3>2
    <3>5. docs' = docs \/ (docs[u] = "absent" /\ docs' = [docs EXCEPT ![u] = "fixture"])
      BY <3>3, <3>4
    <3> QED BY <3>5 DEF u
  <2>4. UNCHANGED <<accounts, claims>>
    BY <2>1 DEF CreateDoc
  <2> QED BY <2>2, <2>3, <2>4
<1>2. CASE \E u \in Uids : SyncClaims(u)
  BY <1>2 DEF SyncClaims, Derived
<1>3. CASE \E u \in Uids : TouchFixture(u)
  <2>1. PICK u \in Uids : TouchFixture(u)
    BY <1>3
  <2>2. /\ u \in accounts /\ UNCHANGED <<accounts, claims>> /\ "touched" \in mishaps'
        /\ docs' = docs \/ \E t \in {"absent", "changed"} : docs' = [docs EXCEPT ![u] = t]
    BY <2>1 DEF TouchFixture
  <2>3. /\ docs \in [Uids -> {"absent", "fixture", "changed"}]
        /\ \A v \in Uids : docs[v] # "absent" => v \in accounts
        /\ claims \in [Uids -> {"none", "expected", "unexpected"}]
    OBVIOUS
  <2>4. CASE docs' = docs
    BY <2>2, <2>3, <2>4
  <2>5. CASE \E t \in {"absent", "changed"} : docs' = [docs EXCEPT ![u] = t]
    <3>1. PICK t \in {"absent", "changed"} : docs' = [docs EXCEPT ![u] = t]
      BY <2>5
    <3>2. \A v \in Uids : docs'[v] = IF v = u THEN t ELSE docs[v]
      BY <2>3, <3>1
    <3>3. docs' \in [Uids -> {"absent", "fixture", "changed"}]
      BY <2>3, <3>1
    <3>4. \A v \in Uids : docs'[v] # "absent" => v \in accounts'
      BY <2>2, <2>3, <3>2
    <3> QED BY <2>2, <2>3, <3>3, <3>4
  <2> QED BY <2>2, <2>4, <2>5
<1>4. CASE \E r \in Attempts : RunAction(r) /\ ~CreateDoc(r)
  <2>1. docs' = docs /\ claims' = claims /\ accounts \subseteq accounts'
    BY <1>4, AccountChanges DEF RunAction, Step, Gated, LoadRegistry, AuditIntent, CheckGeography,
           CreateAccount, NameAccount, CreationFailed, CheckAccount, DocExists, DocMade, PollClaims,
           VerifyFixture, AuditResult, Crash, world
  <2> QED BY <2>1
<1> QED BY <1>1, <1>2, <1>3, <1>4 DEF FixtureNext, RunAction

(* The trigger and the console move no run and leave the file alone.       *)
LEMMA OutsideStays ==
    ASSUME NEW u \in Uids, SyncClaims(u) \/ TouchFixture(u)
    PROVE  /\ UNCHANGED <<reg, accounts, stage, uidOf, polls, told>>
           /\ mishaps' = mishaps \/ mishaps' = mishaps \cup {"touched"}
BY DEF SyncClaims, TouchFixture

(* Each part of the invariant is kept by every step.                       *)
LEMMA BaseKept == ASSUME FixtureBase, FixtureNext PROVE FixtureBase'
<1> DEFINE Mishaps == {"overlap", "cut after create", "torn file", "lost create", "touched"}
<1>1. mishaps' \subseteq Mishaps
  <2>1. \/ mishaps' = mishaps
        \/ mishaps' = mishaps \cup {"overlap"} \/ mishaps' = mishaps \cup {"cut after create"}
        \/ mishaps' = mishaps \cup {"torn file"} \/ mishaps' = mishaps \cup {"lost create"}
        \/ mishaps' = mishaps \cup {"touched"}
    BY FixtureCases DEF Gated, LoadRegistry, AuditIntent, CheckGeography, CreateAccount,
           NameAccount, CreationFailed, CheckAccount, DocExists, CreateDoc, DocMade, PollClaims,
           VerifyFixture, AuditResult, Crash, SyncClaims, TouchFixture
  <2>2. mishaps \subseteq Mishaps
    BY DEF FixtureBase, FixtureTypeOK
  <2> QED BY <2>1, <2>2
<1>2. touched' \subseteq accounts'
  <2>1. \/ touched' = touched
        \/ \E u \in accounts : touched' = touched \cup {u}
    BY FixtureCases DEF Gated, LoadRegistry, AuditIntent, CheckGeography, CreateAccount,
           NameAccount, CreationFailed, CheckAccount, DocExists, CreateDoc, DocMade, PollClaims,
           VerifyFixture, AuditResult, Crash, SyncClaims, TouchFixture, world
  <2>2. accounts \subseteq accounts'
    BY AccountChanges, OutsideStays DEF FixtureNext, RunAction
  <2>3. touched \subseteq accounts
    BY DEF FixtureBase, FixtureTypeOK
  <2> QED BY <2>1, <2>2, <2>3
<1>3. ASSUME NEW u \in Uids, SyncClaims(u) \/ TouchFixture(u) PROVE FixtureBase'
  <2>1. UNCHANGED <<reg, accounts, stage, uidOf, polls, told>>
    BY <1>3, OutsideStays
  <2> QED BY <2>1, <1>1, <1>2, FixtureChanges, CountersKept DEF FixtureBase, FixtureTypeOK, RunKnows
<1>4. ASSUME NEW r \in Attempts, RunAction(r) PROVE FixtureBase'
  <2>1. Turns(r)
    BY <1>4, RunTurns
  <2>2. accounts \subseteq accounts' /\ accounts' \subseteq Uids
    <3>1. accounts \subseteq Uids
      BY DEF FixtureBase, FixtureTypeOK
    <3> QED BY <3>1, <1>4, AccountChanges
  <2>3. uidOf' \in [Attempts -> accounts' \cup {NoUid}]
    BY <2>1, <2>2 DEF Turns, FixtureBase, FixtureTypeOK
  <2>4. /\ reg' \in [status : FixtureStatus, uid : Uids \cup {NoUid}]
        /\ reg'.uid \in accounts' \cup {NoUid}
    <3>1. reg \in [status : FixtureStatus, uid : Uids \cup {NoUid}]
          /\ uidOf[r] \in accounts \cup {NoUid} /\ reg.uid \in accounts \cup {NoUid}
      BY DEF FixtureBase, FixtureTypeOK
    <3>2. Planned \in [status : FixtureStatus, uid : Uids \cup {NoUid}] /\ Planned.uid = NoUid
      BY DEF Planned, FixtureStatus
    <3>3. \/ reg' = reg \/ reg' = Planned
          \/ \E st \in FixtureStatus : reg' = [status |-> st, uid |-> uidOf[r]]
      BY <1>4, FileChanges DEF Saves, Persist
    <3>4. CASE reg' = reg
      BY <3>1, <3>4, <2>2
    <3>5. CASE reg' = Planned
      BY <3>2, <3>5
    <3>6. ASSUME NEW st \in FixtureStatus, reg' = [status |-> st, uid |-> uidOf[r]]
          PROVE  /\ reg' \in [status : FixtureStatus, uid : Uids \cup {NoUid}]
                 /\ reg'.uid \in accounts' \cup {NoUid}
      BY <3>1, <3>6, <2>2
    <3> QED BY <3>3, <3>4, <3>5, <3>6
  <2>5. RunKnows(r)'
    <3> USE DEF RunKnows, Holding, MoveTo, Say, Advance, Fail, world
    <3>1. stage \in [Attempts -> Places] /\ told \in [Attempts -> Words] /\ RunKnows(r)
          /\ uidOf \in [Attempts -> accounts \cup {NoUid}] /\ NoUid \notin Uids /\ accounts \subseteq Uids
      BY ProvisioningAssumption DEF FixtureBase, FixtureTypeOK, Words
    <3>2. CASE Gated(r)
      BY <3>1, <3>2 DEF Gated
    <3>3. CASE LoadRegistry(r)
      BY <3>1, <3>3 DEF LoadRegistry
    <3>4. CASE AuditIntent(r)
      BY <3>1, <3>4 DEF AuditIntent
    <3>5. CASE CheckGeography(r)
      BY <3>1, <3>5 DEF CheckGeography
    <3>6. CASE CreateAccount(r)
      BY <3>1, <3>6 DEF CreateAccount
    <3>7. CASE NameAccount(r)
      BY <3>1, <3>7 DEF NameAccount
    <3>8. CASE CreationFailed(r)
      BY <3>1, <3>8 DEF CreationFailed
    <3>9. CASE CheckAccount(r)
      BY <3>1, <3>9 DEF CheckAccount
    <3>10. CASE DocExists(r)
      BY <3>1, <3>10 DEF DocExists
    <3>11. CASE CreateDoc(r)
      BY <3>1, <3>11 DEF CreateDoc
    <3>12. CASE DocMade(r)
      BY <3>1, <3>12 DEF DocMade
    <3>13. CASE PollClaims(r)
      BY <3>1, <3>13 DEF PollClaims, Again
    <3>14. CASE VerifyFixture(r)
      BY <3>1, <3>14 DEF VerifyFixture
    <3>15. CASE AuditResult(r)
      BY <3>1, <3>15 DEF AuditResult
    <3>16. CASE Crash(r)
      BY <3>1, <3>16 DEF Crash, Active
    <3> QED BY <1>4, <3>2, <3>3, <3>4, <3>5, <3>6, <3>7, <3>8, <3>9, <3>10, <3>11, <3>12,
               <3>13, <3>14, <3>15, <3>16 DEF RunAction, Step
  <2>6. \A q \in Attempts : RunKnows(q)'
    <3>1. \A q \in Attempts \ {r} : RunKnows(q)'
      BY <2>1, OthersStand DEF FixtureBase, RunKnows
    <3> QED BY <3>1, <2>5
  <2> QED BY <1>1, <1>2, <2>1, <2>2, <2>3, <2>4, <2>6, OthersStand, FixtureChanges, CountersKept
          DEF FixtureBase, FixtureTypeOK, Words
<1> QED BY <1>3, <1>4 DEF FixtureNext, RunAction

LEMMA UntouchedKept == ASSUME FixtureBase, Untouched, FixtureNext PROVE Untouched'
<1> SUFFICES ASSUME "touched" \notin mishaps' PROVE Untouched'
  BY DEF Untouched
<1>1. "touched" \notin mishaps
  <2>1. mishaps \subseteq mishaps'
    BY FixtureCases DEF Gated, LoadRegistry, AuditIntent, CheckGeography, CreateAccount,
           NameAccount, CreationFailed, CheckAccount, DocExists, CreateDoc, DocMade, PollClaims,
           VerifyFixture, AuditResult, Crash, SyncClaims, TouchFixture
  <2> QED BY <2>1
<1>2. /\ \A u \in Uids : docs[u] # "changed" /\ claims[u] # "unexpected"
      /\ \A u \in Uids : claims[u] = "expected" => docs[u] = "fixture"
      /\ \A r \in Attempts : stage[r] = "canonical" \/ told[r] = "ready" => FixtureGood(uidOf[r])
      /\ reg.status = "pilot_ready" => reg.uid # NoUid /\ FixtureGood(reg.uid)
  BY <1>1 DEF Untouched
<1>3. /\ \A u \in Uids : docs'[u] = docs[u] \/ (docs[u] = "absent" /\ docs'[u] = "fixture")
      /\ \A u \in Uids : claims'[u] = claims[u] \/ claims'[u] = Derived(u)
  BY FixtureChanges
<1>4. \A u \in Uids : claims'[u] # claims[u] => docs'[u] = docs[u] /\ docs[u] # "absent"
  <2>1. claims' = claims \/ \E u \in Uids : SyncClaims(u)
    BY FixtureCases DEF Gated, LoadRegistry, AuditIntent, CheckGeography, CreateAccount,
           NameAccount, CreationFailed, CheckAccount, DocExists, CreateDoc, DocMade, PollClaims,
           VerifyFixture, AuditResult, Crash, TouchFixture, world
  <2> QED BY <2>1 DEF SyncClaims, FixtureBase, FixtureTypeOK
<1>5. \A u \in Uids : docs[u] \in {"absent", "fixture", "changed"}
  BY DEF FixtureBase, FixtureTypeOK
<1>6. /\ \A u \in Uids : docs'[u] # "changed" /\ claims'[u] # "unexpected"
      /\ \A u \in Uids : claims'[u] = "expected" => docs'[u] = "fixture"
      /\ \A u \in Uids : FixtureGood(u) => FixtureGood(u)'
  BY <1>2, <1>3, <1>4, <1>5 DEF Derived, FixtureGood
<1>7. ASSUME NEW u \in Uids, SyncClaims(u) \/ TouchFixture(u) PROVE Untouched'
  <2>1. UNCHANGED <<reg, accounts, stage, uidOf, told>>
    BY <1>7, OutsideStays
  <2>2. \A r \in Attempts : stage[r] = "canonical" \/ told[r] = "ready" => uidOf[r] \in Uids
    BY DEF FixtureBase, FixtureTypeOK, RunKnows, Holding
  <2>3. reg.status = "pilot_ready" => reg.uid \in Uids
    BY <1>2 DEF FixtureBase, FixtureTypeOK
  <2> QED BY <1>2, <1>6, <2>1, <2>2, <2>3 DEF Untouched, FixtureGood
<1>8. ASSUME NEW r \in Attempts, RunAction(r) PROVE Untouched'
  <2>1. \/ stage'[r] # "canonical" /\ told'[r] # "ready"
        \/ uidOf'[r] = uidOf[r] /\ (stage[r] = "canonical" \/ told[r] = "ready")
        \/ uidOf'[r] = uidOf[r] /\ stage[r] = "poll" /\ claims[uidOf[r]] = "expected"
    <3> USE DEF RunKnows, MoveTo, Say, Advance, Fail, world
    <3>1. stage \in [Attempts -> Places] /\ told \in [Attempts -> Words] /\ RunKnows(r)
      BY DEF FixtureBase, FixtureTypeOK, Words
    <3>2. CASE Gated(r)
      BY <3>1, <3>2 DEF Gated
    <3>3. CASE LoadRegistry(r)
      BY <3>1, <3>3 DEF LoadRegistry
    <3>4. CASE AuditIntent(r)
      BY <3>1, <3>4 DEF AuditIntent
    <3>5. CASE CheckGeography(r)
      BY <3>1, <3>5 DEF CheckGeography
    <3>6. CASE CreateAccount(r)
      BY <3>1, <3>6 DEF CreateAccount
    <3>7. CASE NameAccount(r)
      BY <3>1, <3>7 DEF NameAccount
    <3>8. CASE CreationFailed(r)
      BY <3>1, <3>8 DEF CreationFailed
    <3>9. CASE CheckAccount(r)
      BY <3>1, <3>9 DEF CheckAccount
    <3>10. CASE DocExists(r)
      BY <3>1, <3>10 DEF DocExists
    <3>11. CASE CreateDoc(r)
      BY <3>1, <3>11 DEF CreateDoc
    <3>12. CASE DocMade(r)
      BY <3>1, <3>12 DEF DocMade
    <3>13. CASE PollClaims(r)
      BY <3>1, <3>13 DEF PollClaims, Again
    <3>14. CASE VerifyFixture(r)
      BY <3>1, <3>14 DEF VerifyFixture
    <3>15. CASE AuditResult(r)
      BY <3>1, <3>15 DEF AuditResult
    <3>16. CASE Crash(r)
      BY <3>1, <3>16 DEF Crash, Active
    <3> QED BY <1>8, <3>2, <3>3, <3>4, <3>5, <3>6, <3>7, <3>8, <3>9, <3>10, <3>11, <3>12,
               <3>13, <3>14, <3>15, <3>16 DEF RunAction, Step
  <2>2. \A q \in Attempts : stage[q] \in {"poll", "canonical"} \/ told[q] = "ready" => uidOf[q] \in Uids
    BY DEF FixtureBase, FixtureTypeOK, RunKnows, Holding
  <2>3. stage'[r] = "canonical" \/ told'[r] = "ready" => FixtureGood(uidOf[r])' /\ uidOf'[r] = uidOf[r]
    <3>1. stage[r] = "poll" /\ claims[uidOf[r]] = "expected" => FixtureGood(uidOf[r])
      BY <1>2, <2>2 DEF FixtureGood
    <3>2. ASSUME FixtureGood(uidOf[r]), uidOf'[r] = uidOf[r], uidOf[r] \in Uids
          PROVE  FixtureGood(uidOf[r])'
      BY <3>2, <1>6 DEF FixtureGood
    <3> QED BY <3>1, <3>2, <1>2, <2>1, <2>2
  <2>4. \A q \in Attempts \ {r} :
           stage'[q] = "canonical" \/ told'[q] = "ready" => FixtureGood(uidOf[q])'
    <3>1. \A q \in Attempts \ {r} :
             stage'[q] = stage[q] /\ told'[q] = told[q] /\ uidOf'[q] = uidOf[q]
      BY <1>8, RunTurns, OthersStand
    <3> QED BY <3>1, <1>2, <1>6, <2>2 DEF FixtureGood
  <2>5. reg'.status = "pilot_ready" => reg'.uid # NoUid /\ FixtureGood(reg.uid)'
    <3>1. CASE reg' = reg
      <4>1. reg.status = "pilot_ready" => reg.uid \in Uids
        BY <1>2 DEF FixtureBase, FixtureTypeOK
      <4> QED BY <3>1, <4>1, <1>2, <1>6 DEF FixtureGood
    <3>2. CASE reg' = Planned
      BY <3>2 DEF Planned
    <3>3. CASE VerifyFixture(r) /\ Canonical(uidOf[r])
      <4>1. reg'.uid = uidOf[r] /\ stage[r] = "canonical"
        BY <3>3 DEF VerifyFixture, Persist
      <4>2. FixtureGood(uidOf[r]) /\ uidOf[r] \in Uids /\ uidOf[r] # NoUid
        BY <4>1, <1>2, <2>2, ProvisioningAssumption
      <4> QED BY <4>1, <4>2, <1>6 DEF FixtureGood
    <3>4. \/ reg' = reg \/ reg' = Planned \/ (VerifyFixture(r) /\ Canonical(uidOf[r]))
          \/ reg'.status # "pilot_ready"
      <4>1. ASSUME NEW st \in FixtureStatus \ {"planned"}, Saves(r, st), st # "pilot_ready"
            PROVE  reg'.status # "pilot_ready"
        BY <4>1 DEF Saves, Persist
      <4> QED BY <1>8, <4>1, FileChanges
    <3> QED BY <3>1, <3>2, <3>3, <3>4
  <2> QED BY <1>6, <2>3, <2>4, <2>5 DEF Untouched
<1> QED BY <1>7, <1>8 DEF FixtureNext, RunAction

LEMMA AloneKept == ASSUME FixtureBase, Alone, FixtureNext PROVE Alone'
<1> SUFFICES ASSUME Undisturbed' PROVE Alone'
  BY DEF Alone
<1>1. Undisturbed
  <2>1. mishaps \subseteq mishaps'
    BY FixtureCases DEF Gated, LoadRegistry, AuditIntent, CheckGeography, CreateAccount,
           NameAccount, CreationFailed, CheckAccount, DocExists, CreateDoc, DocMade, PollClaims,
           VerifyFixture, AuditResult, Crash, SyncClaims, TouchFixture
  <2> QED BY <2>1 DEF Undisturbed
<1>2. /\ \A r, s \in Attempts : Active(r) /\ Active(s) => r = s
      /\ \A a, b \in accounts : a = b
      /\ accounts # {} => reg # Planned \/ \E r \in Attempts : stage[r] \in Naming
      /\ \A r \in Attempts :
            stage[r] \in {"intent", "geography", "create"} /\ uidOf[r] = NoUid => accounts = {}
  BY <1>1 DEF Alone
<1>3. ASSUME NEW u \in Uids, SyncClaims(u) \/ TouchFixture(u) PROVE Alone'
  <2>1. UNCHANGED <<reg, accounts, stage, uidOf>>
    BY <1>3, OutsideStays
  <2> QED BY <1>2, <2>1 DEF Alone, Active
<1>4. ASSUME NEW r \in Attempts, RunAction(r) PROVE Alone'
  <2>1. \A q \in Attempts \ {r} : stage'[q] = stage[q] /\ uidOf'[q] = uidOf[q]
    BY <1>4, RunTurns, OthersStand
  <2>2. stage \in [Attempts -> Places] /\ stage' \in [Attempts -> Places]
    BY <1>4, RunTurns, OthersStand DEF FixtureBase, FixtureTypeOK
  <2>3. \A q \in Attempts \ {r} : Active(q)' => ~Active(r)'
    <3>1. CASE LoadRegistry(r)
      <4>1. \A q \in Attempts : ~Active(q)
        BY <3>1 DEF LoadRegistry, Undisturbed
      <4> QED BY <4>1, <2>1 DEF Active
    <3>2. CASE ~LoadRegistry(r)
      <4>1. Active(r)' => Active(r)
        BY <1>4, <2>2, <3>2 DEF RunAction, Step, Gated, AuditIntent, CheckGeography, CreateAccount,
           NameAccount, CreationFailed, CheckAccount, DocExists, CreateDoc, DocMade, PollClaims,
           VerifyFixture, AuditResult, Crash, Active, MoveTo, Advance, Fail, Again
      <4> QED BY <4>1, <2>1, <1>2 DEF Active
    <3> QED BY <3>1, <3>2
  <2>4. \A q, s \in Attempts : Active(q)' /\ Active(s)' => q = s
    <3>1. \A q, s \in Attempts \ {r} : Active(q)' /\ Active(s)' => q = s
      BY <2>1, <1>2 DEF Active
    <3> QED BY <3>1, <2>3
  <2>5. CASE CreateAccount(r)
    <3>1. stage[r] = "create" /\ uidOf[r] = NoUid /\ accounts = {} /\ reg' = reg
          /\ stage'[r] \in Naming
      BY <2>5, <2>2, <1>2 DEF CreateAccount, MoveTo, FixtureBase, RunKnows, Naming
    <3>2. \A a, b \in accounts' : a = b
      BY <3>1, <2>5 DEF CreateAccount
    <3>3. \A q \in Attempts : stage'[q] \notin {"intent", "geography", "create"}
      <4>1. stage'[r] \notin {"intent", "geography", "create"} /\ Active(r)'
        BY <3>1 DEF Naming, Active
      <4>2. \A q \in Attempts \ {r} : ~Active(q)'
        BY <4>1, <2>3
      <4> QED BY <4>1, <4>2 DEF Active
    <3> QED BY <2>4, <3>1, <3>2, <3>3 DEF Alone
  <2>6. CASE ~CreateAccount(r)
    <3>1. accounts' = accounts
      BY <1>4, <2>6, AccountChanges
    <3>2. accounts # {} => reg' # Planned \/ \E q \in Attempts : stage'[q] \in Naming
      <4>1. CASE reg' # reg
        <5>1. ~(mishaps' = mishaps \cup {"torn file"})
          BY DEF Undisturbed
        <5>2. \E st \in FixtureStatus \ {"planned"} : reg' = [status |-> st, uid |-> uidOf[r]]
          BY <1>4, <4>1, <5>1, FileChanges DEF Saves, Persist
        <5> QED BY <5>2 DEF Planned
      <4>2. CASE reg' = reg /\ stage[r] \notin Naming
        BY <4>2, <1>2, <2>1
      <4>3. CASE reg' = reg /\ stage[r] \in Naming
        <5>1. CASE NameAccount(r)
          BY <5>1 DEF NameAccount, Advance, Persist, Planned
        <5>2. CASE CreationFailed(r)
          BY <5>2 DEF CreationFailed, Fail, Persist, Planned
        <5>3. CASE Crash(r)
          BY <4>3, <5>3 DEF Crash, Naming, Undisturbed
        <5> QED BY <1>4, <4>3, <5>1, <5>2, <5>3
            DEF RunAction, Step, Gated, LoadRegistry, AuditIntent, CheckGeography, CreateAccount,
                CheckAccount, DocExists, CreateDoc, DocMade, PollClaims, VerifyFixture, AuditResult, Naming
      <4> QED BY <4>1, <4>2, <4>3
    <3>3. stage'[r] \in {"intent", "geography", "create"} /\ uidOf'[r] = NoUid => accounts = {}
      <4>1. CASE LoadRegistry(r)
        <5>1. stage'[r] = "intent" /\ uidOf'[r] = NoUid => MayCreate
          BY <4>1, <2>2 DEF LoadRegistry, MayStart, MayResume, MoveTo, FixtureBase, FixtureTypeOK
        <5>2. \A q \in Attempts : stage[q] \notin Naming
          BY <4>1 DEF LoadRegistry, Undisturbed, Active, Naming
        <5>3. stage'[r] \in {"intent", "done"}
          BY <4>1, <2>2 DEF LoadRegistry, MoveTo
        <5> QED BY <5>1, <5>2, <5>3, <1>2 DEF MayCreate
      <4>2. CASE ~LoadRegistry(r)
        <5>1. uidOf'[r] = uidOf[r]
          BY <1>4, <2>6, <4>2 DEF RunAction, Step, Gated, AuditIntent, CheckGeography,
           NameAccount, CreationFailed, CheckAccount, DocExists, CreateDoc, DocMade, PollClaims,
           VerifyFixture, AuditResult, Crash
        <5>2. stage'[r] \in {"intent", "geography", "create"} => stage[r] \in {"intent", "geography", "create"}
          BY <1>4, <2>2, <2>6, <4>2 DEF RunAction, Step, Gated, AuditIntent, CheckGeography,
           NameAccount, CreationFailed, CheckAccount, DocExists, CreateDoc, DocMade, PollClaims,
           VerifyFixture, AuditResult, Crash, MoveTo, Advance, Fail, Again
        <5> QED BY <5>1, <5>2, <1>2
      <4> QED BY <4>1, <4>2
    <3>4. \A q \in Attempts :
             stage'[q] \in {"intent", "geography", "create"} /\ uidOf'[q] = NoUid => accounts = {}
      BY <3>3, <2>1, <1>2
    <3> QED BY <1>2, <2>4, <3>1, <3>2, <3>4 DEF Alone
  <2> QED BY <2>5, <2>6
<1> QED BY <1>3, <1>4 DEF FixtureNext, RunAction

LEMMA FixtureKept == FixtureInv /\ [FixtureNext]_fixtureVars => FixtureInv'
<1>1. ASSUME FixtureInv, UNCHANGED fixtureVars PROVE FixtureInv'
  BY <1>1 DEF FixtureInv, FixtureBase, FixtureTypeOK, RunKnows, Untouched, FixtureGood,
              Alone, Undisturbed, Active, fixtureVars
<1>2. ASSUME FixtureInv, FixtureNext PROVE FixtureInv'
  BY <1>2, BaseKept, UntouchedKept, AloneKept DEF FixtureInv
<1> QED BY <1>1, <1>2

(* What runs know, and both conditional promises, hold in every state of   *)
(* provisioning, however many runs there are.                              *)
THEOREM FixtureInvHolds == FixtureSpec => []FixtureInv
BY FixtureInitHolds, FixtureKept, PTL DEF FixtureSpec

(* Every variable of the provisioning keeps its type.                      *)
THEOREM FixtureTypesHold == FixtureSpec => []FixtureTypeOK
<1>1. FixtureInv => FixtureTypeOK
  BY DEF FixtureInv, FixtureBase
<1> QED BY <1>1, FixtureInvHolds, PTL

(* A second account needs a run cut before the registry names the first,   *)
(* a torn registry file or two runs at once.                               *)
THEOREM OneAccount == FixtureSpec => []OneAccountUnlessCut
<1>1. FixtureInv => OneAccountUnlessCut
  <2> SUFFICES ASSUME FixtureInv, Undisturbed PROVE ~(Cardinality(accounts) > 1)
    BY DEF OneAccountUnlessCut, Undisturbed
  <2>1. accounts = {} \/ \E a : accounts = {a}
    BY DEF FixtureInv, Alone
  <2>2. Cardinality(accounts) \in {0, 1}
    BY <2>1, FS_EmptySet, FS_Singleton
  <2> QED BY <2>2
<1> QED BY <1>1, FixtureInvHolds, PTL

(* Who is told "ready", and who reads "pilot_ready", finds document and    *)
(* claims as they should be, unless somebody changed them by hand.         *)
THEOREM ReadyIsSound == FixtureSpec => []ReadyFixtureIsSound
<1>1. FixtureInv => ReadyFixtureIsSound
  BY DEF FixtureInv, Untouched, FixtureGood, ReadyFixtureIsSound
<1> QED BY <1>1, FixtureInvHolds, PTL

(* The awaits a run still has before it, counted along its longest way.    *)
Remaining(r) ==
    CASE stage[r] \in {"done", "cut"} -> 0
      [] stage[r] = "audit" -> 1
      [] stage[r] = "canonical" -> 2
      [] stage[r] = "poll" -> 2 + MaxPolls - polls[r]
      [] stage[r] = "docMade" -> 3 + MaxPolls
      [] stage[r] = "createDoc" -> 4 + MaxPolls
      [] stage[r] = "exists" -> 5 + MaxPolls
      [] stage[r] = "getUser" -> 6 + MaxPolls
      [] stage[r] \in {"created", "createFailed"} -> 7 + MaxPolls
      [] stage[r] = "create" -> 8 + MaxPolls
      [] stage[r] = "geography" -> 9 + MaxPolls
      [] stage[r] = "intent" -> 10 + MaxPolls
      [] stage[r] = "idle" -> 11 + MaxPolls

(* Each step of a run brings it nearer to its end, whoever else moves: with *)
(* MaxPolls reads of the claims at most, whatever the trigger does.        *)
RunsWindDown ==
    [][\A r \in Attempts :
          /\ Remaining(r) \in Nat /\ (Remaining(r) = 0 <=> stage[r] \in {"done", "cut"})
          /\ Remaining(r)' <= Remaining(r)
          /\ Step(r) => Remaining(r)' < Remaining(r)]_fixtureVars

(* Only a run that has ended has nothing before it.                        *)
LEMMA RemainingType ==
    ASSUME FixtureBase, NEW r \in Attempts
    PROVE  Remaining(r) \in Nat /\ (Remaining(r) = 0 <=> stage[r] \in {"done", "cut"})
<1>1. stage[r] \in Places /\ polls[r] \in 0..MaxPolls - 1 /\ MaxPolls \in Nat \ {0}
  BY ProvisioningAssumption DEF FixtureBase, FixtureTypeOK
<1> QED BY <1>1 DEF Remaining, Places

(* A step of the run itself, its cut included, uses up at least one await. *)
LEMMA StepCounts ==
    ASSUME FixtureBase, NEW r \in Attempts, RunAction(r)
    PROVE  Remaining(r)' < Remaining(r)
<1>1. stage \in [Attempts -> Places] /\ polls[r] \in 0..MaxPolls - 1 /\ MaxPolls \in Nat \ {0}
  BY ProvisioningAssumption DEF FixtureBase, FixtureTypeOK
<1>2. polls \in [Attempts -> 0..MaxPolls - 1]
  BY DEF FixtureBase, FixtureTypeOK
<1> USE DEF Remaining, MoveTo
<1>3. CASE Gated(r) \/ LoadRegistry(r)
  BY <1>1, <1>3 DEF Gated, LoadRegistry
<1>4. CASE AuditIntent(r) \/ CheckGeography(r)
  BY <1>1, <1>4 DEF AuditIntent, CheckGeography
<1>5. CASE CreateAccount(r)
  <2>1. stage[r] = "create" /\ stage'[r] \in {"created", "createFailed"}
    BY <1>1, <1>5 DEF CreateAccount
  <2> QED BY <1>1, <2>1
<1>6. CASE NameAccount(r) \/ CreationFailed(r)
  BY <1>1, <1>6 DEF NameAccount, CreationFailed, Advance, Fail
<1>7. CASE CheckAccount(r)
  <2>1. stage[r] = "getUser" /\ stage'[r] \in {"exists", "audit"}
    BY <1>1, <1>7 DEF CheckAccount, Fail
  <2> QED BY <1>1, <2>1
<1>8. CASE DocExists(r)
  <2>1. stage[r] = "exists" /\ stage'[r] \in {"createDoc", "audit"}
    BY <1>1, <1>8 DEF DocExists, Fail
  <2> QED BY <1>1, <2>1
<1>9. CASE CreateDoc(r)
  <2>1. stage[r] = "createDoc" /\ stage'[r] \in {"docMade", "audit"}
    BY <1>1, <1>9 DEF CreateDoc, Fail
  <2> QED BY <1>1, <2>1
<1>10. CASE DocMade(r) \/ VerifyFixture(r) \/ AuditResult(r)
  BY <1>1, <1>10 DEF DocMade, VerifyFixture, AuditResult, Advance, Fail
<1>11. CASE PollClaims(r)
  <2>1. stage[r] = "poll"
    BY <1>11 DEF PollClaims
  <2>2. \/ stage'[r] = "canonical" \/ stage'[r] = "audit"
        \/ stage' = stage /\ polls[r] + 1 < MaxPolls /\ polls'[r] = polls[r] + 1
    BY <1>1, <1>2, <1>11 DEF PollClaims, Again, Advance, Fail
  <2> QED BY <1>1, <2>1, <2>2
<1>12. CASE Crash(r)
  <2>1. Active(r) /\ stage'[r] = "cut"
    BY <1>1, <1>12 DEF Crash
  <2> QED BY <1>1, <2>1 DEF Active, Places
<1> QED BY <1>3, <1>4, <1>5, <1>6, <1>7, <1>8, <1>9, <1>10, <1>11, <1>12 DEF RunAction, Step

(* Nobody else puts a run back.                                            *)
LEMMA OthersWait ==
    ASSUME FixtureBase, FixtureNext, NEW r \in Attempts, ~RunAction(r)
    PROVE  Remaining(r)' = Remaining(r)
<1>1. stage'[r] = stage[r] /\ polls'[r] = polls[r]
  <2>1. CASE \E u \in Uids : SyncClaims(u) \/ TouchFixture(u)
    BY <2>1, OutsideStays
  <2>2. ASSUME NEW q \in Attempts, RunAction(q) PROVE stage'[r] = stage[r] /\ polls'[r] = polls[r]
    <3>1. r # q
      BY <2>2
    <3>2. stage'[r] = stage[r]
      BY <2>2, <3>1, RunTurns, OthersStand
    <3>3. polls' = polls \/ polls' = [polls EXCEPT ![q] = @ + 1]
      BY <2>2 DEF RunAction, Step, Gated, LoadRegistry, AuditIntent, CheckGeography, CreateAccount,
           NameAccount, CreationFailed, CheckAccount, DocExists, CreateDoc, DocMade, PollClaims,
           VerifyFixture, AuditResult, Crash, Again
    <3>4. polls \in [Attempts -> 0..MaxPolls - 1]
      BY DEF FixtureBase, FixtureTypeOK
    <3> QED BY <3>1, <3>2, <3>3, <3>4
  <2> QED BY <2>1, <2>2 DEF FixtureNext, RunAction
<1> QED BY <1>1 DEF Remaining

(* No run takes more than a fixed number of steps: what EveryRunEnds adds  *)
(* is that a run keeps taking them (FairFixtureSpec).                      *)
THEOREM RunsAreFinite == FixtureSpec => RunsWindDown
<1> DEFINE Winds == \A r \in Attempts :
          /\ Remaining(r) \in Nat /\ (Remaining(r) = 0 <=> stage[r] \in {"done", "cut"})
          /\ Remaining(r)' <= Remaining(r)
          /\ Step(r) => Remaining(r)' < Remaining(r)
<1>1. FixtureInv /\ [FixtureNext]_fixtureVars => [Winds]_fixtureVars
  <2> SUFFICES ASSUME FixtureBase, FixtureNext, NEW r \in Attempts
               PROVE  /\ Remaining(r) \in Nat /\ (Remaining(r) = 0 <=> stage[r] \in {"done", "cut"})
                      /\ Remaining(r)' <= Remaining(r)
                      /\ Step(r) => Remaining(r)' < Remaining(r)
    BY DEF FixtureInv, Winds
  <2>1. Remaining(r) \in Nat /\ (Remaining(r) = 0 <=> stage[r] \in {"done", "cut"})
    BY RemainingType
  <2>2. Remaining(r)' \in Nat
    <3>1. stage'[r] \in Places /\ polls'[r] \in 0..MaxPolls - 1 /\ MaxPolls \in Nat \ {0}
      BY BaseKept, ProvisioningAssumption DEF FixtureBase, FixtureTypeOK
    <3> QED BY <3>1 DEF Remaining, Places
  <2>3. CASE RunAction(r)
    BY <2>1, <2>2, <2>3, StepCounts
  <2>4. CASE ~RunAction(r)
    BY <2>1, <2>2, <2>4, OthersWait DEF RunAction
  <2> QED BY <2>1, <2>3, <2>4
<1> QED BY <1>1, FixtureInvHolds, PTL DEF FixtureSpec, RunsWindDown
=============================================================================
