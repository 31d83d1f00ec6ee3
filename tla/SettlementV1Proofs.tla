------------------------- MODULE SettlementV1Proofs -------------------------
(***************************************************************************)
(* What SettlementService promises under any overlap, for any number of    *)
(* calls, settlements, trips and actors.  Four layers, each inductive on   *)
(* top of those before it: what a call knows about itself (Calls), what    *)
(* the record it read is still worth (Copies), who has looked which trip   *)
(* up (Lookups), and what stands in the journal meanwhile (Journal).       *)
(***************************************************************************)
EXTENDS SettlementV1, WellFoundedInduction, TLAPS

Drafting == {"asked", "previewed", "rechecked"}
DecidingAt == {"read", "booked", "found", "marked", "mirrored"}
Reversing == {"found", "marked", "mirrored"}

(* A call that decides is about a settlement that exists, was entitled to   *)
(* its move on the copy it holds, and the copy was kept by two people.      *)
CallKnows(r) ==
    /\ pc[r] \in Drafting => call[r] \in Drafts
    /\ pc[r] \in DecidingAt =>
          /\ call[r] \in Commands /\ copy[r] \in Settlements
          /\ store[call[r].id] # None
          /\ MayMove(call[r].actor, call[r].op, copy[r])
          /\ copy[r].approver # copy[r].creator
    /\ pc[r] = "booked" => call[r].op = "close" /\ left[r] = {}
    /\ pc[r] \in Reversing =>
          call[r].op = "reverse" /\ found[r] \in Entries /\ ~found[r].reversed

KeptByTwo == \A s \in Ids : store[s] # None => store[s].approver # store[s].creator

(* The journal has entries of settlements only.                             *)
NothingUnknown == \A s \in Ids : store[s] = None => posted[s] = None /\ mirrored[s] = None

Calls == TypeOK /\ KeptByTwo /\ NothingUnknown /\ \A r \in Requests : CallKnows(r)

-----------------------------------------------------------------------------

LEMMA Values ==
    /\ MaxClock \in Nat /\ Ids \subseteq Nat
    /\ \A a \in Actors : a # None
    /\ \A x \in Settlements \cup Entries \cup Drafts \cup Commands \cup Ids : x # None
    /\ \A d \in Drafts : d.actor \in Actors /\ d.key \in Keys /\ d.trips \in SUBSET Trips
    /\ \A c \in Commands : c.actor \in Actors /\ c.op \in Ops /\ c.id \in Ids
    /\ \A d \in Drafts, T \in SUBSET Trips : NewSettlement(d, T) \in Settlements
    /\ \A T \in SUBSET Trips : Entry(T) \in Entries
    /\ \A e \in Entries : Marked(e) \in Entries /\ Mirror(e) \in Entries
    /\ \A s \in Settlements : s.trips \in SUBSET Trips /\ s.creator \in Actors
<1>1. MaxClock \in Nat /\ Ids \subseteq Nat
  BY ClockAssumption DEF Ids
<1>2. /\ \A a \in Actors : a # None
      /\ \A x \in Settlements \cup Entries \cup Drafts \cup Commands \cup Ids : x # None
  BY NoneAssumption
<1>3. ASSUME NEW d \in Drafts, NEW T \in SUBSET Trips PROVE NewSettlement(d, T) \in Settlements
  <2>1. <<"draft">> \in Seq(Statuses) /\ "draft" \in Statuses
    BY DEF Statuses
  <2> QED BY <2>1 DEF NewSettlement, Settlements, Drafts
<1>4. /\ \A d \in Drafts : d.actor \in Actors /\ d.key \in Keys /\ d.trips \in SUBSET Trips
      /\ \A c \in Commands : c.actor \in Actors /\ c.op \in Ops /\ c.id \in Ids
      /\ \A s \in Settlements : s.trips \in SUBSET Trips /\ s.creator \in Actors
  BY DEF Drafts, Commands, Settlements
<1>5. /\ \A T \in SUBSET Trips : Entry(T) \in Entries
      /\ \A e \in Entries : Marked(e) \in Entries /\ Mirror(e) \in Entries
  BY DEF Entry, Entries, Marked, Mirror
<1> QED BY <1>1, <1>2, <1>3, <1>4, <1>5

LEMMA MovedTyped ==
    ASSUME NEW s \in Settlements, NEW a \in Actors, NEW x \in Statuses
    PROVE  /\ Moved(s, a, x) \in Settlements
           /\ Moved(s, a, x).status = x /\ Moved(s, a, x).key = s.key
           /\ Moved(s, a, x).trips = s.trips /\ Moved(s, a, x).creator = s.creator
           /\ Moved(s, a, x).approver = IF x = "approved" THEN a ELSE s.approver
<1>1. Append(s.trail, x) \in Seq(Statuses)
  BY DEF Settlements
<1> QED BY <1>1 DEF Settlements, Moved

LEMMA Targets ==
    /\ \A op \in Ops : Target[op] \in Statuses
    /\ Ops = {"submit", "approve", "reject", "close", "reverse"}
    /\ \A op \in Ops : /\ Target[op] = "approved" <=> op = "approve"
                       /\ Target[op] = "closed" <=> op = "close"
                       /\ Target[op] = "reversed" <=> op = "reverse"
    /\ \A x : <<x, "closed">> \in Moves => x = "approved"
    /\ \A x : <<x, "reversed">> \in Moves => x = "closed"
    /\ \A x, y : <<x, y>> \in Moves /\ y \notin {"closed", "reversed"} => x \notin {"closed", "reversed", "approved"}
  BY DEF Ops, Target, Statuses, Moves


(* What a saved transition writes.                                          *)
LEMMA SaveMovedFacts ==
    ASSUME Calls, NEW r \in Requests, pc[r] \in DecidingAt, SaveMoved(r)
    PROVE  \E m \in Settlements :
             /\ store' = [store EXCEPT ![call[r].id] = m]
             /\ call[r].id \in Ids /\ store[call[r].id] # None
             /\ m.approver # m.creator
             /\ m.status = Target[call[r].op] /\ m.key = copy[r].key /\ m.trips = copy[r].trips
<1> DEFINE m == Moved(copy[r], call[r].actor, Target[call[r].op])
<1>1. /\ call[r] \in Commands /\ copy[r] \in Settlements /\ store[call[r].id] # None
      /\ copy[r].approver # copy[r].creator /\ MayMove(call[r].actor, call[r].op, copy[r])
  BY DEF Calls, CallKnows
<1>2. call[r].op \in Ops /\ call[r].actor \in Actors /\ call[r].id \in Ids
  BY <1>1, Values
<1>5. Target[call[r].op] \in Statuses
  BY <1>2, Targets
<1>3. m \in Settlements /\ m.status = Target[call[r].op] /\ m.key = copy[r].key
      /\ m.trips = copy[r].trips /\ m.creator = copy[r].creator
      /\ m.approver = IF Target[call[r].op] = "approved" THEN call[r].actor ELSE copy[r].approver
  BY <1>1, <1>2, <1>5, MovedTyped
<1>4. m.approver # m.creator
  BY <1>1, <1>2, <1>3, Targets DEF MayMove
<1> QED BY <1>1, <1>2, <1>3, <1>4 DEF SaveMoved

LEMMA IdsTyped ==
    ASSUME Calls, NEW r \in Requests, pc[r] \in DecidingAt
    PROVE  call[r].id \in Ids /\ copy[r].trips \in SUBSET Trips /\ call[r].op \in Ops
  BY Values DEF Calls, CallKnows

LEMMA ScarsTyped ==
    ASSUME Calls, NEW r \in Requests, pc[r] \in DecidingAt
    PROVE  /\ Raced(r) \subseteq Ids \X Causes
           /\ SharesTrips(r) \subseteq Ids \X Causes
           /\ {<<call[r].id, "failure">>} \subseteq Ids \X Causes
<1>1. call[r].id \in Ids
  BY IdsTyped
<1>2. \A q \in Rivals(r) : call[q].id \in Ids
  BY IdsTyped DEF Rivals, LookedUp, Deciding, DecidingAt
<1> QED BY <1>1, <1>2 DEF Raced, SharesTrips, Causes

Keeps == \A s \in Ids : store[s] # None => store'[s] # None

LEMMA CallFrame ==
    ASSUME Keeps, TypeOK, NEW q \in Requests, CallKnows(q), pc'[q] = pc[q], call'[q] = call[q],
           copy'[q] = copy[q], left'[q] = left[q], found'[q] = found[q]
    PROVE  CallKnows(q)'
<1>1. pc[q] \in DecidingAt => call[q].id \in Ids
  BY Values DEF CallKnows
<1> QED BY <1>1 DEF CallKnows, Keeps

OthersWait(r) ==
    \A q \in Requests \ {r} :
        /\ pc'[q] = pc[q] /\ call'[q] = call[q] /\ copy'[q] = copy[q]
        /\ left'[q] = left[q] /\ found'[q] = found[q]

LEMMA CallsTypes ==
    ASSUME Calls, TypeOK, NEW r \in Requests, Step(r)
    PROVE  TypeOK'
<1> USE Values DEF TypeOK, books, locals, Goto, Exists
<1>1. ASSUME NEW d \in Drafts, AskDraft(r, d) PROVE TypeOK'
  BY <1>1 DEF AskDraft
<1>2. CASE Preview(r)
  BY <1>2, FitAssumption DEF Preview, Eligible
<1>3. CASE Recheck(r)
  BY <1>3 DEF Recheck
<1>4. CASE SaveDraft(r)
  BY <1>4 DEF SaveDraft, Calls, CallKnows, Drafting, Causes
<1>5. ASSUME NEW c \in Commands, Read(r, c) PROVE TypeOK'
  BY <1>5 DEF Read
<1>6. CASE SaveReview(r)
  <2>1. pc[r] \in DecidingAt
    BY <1>6 DEF SaveReview, DecidingAt
  <2>2. PICK m \in Settlements : store' = [store EXCEPT ![call[r].id] = m]
    BY <1>6, <2>1, SaveMovedFacts DEF SaveReview, Calls
  <2> QED BY <1>6, <2>1, <2>2, ScarsTyped DEF SaveReview, Calls
<1>7. ASSUME NEW t \in Trips, LookUpTrip(r, t) PROVE TypeOK'
  BY <1>7 DEF LookUpTrip
<1>8. CASE PostEntry(r)
  <2>1. pc[r] \in DecidingAt
    BY <1>8 DEF PostEntry, DecidingAt
  <2> QED BY <1>8, <2>1, ScarsTyped, IdsTyped DEF PostEntry, Calls, CallKnows, Reversing
<1>9. CASE SaveClosed(r)
  <2>1. pc[r] \in DecidingAt
    BY <1>9 DEF SaveClosed, DecidingAt
  <2>2. PICK m \in Settlements : store' = [store EXCEPT ![call[r].id] = m]
    BY <1>9, <2>1, SaveMovedFacts DEF SaveClosed, Calls
  <2> QED BY <1>9, <2>1, <2>2, ScarsTyped DEF SaveClosed, Calls
<1>10. CASE FindEntry(r)
  <2>1. pc[r] \in DecidingAt
    BY <1>10 DEF FindEntry, DecidingAt
  <2> QED BY <1>10, <2>1, ScarsTyped, IdsTyped DEF FindEntry, Calls, CallKnows, Reversing
<1>11. CASE MarkEntry(r)
  <2>1. pc[r] \in DecidingAt
    BY <1>11 DEF MarkEntry, DecidingAt
  <2> QED BY <1>11, <2>1, ScarsTyped, IdsTyped DEF MarkEntry, Calls, CallKnows, Reversing
<1>12. CASE PostReversal(r)
  <2>1. pc[r] \in DecidingAt
    BY <1>12 DEF PostReversal, DecidingAt
  <2> QED BY <1>12, <2>1, ScarsTyped, IdsTyped DEF PostReversal, Calls, CallKnows, Reversing
<1>13. CASE SaveReversed(r)
  <2>1. pc[r] \in DecidingAt
    BY <1>13 DEF SaveReversed, DecidingAt
  <2>2. PICK m \in Settlements : store' = [store EXCEPT ![call[r].id] = m]
    BY <1>13, <2>1, SaveMovedFacts DEF SaveReversed, Calls
  <2> QED BY <1>13, <2>1, <2>2, ScarsTyped DEF SaveReversed, Calls
<1>14. CASE Stop(r)
  <2>1. pc[r] \in BetweenSaves => pc[r] \in DecidingAt
    BY DEF DecidingAt, BetweenSaves
  <2> QED BY <1>14, <2>1, ScarsTyped DEF Stop
<1> QED BY <1>1, <1>2, <1>3, <1>4, <1>5, <1>6, <1>7, <1>8, <1>9, <1>10, <1>11, <1>12, <1>13, <1>14 DEF Step

LEMMA CallsOwn ==
    ASSUME Calls, TypeOK', NEW r \in Requests, Step(r)
    PROVE  Keeps /\ OthersWait(r) /\ KeptByTwo' /\ NothingUnknown' /\ CallKnows(r)'
<1> USE Values DEF Calls, TypeOK, books, locals, Goto, Exists
<1>1. ASSUME NEW d \in Drafts, AskDraft(r, d)
      PROVE  Keeps /\ OthersWait(r) /\ KeptByTwo' /\ NothingUnknown' /\ CallKnows(r)'
  <2>3. Keeps /\ OthersWait(r)
    BY <1>1 DEF AskDraft, Drafting, Keeps, OthersWait
  <2>4. KeptByTwo' /\ NothingUnknown'
    BY <1>1 DEF AskDraft, Drafting, KeptByTwo, NothingUnknown
  <2>5. CallKnows(r)'
    BY <1>1 DEF AskDraft, Drafting, DecidingAt, Reversing, CallKnows
  <2> QED BY <2>3, <2>4, <2>5
<1>2. CASE Preview(r)
  <2>3. Keeps /\ OthersWait(r)
    BY <1>2 DEF Preview, Drafting, CallKnows, Keeps, OthersWait
  <2>4. KeptByTwo' /\ NothingUnknown'
    BY <1>2 DEF Preview, Drafting, CallKnows, KeptByTwo, NothingUnknown
  <2>5. CallKnows(r)'
    BY <1>2 DEF Preview, Drafting, CallKnows, DecidingAt, Reversing
  <2> QED BY <2>3, <2>4, <2>5
<1>3. CASE Recheck(r)
  <2>3. Keeps /\ OthersWait(r)
    BY <1>3 DEF Recheck, Drafting, CallKnows, Keeps, OthersWait
  <2>4. KeptByTwo' /\ NothingUnknown'
    BY <1>3 DEF Recheck, Drafting, CallKnows, KeptByTwo, NothingUnknown
  <2>5. CallKnows(r)'
    BY <1>3 DEF Recheck, Drafting, CallKnows, DecidingAt, Reversing
  <2> QED BY <2>3, <2>4, <2>5
<1>4. CASE SaveDraft(r)
  <2>3. Keeps /\ OthersWait(r)
    BY <1>4 DEF SaveDraft, CallKnows, Drafting, NewSettlement, Keeps, OthersWait
  <2>4. KeptByTwo' /\ NothingUnknown'
    BY <1>4 DEF SaveDraft, CallKnows, Drafting, NewSettlement, KeptByTwo, NothingUnknown
  <2>5. CallKnows(r)'
    BY <1>4 DEF SaveDraft, CallKnows, Drafting, NewSettlement, DecidingAt, Reversing
  <2> QED BY <2>3, <2>4, <2>5
<1>5. ASSUME NEW c \in Commands, Read(r, c)
      PROVE  Keeps /\ OthersWait(r) /\ KeptByTwo' /\ NothingUnknown' /\ CallKnows(r)'
  <2>3. Keeps /\ OthersWait(r)
    BY <1>5 DEF Read, Keeps, OthersWait
  <2>4. KeptByTwo' /\ NothingUnknown'
    BY <1>5 DEF Read, KeptByTwo, NothingUnknown
  <2>5. CallKnows(r)'
    BY <1>5 DEF Read, DecidingAt, Reversing, Drafting, CallKnows, MayMove, KeptByTwo
  <2> QED BY <2>3, <2>4, <2>5
<1>6. CASE SaveReview(r)
  <2>1. pc[r] \in DecidingAt /\ pc'[r] = "done"
    BY <1>6 DEF SaveReview, DecidingAt
  <2>2. PICK m \in Settlements : /\ store' = [store EXCEPT ![call[r].id] = m] /\ m.approver # m.creator
                                 /\ call[r].id \in Ids /\ store[call[r].id] # None
    BY <1>6, <2>1, SaveMovedFacts DEF SaveReview
  <2>3. Keeps /\ OthersWait(r)
    BY <1>6, <2>1, <2>2 DEF SaveReview, Keeps, OthersWait
  <2>4. KeptByTwo' /\ NothingUnknown'
    BY <1>6, <2>1, <2>2 DEF SaveReview, KeptByTwo, NothingUnknown
  <2>5. CallKnows(r)'
    BY <1>6, <2>1, <2>2 DEF SaveReview, DecidingAt, Reversing, Drafting, CallKnows
  <2> QED BY <2>3, <2>4, <2>5
<1>7. ASSUME NEW t \in Trips, LookUpTrip(r, t)
      PROVE  Keeps /\ OthersWait(r) /\ KeptByTwo' /\ NothingUnknown' /\ CallKnows(r)'
  <2>1. pc[r] \in DecidingAt /\ call[r].id \in Ids /\ CallKnows(r)
    BY <1>7, IdsTyped DEF LookUpTrip, DecidingAt
  <2>3. Keeps /\ OthersWait(r)
    BY <1>7, <2>1 DEF LookUpTrip, Keeps, OthersWait
  <2>4. KeptByTwo' /\ NothingUnknown'
    BY <1>7, <2>1 DEF LookUpTrip, KeptByTwo, NothingUnknown
  <2>5. CallKnows(r)'
    BY <1>7, <2>1 DEF LookUpTrip, DecidingAt, Reversing, Drafting, CallKnows
  <2> QED BY <2>3, <2>4, <2>5
<1>8. CASE PostEntry(r)
  <2>1. pc[r] \in DecidingAt /\ call[r].id \in Ids /\ CallKnows(r)
    BY <1>8, IdsTyped DEF PostEntry, DecidingAt
  <2>3. Keeps /\ OthersWait(r)
    BY <1>8, <2>1 DEF PostEntry, Keeps, OthersWait
  <2>4. KeptByTwo' /\ NothingUnknown'
    BY <1>8, <2>1 DEF PostEntry, KeptByTwo, NothingUnknown, CallKnows, DecidingAt
  <2>5. CallKnows(r)'
    BY <1>8, <2>1 DEF PostEntry, DecidingAt, Reversing, Drafting, CallKnows
  <2> QED BY <2>3, <2>4, <2>5
<1>9. CASE SaveClosed(r)
  <2>1. pc[r] \in DecidingAt /\ pc'[r] = "done"
    BY <1>9 DEF SaveClosed, DecidingAt
  <2>2. PICK m \in Settlements : /\ store' = [store EXCEPT ![call[r].id] = m] /\ m.approver # m.creator
                                 /\ call[r].id \in Ids /\ store[call[r].id] # None
    BY <1>9, <2>1, SaveMovedFacts DEF SaveClosed
  <2>3. Keeps /\ OthersWait(r)
    BY <1>9, <2>1, <2>2 DEF SaveClosed, Keeps, OthersWait
  <2>4. KeptByTwo' /\ NothingUnknown'
    BY <1>9, <2>1, <2>2 DEF SaveClosed, KeptByTwo, NothingUnknown
  <2>5. CallKnows(r)'
    BY <1>9, <2>1, <2>2 DEF SaveClosed, DecidingAt, Reversing, Drafting, CallKnows
  <2> QED BY <2>3, <2>4, <2>5
<1>10. CASE FindEntry(r)
  <2>1. pc[r] \in DecidingAt /\ call[r].id \in Ids /\ CallKnows(r)
    BY <1>10, IdsTyped DEF FindEntry, DecidingAt
  <2>3. Keeps /\ OthersWait(r)
    BY <1>10, <2>1 DEF FindEntry, Keeps, OthersWait
  <2>4. KeptByTwo' /\ NothingUnknown'
    BY <1>10, <2>1 DEF FindEntry, KeptByTwo, NothingUnknown
  <2>5. CallKnows(r)'
    BY <1>10, <2>1 DEF FindEntry, DecidingAt, Reversing, Drafting, CallKnows, Reversible
  <2> QED BY <2>3, <2>4, <2>5
<1>11. CASE MarkEntry(r)
  <2>1. pc[r] \in DecidingAt /\ call[r].id \in Ids /\ CallKnows(r)
    BY <1>11, IdsTyped DEF MarkEntry, DecidingAt
  <2>3. Keeps /\ OthersWait(r)
    BY <1>11, <2>1 DEF MarkEntry, Keeps, OthersWait
  <2>4. KeptByTwo' /\ NothingUnknown'
    BY <1>11, <2>1 DEF MarkEntry, KeptByTwo, NothingUnknown, CallKnows, DecidingAt
  <2>5. CallKnows(r)'
    BY <1>11, <2>1 DEF MarkEntry, DecidingAt, Reversing, Drafting, CallKnows
  <2> QED BY <2>3, <2>4, <2>5
<1>12. CASE PostReversal(r)
  <2>1. pc[r] \in DecidingAt /\ call[r].id \in Ids /\ CallKnows(r)
    BY <1>12, IdsTyped DEF PostReversal, DecidingAt
  <2>3. Keeps /\ OthersWait(r)
    BY <1>12, <2>1 DEF PostReversal, Keeps, OthersWait
  <2>4. KeptByTwo' /\ NothingUnknown'
    BY <1>12, <2>1 DEF PostReversal, KeptByTwo, NothingUnknown, CallKnows, DecidingAt
  <2>5. CallKnows(r)'
    BY <1>12, <2>1 DEF PostReversal, DecidingAt, Reversing, Drafting, CallKnows
  <2> QED BY <2>3, <2>4, <2>5
<1>13. CASE SaveReversed(r)
  <2>1. pc[r] \in DecidingAt /\ pc'[r] = "done"
    BY <1>13 DEF SaveReversed, DecidingAt
  <2>2. PICK m \in Settlements : /\ store' = [store EXCEPT ![call[r].id] = m] /\ m.approver # m.creator
                                 /\ call[r].id \in Ids /\ store[call[r].id] # None
    BY <1>13, <2>1, SaveMovedFacts DEF SaveReversed
  <2>3. Keeps /\ OthersWait(r)
    BY <1>13, <2>1, <2>2 DEF SaveReversed, Keeps, OthersWait
  <2>4. KeptByTwo' /\ NothingUnknown'
    BY <1>13, <2>1, <2>2 DEF SaveReversed, KeptByTwo, NothingUnknown
  <2>5. CallKnows(r)'
    BY <1>13, <2>1, <2>2 DEF SaveReversed, DecidingAt, Reversing, Drafting, CallKnows
  <2> QED BY <2>3, <2>4, <2>5
<1>14. CASE Stop(r)
  <2>3. Keeps /\ OthersWait(r)
    BY <1>14 DEF Stop, Keeps, OthersWait
  <2>4. KeptByTwo' /\ NothingUnknown'
    BY <1>14 DEF Stop, KeptByTwo, NothingUnknown
  <2>5. CallKnows(r)'
    BY <1>14 DEF Stop, DecidingAt, Reversing, Drafting, CallKnows
  <2> QED BY <2>3, <2>4, <2>5
<1> QED BY <1>1, <1>2, <1>3, <1>4, <1>5, <1>6, <1>7, <1>8, <1>9, <1>10, <1>11, <1>12, <1>13, <1>14 DEF Step

LEMMA CallsKept ==
    ASSUME Calls, [Next]_vars
    PROVE  Calls'
<1>1. ASSUME NEW r \in Requests, Step(r) PROVE Calls'
  <2>1. TypeOK' /\ Keeps /\ OthersWait(r) /\ KeptByTwo' /\ NothingUnknown' /\ CallKnows(r)'
    BY <1>1, CallsTypes, CallsOwn DEF Calls
  <2>2. ASSUME NEW q \in Requests \ {r} PROVE CallKnows(q)'
    BY <2>1, CallFrame DEF OthersWait, Calls
  <2> QED BY <2>1, <2>2 DEF Calls
<1>2. CASE Tick
  <2>1. TypeOK'
    BY <1>2, Values DEF Tick, Calls, TypeOK, books, locals, Ids
  <2> QED BY <1>2, <2>1 DEF Tick, Calls, books, locals, KeptByTwo, NothingUnknown, CallKnows
<1>3. CASE UNCHANGED vars
  BY <1>3 DEF vars, Calls, TypeOK, KeptByTwo, NothingUnknown, CallKnows
<1> QED BY <1>1, <1>2, <1>3 DEF Next, Finished

LEMMA CallsInit == Init => Calls
<1> SUFFICES ASSUME Init PROVE Calls
  OBVIOUS
<1>1. Sound(store) /\ store \in [Ids -> Settlements \cup {None}]
  BY StartsAssumption DEF Init
<1>2. TypeOK
  BY <1>1, Values DEF Init, TypeOK
<1> QED BY <1>1, <1>2 DEF Init, Calls, Sound, KeptByTwo, NothingUnknown, CallKnows, Drafting, DecidingAt, Reversing

THEOREM CallsHold == Spec => []Calls
  BY CallsInit, CallsKept, PTL DEF Spec

(* The service's state keeps its type: above all, a record is saved with a  *)
(* status of the table and with trips, key and people of the known ones.    *)
THEOREM TypesHold == Spec => []TypeOK
<1>1. Calls => TypeOK
  BY DEF Calls
<1> QED BY <1>1, CallsHold, PTL

(* Dual control survives every overlap, interruption and collision of ids:  *)
(* approve compares its actor with the creator of the copy it read, and a   *)
(* save writes that very copy.                                              *)
THEOREM CreatorNeverApproves == Spec => []FourEyes
<1>1. Calls => FourEyes
  BY DEF Calls, KeptByTwo, FourEyes, Exists
<1> QED BY <1>1, CallsHold, PTL

-----------------------------------------------------------------------------
(* What a step of a call can do to the record of a settlement: leave it     *)
(* alone, write a new draft, or save the copy it moved on.                  *)
Saved(r) ==
    /\ pc[r] \in DecidingAt /\ pc'[r] = "done"
    /\ SaveMoved(r)
    /\ Raced(r) \subseteq scars'
    /\ call[r].op = "close" => pc[r] = "booked" /\ SharesTrips(r) \subseteq scars'

LEMMA StepShape ==
    ASSUME Calls, NEW r \in Requests, Step(r)
    PROVE  /\ OthersWait(r) /\ scars \subseteq scars'
           /\ store' = store \/ SaveDraft(r) \/ Saved(r)
           /\ pc'[r] \in Drafting =>
                 \/ \E d \in Drafts : AskDraft(r, d)
                 \/ pc[r] \in Drafting /\ call' = call /\ store' = store
           /\ pc'[r] \in DecidingAt =>
                 \/ \E c \in Commands : Read(r, c)
                 \/ pc[r] \in DecidingAt /\ call' = call /\ copy' = copy /\ store' = store
<1> DEFINE Shape ==
           /\ scars \subseteq scars'
           /\ store' = store \/ SaveDraft(r) \/ Saved(r)
           /\ pc'[r] \in Drafting =>
                 \/ \E d \in Drafts : AskDraft(r, d)
                 \/ pc[r] \in Drafting /\ call' = call /\ store' = store
           /\ pc'[r] \in DecidingAt =>
                 \/ \E c \in Commands : Read(r, c)
                 \/ pc[r] \in DecidingAt /\ call' = call /\ copy' = copy /\ store' = store
<1>0. OthersWait(r) /\ pc \in [Requests -> {"new", "asked", "previewed", "rechecked", "read",
                            "booked", "found", "marked", "mirrored", "done"}]
  BY CallsTypes, CallsOwn DEF Calls, TypeOK
<1> USE <1>0 DEF Goto, Drafting, DecidingAt
<1>1. ASSUME NEW d \in Drafts, AskDraft(r, d) PROVE Shape
  <2>1. /\ store' = store \/ SaveDraft(r)
        /\ scars \subseteq scars' /\ pc'[r] \in Drafting \cup {"done"}
    BY <1>1 DEF AskDraft
  <2> QED BY <1>1, <2>1
<1>2. CASE Preview(r)
  BY <1>2 DEF Preview
<1>3. CASE Recheck(r)
  BY <1>3 DEF Recheck
<1>4. CASE SaveDraft(r)
  <2>1. /\ store' = store \/ SaveDraft(r)
        /\ scars \subseteq scars' /\ pc'[r] \in {} \cup {"done"}
    BY <1>4 DEF SaveDraft
  <2> QED BY <1>4, <2>1
<1>5. ASSUME NEW c \in Commands, Read(r, c) PROVE Shape
  <2>1. /\ store' = store \/ SaveDraft(r)
        /\ scars \subseteq scars' /\ pc'[r] \in DecidingAt \cup {"done"}
    BY <1>5 DEF Read
  <2> QED BY <1>5, <2>1
<1>6. CASE SaveReview(r)
  BY <1>6, Targets DEF SaveReview, Saved, SaveMoved, Calls, CallKnows, Reversing
<1>7. ASSUME NEW t \in Trips, LookUpTrip(r, t) PROVE Shape
  BY <1>7 DEF LookUpTrip
<1>8. CASE PostEntry(r)
  BY <1>8 DEF PostEntry
<1>9. CASE SaveClosed(r)
  BY <1>9, Targets DEF SaveClosed, Saved, SaveMoved, Calls, CallKnows, Reversing
<1>10. CASE FindEntry(r)
  BY <1>10 DEF FindEntry
<1>11. CASE MarkEntry(r)
  BY <1>11 DEF MarkEntry
<1>12. CASE PostReversal(r)
  BY <1>12 DEF PostReversal
<1>13. CASE SaveReversed(r)
  BY <1>13, Targets DEF SaveReversed, Saved, SaveMoved, Calls, CallKnows, Reversing
<1>14. CASE Stop(r)
  BY <1>14 DEF Stop
<1>15. Shape
  BY <1>1, <1>2, <1>3, <1>4, <1>5, <1>6, <1>7, <1>8, <1>9, <1>10, <1>11, <1>12, <1>13, <1>14 DEF Step
<1> QED BY <1>15

-----------------------------------------------------------------------------
(* Copies: the copy a call decides on is the record itself unless another   *)
(* call has saved meanwhile, and even then it has the key and the trips;    *)
(* and a draft that is being made knows every settlement under its key.     *)
Current(r) == pc[r] \in DecidingAt =>
    /\ Untouched(call[r].id, {"race", "clash"}) => copy[r] = store[call[r].id]
    /\ Untouched(call[r].id, {"clash"}) =>
          /\ copy[r].key = store[call[r].id].key
          /\ copy[r].trips = store[call[r].id].trips

KeysSeen(r) == pc[r] \in Drafting =>
    \A s \in Ids : store[s] # None /\ store[s].key = call[r].key =>
        ~Untouched(s, {"key", "clash"})

Copies == OneDraftPerKey /\ \A r \in Requests : Current(r) /\ KeysSeen(r)

LEMMA Scarred ==
    ASSUME scars \subseteq scars'
    PROVE  \A s, C : Untouched(s, C)' => Untouched(s, C)
  BY DEF Untouched

LEMMA HoldersRaced ==
    ASSUME Calls, NEW r \in Requests, Raced(r) \subseteq scars',
           NEW q \in Requests \ {r}, pc[q] \in DecidingAt, call[q].id = call[r].id
    PROVE  <<call[r].id, "race">> \in scars'
<1>1. q \in Holders(r, call[r].id)
  BY DEF Holders, Deciding, DecidingAt
<1> QED BY <1>1 DEF Raced

(* A call's own copy stays current, and the others' where they are not      *)
(* scarred by the step.                                                     *)
LEMMA CurrentKept ==
    ASSUME Calls, Calls', Copies, NEW r \in Requests, Step(r), NEW q \in Requests
    PROVE  Current(q)'
<1>1. /\ OthersWait(r) /\ scars \subseteq scars'
      /\ store' = store \/ SaveDraft(r) \/ Saved(r)
      /\ pc'[r] \in DecidingAt =>
            \/ \E c \in Commands : Read(r, c)
            \/ pc[r] \in DecidingAt /\ call' = call /\ copy' = copy /\ store' = store
  BY StepShape
<1>2. Current(q) /\ Current(r) /\ TypeOK
  BY DEF Copies, Calls
<1>3. CASE q = r
  <2> SUFFICES ASSUME pc'[r] \in DecidingAt PROVE Current(r)'
    BY <1>3 DEF Current
  <2>1. ASSUME NEW c \in Commands, Read(r, c) PROVE Current(r)'
    <3>1. copy'[r] = store[c.id] /\ call'[r] = c /\ store' = store
      BY <2>1, <1>2 DEF Read, TypeOK
    <3> QED BY <3>1 DEF Current
  <2>2. CASE pc[r] \in DecidingAt /\ call' = call /\ copy' = copy /\ store' = store
    BY <2>2, <1>1, <1>2, Scarred DEF Current
  <2> QED BY <2>1, <2>2, <1>1
<1>4. CASE q # r
  <2>1. pc'[q] = pc[q] /\ call'[q] = call[q] /\ copy'[q] = copy[q]
    BY <1>1, <1>4 DEF OthersWait
  <2> SUFFICES ASSUME pc[q] \in DecidingAt PROVE Current(q)'
    BY <2>1 DEF Current
  <2>2. call[q].id \in Ids /\ store[call[q].id] # None
    BY IdsTyped DEF Calls, CallKnows
  <2>3. CASE store'[call[q].id] = store[call[q].id]
    BY <2>1, <2>3, <1>1, <1>2, Scarred DEF Current
  <2>4. CASE SaveDraft(r) /\ call[q].id = clock
    <3>1. <<call[q].id, "clash">> \in scars'
      BY <2>2, <2>4 DEF SaveDraft, Exists
    <3> QED BY <2>1, <3>1 DEF Current, Untouched
  <2>5. CASE Saved(r) /\ call[q].id = call[r].id
    <3>1. PICK m \in Settlements : /\ store' = [store EXCEPT ![call[r].id] = m]
                                   /\ m.key = copy[r].key /\ m.trips = copy[r].trips
      BY <2>5, SaveMovedFacts DEF Saved
    <3>2. store'[call[q].id] = m
      BY <3>1, <2>2, <2>5, <1>2 DEF TypeOK
    <3>3. <<call[q].id, "race">> \in scars'
      BY <2>5, <1>4, HoldersRaced DEF Saved
    <3>4. ASSUME Untouched(call[q].id, {"clash"})'
          PROVE  copy[q].key = m.key /\ copy[q].trips = m.trips
      <4>1. Untouched(call[q].id, {"clash"}) /\ Untouched(call[r].id, {"clash"})
        BY <3>4, <2>1, <1>1, <2>5, Scarred
      <4>2. pc[r] \in DecidingAt
        BY <2>5 DEF Saved
      <4>3. copy[r].key = store[call[r].id].key /\ copy[r].trips = store[call[r].id].trips
        BY <4>1, <4>2, <1>2 DEF Current
      <4>4. copy[q].key = store[call[q].id].key /\ copy[q].trips = store[call[q].id].trips
        BY <4>1, <1>2 DEF Current
      <4> QED BY <4>3, <4>4, <3>1, <2>5
    <3> QED BY <2>1, <3>2, <3>3, <3>4 DEF Current, Untouched
  <2>6. CASE Saved(r) /\ call[q].id # call[r].id
    <3>1. store'[call[q].id] = store[call[q].id]
      BY <2>6, <2>2, <1>2, IdsTyped DEF Saved, SaveMoved, TypeOK
    <3> QED BY <3>1, <2>3
  <2>7. CASE SaveDraft(r) /\ call[q].id # clock
    <3>1. store'[call[q].id] = store[call[q].id]
      BY <2>7, <2>2, <1>2 DEF SaveDraft, TypeOK
    <3> QED BY <3>1, <2>3
  <2> QED BY <1>1, <2>3, <2>4, <2>5, <2>6, <2>7
<1> QED BY <1>3, <1>4

(* A record that is written keeps its key, unless it is scarred by a clash. *)
LEMMA KeyStays ==
    ASSUME Calls, Copies, NEW r \in Requests, Step(r), ~SaveDraft(r),
           NEW s \in Ids, store'[s] # None
    PROVE  /\ store[s] # None
           /\ Untouched(s, {"clash"})' => store'[s].key = store[s].key
<1>1. scars \subseteq scars' /\ (store' = store \/ Saved(r))
  BY StepShape
<1>2. CASE Saved(r)
  <2>1. PICK m \in Settlements : /\ store' = [store EXCEPT ![call[r].id] = m]
                                 /\ call[r].id \in Ids /\ store[call[r].id] # None
                                 /\ m.key = copy[r].key
    BY <1>2, SaveMovedFacts DEF Saved
  <2>2. CASE s # call[r].id
    BY <2>1, <2>2 DEF Calls, TypeOK
  <2>3. CASE s = call[r].id
    <3>1. store'[s] = m
      BY <2>1, <2>3 DEF Calls, TypeOK
    <3>2. Untouched(s, {"clash"}) => copy[r].key = store[s].key
      BY <1>2, <2>3 DEF Copies, Current, Saved
    <3> QED BY <3>1, <3>2, <2>1, <2>3, <1>1, Scarred
  <2> QED BY <2>2, <2>3
<1> QED BY <1>1, <1>2

LEMMA Drafted ==
    ASSUME Calls, NEW r \in Requests, SaveDraft(r)
    PROVE  /\ store'[clock].key = call[r].key /\ store'[clock].status = "draft"
           /\ store' = [store EXCEPT ![clock] = store'[clock]] /\ clock \in Ids
           /\ pc[r] \in Drafting /\ pc'[r] = "done"
           /\ \A s \in Ids \ {clock} : store'[s] = store[s]
  BY DEF SaveDraft, NewSettlement, Calls, TypeOK, Drafting, Goto

LEMMA KeysKept ==
    ASSUME Calls, Calls', Copies, NEW r \in Requests, Step(r)
    PROVE  OneDraftPerKey' /\ \A q \in Requests : KeysSeen(q)'
<1>1. /\ OthersWait(r) /\ scars \subseteq scars'
      /\ pc'[r] \in Drafting =>
            \/ \E d \in Drafts : AskDraft(r, d)
            \/ pc[r] \in Drafting /\ call' = call /\ store' = store
  BY StepShape
<1>2. CASE SaveDraft(r)
  <2>1. /\ store'[clock].key = call[r].key /\ clock \in Ids
        /\ pc[r] \in Drafting /\ pc'[r] = "done"
        /\ \A s \in Ids \ {clock} : store'[s] = store[s]
    BY <1>2, Drafted
  <2>2. \A s \in Ids : store[s] # None /\ store[s].key = call[r].key =>
              ~Untouched(s, {"key", "clash"})
    BY <2>1 DEF Copies, KeysSeen
  <2>3. OneDraftPerKey'
    <3> SUFFICES ASSUME NEW s \in Ids, NEW u \in Ids, s # u, Exists(s)', Exists(u)',
                        store'[s].key = store'[u].key,
                        Untouched(s, {"key", "clash"})', Untouched(u, {"key", "clash"})'
                 PROVE  FALSE
      BY DEF OneDraftPerKey
    <3>1. Untouched(s, {"key", "clash"}) /\ Untouched(u, {"key", "clash"})
      BY <1>1, Scarred
    <3>2. CASE s # clock /\ u # clock
      BY <3>1, <3>2, <2>1 DEF Copies, OneDraftPerKey, Exists
    <3>3. CASE s = clock
      BY <3>1, <3>3, <2>1, <2>2 DEF Exists
    <3>4. CASE u = clock
      BY <3>1, <3>4, <2>1, <2>2 DEF Exists
    <3> QED BY <3>2, <3>3, <3>4
  <2>4. ASSUME NEW q \in Requests, pc'[q] \in Drafting,
               NEW s \in Ids, store'[s] # None, store'[s].key = call'[q].key,
               Untouched(s, {"key", "clash"})'
        PROVE  FALSE
    <3>1. q # r
      BY <2>1, <2>4 DEF Drafting
    <3>2. pc'[q] = pc[q] /\ call'[q] = call[q]
      BY <3>1, <1>1 DEF OthersWait
    <3>3. CASE s # clock
      BY <3>2, <3>3, <2>1, <2>4, <1>1, Scarred DEF Copies, KeysSeen
    <3>4. CASE s = clock
      <4>1. q \in SameKey(r)
        BY <3>1, <3>2, <3>4, <2>1, <2>4 DEF SameKey, Drafting
      <4>2. <<clock, "key">> \in scars'
        BY <4>1, <1>2 DEF SaveDraft
      <4> QED BY <4>2, <3>4, <2>4 DEF Untouched
    <3> QED BY <3>3, <3>4
  <2> QED BY <2>3, <2>4 DEF KeysSeen
<1>3. CASE ~SaveDraft(r)
  <2>1. \A s \in Ids : store'[s] # None =>
            /\ store[s] # None
            /\ Untouched(s, {"key", "clash"})' =>
                  store'[s].key = store[s].key /\ Untouched(s, {"key", "clash"})
    <3>1. \A s : Untouched(s, {"key", "clash"})' => Untouched(s, {"clash"})'
      BY DEF Untouched
    <3> QED BY <3>1, <1>1, <1>3, KeyStays, Scarred
  <2>2. OneDraftPerKey'
    BY <2>1 DEF Copies, OneDraftPerKey, Exists
  <2>3. ASSUME NEW q \in Requests, pc'[q] \in Drafting,
               NEW s \in Ids, store'[s] # None, store'[s].key = call'[q].key,
               Untouched(s, {"key", "clash"})'
        PROVE  FALSE
    <3>1. CASE pc[q] \in Drafting /\ call'[q] = call[q]
      BY <3>1, <2>1, <2>3 DEF Copies, KeysSeen
    <3>2. ASSUME q = r, NEW d \in Drafts, AskDraft(r, d) PROVE FALSE
      <4>1. call'[r] = d /\ pc'[r] = IF UnderKey(d.key) = {} THEN "asked" ELSE "done"
        BY <3>2 DEF AskDraft, Goto, Calls, TypeOK
      <4>2. UnderKey(d.key) = {}
        BY <4>1, <3>2, <2>3 DEF Drafting
      <4> QED BY <4>1, <4>2, <3>2, <2>1, <2>3 DEF UnderKey, Exists
    <3>3. q # r => pc'[q] = pc[q] /\ call'[q] = call[q]
      BY <1>1 DEF OthersWait
    <3> QED BY <3>1, <3>2, <3>3, <2>3, <1>1
  <2> QED BY <2>2, <2>3 DEF KeysSeen
<1> QED BY <1>2, <1>3

LEMMA CopiesKept ==
    ASSUME Calls, Calls', Copies, [Next]_vars
    PROVE  Copies'
<1>1. CASE \E r \in Requests : Step(r)
  BY <1>1, CurrentKept, KeysKept DEF Copies
<1>2. CASE UNCHANGED <<store, pc, call, copy, scars>>
  BY <1>2 DEF Copies, Current, KeysSeen, OneDraftPerKey, Exists, Untouched
<1> QED BY <1>1, <1>2 DEF Next, Tick, Finished, vars, locals

LEMMA CopiesInit == Init => Copies
<1> SUFFICES ASSUME Init PROVE Copies
  OBVIOUS
<1>1. Sound(store)
  BY StartsAssumption DEF Init
<1> QED BY <1>1 DEF Init, Sound, Copies, OneDraftPerKey, Exists, Current, KeysSeen, DecidingAt, Drafting

LEMMA CopiesHold == Spec => [](Calls /\ Copies)
<1>1. Init => Calls /\ Copies
  BY CallsInit, CopiesInit
<1>2. Calls /\ Copies /\ [Next]_vars => (Calls /\ Copies)'
  BY CallsKept, CopiesKept
<1> QED BY <1>1, <1>2, PTL DEF Spec

(* One idempotency key never names two drafts, for any number of calls,     *)
(* unless they overlapped inside createDraft or two drafts shared an id.    *)
THEOREM KeysNameOneDraft == Spec => []OneDraftPerKey
<1>1. Calls /\ Copies => OneDraftPerKey
  BY DEF Copies
<1> QED BY <1>1, CopiesHold, PTL

(* The status of a settlement only moves along assertTransition's table,    *)
(* except where a save overwrote the work of an overlapping call or of      *)
(* another settlement with the same id.                                     *)
THEOREM StatusesFollowTheTable == Spec => StatusesMoveOn
<1> DEFINE Move == \A s \in Ids : Exists(s) /\ store'[s].status # store[s].status =>
          \/ <<store[s].status, store'[s].status>> \in Moves
          \/ scars' \cap {<<s, "race">>, <<s, "clash">>} # {}
<1>1. ASSUME Calls, Copies, NEW r \in Requests, Step(r) PROVE Move
  <2> SUFFICES ASSUME NEW s \in Ids, Exists(s), store'[s].status # store[s].status
               PROVE  \/ <<store[s].status, store'[s].status>> \in Moves
                      \/ <<s, "race">> \in scars' \/ <<s, "clash">> \in scars'
    OBVIOUS
  <2>1. scars \subseteq scars' /\ (store' = store \/ SaveDraft(r) \/ Saved(r))
    BY <1>1, StepShape
  <2>2. CASE SaveDraft(r)
    <3>1. s = clock
      BY <1>1, <2>2, Drafted
    <3> QED BY <2>2, <3>1 DEF SaveDraft
  <2>3. CASE Saved(r)
    <3>1. PICK m \in Settlements : /\ store' = [store EXCEPT ![call[r].id] = m]
                                   /\ call[r].id \in Ids /\ m.status = Target[call[r].op]
      BY <1>1, <2>3, SaveMovedFacts DEF Saved
    <3>2. s = call[r].id /\ store'[s] = m
      BY <1>1, <3>1 DEF Calls, TypeOK
    <3>3. MayMove(call[r].actor, call[r].op, copy[r]) /\ Current(r)
      BY <1>1, <2>3 DEF Calls, CallKnows, Copies, Saved
    <3>4. CASE Untouched(s, {"race", "clash"})
      <4>1. copy[r] = store[s]
        BY <3>2, <3>3, <3>4, <2>3 DEF Current, Saved
      <4> QED BY <4>1, <3>1, <3>2, <3>3 DEF MayMove
    <3>5. CASE ~Untouched(s, {"race", "clash"})
      BY <3>5, <2>1 DEF Untouched
    <3> QED BY <3>4, <3>5
  <2> QED BY <2>1, <2>2, <2>3
<1>2. Calls /\ Copies /\ [Next]_vars => [Move]_vars
  <2> SUFFICES ASSUME Calls, Copies, Next PROVE Move
    BY DEF vars
  <2>1. CASE store' = store
    BY <2>1
  <2> QED BY <1>1, <2>1 DEF Next, Tick, Finished, vars
<1> QED BY <1>2, CopiesHold, PTL DEF Spec, StatusesMoveOn

-----------------------------------------------------------------------------
(* Lookups: a trip that a closing has looked up is in no other closed       *)
(* settlement, or both settlements are scarred; two closings that have both *)
(* posted have no trip in common, or are scarred.                           *)
Scars(s, u) == {<<s, "trips">>, <<u, "trips">>} \subseteq scars

TripsSeen(r) ==
    \A t \in LookedUp(r) : \A s \in ClosedWith(t) :
        s # call[r].id => Scars(s, call[r].id)

BookedApart ==
    \A q, r \in Requests :
        /\ pc[q] = "booked" /\ pc[r] = "booked"
        /\ call[q].id # call[r].id /\ copy[q].trips \cap copy[r].trips # {}
        => Scars(call[q].id, call[r].id)

ClosedApart ==
    \A s, u \in Ids : \A t \in Trips :
        s # u /\ s \in ClosedWith(t) /\ u \in ClosedWith(t) => Scars(s, u)

Lookups == ClosedApart /\ BookedApart /\ \A r \in Requests : TripsSeen(r)

(* The newest closed settlement of a trip exists if any does, so a trip is  *)
(* free for s only if s has it or nobody.                                   *)
LEMMA FreeTrip ==
    ASSUME NEW t \in Trips, NEW s \in Ids, TripFree(t, s), ClosedWith(t) # {}
    PROVE  s \in ClosedWith(t)
<1> DEFINE Gap == {MaxClock - u : u \in ClosedWith(t)}
<1>1. ClosedWith(t) \subseteq 0..MaxClock /\ MaxClock \in Nat
  BY ClockAssumption DEF ClosedWith, Ids
<1>2. Gap \subseteq Nat /\ Gap # {}
  BY <1>1
<1>3. PICK g \in Gap : \A h \in Gap : ~(<<h, g>> \in OpToRel(<, Nat))
  BY <1>2, NatLessThanWellFounded, WFMin
<1>4. PICK u \in ClosedWith(t) : g = MaxClock - u
  BY <1>3
<1>5. \A v \in ClosedWith(t) : v <= u
  <2> SUFFICES ASSUME NEW v \in ClosedWith(t) PROVE v <= u
    OBVIOUS
  <2>1. MaxClock - v \in Gap /\ MaxClock - v \in Nat /\ g \in Nat
    BY <1>2
  <2>2. ~(MaxClock - v < g)
    BY <1>3, <2>1 DEF OpToRel
  <2>3. v \in Nat /\ u \in Nat /\ MaxClock \in Nat
    BY <1>1
  <2> QED BY <2>2, <2>3, <1>4
<1>6. FirstClosed(t) \in ClosedWith(t)
  BY <1>5 DEF FirstClosed
<1>7. FirstClosed(t) # None
  BY <1>6, Values DEF ClosedWith
<1> QED BY <1>6, <1>7 DEF TripFree

(* What a step adds to the closed settlements of a trip: the one a closing  *)
(* saves, with the trips of its copy.                                       *)
LEMMA ClosedGrows ==
    ASSUME Calls, NEW r \in Requests, Step(r), NEW t \in Trips,
           NEW s \in ClosedWith(t)', s \notin ClosedWith(t)
    PROVE  /\ Saved(r) /\ pc[r] = "booked" /\ SharesTrips(r) \subseteq scars'
           /\ s = call[r].id /\ t \in LookedUp(r) /\ t \in copy[r].trips
<1>1. store' = store \/ SaveDraft(r) \/ Saved(r)
  BY StepShape
<1>2. s \in Ids /\ store'[s].status = "closed" /\ t \in store'[s].trips /\ store'[s] # None
  BY DEF ClosedWith, Exists
<1>3. store'[s] # store[s]
  BY <1>2 DEF ClosedWith, Exists
<1>4. ~SaveDraft(r)
  BY <1>2, <1>3, Drafted
<1>5. Saved(r)
  BY <1>1, <1>3, <1>4
<1>6. PICK m \in Settlements : /\ store' = [store EXCEPT ![call[r].id] = m]
                               /\ m.status = Target[call[r].op] /\ m.trips = copy[r].trips
  BY <1>5, SaveMovedFacts DEF Saved
<1>7. s = call[r].id /\ store'[s] = m
  BY <1>2, <1>3, <1>6 DEF Calls, TypeOK
<1>8. call[r].op = "close"
  BY <1>2, <1>5, <1>6, <1>7, IdsTyped, Targets DEF Saved
<1>9. pc[r] = "booked" /\ left[r] = {} /\ SharesTrips(r) \subseteq scars'
  BY <1>5, <1>8 DEF Saved, Calls, CallKnows
<1> QED BY <1>2, <1>5, <1>6, <1>7, <1>8, <1>9 DEF LookedUp, Deciding

LEMMA RivalsScarred ==
    ASSUME NEW r \in Requests, SharesTrips(r) \subseteq scars',
           NEW q \in Requests \ {r}, NEW t, t \in LookedUp(q), t \in copy[r].trips,
           call[q].id # call[r].id
    PROVE  {<<call[q].id, "trips">>, <<call[r].id, "trips">>} \subseteq scars'
<1>1. q \in Rivals(r)
  BY DEF Rivals
<1> QED BY <1>1 DEF SharesTrips

(* What a step of r does to what r has looked up: one trip that is free.    *)
LEMMA LookedUpGrows ==
    ASSUME Calls, NEW r \in Requests, Step(r), NEW t, t \in LookedUp(r)', t \notin LookedUp(r)
    PROVE  /\ t \in Trips /\ TripFree(t, call[r].id)
           /\ call' = call /\ store' = store /\ call[r].id \in Ids
<1>1. pc'[r] \in DecidingAt /\ call'[r].op = "close" /\ t \in copy'[r].trips /\ t \notin left'[r]
  BY DEF LookedUp, Deciding, DecidingAt
<1>2. PICK x \in Trips : LookUpTrip(r, x)
  <2>1. ASSUME NEW c \in Commands, Read(r, c) PROVE FALSE
    <3>1. call'[r] = c /\ copy'[r] = store[c.id]
      BY <2>1 DEF Read, Calls, TypeOK
    <3>2. left'[r] = store[c.id].trips
      BY <2>1, <3>1, <1>1 DEF Read, Calls, TypeOK
    <3> QED BY <1>1, <3>1, <3>2
  <2>2. ASSUME pc[r] \in DecidingAt, call' = call, copy' = copy, left' = left PROVE FALSE
    BY <1>1, <2>2 DEF LookedUp, Deciding, DecidingAt
  <2>3. ASSUME NEW d \in Drafts, AskDraft(r, d) PROVE FALSE
    BY <2>3, <1>1 DEF AskDraft, Goto, Calls, TypeOK, DecidingAt
  <2>4. ~Preview(r) /\ ~Recheck(r) /\ ~SaveDraft(r) /\ ~SaveReview(r) /\ ~Stop(r)
    BY <1>1 DEF Preview, Recheck, SaveDraft, SaveReview, Stop, Goto, Calls, TypeOK, DecidingAt
  <2>5. ~SaveClosed(r) /\ ~SaveReversed(r)
    BY <1>1 DEF SaveClosed, SaveReversed, Goto, Calls, TypeOK, DecidingAt
  <2>6. ~PostEntry(r) /\ ~FindEntry(r) /\ ~MarkEntry(r) /\ ~PostReversal(r)
    BY <2>2 DEF PostEntry, FindEntry, MarkEntry, PostReversal, DecidingAt
  <2> QED BY <2>1, <2>3, <2>4, <2>5, <2>6 DEF Step
<1>3. /\ pc[r] = "read" /\ call' = call /\ store' = store /\ copy' = copy
      /\ \/ left'[r] = left[r]
         \/ left'[r] = left[r] \ {x} /\ TripFree(x, call[r].id)
  BY <1>2 DEF LookUpTrip, Calls, TypeOK, Goto
<1>4. t = x /\ TripFree(x, call[r].id)
  BY <1>1, <1>3 DEF LookedUp, Deciding
<1>5. call[r].id \in Ids
  BY <1>3, IdsTyped DEF DecidingAt
<1> QED BY <1>2, <1>3, <1>4, <1>5

LEMMA LookupsKeptByStep ==
    ASSUME Calls, Lookups, NEW r \in Requests, Step(r)
    PROVE  Lookups'
<1>1. OthersWait(r) /\ scars \subseteq scars'
  BY StepShape
<1>2. ASSUME NEW q \in Requests, q # r
      PROVE  LookedUp(q)' = LookedUp(q) /\ call'[q] = call[q]
  BY <1>1, <1>2 DEF OthersWait, LookedUp, Deciding
<1>3. \A q \in Requests : LookedUp(q) \subseteq Trips
  BY IdsTyped DEF LookedUp, Deciding, DecidingAt
<1>4. ClosedApart'
  <2> SUFFICES ASSUME NEW s \in Ids, NEW u \in Ids, NEW t \in Trips, s # u,
                      s \in ClosedWith(t)', u \in ClosedWith(t)'
               PROVE  Scars(s, u)'
    BY DEF ClosedApart
  <2>1. CASE s \in ClosedWith(t) /\ u \in ClosedWith(t)
    BY <2>1, <1>1 DEF Lookups, ClosedApart, Scars
  <2>2. CASE s \notin ClosedWith(t)
    <3>1. s = call[r].id /\ t \in LookedUp(r)
      BY <2>2, ClosedGrows
    <3>2. u \in ClosedWith(t)
      BY <3>1, ClosedGrows
    <3> QED BY <3>1, <3>2, <1>1 DEF Lookups, TripsSeen, Scars
  <2>3. CASE u \notin ClosedWith(t)
    <3>1. u = call[r].id /\ t \in LookedUp(r)
      BY <2>3, ClosedGrows
    <3>2. s \in ClosedWith(t)
      BY <3>1, ClosedGrows
    <3> QED BY <3>1, <3>2, <1>1 DEF Lookups, TripsSeen, Scars
  <2> QED BY <2>1, <2>2, <2>3
<1>5. ASSUME NEW q \in Requests PROVE TripsSeen(q)'
  <2> SUFFICES ASSUME NEW t, t \in LookedUp(q)', NEW s \in ClosedWith(t)', s # call'[q].id
               PROVE  Scars(s, call[q].id)'
    BY DEF TripsSeen
  <2>1. CASE t \in LookedUp(q) /\ call'[q] = call[q]
    <3>1. CASE s \in ClosedWith(t)
      BY <2>1, <3>1, <1>1 DEF Lookups, TripsSeen, Scars
    <3>2. CASE s \notin ClosedWith(t)
      <4>1. t \in Trips
        BY <2>1, <1>3
      <4>2. /\ SharesTrips(r) \subseteq scars' /\ pc[r] = "booked" /\ Saved(r)
            /\ s = call[r].id /\ t \in copy[r].trips
        BY <4>1, <3>2, ClosedGrows
      <4>3. q # r
        BY <4>2, <2>1
      <4> QED BY <4>2, <4>3, <2>1, RivalsScarred DEF Scars
    <3> QED BY <3>1, <3>2
  <2>2. CASE q = r /\ t \notin LookedUp(r)
    <3>1. /\ t \in Trips /\ TripFree(t, call[r].id)
          /\ call' = call /\ store' = store /\ call[r].id \in Ids
      BY <2>2, LookedUpGrows
    <3>2. s \in ClosedWith(t) /\ s \in Ids
      BY <3>1 DEF ClosedWith, Exists
    <3>3. call[r].id \in ClosedWith(t)
      BY <3>1, <3>2, FreeTrip
    <3> QED BY <3>1, <3>2, <3>3, <2>2, <1>1 DEF Lookups, ClosedApart, Scars
  <2>3. CASE q = r /\ t \in LookedUp(r) /\ call'[q] # call[q]
    <3>1. pc[r] \in DecidingAt /\ pc'[r] \in DecidingAt
      BY <2>3 DEF LookedUp, Deciding, DecidingAt
    <3>2. ~(\E c \in Commands : Read(r, c))
      BY <3>1 DEF Read, DecidingAt
    <3> QED BY <3>1, <3>2, <2>3, StepShape
  <2> QED BY <2>1, <2>2, <2>3, <1>2
<1>6. ASSUME NEW q \in Requests, pc'[q] = "booked", q # r \/ ~PostEntry(r)
      PROVE  pc[q] = "booked" /\ call'[q] = call[q] /\ copy'[q] = copy[q]
  <2>1. CASE q # r
    BY <2>1, <1>1, <1>6 DEF OthersWait
  <2>2. CASE q = r
    <3>1. \A d \in Drafts : ~AskDraft(r, d)
      BY <2>2, <1>6 DEF AskDraft, Goto, Calls, TypeOK
    <3>2. ~Preview(r) /\ ~Recheck(r) /\ ~SaveDraft(r) /\ ~SaveReview(r) /\ ~Stop(r)
      BY <2>2, <1>6 DEF Preview, Recheck, SaveDraft, SaveReview, Stop, Goto, Calls, TypeOK
    <3>3. ~SaveClosed(r) /\ ~SaveReversed(r) /\ ~FindEntry(r) /\ ~MarkEntry(r) /\ ~PostReversal(r)
      BY <2>2, <1>6 DEF SaveClosed, SaveReversed, FindEntry, MarkEntry, PostReversal, Goto, Calls, TypeOK
    <3>4. \A c \in Commands : ~Read(r, c)
      BY <2>2, <1>6 DEF Read, Goto, Calls, TypeOK
    <3>5. \A t \in Trips : ~LookUpTrip(r, t)
      BY <2>2, <1>6 DEF LookUpTrip, Goto, Calls, TypeOK
    <3> QED BY <3>1, <3>2, <3>3, <3>4, <3>5, <2>2, <1>6 DEF Step
  <2> QED BY <2>1, <2>2
<1>7. BookedApart'
  <2>1. CASE ~PostEntry(r)
    BY <2>1, <1>1, <1>6 DEF Lookups, BookedApart, Scars
  <2>2. CASE PostEntry(r)
    <3>1. SharesTrips(r) \subseteq scars' /\ call' = call /\ copy' = copy
      BY <2>2 DEF PostEntry
    <3>2. ASSUME NEW q \in Requests, q # r, pc'[q] = "booked", call[q].id # call[r].id,
                 copy[q].trips \cap copy[r].trips # {}
          PROVE  {<<call[q].id, "trips">>, <<call[r].id, "trips">>} \subseteq scars'
      <4>1. pc[q] = "booked"
        BY <3>2, <1>6
      <4>2. call[q].op = "close" /\ left[q] = {}
        BY <4>1 DEF Calls, CallKnows
      <4>3. LookedUp(q) = copy[q].trips
        BY <4>1, <4>2 DEF LookedUp, Deciding
      <4> QED BY <3>1, <3>2, <4>3, RivalsScarred
    <3>3. ASSUME NEW q \in Requests, NEW p \in Requests, q # r, p # r,
                 pc'[q] = "booked", pc'[p] = "booked", call[q].id # call[p].id,
                 copy[q].trips \cap copy[p].trips # {}
          PROVE  Scars(call[q].id, call[p].id)
      BY <3>3, <1>6 DEF Lookups, BookedApart
    <3> QED BY <3>1, <3>2, <3>3, <1>1 DEF BookedApart, Scars
  <2> QED BY <2>1, <2>2
<1> QED BY <1>4, <1>5, <1>7 DEF Lookups

LEMMA LookupsKept ==
    ASSUME Calls, Lookups, [Next]_vars
    PROVE  Lookups'
<1>1. CASE UNCHANGED <<store, pc, call, copy, left, scars>>
  BY <1>1 DEF Lookups, ClosedApart, BookedApart, TripsSeen, Scars, ClosedWith, Exists, LookedUp, Deciding
<1> QED BY <1>1, LookupsKeptByStep DEF Next, Tick, Finished, vars, locals

LEMMA LookupsInit == Init => Lookups
<1> SUFFICES ASSUME Init PROVE Lookups
  OBVIOUS
<1>1. Sound(store)
  BY StartsAssumption DEF Init
<1>2. ClosedApart
  BY <1>1 DEF Sound, ClosedApart, ClosedWith, Exists
<1> QED BY <1>2 DEF Init, Lookups, BookedApart, TripsSeen, LookedUp, Deciding

LEMMA LookupsHold == Spec => [](Calls /\ Copies /\ Lookups)
<1>1. Init => Calls /\ Copies /\ Lookups
  BY CallsInit, CopiesInit, LookupsInit
<1>2. Calls /\ Copies /\ Lookups /\ [Next]_vars => (Calls /\ Copies /\ Lookups)'
  BY CallsKept, CopiesKept, LookupsKept
<1> QED BY <1>1, <1>2, PTL DEF Spec

(* No trip stands in two closed settlements, for any number of settlements  *)
(* and trips, unless the two closings overlapped and the record says so.    *)
THEOREM TripsCloseOnce == Spec => []OneClosedPerTrip
<1>1. Lookups => OneClosedPerTrip
  <2> SUFFICES ASSUME ClosedApart, NEW s \in Ids, NEW u \in Ids, NEW t \in Trips, s # u,
                      s \in ClosedWith(t), u \in ClosedWith(t)
               PROVE  {s, u} \X {"trips"} \subseteq scars
    BY DEF Lookups, OneClosedPerTrip
  <2>1. Scars(s, u)
    BY DEF ClosedApart
  <2> QED BY <2>1 DEF Scars
<1> QED BY <1>1, LookupsHold, PTL

-----------------------------------------------------------------------------
(* Journal: where nothing raced, failed or clashed, the entries of a        *)
(* settlement are those of its status, and a call between two saves knows   *)
(* what stands in the journal and is the only one there.                    *)
Calm(s) == Untouched(s, {"race", "failure", "clash"})

Fits(s) ==
    /\ store[s].status = "closed" =>
          /\ posted[s] # None /\ posted[s].trips = store[s].trips
          /\ posted[s].reversed => Under(s, {"marked", "mirrored"})
          /\ mirrored[s] # None => Under(s, {"mirrored"})
    /\ store[s].status = "reversed" =>
          /\ posted[s] = [trips |-> store[s].trips, reversed |-> TRUE]
          /\ mirrored[s] = [trips |-> store[s].trips, reversed |-> FALSE]
    /\ store[s].status \notin {"closed", "reversed"} =>
          /\ posted[s] # None => Under(s, {"booked"})
          /\ mirrored[s] = None

BookKnows(r) == pc[r] \in DecidingAt /\ Calm(call[r].id) =>
    /\ pc[r] = "booked" =>
          posted[call[r].id] = Entry(copy[r].trips) /\ mirrored[call[r].id] = None
    /\ pc[r] \in Reversing => found[r].trips = copy[r].trips
    /\ pc[r] = "found" => posted[call[r].id] = found[r] /\ mirrored[call[r].id] = None
    /\ pc[r] = "marked" => posted[call[r].id] = Marked(found[r]) /\ mirrored[call[r].id] = None
    /\ pc[r] = "mirrored" =>
          posted[call[r].id] = Marked(found[r]) /\ mirrored[call[r].id] = Mirror(found[r])

Alone ==
    \A q, r \in Requests :
        pc[q] \in BetweenSaves /\ pc[r] \in BetweenSaves /\ call[q].id = call[r].id /\ q # r
        => ~Calm(call[r].id)

BooksFit == \A s \in Ids : store[s] # None /\ Calm(s) => Fits(s)

Journal == BooksFit /\ Alone /\ \A r \in Requests : BookKnows(r)

LEMMA CalmFacts ==
    /\ \A s : Calm(s) => Untouched(s, {"race", "clash"}) /\ Untouched(s, {"clash"})
    /\ scars \subseteq scars' => \A s : Calm(s)' => Calm(s)
    /\ \A s : Calm(s) <=> <<s, "race">> \notin scars /\ <<s, "failure">> \notin scars /\ <<s, "clash">> \notin scars
    /\ \A s : Calm(s)' <=> <<s, "race">> \notin scars' /\ <<s, "failure">> \notin scars' /\ <<s, "clash">> \notin scars'
  BY DEF Calm, Untouched

(* What a call that decides about a calm settlement can rely on.            *)
LEMMA Known ==
    ASSUME Calls, Copies, Journal, NEW r \in Requests, pc[r] \in DecidingAt, Calm(call[r].id)
    PROVE  /\ call[r].id \in Ids /\ store[call[r].id] # None /\ copy[r] = store[call[r].id]
           /\ MayMove(call[r].actor, call[r].op, store[call[r].id])
           /\ call[r].op = "close" => store[call[r].id].status = "approved"
           /\ call[r].op = "reverse" => store[call[r].id].status = "closed"
           /\ call[r].op \in {"submit", "approve", "reject"} =>
                 store[call[r].id].status \notin {"closed", "reversed", "approved"}
           /\ call[r].op \in Ops
           /\ Fits(call[r].id) /\ BookKnows(r) /\ CallKnows(r)
<1>1. CallKnows(r) /\ Current(r) /\ BookKnows(r) /\ BooksFit
  BY DEF Calls, Copies, Journal
<1>2. call[r].id \in Ids /\ call[r].op \in Ops /\ store[call[r].id] # None
  BY <1>1, IdsTyped DEF CallKnows
<1>3. copy[r] = store[call[r].id]
  BY <1>1, CalmFacts DEF Current
<1>4. MayMove(call[r].actor, call[r].op, store[call[r].id])
  BY <1>1, <1>3 DEF CallKnows
<1>5. <<store[call[r].id].status, Target[call[r].op]>> \in Moves
  BY <1>4 DEF MayMove
<1>6. /\ call[r].op = "close" => store[call[r].id].status = "approved"
      /\ call[r].op = "reverse" => store[call[r].id].status = "closed"
      /\ call[r].op \in {"submit", "approve", "reject"} =>
            store[call[r].id].status \notin {"closed", "reversed", "approved"}
  BY <1>2, <1>5, Targets
<1>7. Fits(call[r].id)
  BY <1>1, <1>2 DEF BooksFit
<1> QED BY <1>1, <1>2, <1>3, <1>4, <1>6, <1>7

(* A settlement whose records a step leaves alone still fits, if the step   *)
(* is not one of a call between two saves on it.                            *)
LEMMA FitsFrame ==
    ASSUME Calls, Journal, NEW r \in Requests, OthersWait(r), scars \subseteq scars',
           NEW s \in Ids, store[s] # None, Calm(s)',
           store'[s] = store[s], posted'[s] = posted[s], mirrored'[s] = mirrored[s],
           pc[r] \in BetweenSaves => call[r].id # s
    PROVE  Fits(s)'
<1>1. Fits(s)
  BY CalmFacts DEF Journal, BooksFit
<1>2. ASSUME NEW L, L \subseteq BetweenSaves, Under(s, L) PROVE Under(s, L)'
  <2>1. PICK q \in Requests : pc[q] \in L /\ call[q].id = s
    BY <1>2 DEF Under
  <2>2. q # r
    BY <1>2, <2>1
  <2> QED BY <2>1, <2>2 DEF Under, OthersWait
<1>3. {"marked", "mirrored"} \subseteq BetweenSaves /\ {"mirrored"} \subseteq BetweenSaves
      /\ {"booked"} \subseteq BetweenSaves
  BY DEF BetweenSaves
<1>4. /\ Under(s, {"marked", "mirrored"}) => Under(s, {"marked", "mirrored"})'
      /\ Under(s, {"mirrored"}) => Under(s, {"mirrored"})'
      /\ Under(s, {"booked"}) => Under(s, {"booked"})'
  BY <1>2, <1>3
<1> QED BY <1>1, <1>4 DEF Fits

(* No other call decides about a settlement that stays calm when a call     *)
(* that reports its races saves.                                            *)
LEMMA NobodyElse ==
    ASSUME Calls, NEW r \in Requests, Raced(r) \subseteq scars', Calm(call[r].id)',
           call'[r] = call[r]
    PROVE  \A q \in Requests \ {r} : pc[q] \in DecidingAt => call[q].id # call[r].id
<1> SUFFICES ASSUME NEW q \in Requests \ {r}, pc[q] \in DecidingAt, call[q].id = call[r].id
             PROVE  FALSE
  OBVIOUS
<1>1. <<call[r].id, "race">> \in scars'
  BY HoldersRaced
<1> QED BY <1>1, CalmFacts

(* The steps that neither write a store nor enter or leave the stretch      *)
(* between two saves.                                                       *)
Quiet(r) ==
    /\ UNCHANGED <<store, posted, mirrored>>
    /\ pc[r] \notin BetweenSaves /\ pc'[r] \notin BetweenSaves \cup Reversing

LEMMA StepKinds ==
    ASSUME Calls, NEW r \in Requests, Step(r)
    PROVE  \/ Quiet(r) \/ SaveDraft(r) \/ SaveReview(r) \/ PostEntry(r) \/ SaveClosed(r)
           \/ FindEntry(r) \/ MarkEntry(r) \/ PostReversal(r) \/ SaveReversed(r) \/ Stop(r)
<1> USE DEF Quiet, BetweenSaves, Reversing, Goto, Calls, TypeOK, books
<1>1. ASSUME NEW d \in Drafts, AskDraft(r, d) PROVE Quiet(r)
  BY <1>1 DEF AskDraft
<1>2. ASSUME NEW c \in Commands, Read(r, c) PROVE Quiet(r)
  BY <1>2 DEF Read
<1>3. ASSUME NEW t \in Trips, LookUpTrip(r, t) PROVE Quiet(r)
  BY <1>3 DEF LookUpTrip
<1>4. Preview(r) \/ Recheck(r) => Quiet(r)
  BY DEF Preview, Recheck
<1> QED BY <1>1, <1>2, <1>3, <1>4 DEF Step

(* The books elsewhere than at the settlement of the call.                  *)
LEMMA FitsElsewhere ==
    ASSUME Calls, Journal, NEW r \in Requests, OthersWait(r), scars \subseteq scars', call' = call,
           \A s \in Ids \ {call[r].id} : /\ store'[s] = store[s] /\ posted'[s] = posted[s]
                                         /\ mirrored'[s] = mirrored[s],
           store'[call[r].id] # None /\ Calm(call[r].id)' => Fits(call[r].id)'
    PROVE  BooksFit'
<1> SUFFICES ASSUME NEW s \in Ids, store'[s] # None, Calm(s)' PROVE Fits(s)'
  BY DEF BooksFit
<1>1. CASE s # call[r].id
  <2>1. store'[s] = store[s] /\ posted'[s] = posted[s] /\ mirrored'[s] = mirrored[s]
    BY <1>1
  <2>2. store[s] # None /\ (pc[r] \in BetweenSaves => call[r].id # s)
    BY <1>1, <2>1
  <2> QED BY <2>1, <2>2, FitsFrame
<1> QED BY <1>1

LEMMA FitsKept ==
    ASSUME Calls, Copies, Journal, NEW r \in Requests, Step(r)
    PROVE  BooksFit'
<1>1. OthersWait(r) /\ scars \subseteq scars'
  BY StepShape
<1>t. TypeOK
  BY DEF Calls
<1> DEFINE id == call[r].id
<1>2. CASE Quiet(r)
  <2> SUFFICES ASSUME NEW s \in Ids, store'[s] # None, Calm(s)' PROVE Fits(s)'
    BY DEF BooksFit
  <2> QED BY <1>1, <1>2, FitsFrame DEF Quiet
<1>3. CASE SaveDraft(r)
  <2> SUFFICES ASSUME NEW s \in Ids, store'[s] # None, Calm(s)' PROVE Fits(s)'
    BY DEF BooksFit
  <2>1. pc[r] \notin BetweenSaves /\ posted' = posted /\ mirrored' = mirrored
    BY <1>3 DEF SaveDraft, BetweenSaves, books
  <2>2. /\ store'[clock].status = "draft" /\ clock \in Ids
        /\ \A u \in Ids \ {clock} : store'[u] = store[u]
    BY <1>3, Drafted
  <2>3. CASE s # clock
    BY <2>1, <2>2, <2>3, <1>1, FitsFrame
  <2>4. CASE s = clock
    <3>1. store[clock] = None
      BY <1>3, <2>4, CalmFacts DEF SaveDraft, Exists
    <3>2. posted[clock] = None /\ mirrored[clock] = None
      BY <3>1, <2>2 DEF Calls, NothingUnknown
    <3> QED BY <2>1, <2>2, <2>4, <3>2 DEF Fits
  <2> QED BY <2>3, <2>4
<1>4. CASE Stop(r)
  <2> SUFFICES ASSUME NEW s \in Ids, store'[s] # None, Calm(s)' PROVE Fits(s)'
    BY DEF BooksFit
  <2>1. pc[r] \in BetweenSaves => <<call[r].id, "failure">> \in scars'
    BY <1>4 DEF Stop
  <2>2. UNCHANGED <<store, posted, mirrored>>
    BY <1>4 DEF Stop, books
  <2>3. pc[r] \in BetweenSaves => s # call[r].id
    BY <2>1, CalmFacts
  <2> QED BY <2>2, <2>3, <1>1, FitsFrame
<1>5. CASE FindEntry(r)
  <2> SUFFICES ASSUME NEW s \in Ids, store'[s] # None, Calm(s)' PROVE Fits(s)'
    BY DEF BooksFit
  <2>1. pc[r] \notin BetweenSaves /\ UNCHANGED <<store, posted, mirrored>>
    BY <1>5 DEF FindEntry, BetweenSaves, books
  <2> QED BY <2>1, <1>1, FitsFrame
<1>6. ASSUME pc[r] \in DecidingAt, call' = call, Calm(id)'
      PROVE  /\ id \in Ids /\ store[id] # None /\ copy[r] = store[id] /\ Calm(id)
             /\ call[r].op = "close" => store[id].status = "approved"
             /\ call[r].op = "reverse" => store[id].status = "closed"
             /\ call[r].op \in {"submit", "approve", "reject"} =>
                   store[id].status \notin {"closed", "reversed", "approved"}
             /\ call[r].op \in Ops /\ Fits(id) /\ BookKnows(r) /\ CallKnows(r)
             /\ Raced(r) \subseteq scars' =>
                   \A q \in Requests \ {r} : pc[q] \in DecidingAt => call[q].id # id
  <2>1. Calm(id)
    BY <1>1, <1>6, CalmFacts
  <2> QED BY <2>1, <1>6, Known, NobodyElse
<1>7. CASE SaveReview(r) \/ SaveClosed(r) \/ SaveReversed(r)
  <2>1. /\ pc[r] \in DecidingAt /\ call' = call /\ SaveMoved(r) /\ Raced(r) \subseteq scars'
        /\ posted' = posted /\ mirrored' = mirrored
    BY <1>7 DEF SaveReview, SaveClosed, SaveReversed, DecidingAt, books
  <2>2. PICK m \in Settlements : /\ store' = [store EXCEPT ![id] = m] /\ id \in Ids
                                 /\ m.status = Target[call[r].op] /\ m.trips = copy[r].trips
    BY <2>1, SaveMovedFacts
  <2>3. ASSUME Calm(id)' PROVE Fits(id)'
    <3>1. store'[id] = m
      BY <2>2, <1>t DEF TypeOK
    <3>2. CASE SaveReview(r)
      <4>1. call[r].op \in {"submit", "approve", "reject"} /\ pc[r] = "read"
        BY <3>2 DEF SaveReview
      <4>2. store[id].status \notin {"closed", "reversed"} /\ Fits(id)
        BY <4>1, <2>1, <2>3, <1>6
      <4>3. ~Under(id, {"booked"})
        BY <4>1, <2>1, <2>3, <1>6 DEF Under, DecidingAt
      <4>4. posted[id] = None /\ mirrored[id] = None
        BY <4>2, <4>3 DEF Fits
      <4>5. m.status \notin {"closed", "reversed"}
        BY <4>1, <2>2, Targets
      <4> QED BY <3>1, <4>4, <4>5, <2>1 DEF Fits
    <3>3. CASE SaveClosed(r)
      <4>1. pc[r] = "booked"
        BY <3>3 DEF SaveClosed
      <4>2. call[r].op = "close" /\ posted[id] = Entry(copy[r].trips) /\ mirrored[id] = None
        BY <4>1, <2>1, <2>3, <1>6 DEF BookKnows, CallKnows
      <4>3. m.status = "closed"
        BY <4>2, <2>2 DEF Target
      <4>4. Entry(copy[r].trips) \in Entries /\ Entry(copy[r].trips) # None
        BY <2>1, IdsTyped, Values
      <4> QED BY <3>1, <4>2, <4>3, <4>4, <2>1, <2>2 DEF Fits, Entry
    <3>4. CASE SaveReversed(r)
      <4>1. pc[r] = "mirrored"
        BY <3>4 DEF SaveReversed
      <4>2. /\ call[r].op = "reverse" /\ found[r] \in Entries /\ found[r].trips = copy[r].trips
            /\ posted[id] = Marked(found[r]) /\ mirrored[id] = Mirror(found[r])
        BY <4>1, <2>1, <2>3, <1>6 DEF BookKnows, CallKnows, Reversing
      <4>3. m.status = "reversed"
        BY <4>2, <2>2 DEF Target
      <4>4. /\ Marked(found[r]) = [trips |-> found[r].trips, reversed |-> TRUE]
            /\ Mirror(found[r]) = [trips |-> found[r].trips, reversed |-> FALSE]
        BY <4>2 DEF Marked, Mirror, Entry, Entries
      <4> QED BY <3>1, <4>2, <4>3, <4>4, <2>1, <2>2 DEF Fits
    <3> QED BY <1>7, <3>2, <3>3, <3>4
  <2>4. \A s \in Ids \ {id} : /\ store'[s] = store[s] /\ posted'[s] = posted[s]
                              /\ mirrored'[s] = mirrored[s]
    BY <2>1, <2>2, <1>t DEF TypeOK
  <2> QED BY <2>1, <2>3, <2>4, <1>1, FitsElsewhere
<1>8. CASE PostEntry(r)
  <2>1. /\ pc[r] = "read" /\ pc[r] \in DecidingAt /\ call' = call /\ call[r].op = "close"
        /\ store' = store /\ mirrored' = mirrored /\ pc'[r] = "booked"
        /\ posted' = [posted EXCEPT ![id] = Entry(copy[r].trips)]
    BY <1>8, <1>t DEF PostEntry, DecidingAt, Goto, TypeOK
  <2>2. ASSUME Calm(id)' PROVE Fits(id)'
    <3>1. store[id].status = "approved" /\ Fits(id)
      BY <2>1, <2>2, <1>6
    <3>2. Under(id, {"booked"})'
      BY <2>1 DEF Under
    <3> QED BY <3>1, <3>2, <2>1 DEF Fits
  <2>3. \A s \in Ids \ {id} : posted'[s] = posted[s]
    BY <2>1, <1>t DEF TypeOK
  <2> QED BY <2>1, <2>2, <2>3, <1>1, FitsElsewhere
<1>9. CASE MarkEntry(r)
  <2>1. /\ pc[r] = "found" /\ pc[r] \in DecidingAt /\ call' = call
        /\ store' = store /\ mirrored' = mirrored /\ pc'[r] = "marked"
        /\ posted' = [posted EXCEPT ![id] = Marked(found[r])]
    BY <1>9, <1>t DEF MarkEntry, DecidingAt, Goto, TypeOK
  <2>2. ASSUME Calm(id)' PROVE Fits(id)'
    <3>1. /\ call[r].op = "reverse" /\ found[r] \in Entries /\ found[r].trips = copy[r].trips
          /\ mirrored[id] = None
      BY <2>1, <2>2, <1>6 DEF BookKnows, CallKnows, Reversing
    <3>2. store[id].status = "closed" /\ copy[r] = store[id] /\ id \in Ids
      BY <2>1, <2>2, <3>1, <1>6
    <3>3. Under(id, {"marked", "mirrored"})'
      BY <2>1 DEF Under
    <3>4. posted'[id] = Marked(found[r]) /\ Marked(found[r]) # None /\ Marked(found[r]).trips = found[r].trips
      BY <2>1, <3>1, <3>2, <1>t, Values DEF TypeOK, Marked, Entries
    <3> QED BY <3>1, <3>2, <3>3, <3>4, <2>1 DEF Fits
  <2>3. \A s \in Ids \ {id} : posted'[s] = posted[s]
    BY <2>1, <1>t DEF TypeOK
  <2> QED BY <2>1, <2>2, <2>3, <1>1, FitsElsewhere
<1>10. CASE PostReversal(r)
  <2>1. /\ pc[r] = "marked" /\ pc[r] \in DecidingAt /\ call' = call
        /\ store' = store /\ posted' = posted /\ pc'[r] = "mirrored"
        /\ mirrored' = [mirrored EXCEPT ![id] = Mirror(found[r])]
    BY <1>10, <1>t DEF PostReversal, DecidingAt, Goto, TypeOK
  <2>2. ASSUME Calm(id)' PROVE Fits(id)'
    <3>1. call[r].op = "reverse"
      BY <2>1, <2>2, <1>6 DEF CallKnows, Reversing
    <3>2. store[id].status = "closed" /\ Fits(id)
      BY <2>1, <2>2, <3>1, <1>6
    <3>3. Under(id, {"marked", "mirrored"})' /\ Under(id, {"mirrored"})'
      BY <2>1 DEF Under
    <3> QED BY <3>2, <3>3, <2>1 DEF Fits
  <2>3. \A s \in Ids \ {id} : mirrored'[s] = mirrored[s]
    BY <2>1, <1>t DEF TypeOK
  <2> QED BY <2>1, <2>2, <2>3, <1>1, FitsElsewhere
<1> QED BY <1>2, <1>3, <1>4, <1>5, <1>7, <1>8, <1>9, <1>10, StepKinds

(* What the calls know of the journal.                                      *)
LEMMA KnowledgeKept ==
    ASSUME Calls, Copies, Journal, NEW r \in Requests, Step(r), NEW q \in Requests
    PROVE  BookKnows(q)'
<1>1. OthersWait(r) /\ scars \subseteq scars'
  BY StepShape
<1>t. TypeOK
  BY DEF Calls
<1>2. CASE q # r
  <2>1. /\ pc'[q] = pc[q] /\ call'[q] = call[q] /\ copy'[q] = copy[q] /\ found'[q] = found[q]
    BY <1>1, <1>2 DEF OthersWait
  <2> SUFFICES ASSUME pc[q] \in DecidingAt, Calm(call[q].id)', Calm(call[q].id)
               PROVE  BookKnows(q)'
    BY <2>1, <1>1, CalmFacts DEF BookKnows
  <2>2. BookKnows(q) /\ call[q].id \in Ids
    BY IdsTyped DEF Journal
  <2>3. CASE posted'[call[q].id] = posted[call[q].id] /\ mirrored'[call[q].id] = mirrored[call[q].id]
    BY <2>1, <2>2, <2>3 DEF BookKnows
  <2>4. CASE PostEntry(r) \/ MarkEntry(r)
    <3>1. Raced(r) \subseteq scars' /\ mirrored' = mirrored /\ pc[r] \in DecidingAt
      BY <2>4 DEF PostEntry, MarkEntry, DecidingAt
    <3>2. call[q].id # call[r].id
      BY <1>2, <2>1, <3>1, HoldersRaced, CalmFacts
    <3>3. posted'[call[q].id] = posted[call[q].id]
      BY <3>2, <2>2, <2>4, <1>t DEF PostEntry, MarkEntry, TypeOK
    <3> QED BY <3>1, <3>3, <2>3
  <2>5. CASE PostReversal(r)
    <3>1. pc[r] = "marked" /\ posted' = posted /\ call[r].id \in Ids
      BY <2>5, IdsTyped DEF PostReversal, DecidingAt
    <3>2. CASE call[q].id # call[r].id
      <4>1. mirrored'[call[q].id] = mirrored[call[q].id]
        BY <3>2, <2>2, <2>5, <1>t DEF PostReversal, TypeOK
      <4> QED BY <3>1, <4>1, <2>3
    <3>3. CASE call[q].id = call[r].id
      <4>1. pc[q] \notin BetweenSaves
        BY <3>1, <3>3, <1>2 DEF Journal, Alone, BetweenSaves
      <4>2. pc[q] # "found"
        <5> SUFFICES ASSUME pc[q] = "found" PROVE FALSE
          OBVIOUS
        <5>1. posted[call[q].id] = found[q] /\ ~found[q].reversed
          BY <2>2 DEF BookKnows, Calls, CallKnows, Reversing, DecidingAt
        <5>2. posted[call[q].id] = Marked(found[r]) /\ found[r] \in Entries
          BY <3>1, <3>3 DEF Journal, BookKnows, Calls, CallKnows, Reversing, DecidingAt
        <5>3. Marked(found[r]).reversed = TRUE
          BY <5>2 DEF Marked, Entries
        <5> QED BY <5>1, <5>2, <5>3
      <4> QED BY <4>1, <4>2, <2>1 DEF BookKnows, BetweenSaves, Reversing
    <3> QED BY <3>2, <3>3
  <2>6. CASE UNCHANGED <<posted, mirrored>>
    BY <2>3, <2>6
  <2>7. \/ PostEntry(r) \/ MarkEntry(r) \/ PostReversal(r) \/ UNCHANGED <<posted, mirrored>>
    BY StepKinds DEF Quiet, SaveDraft, SaveReview, SaveClosed, FindEntry, SaveReversed, Stop, books
  <2> QED BY <2>4, <2>5, <2>6, <2>7
<1>3. CASE q = r
  <2> SUFFICES ASSUME pc'[r] \in DecidingAt, Calm(call[r].id)' PROVE BookKnows(r)'
    BY <1>3 DEF BookKnows
  <2>1. CASE Quiet(r)
    BY <2>1 DEF Quiet, BookKnows, BetweenSaves, Reversing
  <2>2. ~SaveDraft(r) /\ ~SaveReview(r) /\ ~SaveClosed(r) /\ ~SaveReversed(r) /\ ~Stop(r)
    BY <1>t DEF SaveDraft, SaveReview, SaveClosed, SaveReversed, Stop, Goto, DecidingAt, TypeOK
  <2>3. ASSUME call' = call, pc[r] \in DecidingAt
        PROVE  /\ call[r].id \in Ids /\ store[call[r].id] # None
               /\ copy[r] = store[call[r].id] /\ Calm(call[r].id)
               /\ call[r].op = "close" => store[call[r].id].status = "approved"
               /\ call[r].op = "reverse" => store[call[r].id].status = "closed"
               /\ Fits(call[r].id) /\ BookKnows(r) /\ CallKnows(r)
    <3>1. Calm(call[r].id)
      BY <1>1, <2>3, CalmFacts
    <3> QED BY <3>1, <2>3, Known
  <2>4. CASE PostEntry(r)
    <3>1. /\ pc[r] \in DecidingAt /\ call' = call /\ copy' = copy /\ call[r].op = "close"
          /\ mirrored' = mirrored /\ pc'[r] = "booked"
          /\ posted' = [posted EXCEPT ![call[r].id] = Entry(copy[r].trips)]
      BY <2>4, <1>t DEF PostEntry, DecidingAt, Goto, TypeOK
    <3>2. mirrored[call[r].id] = None /\ call[r].id \in Ids
      BY <3>1, <2>3 DEF Fits
    <3>3. posted'[call[r].id] = Entry(copy[r].trips)
      BY <3>1, <3>2, <1>t DEF TypeOK
    <3> QED BY <3>1, <3>2, <3>3 DEF BookKnows, Reversing
  <2>5. CASE FindEntry(r)
    <3>1. /\ pc[r] = "read" /\ pc[r] \in DecidingAt /\ call' = call /\ copy' = copy
          /\ call[r].op = "reverse" /\ mirrored' = mirrored /\ posted' = posted
          /\ pc'[r] = "found" /\ found'[r] = posted[call[r].id]
          /\ Reversible(posted[call[r].id])
      BY <2>5, <1>t DEF FindEntry, DecidingAt, Goto, TypeOK, books
    <3>2. /\ store[call[r].id].status = "closed" /\ copy[r] = store[call[r].id]
          /\ Fits(call[r].id) /\ Calm(call[r].id) /\ call[r].id \in Ids
      BY <3>1, <2>3
    <3>3. posted[call[r].id].trips = copy[r].trips
      BY <3>2 DEF Fits
    <3>4. ~Under(call[r].id, {"mirrored"})
      <4> SUFFICES ASSUME NEW p \in Requests, pc[p] = "mirrored", call[p].id = call[r].id PROVE FALSE
        BY DEF Under
      <4>1. posted[call[r].id] = Marked(found[p]) /\ found[p] \in Entries
        BY <3>2 DEF Journal, BookKnows, Calls, CallKnows, Reversing, DecidingAt
      <4>2. Marked(found[p]).reversed = TRUE
        BY <4>1 DEF Marked, Entries
      <4> QED BY <3>1, <4>1, <4>2 DEF Reversible
    <3>5. mirrored[call[r].id] = None
      BY <3>2, <3>4 DEF Fits
    <3> QED BY <3>1, <3>3, <3>5 DEF BookKnows, Reversing
  <2>6. CASE MarkEntry(r)
    <3>1. /\ pc[r] = "found" /\ pc[r] \in DecidingAt /\ call' = call /\ copy' = copy
          /\ found' = found /\ mirrored' = mirrored /\ pc'[r] = "marked"
          /\ posted' = [posted EXCEPT ![call[r].id] = Marked(found[r])]
      BY <2>6, <1>t DEF MarkEntry, DecidingAt, Goto, TypeOK
    <3>2. /\ mirrored[call[r].id] = None /\ found[r].trips = copy[r].trips /\ call[r].id \in Ids
      BY <3>1, <2>3 DEF BookKnows, Reversing
    <3>3. posted'[call[r].id] = Marked(found[r])
      BY <3>1, <3>2, <1>t DEF TypeOK
    <3> QED BY <3>1, <3>2, <3>3 DEF BookKnows, Reversing
  <2>7. CASE PostReversal(r)
    <3>1. /\ pc[r] = "marked" /\ pc[r] \in DecidingAt /\ call' = call /\ copy' = copy
          /\ found' = found /\ posted' = posted /\ pc'[r] = "mirrored"
          /\ mirrored' = [mirrored EXCEPT ![call[r].id] = Mirror(found[r])]
      BY <2>7, <1>t DEF PostReversal, DecidingAt, Goto, TypeOK
    <3>2. /\ posted[call[r].id] = Marked(found[r]) /\ found[r].trips = copy[r].trips /\ call[r].id \in Ids
      BY <3>1, <2>3 DEF BookKnows, Reversing
    <3>3. mirrored'[call[r].id] = Mirror(found[r])
      BY <3>1, <3>2, <1>t DEF TypeOK
    <3> QED BY <3>1, <3>2, <3>3 DEF BookKnows, Reversing
  <2> QED BY <2>1, <2>2, <2>4, <2>5, <2>6, <2>7, StepKinds
<1> QED BY <1>2, <1>3

LEMMA AloneKept ==
    ASSUME Calls, Journal, NEW r \in Requests, Step(r)
    PROVE  Alone'
<1>1. OthersWait(r) /\ scars \subseteq scars' /\ TypeOK
  BY StepShape DEF Calls
<1>2. ASSUME NEW q \in Requests \ {r}, pc[q] \in BetweenSaves, pc'[r] \in BetweenSaves,
             call[q].id = call'[r].id
      PROVE  ~Calm(call[q].id)'
  <2>0. pc[q] \in DecidingAt
    BY <1>2 DEF BetweenSaves, DecidingAt
  <2>1. CASE PostEntry(r) \/ MarkEntry(r)
    <3>1. Raced(r) \subseteq scars' /\ call' = call
      BY <2>1 DEF PostEntry, MarkEntry
    <3> QED BY <3>1, <2>0, <1>2, HoldersRaced, CalmFacts
  <2>2. CASE PostReversal(r)
    <3>1. call' = call /\ pc[r] \in BetweenSaves
      BY <2>2 DEF PostReversal, BetweenSaves
    <3> QED BY <3>1, <1>1, <1>2, CalmFacts DEF Journal, Alone
  <2>3. PostEntry(r) \/ MarkEntry(r) \/ PostReversal(r)
    <3>1. ~Quiet(r) /\ ~SaveDraft(r) /\ ~SaveReview(r) /\ ~SaveClosed(r) /\ ~SaveReversed(r) /\ ~Stop(r)
      BY <1>1, <1>2 DEF Quiet, SaveDraft, SaveReview, SaveClosed, SaveReversed, Stop, Goto, TypeOK, BetweenSaves
    <3>2. ~FindEntry(r)
      BY <1>1, <1>2 DEF FindEntry, Goto, TypeOK, BetweenSaves
    <3> QED BY <3>1, <3>2, StepKinds
  <2> QED BY <2>1, <2>2, <2>3
<1> SUFFICES ASSUME NEW q \in Requests, NEW p \in Requests, q # p, pc'[q] \in BetweenSaves,
                    pc'[p] \in BetweenSaves, call'[q].id = call'[p].id, Calm(call[p].id)'
             PROVE  FALSE
  BY DEF Alone
<1>3. CASE q # r /\ p # r
  BY <1>1, <1>3, CalmFacts DEF OthersWait, Journal, Alone
<1>4. CASE q # r /\ p = r
  BY <1>1, <1>2, <1>4, CalmFacts DEF OthersWait
<1>5. CASE q = r /\ p # r
  BY <1>1, <1>2, <1>5, CalmFacts DEF OthersWait
<1> QED BY <1>3, <1>4, <1>5

LEMMA JournalKept ==
    ASSUME Calls, Copies, Journal, [Next]_vars
    PROVE  Journal'
<1>1. CASE \E r \in Requests : Step(r)
  BY <1>1, FitsKept, KnowledgeKept, AloneKept DEF Journal
<1>2. CASE UNCHANGED <<store, posted, mirrored, pc, call, copy, found, scars>>
  BY <1>2 DEF Journal, BooksFit, Fits, Under, Calm, Untouched, Alone, BookKnows
<1> QED BY <1>1, <1>2 DEF Next, Tick, Finished, vars, locals, books

LEMMA JournalInit == Init => Journal
<1> SUFFICES ASSUME Init PROVE Journal
  OBVIOUS
<1>1. Sound(store) /\ store \in [Ids -> Settlements \cup {None}]
  BY StartsAssumption DEF Init
<1>2. ASSUME NEW s \in Ids, store[s] # None PROVE Fits(s)
  <2>1. store[s] \in Settlements /\ store[s].status # "reversed" /\ mirrored[s] = None
    BY <1>1, <1>2 DEF Sound, Init
  <2>2. CASE store[s].status = "closed"
    <3>1. posted[s] = Entry(store[s].trips)
      BY <1>2, <2>2 DEF Init
    <3>2. posted[s].trips = store[s].trips /\ ~posted[s].reversed /\ posted[s] # None
      BY <3>1, <2>1, Values DEF Entry
    <3> QED BY <3>2, <2>1, <2>2 DEF Fits
  <2>3. CASE store[s].status # "closed"
    BY <2>1, <2>3 DEF Fits, Init
  <2> QED BY <2>2, <2>3
<1> QED BY <1>2 DEF Init, Journal, BooksFit, Alone, BookKnows, DecidingAt, BetweenSaves

LEMMA JournalHolds == Spec => [](Calls /\ Copies /\ Lookups /\ Journal)
<1>1. Init => Calls /\ Copies /\ Lookups /\ Journal
  BY CallsInit, CopiesInit, LookupsInit, JournalInit
<1>2. Calls /\ Copies /\ Lookups /\ Journal /\ [Next]_vars => (Calls /\ Copies /\ Lookups /\ Journal)'
  BY CallsKept, CopiesKept, LookupsKept, JournalKept
<1> QED BY <1>1, <1>2, PTL DEF Spec

(* The journal says what the settlement says, for any number of calls on    *)
(* any settlements, wherever no call raced, clashed or was interrupted      *)
(* between its saves.                                                       *)
THEOREM JournalFollowsStatus == Spec => []BooksAgree
<1>1. BooksFit => BooksAgree
  BY DEF BooksFit, BooksAgree, Fits, Calm, Exists
<1> QED BY <1>1, JournalHolds, PTL DEF Journal

(* No trip's earnings are owed by two settlements at once, for any number   *)
(* of them: not after two closings, and not while one is between its        *)
(* posting and its save.                                                    *)
THEOREM TripsOwedOnce == Spec => []OwedOnce
<1>1. ASSUME Calls, Copies, Lookups, Journal PROVE OwedOnce
  <2> SUFFICES ASSUME NEW s \in Ids, NEW u \in Ids, s # u, NEW t, t \in Owes(s), t \in Owes(u),
                      Untouched(s, Causes \ {"key"}), Untouched(u, Causes \ {"key"})
               PROVE  FALSE
    BY DEF OwedOnce
  <2>1. ASSUME NEW v \in {s, u}
        PROVE  /\ posted[v] # None /\ mirrored[v] = None /\ t \in posted[v].trips
               /\ <<v, "trips">> \notin scars /\ Calm(v) /\ v \in Ids
               /\ store[v] # None /\ Fits(v)
    <3>1. posted[v] # None /\ mirrored[v] = None /\ t \in posted[v].trips
      BY <2>1 DEF Owes
    <3>2. <<v, "trips">> \notin scars /\ Calm(v)
      BY <2>1 DEF Untouched, Causes, Calm
    <3>3. store[v] # None
      BY <1>1, <3>1 DEF Calls, NothingUnknown
    <3> QED BY <3>1, <3>2, <3>3, <1>1 DEF Journal, BooksFit
  <2>2. ASSUME NEW v \in {s, u}
        PROVE  \/ v \in ClosedWith(t) /\ t \in Trips
               \/ \E q \in Requests : /\ pc[q] = "booked" /\ call[q].id = v
                                      /\ t \in copy[q].trips /\ t \in LookedUp(q)
    <3>1. store[v].status # "reversed"
      <4>1. store[v] \in Settlements
        BY <2>1, <1>1 DEF Calls, TypeOK
      <4>2. [trips |-> store[v].trips, reversed |-> FALSE] \in Entries
        BY <4>1, Values DEF Entries
      <4>3. [trips |-> store[v].trips, reversed |-> FALSE] # None
        BY <4>2, Values
      <4> QED BY <2>1, <4>3 DEF Fits
    <3>2. CASE store[v].status = "closed"
      <4>1. posted[v].trips = store[v].trips /\ store[v] \in Settlements
        BY <2>1, <3>2, <1>1 DEF Fits, Calls, TypeOK
      <4> QED BY <4>1, <2>1, <3>2, Values DEF ClosedWith, Exists
    <3>3. CASE store[v].status # "closed"
      <4>1. PICK q \in Requests : pc[q] = "booked" /\ call[q].id = v
        BY <2>1, <3>1, <3>3 DEF Fits, Under
      <4>2. posted[v] = Entry(copy[q].trips) /\ left[q] = {} /\ call[q].op = "close"
        BY <4>1, <2>1, <1>1 DEF Journal, BookKnows, Calls, CallKnows, DecidingAt
      <4>3. t \in copy[q].trips
        BY <4>2, <2>1 DEF Entry
      <4> QED BY <4>1, <4>2, <4>3 DEF LookedUp, Deciding
    <3> QED BY <3>2, <3>3
  <2>3. CASE s \in ClosedWith(t) /\ u \in ClosedWith(t) /\ t \in Trips
    BY <2>1, <2>3, <1>1 DEF Lookups, ClosedApart, Scars
  <2>4. ASSUME NEW v \in {s, u}, NEW w \in {s, u}, v # w, v \in ClosedWith(t),
               NEW q \in Requests, call[q].id = w, t \in LookedUp(q)
        PROVE  FALSE
    BY <2>1, <2>4, <1>1 DEF Lookups, TripsSeen, Scars
  <2>5. ASSUME NEW p \in Requests, NEW q \in Requests, pc[p] = "booked", pc[q] = "booked",
               call[p].id = s, call[q].id = u, t \in copy[p].trips, t \in copy[q].trips
        PROVE  FALSE
    BY <2>1, <2>5, <1>1 DEF Lookups, BookedApart, Scars
  <2> QED BY <2>2, <2>3, <2>4, <2>5
<1> QED BY <1>1, JournalHolds, PTL
=============================================================================
