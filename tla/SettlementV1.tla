---------------------------- MODULE SettlementV1 ----------------------------
(***************************************************************************)
(* SettlementService (application/settlements) over its two stores: the     *)
(* settlements and the journal.  Every repository call is awaited, so a     *)
(* call is one step per await: it reads a settlement, decides on the copy   *)
(* it read, and saves `{...copy, status}` later, whatever happened to the   *)
(* record in between.  save() replaces by id; nothing compares versions.    *)
(*                                                                          *)
(* An amount is a function of the trips it is the sum of, so a journal      *)
(* entry carries the trips whose earnings it moves.  A call may stop at any *)
(* await (Stop): a store or the audit trail rejects, the scope or party     *)
(* check refuses, or an idempotency note matches and the copy is returned.  *)
(*                                                                          *)
(* `scars` is history: it names the settlements that overlapping calls,     *)
(* interrupted calls or colliding ids have touched, and why.  The strong    *)
(* properties are claimed for the others.                                   *)
(***************************************************************************)
EXTENDS Naturals, Sequences, FiniteSets

CONSTANTS
    Actors,
    Permits,     \* Permits[a]: which of "create" and "approve" a holds
    Trips,
    Fit,         \* trips that the rules on party, period and status accept
    Keys,        \* idempotency keys of createDraft
    Requests,
    MaxClock,    \* bound: the last millisecond in which a draft is made
    Starts,      \* the contents the settlement store may start with
    None

Statuses == {"draft", "under_review", "approved", "rejected", "closed", "reversed"}
Moves == {<<"draft", "under_review">>, <<"under_review", "approved">>,
          <<"under_review", "rejected">>, <<"under_review", "draft">>,
          <<"rejected", "draft">>, <<"approved", "closed">>,
          <<"closed", "reversed">>}
Target == [submit |-> "under_review", approve |-> "approved",
           reject |-> "rejected", close |-> "closed", reverse |-> "reversed"]
Ops == DOMAIN Target
Needs(op) == IF op = "submit" THEN "create" ELSE "approve"

(* `SET-<country>-<Date.now()>`: within one country the id is the clock.    *)
Ids == 0..MaxClock
Settlements ==
    [status : Statuses, trips : SUBSET Trips, key : Keys,
     creator : Actors, approver : Actors \cup {None},
     trail : Seq(Statuses)]
Entries == [trips : SUBSET Trips, reversed : BOOLEAN]
Drafts  == [actor : Actors, key : Keys, trips : SUBSET Trips]
Commands == [actor : Actors, op : Ops, id : Ids]
Causes == {"race", "trips", "failure", "clash", "key"}

ASSUME PermitsAssumption == Permits \in [Actors -> SUBSET {"create", "approve"}]
ASSUME ClockAssumption == MaxClock \in Nat
ASSUME FitAssumption == Fit \subseteq Trips
(* The service may start with settlements it has made itself: dual control  *)
(* was kept, a key names one of them, no trip is closed twice, and none has *)
(* been reversed yet.                                                       *)
Sound(st) ==
    /\ \A s \in Ids : st[s] # None =>
          /\ st[s].approver # st[s].creator
          /\ st[s].status # "reversed"
    /\ \A s, u \in Ids : s # u /\ st[s] # None /\ st[u] # None =>
          /\ st[s].key # st[u].key
          /\ st[s].status = "closed" /\ st[u].status = "closed" =>
                st[s].trips \cap st[u].trips = {}

ASSUME StartsAssumption ==
    /\ Starts \subseteq [Ids -> Settlements \cup {None}]
    /\ \A st \in Starts : Sound(st)
ASSUME NoneAssumption ==
    /\ None \notin Ids
    /\ None \notin Actors \cup Settlements \cup Entries \cup Drafts \cup Commands

VARIABLES
    store,       \* InMemorySettlementRepository, by id
    posted,      \* the entry JE-<id> of the journal, by settlement
    mirrored,    \* the entry JE-REV-<id>, by settlement
    clock,
    pc, call,    \* how far each call is, and what it was asked
    copy, left,  \* the settlement it read; the trips it has still to look up
    found,       \* the journal entry a reversal read
    scars        \* history: <<id, cause>>

books == <<posted, mirrored>>
locals == <<pc, call, copy, left, found>>
vars == <<store, posted, mirrored, clock, pc, call, copy, left, found, scars>>

TypeOK ==
    /\ store \in [Ids -> Settlements \cup {None}]
    /\ posted \in [Ids -> Entries \cup {None}]
    /\ mirrored \in [Ids -> Entries \cup {None}]
    /\ clock \in Ids
    /\ pc \in [Requests -> {"new", "asked", "previewed", "rechecked", "read",
                            "booked", "found", "marked", "mirrored", "done"}]
    /\ call \in [Requests -> Drafts \cup Commands \cup {None}]
    /\ copy \in [Requests -> Settlements \cup {None}]
    /\ left \in [Requests -> SUBSET Trips]
    /\ found \in [Requests -> Entries \cup {None}]
    /\ scars \subseteq Ids \X Causes

Entry(trips) == [trips |-> trips, reversed |-> FALSE]

Init ==
    /\ store \in Starts
    /\ posted = [s \in Ids |-> IF store[s] # None /\ store[s].status = "closed"
                               THEN Entry(store[s].trips) ELSE None]
    /\ mirrored = [s \in Ids |-> None]
    /\ clock \in {n \in Ids : \A s \in Ids : store[s] # None => s < n}
    /\ pc = [r \in Requests |-> "new"]
    /\ call = [r \in Requests |-> None]
    /\ copy = [r \in Requests |-> None]
    /\ left = [r \in Requests |-> {}]
    /\ found = [r \in Requests |-> None]
    /\ scars = {}

Goto(r, label) == pc' = [pc EXCEPT ![r] = label]

-----------------------------------------------------------------------------
(* What the stores answer.                                                  *)
Exists(s) == store[s] # None
ClosedWith(t) == {s \in Ids : Exists(s) /\ store[s].status = "closed"
                                        /\ t \in store[s].trips}
(* The array holds the newest settlement first, so find() meets the highest *)
(* id; a settlement is not in its own way.                                  *)
FirstClosed(t) == IF ClosedWith(t) = {} THEN None
                  ELSE CHOOSE s \in ClosedWith(t) : \A u \in ClosedWith(t) : u <= s

(* Mutant of TripFree: only the settlement's own trips are looked at.       *)
BugNeverTaken(t, s) == TRUE

TripFree(t, s) == FirstClosed(t) \in {None, s}

(* Mutant of UnderKey: the key is looked up under another name.             *)
BugKeyForgotten(k) == {}

UnderKey(k) == {s \in Ids : Exists(s) /\ store[s].key = k}

-----------------------------------------------------------------------------
(* Who may be disturbed by a save.                                          *)
Deciding(r) == pc[r] \in {"read", "booked", "found", "marked", "mirrored"}
Holders(r, s) == {q \in Requests \ {r} : Deciding(q) /\ call[q].id = s}
LookedUp(q) == IF Deciding(q) /\ call[q].op = "close"
               THEN copy[q].trips \ left[q] ELSE {}
Rivals(r) == {q \in Requests \ {r} : LookedUp(q) \cap copy[r].trips # {}
                                        /\ call[q].id # call[r].id}
SameKey(r) == {q \in Requests \ {r} : pc[q] \in {"asked", "previewed", "rechecked"}
                                        /\ call[q].key = call[r].key}

Raced(r) == IF Holders(r, call[r].id) = {} THEN {} ELSE {<<call[r].id, "race">>}
SharesTrips(r) ==
    IF Rivals(r) = {} THEN {}
    ELSE ({call[r].id} \cup {call[q].id : q \in Rivals(r)}) \X {"trips"}

-----------------------------------------------------------------------------
(* createDraft.                                                             *)

(* The key is looked up; a settlement that has it is returned as it is.     *)
AskDraft(r, d) ==
    /\ pc[r] = "new"
    /\ "create" \in Permits[d.actor]
    /\ call' = [call EXCEPT ![r] = d]
    /\ Goto(r, IF UnderKey(d.key) = {} THEN "asked" ELSE "done")
    /\ UNCHANGED <<store, books, clock, copy, left, found, scars>>

(* previewEligibility: a trip of a closed settlement is ALREADY_SETTLED.    *)
Eligible == {t \in Fit : ClosedWith(t) = {}}

Preview(r) ==
    /\ pc[r] = "asked"
    /\ left' = [left EXCEPT ![r] = call[r].trips \cap Eligible]
    /\ Goto(r, "previewed")
    /\ UNCHANGED <<store, books, clock, call, copy, found, scars>>

(* Every requested trip is looked up again, the ineligible ones too.        *)
Recheck(r) ==
    /\ pc[r] = "previewed"
    /\ Goto(r, IF \A t \in call[r].trips : ClosedWith(t) = {}
               THEN "rechecked" ELSE "done")
    /\ UNCHANGED <<store, books, clock, call, copy, left, found, scars>>

NewSettlement(d, trips) ==
    [status |-> "draft", trips |-> trips, key |-> d.key, creator |-> d.actor,
     approver |-> None, trail |-> <<"draft">>]

(* Two drafts of one millisecond have one id, and the second save replaces  *)
(* the first settlement, however far it has come.                           *)
SaveDraft(r) ==
    /\ pc[r] = "rechecked"
    /\ store' = [store EXCEPT ![clock] = NewSettlement(call[r], left[r])]
    /\ scars' = scars \cup (IF Exists(clock) THEN {<<clock, "clash">>} ELSE {})
                      \cup (IF SameKey(r) = {} THEN {} ELSE {<<clock, "key">>})
    /\ Goto(r, "done")
    /\ UNCHANGED <<books, clock, call, copy, left, found>>

-----------------------------------------------------------------------------
(* The transitions of a settlement.                                         *)

(* Mutant of MayMove: the creator may approve.                              *)
BugOneEye(actor, op, s) == <<s.status, Target[op]>> \in Moves

(* assertTransition on the copy, and SELF_APPROVAL_FORBIDDEN.               *)
MayMove(actor, op, s) ==
    /\ <<s.status, Target[op]>> \in Moves
    /\ op = "approve" => s.creator # actor

Read(r, c) ==
    /\ pc[r] = "new"
    /\ Needs(c.op) \in Permits[c.actor]
    /\ Exists(c.id)
    /\ call' = [call EXCEPT ![r] = c]
    /\ copy' = [copy EXCEPT ![r] = store[c.id]]
    /\ left' = [left EXCEPT ![r] = IF c.op = "close" THEN store[c.id].trips ELSE {}]
    /\ Goto(r, IF MayMove(c.actor, c.op, store[c.id]) THEN "read" ELSE "done")
    /\ UNCHANGED <<store, books, clock, found, scars>>

Moved(s, actor, status) ==
    [s EXCEPT !.status = status, !.trail = Append(@, status),
              !.approver = IF status = "approved" THEN actor ELSE @]

SaveMoved(r) ==
    store' = [store EXCEPT ![call[r].id] =
                 Moved(copy[r], call[r].actor, Target[call[r].op])]

(* submit, approve and reject save what they read, moved on.                *)
SaveReview(r) ==
    /\ pc[r] = "read"
    /\ call[r].op \in {"submit", "approve", "reject"}
    /\ SaveMoved(r)
    /\ scars' = scars \cup Raced(r)
    /\ Goto(r, "done")
    /\ UNCHANGED <<books, clock, call, copy, left, found>>

(* close: findClosedContainingTrip for one trip after the other.            *)
LookUpTrip(r, t) ==
    /\ pc[r] = "read"
    /\ call[r].op = "close"
    /\ t \in left[r]
    /\ IF TripFree(t, call[r].id)
       THEN left' = [left EXCEPT ![r] = @ \ {t}] /\ UNCHANGED pc
       ELSE Goto(r, "done") /\ UNCHANGED left
    /\ UNCHANGED <<store, books, clock, call, copy, found, scars>>

(* The entry is posted under the settlement's id and replaces one that is   *)
(* there already.                                                           *)
PostEntry(r) ==
    /\ pc[r] = "read"
    /\ call[r].op = "close"
    /\ left[r] = {}
    /\ posted' = [posted EXCEPT ![call[r].id] = Entry(copy[r].trips)]
    /\ scars' = scars \cup Raced(r) \cup SharesTrips(r)
    /\ Goto(r, "booked")
    /\ UNCHANGED <<store, mirrored, clock, call, copy, left, found>>

SaveClosed(r) ==
    /\ pc[r] = "booked"
    /\ SaveMoved(r)
    /\ scars' = scars \cup Raced(r) \cup SharesTrips(r)
    /\ Goto(r, "done")
    /\ UNCHANGED <<books, clock, call, copy, left, found>>

(* createReversal takes a posted entry that no other entry reverses.        *)
Reversible(e) == e # None /\ ~e.reversed

FindEntry(r) ==
    /\ pc[r] = "read"
    /\ call[r].op = "reverse"
    /\ found' = [found EXCEPT ![r] = posted[call[r].id]]
    /\ Goto(r, IF Reversible(posted[call[r].id]) THEN "found" ELSE "done")
    /\ UNCHANGED <<store, books, clock, call, copy, left, scars>>

Marked(e) == [e EXCEPT !.reversed = TRUE]

MarkEntry(r) ==
    /\ pc[r] = "found"
    /\ posted' = [posted EXCEPT ![call[r].id] = Marked(found[r])]
    /\ scars' = scars \cup Raced(r)
    /\ Goto(r, "marked")
    /\ UNCHANGED <<store, mirrored, clock, call, copy, left, found>>

(* Mutant of Mirror: nothing is moved back.                                 *)
BugNoReversal(e) == Entry({})

Mirror(e) == Entry(e.trips)

PostReversal(r) ==
    /\ pc[r] = "marked"
    /\ mirrored' = [mirrored EXCEPT ![call[r].id] = Mirror(found[r])]
    /\ Goto(r, "mirrored")
    /\ UNCHANGED <<store, posted, clock, call, copy, left, found, scars>>

SaveReversed(r) ==
    /\ pc[r] = "mirrored"
    /\ SaveMoved(r)
    /\ scars' = scars \cup Raced(r)
    /\ Goto(r, "done")
    /\ UNCHANGED <<books, clock, call, copy, left, found>>

-----------------------------------------------------------------------------
(* A call that stops between two of its saves leaves the first one done.    *)
BetweenSaves == {"booked", "marked", "mirrored"}

Stop(r) ==
    /\ pc[r] \notin {"new", "done"}
    /\ Goto(r, "done")
    /\ scars' = IF pc[r] \in BetweenSaves
                THEN scars \cup {<<call[r].id, "failure">>} ELSE scars
    /\ UNCHANGED <<store, books, clock, call, copy, left, found>>

Tick ==
    /\ clock < MaxClock
    /\ clock' = clock + 1
    /\ UNCHANGED <<store, books, locals, scars>>

Finished == (\A r \in Requests : pc[r] = "done") /\ UNCHANGED vars

Step(r) ==
    \/ \E d \in Drafts : AskDraft(r, d)
    \/ Preview(r) \/ Recheck(r) \/ SaveDraft(r)
    \/ \E c \in Commands : Read(r, c)
    \/ SaveReview(r)
    \/ \E t \in Trips : LookUpTrip(r, t)
    \/ PostEntry(r) \/ SaveClosed(r)
    \/ FindEntry(r) \/ MarkEntry(r) \/ PostReversal(r) \/ SaveReversed(r)
    \/ Stop(r)

Next == (\E r \in Requests : Step(r)) \/ Tick \/ Finished

Spec == Init /\ [][Next]_vars

-----------------------------------------------------------------------------
Untouched(s, causes) == \A cause \in causes : <<s, cause>> \notin scars

(* Nobody approves a settlement of their own: the creator and the approver  *)
(* on the record differ whatever overlaps, stops or collides, although each *)
(* save writes a record that was read some time before.                     *)
FourEyes ==
    \A s \in Ids : Exists(s) /\ store[s].approver # None =>
        store[s].approver # store[s].creator

(* "A trip cannot appear in two closed settlements": it can only if the     *)
(* two closings overlapped, each after the other had looked the trip up.    *)
OneClosedPerTrip ==
    \A s, u \in Ids : \A t \in Trips :
        s # u /\ s \in ClosedWith(t) /\ u \in ClosedWith(t) =>
            {s, u} \X {"trips"} \subseteq scars

(* The journal owes a trip's earnings to nobody twice, unless closings of   *)
(* the trip overlapped or one of them was interrupted after its posting.    *)
Owes(s) == IF posted[s] # None /\ mirrored[s] = None THEN posted[s].trips ELSE {}

OwedOnce ==
    \A s, u \in Ids : s # u /\ Owes(s) \cap Owes(u) # {} =>
        ~(Untouched(s, Causes \ {"key"}) /\ Untouched(u, Causes \ {"key"}))

(* The journal says what the settlement says: closed and owed, reversed and *)
(* moved back, neither before; except while the call that changes both is   *)
(* under way, and where a call was interrupted or raced on the settlement.  *)
Under(s, labels) == \E r \in Requests : pc[r] \in labels /\ call[r].id = s
BooksAgree ==
    \A s \in Ids : Exists(s) /\ Untouched(s, {"race", "failure", "clash"}) =>
        CASE store[s].status = "closed" ->
                /\ posted[s] # None /\ posted[s].trips = store[s].trips
                /\ posted[s].reversed => Under(s, {"marked", "mirrored"})
                /\ mirrored[s] # None => Under(s, {"mirrored"})
          [] store[s].status = "reversed" ->
                /\ posted[s] = [trips |-> store[s].trips, reversed |-> TRUE]
                /\ mirrored[s] = [trips |-> store[s].trips, reversed |-> FALSE]
          [] OTHER ->
                /\ posted[s] # None => Under(s, {"booked"})
                /\ mirrored[s] = None

(* One key names one draft, unless the calls overlapped between the look-up *)
(* of the key and the save, or one of the two shared its id with another.   *)
OneDraftPerKey ==
    \A s, u \in Ids : s # u /\ Exists(s) /\ Exists(u) /\ store[s].key = store[u].key =>
        ~(Untouched(s, {"key", "clash"}) /\ Untouched(u, {"key", "clash"}))

(* Closed settlements change by reversal only, and no status goes back: a   *)
(* step that breaks the state machine overwrote something.                  *)
StatusesMoveOn ==
    [][\A s \in Ids : Exists(s) /\ store'[s].status # store[s].status =>
          \/ <<store[s].status, store'[s].status>> \in Moves
          \/ scars' \cap {<<s, "race">>, <<s, "clash">>} # {}]_vars
=============================================================================
