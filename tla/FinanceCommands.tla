--------------------------- MODULE FinanceCommands ---------------------------
(***************************************************************************)
(* The finance command services: adjustments, refund and chargeback        *)
(* accounting, payment and payout preparation, accounting snapshots and    *)
(* reconciliation runs.                                                    *)
(*                                                                         *)
(* A call runs without interruption between two awaits.  Most commands     *)
(* look their key up, write and index their row in the first such piece    *)
(* and only then wait for the audit trail; a snapshot waits for its audit  *)
(* intent, and a reconciliation for its repository, between the look-up    *)
(* and the write.                                                          *)
(*                                                                         *)
(* All services keep "rows in a map plus a key index", so one sequence of  *)
(* rows and one index stand for the seven pairs of maps; an op is part of  *)
(* its key, so they never meet.  What the input checks find wrong with an  *)
(* input (no currency, no reason, no source, a missing amount, a merged    *)
(* fee, a refund without a gateway session) is the field "valid" of a      *)
(* command; amounts and countries are kept.                                *)
(***************************************************************************)
EXTENDS Naturals, Sequences, FiniteSets, FiniteSetsExt

CONSTANTS
    Actors,         \* who may call
    Permits,        \* actor -> set of finance permissions
    Scope,          \* actor -> set of countries, {} for every country
    Resources,      \* orders and settlements the commands are about
    CountryOf,      \* resource -> its country
    Principal,      \* resource -> the amount callers name as claim, limit and refundable
    Clients,        \* client keys
    Requests,       \* calls, each used once
    Menu,           \* the commands callers send
    MaxRows,        \* bound: rows of the store
    MaxFaults,      \* bound: port calls that reject
    None            \* "no decision", "no command"

\* Operations that write one row and wait afterwards.
Creating == {"adjustment.create", "refund.account", "chargeback.account",
             "payment.prepare", "payout.prepare"}
Deciding == {"adjustment.approve", "adjustment.reject"}
Ops == Creating \cup Deciding
       \cup {"payout.transition", "snapshot.materialize", "recon.run"}
PayoutStatus == {"prepared", "ready_for_execute", "cancelled"}
\* Of the five directions: one that the claim bounds and one that it does not.
Directions == {"increase_company_claim", "decrease_company_claim"}

Commands == [op : Ops, actor : Actors, res : Resources, client : Clients,
             amount : Nat, dir : Directions, valid : BOOLEAN, proven : BOOLEAN,
             row : 1..MaxRows, to : PayoutStatus]
Keys == [actor : Actors, op : Ops, res : Resources, client : Clients]

ASSUME CommandsAssumption ==
    /\ Permits \in [Actors -> SUBSET STRING]
    /\ CountryOf \in [Resources -> STRING]
    /\ Scope \in [Actors -> SUBSET STRING]
    /\ Principal \in [Resources -> Nat]
    /\ Menu \subseteq Commands
    /\ MaxRows \in Nat \ {0}
    /\ MaxFaults \in Nat
    /\ None \notin Commands \cup Actors

VARIABLES
    env,            \* environment the write gate was built for
    rows,           \* rows by id, in order of creation
    byKey,          \* idempotency key -> row
    byOrder,        \* order -> row of its accounting snapshot
    trail,          \* audit events, told apart by the correlation id of their call
    pc,             \* request -> where the call waits
    cmd,            \* request -> its command
    mine,           \* request -> the row the call made, changed or found (0: none)
    seen,           \* history: request -> rows there were when it looked
    wrote,          \* history: requests whose call changed a row
    reply,          \* request -> what the caller was told
    faults          \* port calls that have rejected

vars == <<env, rows, byKey, byOrder, trail, pc, cmd, mine, seen, wrote, reply, faults>>
store == <<rows, byKey, byOrder>>

Statuses == PayoutStatus \cup {"draft", "approved", "rejected", "recorded", "completed",
                               "disputed_suspense", "liability_attributed"}
Row == [key : Keys, amount : Nat, dir : Directions, status : Statuses,
        by : Actors, decidedBy : Actors \cup {None}, lookedAt : Nat]
Event == [call : Requests, actor : Actors, action : Ops \cup {"snapshot.intent"},
          row : 0..MaxRows]

TypeOK ==
    /\ env \in {"production", "offline_fake"}
    /\ rows \in Seq(Row) /\ Len(rows) <= MaxRows
    /\ DOMAIN byKey \subseteq Keys
    /\ \A k \in DOMAIN byKey : byKey[k] \in 1..Len(rows) /\ rows[byKey[k]].key = k
    /\ DOMAIN byOrder \subseteq Resources
    /\ \A o \in DOMAIN byOrder : byOrder[o] \in 1..Len(rows) /\ rows[byOrder[o]].key.res = o
    /\ trail \subseteq Event
    /\ pc \in [Requests -> {"idle", "intent", "materialise", "save", "record", "done"}]
    /\ cmd \in [Requests -> Menu \cup {None}]
    /\ mine \in [Requests -> 0..MaxRows]
    /\ seen \in [Requests -> 0..MaxRows]
    /\ wrote \subseteq Requests
    /\ reply \in [Requests -> {"none", "ok", "refused", "failed"}]
    /\ faults \in 0..MaxFaults

Init ==
    /\ env \in {"production", "offline_fake"}
    /\ rows = <<>>
    /\ byKey = [k \in {} |-> 0]
    /\ byOrder = [o \in {} |-> 0]
    /\ trail = {}
    /\ pc = [r \in Requests |-> "idle"]
    /\ cmd = [r \in Requests |-> None]
    /\ mine = [r \in Requests |-> 0]
    /\ seen = [r \in Requests |-> 0]
    /\ wrote = {}
    /\ reply = [r \in Requests |-> "none"]
    /\ faults = 0

-----------------------------------------------------------------------------
(* Checks made before anything is looked up or written.                     *)

\* Any one of these permissions opens an operation.
Needs(op) ==
    CASE op \in {"adjustment.create", "refund.account", "chargeback.account"} ->
                                        {"finance:adjust"}
      [] op \in Deciding             -> {"finance:adjust_approve"}
      [] op = "payment.prepare"      -> {"settlements:execute"}
      [] op = "payout.prepare"       -> {"payouts:prepare"}
      [] op = "payout.transition"    -> {"payouts:prepare"}
      [] op = "snapshot.materialize" -> {"settlements:prepare", "settlements:create"}
      [] op = "recon.run"            -> {"finance:read"}

Holds(actor, op) == Permits[actor] \cap Needs(op) # {}

\* The gate denies every finance write in production.
Writable == env # "production"

\* Preparations, decisions and reconciliations do not look at the country.
ChecksCountry(op) == op \in {"adjustment.create", "refund.account", "chargeback.account",
                             "snapshot.materialize"}
InScope(c) == Scope[c.actor] = {} \/ CountryOf[c.res] \in Scope[c.actor]

Adjustments(s) == {i \in DOMAIN rows : rows[i].key.op = "adjustment.create"
                                         /\ rows[i].key.res = s}
Approved(s) == {i \in Adjustments(s) : rows[i].status = "approved"}

\* The sum is absolute: an approved increase uses the claim up as well.
ApprovedSum(s) == MapThenSumSet(LAMBDA i : rows[i].amount, Approved(s))

WithinLimit(c) == c.amount > 0 /\ c.amount <= Principal[c.res]
WithinRefundable(c) == c.amount <= Principal[c.res]
Feasible(c) ==
    c.dir = "decrease_company_claim" => c.amount + ApprovedSum(c.res) <= Principal[c.res]

InputStands(c) ==
    /\ c.valid
    /\ ChecksCountry(c.op) => InScope(c)
    /\ c.op = "adjustment.create" => WithinLimit(c) /\ Feasible(c)
    /\ c.op = "refund.account" => WithinRefundable(c)

\* A reconciliation only asks the gate what to do later.
Admitted(c) ==
    /\ Holds(c.actor, c.op)
    /\ Writable \/ c.op = "recon.run"
    /\ InputStands(c)

KeyOf(c) == [actor |-> c.actor, op |-> c.op, res |-> c.res, client |-> c.client]

-----------------------------------------------------------------------------
(* Effects.                                                                  *)

\* A disputed chargeback, or one without evidence or party, waits in suspense.
ChargebackStatus(c) == IF c.proven THEN "liability_attributed" ELSE "disputed_suspense"

FirstStatus(c) ==
    CASE c.op = "adjustment.create" -> "draft"
      [] c.op = "chargeback.account" -> ChargebackStatus(c)
      [] c.op \in {"payment.prepare", "payout.prepare"} -> "prepared"
      [] c.op = "recon.run" -> "completed"
      [] OTHER -> "recorded"

RowFor(r, c) == [key |-> KeyOf(c), amount |-> c.amount, dir |-> c.dir,
                 status |-> FirstStatus(c), by |-> c.actor, decidedBy |-> None,
                 lookedAt |-> seen'[r]]

With(f, k, v) == [x \in DOMAIN f \cup {k} |-> IF x = k THEN v ELSE f[x]]

\* mistake: the row is stored, its index entry is not
BugKeyNotIndexed(r, c) ==
    /\ Len(rows) < MaxRows
    /\ rows' = Append(rows, RowFor(r, c))
    /\ byKey' = byKey
    /\ mine' = [mine EXCEPT ![r] = Len(rows) + 1]
    /\ wrote' = wrote \cup {r}

\* A new row and its entry in the key index, in one piece.
AddRow(r, c) ==
    /\ Len(rows) < MaxRows
    /\ rows' = Append(rows, RowFor(r, c))
    /\ byKey' = With(byKey, KeyOf(c), Len(rows) + 1)
    /\ mine' = [mine EXCEPT ![r] = Len(rows) + 1]
    /\ wrote' = wrote \cup {r}

SetRow(r, i, row) ==
    /\ rows' = [rows EXCEPT ![i] = row]
    /\ mine' = [mine EXCEPT ![r] = i]
    /\ wrote' = wrote \cup {r}
    /\ UNCHANGED <<byKey, byOrder>>

Arrives(r, c) ==
    /\ pc[r] = "idle"
    /\ cmd' = [cmd EXCEPT ![r] = c]
    /\ UNCHANGED <<env, faults, trail>>

Goto(r, place) == pc' = [pc EXCEPT ![r] = place] /\ UNCHANGED reply
Answer(r, word) == pc' = [pc EXCEPT ![r] = "done"] /\ reply' = [reply EXCEPT ![r] = word]
Looks(r) == seen' = [seen EXCEPT ![r] = Len(rows)]

Found(r, i) ==
    /\ mine' = [mine EXCEPT ![r] = i]
    /\ Answer(r, "ok")
    /\ UNCHANGED <<store, wrote>>

Refused(r) ==
    /\ Answer(r, "refused")
    /\ UNCHANGED <<store, mine, seen, wrote>>

-----------------------------------------------------------------------------
(* The first piece of each operation.                                        *)

Refuse(r, c) ==
    /\ ~Admitted(c)
    /\ Arrives(r, c)
    /\ Refused(r)

\* create, record and prepare: the row and its index entry precede the only await.
Create(r, c) ==
    /\ Admitted(c)
    /\ Arrives(r, c)
    /\ Looks(r)
    /\ IF KeyOf(c) \in DOMAIN byKey
       THEN Found(r, byKey[KeyOf(c)])
       ELSE /\ AddRow(r, c)
            /\ UNCHANGED byOrder
            /\ Goto(r, "record")

CreateAdjustment(r, c) == c.op = "adjustment.create" /\ Create(r, c)
RecordRefund(r, c) == c.op = "refund.account" /\ Create(r, c)
RecordChargeback(r, c) == c.op = "chargeback.account" /\ Create(r, c)
PreparePayment(r, c) == c.op = "payment.prepare" /\ Create(r, c)
PreparePayout(r, c) == c.op = "payout.prepare" /\ Create(r, c)

\* mistake: the creator may decide too
BugOwnDecision(c) ==
    /\ c.row \in DOMAIN rows
    /\ rows[c.row].key.op = "adjustment.create"
    /\ rows[c.row].status = "draft"

\* mistake: an approved or rejected adjustment can be decided again
BugDecidedAgain(c) ==
    /\ c.row \in DOMAIN rows
    /\ rows[c.row].key.op = "adjustment.create"
    /\ rows[c.row].by # c.actor

Decidable(c) ==
    /\ c.row \in DOMAIN rows
    /\ rows[c.row].key.op = "adjustment.create"
    /\ rows[c.row].by # c.actor
    /\ rows[c.row].status = "draft"

\* Another actor than the creator decides a draft, once; a refusal changes nothing.
Decide(r, c, status) ==
    /\ Admitted(c)
    /\ Arrives(r, c)
    /\ IF Decidable(c)
       THEN /\ SetRow(r, c.row, [rows[c.row] EXCEPT !.status = status, !.decidedBy = c.actor])
            /\ UNCHANGED seen
            /\ Goto(r, "record")
       ELSE Refused(r)

\* An approval does not ask again whether the claim still has room.
Approve(r, c) == c.op = "adjustment.approve" /\ Decide(r, c, "approved")
Reject(r, c) == c.op = "adjustment.reject" /\ Decide(r, c, "rejected")

Movable(c) ==
    /\ c.row \in DOMAIN rows
    /\ rows[c.row].key.op = "payout.prepare"
    /\ c.to = "ready_for_execute" => "payouts:execute" \in Permits[c.actor]

\* A payout preparation goes from any status to any other, a cancelled one too.
Transition(r, c) ==
    /\ c.op = "payout.transition"
    /\ Admitted(c)
    /\ Arrives(r, c)
    /\ IF Movable(c)
       THEN /\ SetRow(r, c.row, [rows[c.row] EXCEPT !.status = c.to, !.decidedBy = c.actor])
            /\ UNCHANGED seen
            /\ Goto(r, "record")
       ELSE Refused(r)

\* materialize: by key first, then by order; otherwise the call waits for its intent.
Materialize(r, c) ==
    /\ c.op = "snapshot.materialize"
    /\ Admitted(c)
    /\ Arrives(r, c)
    /\ Looks(r)
    /\ CASE KeyOf(c) \in DOMAIN byKey -> Found(r, byKey[KeyOf(c)])
         [] KeyOf(c) \notin DOMAIN byKey /\ c.res \in DOMAIN byOrder -> Found(r, byOrder[c.res])
         [] OTHER -> Goto(r, "intent") /\ UNCHANGED <<store, mine, wrote>>

\* run: the gate is asked but a denial only means that nothing is saved.
Reconcile(r, c) ==
    /\ c.op = "recon.run"
    /\ Admitted(c)
    /\ Arrives(r, c)
    /\ Looks(r)
    /\ IF KeyOf(c) \in DOMAIN byKey
       THEN Found(r, byKey[KeyOf(c)])
       ELSE /\ Goto(r, IF Writable THEN "save" ELSE "record")
            /\ UNCHANGED <<store, mine, wrote>>

-----------------------------------------------------------------------------
(* The pieces after an await.                                                *)

EventOf(r, action) == [call |-> r, actor |-> cmd[r].actor, action |-> action, row |-> mine[r]]

RecordIntent(r) ==
    /\ pc[r] = "intent"
    /\ trail' = trail \cup {EventOf(r, "snapshot.intent")}
    /\ Goto(r, "materialise")
    /\ UNCHANGED <<env, store, cmd, mine, seen, wrote, faults>>

\* The snapshot is stored without looking at the order again.
StoreSnapshot(r) ==
    /\ pc[r] = "materialise"
    /\ UNCHANGED seen
    /\ AddRow(r, cmd[r])
    /\ byOrder' = With(byOrder, cmd[r].res, Len(rows) + 1)
    /\ Goto(r, "record")
    /\ UNCHANGED <<env, trail, cmd, faults>>

\* The run is saved without looking for the key again.
SaveRun(r) ==
    /\ pc[r] = "save"
    /\ UNCHANGED seen
    /\ AddRow(r, cmd[r])
    /\ Goto(r, "record")
    /\ UNCHANGED <<env, byOrder, trail, cmd, faults>>

Record(r) ==
    /\ pc[r] = "record"
    /\ trail' = trail \cup {EventOf(r, cmd[r].op)}
    /\ Answer(r, "ok")
    /\ UNCHANGED <<env, store, cmd, mine, seen, wrote, faults>>

\* A rejected append or save ends the call; what it wrote before stays.
PortRejects(r) ==
    /\ pc[r] \in {"intent", "save", "record"}
    /\ faults < MaxFaults
    /\ faults' = faults + 1
    /\ Answer(r, "failed")
    /\ UNCHANGED <<env, store, trail, cmd, mine, seen, wrote>>

Begin(r, c) == \/ Refuse(r, c)
               \/ CreateAdjustment(r, c) \/ RecordRefund(r, c) \/ RecordChargeback(r, c)
               \/ PreparePayment(r, c) \/ PreparePayout(r, c)
               \/ Approve(r, c) \/ Reject(r, c) \/ Transition(r, c)
               \/ Materialize(r, c) \/ Reconcile(r, c)
Resume(r) == \/ RecordIntent(r) \/ StoreSnapshot(r) \/ SaveRun(r)
             \/ Record(r) \/ PortRejects(r)

Next == \E r \in Requests : Resume(r) \/ \E c \in Menu : Begin(r, c)

Spec == Init /\ [][Next]_vars

-----------------------------------------------------------------------------
(* Properties.                                                               *)

\* What a later caller should find in place of a second row: the row of the same
\* key, and for a snapshot the row of the same order under any key.
SameThing(a, b) ==
    \/ a.key = b.key
    \/ a.key.op = "snapshot.materialize" /\ b.key.op = a.key.op /\ a.key.res = b.key.res

\* A second row for one key, or a second snapshot of one order, is only made by a
\* call that looked before the first row was there (the awaits of materialize and
\* run); once the row is stored, every later call under its key finds it.
RepeatedCallsFindTheRow ==
    \A i, j \in DOMAIN rows :
        i < j /\ SameThing(rows[i], rows[j]) =>
            /\ rows[j].lookedAt < i
            /\ rows[j].key.op \in {"snapshot.materialize", "recon.run"}

\* Nothing is stored in production or for an actor without the permission; an
\* adjustment is decided by somebody else than its creator who may approve, and
\* only a holder of payouts:execute left a payout ready for execution.
RowsAreWarranted ==
    /\ env = "production" => rows = <<>>
    /\ \A i \in DOMAIN rows :
          LET row == rows[i] IN
          /\ Holds(row.by, row.key.op)
          /\ row.status \in {"approved", "rejected"} =>
                row.decidedBy # row.by /\ Holds(row.decidedBy, "adjustment.approve")
          /\ row.status = "ready_for_execute" => "payouts:execute" \in Permits[row.decidedBy]

\* The audit trail and the rows tell one story: whatever a call changed is on the
\* trail once the call was answered "ok" (only a rejected append loses it), a
\* snapshot is preceded by its intent, and an adjustment has at most one decision
\* on the trail, the one its status shows.
TrailMatchesRows ==
    /\ \A r \in wrote : reply[r] = "ok" =>
          \E e \in trail : e.call = r /\ e.action = cmd[r].op /\ e.row = mine[r]
    /\ \A r \in wrote : cmd[r].op = "snapshot.materialize" =>
          \E e \in trail : e.call = r /\ e.action = "snapshot.intent"
    /\ \A e \in trail :
          /\ e.action = "adjustment.approve" => rows[e.row].status = "approved"
          /\ e.action = "adjustment.reject" => rows[e.row].status = "rejected"
          /\ e.action \in Deciding => rows[e.row].decidedBy = e.actor

\* Accounting history is append-only: a step adds a row at the end or changes the
\* status of one adjustment draft or of one payout preparation, nothing else.
HistoryStands ==
    [][/\ Len(rows') >= Len(rows)
       /\ \A i \in DOMAIN rows : rows'[i] # rows[i] =>
             /\ \/ rows[i].status = "draft"
                \/ rows[i].key.op = "payout.prepare"
             /\ [rows'[i] EXCEPT !.status = rows[i].status,
                                 !.decidedBy = rows[i].decidedBy] = rows[i]]_vars

\* "Cumulative adjustments must not invent impossible negative outstanding": the
\* approved decreases of a claim never exceed it.
ClaimNotOvercorrected ==
    \A s \in Resources :
        MapThenSumSet(LAMBDA i : rows[i].amount,
                      {i \in Approved(s) : rows[i].dir = "decrease_company_claim"})
            <= Principal[s]

=============================================================================
