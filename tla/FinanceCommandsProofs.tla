------------------------ MODULE FinanceCommandsProofs ------------------------
(***************************************************************************)
(* What the finance commands promise for any number of overlapping calls,   *)
(* whatever the menu: who may have made a row, that a repeated call finds   *)
(* the row of the first, that history stands, and that the audit trail      *)
(* tells what was done.  The invariant says what a call that waits has      *)
(* already established: its permission, its audit intent, and that no row   *)
(* it would repeat was there when it looked.                                *)
(***************************************************************************)
EXTENDS FinanceCommands, TLAPS

Waiting == {"intent", "materialise", "save", "record"}
Snapshot == "snapshot.materialize"

(* No row that was there when r looked is the one that r is about to make.  *)
Unmet(r) ==
    \A i \in 1..seen[r] :
        /\ rows[i].key # KeyOf(cmd[r])
        /\ cmd[r].op = Snapshot => rows[i].key.op # Snapshot \/ rows[i].key.res # cmd[r].res

CallKnows(r) ==
    /\ seen[r] <= Len(rows)
    /\ pc[r] # "idle" => cmd[r] \in Menu
    /\ pc[r] = "idle" => r \notin wrote /\ reply[r] = "none"
    /\ pc[r] \in {"intent", "materialise", "save"} =>
          /\ r \notin wrote /\ Writable /\ Holds(cmd[r].actor, cmd[r].op)
          /\ Unmet(r)
    /\ pc[r] \in {"intent", "materialise"} => cmd[r].op = Snapshot
    /\ pc[r] = "save" => cmd[r].op = "recon.run"
    /\ pc[r] \in Waiting => reply[r] = "none"
    /\ pc[r] = "materialise" \/ (r \in wrote /\ cmd[r].op = Snapshot) =>
          \E e \in trail : e.call = r /\ e.action = "snapshot.intent"
    /\ r \in wrote => mine[r] \in 1..Len(rows)
    /\ pc[r] = "record" /\ cmd[r].op = "adjustment.approve" => rows[mine[r]].status = "approved"
    /\ pc[r] = "record" /\ cmd[r].op = "adjustment.reject" => rows[mine[r]].status = "rejected"
    /\ pc[r] = "record" /\ cmd[r].op \in Deciding =>
          r \in wrote /\ rows[mine[r]].decidedBy = cmd[r].actor
    /\ r \in wrote /\ reply[r] = "ok" =>
          \E e \in trail : e.call = r /\ e.action = cmd[r].op /\ e.row = mine[r]

(* The indexes know every row: the key index each, the order index the      *)
(* snapshots.                                                               *)
Indexed ==
    \A i \in 1..Len(rows) :
        /\ rows[i].key \in DOMAIN byKey
        /\ rows[i].key.op = Snapshot => rows[i].key.res \in DOMAIN byOrder

Warranted(row) ==
    /\ env # "production" /\ Holds(row.by, row.key.op)
    /\ row.status \in {"approved", "rejected"} =>
          /\ row.key.op = "adjustment.create"
          /\ row.decidedBy # row.by /\ Holds(row.decidedBy, "adjustment.approve")
    /\ row.status = "ready_for_execute" => "payouts:execute" \in Permits[row.decidedBy]

Repeats == \A i, j \in 1..Len(rows) : i < j /\ SameThing(rows[i], rows[j]) =>
               rows[j].lookedAt < i /\ rows[j].key.op \in {Snapshot, "recon.run"}

Told == \A e \in trail : e.action \in Deciding =>
            /\ e.row \in 1..Len(rows)
            /\ e.action = "adjustment.approve" => rows[e.row].status = "approved"
            /\ e.action = "adjustment.reject" => rows[e.row].status = "rejected"
            /\ rows[e.row].decidedBy = e.actor

Inv ==
    /\ TypeOK /\ Indexed /\ Repeats /\ Told
    /\ \A i \in 1..Len(rows) : Warranted(rows[i])
    /\ \A r \in Requests : CallKnows(r)

-----------------------------------------------------------------------------
(* Values.                                                                  *)

LEMMA Ops1 ==
    /\ Creating \subseteq Ops /\ Deciding \subseteq Ops
    /\ Snapshot \notin Creating \cup Deciding /\ "recon.run" \notin Creating \cup Deciding
    /\ "payout.transition" \notin Creating \cup Deciding /\ Creating \cap Deciding = {}
    /\ "snapshot.intent" \notin Ops
  BY DEF Creating, Deciding, Ops, Snapshot

LEMMA CommandFacts ==
    ASSUME NEW c \in Menu
    PROVE  /\ c \in Commands /\ c # None
           /\ c.op \in Ops /\ c.actor \in Actors /\ c.res \in Resources /\ c.amount \in Nat
           /\ c.to \in PayoutStatus /\ c.row \in 1..MaxRows
           /\ KeyOf(c) \in Keys /\ KeyOf(c).op = c.op /\ KeyOf(c).res = c.res
<1>1. c \in Commands /\ c # None
  BY CommandsAssumption
<1> QED BY <1>1 DEF Commands, KeyOf, Keys

LEMMA StatusFacts ==
    ASSUME NEW c \in Menu
    PROVE  /\ FirstStatus(c) \in Statuses
           /\ FirstStatus(c) \notin {"approved", "rejected", "ready_for_execute"}
<1>1. FirstStatus(c) \in {"draft", "liability_attributed", "disputed_suspense", "prepared",
                          "completed", "recorded"}
  BY DEF FirstStatus, ChargebackStatus
<1> QED BY <1>1 DEF Statuses, PayoutStatus

LEMMA Bounds == MaxRows \in Nat \ {0} /\ MaxFaults \in Nat /\ None \notin Actors
  BY CommandsAssumption

LEMMA Decides ==
    /\ \A a : Holds(a, "adjustment.approve") <=> Holds(a, "adjustment.reject")
  BY DEF Holds, Needs, Deciding

-----------------------------------------------------------------------------
(* What a step does to the rows.                                            *)

(* One more row, with its entry in the key index.                           *)
Added(r, c) ==
    /\ rows' \in Seq(Row) /\ Len(rows') = Len(rows) + 1 /\ Len(rows') <= MaxRows
    /\ \A i \in 1..Len(rows) : rows'[i] = rows[i]
    /\ rows'[Len(rows) + 1] = RowFor(r, c) /\ RowFor(r, c) \in Row
    /\ RowFor(r, c).key = KeyOf(c) /\ RowFor(r, c).by = c.actor
    /\ RowFor(r, c).status = FirstStatus(c) /\ RowFor(r, c).lookedAt = seen'[r]
    /\ DOMAIN byKey' = DOMAIN byKey \cup {KeyOf(c)} /\ DOMAIN byKey' \subseteq Keys
    /\ \A k \in DOMAIN byKey' : byKey'[k] \in 1..Len(rows') /\ rows'[byKey'[k]].key = k

LEMMA RowAdded ==
    ASSUME TypeOK, NEW r \in Requests, NEW c \in Menu, AddRow(r, c), seen'[r] \in 0..Len(rows)
    PROVE  Added(r, c)
<1>1. rows \in Seq(Row) /\ Len(rows) \in Nat /\ Len(rows) < MaxRows /\ MaxRows \in Nat
  BY Bounds DEF TypeOK, AddRow
<1>2. RowFor(r, c) \in Row
  <2>1. c.dir \in Directions
    BY CommandFacts DEF Commands
  <2>2. seen'[r] \in Nat
    BY <1>1
  <2> QED BY <2>1, <2>2, CommandFacts, StatusFacts DEF RowFor, Row
<1>3. /\ RowFor(r, c).key = KeyOf(c) /\ RowFor(r, c).by = c.actor
      /\ RowFor(r, c).status = FirstStatus(c) /\ RowFor(r, c).lookedAt = seen'[r]
  BY DEF RowFor
<1>4. /\ rows' \in Seq(Row) /\ Len(rows') = Len(rows) + 1
      /\ \A i \in 1..Len(rows) : rows'[i] = rows[i]
      /\ rows'[Len(rows) + 1] = RowFor(r, c)
  BY <1>1, <1>2 DEF AddRow
<1>5. DOMAIN byKey' = DOMAIN byKey \cup {KeyOf(c)} /\ DOMAIN byKey' \subseteq Keys
  BY CommandFacts DEF AddRow, With, TypeOK
<1>6. ASSUME NEW k \in DOMAIN byKey'
      PROVE  byKey'[k] \in 1..Len(rows') /\ rows'[byKey'[k]].key = k
  <2>1. byKey'[k] = IF k = KeyOf(c) THEN Len(rows) + 1 ELSE byKey[k]
    BY <1>5, <1>6 DEF AddRow, With
  <2>2. CASE k = KeyOf(c)
    BY <2>1, <2>2, <1>1, <1>3, <1>4
  <2>3. CASE k # KeyOf(c)
    <3>1. k \in DOMAIN byKey /\ byKey[k] \in 1..Len(rows) /\ rows[byKey[k]].key = k
      BY <2>3, <1>5, <1>6 DEF TypeOK
    <3> QED BY <2>1, <2>3, <3>1, <1>1, <1>4
  <2> QED BY <2>2, <2>3
<1> QED BY <1>1, <1>2, <1>3, <1>4, <1>5, <1>6 DEF Added

(* One row with another status and another person who decided.              *)
Changed(row, status, a) == [row EXCEPT !.status = status, !.decidedBy = a]

Replaced(i, x, a) ==
    /\ rows' \in Seq(Row) /\ Len(rows') = Len(rows)
    /\ \A j \in 1..Len(rows) : j # i => rows'[j] = rows[j]
    /\ rows'[i] = Changed(rows[i], x, a) /\ rows[i] \in Row
    /\ rows'[i].status = x /\ rows'[i].decidedBy = a
    /\ rows'[i].key = rows[i].key /\ rows'[i].by = rows[i].by
    /\ rows'[i].lookedAt = rows[i].lookedAt
    /\ [rows'[i] EXCEPT !.status = rows[i].status,
                        !.decidedBy = rows[i].decidedBy] = rows[i]
    /\ byKey' = byKey /\ byOrder' = byOrder

LEMMA RowSet ==
    ASSUME TypeOK, NEW r \in Requests, NEW i \in 1..Len(rows), NEW x \in Statuses,
           NEW a \in Actors, SetRow(r, i, Changed(rows[i], x, a))
    PROVE  Replaced(i, x, a)
<1>1. rows \in Seq(Row) /\ rows[i] \in Row
  BY DEF TypeOK
<1>2. Changed(rows[i], x, a) \in Row
  BY <1>1 DEF Changed, Row
<1>3. rows' = [rows EXCEPT ![i] = Changed(rows[i], x, a)] /\ byKey' = byKey /\ byOrder' = byOrder
  BY DEF SetRow
<1>4. rows' \in Seq(Row) /\ Len(rows') = Len(rows)
  BY <1>1, <1>2, <1>3
<1>5. /\ \A j \in 1..Len(rows) : j # i => rows'[j] = rows[j]
      /\ rows'[i] = Changed(rows[i], x, a)
  BY <1>1, <1>3
<1>6. /\ Changed(rows[i], x, a).status = x /\ Changed(rows[i], x, a).decidedBy = a
      /\ Changed(rows[i], x, a).key = rows[i].key /\ Changed(rows[i], x, a).by = rows[i].by
      /\ Changed(rows[i], x, a).lookedAt = rows[i].lookedAt
      /\ [Changed(rows[i], x, a) EXCEPT !.status = rows[i].status,
                          !.decidedBy = rows[i].decidedBy] = rows[i]
  BY <1>1 DEF Changed, Row
<1> QED BY <1>1, <1>3, <1>4, <1>5, <1>6 DEF Replaced

-----------------------------------------------------------------------------
(* The three things a step may do to the store.                             *)

Adds(r, c) ==
    /\ AddRow(r, c) /\ cmd'[r] = c /\ env' = env /\ trail' = trail /\ pc'[r] = "record"
    /\ seen'[r] \in 0..Len(rows) /\ Writable /\ Holds(c.actor, c.op)
    /\ reply' = reply
    /\ \/ c.op \in Creating /\ pc[r] = "idle" /\ KeyOf(c) \notin DOMAIN byKey /\ byOrder' = byOrder
       \/ /\ c.op \in {Snapshot, "recon.run"} /\ pc[r] \in {"materialise", "save"}
          /\ cmd[r] = c /\ seen'[r] = seen[r]
          /\ c.op = Snapshot => pc[r] = "materialise" /\ byOrder' = With(byOrder, c.res, Len(rows) + 1)
          /\ c.op # Snapshot => byOrder' = byOrder

Sets(r, c, x) ==
    /\ c.row \in 1..Len(rows)
    /\ SetRow(r, c.row, Changed(rows[c.row], x, c.actor))
    /\ cmd'[r] = c /\ env' = env /\ trail' = trail /\ pc'[r] = "record" /\ seen' = seen
    /\ pc[r] = "idle" /\ Holds(c.actor, c.op) /\ reply' = reply
    /\ \/ /\ <<c.op, x>> \in {<<"adjustment.approve", "approved">>, <<"adjustment.reject", "rejected">>}
          /\ Decidable(c)
       \/ c.op = "payout.transition" /\ x = c.to /\ Movable(c)

(* Nothing is written, and the call goes from where it waits to where it    *)
(* waits next or ends.                                                      *)
Leaves(r) ==
    /\ UNCHANGED <<env, rows, byKey, byOrder, wrote>>
    /\ \/ /\ pc[r] = "idle" /\ trail' = trail /\ cmd'[r] \in Menu /\ seen'[r] \in {seen[r], Len(rows)}
          /\ \/ pc'[r] = "done" /\ reply'[r] # "none"
             \/ /\ pc'[r] \in {"intent", "save"} /\ reply' = reply /\ seen'[r] = Len(rows)
                /\ Writable /\ Holds(cmd'[r].actor, cmd'[r].op) /\ KeyOf(cmd'[r]) \notin DOMAIN byKey
                /\ pc'[r] = "intent" => cmd'[r].op = Snapshot /\ cmd'[r].res \notin DOMAIN byOrder
                /\ pc'[r] = "save" => cmd'[r].op = "recon.run"
             \/ pc'[r] = "record" /\ reply' = reply /\ cmd'[r].op = "recon.run"
       \/ /\ pc[r] \in Waiting /\ cmd' = cmd /\ mine' = mine /\ seen' = seen
          /\ \/ /\ pc[r] = "intent" /\ pc'[r] = "materialise" /\ reply' = reply
                /\ trail' = trail \cup {EventOf(r, "snapshot.intent")}
             \/ /\ pc[r] = "record" /\ pc'[r] = "done" /\ reply'[r] = "ok"
                /\ trail' = trail \cup {EventOf(r, cmd[r].op)}
             \/ pc'[r] = "done" /\ reply'[r] = "failed" /\ trail' = trail

Others(r) ==
    \A q \in Requests \ {r} :
        /\ pc'[q] = pc[q] /\ cmd'[q] = cmd[q] /\ mine'[q] = mine[q] /\ seen'[q] = seen[q]
        /\ reply'[q] = reply[q] /\ (q \in wrote' <=> q \in wrote)

Kinds(r) ==
    \/ Leaves(r)
    \/ \E c \in Menu : Adds(r, c) \/ \E x \in Statuses : Sets(r, c, x)

LEMMA AddsFacts ==
    ASSUME TypeOK, NEW r \in Requests, NEW c \in Menu, Adds(r, c)
    PROVE  /\ rows' \in Seq(Row) /\ Len(rows') = Len(rows) + 1 /\ Len(rows') <= MaxRows
           /\ Len(rows) \in Nat
           /\ \A i \in 1..Len(rows) : rows'[i] = rows[i]
           /\ rows'[Len(rows) + 1].key = KeyOf(c) /\ rows'[Len(rows) + 1].by = c.actor
           /\ rows'[Len(rows) + 1].status = FirstStatus(c)
           /\ rows'[Len(rows) + 1].lookedAt = seen'[r]
           /\ DOMAIN byKey' = DOMAIN byKey \cup {KeyOf(c)} /\ DOMAIN byKey' \subseteq Keys
           /\ \A k \in DOMAIN byKey' : byKey'[k] \in 1..Len(rows') /\ rows'[byKey'[k]].key = k
           /\ env' = env /\ trail' = trail /\ Writable /\ Holds(c.actor, c.op)
<1>1. AddRow(r, c) /\ seen'[r] \in 0..Len(rows) /\ env' = env /\ trail' = trail
      /\ Writable /\ Holds(c.actor, c.op) /\ Len(rows) \in Nat
  BY DEF Adds, TypeOK
<1>2. Added(r, c)
  BY <1>1, RowAdded
<1> QED BY <1>1, <1>2 DEF Added

LEMMA SetsFacts ==
    ASSUME TypeOK, NEW r \in Requests, NEW c \in Menu, NEW x \in Statuses, Sets(r, c, x)
    PROVE  /\ c.actor \in Actors /\ c.row \in 1..Len(rows)
           /\ rows' \in Seq(Row) /\ Len(rows') = Len(rows) /\ Len(rows) \in Nat
           /\ \A j \in 1..Len(rows) : j # c.row => rows'[j] = rows[j]
           /\ rows'[c.row].status = x /\ rows'[c.row].decidedBy = c.actor
           /\ rows'[c.row].key = rows[c.row].key /\ rows'[c.row].by = rows[c.row].by
           /\ rows'[c.row].lookedAt = rows[c.row].lookedAt
           /\ [rows'[c.row] EXCEPT !.status = rows[c.row].status,
                                   !.decidedBy = rows[c.row].decidedBy] = rows[c.row]
           /\ byKey' = byKey /\ byOrder' = byOrder /\ env' = env /\ trail' = trail
<1>1. /\ c.actor \in Actors /\ c.row \in 1..Len(rows) /\ Len(rows) \in Nat
      /\ SetRow(r, c.row, Changed(rows[c.row], x, c.actor))
      /\ env' = env /\ trail' = trail
  BY CommandFacts DEF Sets, TypeOK
<1>2. Replaced(c.row, x, c.actor)
  BY <1>1, RowSet
<1> QED BY <1>1, <1>2 DEF Replaced

LEMMA LeavesFacts ==
    ASSUME NEW r \in Requests, Leaves(r)
    PROVE  UNCHANGED <<env, rows, byKey, byOrder, wrote>> /\ trail \subseteq trail'
  BY DEF Leaves

LEMMA Begun ==
    ASSUME TypeOK, \A q \in Requests : CallKnows(q), NEW r \in Requests, NEW c \in Menu, Begin(r, c)
    PROVE  Kinds(r) /\ Others(r)
<1>t. /\ pc \in [Requests -> {"idle", "intent", "materialise", "save", "record", "done"}]
      /\ cmd \in [Requests -> Menu \cup {None}] /\ mine \in [Requests -> 0..MaxRows]
      /\ seen \in [Requests -> 0..MaxRows] /\ Len(rows) \in Nat /\ rows \in Seq(Row)
      /\ reply \in [Requests -> {"none", "ok", "refused", "failed"}]
  BY DEF TypeOK
<1> USE <1>t, CommandFacts DEF Arrives, Answer, Goto, Looks, Found, Refused, store, Others
<1>1. CASE Refuse(r, c)
  BY <1>1 DEF Refuse, Kinds, Leaves
<1>2. CASE c.op \in Creating /\ Create(r, c)
  <2>1. /\ Writable /\ Holds(c.actor, c.op)
    BY <1>2, Ops1 DEF Create, Admitted
  <2>2. CASE KeyOf(c) \in DOMAIN byKey
    BY <1>2, <2>2 DEF Create, Kinds, Leaves
  <2>3. CASE KeyOf(c) \notin DOMAIN byKey
    <3>1. AddRow(r, c) /\ Others(r)
      BY <1>2, <2>3 DEF Create, AddRow
    <3>2. Adds(r, c)
      BY <1>2, <2>1, <2>3, <3>1 DEF Create, Adds
    <3> QED BY <3>1, <3>2 DEF Kinds
  <2> QED BY <2>2, <2>3
<1>3. ASSUME NEW x \in {"approved", "rejected"},
             <<c.op, x>> \in {<<"adjustment.approve", "approved">>, <<"adjustment.reject", "rejected">>},
             Decide(r, c, x)
      PROVE  Kinds(r) /\ Others(r)
  <2>1. CASE Decidable(c)
    <3>1. c.row \in 1..Len(rows) /\ x \in Statuses
      BY <2>1 DEF Decidable, Statuses
    <3>2. SetRow(r, c.row, Changed(rows[c.row], x, c.actor)) /\ Others(r)
      BY <1>3, <2>1 DEF Decide, Changed, SetRow
    <3>3. Sets(r, c, x)
      BY <1>3, <2>1, <3>1, <3>2 DEF Decide, Sets, Admitted
    <3> QED BY <3>1, <3>2, <3>3 DEF Kinds
  <2>2. CASE ~Decidable(c)
    BY <1>3, <2>2 DEF Decide, Kinds, Leaves
  <2> QED BY <2>1, <2>2
<1>4. CASE Transition(r, c)
  <2>1. CASE Movable(c)
    <3>1. c.row \in 1..Len(rows) /\ c.to \in Statuses
      BY <2>1 DEF Movable, Statuses
    <3>2. SetRow(r, c.row, Changed(rows[c.row], c.to, c.actor)) /\ Others(r)
      BY <1>4, <2>1 DEF Transition, Changed, SetRow
    <3>3. Sets(r, c, c.to)
      BY <1>4, <2>1, <3>1, <3>2 DEF Transition, Sets, Admitted
    <3> QED BY <3>1, <3>2, <3>3 DEF Kinds
  <2>2. CASE ~Movable(c)
    BY <1>4, <2>2 DEF Transition, Kinds, Leaves
  <2> QED BY <2>1, <2>2
<1>5. CASE Materialize(r, c)
  <2>1. Writable /\ Holds(c.actor, c.op) /\ c.op = Snapshot
    BY <1>5 DEF Materialize, Admitted, Snapshot
  <2>2. CASE KeyOf(c) \in DOMAIN byKey \/ c.res \in DOMAIN byOrder
    <3>1. CASE KeyOf(c) \in DOMAIN byKey
      BY <1>5, <3>1 DEF Materialize, Kinds, Leaves
    <3>2. CASE KeyOf(c) \notin DOMAIN byKey /\ c.res \in DOMAIN byOrder
      BY <1>5, <3>2 DEF Materialize, Kinds, Leaves
    <3> QED BY <3>1, <3>2, <2>2
  <2>3. CASE KeyOf(c) \notin DOMAIN byKey /\ c.res \notin DOMAIN byOrder
    <3>1. Goto(r, "intent") /\ UNCHANGED <<store, mine, wrote>>
      BY <1>5, <2>3 DEF Materialize
    <3> QED BY <1>5, <2>1, <2>3, <3>1 DEF Materialize, Kinds, Leaves
  <2> QED BY <2>2, <2>3
<1>6. CASE Reconcile(r, c)
  <2>1. Holds(c.actor, c.op) /\ c.op = "recon.run"
    BY <1>6 DEF Reconcile, Admitted
  <2>2. CASE KeyOf(c) \in DOMAIN byKey
    BY <1>6, <2>2 DEF Reconcile, Kinds, Leaves
  <2>3. CASE KeyOf(c) \notin DOMAIN byKey
    BY <1>6, <2>1, <2>3 DEF Reconcile, Kinds, Leaves
  <2> QED BY <2>2, <2>3
<1> QED BY <1>1, <1>2, <1>3, <1>4, <1>5, <1>6
     DEF Begin, CreateAdjustment, RecordRefund, RecordChargeback, PreparePayment, PreparePayout,
         Approve, Reject, Creating

LEMMA Resumed ==
    ASSUME TypeOK, NEW r \in Requests, CallKnows(r), Resume(r)
    PROVE  Kinds(r) /\ Others(r)
<1>t. /\ pc \in [Requests -> {"idle", "intent", "materialise", "save", "record", "done"}]
      /\ mine \in [Requests -> 0..MaxRows] /\ seen \in [Requests -> 0..MaxRows]
      /\ Len(rows) \in Nat /\ reply \in [Requests -> {"none", "ok", "refused", "failed"}]
  BY DEF TypeOK
<1> USE <1>t DEF Answer, Goto, store, Others, Waiting
<1>1. CASE RecordIntent(r)
  BY <1>1 DEF RecordIntent, Kinds, Leaves
<1>2. CASE StoreSnapshot(r)
  <2>1. AddRow(r, cmd[r]) /\ Others(r)
    BY <1>2 DEF StoreSnapshot, AddRow
  <2>2. cmd[r] \in Menu /\ Adds(r, cmd[r])
    BY <1>2, <2>1 DEF StoreSnapshot, Adds, CallKnows
  <2> QED BY <2>1, <2>2 DEF Kinds
<1>3. CASE SaveRun(r)
  <2>1. AddRow(r, cmd[r]) /\ Others(r)
    BY <1>3 DEF SaveRun, AddRow
  <2>2. cmd[r] \in Menu /\ Adds(r, cmd[r])
    BY <1>3, <2>1 DEF SaveRun, Adds, CallKnows, Snapshot
  <2> QED BY <2>1, <2>2 DEF Kinds
<1>4. CASE Record(r)
  BY <1>4 DEF Record, Kinds, Leaves
<1>5. CASE PortRejects(r)
  BY <1>5 DEF PortRejects, Kinds, Leaves
<1> QED BY <1>1, <1>2, <1>3, <1>4, <1>5 DEF Resume

-----------------------------------------------------------------------------
(* Types.                                                                   *)

LEMMA StoreTyped ==
    ASSUME Inv, NEW r \in Requests, Kinds(r)
    PROVE  /\ rows' \in Seq(Row) /\ Len(rows') <= MaxRows
           /\ DOMAIN byKey' \subseteq Keys
           /\ \A k \in DOMAIN byKey' : byKey'[k] \in 1..Len(rows') /\ rows'[byKey'[k]].key = k
           /\ DOMAIN byOrder' \subseteq Resources
           /\ \A o \in DOMAIN byOrder' : byOrder'[o] \in 1..Len(rows') /\ rows'[byOrder'[o]].key.res = o
<1>t. TypeOK
  BY DEF Inv
<1>1. CASE Leaves(r)
  BY <1>1, <1>t DEF Leaves, TypeOK
<1>2. ASSUME NEW c \in Menu, Adds(r, c)
      PROVE  /\ rows' \in Seq(Row) /\ Len(rows') <= MaxRows
             /\ DOMAIN byKey' \subseteq Keys
             /\ \A k \in DOMAIN byKey' : byKey'[k] \in 1..Len(rows') /\ rows'[byKey'[k]].key = k
             /\ DOMAIN byOrder' \subseteq Resources
             /\ \A o \in DOMAIN byOrder' : byOrder'[o] \in 1..Len(rows') /\ rows'[byOrder'[o]].key.res = o
  <2>1. /\ rows' \in Seq(Row) /\ Len(rows') = Len(rows) + 1 /\ Len(rows') <= MaxRows
        /\ \A i \in 1..Len(rows) : rows'[i] = rows[i]
        /\ rows'[Len(rows) + 1].key = KeyOf(c)
        /\ DOMAIN byKey' \subseteq Keys
        /\ \A k \in DOMAIN byKey' : byKey'[k] \in 1..Len(rows') /\ rows'[byKey'[k]].key = k
    BY <1>2, <1>t, AddsFacts
  <2>2. Len(rows) \in Nat
    BY <1>t DEF TypeOK
  <2>3. CASE byOrder' = byOrder
    BY <2>1, <2>2, <2>3, <1>t DEF TypeOK
  <2>4. CASE byOrder' = With(byOrder, c.res, Len(rows) + 1)
    <3>1. /\ DOMAIN byOrder' = DOMAIN byOrder \cup {c.res}
          /\ \A o \in DOMAIN byOrder' :
                byOrder'[o] = IF o = c.res THEN Len(rows) + 1 ELSE byOrder[o]
      BY <2>4 DEF With
    <3>2. ASSUME NEW o \in DOMAIN byOrder'
          PROVE  byOrder'[o] \in 1..Len(rows') /\ rows'[byOrder'[o]].key.res = o
      <4>1. CASE o = c.res
        BY <4>1, <3>1, <2>1, <2>2, CommandFacts
      <4>2. CASE o # c.res
        <5>1. byOrder[o] \in 1..Len(rows) /\ rows[byOrder[o]].key.res = o
          BY <4>2, <3>1, <3>2, <1>t DEF TypeOK
        <5> QED BY <4>2, <5>1, <3>1, <3>2, <2>1, <2>2
      <4> QED BY <4>1, <4>2
    <3>3. DOMAIN byOrder' \subseteq Resources
      BY <3>1, <1>t, CommandFacts DEF TypeOK
    <3> QED BY <2>1, <3>2, <3>3
  <2> QED BY <1>2, <2>3, <2>4 DEF Adds
<1>3. ASSUME NEW c \in Menu, NEW x \in Statuses, Sets(r, c, x)
      PROVE  /\ rows' \in Seq(Row) /\ Len(rows') <= MaxRows
             /\ DOMAIN byKey' \subseteq Keys
             /\ \A k \in DOMAIN byKey' : byKey'[k] \in 1..Len(rows') /\ rows'[byKey'[k]].key = k
             /\ DOMAIN byOrder' \subseteq Resources
             /\ \A o \in DOMAIN byOrder' : byOrder'[o] \in 1..Len(rows') /\ rows'[byOrder'[o]].key.res = o
  <2>2. /\ rows' \in Seq(Row) /\ Len(rows') = Len(rows) /\ byKey' = byKey /\ byOrder' = byOrder
        /\ \A j \in 1..Len(rows) : j # c.row => rows'[j] = rows[j]
        /\ rows'[c.row].key = rows[c.row].key
    BY <1>3, <1>t, SetsFacts
  <2>3. \A j \in 1..Len(rows) : rows'[j].key = rows[j].key
    BY <2>2
  <2> QED BY <2>2, <2>3, <1>t DEF TypeOK
<1> QED BY <1>1, <1>2, <1>3 DEF Kinds

LEMMA LocalsTyped ==
    ASSUME Inv, NEW r \in Requests, Resume(r) \/ \E c \in Menu : Begin(r, c)
    PROVE  /\ env' \in {"production", "offline_fake"} /\ trail' \subseteq Event
           /\ pc' \in [Requests -> {"idle", "intent", "materialise", "save", "record", "done"}]
           /\ cmd' \in [Requests -> Menu \cup {None}]
           /\ mine' \in [Requests -> 0..MaxRows] /\ seen' \in [Requests -> 0..MaxRows]
           /\ wrote' \subseteq Requests
           /\ reply' \in [Requests -> {"none", "ok", "refused", "failed"}]
           /\ faults' \in 0..MaxFaults
<1> DEFINE Typed ==
           /\ env' \in {"production", "offline_fake"} /\ trail' \subseteq Event
           /\ pc' \in [Requests -> {"idle", "intent", "materialise", "save", "record", "done"}]
           /\ cmd' \in [Requests -> Menu \cup {None}]
           /\ mine' \in [Requests -> 0..MaxRows] /\ seen' \in [Requests -> 0..MaxRows]
           /\ wrote' \subseteq Requests
           /\ reply' \in [Requests -> {"none", "ok", "refused", "failed"}]
           /\ faults' \in 0..MaxFaults
<1>t. /\ env \in {"production", "offline_fake"} /\ trail \subseteq Event
      /\ pc \in [Requests -> {"idle", "intent", "materialise", "save", "record", "done"}]
      /\ cmd \in [Requests -> Menu \cup {None}]
      /\ mine \in [Requests -> 0..MaxRows] /\ seen \in [Requests -> 0..MaxRows]
      /\ wrote \subseteq Requests
      /\ reply \in [Requests -> {"none", "ok", "refused", "failed"}]
      /\ faults \in 0..MaxFaults
      /\ Len(rows) \in 0..MaxRows /\ CallKnows(r)
      /\ \A k \in DOMAIN byKey : byKey[k] \in 0..MaxRows
      /\ \A o \in DOMAIN byOrder : byOrder[o] \in 0..MaxRows
      /\ MaxRows \in Nat
  BY Bounds DEF Inv, TypeOK
<1>a. ASSUME NEW c, AddRow(r, c)
      PROVE  mine' \in [Requests -> 0..MaxRows] /\ wrote' \subseteq Requests
  BY <1>a, <1>t DEF AddRow
<1>s. ASSUME NEW c \in Menu, NEW row, SetRow(r, c.row, row)
      PROVE  mine' \in [Requests -> 0..MaxRows] /\ wrote' \subseteq Requests
  BY <1>s, <1>t, CommandFacts DEF SetRow
<1> USE <1>t, Bounds DEF Answer, Goto, Looks, Arrives, Found, Refused
<1>1. ASSUME NEW c \in Menu, Begin(r, c) PROVE Typed
  <2>1. CASE Refuse(r, c)
    BY <2>1 DEF Refuse
  <2>2. CASE Create(r, c)
    BY <2>2, <1>a DEF Create
  <2>3. ASSUME NEW x, Decide(r, c, x) PROVE Typed
    BY <2>3, <1>s DEF Decide
  <2>4. CASE Transition(r, c)
    BY <2>4, <1>s DEF Transition
  <2>5. CASE Materialize(r, c)
    BY <2>5 DEF Materialize
  <2>6. CASE Reconcile(r, c)
    BY <2>6 DEF Reconcile
  <2> QED BY <1>1, <2>1, <2>2, <2>3, <2>4, <2>5, <2>6
       DEF Begin, CreateAdjustment, RecordRefund, RecordChargeback, PreparePayment,
           PreparePayout, Approve, Reject
<1>2. ASSUME Resume(r) PROVE Typed
  <2>1. CASE RecordIntent(r) \/ Record(r)
    <3>1. cmd[r] \in Menu /\ cmd[r].actor \in Actors /\ cmd[r].op \in Ops
      BY <2>1, CommandFacts DEF RecordIntent, Record, CallKnows
    <3>2. /\ EventOf(r, "snapshot.intent") \in Event /\ EventOf(r, cmd[r].op) \in Event
      BY <3>1 DEF EventOf, Event
    <3> QED BY <2>1, <3>2 DEF RecordIntent, Record
  <2>2. CASE StoreSnapshot(r) \/ SaveRun(r)
    BY <2>2, <1>a DEF StoreSnapshot, SaveRun
  <2>3. CASE PortRejects(r)
    BY <2>3 DEF PortRejects
  <2> QED BY <1>2, <2>1, <2>2, <2>3 DEF Resume
<1> QED BY <1>1, <1>2

-----------------------------------------------------------------------------
(* What a step leaves of the rows that were there: all but the status and   *)
(* the decider of one undecided row.                                        *)
RowStands(i) ==
    /\ rows'[i].key = rows[i].key /\ rows'[i].by = rows[i].by
    /\ rows'[i].lookedAt = rows[i].lookedAt
    /\ rows[i].status \in {"approved", "rejected"} => rows'[i] = rows[i]
    /\ rows'[i] # rows[i] =>
         /\ rows[i].status = "draft" \/ rows[i].key.op = "payout.prepare"
         /\ [rows'[i] EXCEPT !.status = rows[i].status,
                             !.decidedBy = rows[i].decidedBy] = rows[i]

Stands ==
    /\ env' = env /\ trail \subseteq trail' /\ Len(rows) <= Len(rows')
    /\ Len(rows) \in Nat /\ Len(rows') \in Nat
    /\ \A i \in 1..Len(rows) : RowStands(i)

LEMMA StepStands ==
    ASSUME Inv, NEW r \in Requests, Kinds(r)
    PROVE  Stands
<1>t. TypeOK /\ Len(rows) \in Nat /\ rows \in Seq(Row)
  BY DEF Inv, TypeOK
<1>1. CASE Leaves(r)
  <2>1. rows' = rows /\ env' = env /\ trail \subseteq trail'
    BY <1>1, LeavesFacts
  <2> QED BY <1>t, <2>1 DEF Stands, RowStands
<1>2. ASSUME NEW c \in Menu, Adds(r, c) PROVE Stands
  <2>1. /\ Len(rows') = Len(rows) + 1 /\ \A i \in 1..Len(rows) : rows'[i] = rows[i]
        /\ env' = env /\ trail' = trail
    BY <1>2, <1>t, AddsFacts
  <2>2. \A i \in 1..Len(rows) : RowStands(i)
    BY <2>1 DEF RowStands
  <2> QED BY <1>t, <2>1, <2>2 DEF Stands
<1>3. ASSUME NEW c \in Menu, NEW x \in Statuses, Sets(r, c, x) PROVE Stands
  <2>2. /\ Len(rows') = Len(rows) /\ env' = env /\ trail' = trail /\ c.row \in 1..Len(rows)
        /\ \A j \in 1..Len(rows) : j # c.row => rows'[j] = rows[j]
        /\ rows'[c.row].key = rows[c.row].key /\ rows'[c.row].by = rows[c.row].by
        /\ rows'[c.row].lookedAt = rows[c.row].lookedAt
        /\ [rows'[c.row] EXCEPT !.status = rows[c.row].status,
                                !.decidedBy = rows[c.row].decidedBy] = rows[c.row]
    BY <1>3, <1>t, SetsFacts
  <2>3. Warranted(rows[c.row])
    BY <2>2 DEF Inv
  <2>4. /\ rows[c.row].status \notin {"approved", "rejected"}
        /\ rows[c.row].status = "draft" \/ rows[c.row].key.op = "payout.prepare"
    BY <1>3, <2>3 DEF Sets, Decidable, Movable, Warranted
  <2>5. ASSUME NEW i \in 1..Len(rows) PROVE RowStands(i)
    <3>1. CASE i # c.row
      BY <3>1, <2>2 DEF RowStands
    <3>2. CASE i = c.row
      BY <3>2, <2>2, <2>4 DEF RowStands
    <3> QED BY <3>1, <3>2
  <2> QED BY <1>t, <2>2, <2>5 DEF Stands
<1> QED BY <1>1, <1>2, <1>3 DEF Kinds

-----------------------------------------------------------------------------
(* The parts of the invariant.                                              *)

LEMMA RowsKept ==
    ASSUME Inv, NEW r \in Requests, Kinds(r)
    PROVE  Indexed' /\ Repeats' /\ \A i \in 1..Len(rows') : Warranted(rows[i])'
<1>t. TypeOK /\ Len(rows) \in Nat /\ rows \in Seq(Row) /\ Stands
  BY StepStands DEF Inv, TypeOK
<1>i. Indexed /\ Repeats /\ (\A i \in 1..Len(rows) : Warranted(rows[i])) /\ CallKnows(r)
  BY DEF Inv
<1>1. CASE Leaves(r)
  <2>1. UNCHANGED <<env, rows, byKey, byOrder>>
    BY <1>1, LeavesFacts
  <2> QED BY <2>1, <1>i DEF Indexed, Repeats, Warranted
<1>2. ASSUME NEW c \in Menu, Adds(r, c)
      PROVE  Indexed' /\ Repeats' /\ \A i \in 1..Len(rows') : Warranted(rows[i])'
  <2>1. /\ Len(rows') = Len(rows) + 1
        /\ \A i \in 1..Len(rows) : rows'[i] = rows[i]
        /\ rows'[Len(rows) + 1].key = KeyOf(c) /\ rows'[Len(rows) + 1].by = c.actor
        /\ rows'[Len(rows) + 1].status = FirstStatus(c)
        /\ rows'[Len(rows) + 1].lookedAt = seen'[r]
        /\ DOMAIN byKey' = DOMAIN byKey \cup {KeyOf(c)}
        /\ env' = env /\ Writable /\ Holds(c.actor, c.op)
    BY <1>2, <1>t, AddsFacts
  <2>2. KeyOf(c).op = c.op /\ KeyOf(c).res = c.res
    BY CommandFacts
  <2>3. /\ DOMAIN byOrder \subseteq DOMAIN byOrder'
        /\ c.op = Snapshot => c.res \in DOMAIN byOrder'
    BY <1>2, Ops1 DEF Adds, With
  <2>4. Indexed'
    <3> SUFFICES ASSUME NEW i \in 1..Len(rows')
                 PROVE  /\ rows'[i].key \in DOMAIN byKey'
                        /\ rows'[i].key.op = Snapshot => rows'[i].key.res \in DOMAIN byOrder'
      BY DEF Indexed
    <3>1. CASE i \in 1..Len(rows)
      BY <3>1, <2>1, <2>3, <1>i DEF Indexed
    <3>2. CASE i = Len(rows) + 1
      BY <3>2, <2>1, <2>2, <2>3
    <3> QED BY <3>1, <3>2, <2>1, <1>t
  <2>5. Repeats'
    <3> SUFFICES ASSUME NEW i \in 1..Len(rows'), NEW j \in 1..Len(rows'), i < j,
                        SameThing(rows'[i], rows'[j])
                 PROVE  rows'[j].lookedAt < i /\ rows'[j].key.op \in {Snapshot, "recon.run"}
      BY DEF Repeats, SameThing
    <3>1. i \in 1..Len(rows) /\ rows'[i] = rows[i]
      BY <2>1, <1>t
    <3>2. CASE j \in 1..Len(rows)
      BY <3>1, <3>2, <2>1, <1>i DEF Repeats
    <3>3. CASE j = Len(rows) + 1
      <4>1. rows[i].key = KeyOf(c) \/ (rows[i].key.op = Snapshot /\ c.op = Snapshot /\ rows[i].key.res = c.res)
        BY <3>1, <3>3, <2>1, <2>2 DEF SameThing, Snapshot
      <4>2. ~(c.op \in Creating /\ KeyOf(c) \notin DOMAIN byKey)
        BY <4>1, <3>1, <1>i, Ops1 DEF Indexed
      <4>3. /\ c.op \in {Snapshot, "recon.run"} /\ pc[r] \in {"materialise", "save"}
            /\ cmd[r] = c /\ seen'[r] = seen[r]
        BY <1>2, <4>2 DEF Adds
      <4>4. Unmet(r)
        BY <4>3, <1>i DEF CallKnows
      <4>5. i \notin 1..seen[r]
        BY <4>1, <4>3, <4>4 DEF Unmet
      <4>6. seen[r] \in Nat
        BY <1>t, Bounds DEF TypeOK
      <4>7. seen[r] < i
        BY <4>5, <4>6, <3>1, <1>t
      <4> QED BY <4>3, <4>7, <3>3, <2>1, <2>2
    <3> QED BY <3>2, <3>3, <2>1, <1>t
  <2>6. ASSUME NEW i \in 1..Len(rows') PROVE Warranted(rows[i])'
    <3>1. CASE i \in 1..Len(rows)
      BY <3>1, <2>1, <1>i DEF Warranted
    <3>2. CASE i = Len(rows) + 1
      <4>1. env' # "production" /\ Holds(c.actor, c.op)
        BY <2>1 DEF Writable
      <4>2. FirstStatus(c) \notin {"approved", "rejected", "ready_for_execute"}
        BY StatusFacts
      <4> QED BY <3>2, <4>1, <4>2, <2>1, <2>2 DEF Warranted
    <3> QED BY <3>1, <3>2, <2>1, <1>t
  <2> QED BY <2>4, <2>5, <2>6
<1>3. ASSUME NEW c \in Menu, NEW x \in Statuses, Sets(r, c, x)
      PROVE  Indexed' /\ Repeats' /\ \A i \in 1..Len(rows') : Warranted(rows[i])'
  <2>1. c.actor \in Actors /\ c.row \in 1..Len(rows)
    BY <1>3, <1>t, SetsFacts
  <2>2. /\ Len(rows') = Len(rows) /\ byKey' = byKey /\ byOrder' = byOrder /\ env' = env
        /\ \A j \in 1..Len(rows) : j # c.row => rows'[j] = rows[j]
        /\ rows'[c.row].status = x /\ rows'[c.row].decidedBy = c.actor
    BY <1>3, <1>t, SetsFacts
  <2>3. \A j \in 1..Len(rows) : /\ rows'[j].key = rows[j].key /\ rows'[j].by = rows[j].by
                                /\ rows'[j].lookedAt = rows[j].lookedAt
    BY <1>t DEF Stands, RowStands
  <2>4. Indexed' /\ Repeats'
    BY <2>2, <2>3, <1>i DEF Indexed, Repeats, SameThing
  <2>5. ASSUME NEW i \in 1..Len(rows') PROVE Warranted(rows[i])'
    <3>1. CASE i # c.row
      BY <3>1, <2>2, <1>i DEF Warranted
    <3>2. CASE i = c.row
      <4>1. env' # "production" /\ Holds(rows'[i].by, rows'[i].key.op)
        BY <3>2, <2>1, <2>2, <2>3, <1>i DEF Warranted
      <4>2. x \in {"approved", "rejected"} =>
              /\ rows[i].key.op = "adjustment.create" /\ rows[i].by # c.actor
              /\ Holds(c.actor, "adjustment.approve")
        BY <3>2, <1>3, CommandFacts, Decides DEF Sets, Decidable, PayoutStatus
      <4>3. x = "ready_for_execute" => "payouts:execute" \in Permits[c.actor]
        BY <1>3 DEF Sets, Movable
      <4> QED BY <3>2, <4>1, <4>2, <4>3, <2>1, <2>2, <2>3 DEF Warranted
    <3> QED BY <3>1, <3>2
  <2> QED BY <2>4, <2>5
<1> QED BY <1>1, <1>2, <1>3 DEF Kinds

LEMMA OthersKnow ==
    ASSUME Inv, Stands, NEW r \in Requests, Others(r), NEW q \in Requests, q # r
    PROVE  CallKnows(q)'
<1>1. /\ pc'[q] = pc[q] /\ cmd'[q] = cmd[q] /\ mine'[q] = mine[q] /\ seen'[q] = seen[q]
      /\ reply'[q] = reply[q] /\ (q \in wrote' <=> q \in wrote)
  BY DEF Others
<1>2. CallKnows(q) /\ seen[q] \in Nat /\ Len(rows) \in Nat
  BY Bounds DEF Inv, TypeOK
<1>0. /\ Len(rows) <= Len(rows') /\ Len(rows') \in Nat /\ seen[q] <= Len(rows)
      /\ \A i \in 1..Len(rows) : rows'[i].key = rows[i].key
  BY <1>2 DEF Stands, RowStands, CallKnows
<1>3. Unmet(q) => Unmet(q)'
  <2>1. \A i \in 1..seen[q] : rows'[i].key = rows[i].key
    BY <1>0, <1>2
  <2> QED BY <1>1, <2>1 DEF Unmet, KeyOf
<1>4. Writable' = Writable
  BY DEF Writable, Stands
<1>5. pc[q] = "record" /\ cmd[q].op \in Deciding => rows'[mine[q]] = rows[mine[q]]
  BY <1>2 DEF CallKnows, Stands, RowStands, Deciding
<1>6. /\ seen'[q] <= Len(rows')
      /\ q \in wrote' => mine'[q] \in 1..Len(rows')
  BY <1>0, <1>1, <1>2 DEF CallKnows
<1>7. /\ pc'[q] = "record" /\ cmd'[q].op = "adjustment.approve" => rows'[mine'[q]].status = "approved"
      /\ pc'[q] = "record" /\ cmd'[q].op = "adjustment.reject" => rows'[mine'[q]].status = "rejected"
      /\ pc'[q] = "record" /\ cmd'[q].op \in Deciding =>
            q \in wrote' /\ rows'[mine'[q]].decidedBy = cmd'[q].actor
  BY <1>1, <1>2, <1>5 DEF CallKnows, Deciding
<1>8. trail \subseteq trail'
  BY DEF Stands, RowStands
<1> QED BY <1>1, <1>2, <1>3, <1>4, <1>6, <1>7, <1>8 DEF CallKnows

LEMMA OwnKnows ==
    ASSUME Inv, NEW r \in Requests, Kinds(r),
           seen' \in [Requests -> 0..MaxRows], mine' \in [Requests -> 0..MaxRows]
    PROVE  CallKnows(r)'
<1>t. TypeOK /\ Len(rows) \in Nat /\ Stands /\ CallKnows(r) /\ Indexed /\ seen[r] \in Nat
  BY StepStands, Bounds DEF Inv, TypeOK
<1>1. CASE Leaves(r)
  <2>1. /\ Writable' = Writable /\ rows' = rows /\ byKey' = byKey /\ wrote' = wrote
        /\ trail \subseteq trail'
    BY <1>1, <1>t DEF Leaves, Writable, Stands
  <2>2. CASE /\ pc[r] = "idle" /\ cmd'[r] \in Menu /\ seen'[r] \in {seen[r], Len(rows)}
             /\ pc'[r] = "done" /\ reply'[r] # "none"
    BY <2>1, <2>2, <1>t DEF CallKnows, Waiting
  <2>3. CASE /\ pc[r] = "idle" /\ cmd'[r] \in Menu /\ seen'[r] = Len(rows)
             /\ pc'[r] \in {"intent", "save"} /\ reply' = reply
             /\ Writable /\ Holds(cmd'[r].actor, cmd'[r].op) /\ KeyOf(cmd'[r]) \notin DOMAIN byKey
             /\ pc'[r] = "intent" => cmd'[r].op = Snapshot /\ cmd'[r].res \notin DOMAIN byOrder
             /\ pc'[r] = "save" => cmd'[r].op = "recon.run"
    <3>1. Unmet(r)'
      BY <2>1, <2>3, <1>t DEF Unmet, Indexed, KeyOf, Snapshot
    <3> QED BY <3>1, <2>1, <2>3, <1>t DEF CallKnows, Waiting
  <2>4. CASE /\ pc[r] = "idle" /\ cmd'[r] \in Menu /\ seen'[r] \in {seen[r], Len(rows)}
             /\ pc'[r] = "record" /\ reply' = reply /\ cmd'[r].op = "recon.run"
    BY <2>1, <2>4, <1>t DEF CallKnows, Waiting, Deciding
  <2>5. CASE /\ pc[r] \in Waiting /\ cmd' = cmd /\ mine' = mine /\ seen' = seen
             /\ pc[r] = "intent" /\ pc'[r] = "materialise" /\ reply' = reply
             /\ trail' = trail \cup {EventOf(r, "snapshot.intent")}
    <3>1. Unmet(r)'
      BY <2>1, <2>5, <1>t DEF Unmet, CallKnows, KeyOf
    <3>2. EventOf(r, "snapshot.intent").call = r /\ EventOf(r, "snapshot.intent").action = "snapshot.intent"
      BY DEF EventOf
    <3>3. \E e \in trail' : e.call = r /\ e.action = "snapshot.intent"
      BY <2>5, <3>2
    <3> QED BY <3>1, <3>3, <2>1, <2>5, <1>t DEF CallKnows, Waiting, Snapshot, Deciding
  <2>6. CASE /\ pc[r] \in Waiting /\ cmd' = cmd /\ mine' = mine /\ seen' = seen
             /\ pc[r] = "record" /\ pc'[r] = "done" /\ reply'[r] = "ok"
             /\ trail' = trail \cup {EventOf(r, cmd[r].op)}
    <3>1. /\ EventOf(r, cmd[r].op).call = r /\ EventOf(r, cmd[r].op).action = cmd[r].op
          /\ EventOf(r, cmd[r].op).row = mine[r]
      BY DEF EventOf
    <3>2. \E e \in trail' : e.call = r /\ e.action = cmd'[r].op /\ e.row = mine'[r]
      BY <2>6, <3>1
    <3> QED BY <3>2, <2>1, <2>6, <1>t DEF CallKnows, Waiting
  <2>7. CASE /\ pc[r] \in Waiting /\ cmd' = cmd /\ mine' = mine /\ seen' = seen
             /\ pc'[r] = "done" /\ reply'[r] = "failed" /\ trail' = trail
    BY <2>1, <2>7, <1>t DEF CallKnows, Waiting
  <2> QED BY <1>1, <2>2, <2>3, <2>4, <2>5, <2>6, <2>7 DEF Leaves
<1>2. ASSUME NEW c \in Menu, Adds(r, c) PROVE CallKnows(r)'
  <2>1. Len(rows') = Len(rows) + 1
    BY <1>2, <1>t, AddsFacts
  <2>2. mine'[r] = Len(rows) + 1 /\ r \in wrote'
    BY <1>2, <1>t DEF Adds, AddRow, TypeOK
  <2>3. pc[r] \in {"idle", "materialise", "save"} /\ reply'[r] = "none"
    BY <1>2, <1>t DEF Adds, CallKnows, Waiting
  <2>4. c.op = Snapshot => \E e \in trail' : e.call = r /\ e.action = "snapshot.intent"
    BY <1>2, <1>t, Ops1 DEF Adds, CallKnows
  <2>5. c.op \notin Deciding /\ pc'[r] = "record" /\ cmd'[r] = c /\ seen'[r] <= Len(rows)
    BY <1>2, Ops1, <1>t DEF Adds
  <2>6. mine'[r] \in 1..Len(rows') /\ seen'[r] <= Len(rows')
    BY <2>1, <2>2, <2>5, <1>2, <1>t DEF Adds
  <2> QED BY <2>2, <2>3, <2>4, <2>5, <2>6 DEF CallKnows, Waiting, Deciding
<1>3. ASSUME NEW c \in Menu, NEW x \in Statuses, Sets(r, c, x) PROVE CallKnows(r)'
  <2>1. c.actor \in Actors /\ c.row \in 1..Len(rows) /\ c \in Menu
    BY <1>3, <1>t, SetsFacts
  <2>2. /\ Len(rows') = Len(rows)
        /\ rows'[c.row].status = x /\ rows'[c.row].decidedBy = c.actor
    BY <1>3, <1>t, SetsFacts
  <2>3. mine'[r] = c.row /\ r \in wrote' /\ reply'[r] = "none"
    BY <1>3, <1>t DEF Sets, SetRow, TypeOK, CallKnows
  <2>4. /\ pc'[r] = "record" /\ cmd'[r] = c /\ seen'[r] <= Len(rows') /\ c.op # Snapshot
        /\ c.op \in Deciding =>
             <<c.op, x>> \in {<<"adjustment.approve", "approved">>, <<"adjustment.reject", "rejected">>}
    BY <1>3, <2>2, <1>t, Ops1 DEF Sets, CallKnows, Snapshot
  <2> QED BY <2>1, <2>2, <2>3, <2>4 DEF CallKnows, Waiting, Deciding
<1> QED BY <1>1, <1>2, <1>3 DEF Kinds

LEMMA ToldKept ==
    ASSUME Inv, NEW r \in Requests, Kinds(r)
    PROVE  Told'
<1>t. TypeOK /\ Stands /\ Told /\ CallKnows(r)
  BY StepStands DEF Inv
<1>1. ASSUME NEW e \in trail, e.action \in Deciding
      PROVE  /\ e.row \in 1..Len(rows')
             /\ e.action = "adjustment.approve" => rows'[e.row].status = "approved"
             /\ e.action = "adjustment.reject" => rows'[e.row].status = "rejected"
             /\ rows'[e.row].decidedBy = e.actor
  <2>1. e.row \in 1..Len(rows) /\ rows[e.row].status \in {"approved", "rejected"}
    BY <1>1, <1>t DEF Told, Deciding
  <2>2. rows'[e.row] = rows[e.row] /\ e.row \in 1..Len(rows')
    <3>1. Len(rows) <= Len(rows') /\ Len(rows) \in Nat /\ Len(rows') \in Nat
          /\ rows'[e.row] = rows[e.row]
      BY <2>1, <1>t DEF Stands, RowStands
    <3> QED BY <2>1, <3>1
  <2> QED BY <1>1, <2>2, <1>t DEF Told
<1>2. ASSUME NEW e \in trail', e \notin trail, e.action \in Deciding
      PROVE  /\ e.row \in 1..Len(rows')
             /\ e.action = "adjustment.approve" => rows'[e.row].status = "approved"
             /\ e.action = "adjustment.reject" => rows'[e.row].status = "rejected"
             /\ rows'[e.row].decidedBy = e.actor
  <2>1. /\ rows' = rows /\ pc[r] = "record"
        /\ e = EventOf(r, cmd[r].op)
    BY <1>2 DEF Kinds, Leaves, Adds, Sets, EventOf, Deciding
  <2>2. e.action = cmd[r].op /\ e.actor = cmd[r].actor /\ e.row = mine[r]
    BY <2>1 DEF EventOf
  <2> QED BY <1>2, <2>1, <2>2, <1>t DEF CallKnows, Deciding
<1> QED BY <1>1, <1>2 DEF Told

LEMMA InvKept ==
    ASSUME Inv, [Next]_vars
    PROVE  Inv'
<1>1. ASSUME NEW r \in Requests, Resume(r) \/ \E c \in Menu : Begin(r, c) PROVE Inv'
  <2>1. Kinds(r) /\ Others(r)
    BY <1>1, Begun, Resumed DEF Inv
  <2>2. TypeOK'
    BY <1>1, <2>1, StoreTyped, LocalsTyped DEF TypeOK
  <2>3. \A q \in Requests : CallKnows(q)'
    BY <2>1, <2>2, StepStands, OwnKnows, OthersKnow DEF TypeOK
  <2>4. Indexed' /\ Repeats' /\ Told' /\ \A i \in 1..Len(rows') : Warranted(rows[i])'
    BY <2>1, RowsKept, ToldKept
  <2> QED BY <2>2, <2>3, <2>4 DEF Inv
<1>2. CASE UNCHANGED vars
  BY <1>2 DEF vars, Inv, TypeOK, Indexed, Repeats, Told, Warranted, CallKnows, Unmet, Writable
<1> QED BY <1>1, <1>2 DEF Next

LEMMA InvInit == Init => Inv
<1> SUFFICES ASSUME Init PROVE Inv
  OBVIOUS
<1>1. TypeOK
  BY Bounds DEF Init, TypeOK
<1>2. Len(rows) = 0 /\ wrote = {} /\ trail = {} /\ \A r \in Requests : pc[r] = "idle" /\ reply[r] = "none" /\ seen[r] = 0
  BY DEF Init
<1> QED BY <1>1, <1>2 DEF Inv, Indexed, Repeats, Told, CallKnows, Waiting

LEMMA InvHolds == Spec => []Inv
  BY InvInit, InvKept, PTL DEF Spec

-----------------------------------------------------------------------------
(* The theorems.                                                            *)

(* The state of the services keeps its type; above all, both indexes name   *)
(* rows that exist and that carry the key, or the order, they are under.    *)
THEOREM TypesHold == Spec => []TypeOK
<1>1. Inv => TypeOK
  BY DEF Inv
<1> QED BY <1>1, InvHolds, PTL

(* Whatever overlaps: no row in production or without the permission, no    *)
(* adjustment decided by its creator or by somebody who may not approve,    *)
(* no payout made ready by somebody who may not execute.                    *)
THEOREM EveryRowWarranted == Spec => []RowsAreWarranted
<1>1. Inv => RowsAreWarranted
  <2> SUFFICES ASSUME Inv PROVE RowsAreWarranted
    OBVIOUS
  <2>1. rows \in Seq(Row) /\ DOMAIN rows = 1..Len(rows) /\ Len(rows) \in Nat
    BY DEF Inv, TypeOK
  <2>2. \A i \in DOMAIN rows : Warranted(rows[i])
    BY <2>1 DEF Inv
  <2>3. env = "production" => rows = <<>>
    <3> SUFFICES ASSUME env = "production" PROVE rows = <<>>
      OBVIOUS
    <3>1. ~(1 \in 1..Len(rows))
      BY <2>1, <2>2 DEF Warranted
    <3>2. Len(rows) = 0
      BY <2>1, <3>1
    <3> QED BY <2>1, <3>2
  <2> QED BY <2>2, <2>3 DEF RowsAreWarranted, Warranted
<1> QED BY <1>1, InvHolds, PTL

(* A second row for a key, or a second snapshot of an order, comes only     *)
(* from a materialize or a reconciliation that looked before the first row  *)
(* was stored; every other repeated call finds the row.                     *)
THEOREM RepeatsFindTheRow == Spec => []RepeatedCallsFindTheRow
<1>1. Inv => RepeatedCallsFindTheRow
  <2> SUFFICES ASSUME Inv PROVE RepeatedCallsFindTheRow
    OBVIOUS
  <2>1. DOMAIN rows = 1..Len(rows) /\ Repeats
    BY DEF Inv, TypeOK
  <2> QED BY <2>1 DEF Repeats, RepeatedCallsFindTheRow, Snapshot
<1> QED BY <1>1, InvHolds, PTL

(* The audit trail: a change answered "ok" is on it, a snapshot comes after *)
(* its intent, and a decision on it is the one that the row shows.          *)
THEOREM TrailTellsTheRows == Spec => []TrailMatchesRows
<1>1. Inv => TrailMatchesRows
  <2> SUFFICES ASSUME Inv PROVE TrailMatchesRows
    OBVIOUS
  <2>1. wrote \subseteq Requests /\ Told /\ \A r \in Requests : CallKnows(r)
    BY DEF Inv, TypeOK
  <2>2. \A r \in wrote :
            /\ reply[r] = "ok" => \E e \in trail : e.call = r /\ e.action = cmd[r].op /\ e.row = mine[r]
            /\ cmd[r].op = Snapshot => \E e \in trail : e.call = r /\ e.action = "snapshot.intent"
    BY <2>1 DEF CallKnows
  <2>3. \A e \in trail :
            /\ e.action = "adjustment.approve" => rows[e.row].status = "approved"
            /\ e.action = "adjustment.reject" => rows[e.row].status = "rejected"
            /\ e.action \in Deciding => rows[e.row].decidedBy = e.actor
    BY <2>1 DEF Told, Deciding
  <2> QED BY <2>2, <2>3 DEF TrailMatchesRows, Snapshot
<1> QED BY <1>1, InvHolds, PTL

(* Accounting history is append-only: a step adds one row, or decides one   *)
(* draft or moves one payout preparation and leaves the rest of that row.   *)
THEOREM HistoryIsAppendOnly == Spec => HistoryStands
<1>1. Inv /\ [Next]_vars =>
        [/\ Len(rows') >= Len(rows)
         /\ \A i \in DOMAIN rows : rows'[i] # rows[i] =>
               /\ \/ rows[i].status = "draft"
                  \/ rows[i].key.op = "payout.prepare"
               /\ [rows'[i] EXCEPT !.status = rows[i].status,
                                   !.decidedBy = rows[i].decidedBy] = rows[i]]_vars
  <2> SUFFICES ASSUME Inv, NEW r \in Requests, Resume(r) \/ \E c \in Menu : Begin(r, c)
               PROVE  /\ Len(rows') >= Len(rows)
                      /\ \A i \in DOMAIN rows : rows'[i] # rows[i] =>
                            /\ \/ rows[i].status = "draft"
                               \/ rows[i].key.op = "payout.prepare"
                            /\ [rows'[i] EXCEPT !.status = rows[i].status,
                                                !.decidedBy = rows[i].decidedBy] = rows[i]
    BY DEF Next
  <2>1. Stands
    BY Begun, Resumed, StepStands DEF Inv
  <2>2. DOMAIN rows = 1..Len(rows)
    BY DEF Inv, TypeOK
  <2> QED BY <2>1, <2>2 DEF Stands, RowStands
<1> QED BY <1>1, InvHolds, PTL DEF Spec, HistoryStands
=============================================================================
