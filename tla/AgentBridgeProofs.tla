------------------------- MODULE AgentBridgeProofs -------------------------
(***************************************************************************)
(* Why the guard of the write route holds across the two stores.  Only the *)
(* seeding of an agent, apply() and the bypass touch the stores; each part *)
(* of GuardInv is proved over these three kinds of step.                   *)
(***************************************************************************)
EXTENDS AgentBridge, TLAPS

(* What a step does to the stores.                                         *)
Seeds(a) ==
    /\ ~Seeded(fake, a)
    /\ fake' = [fake EXCEPT ![a] = SnapshotFromAgent(a)]
    /\ order' = Append(order, a)
    /\ index' = [b \in Buckets |-> FirstActive(fake', order', b)]
    /\ UNCHANGED <<record, bypassed, overlooked>>
Keeps == UNCHANGED <<record, fake, order, index, bypassed, overlooked>>

(* What a rebuilt index holds for a country: its first active agent, if any. *)
LEMMA FirstActiveIs ==
    ASSUME NEW f, NEW o \in Seq(Agents), NEW b \in Buckets,
           \A I \in SUBSET (DOMAIN o) : I # {} => \E i \in I : \A j \in I : i <= j
    PROVE  \/ /\ FirstActive(f, o, b) = None
              /\ \A i \in DOMAIN o : ~(ActiveIn(f, o[i]) /\ BucketOf(o[i]) = b)
           \/ \E i \in DOMAIN o : /\ FirstActive(f, o, b) = o[i]
                                  /\ ActiveIn(f, o[i]) /\ BucketOf(o[i]) = b
<1> DEFINE live == {i \in DOMAIN o : ActiveIn(f, o[i]) /\ BucketOf(o[i]) = b}
<1>1. CASE live = {}
  BY <1>1 DEF FirstActive
<1>2. CASE live # {}
  <2>1. \E i \in live : \A j \in live : i <= j
    BY <1>2
  <2>2. (CHOOSE i \in live : \A j \in live : i <= j) \in live
    BY <2>1
  <2> QED BY <1>2, <2>2 DEF FirstActive
<1> QED BY <1>1, <1>2

(* Appending keeps what the least position needs.                          *)
LEMMA FirstStillExists ==
    ASSUME TypeOK, FirstExists, NEW a \in Agents
    PROVE  \A I \in SUBSET (DOMAIN Append(order, a)) :
               I # {} => \E i \in I : \A j \in I : i <= j
<1> SUFFICES ASSUME NEW I \in SUBSET (DOMAIN Append(order, a)), I # {}
             PROVE  \E i \in I : \A j \in I : i <= j
  OBVIOUS
<1> DEFINE n == Len(order)
           J == I \ {n + 1}
<1>1. n \in Nat /\ DOMAIN order = 1 .. n /\ DOMAIN Append(order, a) = 1 .. (n + 1)
  BY DEF TypeOK
<1>2. J \in SUBSET (DOMAIN order)
  BY <1>1
<1>3. CASE J = {}
  BY <1>1, <1>3
<1>4. CASE J # {}
  <2>1. PICK i \in J : \A j \in J : i <= j
    BY <1>2, <1>4 DEF FirstExists
  <2>2. i <= n + 1 /\ i \in I
    BY <2>1, <1>1, <1>2
  <2> QED BY <2>1, <2>2
<1> QED BY <1>3, <1>4

(* Every step of the model is one of the shapes defined above.              *)
LEMMA Shapes ==
    ASSUME TypeOK, CallsKnow, [Next]_vars
    PROVE  \/ Keeps
           \/ \E a \in Agents : Seeds(a)
           \/ \E r \in Requests : Apply(r)
           \/ \E r \in Requests : SaveActive(r)
<1>1. ASSUME NEW r \in Requests, NEW a \in Agents, NEW action \in Actions,
             NEW expected \in Statuses, Ask(r, a, action, expected)
      PROVE  Keeps \/ Seeds(a)
  BY <1>1 DEF Ask, EnsureSeeded, Keeps, Seeds
<1>2. ASSUME NEW r \in Requests, \/ Check(r) \/ ApplyRefused(r) \/ GiveUp(r)
                                 \/ \E a \in Agents, c \in Countries : List(r, a, c)
      PROVE  Keeps
  BY <1>2 DEF Check, ApplyRefused, GiveUp, List, Keeps
<1>3. CASE UNCHANGED vars
  BY <1>3 DEF vars, Keeps
<1> QED BY <1>1, <1>2, <1>3 DEF Next, Finished

(* What an apply() does to the stores, and what its checks gave it.        *)
Writes(r, a, from, to, t) ==
    /\ cmd[r].agent = a /\ BucketOf(a) \in Buckets
    /\ fake[a] = [state |-> from, token |-> t]
    /\ fake' = [fake EXCEPT ![a] = [state |-> to, token |-> t + 1]]
    /\ record' = [record EXCEPT ![a] = to]
    /\ index' = IndexAfter(a, from, to)
    /\ overlooked' = IF to = "active" /\ Hidden(BucketOf(a)) # {}
                     THEN overlooked \cup {BucketOf(a)} ELSE overlooked
    /\ to = "active" <=> cmd[r].action = "activate"
    /\ to = "active" => from # "active" /\ index[BucketOf(a)] \in {None, a}
    /\ to # "active" => from = "active"
    /\ UNCHANGED <<order, bypassed, cmd>>
    /\ pc[r] = "checked" /\ pc' = [pc EXCEPT ![r] = "done"]

(* Apply writes one seeded agent, and an activation only past the index.    *)
LEMMA WhatApplies ==
    ASSUME TypeOK, CallsKnow, NEW r \in Requests, Apply(r)
    PROVE  \E a \in Agents, from, to \in Statuses, t \in Nat : Writes(r, a, from, to, t)
<1> DEFINE c == cmd[r]
           a == c.agent
           from == c.expected
           to == StateAfter(c.action)
           t == fake[a].token
<1>1. c \in Commands /\ fake[a] # None /\ MayStart(c.action, from)
  BY DEF Apply, CallsKnow, Seeded
<1>2. a \in Agents /\ from \in Statuses /\ c.action \in Actions /\ fake[a] \in Snapshots
  BY <1>1 DEF Commands, TypeOK
<1>3. BucketOf(a) \in Buckets
  BY <1>2, GeographyAssumption DEF BucketOf
<1>4. fake[a] = [state |-> from, token |-> t] /\ t \in Nat
  BY <1>2 DEF Snapshots, Apply, Mutable, StillCurrent
<1>5. to \in Statuses /\ StatusFor(to) = to /\ (to = "active" <=> c.action = "activate")
  BY <1>2 DEF StateAfter, Statuses, StatusFor, Actions
<1>6. /\ to = "active" => from # "active" /\ index[BucketOf(a)] \in {None, a}
      /\ to # "active" => from = "active"
  BY <1>1, <1>5 DEF MayStart, Apply, Mutable
<1>7. /\ fake' = [fake EXCEPT ![a] = [state |-> to, token |-> t + 1]]
      /\ record' = [record EXCEPT ![a] = to]
      /\ index' = IndexAfter(a, from, to)
      /\ overlooked' = IF to = "active" /\ Hidden(BucketOf(a)) # {}
                       THEN overlooked \cup {BucketOf(a)} ELSE overlooked
      /\ UNCHANGED <<order, bypassed, cmd>>
      /\ pc[r] = "checked" /\ pc' = [pc EXCEPT ![r] = "done"]
  BY <1>5 DEF Apply
<1>8. Writes(r, a, from, to, t)
  BY <1>3, <1>4, <1>5, <1>6, <1>7 DEF Writes
<1> QED BY <1>2, <1>4, <1>5, <1>8

(* A step leaves both stores, the Map's order and the index well typed.     *)
LEMMA StoresTyped ==
    ASSUME TypeOK, CallsKnow, FirstExists, [Next]_vars
    PROVE  /\ record' \in [Agents -> Statuses]
           /\ fake' \in [Agents -> Snapshots \cup {None}]
           /\ order' \in Seq(Agents)
           /\ index' \in [Buckets -> Agents \cup {None}]
           /\ bypassed' \subseteq Buckets /\ overlooked' \subseteq Buckets
<1>1. CASE Keeps
  BY <1>1 DEF Keeps, TypeOK
<1>2. ASSUME NEW a \in Agents, Seeds(a)
      PROVE  /\ fake' \in [Agents -> Snapshots \cup {None}]
             /\ order' \in Seq(Agents)
             /\ index' \in [Buckets -> Agents \cup {None}]
             /\ UNCHANGED <<record, bypassed, overlooked>>
  <2>1. SnapshotFromAgent(a) \in Snapshots
    BY DEF SnapshotFromAgent, Snapshots, TypeOK
  <2>2. fake' \in [Agents -> Snapshots \cup {None}] /\ order' \in Seq(Agents)
    BY <1>2, <2>1 DEF Seeds, TypeOK
  <2>3. ASSUME NEW b \in Buckets
        PROVE  FirstActive(fake', order', b) \in Agents \cup {None}
    <3>1. \A I \in SUBSET (DOMAIN order') :
             I # {} => \E i \in I : \A j \in I : i <= j
      BY <1>2, FirstStillExists DEF Seeds
    <3>2. \A i \in DOMAIN order' : order'[i] \in Agents
      BY <2>2
    <3>3. PICK f, o : f = fake' /\ o = order'
      OBVIOUS
    <3>4. /\ o \in Seq(Agents)
          /\ \A I \in SUBSET (DOMAIN o) : I # {} => \E i \in I : \A j \in I : i <= j
      BY <2>2, <3>1, <3>3
    <3>5. \/ FirstActive(f, o, b) = None
          \/ \E i \in DOMAIN o : FirstActive(f, o, b) = o[i]
      BY <3>4, FirstActiveIs
    <3> QED BY <3>2, <3>3, <3>5
  <2> QED BY <1>2, <2>2, <2>3 DEF Seeds
<1>3. ASSUME NEW r \in Requests, Apply(r)
      PROVE  /\ record' \in [Agents -> Statuses]
             /\ fake' \in [Agents -> Snapshots \cup {None}]
             /\ index' \in [Buckets -> Agents \cup {None}]
             /\ overlooked' \subseteq Buckets
             /\ UNCHANGED <<order, bypassed>>
  <2>1. PICK a \in Agents, from, to \in Statuses, t \in Nat :
              Writes(r, a, from, to, t)
    BY <1>3, WhatApplies
  <2>2. [state |-> to, token |-> t + 1] \in Snapshots
    BY DEF Snapshots
  <2>3. IndexAfter(a, from, to) \in [Buckets -> Agents \cup {None}]
    BY <2>1 DEF Writes, IndexAfter, TypeOK
  <2> QED BY <2>1, <2>2, <2>3 DEF Writes, TypeOK
<1>4. ASSUME NEW r \in Requests, SaveActive(r)
      PROVE  /\ record' \in [Agents -> Statuses]
             /\ bypassed' \subseteq Buckets
             /\ UNCHANGED <<fake, order, index, overlooked>>
  <2>1. cmd[r].agent \in Agents
    BY <1>4 DEF SaveActive, CallsKnow, Commands
  <2>2. BucketOf(cmd[r].agent) \in Buckets
    BY <2>1, GeographyAssumption DEF BucketOf
  <2> QED BY <1>4, <2>1, <2>2 DEF SaveActive, TypeOK, Statuses
<1> QED BY Shapes, <1>1, <1>2, <1>3, <1>4 DEF Seeds, TypeOK

(* Seeded agents stay seeded.                                              *)
LEMMA StaysSeeded ==
    ASSUME TypeOK, CallsKnow, [Next]_vars, NEW a \in Agents, Seeded(fake, a)
    PROVE  Seeded(fake', a)
<1>1. ASSUME NEW r \in Requests, Apply(r)
      PROVE  Seeded(fake', a)
  <2>1. PICK x \in Agents, from, to \in Statuses, t \in Nat :
              Writes(r, x, from, to, t)
    BY <1>1, WhatApplies
  <2>2. [state |-> to, token |-> t + 1] \in Snapshots
    BY DEF Snapshots
  <2> QED BY <2>1, <2>2, NoneAssumption DEF Writes, Seeded, TypeOK
<1>2. ASSUME NEW x \in Agents, Seeds(x)
      PROVE  Seeded(fake', a)
  BY <1>2 DEF Seeds, Seeded, TypeOK
<1> QED BY Shapes, <1>1, <1>2 DEF Keeps, SaveActive, Seeded

(* A call keeps its command, and a seeded agent, through its phases.        *)
LEMMA CallsNext ==
    ASSUME TypeOK, CallsKnow, [Next]_vars
    PROVE  /\ pc' \in [Requests -> {"new", "asked", "checked", "listed", "done"}]
           /\ cmd' \in [Requests -> Commands \cup {None}]
           /\ CallsKnow'
<1> DEFINE Knows(r) == /\ pc[r] \in {"asked", "checked", "listed"} => cmd[r] \in Commands
                       /\ pc[r] \in {"asked", "checked"} => Seeded(fake, cmd[r].agent)
                       /\ pc[r] = "checked" => MayStart(cmd[r].action, cmd[r].expected)
           Typed == /\ pc' \in [Requests -> {"new", "asked", "checked", "listed", "done"}]
                    /\ cmd' \in [Requests -> Commands \cup {None}]
<1>1. ASSUME NEW q \in Requests, pc'[q] = pc[q], cmd'[q] = cmd[q]
      PROVE  Knows(q)'
  BY <1>1, StaysSeeded DEF CallsKnow, Commands
<1>2. ASSUME NEW r \in Requests, NEW a \in Agents, NEW action \in Actions,
             NEW expected \in Statuses, Ask(r, a, action, expected)
      PROVE  Typed /\ \A q \in Requests : Knows(q)'
  <2>1. SnapshotFromAgent(a) \in Snapshots
    BY DEF SnapshotFromAgent, Snapshots, TypeOK
  <2>2. fake'[a] \in Snapshots
    BY <1>2, <2>1 DEF Ask, EnsureSeeded, Seeded, TypeOK
  <2>3. cmd'[r] \in Commands /\ cmd'[r].agent = a /\ pc'[r] = "asked"
    BY <1>2, <2>2 DEF Ask, Commands, Snapshots, TypeOK
  <2>4. Seeded(fake', a)
    BY <2>2, NoneAssumption DEF Seeded
  <2>5. Knows(r)'
    BY <2>3, <2>4
  <2>6. Typed
    BY <1>2, <2>3 DEF Ask, TypeOK
  <2>7. ASSUME NEW q \in Requests \ {r}
        PROVE  Knows(q)'
    BY <1>2, <1>1 DEF Ask, TypeOK
  <2> QED BY <2>5, <2>6, <2>7
<1>3. ASSUME NEW r \in Requests, NEW a \in Agents, NEW c \in Countries, List(r, a, c)
      PROVE  Typed /\ \A q \in Requests : Knows(q)'
  <2>1. cmd'[r] \in Commands
    BY <1>3 DEF List, Commands, TypeOK, Actions, Statuses
  <2>2. Typed /\ pc'[r] \in {"listed", "done"}
    BY <1>3, <2>1 DEF List, TypeOK
  <2>3. ASSUME NEW q \in Requests \ {r}
        PROVE  Knows(q)'
    BY <1>3, <1>1 DEF List, TypeOK
  <2> QED BY <2>1, <2>2, <2>3
<1>4. ASSUME NEW r \in Requests, Check(r)
      PROVE  Typed /\ \A q \in Requests : Knows(q)'
  <2>1. Typed /\ pc'[r] \in {"checked", "done"} /\ cmd' = cmd
    BY <1>4 DEF Check, TypeOK
  <2>2. Knows(r)'
    BY <1>4, <2>1 DEF Check, CallsKnow, PreconditionsHold, TypeOK
  <2>3. ASSUME NEW q \in Requests \ {r}
        PROVE  Knows(q)'
    BY <1>4, <1>1 DEF Check, TypeOK
  <2> QED BY <2>1, <2>2, <2>3
<1>5. ASSUME NEW r \in Requests, pc' = [pc EXCEPT ![r] = "done"], UNCHANGED cmd
      PROVE  Typed /\ \A q \in Requests : Knows(q)'
  <2>1. Typed /\ pc'[r] = "done"
    BY <1>5 DEF TypeOK
  <2>2. ASSUME NEW q \in Requests \ {r}
        PROVE  Knows(q)'
    BY <1>5, <1>1 DEF TypeOK
  <2> QED BY <2>1, <2>2
<1>6. ASSUME UNCHANGED vars
      PROVE  Typed /\ \A q \in Requests : Knows(q)'
  <2>1. Typed
    BY <1>6 DEF vars, TypeOK
  <2>2. ASSUME NEW q \in Requests
        PROVE  Knows(q)'
    BY <1>6, <1>1 DEF vars
  <2> QED BY <2>1, <2>2
<1>7. ASSUME NEW r \in Requests, Apply(r) \/ ApplyRefused(r) \/ GiveUp(r) \/ SaveActive(r)
      PROVE  pc' = [pc EXCEPT ![r] = "done"] /\ UNCHANGED cmd
  BY <1>7 DEF Apply, ApplyRefused, GiveUp, SaveActive
<1>8. Typed /\ \A q \in Requests : Knows(q)'
  <2> HIDE DEF Knows, Typed
  <2> QED BY <1>2, <1>3, <1>4, <1>5, <1>6, <1>7 DEF Next, Finished
<1> QED BY <1>8 DEF CallsKnow

(* The Map's order lists exactly the seeded agents after a step too.        *)
LEMMA OrderNext ==
    ASSUME TypeOK, CallsKnow, OrderIsSeeded, FirstExists, [Next]_vars
    PROVE  OrderIsSeeded' /\ FirstExists'
<1>1. CASE Keeps
  BY <1>1 DEF Keeps, OrderIsSeeded, FirstExists, Seeded
<1>2. ASSUME NEW x \in Agents, Seeds(x)
      PROVE  OrderIsSeeded' /\ FirstExists'
  <2>1. FirstExists'
    BY <1>2, FirstStillExists DEF Seeds, FirstExists
  <2>2. SnapshotFromAgent(x) \in Snapshots
    BY DEF SnapshotFromAgent, Snapshots, TypeOK
  <2>3. \A a \in Agents : Seeded(fake', a) <=> Seeded(fake, a) \/ a = x
    BY <1>2, <2>2, NoneAssumption DEF Seeds, Seeded, TypeOK
  <2>4. \A a \in Agents : (\E i \in DOMAIN order' : order'[i] = a)
                               <=> (\E i \in DOMAIN order : order[i] = a) \/ a = x
    <3>1. /\ Len(order) \in Nat /\ DOMAIN order = 1 .. Len(order)
          /\ DOMAIN order' = 1 .. (Len(order) + 1)
          /\ order'[Len(order) + 1] = x
          /\ \A i \in 1 .. Len(order) : order'[i] = order[i]
      BY <1>2 DEF Seeds, TypeOK
    <3> QED BY <3>1
  <2>5. OrderIsSeeded'
    BY <2>3, <2>4 DEF OrderIsSeeded
  <2> QED BY <2>1, <2>5
<1>3. ASSUME NEW r \in Requests, Apply(r)
      PROVE  OrderIsSeeded' /\ FirstExists'
  <2>1. PICK x \in Agents, from, to \in Statuses, t \in Nat :
              Writes(r, x, from, to, t)
    BY <1>3, WhatApplies
  <2>2. [state |-> to, token |-> t + 1] \in Snapshots /\ fake[x] \in Snapshots
    BY <2>1 DEF Writes, Snapshots
  <2>3. \A a \in Agents : Seeded(fake', a) <=> Seeded(fake, a)
    BY <2>1, <2>2, NoneAssumption DEF Writes, Seeded, TypeOK
  <2> QED BY <2>1, <2>3 DEF Writes, OrderIsSeeded, FirstExists
<1>4. ASSUME NEW r \in Requests, SaveActive(r)
      PROVE  OrderIsSeeded' /\ FirstExists'
  BY <1>4 DEF SaveActive, OrderIsSeeded, FirstExists, Seeded
<1> QED BY Shapes, <1>1, <1>2, <1>3, <1>4

(* Every seeded agent shows what the guard knows after a step too.         *)
LEMMA ShowsNext ==
    ASSUME TypeOK, CallsKnow, ShowsWhatGuardKnows, [Next]_vars
    PROVE  ShowsWhatGuardKnows'
<1>1. CASE Keeps
  BY <1>1 DEF Keeps, ShowsWhatGuardKnows, Seeded
<1>2. ASSUME NEW x \in Agents, Seeds(x)
      PROVE  ShowsWhatGuardKnows'
  BY <1>2 DEF Seeds, ShowsWhatGuardKnows, Seeded, SnapshotFromAgent, TypeOK
<1>3. ASSUME NEW r \in Requests, Apply(r)
      PROVE  ShowsWhatGuardKnows'
  <2>1. PICK x \in Agents, from, to \in Statuses, t \in Nat :
              Writes(r, x, from, to, t)
    BY <1>3, WhatApplies
  <2> QED BY <2>1 DEF Writes, ShowsWhatGuardKnows, Seeded, TypeOK
<1>4. ASSUME NEW r \in Requests, SaveActive(r)
      PROVE  ShowsWhatGuardKnows'
  <2>1. cmd[r].agent \in Agents
    BY <1>4 DEF SaveActive, CallsKnow, Commands
  <2> QED BY <1>4, <2>1 DEF SaveActive, ShowsWhatGuardKnows, Seeded, TypeOK
<1> QED BY Shapes, <1>1, <1>2, <1>3, <1>4

(* The index names active agents of the right country, rebuilt or not.     *)
LEMMA HonestNext ==
    ASSUME TypeOK, CallsKnow, FirstExists, IndexHonest, [Next]_vars
    PROVE  IndexHonest'
<1>1. CASE Keeps
  BY <1>1 DEF Keeps, IndexHonest, ActiveIn, Seeded
<1>2. ASSUME NEW x \in Agents, Seeds(x)
      PROVE  IndexHonest'
  <2>1. PICK f, o : f = fake' /\ o = order'
    OBVIOUS
  <2>2. /\ o \in Seq(Agents)
        /\ \A I \in SUBSET (DOMAIN o) : I # {} => \E i \in I : \A j \in I : i <= j
    BY <1>2, <2>1, FirstStillExists DEF Seeds, TypeOK
  <2>3. ASSUME NEW b \in Buckets, FirstActive(f, o, b) # None
        PROVE  /\ ActiveIn(f, FirstActive(f, o, b))
               /\ BucketOf(FirstActive(f, o, b)) = b
    <3>1. PICK i \in DOMAIN o : /\ FirstActive(f, o, b) = o[i]
                                /\ ActiveIn(f, o[i]) /\ BucketOf(o[i]) = b
      BY <2>2, <2>3, FirstActiveIs
    <3> QED BY <3>1
  <2>4. \A b \in Buckets : index'[b] = FirstActive(f, o, b)
    BY <1>2, <2>1 DEF Seeds
  <2> QED BY <2>1, <2>3, <2>4 DEF IndexHonest, ActiveIn, Seeded
<1>3. ASSUME NEW r \in Requests, Apply(r)
      PROVE  IndexHonest'
  <2>1. PICK x \in Agents, from, to \in Statuses, t \in Nat :
              Writes(r, x, from, to, t)
    BY <1>3, WhatApplies
  <2>2. /\ fake'[x] = [state |-> to, token |-> t + 1] /\ fake'[x] # None
        /\ \A a \in Agents : a # x => fake'[a] = fake[a]
    BY <2>1, NoneAssumption DEF Writes, TypeOK, Snapshots
  <2>3. CASE to = "active"
    BY <2>1, <2>2, <2>3 DEF Writes, IndexAfter, IndexHonest, ActiveIn, Seeded, TypeOK
  <2>4. CASE to # "active"
    BY <2>1, <2>2, <2>4 DEF Writes, IndexAfter, IndexHonest, ActiveIn, Seeded, TypeOK
  <2> QED BY <2>3, <2>4
<1>4. ASSUME NEW r \in Requests, SaveActive(r)
      PROVE  IndexHonest'
  BY <1>4 DEF SaveActive, IndexHonest, ActiveIn, Seeded
<1> QED BY Shapes, <1>1, <1>2, <1>3, <1>4

(* Where nobody went around the guard the index knows each active agent.   *)
LEMMA CoversNext ==
    ASSUME GuardInv, [Next]_vars
    PROVE  IndexCovers'
<1> USE DEF GuardInv
<1>1. CASE Keeps
  BY <1>1 DEF Keeps, IndexCovers, ActiveIn, Seeded, Excepted
<1>2. ASSUME NEW x \in Agents, Seeds(x)
      PROVE  IndexCovers'
  <2> SUFFICES ASSUME NEW a \in Agents, ActiveIn(fake', a), BucketOf(a) \notin Excepted
               PROVE  index'[BucketOf(a)] = a
    BY <1>2 DEF IndexCovers, Seeds, Excepted
  <2>1. PICK f, o : f = fake' /\ o = order'
    OBVIOUS
  <2>2. /\ o \in Seq(Agents)
        /\ \A I \in SUBSET (DOMAIN o) : I # {} => \E i \in I : \A j \in I : i <= j
    <3>1. TypeOK /\ FirstExists
      OBVIOUS
    <3> HIDE DEF GuardInv
    <3> QED BY <1>2, <2>1, <3>1, FirstStillExists DEF Seeds, TypeOK
  <2>3. PICK i \in DOMAIN o : o[i] = a
    BY <2>1, OrderNext DEF OrderIsSeeded, ActiveIn
  <2>4. BucketOf(a) \in Buckets
    BY GeographyAssumption DEF BucketOf
  <2>5. PICK j \in DOMAIN o : /\ FirstActive(f, o, BucketOf(a)) = o[j]
                              /\ ActiveIn(f, o[j]) /\ BucketOf(o[j]) = BucketOf(a)
    <3>1. ~(\A k \in DOMAIN o : ~(ActiveIn(f, o[k]) /\ BucketOf(o[k]) = BucketOf(a)))
      BY <2>1, <2>3
    <3> HIDE DEF GuardInv
    <3> QED BY <2>2, <2>4, <3>1, FirstActiveIs
  <2>6. o[j] \in Agents
    BY <2>2
  <2>7. record[a] = "active" /\ record[o[j]] = "active"
    BY <1>2, <2>1, <2>5, <2>6, ShowsNext DEF ShowsWhatGuardKnows, ActiveIn, Seeds
  <2>8. o[j] = a
    BY <2>5, <2>6, <2>7 DEF OneActiveAgentPerCountry
  <2> QED BY <1>2, <2>1, <2>4, <2>5, <2>8 DEF Seeds
<1>3. ASSUME NEW r \in Requests, Apply(r)
      PROVE  IndexCovers'
  <2>1. PICK x \in Agents, from, to \in Statuses, t \in Nat :
              Writes(r, x, from, to, t)
    BY <1>3, WhatApplies
  <2>2. /\ fake'[x] = [state |-> to, token |-> t + 1]
        /\ \A a \in Agents : a # x => fake'[a] = fake[a]
    BY <2>1 DEF Writes, TypeOK
  <2>3. \A a \in Agents : BucketOf(a) \in Buckets /\ a # None
    BY GeographyAssumption, NoneAssumption DEF BucketOf
  <2>4. CASE to = "active"
    BY <2>1, <2>2, <2>3, <2>4
       DEF Writes, IndexAfter, IndexCovers, ActiveIn, Seeded, TypeOK, Excepted
  <2>5. CASE to # "active"
    BY <2>1, <2>2, <2>3, <2>5
       DEF Writes, IndexAfter, IndexCovers, ActiveIn, Seeded, TypeOK, Excepted
  <2> QED BY <2>4, <2>5
<1>4. ASSUME NEW r \in Requests, SaveActive(r)
      PROVE  IndexCovers'
  BY <1>4 DEF SaveActive, IndexCovers, ActiveIn, Seeded, Excepted
<1> QED BY Shapes, <1>1, <1>2, <1>3, <1>4

(* A call is checked after a step because it was, or because of the step.  *)
LEMMA CheckedBefore ==
    ASSUME TypeOK, [Next]_vars, NEW r \in Requests, pc'[r] = "checked"
    PROVE  (pc[r] = "checked" /\ cmd'[r] = cmd[r]) \/ Check(r)
<1>1. ASSUME NEW q \in Requests, NEW a \in Agents, NEW action \in Actions,
             NEW expected \in Statuses, Ask(q, a, action, expected)
      PROVE  pc[r] = "checked" /\ cmd'[r] = cmd[r]
  BY <1>1 DEF Ask, TypeOK
<1>2. ASSUME NEW q \in Requests, NEW a \in Agents, NEW c \in Countries, List(q, a, c)
      PROVE  pc[r] = "checked" /\ cmd'[r] = cmd[r]
  BY <1>2 DEF List, TypeOK
<1>3. ASSUME NEW q \in Requests, Apply(q) \/ ApplyRefused(q) \/ GiveUp(q) \/ SaveActive(q)
      PROVE  pc[r] = "checked" /\ cmd'[r] = cmd[r]
  BY <1>3 DEF Apply, ApplyRefused, GiveUp, SaveActive, TypeOK
<1>4. ASSUME NEW q \in Requests, Check(q), q # r
      PROVE  pc[r] = "checked" /\ cmd'[r] = cmd[r]
  BY <1>4 DEF Check, TypeOK
<1>5. CASE UNCHANGED vars
  BY <1>5 DEF vars
<1> QED BY <1>1, <1>2, <1>3, <1>4, <1>5 DEF Next, Finished

(* The fallback lists every active agent whose record carries the canonical*)
(* id, so an activation that passes it has no such rival.                   *)
LEMMA CheckFinds ==
    ASSUME GuardInv, NEW r \in Requests, Check(r), pc'[r] = "checked",
           cmd[r].action = "activate",
           NEW a \in Agents, record[a] = "active", ~Seeded(fake, a),
           BucketOf(a) = BucketOf(cmd[r].agent), CountryOf[a] = BucketOf(a)
    PROVE  BucketOf(a) \in Excepted
<1> USE DEF GuardInv
<1> DEFINE x == cmd[r].agent
           b == BucketOf(x)
<1>1. PreconditionsHold(cmd[r])
  BY DEF Check, TypeOK
<1>2. x \in Agents /\ Seeded(fake, x)
  BY DEF Check, CallsKnow, Commands
<1>3. b \in Buckets
  BY <1>2, GeographyAssumption DEF BucketOf
<1>4. CASE index[b] = None
  <2>1. a \in ListedActive(b)
    BY DEF ListedActive
  <2>2. record[x] = "active"
    BY <1>1, <1>4, <2>1 DEF PreconditionsHold, OtherActiveFound, ListedActive
  <2> QED BY <1>2, <2>2 DEF OneActiveAgentPerCountry
<1>5. CASE index[b] # None
  <2>1. index[b] = x
    BY <1>1, <1>5 DEF PreconditionsHold, OtherActiveFound
  <2>2. fake[x].state = "active"
    BY <1>3, <1>5, <2>1 DEF IndexHonest, ActiveIn
  <2> QED BY <1>1, <2>2 DEF PreconditionsHold, StillCurrent, MayStart
<1> QED BY <1>4, <1>5

(* A checked activation still has no unseeded active rival after a step.    *)
LEMMA AloneNext ==
    ASSUME GuardInv, [Next]_vars
    PROVE  CheckedAlone'
<1> USE DEF GuardInv
<1> SUFFICES ASSUME NEW r \in Requests, pc'[r] = "checked", cmd'[r].action = "activate",
                    NEW a \in Agents, record'[a] = "active", ~Seeded(fake', a),
                    BucketOf(a) = BucketOf(cmd'[r].agent), CountryOf[a] = BucketOf(a)
             PROVE  BucketOf(a) \in Excepted'
  BY DEF CheckedAlone, BucketOf
<1>1. ~Seeded(fake, a)
  BY StaysSeeded
<1>2. CASE Check(r)
  <2>1. UNCHANGED <<record, cmd, Excepted>>
    BY <1>2 DEF Check, Excepted
  <2> QED BY <1>1, <1>2, <2>1, CheckFinds
<1>3. ASSUME pc[r] = "checked", cmd'[r] = cmd[r]
      PROVE  BucketOf(a) \in Excepted'
  <2>1. record[a] = "active" => BucketOf(a) \in Excepted
    BY <1>1, <1>3 DEF CheckedAlone
  <2>2. ASSUME NEW q \in Requests, Apply(q)
        PROVE  BucketOf(a) \in Excepted'
    <3>1. PICK x \in Agents, from, to \in Statuses, t \in Nat :
                Writes(q, x, from, to, t)
      BY <2>2, WhatApplies
    <3>2. [state |-> to, token |-> t + 1] \in Snapshots
      BY DEF Snapshots
    <3>3. a # x
      BY <3>1, <3>2, NoneAssumption DEF Writes, Seeded, TypeOK
    <3> QED BY <2>1, <3>1, <3>3 DEF Writes, TypeOK, Excepted
  <2>3. ASSUME NEW q \in Requests, SaveActive(q)
        PROVE  BucketOf(a) \in Excepted'
    BY <2>1, <2>3 DEF SaveActive, TypeOK, Excepted
  <2> QED BY Shapes, <2>1, <2>2, <2>3 DEF Keeps, Seeds, Excepted
<1> QED BY CheckedBefore, <1>2, <1>3

(* An activation that apply() accepts has no rival on the screen.          *)
LEMMA NoRival ==
    ASSUME GuardInv, NEW r \in Requests,
           NEW x \in Agents, NEW from \in Statuses, NEW t \in Nat,
           Writes(r, x, from, "active", t),
           NEW a \in Agents, a # x, record[a] = "active", BucketOf(a) = BucketOf(x)
    PROVE  BucketOf(a) \in Excepted'
<1> USE DEF GuardInv
<1>0. Excepted \subseteq Excepted'
  BY DEF Writes, Excepted
<1>1. CASE Seeded(fake, a)
  <2> SUFFICES ASSUME BucketOf(a) \notin Excepted
               PROVE  FALSE
    BY <1>0
  <2>1. ActiveIn(fake, a)
    BY <1>1 DEF ShowsWhatGuardKnows, ActiveIn, Excepted
  <2>2. index[BucketOf(x)] = a
    BY <2>1 DEF IndexCovers
  <2> QED BY <2>2, NoneAssumption DEF Writes
<1>2. CASE ~Seeded(fake, a)
  <2>1. CASE CountryOf[a] = BucketOf(a)
    BY <1>0, <1>2, <2>1 DEF CheckedAlone, Writes
  <2>2. CASE CountryOf[a] # BucketOf(a)
    <3>1. a \in Hidden(BucketOf(x))
      BY <1>2, <2>2 DEF Hidden
    <3>2. overlooked' = overlooked \cup {BucketOf(x)}
      BY <3>1 DEF Writes
    <3> QED BY <3>2 DEF Excepted
  <2> QED BY <2>1, <2>2
<1> QED BY <1>1, <1>2

(* No step leaves two active agents in a country that is not excepted.      *)
LEMMA OneNext ==
    ASSUME GuardInv, [Next]_vars
    PROVE  OneActiveAgentPerCountry'
<1> USE DEF GuardInv
<1>1. CASE Keeps
  BY <1>1 DEF Keeps, OneActiveAgentPerCountry, Excepted
<1>2. ASSUME NEW x \in Agents, Seeds(x)
      PROVE  OneActiveAgentPerCountry'
  BY <1>2 DEF Seeds, OneActiveAgentPerCountry, Excepted
<1>3. ASSUME NEW r \in Requests, Apply(r)
      PROVE  OneActiveAgentPerCountry'
  <2>1. PICK x \in Agents, from, to \in Statuses, t \in Nat :
              Writes(r, x, from, to, t)
    BY <1>3, WhatApplies
  <2>2. record' = [record EXCEPT ![x] = to] /\ Excepted \subseteq Excepted'
    BY <2>1 DEF Writes, Excepted
  <2>3. CASE to # "active"
    BY <2>2, <2>3 DEF OneActiveAgentPerCountry, TypeOK
  <2>4. CASE to = "active"
    <3>1. \A a \in Agents : a # x /\ record[a] = "active" /\ BucketOf(a) = BucketOf(x)
                               => BucketOf(a) \in Excepted'
      BY <2>1, <2>4, NoRival
    <3> QED BY <2>2, <3>1 DEF OneActiveAgentPerCountry, TypeOK
  <2> QED BY <2>3, <2>4
<1>4. ASSUME NEW r \in Requests, SaveActive(r)
      PROVE  OneActiveAgentPerCountry'
  BY <1>4 DEF SaveActive, OneActiveAgentPerCountry, TypeOK, Excepted
<1> QED BY Shapes, <1>1, <1>2, <1>3, <1>4

-----------------------------------------------------------------------------
(* The part of GuardInv about how the two stores agree.                    *)
StoresInv ==
    /\ TypeOK
    /\ ShowsWhatGuardKnows
    /\ IndexHonest
    /\ OrderIsSeeded
    /\ CallsKnow
    /\ FirstExists

(* The seed has one active agent per country, and no call has begun.        *)
LEMMA InitHolds ==
    ASSUME Init
    PROVE  GuardInv
<1>1. TypeOK
  BY SeedAssumption DEF Init, TypeOK
<1>2. OneActiveAgentPerCountry
  BY SeedAssumption DEF Init, OneActiveAgentPerCountry
<1>3. ShowsWhatGuardKnows /\ IndexHonest /\ IndexCovers
  BY DEF Init, ShowsWhatGuardKnows, IndexHonest, IndexCovers, ActiveIn, Seeded
<1>4. order = <<>> /\ DOMAIN order = {}
  BY DEF Init
<1>5. OrderIsSeeded /\ FirstExists
  BY <1>4 DEF Init, OrderIsSeeded, FirstExists, Seeded
<1>6. CheckedAlone /\ CallsKnow
  BY DEF Init, CheckedAlone, CallsKnow
<1> QED BY <1>1, <1>2, <1>3, <1>5, <1>6 DEF GuardInv

(* The part about the two stores is preserved by every step.                *)
LEMMA StoresStep ==
    ASSUME StoresInv, [Next]_vars
    PROVE  StoresInv'
<1> USE DEF StoresInv
<1>1. TypeOK'
  BY StoresTyped, CallsNext DEF TypeOK
<1> QED BY <1>1, CallsNext, OrderNext, ShowsNext, HonestNext

(* The two stores agree in every reachable state.                          *)
THEOREM StoresAgree == Spec => []StoresInv
<1>1. Init => StoresInv
  BY InitHolds DEF GuardInv, StoresInv
<1>2. StoresInv /\ [Next]_vars => StoresInv'
  BY StoresStep
<1> QED BY <1>1, <1>2, PTL DEF Spec

(* Both stores, the index, the Map's order and the calls keep their types. *)
THEOREM TypesHold == Spec => []TypeOK
<1>1. StoresInv => TypeOK
  BY DEF StoresInv
<1> QED BY StoresAgree, <1>1, PTL

(* The screen and the guard agree on every agent a command has named.      *)
THEOREM ScreenAndGuardAgree == Spec => []ShowsWhatGuardKnows
<1>1. StoresInv => ShowsWhatGuardKnows
  BY DEF StoresInv
<1> QED BY StoresAgree, <1>1, PTL

(* The index names only active agents of the country, on either route.     *)
THEOREM IndexStaysHonest == Spec => []IndexHonest
<1>1. StoresInv => IndexHonest
  BY DEF StoresInv
<1> QED BY StoresAgree, <1>1, PTL

(* The whole invariant is preserved by every step.                          *)
LEMMA GuardStep ==
    ASSUME GuardInv, [Next]_vars
    PROVE  GuardInv'
<1>1. StoresInv'
  BY StoresStep DEF GuardInv, StoresInv
<1> QED BY <1>1, CoversNext, AloneNext, OneNext DEF GuardInv, StoresInv

(* The guard's invariant is inductive, however the records spell their     *)
(* country.                                                                *)
THEOREM GuardHolds == Spec => []GuardInv
<1>1. Init => GuardInv
  BY InitHolds
<1>2. GuardInv /\ [Next]_vars => GuardInv'
  BY GuardStep
<1> QED BY <1>1, <1>2, PTL DEF Spec

(* One country has at most one active agent, for any agents, spellings,    *)
(* calls and interleaving, where /agents/activate did not go around the    *)
(* guard and the guard overlooked none.                                    *)
THEOREM OneAgentPerCountry == Spec => []OneActiveAgentPerCountry
<1>1. GuardInv => OneActiveAgentPerCountry
  BY DEF GuardInv
<1> QED BY GuardHolds, <1>1, PTL

(* In particular, where every record carries the canonical id nothing is   *)
(* ever overlooked: the bypass is then the only exception.                 *)
Canonical == \A a \in Agents : CountryOf[a] = BucketOf(a)
NoneOverlooked == overlooked = {}
THEOREM NothingOverlooked == Canonical /\ Spec => []NoneOverlooked
<1>1. Init => NoneOverlooked
  BY DEF Init, NoneOverlooked
<1>2. Canonical => (NoneOverlooked /\ [Next]_vars => NoneOverlooked')
  <2> SUFFICES ASSUME Canonical, NoneOverlooked, [Next]_vars
               PROVE  NoneOverlooked'
    OBVIOUS
  <2>1. \A b : Hidden(b) = {}
    BY DEF Hidden, Canonical
  <2>2. ASSUME NEW r \in Requests, Apply(r)
        PROVE  NoneOverlooked'
    BY <2>1, <2>2 DEF Apply, NoneOverlooked
  <2> QED BY <2>2 DEF Next, vars, Finished, Ask, List, Check, ApplyRefused, GiveUp,
                      SaveActive, NoneOverlooked
<1>3. Canonical => []Canonical
  <2>1. Canonical => Canonical'
    BY DEF Canonical, BucketOf
  <2> QED BY <2>1, PTL
<1> QED BY <1>1, <1>2, <1>3, PTL DEF Spec
=============================================================================
