----------------------------- MODULE AgentBridge -----------------------------
(***************************************************************************)
(* The runtime bridge that puts the agent pipeline of ControlledWrites in   *)
(* front of the agents the console shows.  Two stores hold an agent: the    *)
(* read model (InMemoryAgentRepository) and the Fake write store, which     *)
(* learns of an agent when a command first names it and whose index of      *)
(* active agents covers these agents only.  Two routes change an agent:     *)
(* POST /agents/:id/:action goes through the pipeline and the bridge,       *)
(* POST /agents/activate saves into the read model without them.            *)
(*                                                                          *)
(* Reads and saves of the in-memory repository resolve one microtask later, *)
(* so a read and the write that follows at once are one step; the steps are *)
(* separated by the port calls between them (idempotency, audit, lock).     *)
(* What these calls and the role and scope checks do is the subject of      *)
(* ControlledWrites; here they may refuse a call (GiveUp).                  *)
(***************************************************************************)
EXTENDS Naturals, Sequences, FiniteSets

CONSTANTS
    Agents,
    Countries,   \* country ids as the agents' records spell them
    Buckets,     \* canonical country ids
    CountryOf,   \* CountryOf[a]: the country on the record of a
    Bucket,      \* Bucket[c]: the canonical id of a country
    Seed,        \* Seed[a]: the status the read model starts with
    Requests,    \* calls of either route
    None

Statuses == {"active", "inactive", "suspended"}
Actions  == {"activate", "deactivate", "suspend"}
BucketOf(a) == Bucket[CountryOf[a]]

ASSUME GeographyAssumption ==
    /\ CountryOf \in [Agents -> Countries]
    /\ Bucket \in [Countries -> Buckets]
(* validateSeed: synthetic data never ships two actives for one country.    *)
ASSUME SeedAssumption ==
    /\ Seed \in [Agents -> Statuses]
    /\ \A a, b \in Agents : Seed[a] = "active" /\ Seed[b] = "active"
                               /\ BucketOf(a) = BucketOf(b) => a = b

Snapshots == [state : Statuses, token : Nat]
Commands  == [agent : Agents, action : Actions, expected : Statuses, token : Nat]
ASSUME NoneAssumption == None \notin Agents \cup Snapshots \cup Commands

VARIABLES
    record,     \* the read model: the status of each agent
    fake,       \* the Fake store: agent -> snapshot, None before it is seeded
    order,      \* the order in which the Fake store's Map was filled
    index,      \* activeByCountry: bucket -> agent
    pc, cmd,    \* how far each call is, and its command
    bypassed,   \* history: countries where /agents/activate activated an agent
    overlooked  \* history: countries where the write route activated an agent
                \* beside one it could not find

vars == <<record, fake, order, index, pc, cmd, bypassed, overlooked>>

TypeOK ==
    /\ record \in [Agents -> Statuses]
    /\ fake \in [Agents -> Snapshots \cup {None}]
    /\ order \in Seq(Agents)
    /\ index \in [Buckets -> Agents \cup {None}]
    /\ pc \in [Requests -> {"new", "asked", "checked", "listed", "done"}]
    /\ cmd \in [Requests -> Commands \cup {None}]
    /\ bypassed \subseteq Buckets
    /\ overlooked \subseteq Buckets

Init ==
    /\ record = Seed
    /\ fake = [a \in Agents |-> None]
    /\ order = <<>>
    /\ index = [b \in Buckets |-> None]
    /\ pc = [r \in Requests |-> "new"]
    /\ cmd = [r \in Requests |-> None]
    /\ bypassed = {}
    /\ overlooked = {}

-----------------------------------------------------------------------------
(* Seeding.                                                                 *)
Seeded(f, a) == f[a] # None
ActiveIn(f, a) == Seeded(f, a) /\ f[a].state = "active"

SnapshotFromAgent(a) == [state |-> record[a], token |-> 0]

(* rebuildActiveIndex keeps the first active agent of a country it meets.   *)
FirstActive(f, o, b) ==
    LET live == {i \in DOMAIN o : ActiveIn(f, o[i]) /\ BucketOf(o[i]) = b}
    IN  IF live = {} THEN None ELSE o[CHOOSE i \in live : \A j \in live : i <= j]

EnsureSeeded(a) ==
    IF Seeded(fake, a) THEN UNCHANGED <<fake, order, index>>
    ELSE /\ fake' = [fake EXCEPT ![a] = SnapshotFromAgent(a)]
         /\ order' = Append(order, a)
         /\ index' = [b \in Buckets |-> FirstActive(fake', order', b)]

-----------------------------------------------------------------------------
(* The write route.                                                         *)

(* AgentWriteApiService.execute: seed, and fill the command in.             *)
Ask(r, a, action, expected) ==
    /\ pc[r] = "new"
    /\ EnsureSeeded(a)
    /\ pc' = [pc EXCEPT ![r] = "asked"]
    /\ cmd' = [cmd EXCEPT ![r] = [agent |-> a, action |-> action,
                                  expected |-> expected, token |-> fake'[a].token]]
    /\ UNCHANGED <<record, bypassed, overlooked>>

StateAfter(action) == CASE action = "activate"   -> "active"
                        [] action = "deactivate" -> "inactive"
                        [] action = "suspend"    -> "suspended"
MayStart(action, from) == IF action = "activate" THEN from # "active"
                                                 ELSE from = "active"

(* Mutant of ListedActive: the fallback on the read model is forgotten.     *)
BugIndexOnly(c) == {}

(* listByCountry compares the record's spelling with the id it is given.    *)
ListedActive(c) == {a \in Agents : CountryOf[a] = c /\ record[a] = "active"}

(* findActiveAgentIdForCountry, asked with the canonical id: the index, or  *)
(* else the first active agent the read model lists under that id.  An      *)
(* agent that is itself listed may be the first.                            *)
OtherActiveFound(a) ==
    LET b == BucketOf(a)
    IN  IF index[b] # None THEN index[b] # a
        ELSE ListedActive(b) # {} /\ a \notin ListedActive(b)

StillCurrent(c) ==
    /\ fake[c.agent].state = c.expected
    /\ fake[c.agent].token = c.token

PreconditionsHold(c) ==
    /\ StillCurrent(c)
    /\ MayStart(c.action, c.expected)
    /\ c.action = "activate" => ~OtherActiveFound(c.agent)

(* loadForWrite finds the snapshot execute() seeded.                        *)
Check(r) ==
    /\ pc[r] = "asked"
    /\ pc' = [pc EXCEPT ![r] = IF PreconditionsHold(cmd[r]) THEN "checked" ELSE "done"]
    /\ UNCHANGED <<record, fake, order, index, cmd, bypassed, overlooked>>

GiveUp(r) ==
    /\ pc[r] \in {"asked", "checked"}
    /\ pc' = [pc EXCEPT ![r] = "done"]
    /\ UNCHANGED <<record, fake, order, index, cmd, bypassed, overlooked>>

IndexAfter(a, from, to) ==
    LET b == BucketOf(a)
    IN  CASE to = "active" -> [index EXCEPT ![b] = a]
          [] to # "active" /\ from = "active" /\ index[b] = a ->
                [index EXCEPT ![b] = None]
          [] OTHER -> index

(* Mutant of StatusFor: only suspensions are copied back.                   *)
BugSuspensionsOnly(state) == IF state = "suspended" THEN state ELSE "inactive"

(* statusFor of the bridge.                                                 *)
StatusFor(state) == IF state \in {"active", "suspended"} THEN state ELSE "inactive"

Mutable(c) ==
    /\ StillCurrent(c)
    /\ c.action = "activate" => index[BucketOf(c.agent)] \in {None, c.agent}

(* The active agents of a country that neither the index nor the fallback   *)
(* finds: no command has named them, and the list asked with the canonical  *)
(* id passes over a record that spells the country otherwise.               *)
Hidden(b) == {a \in Agents : /\ BucketOf(a) = b /\ record[a] = "active"
                             /\ ~Seeded(fake, a) /\ CountryOf[a] # b}

(* The Fake's apply(), and the save that copies the status back.            *)
Apply(r) ==
    LET c  == cmd[r]
        to == StateAfter(c.action)
    IN  /\ pc[r] = "checked"
        /\ Mutable(c)
        /\ fake' = [fake EXCEPT ![c.agent] = [state |-> to, token |-> @.token + 1]]
        /\ index' = IndexAfter(c.agent, c.expected, to)
        /\ record' = [record EXCEPT ![c.agent] = StatusFor(to)]
        /\ overlooked' = IF to = "active" /\ Hidden(BucketOf(c.agent)) # {}
                         THEN overlooked \cup {BucketOf(c.agent)} ELSE overlooked
        /\ pc' = [pc EXCEPT ![r] = "done"]
        /\ UNCHANGED <<order, cmd, bypassed>>

ApplyRefused(r) ==
    /\ pc[r] = "checked"
    /\ ~Mutable(cmd[r])
    /\ pc' = [pc EXCEPT ![r] = "done"]
    /\ UNCHANGED <<record, fake, order, index, cmd, bypassed, overlooked>>

-----------------------------------------------------------------------------
(* POST /agents/activate: attemptActivate of AgentCommandService.  The      *)
(* country is the client's, and the policy is told that the agent is        *)
(* inactive, so its check of suspended agents never bites.                  *)
CanActivateAgent(a, c) == ListedActive(c) \subseteq {a}

List(r, a, c) ==
    /\ pc[r] = "new"
    /\ pc' = [pc EXCEPT ![r] = IF CanActivateAgent(a, c) THEN "listed" ELSE "done"]
    /\ cmd' = [cmd EXCEPT ![r] = [agent |-> a, action |-> "activate",
                                  expected |-> "inactive", token |-> 0]]
    /\ UNCHANGED <<record, fake, order, index, bypassed, overlooked>>

SaveActive(r) ==
    LET a == cmd[r].agent
    IN  /\ pc[r] = "listed"
        /\ record' = [record EXCEPT ![a] = "active"]
        /\ bypassed' = IF record[a] = "active" THEN bypassed
                       ELSE bypassed \cup {BucketOf(a)}
        /\ pc' = [pc EXCEPT ![r] = "done"]
        /\ UNCHANGED <<fake, order, index, cmd, overlooked>>

Finished == (\A r \in Requests : pc[r] = "done") /\ UNCHANGED vars

Next ==
    \/ \E r \in Requests :
          \/ \E a \in Agents, action \in Actions, expected \in Statuses :
                Ask(r, a, action, expected)
          \/ \E a \in Agents, c \in Countries : List(r, a, c)
          \/ Check(r)
          \/ Apply(r)
          \/ ApplyRefused(r)
          \/ GiveUp(r)
          \/ SaveActive(r)
    \/ Finished

Spec == Init /\ [][Next]_vars

-----------------------------------------------------------------------------
(* ONE COUNTRY = MAX ONE ACTIVE AGENT in what the console shows, whatever   *)
(* the interleaving of calls and the order in which the Fake store learns   *)
(* of agents, in every country where neither /agents/activate went around   *)
(* the guard nor the guard overlooked an active agent it could not find.    *)
(* Countries are compared, as the guard does, by their canonical id.        *)
Excepted == bypassed \cup overlooked
OneActiveAgentPerCountry ==
    \A a, b \in Agents :
        /\ record[a] = "active" /\ record[b] = "active"
        /\ BucketOf(a) = BucketOf(b) /\ BucketOf(a) \notin Excepted
        => a = b

(* An agent that is active for the guard is active on the screen, and a     *)
(* seeded agent differs from its record only if /agents/activate went       *)
(* around the store: the save after apply() keeps the two together.         *)
ShowsWhatGuardKnows ==
    \A a \in Agents : Seeded(fake, a) =>
        \/ record[a] = fake[a].state
        \/ record[a] = "active" /\ BucketOf(a) \in bypassed

(* The index names active agents of the right country, so a country is      *)
(* never blocked by an agent that left; this holds on every route.          *)
IndexHonest ==
    \A b \in Buckets : index[b] # None =>
        ActiveIn(fake, index[b]) /\ BucketOf(index[b]) = b

-----------------------------------------------------------------------------
(* What the first of these rests on.                                        *)

(* The Map holds the seeded agents.                                         *)
OrderIsSeeded ==
    \A a \in Agents : Seeded(fake, a) <=> \E i \in DOMAIN order : order[i] = a

(* In every other country the index covers the active seeded agents.        *)
IndexCovers ==
    \A a \in Agents :
        ActiveIn(fake, a) /\ BucketOf(a) \notin Excepted => index[BucketOf(a)] = a

(* A checked activation has no rival the Fake store does not know, but for  *)
(* those the fallback cannot find.                                          *)
CheckedAlone ==
    \A r \in Requests : pc[r] = "checked" /\ cmd[r].action = "activate" =>
        \A a \in Agents : record[a] = "active" /\ ~Seeded(fake, a)
                /\ BucketOf(a) = BucketOf(cmd[r].agent)
                    => BucketOf(a) \in Excepted \/ CountryOf[a] # BucketOf(a)

(* What a call under way knows of its command.                              *)
CallsKnow ==
    \A r \in Requests :
        /\ pc[r] \in {"asked", "checked", "listed"} => cmd[r] \in Commands
        /\ pc[r] \in {"asked", "checked"} => Seeded(fake, cmd[r].agent)
        /\ pc[r] = "checked" => MayStart(cmd[r].action, cmd[r].expected)

(* Among positions of the Map there is always a first one.                  *)
FirstExists ==
    \A I \in SUBSET (DOMAIN order) :
        I # {} => \E i \in I : \A j \in I : i <= j

GuardInv ==
    /\ TypeOK
    /\ OneActiveAgentPerCountry
    /\ ShowsWhatGuardKnows
    /\ IndexHonest
    /\ OrderIsSeeded
    /\ IndexCovers
    /\ CheckedAlone
    /\ CallsKnow
    /\ FirstExists

-----------------------------------------------------------------------------
(* What the code says of itself and the model refutes.                      *)

(* "ONE COUNTRY = MAX ONE ACTIVE AGENT guard ... aliases collapse to one    *)
(* canonical bucket": the write route never leaves two active agents in one *)
(* country, however the records spell it.                                   *)
GuardSeesAliases ==
    \A a, b \in Agents :
        /\ record[a] = "active" /\ record[b] = "active"
        /\ BucketOf(a) = BucketOf(b) /\ BucketOf(a) \notin bypassed
        => a = b
=============================================================================
