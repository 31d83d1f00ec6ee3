---------------------------- MODULE PanelWrites ----------------------------
(***************************************************************************)
(* The controlled writes of the panel that do not go through a proven      *)
(* pipeline of their own: personas of panel users, support tickets,        *)
(* notifications and master data (geography, vehicle catalogue, partners,  *)
(* fleets, guides), executed offline against the Fake repositories, as the *)
(* development panel and the unit tests do.  One step per awaited call.    *)
(*                                                                         *)
(* Every service has its own order of the steps and its own kind of token: *)
(* a persona's token grows with every write, the others are the clock in   *)
(* milliseconds.  The store of personas starts empty: the route fills it   *)
(* at the first mention of a user with what the request says of him.       *)
(* Texts, notes and metadata are left out.                                 *)
(***************************************************************************)
EXTENDS Naturals, FiniteSets

CONSTANTS
    Users, Tickets, Masters, Notices,   \* what can be written; a notice stands for a title and its audience
    Countries, Agents,
    Actors,         \* users who are signed in
    Session,        \* the role, permissions and country their sessions carry
    Home,           \* the country of a ticket
    Menus,          \* the sets of commands clients send: services share nothing
                    \* but the clock, so each set may be about one of them
    Keys, Calls, None,
    MaxClock,       \* milliseconds that may pass
    MaxFaults       \* port calls that may reject

Writable == {"super_admin", "country_admin", "accountant"}
Roles == Writable \cup {"none", "unknown"}    \* what a request may claim
TicketStatus == {"open", "in_progress", "waiting_user", "resolved", "closed"}
Targets == Users \cup Tickets \cup Masters
Kinds == {"identity", "support", "compose", "mark", "master"}
Replayable == Kinds \ {"master"}
Outcomes == {"applied", "denied", "failed", "idempotent_replay"}

Personas == [role : Roles, disabled : BOOLEAN,
             country : Countries \cup {None}, agent : Agents \cup {None}]
PersonaActions == {"create_persona", "activate", "deactivate", "assign_role", "change_role",
                   "assign_country_scope", "assign_agent_scope", "clear_scope"}
MasterActions == {"create", "activate", "deactivate", "archive", "update_metadata"}

ASSUME Sessions ==
    /\ Actors \subseteq Users
    /\ \A a \in Actors : Session[a].country \in Countries \cup {None}
\* A user is neither a ticket nor a master record.
ASSUME Apart == Users \cap (Tickets \cup Masters) = {}
\* Every route sends commands of its own kind; a ticket's status is whatever was typed.
\* A persona command claims a role and a standing for its target, or no role at all.
ASSUME Routes == \A sent \in Menus : \A cmd \in sent :
    /\ cmd.kind \in Kinds /\ cmd.actor \in Actors
    /\ cmd.kind = "identity" =>
         /\ cmd.target \in Users /\ cmd.action \in PersonaActions
         /\ cmd.role \in Roles /\ cmd.country \in Countries \cup {None}
         /\ cmd.agent \in Agents \cup {None}
         /\ cmd.was \in Roles \cup {None} /\ cmd.off \in BOOLEAN
    /\ cmd.kind = "support" => cmd.target \in Tickets
    /\ cmd.kind = "compose" => cmd.target \in Notices
    /\ cmd.kind = "master" => cmd.target \in Masters /\ cmd.action \in MasterActions

Ready == {"sent", "received", "loaded", "looked", "intended", "composed", "created", "written", "recorded"}
Stages == Ready \cup Outcomes \cup {"failing"}
CallOf(sent) ==
    [pc : Stages, key : Keys, cmd : sent,
     token : Nat, seen : Nat, snap : Personas \cup {None},
     trail : SUBSET {"intent", "applied", "failed"},
     effect : BOOLEAN, late : BOOLEAN, rejected : BOOLEAN]
ASSUME NoCall == None \notin Personas /\ \A sent \in Menus : None \notin CallOf(sent)

VARIABLES
    users, tickets, masters,
    mark,       \* of every target: its token, how often it was written, and
                \* whether two writes ever left it the same token
    recent,     \* recentSendKeys
    noted, pushed,  \* panel notifications created, and delivered, per notice
    replies,    \* one idempotency store per route
    menu, calls, clock, faults,
    blind       \* targets written by a call that had not seen their last write

vars == <<users, tickets, masters, mark, recent, noted, pushed, replies,
          menu, calls, clock, faults, blind>>

TypeOK ==
    /\ users \in [Users -> Personas \cup {None}]
    /\ tickets \in [Tickets -> TicketStatus]
    /\ masters \in [Masters -> [exists : BOOLEAN, active : BOOLEAN, archived : BOOLEAN]]
    /\ mark \in [Targets -> [token : Nat, writes : Nat, clash : BOOLEAN]]
    /\ recent \subseteq Notices
    /\ noted \in [Notices -> Nat] /\ pushed \in [Notices -> Nat]
    /\ replies \in [Replayable -> SUBSET Keys]
    /\ menu \in Menus
    /\ calls \in [Calls -> {None} \cup CallOf(menu)]
    /\ clock \in Nat /\ faults \in Nat
    /\ blind \subseteq Targets

Unwritten == [token |-> 0, writes |-> 0, clash |-> FALSE]

Init ==
    /\ users = [u \in Users |-> None]
    /\ tickets = [t \in Tickets |-> "open"]
    /\ masters = [m \in Masters |-> [exists |-> FALSE, active |-> FALSE, archived |-> FALSE]]
    /\ mark = [t \in Targets |-> Unwritten]
    /\ recent = {}
    /\ noted = [n \in Notices |-> 0] /\ pushed = [n \in Notices |-> 0]
    /\ replies = [k \in Replayable |-> {}]
    /\ menu \in Menus
    /\ calls = [c \in Calls |-> None]
    /\ clock = 1 /\ faults = 0
    /\ blind = {}

-----------------------------------------------------------------------------
(* What the steps are made of *)

At(c, pc) == calls[c] # None /\ calls[c].pc = pc
Kind(c) == calls[c].cmd.kind
Goes(c, pc) == calls' = [calls EXCEPT ![c].pc = pc]
May(a, permissions) == Session[a].may \cap permissions # {}

\* The token a write leaves behind: a chain for personas, the clock for the rest.
NextToken(t) == IF t \in Users THEN mark[t].token + 1 ELSE clock

\* Bookkeeping of a write of call c to target t.
Marked(c, t) ==
    /\ mark' = [mark EXCEPT ![t] =
         [token |-> NextToken(t), writes |-> @.writes + 1,
          clash |-> @.clash \/ NextToken(t) = @.token]]
    /\ blind' = IF calls[c].seen = mark[t].writes THEN blind ELSE blind \cup {t}

-----------------------------------------------------------------------------
(* Personas: what IdentityWritePolicy allows *)

\* The route seeds every persona with a count of two and nothing recomputes it.
SuperAdminCountHint == 2

Changes(cmd) == cmd.action \in {"assign_role", "change_role"}
Assigns(cmd) == Changes(cmd) \/ cmd.action = "create_persona"

SelfEscalates(cmd) ==
    /\ cmd.target = cmd.actor
    /\ Assigns(cmd) \/ cmd.action \in {"activate", "deactivate"}

CanAssignRole(role) ==
    CASE role = "super_admin" -> Writable
      [] role = "operations_manager" -> Writable \ {"super_admin"}
      [] role = "country_admin" -> {"accountant", "country_admin"}
      [] OTHER -> {}

Rank == [accountant |-> 1, country_admin |-> 2, super_admin |-> 3]

\* A role without a rank compares as false.
Escalates(cmd, snap) ==
    /\ Assigns(cmd)
    /\ \/ cmd.role \notin CanAssignRole(Session[cmd.actor].role)
       \/ /\ snap.role \in Writable
          /\ Rank[cmd.role] > Rank[snap.role]
          /\ Session[cmd.actor].role # "super_admin"

RemovesSuperAdmin(cmd, snap) ==
    /\ snap.role = "super_admin"
    /\ \/ cmd.action = "deactivate"
       \/ Changes(cmd) /\ cmd.role # "super_admin"

OutOfCountry(cmd, snap) ==
    /\ Session[cmd.actor].role = "country_admin"
    /\ \/ cmd.action = "assign_country_scope" /\ cmd.country # Session[cmd.actor].country
       \/ /\ snap.country # None
          /\ Session[cmd.actor].country # None
          /\ snap.country # Session[cmd.actor].country

Authorized(cmd, snap) ==
    /\ May(cmd.actor, {"users:manage"})
    /\ ~SelfEscalates(cmd)
    /\ ~Escalates(cmd, snap)
    /\ ~(RemovesSuperAdmin(cmd, snap) /\ SuperAdminCountHint = 1)
    /\ ~OutOfCountry(cmd, snap)

Persona(user, cmd) ==
    CASE cmd.action = "create_persona" ->
           [role |-> cmd.role, disabled |-> FALSE, country |-> cmd.country, agent |-> cmd.agent]
      [] cmd.action = "activate" -> [user EXCEPT !.disabled = FALSE]
      [] cmd.action = "deactivate" -> [user EXCEPT !.disabled = TRUE]
      [] Changes(cmd) ->
           [user EXCEPT !.role = cmd.role,
                        !.country = IF cmd.country = None THEN @ ELSE cmd.country]
      [] cmd.action = "assign_country_scope" -> [user EXCEPT !.country = cmd.country]
      [] cmd.action = "assign_agent_scope" ->
           [user EXCEPT !.country = cmd.country, !.agent = cmd.agent]
      [] cmd.action = "clear_scope" -> [user EXCEPT !.country = None, !.agent = None]

\* What the route stores of a user it has never heard of: what the request
\* claims.  A claim of no role is stored as accountant and compared as "unknown".
FirstMention(cmd) ==
    [role |-> IF cmd.was = None THEN "accountant" ELSE cmd.was,
     disabled |-> cmd.off, country |-> cmd.country, agent |-> None]
Expected(cmd, user) ==
    /\ user.role = IF cmd.was = None THEN "unknown" ELSE cmd.was
    /\ user.disabled = cmd.off

\* What the service loads when there is no such user.
Missing == [role |-> "none", disabled |-> FALSE, country |-> None, agent |-> None]

-----------------------------------------------------------------------------
(* Tickets and master data *)

\* The load ports of the source show every ticket as open, whatever is stored,
\* so this is the only row of the transition table that is ever consulted.
FromOpen == {"open", "in_progress", "waiting_user", "resolved", "closed"}

TargetStatus(cmd) ==
    CASE cmd.action = "resolve" -> "resolved"
      [] cmd.action = "reopen" -> "open"
      [] cmd.action = "change_status" -> cmd.status
      [] OTHER -> None

TicketInScope(a, t) == Session[a].country = None \/ Home[t] = Session[a].country

\* Which display status the stored fields spell.
Stored(status, old) == IF status = None THEN old ELSE status

MasterAfter(m, action) ==
    CASE action = "create" -> [exists |-> TRUE, active |-> TRUE, archived |-> FALSE]
      [] action = "activate" -> [m EXCEPT !.active = TRUE]
      [] action = "deactivate" -> [m EXCEPT !.active = FALSE]
      [] action = "archive" -> [m EXCEPT !.active = FALSE, !.archived = TRUE]
      [] action = "update_metadata" -> m

-----------------------------------------------------------------------------
(* The steps that the services share *)

\* What a client may have seen of its target when it sends a command: what is
\* stored now; of a persona also the first token, which the panel goes on sending.
Sights(target) ==
    IF target \notin Targets THEN {Unwritten}
    ELSE {mark[target]} \cup (IF target \in Users THEN {Unwritten} ELSE {})

\* A client sends a command with the token it has seen; it is handled later.
Send(c) ==
    /\ calls[c] = None
    /\ \E k \in Keys, cmd \in menu : \E sight \in Sights(cmd.target) :
         /\ calls' = [calls EXCEPT ![c] =
              [pc |-> "sent", key |-> k, cmd |-> cmd,
               token |-> sight.token, seen |-> sight.writes,
               snap |-> None, trail |-> {}, effect |-> FALSE, rejected |-> FALSE,
               late |-> cmd.kind \in Replayable /\ \E d \in Calls :
                          /\ calls[d] # None /\ calls[d].pc = "applied"
                          /\ calls[d].key = k /\ calls[d].cmd.kind = cmd.kind]]
    /\ UNCHANGED <<users, tickets, masters, mark, recent, noted, pushed, replies,
                   menu, clock, faults, blind>>

Answered(c) == calls[c].key \in replies[Kind(c)]
World == <<users, tickets, masters, mark, recent, noted, pushed, menu, blind>>

\* Where a service asks its idempotency store, and where it goes on from there.
LookupAt(kind) ==
    CASE kind = "support" -> "loaded"
      [] kind = "identity" -> "received"
      [] OTHER -> "sent"

Permissions ==
    [support |-> {"customers:manage", "users:manage"},
     compose |-> {"drivers:approve", "users:manage", "customers:manage"},
     mark |-> {"drivers:approve", "users:manage", "customers:manage"}]

\* mistake: the idempotency store is never asked
BugNeverLooked(c) ==
    /\ calls[c] # None /\ Kind(c) \in Replayable
    /\ At(c, LookupAt(Kind(c)))
    /\ Goes(c, "looked")
    /\ UNCHANGED <<World, replies, clock, faults>>

Lookup(c) ==
    /\ calls[c] # None /\ Kind(c) \in Replayable
    /\ At(c, LookupAt(Kind(c)))
    /\ Goes(c, IF Kind(c) \in {"compose", "mark"} /\ ~May(calls[c].cmd.actor, Permissions[Kind(c)])
                 THEN "denied"
               ELSE IF Answered(c) THEN "idempotent_replay"
               ELSE IF Kind(c) = "support" /\ TargetStatus(calls[c].cmd) \notin FromOpen \cup {None}
                 THEN "denied"
               ELSE "looked")
    /\ UNCHANGED <<World, replies, clock, faults>>

RecordIntent(c) ==
    /\ At(c, IF Kind(c) = "identity" THEN "loaded" ELSE "looked")
    /\ calls' = [calls EXCEPT ![c].pc = "intended", ![c].trail = @ \cup {"intent"}]
    /\ UNCHANGED <<World, replies, clock, faults>>

RecordResult(c) ==
    /\ At(c, "written")
    /\ calls' = [calls EXCEPT ![c].pc = "recorded", ![c].trail = @ \cup {"applied"}]
    /\ UNCHANGED <<World, replies, clock, faults>>

Put(c) ==
    /\ At(c, "recorded")
    /\ replies' = [replies EXCEPT ![Kind(c)] = @ \cup {calls[c].key}]
    /\ Goes(c, "applied")
    /\ UNCHANGED <<World, clock, faults>>

-----------------------------------------------------------------------------
(* Personas *)

\* The route lets a user manager in and writes down whom he mentions first.
\* A creation leaves that to the repository, which then knows no such user.
Receive(c) ==
    /\ At(c, "sent") /\ Kind(c) = "identity"
    /\ LET cmd == calls[c].cmd
           u == cmd.target
       IN IF May(cmd.actor, {"users:manage"})
          THEN /\ Goes(c, "received")
               /\ users' = IF users[u] = None /\ cmd.action # "create_persona"
                           THEN [users EXCEPT ![u] = FirstMention(cmd)] ELSE users
          ELSE Goes(c, "denied") /\ UNCHANGED users
    /\ UNCHANGED <<tickets, masters, mark, recent, noted, pushed, replies, menu, clock, faults, blind>>

LoadPersona(c) ==
    /\ At(c, "looked") /\ Kind(c) = "identity"
    /\ LET cmd == calls[c].cmd
           found == users[cmd.target]
           fits == IF found = None THEN cmd.action = "create_persona"
                   ELSE Expected(cmd, found) /\ mark[cmd.target].token = calls[c].token
           user == IF found = None THEN Missing ELSE found
       IN calls' = [calls EXCEPT
            ![c].snap = found,
            ![c].pc = IF fits /\ Authorized(cmd, user) THEN "loaded" ELSE "denied"]
    /\ UNCHANGED <<World, replies, clock, faults>>

\* mistake: the repository trusts the token that was compared at the load
BugNoPersonaRecheck(c) == users[calls[c].cmd.target] # None

PersonaFits(c) ==
    LET u == calls[c].cmd.target IN users[u] # None /\ mark[u].token = calls[c].token

\* A refusal of the repository is put on the trail before it is answered.
ApplyPersona(c) ==
    /\ At(c, "intended") /\ Kind(c) = "identity"
    /\ LET u == calls[c].cmd.target IN
         IF PersonaFits(c)
         THEN /\ users' = [users EXCEPT ![u] = Persona(@, calls[c].cmd)]
              /\ Marked(c, u)
              /\ calls' = [calls EXCEPT ![c].pc = "written", ![c].effect = TRUE]
         ELSE /\ Goes(c, "failing")
              /\ UNCHANGED <<users, mark, blind>>
    /\ UNCHANGED <<tickets, masters, recent, noted, pushed, replies, menu, clock, faults>>

FailureOutcome(c) == IF calls[c].rejected THEN "failed" ELSE "denied"

RecordFailure(c) ==
    /\ At(c, "failing")
    /\ calls' = [calls EXCEPT ![c].trail = @ \cup {"failed"}, ![c].pc = FailureOutcome(c)]
    /\ UNCHANGED <<World, replies, clock, faults>>

-----------------------------------------------------------------------------
(* Support tickets *)

LoadTicket(c) ==
    /\ At(c, "sent") /\ Kind(c) = "support"
    /\ LET t == calls[c].cmd.target IN
         Goes(c, IF /\ May(calls[c].cmd.actor, Permissions.support)
                    /\ mark[t].token = calls[c].token
                    /\ TicketInScope(calls[c].cmd.actor, t)
                 THEN "loaded" ELSE "denied")
    /\ UNCHANGED <<World, replies, clock, faults>>

\* mistake: the repository trusts the token that was checked at the load
BugNoTicketRecheck(c) == TRUE

TicketFits(c) == mark[calls[c].cmd.target].token = calls[c].token

ApplyPatch(c) ==
    /\ At(c, "intended") /\ Kind(c) = "support"
    /\ LET t == calls[c].cmd.target IN
         IF TicketFits(c)
         THEN /\ tickets' = [tickets EXCEPT ![t] = Stored(TargetStatus(calls[c].cmd), @)]
              /\ Marked(c, t)
              /\ calls' = [calls EXCEPT ![c].pc = "written", ![c].effect = TRUE]
         ELSE /\ Goes(c, "denied")
              /\ UNCHANGED <<tickets, mark, blind>>
    /\ UNCHANGED <<users, masters, recent, noted, pushed, replies, menu, clock, faults>>

-----------------------------------------------------------------------------
(* Notifications *)

AudienceInScope(c) ==
    \/ calls[c].cmd.country = None
    \/ Session[calls[c].cmd.actor].country \in {None, calls[c].cmd.country}

\* mistake: sent notices are not remembered
BugClaimsNothing(c) == recent

\* The notice is claimed before the audience is resolved, without an await in
\* between; nothing releases it when a later call fails.
Claims(c) == recent \cup {calls[c].cmd.target}

Compose(c) ==
    /\ At(c, "intended") /\ Kind(c) = "compose"
    /\ IF AudienceInScope(c) /\ calls[c].cmd.target \notin recent
       THEN recent' = Claims(c) /\ Goes(c, "composed")
       ELSE UNCHANGED recent /\ Goes(c, "denied")
    /\ UNCHANGED <<users, tickets, masters, mark, noted, pushed, replies, menu, clock, faults, blind>>

CreatePanelNotification(c) ==
    /\ At(c, "composed")
    /\ noted' = [noted EXCEPT ![calls[c].cmd.target] = @ + 1]
    /\ calls' = [calls EXCEPT ![c].pc = "created", ![c].effect = TRUE]
    /\ UNCHANGED <<users, tickets, masters, mark, recent, pushed, replies, menu, clock, faults, blind>>

Deliver(c) ==
    /\ At(c, "created")
    /\ pushed' = [pushed EXCEPT ![calls[c].cmd.target] = @ + 1]
    /\ Goes(c, "written")
    /\ UNCHANGED <<users, tickets, masters, mark, recent, noted, replies, menu, clock, faults, blind>>

\* Marking one or all notifications as read: a set that only grows.
MarkRead(c) ==
    /\ At(c, "intended") /\ Kind(c) = "mark"
    /\ calls' = [calls EXCEPT ![c].pc = "written", ![c].effect = TRUE]
    /\ UNCHANGED <<World, replies, clock, faults>>

-----------------------------------------------------------------------------
(* Master data: no idempotency and no audit, one step from call to answer.   *)
(* "create" looks at nothing: it replaces what exists.  All four routes ask  *)
(* for agents:manage, after which what the services ask for always holds.    *)

ApplyMaster(c) ==
    /\ At(c, "sent") /\ Kind(c) = "master"
    /\ LET m == calls[c].cmd.target
           action == calls[c].cmd.action
       IN IF /\ May(calls[c].cmd.actor, {"agents:manage"})
             /\ action = "create" \/ (masters[m].exists /\ mark[m].token = calls[c].token)
          THEN /\ masters' = [masters EXCEPT ![m] = MasterAfter(@, action)]
               /\ IF action = "create"
                  THEN /\ mark' = [mark EXCEPT ![m] =
                            [token |-> NextToken(m), writes |-> @.writes + 1,
                             clash |-> @.clash \/ NextToken(m) = @.token]]
                       /\ UNCHANGED blind
                  ELSE Marked(c, m)
               /\ calls' = [calls EXCEPT ![c].pc = "applied", ![c].effect = TRUE]
          ELSE /\ Goes(c, "denied")
               /\ UNCHANGED <<masters, mark, blind>>
    /\ UNCHANGED <<users, tickets, recent, noted, pushed, replies, menu, clock, faults>>

-----------------------------------------------------------------------------
(* The environment *)

\* A port call rejects.  Only the persona pipeline records that, and only once
\* its intent is on record.
PortRejects(c) ==
    /\ calls[c] # None /\ calls[c].pc \in Ready \cup {"failing"} /\ Kind(c) # "master"
    /\ faults < MaxFaults
    /\ faults' = faults + 1
    /\ calls' = [calls EXCEPT ![c].rejected = TRUE,
         ![c].pc = IF /\ Kind(c) = "identity" /\ calls[c].pc # "failing"
                      /\ "intent" \in calls[c].trail
                   THEN "failing" ELSE "failed"]
    /\ UNCHANGED <<World, replies, clock>>

Tick ==
    /\ clock < MaxClock
    /\ clock' = clock + 1
    /\ UNCHANGED <<World, replies, calls, faults>>

Next ==
    \/ Tick
    \/ \E c \in Calls :
         \/ Send(c) \/ Lookup(c) \/ RecordIntent(c) \/ RecordResult(c) \/ Put(c)
         \/ Receive(c) \/ LoadPersona(c) \/ ApplyPersona(c) \/ RecordFailure(c)
         \/ LoadTicket(c) \/ ApplyPatch(c)
         \/ Compose(c) \/ CreatePanelNotification(c) \/ Deliver(c) \/ MarkRead(c)
         \/ ApplyMaster(c) \/ PortRejects(c)

Spec == Init /\ [][Next]_vars

-----------------------------------------------------------------------------
(* Properties *)

(***************************************************************************)
(* A persona write replaces the row it was authorised on, still in the     *)
(* role and standing its client claimed, whatever was written while the    *)
(* intent was recorded.  The exception is exact: a creation that found no  *)
(* user at the load replaces the row that another request's first mention  *)
(* has stored since, as long as nobody has written it.                     *)
(***************************************************************************)
WritesPersona(c) == At(c, "intended") /\ Kind(c) = "identity" /\ calls'[c].pc = "written"
AsAuthorized(c) ==
    LET cmd == calls[c].cmd
        row == users[cmd.target]
    IN /\ row # None
       /\ IF calls[c].snap = None
          THEN cmd.action = "create_persona" /\ mark[cmd.target].writes = 0
          ELSE row = calls[c].snap /\ Expected(cmd, row)
ReplacesWhatWasAuthorized ==
    [][\A c \in Calls : WritesPersona(c) => AsAuthorized(c)]_vars

(***************************************************************************)
(* No write replaces a state its caller had not seen, however the calls    *)
(* overlap, unless two writes of one millisecond left the same token;      *)
(* "create", which checks nothing, is excepted.  A persona's tokens are a  *)
(* chain, so personas never need the exception.                            *)
(***************************************************************************)
NoBlindWrite == \A t \in blind : mark[t].clash /\ t \notin Users

(***************************************************************************)
(* A title goes to an audience at most once, under any keys and however    *)
(* the calls overlap; and a panel notification without its delivery has a  *)
(* call that is still at it or that failed.                                *)
(***************************************************************************)
AnnouncedOnce == \A n \in Notices :
    /\ noted[n] <= 1 /\ pushed[n] <= noted[n]
    /\ noted[n] > pushed[n] => \E c \in Calls :
         /\ calls[c] # None /\ calls[c].cmd.target = n
         /\ calls[c].pc = "created" \/ calls[c].rejected

(***************************************************************************)
(* Once a call was answered "applied", the same key sent again to the same *)
(* route writes nothing any more, whatever it asks for.                    *)
(***************************************************************************)
SettledKeyWritesOnce == \A c \in Calls :
    calls[c] # None /\ calls[c].late => ~calls[c].effect
=============================================================================
