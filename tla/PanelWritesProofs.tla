------------------------- MODULE PanelWritesProofs -------------------------
(***************************************************************************)
(* What holds of PanelWrites for any number of users, tickets, masters,    *)
(* notices, keys and calls.  Types come first; the four properties rest on *)
(* four groups of facts, each proved on its own on top of the types.       *)
(***************************************************************************)
EXTENDS PanelWrites, TLAPS

-----------------------------------------------------------------------------
(* The inductive invariant, in parts.                                      *)

\* A ticket's new status is one the table knows once it has been looked at.
StatusesFit == \A c \in Calls :
    calls[c] # None /\ Kind(c) = "support" /\ calls[c].pc \in {"looked", "intended"} =>
        TargetStatus(calls[c].cmd) \in FromOpen \cup {None}

\* A persona call past its load has compared a row its target still has, unless
\* the token has moved on; or it creates a user who was missing then, and whose
\* row, if there is one by now, nobody has written under the token it brings.
LooksBack(c) ==
    LET cmd == calls[c].cmd
        snap == calls[c].snap
        now == mark[cmd.target]
    IN  /\ snap = None => cmd.action = "create_persona"
        /\ snap # None => Expected(cmd, snap) /\ users[cmd.target] # None
        /\ users[cmd.target] # None /\ now.token = calls[c].token =>
             IF snap = None THEN now.writes = 0 ELSE users[cmd.target] = snap
RowsAsLoaded ==
    /\ \A u \in Users : users[u] = None => mark[u].writes = 0
    /\ \A c \in Calls :
         calls[c] # None /\ Kind(c) = "identity" /\ calls[c].pc \in {"loaded", "intended"} =>
             LooksBack(c)

\* What a call saw is behind what its target went through since: the token as
\* well, unless two writes left the same one.
Follows(c) ==
    calls[c] # None /\ calls[c].cmd.target \in Targets =>
        LET now == mark[calls[c].cmd.target] IN
          /\ calls[c].seen <= now.writes /\ calls[c].token <= now.token
          /\ calls[c].seen < now.writes => calls[c].token < now.token \/ now.clash
TokensInOrder ==
    /\ \A t \in Targets :
         IF t \in Users THEN ~mark[t].clash /\ mark[t].token = mark[t].writes
         ELSE mark[t].token <= clock
    /\ \A c \in Calls : Follows(c)

\* The call that claimed a notice is the only one at work on it.
Holds(c) == calls[c] # None /\ calls[c].pc \in {"composed", "created"}
OneSender ==
    /\ \A c \in Calls : Holds(c) =>
         /\ Kind(c) = "compose" /\ calls[c].cmd.target \in recent
         /\ noted[calls[c].cmd.target] = IF calls[c].pc = "created" THEN 1 ELSE 0
         /\ pushed[calls[c].cmd.target] = 0
    /\ \A c, d \in Calls :
         Holds(c) /\ Holds(d) /\ calls[c].cmd.target = calls[d].cmd.target => c = d
    /\ \A n \in Notices : n \notin recent => noted[n] = 0 /\ pushed[n] = 0

\* An answer "applied" is on record under its key, and a call sent after it
\* never gets past the record.
KeysSettle == \A c \in Calls : calls[c] # None =>
    /\ Kind(c) \in Replayable /\ calls[c].pc = "applied" => Answered(c)
    /\ calls[c].late =>
         /\ Kind(c) \in Replayable /\ Answered(c) /\ ~calls[c].effect
         /\ calls[c].pc \in {"sent", "received", "denied", "failing", "failed",
                            "idempotent_replay"}
              \cup (IF Kind(c) = "support" THEN {"loaded"} ELSE {})

Base == TypeOK /\ StatusesFit
Inductive ==
    /\ Base
    /\ TokensInOrder /\ NoBlindWrite
    /\ RowsAsLoaded
    /\ OneSender /\ AnnouncedOnce
    /\ KeysSettle

-----------------------------------------------------------------------------
(* Types and frames.                                                       *)

\* What a call is made of, and that its command is one its route sends.
LEMMA CallTypes ==
    ASSUME TypeOK, NEW c \in Calls, calls[c] # None
    PROVE  /\ calls[c] \in CallOf(menu) /\ calls[c].cmd \in menu /\ menu \in Menus
           /\ Kind(c) \in Kinds
           /\ Kind(c) = "identity" =>
                /\ calls[c].cmd.target \in Users /\ calls[c].cmd.action \in PersonaActions
                /\ calls[c].cmd.role \in Roles
                /\ calls[c].cmd.country \in Countries \cup {None}
                /\ calls[c].cmd.agent \in Agents \cup {None}
                /\ calls[c].cmd.was \in Roles \cup {None} /\ calls[c].cmd.off \in BOOLEAN
           /\ Kind(c) = "support" => calls[c].cmd.target \in Tickets
           /\ Kind(c) = "compose" => calls[c].cmd.target \in Notices
           /\ Kind(c) = "master" =>
                calls[c].cmd.target \in Masters /\ calls[c].cmd.action \in MasterActions
<1>1. calls[c] \in CallOf(menu) /\ menu \in Menus
  BY DEF TypeOK
<1>2. calls[c].cmd \in menu
  BY <1>1 DEF CallOf
<1> QED BY <1>1, <1>2, Routes DEF Kind

\* A call at work keeps its key, command, token and sight, and its rejection.
Kept(c) ==
    /\ calls' \in [Calls -> {None} \cup CallOf(menu)]
    /\ calls[c] # None /\ calls'[c] \in CallOf(menu) /\ calls'[c] # None
    /\ \A d \in Calls : d # c => calls'[d] = calls[d]
    /\ calls'[c].key = calls[c].key /\ calls'[c].cmd = calls[c].cmd
    /\ calls'[c].token = calls[c].token /\ calls'[c].seen = calls[c].seen
    /\ calls'[c].late = calls[c].late
    /\ calls[c].rejected => calls'[c].rejected

\* The steps of a call that is under way.
Own(c) ==
    \/ Lookup(c) \/ RecordIntent(c) \/ RecordResult(c) \/ Put(c)
    \/ Receive(c) \/ LoadPersona(c) \/ ApplyPersona(c) \/ RecordFailure(c)
    \/ LoadTicket(c) \/ ApplyPatch(c)
    \/ Compose(c) \/ CreatePanelNotification(c) \/ Deliver(c) \/ MarkRead(c)
    \/ ApplyMaster(c) \/ PortRejects(c)

\* One step of a call changes its place, its trail, its snapshot or its marks.
LEMMA OwnKeeps ==
    ASSUME TypeOK, NEW c \in Calls, Own(c)
    PROVE  Kept(c)
<1>1. /\ calls \in [Calls -> {None} \cup CallOf(menu)]
      /\ menu \in Menus /\ None \notin CallOf(menu)
  BY NoCall DEF TypeOK
<1>2. calls[c] # None /\ calls[c] \in CallOf(menu)
  BY <1>1 DEF Own, Lookup, RecordIntent, RecordResult, Put, Receive, LoadPersona, ApplyPersona,
     RecordFailure, LoadTicket, ApplyPatch, Compose, CreatePanelNotification, Deliver,
     MarkRead, ApplyMaster, PortRejects, At
<1>3. ASSUME NEW rec \in CallOf(menu), 
             calls' = [d \in Calls |-> IF d = c THEN rec ELSE calls[d]],
             rec.key = calls[c].key, rec.cmd = calls[c].cmd, rec.token = calls[c].token,
             rec.seen = calls[c].seen, rec.late = calls[c].late,
             calls[c].rejected => rec.rejected
      PROVE  Kept(c)
  BY <1>1, <1>2, <1>3 DEF Kept
<1>4. ASSUME NEW place \in Stages, Goes(c, place) PROVE Kept(c)
  <2> DEFINE rec == [calls[c] EXCEPT !.pc = place]
  <2>1. rec \in CallOf(menu)
    BY <1>2 DEF CallOf
  <2>2. calls' = [d \in Calls |-> IF d = c THEN rec ELSE calls[d]]
    BY <1>1, <1>4 DEF Goes
  <2> QED BY <1>2, <1>3, <2>1, <2>2 DEF CallOf
<1> USE DEF Stages, Ready, Outcomes
<1>5. CASE Lookup(c)
  BY <1>4, <1>5 DEF Lookup
<1>6. CASE RecordIntent(c)
  <2> DEFINE rec == [calls[c] EXCEPT !.pc = "intended", !.trail = @ \cup {"intent"}]
  <2>1. rec \in CallOf(menu)
    BY <1>2 DEF CallOf
  <2>2. calls' = [d \in Calls |-> IF d = c THEN rec ELSE calls[d]]
    BY <1>1, <1>6 DEF RecordIntent
  <2> QED BY <1>2, <1>3, <2>1, <2>2 DEF CallOf
<1>7. CASE RecordResult(c)
  <2> DEFINE rec == [calls[c] EXCEPT !.pc = "recorded", !.trail = @ \cup {"applied"}]
  <2>1. rec \in CallOf(menu)
    BY <1>2 DEF CallOf
  <2>2. calls' = [d \in Calls |-> IF d = c THEN rec ELSE calls[d]]
    BY <1>1, <1>7 DEF RecordResult
  <2> QED BY <1>2, <1>3, <2>1, <2>2 DEF CallOf
<1>8. CASE RecordFailure(c)
  <2> DEFINE rec == [calls[c] EXCEPT !.trail = @ \cup {"failed"}, !.pc = FailureOutcome(c)]
  <2>1. rec \in CallOf(menu)
    BY <1>2 DEF CallOf, FailureOutcome
  <2>2. calls' = [d \in Calls |-> IF d = c THEN rec ELSE calls[d]]
    BY <1>1, <1>8 DEF RecordFailure
  <2> QED BY <1>2, <1>3, <2>1, <2>2 DEF CallOf
<1>9. CASE LoadPersona(c)
  <2>1. PICK place \in Stages :
           calls' = [calls EXCEPT ![c].snap = users[calls[c].cmd.target], ![c].pc = place]
    BY <1>9 DEF LoadPersona
  <2> DEFINE rec == [calls[c] EXCEPT !.snap = users[calls[c].cmd.target], !.pc = place]
  <2>2. users[calls[c].cmd.target] \in Personas \cup {None}
    BY <1>2, <1>9, CallTypes DEF LoadPersona, TypeOK
  <2>3. rec \in CallOf(menu)
    BY <1>2, <2>2 DEF CallOf
  <2>4. calls' = [d \in Calls |-> IF d = c THEN rec ELSE calls[d]]
    BY <1>1, <2>1
  <2> QED BY <1>2, <1>3, <2>3, <2>4 DEF CallOf
<1>10. ASSUME NEW place \in Stages,
              calls' = [calls EXCEPT ![c].pc = place, ![c].effect = TRUE]
       PROVE  Kept(c)
  <2> DEFINE rec == [calls[c] EXCEPT !.pc = place, !.effect = TRUE]
  <2>1. rec \in CallOf(menu)
    BY <1>2 DEF CallOf
  <2>2. calls' = [d \in Calls |-> IF d = c THEN rec ELSE calls[d]]
    BY <1>1, <1>10
  <2> QED BY <1>2, <1>3, <2>1, <2>2 DEF CallOf
<1>11. CASE ApplyPersona(c)
  BY <1>4, <1>10, <1>11 DEF ApplyPersona
<1>12. CASE ApplyPatch(c)
  BY <1>4, <1>10, <1>12 DEF ApplyPatch
<1>13. CASE ApplyMaster(c)
  BY <1>4, <1>10, <1>13 DEF ApplyMaster
<1>14. CASE CreatePanelNotification(c) \/ MarkRead(c)
  BY <1>10, <1>14 DEF CreatePanelNotification, MarkRead
<1>15. CASE Put(c) \/ Receive(c) \/ LoadTicket(c) \/ Compose(c) \/ Deliver(c)
  BY <1>4, <1>15 DEF Put, Receive, LoadTicket, Compose, Deliver
<1>16. CASE PortRejects(c)
  <2>1. PICK place \in Stages :
           calls' = [calls EXCEPT ![c].rejected = TRUE, ![c].pc = place]
    BY <1>16 DEF PortRejects
  <2> DEFINE rec == [calls[c] EXCEPT !.rejected = TRUE, !.pc = place]
  <2>2. rec \in CallOf(menu)
    BY <1>2 DEF CallOf
  <2>3. calls' = [d \in Calls |-> IF d = c THEN rec ELSE calls[d]]
    BY <1>1, <2>1
  <2> QED BY <1>2, <1>3, <2>2, <2>3 DEF CallOf
<1> QED
  BY <1>5, <1>6, <1>7, <1>8, <1>9, <1>11, <1>12, <1>13, <1>14, <1>15, <1>16 DEF Own

\* A fresh call: its token and sight are those of its target now, or the first ones.
Fresh(c) ==
    /\ calls' \in [Calls -> {None} \cup CallOf(menu)]
    /\ calls[c] = None /\ calls'[c] \in CallOf(menu) /\ calls'[c] # None
    /\ \A d \in Calls : d # c => calls'[d] = calls[d]
    /\ calls'[c].pc = "sent" /\ ~calls'[c].effect
    /\ calls'[c].cmd.target \in Targets =>
         \/ /\ calls'[c].token = mark[calls'[c].cmd.target].token
            /\ calls'[c].seen = mark[calls'[c].cmd.target].writes
         \/ calls'[c].cmd.target \in Users /\ calls'[c].token = 0 /\ calls'[c].seen = 0
    /\ calls'[c].late =>
         /\ calls'[c].cmd.kind \in Replayable
         /\ \E d \in Calls : /\ calls[d] # None /\ calls[d].pc = "applied"
                             /\ calls[d].key = calls'[c].key
                             /\ calls[d].cmd.kind = calls'[c].cmd.kind

\* What a client sends is a call, well typed and just begun.
LEMMA SendStarts ==
    ASSUME TypeOK, NEW c \in Calls, Send(c)
    PROVE  Fresh(c)
<1>1. /\ calls \in [Calls -> {None} \cup CallOf(menu)] /\ calls[c] = None
      /\ menu \in Menus /\ None \notin CallOf(menu)
      /\ mark \in [Targets -> [token : Nat, writes : Nat, clash : BOOLEAN]]
  BY NoCall DEF TypeOK, Send
<1> DEFINE Late(k, cmd) == cmd.kind \in Replayable /\ \E d \in Calls :
               /\ calls[d] # None /\ calls[d].pc = "applied"
               /\ calls[d].key = k /\ calls[d].cmd.kind = cmd.kind
           Call(k, cmd, sight) ==
               [pc |-> "sent", key |-> k, cmd |-> cmd,
                token |-> sight.token, seen |-> sight.writes,
                snap |-> None, trail |-> {}, effect |-> FALSE, rejected |-> FALSE,
                late |-> Late(k, cmd)]
<1>2. PICK k \in Keys, cmd \in menu :
        \E sight \in Sights(cmd.target) : calls' = [calls EXCEPT ![c] = Call(k, cmd, sight)]
  BY DEF Send
<1>3. PICK sight : /\ sight \in Sights(cmd.target)
                   /\ calls' = [calls EXCEPT ![c] = Call(k, cmd, sight)]
  BY <1>2
<1>4. /\ sight \in [token : Nat, writes : Nat, clash : BOOLEAN]
      /\ cmd.target \in Targets =>
           \/ sight = mark[cmd.target]
           \/ cmd.target \in Users /\ sight = Unwritten
  <2> HIDE DEF Call, Late
  <2>1. sight \in Sights(cmd.target)
    BY <1>3
  <2>2. Unwritten \in [token : Nat, writes : Nat, clash : BOOLEAN]
    BY DEF Unwritten
  <2>3. CASE cmd.target \notin Targets
    BY <2>1, <2>3, <2>2 DEF Sights
  <2>4. CASE cmd.target \in Targets
    <3>1. mark[cmd.target] \in [token : Nat, writes : Nat, clash : BOOLEAN]
      BY <1>1, <2>4
    <3>2. \/ sight = mark[cmd.target]
          \/ cmd.target \in Users /\ sight = Unwritten
      BY <2>1, <2>4 DEF Sights
    <3> QED BY <2>2, <3>1, <3>2
  <2> QED BY <2>3, <2>4
<1>5. Call(k, cmd, sight) \in CallOf(menu)
  <2> DEFINE late == Late(k, cmd)
  <2>1. sight.token \in Nat /\ sight.writes \in Nat /\ late \in BOOLEAN
    BY <1>4
  <2> HIDE DEF late
  <2>2. [pc |-> "sent", key |-> k, cmd |-> cmd, token |-> sight.token, seen |-> sight.writes,
         snap |-> None, trail |-> {}, effect |-> FALSE, rejected |-> FALSE,
         late |-> late] \in CallOf(menu)
    BY <2>1 DEF CallOf, Stages, Ready
  <2> QED BY <2>2 DEF late
<1>6. calls'[c] = Call(k, cmd, sight) /\ \A d \in Calls : d # c => calls'[d] = calls[d]
  BY <1>1, <1>3
<1>7. calls' \in [Calls -> {None} \cup CallOf(menu)]
  BY <1>1, <1>3, <1>5
<1>8. /\ calls'[c].key = k /\ calls'[c].cmd = cmd /\ calls'[c].late = Late(k, cmd)
      /\ calls'[c].pc = "sent" /\ ~calls'[c].effect
      /\ calls'[c].token = sight.token /\ calls'[c].seen = sight.writes
  BY <1>6
<1>9. cmd.target \in Targets =>
        \/ sight.token = mark[cmd.target].token /\ sight.writes = mark[cmd.target].writes
        \/ cmd.target \in Users /\ sight.token = 0 /\ sight.writes = 0
  BY <1>4 DEF Unwritten
<1> HIDE DEF Call
<1> QED BY <1>1, <1>5, <1>6, <1>7, <1>8, <1>9 DEF Fresh

\* Which step may change what.
Owners ==
    /\ UNCHANGED menu
    /\ UNCHANGED users \/ \E c \in Calls : Receive(c) \/ ApplyPersona(c)
    /\ UNCHANGED tickets \/ \E c \in Calls : ApplyPatch(c)
    /\ UNCHANGED masters \/ \E c \in Calls : ApplyMaster(c)
    /\ \/ UNCHANGED <<mark, blind>>
       \/ \E c \in Calls : ApplyPersona(c) \/ ApplyPatch(c) \/ ApplyMaster(c)
    /\ UNCHANGED recent \/ \E c \in Calls : Compose(c)
    /\ UNCHANGED noted \/ \E c \in Calls : CreatePanelNotification(c)
    /\ UNCHANGED pushed \/ \E c \in Calls : Deliver(c)
    /\ UNCHANGED replies \/ \E c \in Calls : Put(c)
    /\ UNCHANGED clock \/ Tick
    /\ UNCHANGED faults \/ \E c \in Calls : PortRejects(c)
    /\ UNCHANGED calls \/ \E c \in Calls : Send(c) \/ Own(c)

\* Every variable has its writers, and no step but theirs changes it.
LEMMA Writers == [Next]_vars => Owners
<1> SUFFICES ASSUME [Next]_vars PROVE Owners
  OBVIOUS
<1> USE DEF Owners, Own, World
<1>1. CASE Tick
  BY <1>1 DEF Tick
<1>2. ASSUME NEW c \in Calls, Send(c) PROVE Owners
  BY <1>2 DEF Send
<1>3. ASSUME NEW c \in Calls, Lookup(c) \/ RecordIntent(c) \/ RecordResult(c) PROVE Owners
  BY <1>3 DEF Lookup, RecordIntent, RecordResult
<1>4. ASSUME NEW c \in Calls, Put(c) \/ Receive(c) \/ LoadPersona(c) \/ RecordFailure(c)
      PROVE  Owners
  BY <1>4 DEF Put, Receive, LoadPersona, RecordFailure
<1>5. ASSUME NEW c \in Calls, ApplyPersona(c) PROVE Owners
  BY <1>5 DEF ApplyPersona
<1>6. ASSUME NEW c \in Calls, LoadTicket(c) \/ MarkRead(c) \/ PortRejects(c) PROVE Owners
  BY <1>6 DEF LoadTicket, MarkRead, PortRejects
<1>7. ASSUME NEW c \in Calls, ApplyPatch(c) PROVE Owners
  BY <1>7 DEF ApplyPatch
<1>8. ASSUME NEW c \in Calls, ApplyMaster(c) PROVE Owners
  BY <1>8 DEF ApplyMaster
<1>9. ASSUME NEW c \in Calls, Compose(c) PROVE Owners
  BY <1>9 DEF Compose
<1>10. ASSUME NEW c \in Calls, CreatePanelNotification(c) \/ Deliver(c) PROVE Owners
  BY <1>10 DEF CreatePanelNotification, Deliver
<1>11. CASE UNCHANGED vars
  BY <1>11 DEF vars
<1> HIDE DEF Owners, Own, World
<1> QED
  BY <1>1, <1>2, <1>3, <1>4, <1>5, <1>6, <1>7, <1>8, <1>9, <1>10, <1>11 DEF Next

\* A persona stays one, whatever is done to it.
LEMMA PersonaTypes ==
    ASSUME NEW user \in Personas, NEW cmd,
           cmd.action \in PersonaActions, cmd.role \in Roles,
           cmd.country \in Countries \cup {None}, cmd.agent \in Agents \cup {None}
    PROVE  Persona(user, cmd) \in Personas
<1> USE DEF Changes
<1>1. CASE cmd.action = "create_persona"
  BY <1>1 DEF Persona, Personas
<1>2. CASE cmd.action = "activate" \/ cmd.action = "deactivate"
  BY <1>2 DEF Persona, Personas
<1>3. CASE Changes(cmd)
  BY <1>3 DEF Persona, Personas
<1>4. CASE cmd.action = "assign_country_scope" \/ cmd.action = "clear_scope"
  BY <1>4 DEF Persona, Personas
<1>5. CASE cmd.action = "assign_agent_scope"
  BY <1>5 DEF Persona, Personas
<1> QED BY <1>1, <1>2, <1>3, <1>4, <1>5 DEF PersonaActions

\* The tables of personas and tickets hold what their writes leave.
LEMMA WorldTypes ==
    ASSUME Base, [Next]_vars
    PROVE  /\ users' \in [Users -> Personas \cup {None}]
           /\ tickets' \in [Tickets -> TicketStatus]
           /\ masters' \in [Masters -> [exists : BOOLEAN, active : BOOLEAN, archived : BOOLEAN]]
<1> DEFINE Rooms == [exists : BOOLEAN, active : BOOLEAN, archived : BOOLEAN]
<1>1. /\ users \in [Users -> Personas \cup {None}] /\ tickets \in [Tickets -> TicketStatus]
      /\ masters \in [Masters -> Rooms]
  BY DEF Base, TypeOK
<1>2. ASSUME NEW c \in Calls, ApplyPersona(c) PROVE users' \in [Users -> Personas \cup {None}]
  <2> DEFINE u == calls[c].cmd.target
             cmd == calls[c].cmd
  <2>1. /\ cmd.action \in PersonaActions /\ cmd.role \in Roles /\ u \in Users
        /\ cmd.country \in Countries \cup {None} /\ cmd.agent \in Agents \cup {None}
    BY <1>2, CallTypes DEF Base, ApplyPersona, At
  <2>2. CASE users[u] = None
    BY <1>1, <1>2, <2>2 DEF ApplyPersona, PersonaFits
  <2>3. users[u] \in Personas => Persona(users[u], cmd) \in Personas
    BY <2>1, PersonaTypes
  <2>4. CASE users[u] \in Personas
    BY <1>1, <1>2, <2>1, <2>3, <2>4 DEF ApplyPersona
  <2> QED BY <1>1, <2>1, <2>2, <2>4
<1>5. ASSUME NEW c \in Calls, Receive(c) PROVE users' \in [Users -> Personas \cup {None}]
  <2> DEFINE cmd == calls[c].cmd
  <2>1. /\ cmd.target \in Users /\ cmd.country \in Countries \cup {None}
        /\ cmd.was \in Roles \cup {None} /\ cmd.off \in BOOLEAN
    BY <1>5, CallTypes DEF Base, Receive, At
  <2>2. FirstMention(cmd) \in Personas
    <3> HIDE DEF cmd
    <3> QED BY <2>1 DEF FirstMention, Personas, Roles, Writable
  <2> QED BY <1>1, <1>5, <2>1, <2>2 DEF Receive
<1>3. ASSUME NEW c \in Calls, ApplyPatch(c) PROVE tickets' \in [Tickets -> TicketStatus]
  <2>1. TargetStatus(calls[c].cmd) \in FromOpen \cup {None}
    BY <1>3 DEF Base, StatusesFit, ApplyPatch, At
  <2>2. FromOpen = TicketStatus
    BY DEF FromOpen, TicketStatus
  <2> QED BY <1>1, <1>3, <2>1, <2>2 DEF ApplyPatch, Stored
<1>4. ASSUME NEW c \in Calls, ApplyMaster(c) PROVE masters' \in [Masters -> Rooms]
  <2> DEFINE m == calls[c].cmd.target
             action == calls[c].cmd.action
  <2>1. m \in Masters /\ action \in MasterActions
    BY <1>4, CallTypes DEF Base, ApplyMaster, At
  <2>2. MasterAfter(masters[m], action) \in Rooms
    <3>1. masters[m] \in Rooms
      BY <1>1, <2>1
    <3> HIDE DEF m, action
    <3> QED BY <2>1, <3>1 DEF MasterAfter, MasterActions
  <2> QED BY <1>1, <1>4, <2>2 DEF ApplyMaster
<1> QED BY <1>1, <1>2, <1>3, <1>4, <1>5, Writers DEF Owners

\* The other tables: tokens are numbers, the counters count, keys stay keys.
LEMMA MarkTypes ==
    ASSUME Base, [Next]_vars
    PROVE  /\ mark' \in [Targets -> [token : Nat, writes : Nat, clash : BOOLEAN]]
           /\ blind' \subseteq Targets
<1>1. /\ mark \in [Targets -> [token : Nat, writes : Nat, clash : BOOLEAN]]
      /\ blind \subseteq Targets /\ clock \in Nat
  BY DEF Base, TypeOK
<1>2. ASSUME NEW t \in Targets, NEW n \in Nat,
             mark' = [mark EXCEPT ![t] = [token |-> n, writes |-> @.writes + 1,
                                          clash |-> @.clash \/ n = @.token]]
      PROVE  mark' \in [Targets -> [token : Nat, writes : Nat, clash : BOOLEAN]]
  <2> DEFINE after == [token |-> n, writes |-> mark[t].writes + 1,
                       clash |-> mark[t].clash \/ n = mark[t].token]
  <2>1. after \in [token : Nat, writes : Nat, clash : BOOLEAN]
    BY <1>1
  <2>2. mark' = [mark EXCEPT ![t] = after]
    BY <1>2
  <2> HIDE DEF after
  <2> QED BY <1>1, <2>1, <2>2
<1>3. \A t \in Targets : NextToken(t) \in Nat
  BY <1>1 DEF NextToken
<1>4. ASSUME NEW c \in Calls, NEW t \in Targets, Marked(c, t)
      PROVE  /\ mark' \in [Targets -> [token : Nat, writes : Nat, clash : BOOLEAN]]
             /\ blind' \subseteq Targets
  BY <1>1, <1>2, <1>3, <1>4 DEF Marked
<1>5. ASSUME NEW c \in Calls, ApplyPersona(c)
      PROVE  /\ mark' \in [Targets -> [token : Nat, writes : Nat, clash : BOOLEAN]]
             /\ blind' \subseteq Targets
  <2>1. calls[c].cmd.target \in Targets
    BY <1>5, CallTypes DEF Base, ApplyPersona, At, Targets
  <2> QED BY <1>1, <1>4, <1>5, <2>1 DEF ApplyPersona
<1>6. ASSUME NEW c \in Calls, ApplyPatch(c)
      PROVE  /\ mark' \in [Targets -> [token : Nat, writes : Nat, clash : BOOLEAN]]
             /\ blind' \subseteq Targets
  <2>1. calls[c].cmd.target \in Targets
    BY <1>6, CallTypes DEF Base, ApplyPatch, At, Targets
  <2> QED BY <1>1, <1>4, <1>6, <2>1 DEF ApplyPatch
<1>7. ASSUME NEW c \in Calls, ApplyMaster(c)
      PROVE  /\ mark' \in [Targets -> [token : Nat, writes : Nat, clash : BOOLEAN]]
             /\ blind' \subseteq Targets
  <2>1. calls[c].cmd.target \in Targets
    BY <1>7, CallTypes DEF Base, ApplyMaster, At, Targets
  <2> QED BY <1>1, <1>2, <1>3, <1>4, <1>7, <2>1 DEF ApplyMaster
<1> QED BY <1>1, <1>5, <1>6, <1>7, Writers DEF Owners

\* A call's key goes into the store of its own route.
LEMMA StoreTypes ==
    ASSUME Base, [Next]_vars
    PROVE  /\ recent' \subseteq Notices
           /\ noted' \in [Notices -> Nat] /\ pushed' \in [Notices -> Nat]
           /\ replies' \in [Replayable -> SUBSET Keys]
           /\ clock' \in Nat /\ faults' \in Nat
<1>1. /\ recent \subseteq Notices /\ noted \in [Notices -> Nat] /\ pushed \in [Notices -> Nat]
      /\ replies \in [Replayable -> SUBSET Keys]
      /\ clock \in Nat /\ faults \in Nat
  BY DEF Base, TypeOK
<1>2. ASSUME NEW c \in Calls, Compose(c) PROVE recent' \subseteq Notices
  <2>1. calls[c].cmd.target \in Notices
    BY <1>2, CallTypes DEF Base, Compose, At
  <2> QED BY <1>1, <1>2, <2>1 DEF Compose, Claims
<1>3. ASSUME NEW c \in Calls, Put(c) PROVE replies' \in [Replayable -> SUBSET Keys]
  <2>1. calls[c].key \in Keys
    BY <1>3, CallTypes DEF Base, Put, At, CallOf
  <2> QED BY <1>1, <1>3, <2>1 DEF Put
<1>4. ASSUME NEW c \in Calls, CreatePanelNotification(c) PROVE noted' \in [Notices -> Nat]
  <2> DEFINE n == calls[c].cmd.target
  <2>2. noted' = [noted EXCEPT ![n] = noted[n] + 1]
    BY <1>4 DEF CreatePanelNotification
  <2> HIDE DEF n
  <2>3. CASE n \in Notices
    BY <1>1, <2>2, <2>3
  <2>4. CASE n \notin Notices
    BY <1>1, <2>2, <2>4
  <2> QED BY <2>3, <2>4
<1>5. ASSUME NEW c \in Calls, Deliver(c) PROVE pushed' \in [Notices -> Nat]
  <2> DEFINE n == calls[c].cmd.target
  <2>2. pushed' = [pushed EXCEPT ![n] = pushed[n] + 1]
    BY <1>5 DEF Deliver
  <2> HIDE DEF n
  <2>3. CASE n \in Notices
    BY <1>1, <2>2, <2>3
  <2>4. CASE n \notin Notices
    BY <1>1, <2>2, <2>4
  <2> QED BY <2>3, <2>4
<1>6. Tick => clock' \in Nat
  BY <1>1 DEF Tick
<1>7. ASSUME NEW c \in Calls, PortRejects(c) PROVE faults' \in Nat
  BY <1>1, <1>7 DEF PortRejects
<1>9. recent' \subseteq Notices /\ replies' \in [Replayable -> SUBSET Keys]
  BY <1>1, <1>2, <1>3, Writers DEF Owners
<1>10. noted' \in [Notices -> Nat] /\ pushed' \in [Notices -> Nat]
  BY <1>1, <1>4, <1>5, Writers DEF Owners
<1>11. clock' \in Nat /\ faults' \in Nat
  BY <1>1, <1>6, <1>7, Writers DEF Owners
<1> QED BY <1>9, <1>10, <1>11

\* How a call gets to where it stands after one of its steps.
Path(c) ==
    LET was == calls[c].pc
        now == calls'[c].pc
    IN  /\ was \notin Outcomes /\ now # "sent"
        /\ now = "received" => was = "sent" /\ Kind(c) = "identity"
        /\ now = "looked" =>
             /\ Kind(c) \in Replayable /\ was = LookupAt(Kind(c)) /\ ~Answered(c)
             /\ Kind(c) = "support" => TargetStatus(calls[c].cmd) \in FromOpen \cup {None}
        /\ now = "loaded" =>
             \/ LoadPersona(c)
             \/ Kind(c) = "support" /\ was = "sent"
        /\ now = "intended" => /\ was = IF Kind(c) = "identity" THEN "loaded" ELSE "looked"
                               /\ calls'[c].snap = calls[c].snap
        /\ now = "composed" => Compose(c)
        /\ now = "created" => CreatePanelNotification(c)
        /\ was = "created" => Deliver(c) \/ calls'[c].rejected
        /\ now = "written" => was \in {"intended", "created"}
        /\ now = "recorded" => was = "written"
        /\ now = "applied" => Put(c) \/ Kind(c) = "master"
        /\ calls'[c].effect =>
             calls[c].effect \/ was \in {"intended", "composed"} \/ Kind(c) = "master"

\* The guards and targets of the sixteen steps, read together.
LEMMA Paths ==
    ASSUME TypeOK, NEW c \in Calls, Own(c)
    PROVE  Path(c)
<1>1. calls \in [Calls -> {None} \cup CallOf(menu)]
  BY DEF TypeOK
<1>2. calls[c] # None
  BY DEF Own, Lookup, RecordIntent, RecordResult, Put, Receive, LoadPersona, ApplyPersona,
     RecordFailure, LoadTicket, ApplyPatch, Compose, CreatePanelNotification, Deliver,
     MarkRead, ApplyMaster, PortRejects, At
<1>3. calls[c] \in CallOf(menu)
  BY <1>1, <1>2
<1> USE <1>1, <1>3 DEF Path, At, Goes, CallOf, Outcomes, Ready
<1>4. CASE Lookup(c)
  BY <1>4 DEF Lookup, LookupAt
<1>5. CASE RecordIntent(c)
  BY <1>5 DEF RecordIntent
<1>6. CASE RecordResult(c)
  BY <1>6 DEF RecordResult
<1>7. CASE Put(c)
  BY <1>7 DEF Put
<1>8. CASE LoadPersona(c)
  <2>1. calls'[c].pc \in {"loaded", "denied"}
    BY <1>8 DEF LoadPersona
  <2>2. calls[c].pc = "looked" /\ Kind(c) = "identity" /\ calls'[c].effect = calls[c].effect
    BY <1>8 DEF LoadPersona
  <2> QED BY <1>8, <2>1, <2>2
<1>9. CASE ApplyPersona(c)
  BY <1>9 DEF ApplyPersona
<1>10. CASE RecordFailure(c)
  BY <1>10 DEF RecordFailure, FailureOutcome
<1>11. CASE LoadTicket(c)
  BY <1>11 DEF LoadTicket
<1>12. CASE ApplyPatch(c)
  BY <1>12 DEF ApplyPatch
<1>13. CASE Compose(c)
  BY <1>13 DEF Compose
<1>14. CASE CreatePanelNotification(c)
  BY <1>14 DEF CreatePanelNotification
<1>15. CASE Deliver(c)
  BY <1>15 DEF Deliver
<1>16. CASE MarkRead(c)
  BY <1>16 DEF MarkRead
<1>17. CASE ApplyMaster(c)
  BY <1>17 DEF ApplyMaster
<1>18. CASE PortRejects(c)
  BY <1>18 DEF PortRejects
<1>19. CASE Receive(c)
  BY <1>19 DEF Receive
<1> QED
  BY <1>4, <1>5, <1>6, <1>7, <1>8, <1>9, <1>10, <1>11, <1>12, <1>13, <1>14, <1>15, <1>16,
     <1>17, <1>18, <1>19 DEF Own

\* Every step starts a call, moves one call, or leaves all calls alone.
LEMMA OneCall ==
    ASSUME TypeOK, [Next]_vars
    PROVE  \/ UNCHANGED calls
           \/ \E c \in Calls : Send(c) /\ Fresh(c)
           \/ \E c \in Calls : Own(c) /\ Kept(c) /\ Path(c)
BY OwnKeeps, Paths, SendStarts, Writers DEF Owners

\* A ticket reaches the patch only with a status the table knows.
LEMMA NextStatuses == ASSUME Base, [Next]_vars PROVE StatusesFit'
<1>1. CASE UNCHANGED calls
  BY <1>1 DEF Base, StatusesFit, Kind
<1>2. ASSUME NEW c \in Calls, Fresh(c) PROVE StatusesFit'
  BY <1>2 DEF Base, StatusesFit, Kind, Fresh
<1>3. ASSUME NEW c \in Calls, Kept(c), Path(c) PROVE StatusesFit'
  BY <1>3 DEF Base, StatusesFit, Kind, Kept, Path
<1> QED BY <1>1, <1>2, <1>3, OneCall DEF Base

LEMMA NextBase == ASSUME Base, [Next]_vars PROVE Base'
<1>1. calls' \in [Calls -> {None} \cup CallOf(menu)] /\ menu' = menu
  BY OneCall, Writers DEF Base, TypeOK, Fresh, Kept, Owners
<1>2. menu' \in Menus
  BY <1>1 DEF Base, TypeOK
<1> QED BY <1>1, <1>2, WorldTypes, MarkTypes, StoreTypes, NextStatuses DEF Base, TypeOK

-----------------------------------------------------------------------------
(* Nothing unseen is overwritten.                                          *)

\* A target was written: its count and token moved on, or the token is shared.
Moved(t) ==
    /\ t \in Targets
    /\ mark' = [mark EXCEPT ![t] =
         [token |-> NextToken(t), writes |-> @.writes + 1,
          clash |-> @.clash \/ NextToken(t) = @.token]]

\* A write is made by a call with its target's token, or replaces what exists.
LEMMA Written ==
    ASSUME Base, [Next]_vars
    PROVE  \/ UNCHANGED <<mark, blind>>
           \/ \E c \in Calls : LET t == calls[c].cmd.target IN
                /\ calls[c] # None /\ Moved(t) /\ UNCHANGED clock
                /\ \/ UNCHANGED blind
                   \/ /\ mark[t].token = calls[c].token
                      /\ blind' = IF calls[c].seen = mark[t].writes THEN blind
                                  ELSE blind \cup {t}
<1> DEFINE Conclusion(c) == LET t == calls[c].cmd.target IN
                /\ calls[c] # None /\ Moved(t) /\ UNCHANGED clock
                /\ \/ UNCHANGED blind
                   \/ /\ mark[t].token = calls[c].token
                      /\ blind' = IF calls[c].seen = mark[t].writes THEN blind
                                  ELSE blind \cup {t}
<1>1. ASSUME NEW c \in Calls, ApplyPersona(c) PROVE UNCHANGED <<mark, blind>> \/ Conclusion(c)
  <2>1. calls[c].cmd.target \in Targets
    BY <1>1, CallTypes DEF Base, ApplyPersona, At, Targets
  <2> QED BY <1>1, <2>1 DEF ApplyPersona, PersonaFits, At, Marked, Moved
<1>2. ASSUME NEW c \in Calls, ApplyPatch(c) PROVE UNCHANGED <<mark, blind>> \/ Conclusion(c)
  <2>1. calls[c].cmd.target \in Targets
    BY <1>2, CallTypes DEF Base, ApplyPatch, At, Targets
  <2> QED BY <1>2, <2>1 DEF ApplyPatch, TicketFits, At, Marked, Moved
<1>3. ASSUME NEW c \in Calls, ApplyMaster(c) PROVE UNCHANGED <<mark, blind>> \/ Conclusion(c)
  <2>1. calls[c].cmd.target \in Targets
    BY <1>3, CallTypes DEF Base, ApplyMaster, At, Targets
  <2> QED BY <1>3, <2>1 DEF ApplyMaster, At, Marked, Moved
<1> QED BY <1>1, <1>2, <1>3, Writers DEF Owners

\* Tokens and counts go up together, but for two writes that share a token.
LEMMA NextTokens ==
    ASSUME Base, TokensInOrder, NoBlindWrite, [Next]_vars
    PROVE  TokensInOrder' /\ NoBlindWrite'
<1>1. /\ mark \in [Targets -> [token : Nat, writes : Nat, clash : BOOLEAN]]
      /\ mark' \in [Targets -> [token : Nat, writes : Nat, clash : BOOLEAN]]
      /\ clock \in Nat /\ clock' \in Nat /\ clock <= clock'
      /\ blind \subseteq Targets
  BY Writers, MarkTypes, StoreTypes DEF Base, TypeOK, Owners, Tick
<1>2. \A c \in Calls : calls[c] # None => calls[c].seen \in Nat /\ calls[c].token \in Nat
  BY DEF Base, TypeOK, CallOf
<1> DEFINE Up(t) == /\ mark[t].writes <= mark'[t].writes
                    /\ mark[t].token <= mark'[t].token
                    /\ mark[t].clash => mark'[t].clash
                    /\ mark[t].writes < mark'[t].writes =>
                         mark[t].token < mark'[t].token \/ mark'[t].clash
                    /\ IF t \in Users THEN ~mark'[t].clash /\ mark'[t].token = mark'[t].writes
                       ELSE mark'[t].token <= clock'
<1>3. /\ \A t \in Targets : Up(t)
      /\ NoBlindWrite'
  <2>1. CASE UNCHANGED <<mark, blind>>
    BY <1>1, <2>1 DEF TokensInOrder, NoBlindWrite
  <2>2. ASSUME NEW c \in Calls, calls[c] # None, Moved(calls[c].cmd.target), UNCHANGED clock,
               \/ UNCHANGED blind
               \/ /\ mark[calls[c].cmd.target].token = calls[c].token
                  /\ blind' = IF calls[c].seen = mark[calls[c].cmd.target].writes THEN blind
                              ELSE blind \cup {calls[c].cmd.target}
        PROVE  (\A t \in Targets : Up(t)) /\ NoBlindWrite'
    <3> DEFINE u == calls[c].cmd.target
    <3>1. u \in Targets /\ \A t \in Targets : t # u => mark'[t] = mark[t]
      BY <1>1, <2>2 DEF Moved
    <3>2. /\ mark'[u].token = NextToken(u) /\ mark'[u].writes = mark[u].writes + 1
          /\ mark'[u].clash = (mark[u].clash \/ NextToken(u) = mark[u].token)
      BY <1>1, <2>2 DEF Moved
    <3>3. IF u \in Users THEN ~mark[u].clash /\ mark[u].token = mark[u].writes
          ELSE mark[u].token <= clock
      BY <3>1 DEF TokensInOrder
    <3>4. Up(u)
      <4>1. /\ mark[u].token \in Nat /\ mark[u].writes \in Nat
            /\ mark[u].clash \in BOOLEAN /\ mark'[u].clash \in BOOLEAN
        BY <1>1, <3>1
      <4>2. /\ mark'[u].token = IF u \in Users THEN mark[u].token + 1 ELSE clock
            /\ mark'[u].clash <=> mark[u].clash \/ mark'[u].token = mark[u].token
        BY <3>2, <4>1 DEF NextToken
      <4>3. CASE u \in Users
        <5>1. mark[u].token + 1 # mark[u].token /\ mark'[u].token = mark[u].token + 1
          BY <4>1, <4>2, <4>3
        <5>2. ~mark'[u].clash /\ ~mark[u].clash
          BY <3>3, <4>2, <4>3, <5>1
        <5> QED BY <3>2, <3>3, <4>1, <4>3, <5>1, <5>2
      <4>4. CASE u \notin Users
        <5>1. mark'[u].token = clock /\ clock' = clock /\ mark[u].token <= clock
          BY <2>2, <3>3, <4>2, <4>4
        <5>2. clock \in Nat /\ mark'[u].writes = mark[u].writes + 1
          BY <1>1, <3>2
        <5>3. mark[u].token <= mark'[u].token /\ mark'[u].token <= clock'
          BY <4>1, <5>1, <5>2
        <5>4. mark[u].clash => mark'[u].clash
          BY <4>2
        <5>5. mark[u].token < mark'[u].token \/ mark'[u].clash
          BY <4>1, <4>2, <5>1, <5>2
        <5> QED BY <4>1, <4>4, <5>2, <5>3, <5>4, <5>5
      <4> QED BY <4>3, <4>4
    <3>5. ASSUME NEW t \in Targets PROVE Up(t)
      <4>1. CASE t # u
        BY <1>1, <3>1, <4>1, <2>2 DEF TokensInOrder
      <4> QED BY <3>4, <4>1
    <3>6. blind' # blind => mark[u].clash
      <4>1. Follows(c)
        BY DEF TokensInOrder
      <4>2. /\ calls[c].seen <= mark[u].writes
            /\ calls[c].seen < mark[u].writes => calls[c].token < mark[u].token \/ mark[u].clash
        BY <2>2, <3>1, <4>1 DEF Follows
      <4>3. mark[u].writes \in Nat /\ mark[u].token \in Nat
        BY <1>1, <3>1
      <4>4. blind' # blind => calls[c].seen # mark[u].writes /\ mark[u].token = calls[c].token
        BY <2>2
      <4> QED BY <1>2, <2>2, <4>2, <4>3, <4>4
    <3>7. u \notin Users \/ blind' = blind
      BY <3>1, <3>3, <3>6
    <3>8. NoBlindWrite'
      <4>1. blind' = blind \/ blind' = blind \cup {u}
        BY <2>2
      <4>2. \A t \in blind : mark'[t].clash /\ t \notin Users
        BY <1>1, <3>5 DEF NoBlindWrite
      <4>3. mark[u].clash => mark'[u].clash
        BY <3>4
      <4> QED BY <3>6, <3>7, <4>1, <4>2, <4>3 DEF NoBlindWrite
    <3> QED BY <3>5, <3>8
  <2> QED BY <2>1, <2>2, Written
<1>4. ASSUME NEW c \in Calls PROVE Follows(c)'
  <2>1. CASE Kept(c) \/ calls'[c] = calls[c]
    <3>1. Follows(c)
      BY DEF TokensInOrder
    <3>2. calls'[c] # None => /\ calls[c] # None /\ calls'[c].cmd = calls[c].cmd
                              /\ calls'[c].seen = calls[c].seen /\ calls'[c].token = calls[c].token
      BY <2>1 DEF Kept
    <3> QED BY <1>1, <1>2, <1>3, <3>1, <3>2 DEF Follows
  <2>2. CASE Fresh(c) /\ UNCHANGED mark
    <3>1. \A t \in Users : t \in Targets /\ mark[t].token = mark[t].writes
      BY DEF TokensInOrder, Targets
    <3>2. calls'[c].cmd.target \in Targets =>
            /\ calls'[c].seen <= mark[calls'[c].cmd.target].writes
            /\ calls'[c].token <= mark[calls'[c].cmd.target].token
            /\ \/ calls'[c].seen = mark[calls'[c].cmd.target].writes
               \/ /\ calls'[c].seen = 0 /\ calls'[c].token = 0
                  /\ mark[calls'[c].cmd.target].token = mark[calls'[c].cmd.target].writes
      BY <1>1, <2>2, <3>1 DEF Fresh
    <3> QED BY <1>1, <2>2, <3>2 DEF Follows
  <2>3. \A d \in Calls : Send(d) => UNCHANGED mark
    BY DEF Send
  <2>4. \/ Kept(c) \/ calls'[c] = calls[c]
        \/ Fresh(c) /\ UNCHANGED mark
    BY <2>3, OneCall DEF Base, Fresh, Kept
  <2> QED BY <2>1, <2>2, <2>4
<1> QED BY <1>3, <1>4 DEF TokensInOrder

-----------------------------------------------------------------------------
(* A persona write replaces what it was authorised on.                     *)

\* The only step from "intended" to "written" of a persona call passes the recheck.
LEMMA Fitting ==
    ASSUME Base, [Next]_vars, NEW c \in Calls, calls[c] # None, Kind(c) = "identity",
           calls[c].pc = "intended", calls'[c].pc = "written"
    PROVE  PersonaFits(c)
<1>1. calls \in [Calls -> {None} \cup CallOf(menu)]
  BY DEF Base, TypeOK
<1>2. Own(c)
  BY <1>1, OneCall DEF Base, Fresh, Kept
<1>3. ApplyPersona(c)
  BY <1>1, <1>2 DEF Own, At, Goes, CallOf, FailureOutcome, Lookup, RecordIntent, RecordResult,
     Put, Receive, LoadPersona, RecordFailure, LoadTicket, ApplyPatch, Compose,
     CreatePanelNotification, Deliver, MarkRead, ApplyMaster, PortRejects
<1> QED BY <1>1, <1>3 DEF ApplyPersona, Goes, CallOf

\* A row is stored at a first mention, or rewritten and its token moved on.
LEMMA RowSteps ==
    ASSUME Base, TokensInOrder, [Next]_vars, NEW u \in Users
    PROVE  \/ users'[u] = users[u] /\ mark'[u] = mark[u]
           \/ users[u] = None /\ users'[u] # None /\ mark'[u] = mark[u]
           \/ /\ users[u] # None /\ users'[u] # None
              /\ mark'[u].token = mark[u].token + 1
<1>1. /\ users \in [Users -> Personas \cup {None}]
      /\ mark \in [Targets -> [token : Nat, writes : Nat, clash : BOOLEAN]]
      /\ u \in Targets /\ calls \in [Calls -> {None} \cup CallOf(menu)]
      /\ users'[u] \in Personas \cup {None}
  BY WorldTypes DEF Base, TypeOK, Targets
<1>2. ASSUME NEW c \in Calls, Receive(c)
      PROVE  \/ users'[u] = users[u]
             \/ users[u] = None /\ users'[u] # None
  <2>1. calls[c].cmd.target \in Users
    BY <1>2, CallTypes DEF Base, Receive, At
  <2> QED BY <1>1, <1>2, <2>1, NoCall DEF Receive
<1>3. ASSUME NEW c \in Calls, ApplyPersona(c)
      PROVE  \/ users'[u] = users[u] /\ mark'[u] = mark[u]
             \/ /\ users[u] # None /\ users'[u] # None
                /\ mark'[u].token = mark[u].token + 1
  <2>1. calls[c].cmd.target \in Users
    BY <1>3, CallTypes DEF Base, ApplyPersona, At
  <2>2. CASE ~PersonaFits(c) \/ calls[c].cmd.target # u
    BY <1>1, <1>3, <2>1, <2>2 DEF ApplyPersona, Marked, Targets
  <2>3. CASE PersonaFits(c) /\ calls[c].cmd.target = u
    <3>1. users[u] # None /\ users'[u] = Persona(users[u], calls[c].cmd)
      BY <1>1, <1>3, <2>3 DEF ApplyPersona, PersonaFits
    <3>2. mark'[u].token = mark[u].token + 1
      BY <1>1, <1>3, <2>3 DEF ApplyPersona, Marked, NextToken
    <3>3. Persona(users[u], calls[c].cmd) \in Personas
      BY <1>1, <1>3, <3>1, CallTypes, PersonaTypes DEF Base, ApplyPersona, At
    <3> QED BY <3>1, <3>2, <3>3, NoCall
  <2> QED BY <2>2, <2>3
<1>4. ASSUME NEW c \in Calls, ApplyPatch(c) PROVE mark'[u] = mark[u]
  <2>1. calls[c].cmd.target # u
    BY <1>4, CallTypes, Apart DEF Base, ApplyPatch, At
  <2> QED BY <1>1, <1>4, <2>1 DEF ApplyPatch, Marked
<1>5. ASSUME NEW c \in Calls, ApplyMaster(c) PROVE mark'[u] = mark[u]
  <2>1. calls[c].cmd.target # u
    BY <1>5, CallTypes, Apart DEF Base, ApplyMaster, At
  <2> QED BY <1>1, <1>5, <2>1 DEF ApplyMaster, Marked
<1>6. \/ users'[u] = users[u]
      \/ users[u] = None /\ users'[u] # None /\ mark'[u] = mark[u]
      \/ \E c \in Calls : ApplyPersona(c)
  BY <1>2, Writers DEF Owners, Receive
<1>7. mark'[u] = mark[u] \/ \E c \in Calls : ApplyPersona(c)
  BY <1>4, <1>5, Writers DEF Owners
<1> QED BY <1>3, <1>6, <1>7

\* A call that looks back on a row goes on doing so while it only waits.
LEMMA StillLooksBack ==
    ASSUME Base, TokensInOrder, RowsAsLoaded, [Next]_vars, NEW c \in Calls,
           calls[c] # None, Kind(c) = "identity", LooksBack(c),
           calls'[c].cmd = calls[c].cmd, calls'[c].token = calls[c].token,
           calls'[c].snap = calls[c].snap
    PROVE  LooksBack(c)'
<1> DEFINE u == calls[c].cmd.target
<1>1. u \in Users /\ u \in Targets
  BY CallTypes DEF Base, Targets
<1>2. mark[u].token \in Nat /\ calls[c].token \in Nat
  BY <1>1 DEF Base, TypeOK, CallOf
<1>3. calls[c].token <= mark[u].token
  BY <1>1 DEF TokensInOrder, Follows
<1>4. CASE users'[u] = users[u] /\ mark'[u] = mark[u]
  BY <1>4 DEF LooksBack
<1>5. CASE users[u] = None /\ users'[u] # None /\ mark'[u] = mark[u]
  <2>1. calls[c].snap = None /\ mark[u].writes = 0
    BY <1>1, <1>5 DEF LooksBack, RowsAsLoaded
  <2> QED BY <1>5, <2>1 DEF LooksBack
<1>6. CASE users'[u] # None /\ mark'[u].token = mark[u].token + 1
  <2>1. mark'[u].token # calls[c].token
    BY <1>2, <1>3, <1>6
  <2> QED BY <1>6, <2>1 DEF LooksBack
<1> QED BY <1>1, <1>4, <1>5, <1>6, RowSteps

\* A load sees the row that is there; afterwards only the token keeps it there.
LEMMA NextRows ==
    ASSUME Base, TokensInOrder, RowsAsLoaded, [Next]_vars
    PROVE  RowsAsLoaded'
<1>1. \A u \in Users : users'[u] = None => mark'[u].writes = 0
  BY RowSteps DEF RowsAsLoaded
<1>2. ASSUME NEW c \in Calls, calls'[c] # None, Kind(c)' = "identity",
             calls'[c].pc \in {"loaded", "intended"}
      PROVE  LooksBack(c)'
  <2>1. CASE calls'[c] = calls[c]
    BY <1>2, <2>1, StillLooksBack DEF RowsAsLoaded, Kind
  <2>2. CASE Fresh(c)
    BY <1>2, <2>2 DEF Fresh
  <2>3. CASE Kept(c) /\ Path(c)
    <3>1. /\ calls[c] # None /\ Kind(c) = "identity"
          /\ calls'[c].cmd = calls[c].cmd /\ calls'[c].token = calls[c].token
      BY <1>2, <2>3 DEF Kept, Kind
    <3>2. CASE calls'[c].pc = "intended"
      <4>1. calls[c].pc = "loaded" /\ calls'[c].snap = calls[c].snap
        BY <2>3, <3>1, <3>2 DEF Path
      <4> QED BY <3>1, <4>1, StillLooksBack DEF RowsAsLoaded
    <3>3. CASE calls'[c].pc = "loaded"
      <4>1. LoadPersona(c)
        BY <2>3, <3>1, <3>3 DEF Path
      <4>2. calls \in [Calls -> {None} \cup CallOf(menu)] /\ calls[c] \in CallOf(menu)
        BY <3>1 DEF Base, TypeOK
      <4>3. calls'[c].snap = users[calls[c].cmd.target] /\ UNCHANGED <<users, mark>>
        BY <4>1, <4>2 DEF LoadPersona, World, CallOf
      <4>4. IF users[calls[c].cmd.target] = None THEN calls[c].cmd.action = "create_persona"
            ELSE Expected(calls[c].cmd, users[calls[c].cmd.target])
        BY <3>3, <4>1, <4>2 DEF LoadPersona, CallOf
      <4> QED BY <3>1, <4>3, <4>4 DEF LooksBack
    <3> QED BY <1>2, <3>2, <3>3
  <2> QED BY <2>1, <2>2, <2>3, OneCall DEF Base, Fresh, Kept
<1> QED BY <1>1, <1>2 DEF RowsAsLoaded

-----------------------------------------------------------------------------
(* A notice goes out once.                                                 *)

\* The sending of notices is where it was; a call that has created a panel
\* notification stays there unless its port rejects.
Untouched ==
    /\ UNCHANGED <<recent, noted, pushed>>
    /\ \A c \in Calls : calls[c] # None =>
         /\ calls'[c] # None /\ calls'[c].cmd = calls[c].cmd
         /\ calls[c].rejected => calls'[c].rejected
         /\ calls[c].pc = "created" => calls'[c].pc = "created" \/ calls'[c].rejected
    /\ \A c \in Calls : Holds(c)' => Holds(c) /\ calls'[c].pc = calls[c].pc

\* One of the three steps of a send: the claim, the creation, the delivery.
Sends(c) ==
    LET n == calls[c].cmd.target IN
    /\ Kept(c) /\ n = calls'[c].cmd.target
    /\ \/ /\ Kind(c) = "compose" /\ calls[c].pc = "intended" /\ calls'[c].pc = "composed"
          /\ n \notin recent /\ recent' = recent \cup {n}
          /\ UNCHANGED <<noted, pushed>>
       \/ /\ calls[c].pc = "composed" /\ calls'[c].pc = "created"
          /\ noted' = [noted EXCEPT ![n] = @ + 1]
          /\ UNCHANGED <<recent, pushed>>
       \/ /\ calls[c].pc = "created" /\ calls'[c].pc = "written"
          /\ pushed' = [pushed EXCEPT ![n] = @ + 1]
          /\ UNCHANGED <<recent, noted>>

\* Every step is one of the three or touches nothing of the sending.
LEMMA SendSteps ==
    ASSUME Base, [Next]_vars
    PROVE  Untouched \/ \E c \in Calls : Sends(c)
<1>1. calls \in [Calls -> {None} \cup CallOf(menu)] /\ TypeOK
  BY DEF Base, TypeOK
<1>2. ASSUME NEW c \in Calls, Kept(c), Path(c), ~Compose(c), ~CreatePanelNotification(c),
             ~Deliver(c), UNCHANGED <<recent, noted, pushed>>
      PROVE  Untouched
  BY <1>1, <1>2 DEF Untouched, Kept, Path, Holds
<1>3. ASSUME NEW c \in Calls, Compose(c), Kept(c), Path(c) PROVE Untouched \/ Sends(c)
  <2>1. CASE calls'[c].pc = "composed"
    BY <1>1, <1>3, <2>1 DEF Compose, Claims, Goes, At, Sends, Kept, CallOf
  <2>2. CASE calls'[c].pc # "composed"
    BY <1>1, <1>3, <2>2 DEF Compose, Goes, At, Untouched, Kept, CallOf, Holds
  <2> QED BY <2>1, <2>2
<1>4. ASSUME NEW c \in Calls, CreatePanelNotification(c), Kept(c) PROVE Sends(c)
  BY <1>1, <1>4 DEF CreatePanelNotification, At, Sends, Kept, CallOf, Holds
<1>5. ASSUME NEW c \in Calls, Deliver(c), Kept(c) PROVE Sends(c)
  BY <1>1, <1>5 DEF Deliver, Goes, At, Sends, Kept, CallOf, Holds
<1>6. ASSUME NEW c \in Calls, Fresh(c), Send(c) PROVE Untouched
  BY <1>1, <1>6 DEF Untouched, Fresh, Holds, Send
<1>7. ASSUME Tick \/ UNCHANGED vars PROVE Untouched
  BY <1>7 DEF Tick, vars, World, Untouched, Holds
<1>8. ASSUME NEW c \in Calls, Own(c), ~Compose(c), ~CreatePanelNotification(c), ~Deliver(c)
      PROVE  UNCHANGED <<recent, noted, pushed>>
  BY <1>8 DEF Own, World, Lookup, RecordIntent, RecordResult, Put, Receive, LoadPersona, ApplyPersona,
     RecordFailure, LoadTicket, ApplyPatch, MarkRead, ApplyMaster, PortRejects
<1>9. ASSUME NEW c \in Calls, Own(c) PROVE Untouched \/ Sends(c)
  BY <1>1, <1>2, <1>3, <1>4, <1>5, <1>8, <1>9, OwnKeeps, Paths
<1>10. \/ Tick \/ UNCHANGED vars
       \/ \E c \in Calls : Send(c) \/ Own(c)
  BY DEF Next, Own
<1> QED BY <1>1, <1>6, <1>7, <1>9, <1>10, SendStarts

\* The claim makes a call the only sender of its notice, until it has delivered it.
LEMMA NextSender == ASSUME Base, OneSender, [Next]_vars PROVE OneSender'
<1>1. CASE Untouched
  <2>1. \A c \in Calls : Holds(c)' => Holds(c) /\ calls'[c].cmd = calls[c].cmd
                                            /\ calls'[c].pc = calls[c].pc
    BY <1>1 DEF Untouched, Holds
  <2> QED BY <1>1, <2>1 DEF Untouched, OneSender, Kind
<1>2. ASSUME NEW c \in Calls, Sends(c) PROVE OneSender'
  <2> DEFINE n == calls[c].cmd.target
  <2>1. /\ \A d \in Calls : d # c => calls'[d] = calls[d]
        /\ calls'[c].cmd = calls[c].cmd /\ calls'[c] # None /\ calls[c] # None
    BY <1>2 DEF Sends, Kept
  <2>2. /\ recent \subseteq Notices
        /\ noted \in [Notices -> Nat] /\ pushed \in [Notices -> Nat]
    BY DEF Base, TypeOK
  <2>3. \A d \in Calls : Holds(d) => calls[d].cmd.target \in Notices
    BY CallTypes DEF Base, OneSender, Holds
  <2>4. CASE /\ Kind(c) = "compose" /\ calls[c].pc = "intended" /\ calls'[c].pc = "composed"
             /\ n \notin recent /\ recent' = recent \cup {n}
             /\ UNCHANGED <<noted, pushed>>
    <3>1. n \in Notices
      BY <2>1, <2>4, CallTypes DEF Base
    <3>2. \A d \in Calls : Holds(d) => calls[d].cmd.target # n
      BY <2>4 DEF OneSender
    <3>3. noted[n] = 0 /\ pushed[n] = 0
      BY <2>4, <3>1 DEF OneSender
    <3> QED BY <2>1, <2>4, <3>2, <3>3 DEF OneSender, Holds, Kind
  <2>5. CASE /\ calls[c].pc = "composed" /\ calls'[c].pc = "created"
             /\ noted' = [noted EXCEPT ![n] = @ + 1]
             /\ UNCHANGED <<recent, pushed>>
    <3>1. Holds(c) /\ n \in Notices
      BY <2>1, <2>3, <2>5 DEF Holds
    <3>2. noted[n] = 0 /\ noted'[n] = 1 /\ \A k \in Notices : k # n => noted'[k] = noted[k]
      BY <2>2, <2>5, <3>1 DEF OneSender
    <3>3. \A d \in Calls : Holds(d)' <=> Holds(d)
      BY <2>1, <2>5 DEF Holds
    <3>4. \A d \in Calls : d # c /\ Holds(d) => calls[d].cmd.target # n
      BY <3>1 DEF OneSender
    <3>5. n \in recent
      BY <3>1 DEF OneSender
    <3> QED BY <2>1, <2>3, <2>5, <3>1, <3>2, <3>3, <3>4, <3>5 DEF OneSender, Kind
  <2>6. CASE /\ calls[c].pc = "created" /\ calls'[c].pc = "written"
             /\ pushed' = [pushed EXCEPT ![n] = @ + 1]
             /\ UNCHANGED <<recent, noted>>
    <3>1. Holds(c) /\ n \in Notices
      BY <2>1, <2>3, <2>6 DEF Holds
    <3>2. \A k \in Notices : k # n => pushed'[k] = pushed[k]
      BY <2>2, <2>6
    <3>3. \A d \in Calls : Holds(d)' => Holds(d) /\ d # c
      BY <2>1, <2>6 DEF Holds
    <3>4. \A d \in Calls : d # c /\ Holds(d) => calls[d].cmd.target # n
      BY <3>1 DEF OneSender
    <3>5. n \in recent
      BY <3>1 DEF OneSender
    <3> QED BY <2>1, <2>3, <2>6, <3>1, <3>2, <3>3, <3>4, <3>5 DEF OneSender, Kind
  <2> QED BY <1>2, <2>4, <2>5, <2>6 DEF Sends
<1> QED BY <1>1, <1>2, SendSteps

\* At most one panel notification and one delivery, and a gap has a call behind it.
LEMMA NextAnnounced == ASSUME Base, OneSender, AnnouncedOnce, [Next]_vars PROVE AnnouncedOnce'
<1> DEFINE Behind(c, n) == /\ calls[c] # None /\ calls[c].cmd.target = n
                           /\ calls[c].pc = "created" \/ calls[c].rejected
<1>1. CASE Untouched
  <2> SUFFICES ASSUME NEW n \in Notices
               PROVE  /\ noted'[n] <= 1 /\ pushed'[n] <= noted'[n]
                      /\ noted'[n] > pushed'[n] => \E c \in Calls : Behind(c, n)'
    BY DEF AnnouncedOnce
  <2>1. \A c \in Calls : Behind(c, n) => Behind(c, n)'
    BY <1>1 DEF Untouched
  <2> QED BY <1>1, <2>1 DEF Untouched, AnnouncedOnce
<1>2. ASSUME NEW c \in Calls, Sends(c) PROVE AnnouncedOnce'
  <2> DEFINE n == calls[c].cmd.target
  <2>1. /\ \A d \in Calls : d # c => calls'[d] = calls[d]
        /\ calls'[c].cmd = calls[c].cmd /\ calls'[c] # None /\ calls[c] # None
        /\ calls[c].rejected => calls'[c].rejected
    BY <1>2 DEF Sends, Kept
  <2>2. noted \in [Notices -> Nat] /\ pushed \in [Notices -> Nat]
    BY DEF Base, TypeOK
  <2> SUFFICES ASSUME NEW k \in Notices
               PROVE  /\ noted'[k] <= 1 /\ pushed'[k] <= noted'[k]
                      /\ noted'[k] > pushed'[k] => \E d \in Calls : Behind(d, k)'
    BY DEF AnnouncedOnce
  <2>3. \A d \in Calls : d # c /\ Behind(d, k) => Behind(d, k)'
    BY <2>1
  <2>4. /\ noted[k] <= 1 /\ pushed[k] <= noted[k]
        /\ noted[k] > pushed[k] => \E d \in Calls : Behind(d, k)
    BY DEF AnnouncedOnce
  <2>5. CASE calls[c].pc = "intended" /\ UNCHANGED <<noted, pushed>>
    BY <2>1, <2>3, <2>4, <2>5
  <2>6. CASE /\ calls[c].pc = "composed" /\ calls'[c].pc = "created"
             /\ noted' = [noted EXCEPT ![n] = @ + 1]
             /\ UNCHANGED pushed
    <3>1. Holds(c)
      BY <2>1, <2>6 DEF Holds
    <3>2. CASE k = n
      <4>1. noted[n] = 0 /\ pushed[n] = 0
        BY <2>6, <3>1 DEF OneSender
      <4>2. Behind(c, k)'
        BY <2>1, <2>6, <3>2
      <4> QED BY <2>2, <2>6, <3>2, <4>1, <4>2
    <3>3. CASE k # n
      BY <2>1, <2>2, <2>3, <2>4, <2>6, <3>3
    <3> QED BY <3>2, <3>3
  <2>7. CASE /\ calls[c].pc = "created"
             /\ pushed' = [pushed EXCEPT ![n] = @ + 1]
             /\ UNCHANGED noted
    <3>1. Holds(c)
      BY <2>1, <2>7 DEF Holds
    <3>2. CASE k = n
      <4>1. noted[n] = 1 /\ pushed[n] = 0
        BY <2>7, <3>1 DEF OneSender
      <4> QED BY <2>2, <2>7, <3>2, <4>1
    <3>3. CASE k # n
      BY <2>1, <2>2, <2>3, <2>4, <2>7, <3>3
    <3> QED BY <3>2, <3>3
  <2> QED BY <1>2, <2>5, <2>6, <2>7 DEF Sends
<1> QED BY <1>1, <1>2, SendSteps

-----------------------------------------------------------------------------
(* A settled key writes once.                                              *)

\* An answer on record stays there, and a late call stops at it.
LEMMA NextKeys == ASSUME Base, KeysSettle, [Next]_vars PROVE KeysSettle'
<1>1. /\ replies \in [Replayable -> SUBSET Keys]
      /\ calls \in [Calls -> {None} \cup CallOf(menu)]
  BY DEF Base, TypeOK
<1>2. \A kind \in Replayable : replies[kind] \subseteq replies'[kind]
  <2>1. ASSUME NEW c \in Calls, Put(c) PROVE \A kind \in Replayable : replies[kind] \subseteq replies'[kind]
    BY <1>1, <2>1 DEF Put
  <2> QED BY <2>1, Writers DEF Owners
<1> SUFFICES ASSUME NEW c \in Calls, calls'[c] # None
             PROVE  /\ Kind(c)' \in Replayable /\ calls'[c].pc = "applied" => Answered(c)'
                    /\ calls'[c].late =>
                         /\ Kind(c)' \in Replayable /\ Answered(c)' /\ ~calls'[c].effect
                         /\ calls'[c].pc \in {"sent", "received", "denied", "failing", "failed", "idempotent_replay"}
                              \cup (IF Kind(c)' = "support" THEN {"loaded"} ELSE {})
  BY DEF KeysSettle
<1>3. CASE calls'[c] = calls[c]
  BY <1>2, <1>3 DEF KeysSettle, Kind, Answered
<1>4. CASE Fresh(c)
  BY <1>2, <1>4 DEF KeysSettle, Kind, Answered, Fresh
<1>5. CASE Kept(c) /\ Path(c)
  <2>1. /\ Kind(c)' = Kind(c) /\ calls[c] # None
        /\ Kind(c) \in Replayable /\ Answered(c) => Answered(c)'
    BY <1>2, <1>5 DEF Kind, Answered, Kept
  <2>2. Kind(c) \in Replayable /\ calls'[c].pc = "applied" => Answered(c)'
    <3>1. CASE Put(c)
      BY <1>1, <1>5, <2>1, <3>1 DEF Put, Answered, Kept, Kind
    <3>2. CASE Kind(c) = "master"
      BY <3>2 DEF Replayable
    <3> QED BY <1>5, <3>1, <3>2 DEF Path
  <2>3. CASE calls[c].late
    <3>1. /\ Kind(c) \in Replayable /\ Answered(c) /\ ~calls[c].effect
          /\ calls[c].pc \in {"sent", "received", "denied", "failing", "failed", "idempotent_replay"}
               \cup (IF Kind(c) = "support" THEN {"loaded"} ELSE {})
      BY <2>1, <2>3 DEF KeysSettle
    <3>2. Kind(c) # "master"
      BY <3>1 DEF Replayable
    <3>3. calls'[c].pc \in Stages
      BY <1>5 DEF Kept, CallOf
    <3>4. /\ calls'[c].pc = "composed" => calls[c].pc = "intended"
          /\ calls'[c].pc = "created" => calls[c].pc = "composed"
          /\ calls'[c].pc = "applied" => calls[c].pc = "recorded"
          /\ calls'[c].pc = "loaded" => calls[c].pc = "looked" \/ Kind(c) = "support"
      BY <1>5, <3>2 DEF Path, Compose, CreatePanelNotification, Put, LoadPersona, At
    <3>5. calls'[c].pc \in {"sent", "received", "denied", "failing", "failed", "idempotent_replay"}
             \cup (IF Kind(c) = "support" THEN {"loaded"} ELSE {})
      BY <1>5, <3>1, <3>2, <3>3, <3>4 DEF Path, Stages, Ready, Outcomes
    <3>6. ~calls'[c].effect
      BY <1>5, <3>1, <3>2 DEF Path
    <3> QED BY <1>5, <2>1, <2>2, <3>1, <3>5, <3>6
  <2>4. CASE ~calls[c].late
    BY <1>5, <2>2, <2>1, <2>4 DEF Kept
  <2> QED BY <2>3, <2>4
<1> QED BY <1>3, <1>4, <1>5, OneCall DEF Base, Fresh, Kept

-----------------------------------------------------------------------------
(* The inductive invariant and what follows from it.                       *)

\* The empty panel satisfies the invariant.
LEMMA InitAll == Init => Inductive
<1> SUFFICES ASSUME Init PROVE Inductive
  OBVIOUS
<1>1. TypeOK
  BY DEF Init, Unwritten, TypeOK, TicketStatus, Targets
<1>2. StatusesFit
  BY DEF Init, StatusesFit
<1>3. RowsAsLoaded
  BY DEF Init, Unwritten, RowsAsLoaded, Targets
<1>4. TokensInOrder /\ NoBlindWrite
  BY DEF Init, Unwritten, TokensInOrder, Follows, NoBlindWrite, Targets
<1>5. OneSender /\ AnnouncedOnce
  BY DEF Init, OneSender, Holds, AnnouncedOnce
<1>6. KeysSettle
  BY DEF Init, KeysSettle
<1> QED BY <1>1, <1>2, <1>3, <1>4, <1>5, <1>6 DEF Inductive, Base

\* Every step of every call keeps it.
LEMMA NextAll == ASSUME Inductive, [Next]_vars PROVE Inductive'
BY NextBase, NextRows, NextTokens, NextSender, NextAnnounced, NextKeys
   DEF Inductive

\* The strengthened invariant holds for any panel, any menu and any number of calls.
THEOREM InductiveHolds == Spec => []Inductive
BY InitAll, NextAll, PTL DEF Spec

\* Every variable keeps its type.
THEOREM TypesHold == Spec => []TypeOK
<1>1. Inductive => TypeOK
  BY DEF Inductive, Base
<1> QED BY <1>1, InductiveHolds, PTL

\* A persona write replaces the row it was authorised on, in the role and standing its
\* client claimed, but for a creation that races the first mention of its user (the
\* token compared again in FakeIdentityWriteRepository.apply()).
THEOREM PersonasAsAuthorized == Spec => ReplacesWhatWasAuthorized
<1>1. ASSUME Inductive, [Next]_vars, NEW c \in Calls, WritesPersona(c)
      PROVE  AsAuthorized(c)
  <2>1. calls[c] # None /\ calls[c].pc = "intended" /\ Kind(c) = "identity"
    BY <1>1 DEF WritesPersona, At
  <2>2. LooksBack(c)
    BY <1>1, <2>1 DEF Inductive, RowsAsLoaded
  <2>3. PersonaFits(c)
    BY <1>1, <2>1, Fitting DEF Inductive, WritesPersona
  <2> QED BY <2>2, <2>3 DEF LooksBack, PersonaFits, AsAuthorized
<1>2. Inductive /\ [Next]_vars =>
          [\A c \in Calls : WritesPersona(c) => AsAuthorized(c)]_vars
  BY <1>1
<1> QED BY <1>2, InductiveHolds, PTL DEF Spec, ReplacesWhatWasAuthorized

\* Nothing unseen is overwritten unless two writes of one millisecond left one token
\* (the token checks of the Fake repositories' apply()).
THEOREM NothingBlind == Spec => []NoBlindWrite
<1>1. Inductive => NoBlindWrite
  BY DEF Inductive
<1> QED BY <1>1, InductiveHolds, PTL

\* A title goes to an audience at most once (recentSendKeys, tested and filled
\* without an await in between).
THEOREM Announcements == Spec => []AnnouncedOnce
<1>1. Inductive => AnnouncedOnce
  BY DEF Inductive
<1> QED BY <1>1, InductiveHolds, PTL

\* A key answered "applied" writes nothing any more on its route.
THEOREM SettledKeys == Spec => []SettledKeyWritesOnce
<1>1. Inductive => SettledKeyWritesOnce
  BY DEF Inductive, KeysSettle, SettledKeyWritesOnce
<1> QED BY <1>1, InductiveHolds, PTL
=============================================================================
