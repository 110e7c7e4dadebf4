---------------------------- MODULE ConfigStore ----------------------------
(***************************************************************************)
(* The dynamic configuration: one document per room and one for the bot,   *)
(* kept in Matrix account data and changed by chat commands.               *)
(*                                                                         *)
(* A message handler (src/bot/messaging.rs) reads both documents, decides  *)
(* from that copy whether the sender may use the command and whether the   *)
(* command makes sense, and persists a changed copy.  Handlers of several  *)
(* messages overlap; the manager's mutex covers one read or one write, so  *)
(* what happens between two awaits is one step here.  Which agent serves a *)
(* purpose is in Settings.                                                 *)
(***************************************************************************)
EXTENDS Naturals, FiniteSets

CONSTANTS
  Commands,         \* one per message that carries a command
  Rooms, Users,
  Admins,           \* the static access.admin_patterns
  StaticAgents,     \* the static agents.static_definitions
  Names,            \* agent ids without their prefix
  Purposes,         \* what a handler is configured for, with "catch-all"
  Values,           \* values of the other settings
  CommandsAdminOnly,\* the static access.commands_admin_only
  None

ASSUME PurposeAssumption == "catch-all" \in Purposes
ASSUME AdminAssumption == Admins \subseteq Users
ASSUME NoneAssumption == None \notin Commands

VARIABLES
  room,       \* the stored document of each room
  global,     \* the stored global document
  cmd,        \* what each command asks, who sent it and where
  pc,         \* the await its handler is at, or how it ended
  copy,       \* the documents its handler read
  overlapped  \* history: the handlers whose copy was overtaken by another write

vars == <<room, global, cmd, pc, copy, overlapped>>

Identifiers ==
  [kind : {"static"}, id : StaticAgents] \cup [kind : {"global", "room-local"}, id : Names]

Handlers == [Purposes -> Identifiers \cup {None}]
Settings == [handler : Handlers, value : Values \cup {None}]
RoomConfigs   == [settings : Settings, agents : SUBSET Names]
GlobalConfigs == [settings : Settings, agents : SUBSET Names,
                  users : SUBSET Users, managers : SUBSET Users]

Scopes == {"room", "global"}
Operations ==
  [op : {"set_value"}, scope : Scopes, value : Values \cup {None}]
    \cup [op : {"set_handler"}, scope : Scopes, purpose : Purposes, agent : Identifiers \cup {None}]
    \cup [op : {"create"}, scope : Scopes, id : Names]
    \cup [op : {"delete"}, agent : Identifiers]
    \cup [op : {"set_users", "set_managers"}, patterns : SUBSET Users]

Requests == [do : Operations, sender : Users, room : Rooms]

TypeOK ==
  /\ room \in [Rooms -> RoomConfigs]
  /\ global \in GlobalConfigs
  /\ cmd \in [Commands -> Requests \cup {None}]
  /\ pc \in [Commands -> {"idle", "read", "ping", "persist", "reread", "write", "done",
                           "lost", "ignored", "refused", "guided", "failed"}]
  /\ copy \in [Commands -> [global : GlobalConfigs, room : RoomConfigs] \cup {None}]
  /\ overlapped \subseteq Commands
  /\ \A p \in Purposes :
       global.settings.handler[p] # None => global.settings.handler[p].kind # "room-local"

Unset == [p \in Purposes |-> None]
NewRoomConfig(v) == [settings |-> [handler |-> Unset, value |-> v], agents |-> {}]

Init ==
  /\ room \in [Rooms -> {NewRoomConfig(v) : v \in Values}]
  /\ \E users \in SUBSET Users :
       global = [settings |-> [handler |-> Unset, value |-> None], agents |-> {},
                 users |-> users, managers |-> {}]
  /\ cmd = [c \in Commands |-> None]
  /\ pc = [c \in Commands |-> "idle"]
  /\ copy = [c \in Commands |-> None]
  /\ overlapped = {}

-----------------------------------------------------------------------------
(* Agents.                                                                 *)

AvailableAgents(g, r) ==
  [kind : {"static"}, id : StaticAgents]
    \cup [kind : {"global"}, id : g.agents]
    \cup [kind : {"room-local"}, id : r.agents]

-----------------------------------------------------------------------------
(* A command arrives: its handler reads the documents and checks the       *)
(* command against its copy.                                               *)

ScopeOf(do) ==
  CASE do.op \in {"set_value", "set_handler", "create"} -> do.scope
    [] do.op = "delete" -> IF do.agent.kind = "room-local" THEN "room" ELSE "global"
    [] OTHER -> "global"

IsAdmin(c) == cmd[c].sender \in Admins
IsUser(c, g) == IsAdmin(c) \/ cmd[c].sender \in g.users
CanManageRoomLocalAgents(c, g) == IsAdmin(c) \/ cmd[c].sender \in g.managers

\* Faulty variant: the agent checks of a room are taken for every operation.
Permitted_RoomChecksOnly(c, g) ==
  cmd[c].do.op \in {"create", "delete"} => CanManageRoomLocalAgents(c, g)

Permitted(c, g) ==
  LET do == cmd[c].do IN
  IF ScopeOf(do) = "global" THEN IsAdmin(c)
  ELSE do.op \in {"create", "delete"} => CanManageRoomLocalAgents(c, g)

\* Faulty variant: a room's agents may serve every room.
MakesSense_AnyAgentGlobally(do, g, r) ==
  LET available == AvailableAgents(g, r) IN
  CASE do.op = "set_handler" -> do.agent # None => do.agent \in available
    [] do.op = "create" ->
         [kind |-> IF do.scope = "room" THEN "room-local" ELSE "global", id |-> do.id] \notin available
    [] do.op = "delete" -> do.agent \in available /\ do.agent.kind # "static"
    [] OTHER -> TRUE

\* Faulty variant: a handler may be set to an agent that is not there.
MakesSense_AnyHandler(do, g, r) ==
  LET available == AvailableAgents(g, r) IN
  CASE do.op = "set_handler" ->
         do.agent # None /\ do.scope = "global" => do.agent.kind # "room-local"
    [] do.op = "create" ->
         [kind |-> IF do.scope = "room" THEN "room-local" ELSE "global", id |-> do.id] \notin available
    [] do.op = "delete" -> do.agent \in available /\ do.agent.kind # "static"
    [] OTHER -> TRUE

MakesSense(do, g, r) ==
  LET available == AvailableAgents(g, r) IN
  CASE do.op = "set_handler" ->
         do.agent # None =>
           /\ do.agent \in available
           /\ do.scope = "global" => do.agent.kind # "room-local"
    [] do.op = "create" ->
         [kind |-> IF do.scope = "room" THEN "room-local" ELSE "global", id |-> do.id] \notin available
    [] do.op = "delete" -> do.agent \in available /\ do.agent.kind # "static"
    [] OTHER -> TRUE

\* on_actionable_message: the first await that touches the configuration.
Receive(c, request) ==
  /\ pc[c] = "idle"
  /\ cmd' = [cmd EXCEPT ![c] = request]
  /\ copy' = [copy EXCEPT ![c] = [global |-> global, room |-> room[request.room]]]
  /\ pc' = [pc EXCEPT ![c] = "read"]
  /\ UNCHANGED <<room, global, overlapped>>

\* The read of the room's document, the access check, and the controller up
\* to its first await that matters.
ReadRoom(c) ==
  LET g == copy[c].global
      r == room[cmd[c].room]
      do == cmd[c].do
  IN
  /\ pc[c] = "read"
  /\ copy' = [copy EXCEPT ![c].room = r]
  /\ \/ ~IsUser(c, g) /\ pc' = [pc EXCEPT ![c] = "ignored"]
     \/ /\ IsUser(c, g) /\ CommandsAdminOnly /\ ~IsAdmin(c)
        /\ pc' = [pc EXCEPT ![c] = "ignored"]
     \/ /\ IsUser(c, g) /\ (CommandsAdminOnly => IsAdmin(c))
        /\ ~(Permitted(c, g) /\ MakesSense(do, g, r))
        /\ pc' = [pc EXCEPT ![c] = "refused"]
     \/ /\ IsUser(c, g) /\ (CommandsAdminOnly => IsAdmin(c))
        /\ Permitted(c, g) /\ MakesSense(do, g, r)
        /\ pc' = [pc EXCEPT ![c] =
             IF do.op = "create" THEN "ping"
             ELSE IF do.op = "set_handler" /\ do.scope = "global" THEN "reread"
             ELSE IF do.op \in {"set_users", "set_managers"} THEN "write"
             ELSE "persist"]
  /\ UNCHANGED <<room, global, cmd, overlapped>>

\* The first message of the thread is answered with a guide; the second holds
\* the agent's configuration, which may be malformed or not answer the ping.
PingAgent(c) ==
  /\ pc[c] = "ping"
  /\ \E answer \in {"guided", "refused", "persist"} : pc' = [pc EXCEPT ![c] = answer]
  /\ UNCHANGED <<room, global, cmd, copy, overlapped>>

-----------------------------------------------------------------------------
(* Persisting.                                                             *)

\* What the operation does to a document.
Apply(do, config) ==
  CASE do.op = "set_value"    -> [config EXCEPT !.settings.value = do.value]
    [] do.op = "set_handler"  -> [config EXCEPT !.settings.handler[do.purpose] = do.agent]
    [] do.op = "create"       -> [config EXCEPT !.agents = @ \cup {do.id}]
    [] do.op = "delete"       -> [config EXCEPT !.agents = @ \ {do.agent.id}]
    [] do.op = "set_users"    -> [config EXCEPT !.users = do.patterns]
    [] do.op = "set_managers" -> [config EXCEPT !.managers = do.patterns]

HoldsCopyOf(d, scope, r) ==
  /\ pc[d] \in {"read", "ping", "persist", "reread"}
  /\ scope = "room" => cmd[d].room = r
  /\ scope = ScopeOf(cmd[d].do)

Overtake(c, scope, r) ==
  overlapped' = overlapped \cup {d \in Commands \ {c} : HoldsCopyOf(d, scope, r)}

\* Faulty variant: the room's document is looked up by the sender's last room.
PersistRoom_AnyRoom(c, config) ==
  /\ \E r \in Rooms : room' = [room EXCEPT ![r] = config]
  /\ UNCHANGED global

PersistRoom(c, config) ==
  /\ room' = [room EXCEPT ![cmd[c].room] = config]
  /\ UNCHANGED global

PersistGlobal(config) ==
  /\ global' = config
  /\ UNCHANGED room

\* The write succeeds; or only its answer is lost, and the user is told that
\* the message could not be processed.
Written == {"done", "lost"}
Answer(c) == \E outcome \in Written : pc' = [pc EXCEPT ![c] = outcome]

\* Faulty variant: the document starts from its defaults.
Persist_FromDefaults(c) ==
  LET do == cmd[c].do
      scope == ScopeOf(do)
  IN
  /\ pc[c] = "persist"
  /\ IF scope = "room"
     THEN PersistRoom(c, Apply(do, NewRoomConfig(None)))
     ELSE PersistGlobal(Apply(do, copy[c].global))
  /\ Overtake(c, scope, cmd[c].room)
  /\ Answer(c)
  /\ UNCHANGED <<cmd, copy>>

\* A changed copy of the document as it was when the message arrived.
Persist(c) ==
  LET do == cmd[c].do
      scope == ScopeOf(do)
  IN
  /\ pc[c] = "persist"
  /\ IF scope = "room"
     THEN PersistRoom(c, Apply(do, copy[c].room))
     ELSE PersistGlobal(Apply(do, copy[c].global))
  /\ Overtake(c, scope, cmd[c].room)
  /\ Answer(c)
  /\ UNCHANGED <<cmd, copy>>

\* `config global set-handler' reads the document again before it persists.
Reread(c) ==
  /\ pc[c] = "reread"
  /\ copy' = [copy EXCEPT ![c].global = global]
  /\ overlapped' = overlapped \ {c}
  /\ pc' = [pc EXCEPT ![c] = "persist"]
  /\ UNCHANGED <<room, global, cmd>>

\* `access set-...' reads and persists under one lock.
ReadAndPersist(c) ==
  /\ pc[c] = "write"
  /\ PersistGlobal(Apply(cmd[c].do, global))
  /\ Overtake(c, "global", cmd[c].room)
  /\ Answer(c)
  /\ UNCHANGED <<cmd, copy>>

\* Account data could not be read, or was not written: the user is told that
\* the message could not be processed.
ConfigFails(c) ==
  /\ pc[c] \in {"read", "persist", "reread", "write"}
  /\ pc' = [pc EXCEPT ![c] = "failed"]
  /\ UNCHANGED <<room, global, cmd, copy, overlapped>>

\* on_joined: a room's configuration is created anew when the bot joins; the
\* number of members decides its prefix requirement.
Joined(r) ==
  /\ \E v \in Values : room' = [room EXCEPT ![r] = NewRoomConfig(v)]
  /\ Overtake(None, "room", r)
  /\ UNCHANGED <<global, cmd, pc, copy>>

-----------------------------------------------------------------------------
CommandStep(c) ==
  ReadRoom(c) \/ PingAgent(c) \/ Persist(c) \/ Reread(c) \/ ReadAndPersist(c) \/ ConfigFails(c)

Next ==
  \/ \E c \in Commands, request \in Requests : Receive(c, request)
  \/ \E c \in Commands : CommandStep(c)
  \/ \E r \in Rooms : Joined(r)

Spec == Init /\ [][Next]_vars

-----------------------------------------------------------------------------
(* Safety.                                                                 *)

Created(c, scope, id) ==
  /\ pc[c] \in Written
  /\ cmd[c].do = [op |-> "create", scope |-> scope, id |-> id]

\* Created in the room by a sender who was a room-local agent manager when the
\* message arrived; created for every room by an administrator.
CreatedIn(r, id) ==
  \E c \in Commands :
    Created(c, "room", id) /\ cmd[c].room = r /\ CanManageRoomLocalAgents(c, copy[c].global)
CreatedGlobally(id) == \E c \in Commands : Created(c, "global", id) /\ IsAdmin(c)

\* Whatever copies overtake each other, an agent is only ever in the room it
\* was created in, and where it is was put there by those who may
\* (sender_can_manage_room_local_agents, sender_can_manage_global_config).
AgentsAreDeclared ==
  /\ \A r \in Rooms : \A id \in room[r].agents : CreatedIn(r, id)
  /\ \A id \in global.agents : CreatedGlobally(id)

\* A deleted agent stays named by the handlers that were set to it, and a
\* handler is set after its agent was looked up in a copy.  Still no handler
\* ever names an agent that was not there to be named: one of another room, or
\* one nobody created who may.
HandlersNameDeclared ==
  \A p \in Purposes :
    /\ LET agent == global.settings.handler[p] IN
       agent # None => agent.kind = "static" \/ (agent.kind = "global" /\ CreatedGlobally(agent.id))
    /\ \A r \in Rooms :
         LET agent == room[r].settings.handler[p] IN
         agent # None => \/ agent.kind = "static"
                         \/ agent.kind = "global" /\ CreatedGlobally(agent.id)
                         \/ agent.kind = "room-local" /\ CreatedIn(r, agent.id)

\* Who may use the bot, and who may manage agents, changes only by the command
\* of an administrator, to what that command asks or to what its copy says.
AccessChangesByAdmins ==
  [][<<global.users, global.managers>>' # <<global.users, global.managers>> =>
       \E c \in Commands :
         /\ pc[c] \notin Written /\ pc'[c] \in Written /\ IsAdmin(c)
         /\ global'.users \in {global.users, copy[c].global.users}
              \/ cmd[c].do = [op |-> "set_users", patterns |-> global'.users]
         /\ global'.managers \in {global.managers, copy[c].global.managers}
              \/ cmd[c].do = [op |-> "set_managers", patterns |-> global'.managers]]_vars

\* A command whose handler was not overtaken by another write does what it
\* was asked and nothing else, to the document it was meant for; also when the
\* answer to its write is lost.
UndisturbedCommandIsExact ==
  [][\A c \in Commands : pc[c] \notin Written /\ pc'[c] \in Written /\ c \notin overlapped =>
       IF ScopeOf(cmd[c].do) = "global"
       THEN global' = Apply(cmd[c].do, global) /\ room' = room
       ELSE room' = [room EXCEPT ![cmd[c].room] = Apply(cmd[c].do, @)] /\ global' = global]_vars

-----------------------------------------------------------------------------
(* What the documentation says, and overlapping handlers break.            *)

\* docs/access.md, of users: "cannot create new Agents (neither in rooms, nor
\* globally)".  Stated of the step that adds one to a room.
UsersCannotCreateAgents ==
  [][\A r \in Rooms : ~(room'[r].agents \subseteq room[r].agents) =>
       \E c \in Commands : pc'[c] # pc[c] /\ CanManageRoomLocalAgents(c, copy[c].global)]_vars
=============================================================================
