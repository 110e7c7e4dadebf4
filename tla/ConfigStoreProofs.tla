------------------------- MODULE ConfigStoreProofs -------------------------
(***************************************************************************)
(* Theorems about ConfigStore, for any number of overlapping commands,     *)
(* rooms, users and agents.                                                *)
(*                                                                         *)
(* A handler carries a copy of the documents and the verdict of the checks *)
(* made on it from one await to the next.  HandlerInv says what it may     *)
(* take for granted at each of them; what is persisted is then as good as  *)
(* the copy, and a copy is as good as what was persisted before it.        *)
(***************************************************************************)
EXTENDS ConfigStore, TLAPS

Copies == [global : GlobalConfigs, room : RoomConfigs]

\* The awaits of a handler whose sender and command were found in order.
Passed == {"ping", "persist", "reread", "write", "done", "lost"}

\* None of the global handlers is an agent of a single room.
ForEveryRoom(g) ==
  \A p \in Purposes : g.settings.handler[p] # None => g.settings.handler[p].kind # "room-local"

\* What the checks let through, and where it went.
Verdict(c) ==
  LET do == cmd[c].do IN
  /\ Permitted(c, copy[c].global)
  /\ do.op = "set_handler" /\ do.scope = "global" /\ do.agent # None => do.agent.kind # "room-local"
  /\ pc[c] = "ping" => do.op = "create"
  /\ pc[c] = "reread" => do.op = "set_handler" /\ do.scope = "global"
  /\ pc[c] = "write" <=> (pc[c] \notin Written /\ do.op \in {"set_users", "set_managers"})

HandlerInv(c) ==
  pc[c] # "idle" =>
    /\ cmd[c] \in Requests
    /\ copy[c] \in Copies
    /\ ForEveryRoom(copy[c].global)
    /\ pc[c] \in Passed => Verdict(c)

TypeInv == TypeOK /\ \A c \in Commands : HandlerInv(c)

-----------------------------------------------------------------------------
(* Operations and documents.                                               *)

\* The operations tell their arguments.
LEMMA OperationArguments ==
  ASSUME NEW do \in Operations
  PROVE  /\ do.op = "set_value" => do.scope \in Scopes /\ do.value \in Values \cup {None}
         /\ do.op = "set_handler" =>
              do.scope \in Scopes /\ do.purpose \in Purposes /\ do.agent \in Identifiers \cup {None}
         /\ do.op = "create" =>
              /\ do = [op |-> "create", scope |-> do.scope, id |-> do.id]
              /\ do.scope \in Scopes /\ do.id \in Names
         /\ do.op = "delete" => do.agent \in Identifiers
         /\ do.op \in {"set_users", "set_managers"} =>
              do = [op |-> do.op, patterns |-> do.patterns] /\ do.patterns \in SUBSET Users
         /\ do.op \in {"set_value", "set_handler", "create", "delete", "set_users", "set_managers"}
BY DEF Operations

LEMMA OperationScope ==
  ASSUME NEW do \in Operations
  PROVE  ScopeOf(do) \in Scopes
BY OperationArguments DEF ScopeOf, Scopes

\* An operation on the settings or the agents keeps the access lists; and what
\* it does to a document yields one.
LEMMA ValueApplied ==
  ASSUME NEW s \in Settings, NEW v \in Values \cup {None}
  PROVE  /\ [s EXCEPT !.value = v] \in Settings
         /\ [s EXCEPT !.value = v].handler = s.handler
BY DEF Settings

LEMMA HandlerApplied ==
  ASSUME NEW s \in Settings, NEW p \in Purposes, NEW agent \in Identifiers \cup {None}
  PROVE  /\ [s EXCEPT !.handler[p] = agent] \in Settings
         /\ [s EXCEPT !.handler[p] = agent].handler = [s.handler EXCEPT ![p] = agent]
         /\ s.handler \in Handlers
BY DEF Settings, Handlers

LEMMA RoomApplied ==
  ASSUME NEW do \in Operations, ScopeOf(do) = "room", NEW r \in RoomConfigs
  PROVE  Apply(do, r) \in RoomConfigs
<1> USE OperationArguments DEF RoomConfigs, ScopeOf, Apply
<1>1. CASE do.op = "set_value"
  <2>1. [r.settings EXCEPT !.value = do.value] \in Settings
    BY <1>1, ValueApplied
  <2> QED BY <1>1, <2>1
<1>2. CASE do.op = "set_handler"
  <2>1. [r.settings EXCEPT !.handler[do.purpose] = do.agent] \in Settings
    BY <1>2, HandlerApplied
  <2> QED BY <1>2, <2>1
<1>3. CASE do.op = "create"
  BY <1>3
<1>4. CASE do.op = "delete"
  BY <1>4
<1> QED BY <1>1, <1>2, <1>3, <1>4

LEMMA GlobalApplied ==
  ASSUME NEW do \in Operations, NEW g \in GlobalConfigs, ForEveryRoom(g),
         do.op = "set_handler" /\ do.agent # None => do.agent.kind # "room-local"
  PROVE  /\ Apply(do, g) \in GlobalConfigs
         /\ ForEveryRoom(Apply(do, g))
         /\ do.op # "set_users" => Apply(do, g).users = g.users
         /\ do.op # "set_managers" => Apply(do, g).managers = g.managers
         /\ do.op = "set_users" => Apply(do, g).users = do.patterns
         /\ do.op = "set_managers" => Apply(do, g).managers = do.patterns
<1> USE OperationArguments DEF GlobalConfigs, Apply, ForEveryRoom
<1>1. CASE do.op = "set_value"
  <2>1. /\ [g.settings EXCEPT !.value = do.value] \in Settings
        /\ [g.settings EXCEPT !.value = do.value].handler = g.settings.handler
    BY <1>1, ValueApplied
  <2>2. Apply(do, g) = [g EXCEPT !.settings = [g.settings EXCEPT !.value = do.value]]
    BY <1>1
  <2> QED BY <1>1, <2>1, <2>2
<1>2. CASE do.op = "set_handler"
  <2> DEFINE settings == [g.settings EXCEPT !.handler[do.purpose] = do.agent]
  <2>1. /\ settings \in Settings
        /\ settings.handler = [g.settings.handler EXCEPT ![do.purpose] = do.agent]
        /\ g.settings.handler \in Handlers
    BY <1>2, HandlerApplied
  <2>4. Apply(do, g) = [g EXCEPT !.settings = settings]
    BY <1>2
  <2> HIDE DEF settings
  <2>2. /\ Apply(do, g).settings.handler = [g.settings.handler EXCEPT ![do.purpose] = do.agent]
        /\ Apply(do, g) \in GlobalConfigs
        /\ Apply(do, g).users = g.users /\ Apply(do, g).managers = g.managers
    BY <2>1, <2>4
  <2>3. ForEveryRoom(Apply(do, g))
    <3> SUFFICES ASSUME NEW p \in Purposes, Apply(do, g).settings.handler[p] # None
                 PROVE  Apply(do, g).settings.handler[p].kind # "room-local"
      OBVIOUS
    <3>1. CASE p = do.purpose
      BY <1>2, <2>1, <2>2, <3>1 DEF Handlers
    <3>2. CASE p # do.purpose
      BY <1>2, <2>1, <2>2, <3>2 DEF Handlers
    <3> QED BY <3>1, <3>2
  <2> QED BY <1>2, <2>2, <2>3
<1>3. CASE do.op = "create"
  BY <1>3
<1>4. CASE do.op = "delete"
  BY <1>4
<1>5. CASE do.op = "set_users"
  BY <1>5
<1>6. CASE do.op = "set_managers"
  BY <1>6
<1> QED BY <1>1, <1>2, <1>3, <1>4, <1>5, <1>6

-----------------------------------------------------------------------------
(* Types, and what a handler may take for granted.                         *)

LEMMA InitTypes == Init => TypeInv
<1> SUFFICES ASSUME Init PROVE TypeInv
  OBVIOUS
<1>1. Unset \in Handlers /\ \A p \in Purposes : Unset[p] = None
  BY DEF Unset, Handlers
<1>2. \A v \in Values : NewRoomConfig(v) \in RoomConfigs
  BY <1>1 DEF NewRoomConfig, RoomConfigs, Settings
<1>3. global \in GlobalConfigs /\ global.settings.handler = Unset
  BY <1>1 DEF Init, GlobalConfigs, Settings
<1> QED BY <1>1, <1>2, <1>3 DEF Init, TypeInv, TypeOK, HandlerInv

\* A handler that does not move keeps what it has.
LEMMA HandlerFrame ==
  ASSUME TypeInv, NEW d \in Commands, pc'[d] = pc[d], cmd'[d] = cmd[d], copy'[d] = copy[d]
  PROVE  HandlerInv(d)'
BY DEF TypeInv, HandlerInv, Verdict, Permitted, IsAdmin, CanManageRoomLocalAgents

\* One that goes on with its command and its copy keeps the verdict too.
LEMMA VerdictKept ==
  ASSUME TypeInv, NEW c \in Commands, pc[c] \in Passed, cmd'[c] = cmd[c], copy'[c] = copy[c],
         \/ pc[c] = "ping" /\ pc'[c] = "persist"
         \/ pc'[c] \in Written
         \/ pc'[c] \in {"guided", "refused", "failed"}
  PROVE  HandlerInv(c)'
BY DEF Written, TypeInv, HandlerInv, Verdict, Permitted, IsAdmin, CanManageRoomLocalAgents, Passed

LEMMA TypesStep == TypeInv /\ [Next]_vars => TypeInv'
<1> SUFFICES ASSUME TypeInv, [Next]_vars PROVE TypeInv'
  OBVIOUS
<1>t. /\ TypeOK /\ ForEveryRoom(global)
      /\ \A c \in Commands : HandlerInv(c)
  BY DEF TypeInv, TypeOK, ForEveryRoom
<1>1. ASSUME NEW c \in Commands, NEW request \in Requests, Receive(c, request)
      PROVE  TypeInv'
  <2>1. request.room \in Rooms
    BY DEF Requests
  <2>2. [global |-> global, room |-> room[request.room]] \in Copies
    BY <1>t, <2>1 DEF TypeOK, Copies
  <2>3. TypeOK'
    BY <1>t, <1>1, <2>2 DEF Receive, TypeOK, Copies
  <2>4. HandlerInv(c)'
    BY <1>t, <1>1, <2>2 DEF Receive, TypeOK, HandlerInv, ForEveryRoom, Passed
  <2>5. ASSUME NEW d \in Commands, d # c PROVE HandlerInv(d)'
    BY <1>t, <1>1, <2>5, HandlerFrame DEF Receive, TypeOK
  <2> QED BY <2>3, <2>4, <2>5 DEF TypeInv
<1>2. ASSUME NEW c \in Commands, ReadRoom(c)
      PROVE  TypeInv'
  <2>1. /\ cmd[c] \in Requests /\ cmd[c].room \in Rooms /\ cmd[c].do \in Operations
        /\ copy[c] \in Copies /\ ForEveryRoom(copy[c].global)
    BY <1>t, <1>2 DEF ReadRoom, HandlerInv, Requests
  <2>2. /\ copy'[c] \in Copies /\ copy'[c].global = copy[c].global
        /\ cmd'[c] = cmd[c]
    BY <1>t, <1>2, <2>1 DEF ReadRoom, TypeOK, Copies
  <2>3. /\ copy' = [copy EXCEPT ![c] = copy'[c]]
        /\ \E place \in {"ignored", "refused", "ping", "reread", "write", "persist"} :
             pc' = [pc EXCEPT ![c] = place]
    BY <1>t, <1>2 DEF ReadRoom, TypeOK
  <2>4. TypeOK'
    BY <1>t, <1>2, <2>2, <2>3 DEF ReadRoom, TypeOK, Copies
  <2>5. HandlerInv(c)'
    <3>1. CASE pc'[c] \in Passed
      <4> DEFINE do == cmd[c].do
                 g == copy[c].global
                 r == room[cmd[c].room]
      <4>1. /\ Permitted(c, g) /\ MakesSense(do, g, r)
            /\ pc'[c] = IF do.op = "create" THEN "ping"
                        ELSE IF do.op = "set_handler" /\ do.scope = "global" THEN "reread"
                        ELSE IF do.op \in {"set_users", "set_managers"} THEN "write"
                        ELSE "persist"
        BY <1>t, <1>2, <3>1 DEF ReadRoom, TypeOK, Passed
      <4>2. do.op = "set_handler" /\ do.scope = "global" /\ do.agent # None => do.agent.kind # "room-local"
        BY <4>1 DEF MakesSense
      <4>3. Permitted(c, copy[c].global)'
        BY <4>1, <2>2 DEF Permitted, IsAdmin, CanManageRoomLocalAgents
      <4>4. Verdict(c)'
        BY <4>1, <4>2, <4>3, <2>2 DEF Written, Verdict
      <4> QED BY <4>4, <2>1, <2>2 DEF HandlerInv, ForEveryRoom
    <3>2. CASE pc'[c] \notin Passed
      BY <3>2, <2>1, <2>2 DEF HandlerInv, ForEveryRoom
    <3> QED BY <3>1, <3>2
  <2>6. ASSUME NEW d \in Commands, d # c PROVE HandlerInv(d)'
    BY <1>t, <1>2, <2>3, <2>6, HandlerFrame DEF ReadRoom, TypeOK
  <2> QED BY <2>4, <2>5, <2>6 DEF TypeInv
<1>3. ASSUME NEW c \in Commands, PingAgent(c)
      PROVE  TypeInv'
  <2>1. TypeOK'
    BY <1>t, <1>3 DEF PingAgent, TypeOK
  <2>2. HandlerInv(c)'
    BY <1>t, <1>3, VerdictKept DEF PingAgent, TypeOK, Passed
  <2>3. ASSUME NEW d \in Commands, d # c PROVE HandlerInv(d)'
    BY <1>t, <1>3, <2>3, HandlerFrame DEF PingAgent, TypeOK
  <2> QED BY <2>1, <2>2, <2>3 DEF TypeInv
<1>4. ASSUME NEW c \in Commands, Persist(c)
      PROVE  TypeInv'
  <2>1. /\ cmd[c] \in Requests /\ cmd[c].room \in Rooms /\ cmd[c].do \in Operations
        /\ copy[c].global \in GlobalConfigs /\ copy[c].room \in RoomConfigs
        /\ ForEveryRoom(copy[c].global) /\ Verdict(c)
    BY <1>t, <1>4 DEF Persist, HandlerInv, Requests, Copies, Passed
  <2>2. room' \in [Rooms -> RoomConfigs] /\ global' \in GlobalConfigs /\ ForEveryRoom(global')
    <3>1. CASE ScopeOf(cmd[c].do) = "room"
      <4>1. Apply(cmd[c].do, copy[c].room) \in RoomConfigs
        BY <2>1, <3>1, RoomApplied
      <4> QED BY <1>t, <1>4, <2>1, <3>1, <4>1 DEF Persist, PersistRoom, TypeOK
    <3>2. CASE ScopeOf(cmd[c].do) # "room"
      <4>1. cmd[c].do.op = "set_handler" => cmd[c].do.scope = "global"
        BY <2>1, <3>2, OperationArguments DEF ScopeOf, Scopes
      <4>2. /\ Apply(cmd[c].do, copy[c].global) \in GlobalConfigs
            /\ ForEveryRoom(Apply(cmd[c].do, copy[c].global))
        BY <2>1, <4>1, GlobalApplied DEF Verdict
      <4> QED BY <1>t, <1>4, <3>2, <4>2 DEF Persist, PersistGlobal, TypeOK
    <3> QED BY <3>1, <3>2
  <2>3. TypeOK'
    BY <1>t, <1>4, <2>2 DEF Written, Answer, Persist, Overtake, TypeOK, ForEveryRoom
  <2>4. HandlerInv(c)'
    BY <1>t, <1>4, VerdictKept DEF Written, Answer, Persist, TypeOK, Passed
  <2>5. ASSUME NEW d \in Commands, d # c PROVE HandlerInv(d)'
    BY <1>t, <1>4, <2>5, HandlerFrame DEF Written, Answer, Persist, TypeOK
  <2> QED BY <2>3, <2>4, <2>5 DEF TypeInv
<1>5. ASSUME NEW c \in Commands, Reread(c)
      PROVE  TypeInv'
  <2>1. /\ cmd[c] \in Requests /\ cmd[c].do \in Operations /\ copy[c] \in Copies /\ Verdict(c)
        /\ cmd[c].do.op = "set_handler" /\ cmd[c].do.scope = "global"
    BY <1>t, <1>5 DEF Reread, HandlerInv, Requests, Passed, Verdict
  <2>2. /\ copy'[c] \in Copies /\ copy'[c].global = global /\ cmd'[c] = cmd[c]
        /\ copy' = [copy EXCEPT ![c] = copy'[c]]
    BY <1>t, <1>5, <2>1 DEF Reread, TypeOK, Copies
  <2>3. TypeOK'
    BY <1>t, <1>5, <2>2 DEF Reread, TypeOK, Copies
  <2>4. HandlerInv(c)'
    <3>1. IsAdmin(c)
      BY <2>1 DEF Verdict, Permitted, ScopeOf
    <3>2. Verdict(c)'
      BY <1>t, <1>5, <2>1, <2>2, <3>1 DEF Reread, TypeOK, Verdict, Permitted, ScopeOf, IsAdmin
    <3> QED BY <1>t, <2>1, <2>2, <3>2 DEF HandlerInv, ForEveryRoom
  <2>5. ASSUME NEW d \in Commands, d # c PROVE HandlerInv(d)'
    BY <1>t, <1>5, <2>5, HandlerFrame DEF Reread, TypeOK
  <2> QED BY <2>3, <2>4, <2>5 DEF TypeInv
<1>6. ASSUME NEW c \in Commands, ReadAndPersist(c)
      PROVE  TypeInv'
  <2>1. /\ cmd[c].do \in Operations
        /\ cmd[c].do.op \in {"set_users", "set_managers"}
    BY <1>t, <1>6 DEF ReadAndPersist, HandlerInv, Requests, Passed, Verdict
  <2>2. Apply(cmd[c].do, global) \in GlobalConfigs /\ ForEveryRoom(Apply(cmd[c].do, global))
    BY <1>t, <2>1, GlobalApplied DEF TypeOK
  <2>3. TypeOK'
    BY <1>t, <1>6, <2>2 DEF Written, Answer, ReadAndPersist, PersistGlobal, Overtake, TypeOK, ForEveryRoom
  <2>4. HandlerInv(c)'
    BY <1>t, <1>6, VerdictKept DEF Written, Answer, ReadAndPersist, TypeOK, Passed
  <2>5. ASSUME NEW d \in Commands, d # c PROVE HandlerInv(d)'
    BY <1>t, <1>6, <2>5, HandlerFrame DEF Written, Answer, ReadAndPersist, TypeOK
  <2> QED BY <2>3, <2>4, <2>5 DEF TypeInv
<1>7. ASSUME NEW c \in Commands, ConfigFails(c)
      PROVE  TypeInv'
  <2>1. TypeOK'
    BY <1>t, <1>7 DEF ConfigFails, TypeOK
  <2>2. HandlerInv(c)'
    BY <1>t, <1>7 DEF ConfigFails, TypeOK, HandlerInv, Passed
  <2>3. ASSUME NEW d \in Commands, d # c PROVE HandlerInv(d)'
    BY <1>t, <1>7, <2>3, HandlerFrame DEF ConfigFails, TypeOK
  <2> QED BY <2>1, <2>2, <2>3 DEF TypeInv
<1>8. ASSUME NEW r \in Rooms, Joined(r)
      PROVE  TypeInv'
  <2>1. \A v \in Values : NewRoomConfig(v) \in RoomConfigs
    BY DEF NewRoomConfig, RoomConfigs, Settings, Unset, Handlers
  <2>2. TypeOK'
    BY <1>t, <1>8, <2>1 DEF Joined, Overtake, TypeOK
  <2>3. ASSUME NEW d \in Commands PROVE HandlerInv(d)'
    BY <1>t, <1>8, HandlerFrame DEF Joined
  <2> QED BY <2>2, <2>3 DEF TypeInv
<1>9. CASE UNCHANGED vars
  <2>1. TypeOK'
    BY <1>t, <1>9 DEF vars, TypeOK
  <2>2. ASSUME NEW d \in Commands PROVE HandlerInv(d)'
    BY <1>t, <1>9, HandlerFrame DEF vars
  <2> QED BY <2>1, <2>2 DEF TypeInv
<1> QED BY <1>1, <1>2, <1>3, <1>4, <1>5, <1>6, <1>7, <1>8, <1>9 DEF Next, CommandStep

\* Every reachable state has the declared types, and the global configuration
\* names no agent of a single room (config global set-handler).
THEOREM ConfigTypes == Spec => []TypeOK
<1>1. TypeInv => TypeOK
  BY DEF TypeInv
<1> QED BY <1>1, InitTypes, TypesStep, PTL DEF Spec

LEMMA TypesInvariant == Spec => []TypeInv
BY InitTypes, TypesStep, PTL DEF Spec

-----------------------------------------------------------------------------
(* Access.                                                                 *)

\* Who may use the bot and who may manage agents changes only by a command of
\* an administrator (sender_can_manage_global_config, cfg and access handlers).
THEOREM AccessByAdmins == Spec => AccessChangesByAdmins
<1> DEFINE ByAdmin ==
      <<global.users, global.managers>>' # <<global.users, global.managers>> =>
       \E c \in Commands :
         /\ pc[c] \notin Written /\ pc'[c] \in Written /\ IsAdmin(c)
         /\ global'.users \in {global.users, copy[c].global.users}
              \/ cmd[c].do = [op |-> "set_users", patterns |-> global'.users]
         /\ global'.managers \in {global.managers, copy[c].global.managers}
              \/ cmd[c].do = [op |-> "set_managers", patterns |-> global'.managers]
<1>1. TypeInv /\ [Next]_vars => [ByAdmin]_vars
  <2> SUFFICES ASSUME TypeInv, Next, <<global.users, global.managers>>' # <<global.users, global.managers>>
               PROVE  ByAdmin
    OBVIOUS
  <2>1. PICK c \in Commands : ReadAndPersist(c) \/ (Persist(c) /\ ScopeOf(cmd[c].do) # "room")
    BY DEF Next, CommandStep, Receive, ReadRoom, PingAgent, Persist, PersistRoom, Reread, ConfigFails, Joined
  <2>2. /\ pc[c] \notin Written /\ pc'[c] \in Written /\ pc[c] \in {"write", "persist"}
        /\ HandlerInv(c) /\ TypeOK /\ ForEveryRoom(global)
    BY <2>1 DEF Written, Answer, TypeInv, TypeOK, ReadAndPersist, Persist, ForEveryRoom
  <2>3. /\ cmd[c].do \in Operations /\ Verdict(c) /\ ForEveryRoom(copy[c].global)
        /\ copy[c].global \in GlobalConfigs /\ global \in GlobalConfigs
    BY <2>2 DEF HandlerInv, Requests, Copies, Passed, TypeOK
  <2>4. CASE ReadAndPersist(c)
    <3>1. cmd[c].do.op \in {"set_users", "set_managers"}
      BY <2>3, <2>4 DEF ReadAndPersist, Verdict
    <3>2. IsAdmin(c)
      BY <2>3, <3>1 DEF Verdict, Permitted, ScopeOf
    <3>3. global' = Apply(cmd[c].do, global)
      BY <2>4 DEF ReadAndPersist, PersistGlobal
    <3> QED BY <2>2, <2>3, <3>1, <3>2, <3>3, GlobalApplied, OperationArguments
  <2>5. CASE Persist(c) /\ ScopeOf(cmd[c].do) # "room"
    <3>1. cmd[c].do.op \notin {"set_users", "set_managers"}
      BY <2>3, <2>5 DEF Persist, Verdict, Written
    <3>2. ScopeOf(cmd[c].do) = "global" /\ IsAdmin(c)
      BY <2>3, <2>5, OperationScope DEF Verdict, Permitted, Scopes
    <3>3. global' = Apply(cmd[c].do, copy[c].global)
      BY <2>5 DEF Persist, PersistGlobal
    <3>4. cmd[c].do.op = "set_handler" => cmd[c].do.scope = "global"
      BY <3>2 DEF ScopeOf
    <3>5. global'.users = copy[c].global.users /\ global'.managers = copy[c].global.managers
      BY <2>3, <3>1, <3>3, <3>4, GlobalApplied DEF Verdict
    <3> QED BY <2>2, <3>2, <3>5
  <2> QED BY <2>1, <2>4, <2>5
<1> QED BY <1>1, TypesInvariant, PTL DEF Spec, AccessChangesByAdmins

-----------------------------------------------------------------------------
(* Copies that no write has overtaken.                                     *)

Holding == {"read", "ping", "persist", "reread"}

\* The copy of a handler that was not overtaken is the stored document.
FreshInv ==
  \A c \in Commands : pc[c] \in Holding /\ c \notin overlapped =>
    IF ScopeOf(cmd[c].do) = "global" THEN copy[c].global = global
    ELSE copy[c].room = room[cmd[c].room]

LEMMA FreshStep == TypeInv /\ FreshInv /\ [Next]_vars => FreshInv'
<1> SUFFICES ASSUME TypeInv, FreshInv, [Next]_vars PROVE FreshInv'
  OBVIOUS
<1>t. /\ TypeOK
      /\ \A c \in Commands : pc[c] # "idle" =>
           /\ cmd[c].do \in Operations /\ cmd[c].room \in Rooms /\ copy[c] \in Copies
           /\ pc[c] \in Passed => Verdict(c)
  BY DEF TypeInv, HandlerInv, Requests
<1>0. \A c \in Commands : pc[c] # "idle" => ScopeOf(cmd[c].do) \in Scopes
  BY <1>t, OperationScope
<1>1. ASSUME NEW c \in Commands, NEW request \in Requests, Receive(c, request)
      PROVE  FreshInv'
  BY <1>t, <1>1 DEF Receive, FreshInv, TypeOK, Holding
<1>2. ASSUME NEW c \in Commands, ReadRoom(c)
      PROVE  FreshInv'
  <2>1. /\ copy'[c].room = room[cmd[c].room] /\ copy'[c].global = copy[c].global
        /\ \A d \in Commands \ {c} : copy'[d] = copy[d] /\ pc'[d] = pc[d]
    BY <1>t, <1>2 DEF ReadRoom, TypeOK, Copies
  <2> QED BY <1>2, <2>1 DEF ReadRoom, FreshInv, Holding
<1>3. ASSUME NEW c \in Commands, PingAgent(c)
      PROVE  FreshInv'
  BY <1>t, <1>3 DEF PingAgent, FreshInv, TypeOK, Holding
<1>4. ASSUME NEW c \in Commands, Persist(c)
      PROVE  FreshInv'
  <2> SUFFICES ASSUME NEW d \in Commands, pc'[d] \in Holding, d \notin overlapped'
               PROVE  IF ScopeOf(cmd[d].do) = "global" THEN copy[d].global = global'
                      ELSE copy[d].room = room'[cmd[d].room]
    BY <1>4 DEF Persist, FreshInv
  <2>1. /\ d # c /\ pc[d] \in Holding /\ pc[d] # "idle" /\ d \notin overlapped
        /\ ~HoldsCopyOf(d, ScopeOf(cmd[c].do), cmd[c].room)
    BY <1>t, <1>4 DEF Written, Answer, Persist, Overtake, TypeOK, Holding
  <2>2. CASE ScopeOf(cmd[c].do) = "room"
    <3>1. ScopeOf(cmd[d].do) # "global" => cmd[d].room # cmd[c].room
      BY <1>0, <2>1, <2>2 DEF HoldsCopyOf, Holding, Scopes
    <3>2. cmd[c].room \in Rooms /\ cmd[d].room \in Rooms /\ room \in [Rooms -> RoomConfigs]
      BY <1>t, <1>4, <2>1 DEF Persist, TypeOK
    <3>3. global' = global /\ \A r \in Rooms \ {cmd[c].room} : room'[r] = room[r]
      BY <1>4, <2>2, <3>2 DEF Persist, PersistRoom
    <3> QED BY <2>1, <3>1, <3>2, <3>3 DEF FreshInv
  <2>3. CASE ScopeOf(cmd[c].do) # "room"
    <3>1. ScopeOf(cmd[c].do) = "global"
      BY <1>0, <1>4, <2>3 DEF Persist, Scopes
    <3> QED BY <1>4, <2>1, <3>1 DEF Persist, PersistGlobal, HoldsCopyOf, FreshInv, Holding
  <2> QED BY <2>2, <2>3
<1>5. ASSUME NEW c \in Commands, Reread(c)
      PROVE  FreshInv'
  <2>1. ScopeOf(cmd[c].do) = "global"
    BY <1>t, <1>5 DEF Reread, Passed, Verdict, ScopeOf
  <2>2. /\ copy'[c].global = global
        /\ \A d \in Commands \ {c} : copy'[d] = copy[d] /\ pc'[d] = pc[d] /\ (d \in overlapped' <=> d \in overlapped)
    BY <1>t, <1>5 DEF Reread, TypeOK, Copies
  <2> QED BY <1>5, <2>1, <2>2 DEF Reread, FreshInv
<1>6. ASSUME NEW c \in Commands, ReadAndPersist(c)
      PROVE  FreshInv'
  <2> SUFFICES ASSUME NEW d \in Commands, pc'[d] \in Holding, d \notin overlapped'
               PROVE  IF ScopeOf(cmd[d].do) = "global" THEN copy[d].global = global'
                      ELSE copy[d].room = room'[cmd[d].room]
    BY <1>6 DEF ReadAndPersist, FreshInv
  <2>1. /\ d # c /\ pc[d] \in Holding /\ d \notin overlapped
        /\ ~HoldsCopyOf(d, "global", cmd[c].room)
    BY <1>t, <1>6 DEF Written, Answer, ReadAndPersist, Overtake, TypeOK, Holding
  <2> QED BY <1>6, <2>1 DEF ReadAndPersist, PersistGlobal, HoldsCopyOf, FreshInv, Holding
<1>7. ASSUME NEW c \in Commands, ConfigFails(c)
      PROVE  FreshInv'
  BY <1>t, <1>7 DEF ConfigFails, FreshInv, TypeOK, Holding
<1>8. ASSUME NEW r \in Rooms, Joined(r)
      PROVE  FreshInv'
  <2> SUFFICES ASSUME NEW d \in Commands, pc[d] \in Holding, d \notin overlapped'
               PROVE  IF ScopeOf(cmd[d].do) = "global" THEN copy[d].global = global
                      ELSE copy[d].room = room'[cmd[d].room]
    BY <1>8 DEF Joined, FreshInv
  <2>1. d \notin overlapped /\ ~HoldsCopyOf(d, "room", r)
    BY <1>8, NoneAssumption DEF Joined, Overtake
  <2>2. ScopeOf(cmd[d].do) # "global" => cmd[d].room # r
    BY <1>0, <2>1 DEF HoldsCopyOf, Holding, Scopes
  <2> QED BY <1>t, <1>8, <2>1, <2>2 DEF Joined, FreshInv, TypeOK, Holding
<1>9. CASE UNCHANGED vars
  BY <1>9 DEF vars, FreshInv
<1> QED BY <1>1, <1>2, <1>3, <1>4, <1>5, <1>6, <1>7, <1>8, <1>9 DEF Next, CommandStep

\* A command that no other write overtook does what it was asked and nothing
\* else (persist of room_config_manager and global_config_manager).
THEOREM UndisturbedExact == Spec => UndisturbedCommandIsExact
<1> DEFINE Exact ==
      \A c \in Commands : pc[c] \notin Written /\ pc'[c] \in Written /\ c \notin overlapped =>
       IF ScopeOf(cmd[c].do) = "global"
       THEN global' = Apply(cmd[c].do, global) /\ room' = room
       ELSE room' = [room EXCEPT ![cmd[c].room] = Apply(cmd[c].do, @)] /\ global' = global
<1>1. Init => FreshInv
  BY DEF Init, FreshInv, Holding
<1>2. TypeInv /\ FreshInv /\ [Next]_vars => [Exact]_vars
  <2> SUFFICES ASSUME TypeInv, FreshInv, Next, NEW c \in Commands,
                      pc[c] \notin Written, pc'[c] \in Written, c \notin overlapped
               PROVE  IF ScopeOf(cmd[c].do) = "global"
                      THEN global' = Apply(cmd[c].do, global) /\ room' = room
                      ELSE room' = [room EXCEPT ![cmd[c].room] = Apply(cmd[c].do, @)] /\ global' = global
    OBVIOUS
  <2>t. TypeOK /\ HandlerInv(c)
    BY DEF TypeInv
  <2>1. Persist(c) \/ ReadAndPersist(c)
    BY <2>t DEF Written, Answer, Next, CommandStep, Receive, ReadRoom, PingAgent, Persist, Reread, ReadAndPersist,
                ConfigFails, Joined, TypeOK
  <2>2. pc[c] \in {"persist", "write"} /\ cmd[c].do \in Operations /\ Verdict(c)
    BY <2>1, <2>t DEF Persist, ReadAndPersist, HandlerInv, Requests, Passed
  <2>3. CASE Persist(c)
    <3>1. ScopeOf(cmd[c].do) \in Scopes
      BY <2>2, OperationScope
    <3> QED BY <2>3, <3>1 DEF Persist, PersistRoom, PersistGlobal, FreshInv, Holding, Scopes
  <2>4. CASE ReadAndPersist(c)
    <3>1. ScopeOf(cmd[c].do) = "global"
      BY <2>2, <2>4 DEF ReadAndPersist, Verdict, ScopeOf
    <3> QED BY <2>4, <3>1 DEF ReadAndPersist, PersistGlobal
  <2> QED BY <2>1, <2>3, <2>4
<1> QED BY <1>1, <1>2, FreshStep, TypesInvariant, PTL DEF Spec, UndisturbedCommandIsExact

-----------------------------------------------------------------------------
(* Agents.                                                                 *)

\* An agent a handler may name: in a room, and everywhere.
NamedIn(r, agent) ==
  agent # None => \/ agent.kind = "static"
                  \/ agent.kind = "global" /\ CreatedGlobally(agent.id)
                  \/ agent.kind = "room-local" /\ CreatedIn(r, agent.id)
NamedGlobally(agent) ==
  agent # None => agent.kind = "static" \/ (agent.kind = "global" /\ CreatedGlobally(agent.id))

\* The agents of a document, and those its handlers name, were created where
\* they are by those who may.
RoomDeclared(r, config) ==
  /\ \A id \in config.agents : CreatedIn(r, id)
  /\ \A p \in Purposes : NamedIn(r, config.settings.handler[p])
GlobalDeclared(config) ==
  /\ \A id \in config.agents : CreatedGlobally(id)
  /\ \A p \in Purposes : NamedGlobally(config.settings.handler[p])

\* So were those of every document, of every copy, and of every command that
\* was found in order.
AgentsInv ==
  /\ \A r \in Rooms : RoomDeclared(r, room[r])
  /\ GlobalDeclared(global)
  /\ \A c \in Commands : pc[c] # "idle" =>
       RoomDeclared(cmd[c].room, copy[c].room) /\ GlobalDeclared(copy[c].global)
  /\ \A c \in Commands : pc[c] \in Passed /\ cmd[c].do.op = "set_handler" =>
       IF cmd[c].do.scope = "global" THEN NamedGlobally(cmd[c].do.agent)
       ELSE NamedIn(cmd[c].room, cmd[c].do.agent)

\* An operation adds at most the agent it creates.
LEMMA AgentsApplied ==
  ASSUME NEW do \in Operations, NEW config \in RoomConfigs \cup GlobalConfigs,
         do.op \in {"set_users", "set_managers"} => config \in GlobalConfigs
  PROVE  \A id \in Apply(do, config).agents : id \in config.agents \/ (do.op = "create" /\ id = do.id)
<1> USE OperationArguments DEF Apply, RoomConfigs, GlobalConfigs
<1>1. CASE do.op = "set_value"
  BY <1>1
<1>2. CASE do.op = "set_handler"
  BY <1>2
<1>3. CASE do.op = "create"
  BY <1>3
<1>4. CASE do.op = "delete"
  BY <1>4
<1>5. CASE do.op \in {"set_users", "set_managers"}
  BY <1>5
<1> QED BY <1>1, <1>2, <1>3, <1>4, <1>5

\* An operation changes at most the handler it sets.
LEMMA HandlersApplied ==
  ASSUME NEW do \in Operations, NEW config \in RoomConfigs \cup GlobalConfigs,
         do.op \in {"set_users", "set_managers"} => config \in GlobalConfigs
  PROVE  \A p \in Purposes :
           \/ Apply(do, config).settings.handler[p] = config.settings.handler[p]
           \/ do.op = "set_handler" /\ Apply(do, config).settings.handler[p] = do.agent
<1> USE OperationArguments DEF Apply, RoomConfigs, GlobalConfigs
<1>1. CASE do.op = "set_value"
  BY <1>1, ValueApplied
<1>2. CASE do.op = "set_handler"
  <2> DEFINE settings == [config.settings EXCEPT !.handler[do.purpose] = do.agent]
  <2>0. Apply(do, config) = [config EXCEPT !.settings = settings]
    BY <1>2
  <2>1. settings.handler = [config.settings.handler EXCEPT ![do.purpose] = do.agent]
    BY <1>2, HandlerApplied
  <2>2. config.settings.handler \in Handlers
    BY DEF Settings
  <2> HIDE DEF settings
  <2>3. Apply(do, config).settings.handler = [config.settings.handler EXCEPT ![do.purpose] = do.agent]
    BY <2>0, <2>1
  <2> QED BY <1>2, <2>2, <2>3 DEF Handlers
<1>3. CASE do.op = "create"
  BY <1>3
<1>4. CASE do.op = "delete"
  BY <1>4
<1>5. CASE do.op \in {"set_users", "set_managers"}
  BY <1>5
<1> QED BY <1>1, <1>2, <1>3, <1>4, <1>5

\* What is declared stays declared: a handler that has written does not move.
LEMMA DeclaredKept ==
  ASSUME TypeInv, [Next]_vars
  PROVE  /\ \A r, id : CreatedIn(r, id) => CreatedIn(r, id)'
         /\ \A id : CreatedGlobally(id) => CreatedGlobally(id)'
<1>1. ASSUME NEW c \in Commands, pc[c] \in Written
      PROVE  pc'[c] = pc[c] /\ cmd'[c] = cmd[c] /\ copy'[c] = copy[c]
  <2>t. TypeOK
    BY DEF TypeInv
  <2>1. ASSUME NEW d \in Commands, d # c,
               (\E request \in Requests : Receive(d, request)) \/ CommandStep(d)
        PROVE  pc'[c] = pc[c] /\ cmd'[c] = cmd[c] /\ copy'[c] = copy[c]
    BY <2>t, <2>1 DEF TypeOK, CommandStep, Receive, ReadRoom, PingAgent, Persist, Answer, Reread,
                      ReadAndPersist, ConfigFails
  <2>2. ~(\E request \in Requests : Receive(c, request)) /\ ~CommandStep(c)
    BY <1>1 DEF Written, CommandStep, Receive, ReadRoom, PingAgent, Persist, Reread, ReadAndPersist, ConfigFails
  <2> QED BY <2>1, <2>2 DEF Next, vars, Joined
<1>2. \A scope, id : \A c \in Commands :
        Created(c, scope, id) =>
          /\ Created(c, scope, id)' /\ cmd'[c] = cmd[c] /\ copy'[c] = copy[c]
          /\ IsAdmin(c) => IsAdmin(c)'
          /\ CanManageRoomLocalAgents(c, copy[c].global) => CanManageRoomLocalAgents(c, copy[c].global)'
  BY <1>1 DEF Created, IsAdmin, CanManageRoomLocalAgents
<1>3. ASSUME NEW r, NEW id, CreatedIn(r, id)
      PROVE  CreatedIn(r, id)'
  BY <1>2, <1>3 DEF CreatedIn
<1>4. ASSUME NEW id, CreatedGlobally(id)
      PROVE  CreatedGlobally(id)'
  BY <1>2, <1>4 DEF CreatedGlobally
<1> QED BY <1>3, <1>4

\* So does what names it.
LEMMA NamedKept ==
  ASSUME TypeInv, [Next]_vars
  PROVE  /\ \A r, agent : NamedIn(r, agent) => NamedIn(r, agent)'
         /\ \A agent : NamedGlobally(agent) => NamedGlobally(agent)'
BY DeclaredKept DEF NamedIn, NamedGlobally

LEMMA DocumentKept ==
  ASSUME TypeInv, [Next]_vars
  PROVE  /\ \A r, config : RoomDeclared(r, config) => RoomDeclared(r, config)'
         /\ \A config : GlobalDeclared(config) => GlobalDeclared(config)'
BY DeclaredKept, NamedKept DEF RoomDeclared, GlobalDeclared

\* A document made by a command out of its copy has what the copy had, and
\* what the command created or named.
LEMMA DocumentWritten ==
  ASSUME TypeInv, AgentsInv, [Next]_vars, NEW c \in Commands, Persist(c)
  PROVE  /\ ScopeOf(cmd[c].do) = "room" => RoomDeclared(cmd[c].room, Apply(cmd[c].do, copy[c].room))'
         /\ ScopeOf(cmd[c].do) # "room" => GlobalDeclared(Apply(cmd[c].do, copy[c].global))'
<1> DEFINE do == cmd[c].do
<1>t. TypeOK /\ HandlerInv(c)
  BY DEF TypeInv
<1>1. /\ do \in Operations /\ Verdict(c) /\ pc[c] = "persist" /\ pc[c] \in Passed
      /\ copy[c].global \in GlobalConfigs /\ copy[c].room \in RoomConfigs
      /\ do.op \notin {"set_users", "set_managers"}
  BY <1>t DEF Persist, HandlerInv, Requests, Copies, Passed, Verdict, Written
<1>2. /\ pc'[c] \in Written /\ cmd' = cmd /\ copy' = copy
  BY <1>t DEF Persist, Answer, TypeOK
<1>3. CASE ScopeOf(do) = "room"
  <2>1. do.op = "create" => CreatedIn(cmd[c].room, do.id)'
    <3>1. do.op = "create" =>
            /\ Created(c, "room", do.id)'
            /\ CanManageRoomLocalAgents(c, copy[c].global)'
      BY <1>1, <1>2, <1>3, OperationArguments
         DEF Created, Verdict, Permitted, ScopeOf, CanManageRoomLocalAgents, IsAdmin
    <3> QED BY <1>2, <3>1 DEF CreatedIn
  <2>2. do.op = "set_handler" => NamedIn(cmd[c].room, do.agent)'
    <3>1. do.op = "set_handler" => NamedIn(cmd[c].room, do.agent)
      BY <1>1, <1>3 DEF AgentsInv, ScopeOf
    <3> QED BY <1>2, <3>1, NamedKept DEF NamedIn
  <2>3. RoomDeclared(cmd[c].room, copy[c].room)
    BY <1>1 DEF AgentsInv
  <2>4. \A id \in Apply(do, copy[c].room).agents : CreatedIn(cmd[c].room, id)'
    BY <1>1, <1>2, <2>1, <2>3, AgentsApplied, DeclaredKept DEF RoomDeclared
  <2>5. \A p \in Purposes : NamedIn(cmd[c].room, Apply(do, copy[c].room).settings.handler[p])'
    BY <1>1, <1>2, <2>2, <2>3, HandlersApplied, NamedKept DEF RoomDeclared
  <2> QED BY <1>2, <1>3, <2>4, <2>5 DEF RoomDeclared
<1>4. CASE ScopeOf(do) # "room"
  <2>0. ScopeOf(do) = "global"
    BY <1>1, <1>4, OperationScope DEF Scopes
  <2>1. do.op = "create" => CreatedGlobally(do.id)'
    <3>1. do.op = "create" => Created(c, "global", do.id)' /\ IsAdmin(c)'
      BY <1>1, <1>2, <2>0, OperationArguments DEF Created, Verdict, Permitted, ScopeOf, IsAdmin
    <3> QED BY <3>1 DEF CreatedGlobally
  <2>2. do.op = "set_handler" => NamedGlobally(do.agent)'
    <3>1. do.op = "set_handler" => NamedGlobally(do.agent)
      BY <1>1, <2>0 DEF AgentsInv, ScopeOf
    <3> QED BY <1>2, <3>1, NamedKept DEF NamedGlobally
  <2>3. GlobalDeclared(copy[c].global)
    BY <1>1 DEF AgentsInv
  <2>4. \A id \in Apply(do, copy[c].global).agents : CreatedGlobally(id)'
    BY <1>1, <1>2, <2>1, <2>3, AgentsApplied, DeclaredKept DEF GlobalDeclared
  <2>5. \A p \in Purposes : NamedGlobally(Apply(do, copy[c].global).settings.handler[p])'
    BY <1>1, <1>2, <2>2, <2>3, HandlersApplied, NamedKept DEF GlobalDeclared
  <2> QED BY <1>2, <1>4, <2>4, <2>5 DEF GlobalDeclared
<1> QED BY <1>3, <1>4

\* The documents after a step have what was declared before it, or what the
\* command that wrote them created or named.
LEMMA DocumentsDeclared ==
  ASSUME TypeInv, AgentsInv, [Next]_vars
  PROVE  /\ \A r \in Rooms : RoomDeclared(r, room[r])'
         /\ GlobalDeclared(global)'
<1>t. /\ TypeOK
      /\ \A c \in Commands : HandlerInv(c)
  BY DEF TypeInv
<1>k. /\ \A r \in Rooms : room'[r] = room[r] => RoomDeclared(r, room[r])'
      /\ global' = global => GlobalDeclared(global)'
  BY DocumentKept DEF AgentsInv, RoomDeclared, GlobalDeclared
<1>1. ASSUME NEW c \in Commands, Persist(c)
      PROVE  /\ \A r \in Rooms : RoomDeclared(r, room[r])'
             /\ GlobalDeclared(global)'
  <2>1. cmd[c].room \in Rooms /\ cmd' = cmd /\ copy' = copy /\ room \in [Rooms -> RoomConfigs]
    BY <1>t, <1>1 DEF Persist, HandlerInv, Requests, TypeOK
  <2>2. CASE ScopeOf(cmd[c].do) = "room"
    <3>1. /\ global' = global
          /\ room'[cmd[c].room] = Apply(cmd[c].do, copy[c].room)
          /\ \A r \in Rooms \ {cmd[c].room} : room'[r] = room[r]
      BY <1>1, <2>1, <2>2 DEF Persist, PersistRoom
    <3>2. RoomDeclared(cmd[c].room, room[cmd[c].room])'
      BY <1>1, <2>1, <2>2, <3>1, DocumentWritten DEF RoomDeclared
    <3> QED BY <1>k, <2>1, <3>1, <3>2
  <2>3. CASE ScopeOf(cmd[c].do) # "room"
    <3>1. room' = room /\ global' = Apply(cmd[c].do, copy[c].global)
      BY <1>1, <2>3 DEF Persist, PersistGlobal
    <3>2. GlobalDeclared(global)'
      BY <1>1, <2>1, <2>3, <3>1, DocumentWritten DEF GlobalDeclared
    <3> QED BY <1>k, <3>1, <3>2
  <2> QED BY <2>2, <2>3
<1>2. ASSUME NEW c \in Commands, ReadAndPersist(c)
      PROVE  room' = room /\ GlobalDeclared(global)'
  <2>1. cmd[c].do \in Operations /\ cmd[c].do.op \in {"set_users", "set_managers"}
    BY <1>t, <1>2 DEF ReadAndPersist, HandlerInv, Requests, Passed, Verdict, Written
  <2>2. room' = room /\ global' = Apply(cmd[c].do, global)
    BY <1>2 DEF ReadAndPersist, PersistGlobal
  <2>3. /\ global'.agents \subseteq global.agents
        /\ \A p \in Purposes : global'.settings.handler[p] = global.settings.handler[p]
    BY <1>t, <2>1, <2>2, AgentsApplied, HandlersApplied DEF TypeOK
  <2> QED BY <2>2, <2>3, DeclaredKept, NamedKept DEF AgentsInv, GlobalDeclared
<1>3. ASSUME NEW q \in Rooms, Joined(q)
      PROVE  global' = global /\ \A r \in Rooms : RoomDeclared(r, room[r])'
  <2>1. PICK v \in Values : room' = [room EXCEPT ![q] = NewRoomConfig(v)]
    BY <1>3 DEF Joined
  <2>2. room'[q] = NewRoomConfig(v) /\ \A r \in Rooms \ {q} : room'[r] = room[r]
    BY <1>t, <2>1 DEF TypeOK
  <2>3. RoomDeclared(q, room[q])'
    BY <2>2 DEF RoomDeclared, NamedIn, NewRoomConfig, Unset
  <2> QED BY <1>k, <1>3, <2>2, <2>3 DEF Joined
<1>4. CASE UNCHANGED <<room, global>>
  BY <1>4, <1>k
<1> QED BY <1>k, <1>1, <1>2, <1>3, <1>4
        DEF Next, CommandStep, Receive, ReadRoom, PingAgent, Reread, ConfigFails, vars

\* A copy is of a document as it is, or as it was when it was read.
LEMMA CopiesDeclared ==
  ASSUME TypeInv, AgentsInv, [Next]_vars, NEW c \in Commands, pc'[c] # "idle"
  PROVE  RoomDeclared(cmd[c].room, copy[c].room)' /\ GlobalDeclared(copy[c].global)'
<1>t. /\ TypeOK /\ HandlerInv(c)
      /\ \A r \in Rooms : RoomDeclared(r, room[r])
      /\ GlobalDeclared(global)
      /\ pc[c] # "idle" =>
           RoomDeclared(cmd[c].room, copy[c].room) /\ GlobalDeclared(copy[c].global)
  BY DEF TypeInv, AgentsInv
<1>1. /\ pc[c] # "idle" => cmd'[c] = cmd[c] /\ cmd[c].room \in Rooms
      /\ cmd'[c].room \in Rooms
      /\ \/ copy'[c].room = room[cmd'[c].room]
         \/ pc[c] # "idle" /\ copy'[c].room = copy[c].room
      /\ copy'[c].global = global \/ (pc[c] # "idle" /\ copy'[c].global = copy[c].global)
  BY <1>t DEF TypeOK, HandlerInv, Copies, Requests, Next, CommandStep, vars, Receive, ReadRoom, PingAgent,
              Persist, Answer, Reread, ReadAndPersist, ConfigFails, Joined
<1>2. RoomDeclared(cmd'[c].room, copy'[c].room)
  BY <1>t, <1>1
<1>3. GlobalDeclared(copy'[c].global)
  BY <1>t, <1>1
<1> QED BY <1>2, <1>3, DocumentKept DEF RoomDeclared, GlobalDeclared

\* A command that is found in order names an agent it found in its copies.
LEMMA CommandsDeclared ==
  ASSUME TypeInv, AgentsInv, [Next]_vars, NEW c \in Commands,
         pc'[c] \in Passed, cmd'[c].do.op = "set_handler"
  PROVE  IF cmd'[c].do.scope = "global" THEN NamedGlobally(cmd[c].do.agent)'
         ELSE NamedIn(cmd[c].room, cmd[c].do.agent)'
<1>t. TypeOK /\ HandlerInv(c)
  BY DEF TypeInv
<1>1. CASE ReadRoom(c)
  <2> DEFINE do == cmd[c].do
  <2>1. /\ MakesSense(do, copy[c].global, room[cmd[c].room]) /\ cmd' = cmd
        /\ cmd[c].room \in Rooms /\ do \in Operations
    BY <1>t, <1>1 DEF ReadRoom, TypeOK, HandlerInv, Requests, Passed
  <2>2. RoomDeclared(cmd[c].room, room[cmd[c].room]) /\ GlobalDeclared(copy[c].global)
    BY <1>1, <2>1 DEF AgentsInv, ReadRoom
  <2>3. do.agent # None => do.agent \in AvailableAgents(copy[c].global, room[cmd[c].room])
    BY <2>1 DEF MakesSense
  <2>4. /\ NamedIn(cmd[c].room, do.agent)
        /\ do.scope = "global" => NamedGlobally(do.agent)
    BY <2>1, <2>2, <2>3 DEF AvailableAgents, MakesSense, RoomDeclared, GlobalDeclared, NamedIn, NamedGlobally
  <2> QED BY <2>1, <2>4, NamedKept DEF NamedIn, NamedGlobally
<1>2. CASE ~ReadRoom(c)
  <2>1. pc[c] \in Passed /\ cmd'[c] = cmd[c]
    BY <1>t, <1>2 DEF TypeOK, HandlerInv, Passed, Next, CommandStep, vars, Receive, ReadRoom, PingAgent,
                      Persist, Answer, Reread, ReadAndPersist, ConfigFails, Joined
  <2>2. IF cmd[c].do.scope = "global" THEN NamedGlobally(cmd[c].do.agent)
        ELSE NamedIn(cmd[c].room, cmd[c].do.agent)
    BY <2>1 DEF AgentsInv
  <2> QED BY <2>1, <2>2, NamedKept DEF NamedIn, NamedGlobally
<1> QED BY <1>1, <1>2

LEMMA AgentsInvariant == Spec => []AgentsInv
<1>1. Init => AgentsInv
  BY DEF Init, AgentsInv, RoomDeclared, GlobalDeclared, NamedIn, NamedGlobally, NewRoomConfig, Unset, Passed
<1>2. TypeInv /\ AgentsInv /\ [Next]_vars => AgentsInv'
  <2> SUFFICES ASSUME TypeInv, AgentsInv, [Next]_vars PROVE AgentsInv'
    OBVIOUS
  <2> QED BY DocumentsDeclared, CopiesDeclared, CommandsDeclared DEF AgentsInv
<1> QED BY <1>1, <1>2, TypesInvariant, PTL DEF Spec

\* An agent is only ever in the room it was created in, by a sender who was an
\* agent manager when the message arrived; one for every room was created by
\* an administrator (handle_create and its checks).
THEOREM AgentsDeclared == Spec => []AgentsAreDeclared
<1>1. AgentsInv => AgentsAreDeclared
  BY DEF AgentsInv, AgentsAreDeclared, RoomDeclared, GlobalDeclared
<1> QED BY <1>1, AgentsInvariant, PTL

\* A handler never names an agent that was not there to be named, although it
\* is looked up in one copy, set in another, and may be deleted in between or
\* afterwards (handle_set of the room and of the global configuration).
THEOREM HandlersDeclared == Spec => []HandlersNameDeclared
<1>1. AgentsInv => HandlersNameDeclared
  BY DEF AgentsInv, HandlersNameDeclared, RoomDeclared, GlobalDeclared, NamedIn, NamedGlobally
<1> QED BY <1>1, AgentsInvariant, PTL
=============================================================================
