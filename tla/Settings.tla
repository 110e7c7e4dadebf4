------------------------------ MODULE Settings ------------------------------
(***************************************************************************)
(* The settings of a room and of the bot: the `config` commands that read  *)
(* and change them, what the handlers use, and what `config status` says   *)
(* they use.                                                               *)
(*                                                                         *)
(* A room uses its own value of a setting, else the global one, else a     *)
(* default, or what its agent is configured with.  The documents are       *)
(* created by the first message: the global one from the static            *)
(* configuration (initial), a room's with a prefix requirement that        *)
(* depends on its members.  Commands come one at a time; ConfigStore has   *)
(* handlers that overlap.                                                  *)
(***************************************************************************)
EXTENDS Naturals, Sequences

CONSTANTS
  Rooms, Crowded,   \* Crowded: those the bot is told more than two members of
  Texts,            \* the commands as typed, see Determine
  Numbers,          \* the words that parse as a number
  Agents,           \* id -> [supports, prompt, temperature, speed, voice]; Unset: not configured
  RoomLocal,        \* the ids a room defines for itself: room -> set of ids
  Unset,
  MaxCommands       \* bound: commands and deletions of agents

ASSUME SettingsAssumption == Crowded \subseteq Rooms /\ MaxCommands \in Nat

VARIABLES rooms,    \* the stored document of each room, Unset before its first message
          global,   \* the stored global document, likewise
          local,    \* the agents each room still has of its own
          last,     \* history: the last command that came, and its answer
          commands

settingsVars == <<rooms, global, local, last, commands>>

Purposes == {"catch-all", "text-generation", "speech-to-text", "text-to-speech", "image-generation"}

-----------------------------------------------------------------------------
(* What a setting may be set to.                                           *)

PrefixRequirementTypes == {"no", "command_prefix"}
AutoUsages == {"never", "always", "only_for_voice", "only_for_text"}
SenderContextModes == {"disabled", "matrix_user_id", "matrix_user_id_and_timestamp"}
FlowTypes == {"ignore", "transcribe_and_generate_text", "only_transcribe"}
MsgTypes == {"text", "notice"}
BotMsgsFlowTypes == {"never", "on_demand_always", "on_demand_for_voice", "only_for_voice", "always"}
UserMsgsFlowTypes == {"never", "on_demand", "always"}

Words == {text.argument : text \in Texts} \ {""}

\* Two tables in one; the first has the say.
first ++ second ==
  [x \in DOMAIN first \cup DOMAIN second |-> IF x \in DOMAIN first THEN first[x] ELSE second[x]]

\* determine, of each section: the settings and the words they accept.
TextGenerationChoices ==
  [name \in {"context-management-enabled", "thinking-notice-enabled", "prefix-requirement-type", "auto-usage"} |->
     CASE name = "prefix-requirement-type" -> PrefixRequirementTypes
       [] name = "auto-usage" -> AutoUsages
       [] OTHER -> {"true", "false"}]
TextGenerationOverrides ==
  [name \in {"prompt-override", "temperature-override", "sender-context-mode"} |->
     CASE name = "prompt-override" -> Words
       [] name = "temperature-override" -> Numbers
       [] name = "sender-context-mode" -> SenderContextModes]
SpeechToTextChoices ==
  [name \in {"flow-type", "msg-type-for-non-threaded-only-transcribed-messages", "language"} |->
     CASE name = "flow-type" -> FlowTypes
       [] name = "language" -> {word \in Words : Len(word) = 2}
       [] OTHER -> MsgTypes]
TextToSpeechChoices ==
  [name \in {"bot-msgs-flow-type", "user-msgs-flow-type", "speed-override", "voice-override"} |->
     CASE name = "bot-msgs-flow-type" -> BotMsgsFlowTypes
       [] name = "user-msgs-flow-type" -> UserMsgsFlowTypes
       [] name = "speed-override" -> Numbers
       [] name = "voice-override" -> Words]

Section ==
  [section \in {"text-generation", "speech-to-text", "text-to-speech"} |->
     CASE section = "text-generation" -> TextGenerationChoices ++ TextGenerationOverrides
       [] section = "speech-to-text" -> SpeechToTextChoices
       [] section = "text-to-speech" -> TextToSpeechChoices]

\* Controllers that are not about a setting.
Only(do) == [do |-> do, scope |-> "none"]

\* do_determine_controller.  A getter takes no argument; a setter without one
\* unsets; a word that is not recognized is an error.
DetermineSetting(text) ==
  CASE text.section \notin DOMAIN Section -> Only("unknown")
    [] text.section \in DOMAIN Section /\ text.name \notin DOMAIN Section[text.section] -> Only("unknown")
    [] OTHER ->
       LET To(value) == [do |-> "set", scope |-> text.scope, section |-> text.section, name |-> text.name,
                         value |-> value] IN
       CASE text.verb = "get" /\ text.argument = "" -> [To(Unset) EXCEPT !.do = "get"]
         [] text.verb = "set" /\ text.argument = "" -> To(Unset)
         [] text.verb = "set" /\ text.argument \in Section[text.section][text.name] -> To(text.argument)
         [] OTHER -> Only("error")
DetermineHandler(text) ==
  LET To(id) == [do |-> "set_handler", scope |-> text.scope, purpose |-> text.name, agent |-> id] IN
  CASE text.name \notin Purposes -> Only("error")
    [] text.name \in Purposes /\ text.verb = "get" ->
         IF text.argument = "" THEN [To(Unset) EXCEPT !.do = "get_handler"] ELSE Only("error")
    [] text.name \in Purposes /\ text.verb = "set" ->
         (CASE text.argument = "" -> To(Unset)
            [] text.argument \in DOMAIN Agents -> To(text.argument)
            [] OTHER -> Only("error"))
    [] OTHER -> Only("unknown")

\* determine_controller.  A text is [scope, section, verb, name, argument];
\* in the section "handler" the name is a purpose and the argument an id.
Determine(text) ==
  CASE text.scope = "status" -> Only("status")
    [] text.scope = "CONFIG_TYPE" -> Only("error")
    [] text.scope \in {"room", "global"} ->
         IF text.section = "handler" THEN DetermineHandler(text) ELSE DetermineSetting(text)
    [] OTHER -> Only("help")

-----------------------------------------------------------------------------
(* The documents.                                                          *)

NoSettings ==
  [handler |-> [p \in Purposes |-> Unset],
   values |-> [s \in DOMAIN Section |-> [n \in DOMAIN Section[s] |-> Unset]]]

\* get_or_create, with_room.
Global(initial) == IF global # Unset THEN global ELSE [NoSettings EXCEPT !.handler = initial]
Room(room) ==
  IF rooms[room] # Unset THEN rooms[room]
  ELSE [NoSettings EXCEPT !.values["text-generation"]["prefix-requirement-type"] =
          IF room \in Crowded THEN "command_prefix" ELSE "no"]

Or(a, b) == IF a # Unset THEN a ELSE b

\* get_by_purpose_with_catch_all_fallback
OfPurpose(handler, purpose) == Or(handler[purpose], handler["catch-all"])

\* available_room_agents_by_room_config_context
Available(room) == {id \in DOMAIN Agents : \A r \in Rooms : id \in RoomLocal[r] => r = room /\ id \in local[room]}
IsRoomLocal(id) == \E r \in Rooms : id \in RoomLocal[r]

\* get_effective_agent_for_purpose: the agent and where it is set, or why none.
EffectiveId(initial, room, purpose) ==
  Or(OfPurpose(Room(room).handler, purpose), OfPurpose(Global(initial).handler, purpose))
EffectiveAgent(initial, room, purpose) ==
  LET id == EffectiveId(initial, room, purpose) IN
  CASE id = Unset -> [error |-> "none configured"]
    [] id # Unset /\ id \notin Available(room) -> [error |-> "missing"]
    [] id # Unset /\ id \in Available(room) /\ purpose \notin Agents[id].supports -> [error |-> "lacks support"]
    [] OTHER -> [id |-> id,
                 set |-> IF OfPurpose(Room(room).handler, purpose) # Unset THEN "room" ELSE "global"]
AgentOf(initial, room, purpose) ==
  LET effective == EffectiveAgent(initial, room, purpose) IN
  IF "id" \in DOMAIN effective THEN effective.id ELSE Unset

\* RoomConfigContext: the value a room uses; Unset, of an override, leaves it
\* to the agent, and of the language, to the provider.
Defaults ==
  [name \in UNION {DOMAIN Section[section] : section \in DOMAIN Section} |->
     CASE name \in {"context-management-enabled", "thinking-notice-enabled"} -> "false"
       [] name = "prefix-requirement-type" -> "no"
       [] name = "auto-usage" -> "always"
       [] name = "sender-context-mode" -> "disabled"
       [] name = "flow-type" -> "transcribe_and_generate_text"
       [] name = "msg-type-for-non-threaded-only-transcribed-messages" -> "text"
       [] name = "bot-msgs-flow-type" -> "on_demand_for_voice"
       [] name = "user-msgs-flow-type" -> "on_demand"
       [] OTHER -> Unset]

TextGeneration(initial, room, name) ==
  Or(Room(room).values["text-generation"][name],
     Or(Global(initial).values["text-generation"][name], Defaults[name]))
SpeechToText(initial, room, name) ==
  Or(Room(room).values["speech-to-text"][name],
     Or(Global(initial).values["speech-to-text"][name], Defaults[name]))
TextToSpeech(initial, room, name) ==
  Or(Room(room).values["text-to-speech"][name],
     Or(Global(initial).values["text-to-speech"][name], Defaults[name]))

Effective(initial, room, section, name) ==
  CASE section = "text-generation" -> TextGeneration(initial, room, name)
    [] section = "speech-to-text" -> SpeechToText(initial, room, name)
    [] section = "text-to-speech" -> TextToSpeech(initial, room, name)

-----------------------------------------------------------------------------
(* What a generation and a speech are made with: the override or what the  *)
(* agent that makes it has.                                                *)

GenerationParams(initial, room) ==
  LET agent == Agents[AgentOf(initial, room, "text-generation")]
  IN [prompt |-> Or(Or(TextGeneration(initial, room, "prompt-override"), agent.prompt), ""),
      temperature |-> Or(TextGeneration(initial, room, "temperature-override"), agent.temperature)]
SpeechParams(initial, room) ==
  LET agent == Agents[AgentOf(initial, room, "text-to-speech")]
  IN [speed |-> Or(TextToSpeech(initial, room, "speed-override"), agent.speed),
      voice |-> Or(TextToSpeech(initial, room, "voice-override"), agent.voice)]

-----------------------------------------------------------------------------
(* The status: values, and where they are set.                             *)

\* Of a setting with a default.
Where(initial, room, section, name) ==
  CASE Room(room).values[section][name] # Unset -> "room"
    [] Room(room).values[section][name] = Unset /\ Global(initial).values[section][name] # Unset -> "global"
    [] OTHER -> "default"
Entry(initial, room, section, name) ==
  [value |-> Effective(initial, room, section, name), set |-> Where(initial, room, section, name)]

\* Of an override: the room's, the global one, the agent's, and fallback,
\* what is said when there is none of them.
Override(initial, room, section, name, configured, fallback) ==
  LET inRoom == Room(room).values[section][name]
      inGlobal == Global(initial).values[section][name]
  IN CASE inRoom # Unset -> [value |-> inRoom, set |-> "room"]
       [] inRoom = Unset /\ inGlobal # Unset -> [value |-> inGlobal, set |-> "global"]
       [] inRoom = Unset /\ inGlobal = Unset /\ configured # Unset -> [value |-> configured, set |-> "agent"]
       [] OTHER -> fallback

StatusTextGeneration(initial, room) ==
  [name \in (DOMAIN TextGenerationChoices) \cup {"sender-context-mode"} |->
     Entry(initial, room, "text-generation", name)]
StatusGenerationOverrides(initial, room) ==
  LET id == AgentOf(initial, room, "text-generation")
      prompt == IF id = Unset THEN Unset ELSE Agents[id].prompt
      temperature == IF id = Unset THEN Unset ELSE Agents[id].temperature
  IN [name \in {"prompt-override", "temperature-override"} |->
        IF name = "prompt-override"
        THEN Override(initial, room, "text-generation", name, prompt, [value |-> "", set |-> "agent"])
        ELSE Override(initial, room, "text-generation", name, temperature, [value |-> Unset, set |-> "agent"])]
StatusSpeechToText(initial, room) ==
  [name \in DOMAIN SpeechToTextChoices |-> Entry(initial, room, "speech-to-text", name)]
StatusTextToSpeech(initial, room) ==
  [name \in {"bot-msgs-flow-type", "user-msgs-flow-type"} |-> Entry(initial, room, "text-to-speech", name)]
\* Faulty variant: the speech of the agent that writes.
StatusSpeechOverrides_OfWriter(initial, room) ==
  LET id == AgentOf(initial, room, "text-generation")
      speed == IF id = Unset THEN Unset ELSE Agents[id].speed
      voice == IF id = Unset THEN Unset ELSE Agents[id].voice
  IN [name \in {"speed-override", "voice-override"} |->
        Override(initial, room, "text-to-speech", name,
                 IF name = "speed-override" THEN speed ELSE voice, [value |-> Unset, set |-> "default"])]
StatusSpeechOverrides(initial, room) ==
  LET id == AgentOf(initial, room, "text-to-speech")
      speed == IF id = Unset THEN Unset ELSE Agents[id].speed
      voice == IF id = Unset THEN Unset ELSE Agents[id].voice
  IN [name \in {"speed-override", "voice-override"} |->
        Override(initial, room, "text-to-speech", name,
                 IF name = "speed-override" THEN speed ELSE voice, [value |-> Unset, set |-> "default"])]

\* A handler's line: its agent, found or not, or where to look instead.
HandlerLine(room, handler, purpose, isGlobal) ==
  CASE handler[purpose] # Unset -> [agent |-> handler[purpose], found |-> handler[purpose] \in Available(room)]
    [] handler[purpose] = Unset /\ purpose # "catch-all" ->
         [defaulting_to |-> IF isGlobal THEN {"catch-all"} ELSE {"catch-all", "global"}]
    [] handler[purpose] = Unset /\ purpose = "catch-all" ->
         [defaulting_to |-> IF isGlobal THEN {} ELSE {"global"}]
RoomHandlers(room) == [p \in Purposes |-> HandlerLine(room, Room(room).handler, p, FALSE)]
GlobalHandlers(initial, room) == [p \in Purposes |-> HandlerLine(room, Global(initial).handler, p, TRUE)]

\* The agents the room defines, and the badges.
RoomAgents(room) == {id \in Available(room) : IsRoomLocal(id)}

\* The agent each section names, found or not.
StatusEffective(initial, room) ==
  [p \in Purposes \ {"catch-all"} |-> EffectiveAgent(initial, room, p)]

Status(initial, room) ==
  [room_handlers |-> RoomHandlers(room), global_handlers |-> GlobalHandlers(initial, room),
   agents |-> RoomAgents(room),
   effective |-> StatusEffective(initial, room),
   text_generation |-> StatusTextGeneration(initial, room) ++ StatusGenerationOverrides(initial, room),
   speech_to_text |-> StatusSpeechToText(initial, room),
   text_to_speech |-> StatusTextToSpeech(initial, room) ++ StatusSpeechOverrides(initial, room)]

-----------------------------------------------------------------------------
(* A command.                                                              *)

\* The setters of the three sections.
SetTextGeneration(doc, name, value) == [doc EXCEPT !.values["text-generation"][name] = value]
SetSpeechToText(doc, name, value) == [doc EXCEPT !.values["speech-to-text"][name] = value]
SetTextToSpeech(doc, name, value) == [doc EXCEPT !.values["text-to-speech"][name] = value]

\* set_by_purpose
SetHandler(doc, purpose, id) == [doc EXCEPT !.handler[purpose] = id]

Changed(doc, command) ==
  CASE command.do = "set_handler" -> SetHandler(doc, command.purpose, command.agent)
    [] command.do = "set" /\ command.section = "text-generation" ->
         SetTextGeneration(doc, command.name, command.value)
    [] command.do = "set" /\ command.section = "speech-to-text" ->
         SetSpeechToText(doc, command.name, command.value)
    [] command.do = "set" /\ command.section = "text-to-speech" ->
         SetTextToSpeech(doc, command.name, command.value)

\* dispatch_config_related_handler: the bot's settings are the administrators'.
Refused(sender, command) == command.scope = "global" /\ sender # "admin"

\* handle_set of the handlers: an agent must be there; the bot's settings
\* name no agent of a room.
HandlerRefused(room, command) ==
  /\ command.do = "set_handler" /\ command.agent # Unset
  /\ \/ command.agent \notin Available(room)
     \/ command.scope = "global" /\ IsRoomLocal(command.agent)

\* handle_get: of a value, of a handler.
Got(initial, room, command) ==
  LET doc == IF command.scope = "room" THEN Room(room) ELSE Global(initial) IN
  IF command.do = "get" THEN doc.values[command.section][command.name]
  ELSE doc.handler[command.purpose]

Arrives(room, command, answer) ==
  /\ commands' = commands + 1
  /\ last' = [room |-> room, command |-> command, answer |-> answer]
  /\ UNCHANGED local

\* The documents as the command finds them, created if need be.
Keep(initial, room) ==
  /\ rooms' = [rooms EXCEPT ![room] = Room(room)] /\ global' = Global(initial)

\* Help, the status, an error, a getter, or a setter that is refused.
Answer(initial, room, sender, text) ==
  LET command == Determine(text) IN
  /\ command.do \in {"set", "set_handler"} => Refused(sender, command) \/ HandlerRefused(room, command)
  /\ Arrives(room, command,
       CASE Refused(sender, command) \/ HandlerRefused(room, command) -> "refused"
         [] command.do \in {"get", "get_handler"} /\ ~Refused(sender, command) ->
              Got(initial, room, command)
         [] OTHER -> command.do)
  /\ Keep(initial, room)

\* generic_setting and handler handle_set: a changed copy is persisted.
ChangeRoom(initial, room, text) ==
  LET command == Determine(text) IN
  /\ command.do \in {"set", "set_handler"} /\ command.scope = "room"
  /\ ~HandlerRefused(room, command)
  /\ rooms' = [rooms EXCEPT ![room] = Changed(Room(room), command)]
  /\ global' = Global(initial)
  /\ Arrives(room, command, "done")
\* Faulty variant: the copy that is changed is the initial configuration.
ChangeGlobal_OfInitial(initial, room, sender, text) ==
  LET command == Determine(text) IN
  /\ command.do \in {"set", "set_handler"} /\ command.scope = "global"
  /\ ~Refused(sender, command) /\ ~HandlerRefused(room, command)
  /\ rooms' = [rooms EXCEPT ![room] = Room(room)]
  /\ global' = Changed([NoSettings EXCEPT !.handler = initial], command)
  /\ Arrives(room, command, "done")
ChangeGlobal(initial, room, sender, text) ==
  LET command == Determine(text) IN
  /\ command.do \in {"set", "set_handler"} /\ command.scope = "global"
  /\ ~Refused(sender, command) /\ ~HandlerRefused(room, command)
  /\ rooms' = [rooms EXCEPT ![room] = Room(room)]
  /\ global' = Changed(Global(initial), command)
  /\ Arrives(room, command, "done")

\* agent delete: handlers that name the agent stay.
DeleteAgent(initial, room) ==
  /\ commands' = commands + 1
  /\ \E id \in local[room] :
       /\ local' = [local EXCEPT ![room] = @ \ {id}]
       /\ last' = [room |-> room, command |-> Only("delete"), answer |-> id]
  /\ Keep(initial, room)

SettingsInit ==
  /\ rooms = [r \in Rooms |-> Unset] /\ global = Unset
  /\ local = RoomLocal /\ last = Unset /\ commands = 0

SettingsNext(initial) ==
  commands < MaxCommands /\ \E room \in Rooms :
    \/ DeleteAgent(initial, room)
    \/ \E text \in Texts :
         \/ ChangeRoom(initial, room, text)
         \/ \E sender \in {"admin", "user"} :
              \/ Answer(initial, room, sender, text)
              \/ ChangeGlobal(initial, room, sender, text)

-----------------------------------------------------------------------------
(* What the steps and the states of the settings promise; `initial` is the *)
(* global configuration a message would create.                            *)

\* A command that is done does to the setting it names, in the rooms it
\* reaches, what was typed: with a value, the room uses that value; without,
\* it uses what every room without a value of its own uses.  Everything else
\* every room uses stays, whatever the step: other settings, other rooms,
\* commands that are refused or not understood.
ChangesOnlyWhatIsTyped(initial) ==
  LET command == last'.command
      done == commands' # commands /\ last'.answer = "done"
      Own(room, section, name) == Room(room).values[section][name] # Unset
  IN \A room \in Rooms : \A section \in DOMAIN Section : \A name \in DOMAIN Section[section] :
       LET reached == /\ done /\ command.do = "set" /\ command.section = section /\ command.name = name
                      /\ IF command.scope = "room" THEN room = last'.room ELSE ~Own(room, section, name)
           uses == Effective(initial, room, section, name)'
       IN CASE ~reached -> uses = Effective(initial, room, section, name)
            [] reached /\ command.value # Unset -> uses = command.value
            [] reached /\ command.value = Unset ->
                 \A other \in Rooms : ~Own(other, section, name)' => uses = Effective(initial, other, section, name)'

\* Likewise the agents: the one that is typed for a purpose serves it in the
\* rooms reached, and of the other purposes only a catch-all changes any.
ServesAsTyped(initial) ==
  LET command == last'.command
      done == commands' # commands /\ last'.answer = "done" /\ command.do = "set_handler"
  IN \A room \in Rooms, purpose \in Purposes :
       LET reached == /\ done /\ command.purpose \in {purpose, "catch-all"}
                      /\ IF command.scope = "room" THEN room = last'.room
                         ELSE OfPurpose(Room(room).handler, purpose) = Unset
       IN /\ ~reached => EffectiveId(initial, room, purpose)' = EffectiveId(initial, room, purpose)
          /\ reached /\ command.purpose = purpose /\ command.agent # Unset =>
               EffectiveId(initial, room, purpose)' = command.agent

\* What the lines of the status lead a reader to: the room's for a purpose,
\* its catch-all, the global one, the global catch-all.
Followed(status, purpose) ==
  LET lines == << <<status.room_handlers, purpose>>, <<status.room_handlers, "catch-all">>,
                  <<status.global_handlers, purpose>>, <<status.global_handlers, "catch-all">> >>
      Line(i) == lines[i][1][lines[i][2]]
      named == {i \in 1..4 : "agent" \in DOMAIN Line(i)}
  IN IF named = {} THEN [agent |-> Unset, found |-> FALSE]
     ELSE Line(CHOOSE i \in named : \A j \in named : i <= j)

\* It leads to the agent that serves a purpose, if one is configured for it.
LeadsToWhoServes(status, purpose) ==
  LET followed == Followed(status, purpose)
      effective == status.effective[purpose]
  IN /\ "id" \in DOMAIN effective => effective.id = followed.agent /\ followed.found
     /\ followed.agent = Unset <=> effective = [error |-> "none configured"]

\* It shows what the provider is asked for, where there is an agent to ask.
ShowsWhatIsUsed(status, initial, room) ==
  /\ "id" \in DOMAIN status.effective["text-generation"] =>
       [prompt |-> status.text_generation["prompt-override"].value,
        temperature |-> status.text_generation["temperature-override"].value] = GenerationParams(initial, room)
  /\ "id" \in DOMAIN status.effective["text-to-speech"] =>
       [speed |-> status.text_to_speech["speed-override"].value,
        voice |-> status.text_to_speech["voice-override"].value] = SpeechParams(initial, room)

\* Two rooms differ only about what one of them says it, or its agent, has.
DifferAsSaid(ours, theirs) ==
  \A n \in DOMAIN ours : ours[n] # theirs[n] => {ours[n].set, theirs[n].set} \cap {"room", "agent"} # {}

\* The status agrees with what is used: it leads to the agent that serves a
\* purpose, and where one serves, the prompt, the temperature, the speed and
\* the voice it shows are those the provider is asked for; and two rooms
\* never differ about a setting that neither says it has of its own.
StatusAgrees(initial) ==
  \A room \in Rooms : \A status \in {Status(initial, room)} :
    /\ \A p \in Purposes \ {"catch-all"} : LeadsToWhoServes(status, p)
    /\ ShowsWhatIsUsed(status, initial, room)
    /\ \A other \in Rooms : \A theirs \in {Status(initial, other)} :
         /\ DifferAsSaid(status.text_generation, theirs.text_generation)
         /\ DifferAsSaid(status.speech_to_text, theirs.speech_to_text)
         /\ DifferAsSaid(status.text_to_speech, theirs.text_to_speech)
=============================================================================
