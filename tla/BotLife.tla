------------------------------ MODULE BotLife ------------------------------
(***************************************************************************)
(* The bot over its starts and commands: Startup brings it up, Settings    *)
(* are changed while it syncs, and a later start, with another static      *)
(* configuration, finds them in the account data.                          *)
(*                                                                         *)
(* Bounds: accidents and the account's other clients act in lives without  *)
(* commands; commands come in the first start, and a single one is carried *)
(* over to a second.  The settings are account data, on the homeserver:    *)
(* neither a kill nor a loss of the data directory reaches them.           *)
(***************************************************************************)
EXTENDS Startup, Settings

ASSUME OneAbsence == Unset = None

\* The documents there can be: agents by the commands' ids or the static
\* configuration's, values as the commands take them.
Ids == DOMAIN Agents \cup StaticIds \cup {Unset}
Typed == {Unset} \cup UNION {UNION {Section[s][n] : n \in DOMAIN Section[s]} : s \in DOMAIN Section}
Documents ==
  [handler : [Purposes -> Ids],
   values : [DOMAIN Section -> UNION {[DOMAIN Section[s] -> Typed] : s \in DOMAIN Section}]]

\* A document is never taken for the absence of one; the rules let the first
\* handlers be for purposes, and name static agents.
ASSUME DocumentAssumption == Unset \notin Documents
ASSUME InitialAssumption ==
  \A d \in Deployments :
    Validate(Load(d.file, d.env)) => Load(d.file, d.env).initial \in [Purposes -> StaticIds \cup {Unset}]

vars == <<startupVars, settingsVars>>

Init == StartupInit /\ SettingsInit

\* A start, or what happens to the process and the account.
Boot ==
  /\ StartupNext
  /\ commands > 0 => mishaps' = 0 /\ others' = 0 /\ starts' <= 2 /\ commands = 1
  /\ UNCHANGED settingsVars

\* A message while the bot syncs.
Command ==
  /\ pc = "sync" /\ mishaps = 0 /\ others = 0 /\ starts = 1
  /\ SettingsNext(config.initial)
  /\ UNCHANGED startupVars

Next == Boot \/ Command
Spec == Init /\ [][Next]_vars /\ StartupFairness

\* A command takes the effect that was typed, no other; and what the rooms
\* use stays over a restart with another static configuration, once the
\* global document is there.
CommandTakesEffect ==
  [][None \notin {config, config'} /\ (global # Unset \/ config' = config) =>
       ChangesOnlyWhatIsTyped(config.initial) /\ ServesAsTyped(config.initial)]_vars

\* `config status` tells what the handlers and the providers use.
StatusTellsTruth == pc = "sync" => StatusAgrees(config.initial)
=============================================================================
