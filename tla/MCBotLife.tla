------------------------------ MODULE MCBotLife -----------------------------
(* Deployments that run and deployments that are refused, two rooms,       *)
(* commands for every setting and purpose.                                 *)
EXTENDS BotLife

Handled(id) == [p \in Purposes |-> IF p = "catch-all" THEN id ELSE None]
Base == [server_name |-> "example.org", url |-> "https", localpart |-> "bot", name |-> "bot", prefix |-> "!bai",
         password |-> None, access_token |-> None, device_id |-> None, tron |-> None,
         recovery_passphrase |-> None, recovery_reset_allowed |-> FALSE, avatar |-> None,
         data_dir |-> "data", config_key |-> None, session_key |-> None,
         fallback_locale |-> "en", introductions |-> [x \in {} |-> None],
         admin_patterns |-> {"admin"}, admin_exempt |-> {"usage"}, user_patterns |-> {},
         agents |-> TRUE, initial |-> Handled(None), billing |-> None, x402 |-> None]
Wallet == [Base EXCEPT !.tron = [private_key |-> "W", seed_phrase |-> None, origin |-> None],
                       !.initial = Handled("static/a")]
Sold == [Wallet EXCEPT !.billing = DefaultBilling,
                       !.x402 = [url |-> "http", secret |-> "s", loopback |-> TRUE, allow_non_loopback |-> FALSE]]
NoVariables == [x \in {} |-> None]
As(file) == [file |-> file, env |-> NoVariables]

\* The wallet; the wallet with consent to replace and an agent that is not
\* defined; a password from the environment, with an avatar that cannot be
\* read; a token, with top-ups.
Accepted ==
  {As(Wallet),
   [file |-> [Wallet EXCEPT !.avatar = "keep", !.initial = Handled("static/gone")],
    env |-> [recovery_reset_allowed |-> TRUE]],
   [file |-> [Base EXCEPT !.avatar = "unreadable"],
    env |-> [password |-> "secret", recovery_passphrase |-> "P"]],
   [file |-> [Base EXCEPT !.access_token = "token", !.device_id = "device"],
    env |-> [billing |-> [min_topup |-> 2], x402 |-> [url |-> "http", secret |-> "s"]]]}

\* Two keys; a variable that makes a second way to sign in; a localpart that
\* makes no user id; a key of the session that does not parse; no ledger
\* directory; a webhook others can reach; limits the wrong way round; no text
\* for the fallback locale.
Turned_away ==
  {[file |-> Wallet, env |-> [tron |-> [seed_phrase |-> "W"]]],
   [file |-> Wallet, env |-> [password |-> "secret"]],
   As([Wallet EXCEPT !.localpart = "bad"]), As([Wallet EXCEPT !.session_key = "bad"]),
   As([Sold EXCEPT !.data_dir = None]),
   [file |-> Sold, env |-> [x402 |-> [loopback |-> FALSE]]],
   [file |-> Sold, env |-> [billing |-> [min_topup |-> 1001]]],
   [file |-> Wallet, env |-> [introductions |-> [ru |-> "text"]]]}
MCDeployments == Accepted \cup Turned_away

\* An agent of everything, one that only writes, one of room r1.
MCAgents ==
  "static/a" :> [supports |-> Purposes, prompt |-> Unset, temperature |-> "1.0", speed |-> Unset, voice |-> "onyx"]
  @@ "global/b" :> [supports |-> {"catch-all", "text-generation"}, prompt |-> "You are b.",
                    temperature |-> Unset, speed |-> Unset, voice |-> Unset]
  @@ "room-local/c" :> [supports |-> {"catch-all", "text-to-speech"}, prompt |-> Unset,
                        temperature |-> Unset, speed |-> "1.0", voice |-> Unset]
MCRoomLocal == "r1" :> {"room-local/c"} @@ "r2" :> {}

MCNumbers == {"0.5"}
Command_(scope, section, verb, name, argument) ==
  [scope |-> scope, section |-> section, verb |-> verb, name |-> name, argument |-> argument]
Setters ==
  {<<"text-generation", "context-management-enabled", "true">>, <<"text-generation", "thinking-notice-enabled", "false">>,
   <<"text-generation", "prefix-requirement-type", "command_prefix">>, <<"text-generation", "auto-usage", "never">>,
   <<"text-generation", "sender-context-mode", "matrix_user_id">>, <<"text-generation", "prompt-override", "Be brief.">>,
   <<"text-generation", "temperature-override", "0.5">>, <<"speech-to-text", "flow-type", "only_transcribe">>,
   <<"speech-to-text", "msg-type-for-non-threaded-only-transcribed-messages", "notice">>,
   <<"speech-to-text", "language", "en">>, <<"text-to-speech", "bot-msgs-flow-type", "always">>,
   <<"text-to-speech", "user-msgs-flow-type", "never">>, <<"text-to-speech", "speed-override", "0.5">>,
   <<"text-to-speech", "voice-override", "alloy">>}
MCTexts ==
  {Command_(scope, s[1], "set", s[2], argument) : scope \in {"room", "global"}, s \in Setters, argument \in {""}}
  \cup {Command_(scope, s[1], "set", s[2], s[3]) : scope \in {"room", "global"}, s \in Setters}
  \cup {Command_(scope, "handler", "set", purpose, id) : scope \in {"room", "global"},
          purpose \in {"catch-all", "text-generation", "text-to-speech"},
          id \in {"", "static/a", "global/b", "room-local/c"}}
  \cup {Command_("room", "speech-to-text", "set", "language", "english"), Command_("room", "text-generation", "set", "flow-type", "ignore"),
        Command_("global", "text-to-speech", "get", "voice-override", ""), Command_("room", "handler", "get", "catch-all", ""),
        Command_("room", "handler", "set", "everything", "static/a"), Command_("status", "", "", "", "")}
=============================================================================
