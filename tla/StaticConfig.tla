---------------------------- MODULE StaticConfig ----------------------------
(***************************************************************************)
(* The static configuration of the bot: the file, the environment          *)
(* variables laid over it, the rules it must meet before anything touches  *)
(* the homeserver, and what a start derives from it.                       *)
(*                                                                         *)
(* A file is a record of the values a start depends on, env of those that  *)
(* a variable sets.  "bad" stands for a text that does not parse as what   *)
(* it should be: a key, a phrase, a pattern, a user id.                    *)
(***************************************************************************)
EXTENDS Integers, FiniteSets, TLC

CONSTANTS None,
          Locales,       \* the locales there are translations for
          CommandHeads,  \* the first words of commands
          StaticIds      \* the ids of agents that say "static"

-----------------------------------------------------------------------------
(* The file and the environment.                                           *)

\* A text that is left out or empty counts as not given.
Given(text) == text \notin {None, ""}

\* optional_non_empty
OptionalNonEmpty(text) == IF text = "" THEN None ELSE text

\* The sections a variable of theirs creates (Default); amounts of money are
\* given as how they compare, the rest of x402 has no usable default.
EmptyTron == [private_key |-> None, seed_phrase |-> None, origin |-> None]
DefaultBilling ==
  [amounts |-> {1, 10, 50, 500}, min_topup |-> 1, max_topup |-> 1000,
   admins |-> {}, prices |-> {}, db_path |-> None]
DefaultX402 == [url |-> "", secret |-> "", loopback |-> TRUE, allow_non_loopback |-> FALSE]

\* billing_section, x402_section, user_tron_section.
Overlaid(section, default, variables) == variables @@ (IF section = None THEN default ELSE section)

\* set_post_join_self_introduction_text: an empty variable removes the text.
Introductions(texts, variables) ==
  LET all == variables @@ texts
      removed == {locale \in DOMAIN variables : variables[locale] = ""}
  IN [locale \in DOMAIN all \ removed |-> all[locale]]

\* Environment variables override the file.  An empty password, token or
\* device id is taken out; an empty passphrase stays, and is refused below.
Load(file, env) ==
  LET Read(key) ==
        CASE key \in {"password", "access_token", "device_id"} -> OptionalNonEmpty(env[key])
          [] key = "tron" ->
               Overlaid(file.tron, EmptyTron, [k \in DOMAIN env.tron |-> OptionalNonEmpty(env.tron[k])])
          [] key = "initial" -> [p \in DOMAIN env.initial |-> OptionalNonEmpty(env.initial[p])] @@ file.initial
          [] key = "billing" ->
               Overlaid(file.billing, DefaultBilling,
                 [k \in DOMAIN env.billing |->
                    IF k = "db_path" THEN OptionalNonEmpty(env.billing[k]) ELSE env.billing[k]])
          [] key = "x402" -> Overlaid(file.x402, DefaultX402, env.x402)
          [] key = "introductions" -> Introductions(file.introductions, env.introductions)
          [] OTHER -> env[key]
  IN [key \in DOMAIN file |-> IF key \in DOMAIN env THEN Read(key) ELSE file[key]]

-----------------------------------------------------------------------------
(* The account: how to sign in, and the passphrase of its secrets.         *)

\* The wallet key: exactly one source, that makes a signer.  The wallet is
\* one value, whether it is given by its key or by its phrase.
KeySource(tron) == {key \in {"private_key", "seed_phrase"} : Given(tron[key])}
FromPrivateKeyHex(key) == IF key = "bad" THEN None ELSE key
FromSeedPhrase(phrase) == IF phrase = "bad" THEN None ELSE phrase
Signer(tron) ==
  CASE KeySource(tron) = {"private_key"} -> FromPrivateKeyHex(tron.private_key)
    [] KeySource(tron) = {"seed_phrase"} -> FromSeedPhrase(tron.seed_phrase)
    [] OTHER -> None

Modes(user) ==
     (IF Given(user.password) THEN {"password"} ELSE {})
\cup (IF Given(user.access_token) THEN {"token"} ELSE {})
\cup (IF user.tron # None THEN {"wallet"} ELSE {})

\* user_id: the localpart at the server, which a password does without.
UserIdParses(user) == "bad" \notin {user.localpart, user.server_name}

\* The way to sign in, None when there is not exactly one or it is not whole.
AuthConfig(user) ==
  CASE Modes(user) = {"password"} -> "password"
    [] Modes(user) = {"token"} /\ Given(user.device_id) /\ UserIdParses(user) -> "token"
    [] Modes(user) = {"wallet"} /\ Signer(user.tron) # None /\ UserIdParses(user) -> "wallet"
    [] OTHER -> None

\* The passphrase of the secret storage: the configured one, or the one the
\* wallet signs (it stands for the signature over the account's id).
RecoveryPassphrase(user) ==
  CASE user.recovery_passphrase # None -> user.recovery_passphrase
    [] user.recovery_passphrase = None /\ AuthConfig(user) = "wallet" -> Signer(user.tron)
    [] OTHER -> None

-----------------------------------------------------------------------------
(* The rules.                                                              *)

HomeserverValid(config) == config.server_name # "" /\ config.url # ""

EncryptionValid(config) == config.recovery_passphrase # ""
UserValid(config) ==
  /\ config.localpart # "" /\ AuthConfig(config) # None
  /\ config.name # "" /\ EncryptionValid(config)

\* An empty key is none; the session's key is looked at later.
KeyParses(key) == key # "bad"
PersistenceValid(config) == config.data_dir # "missing" /\ KeyParses(config.config_key)

I18nValid(config) == config.fallback_locale \in Locales

\* The introductions: none, or one for every user.
RoomValid(config) ==
  DOMAIN config.introductions # {} =>
    /\ DOMAIN config.introductions \subseteq Locales
    /\ \A locale \in DOMAIN config.introductions : config.introductions[locale] # ""
    /\ config.fallback_locale \in DOMAIN config.introductions

AccessValid(config) ==
  /\ config.admin_patterns # {} /\ "bad" \notin config.admin_patterns
  /\ config.admin_exempt \subseteq CommandHeads

\* The first handlers name agents of the configuration, by an id that says
\* so; that they are defined is not looked at.
InitialValid(config) ==
  /\ "bad" \notin config.user_patterns
  /\ \A purpose \in DOMAIN config.initial :
       config.initial[purpose] # None => config.initial[purpose] \in StaticIds

BillingValid(billing) ==
  /\ \A amount \in billing.amounts \cup {billing.min_topup, billing.max_topup} : amount > 0
  /\ billing.min_topup <= billing.max_topup
  /\ "bad" \notin billing.admins
  /\ \A price \in billing.prices : price >= 0

\* The webhook is bound to loopback unless told otherwise.
BindAllowed(x402) == x402.loopback \/ x402.allow_non_loopback
X402Valid(x402) == x402.url = "http" /\ x402.secret # "" /\ BindAllowed(x402)

\* Config::validate, run on the configuration as overridden.
Validate(config) ==
  /\ HomeserverValid(config) /\ UserValid(config) /\ PersistenceValid(config)
  /\ I18nValid(config) /\ RoomValid(config) /\ AccessValid(config)
  /\ config.prefix # "" /\ InitialValid(config)
  /\ config.billing # None => BillingValid(config.billing)
  /\ config.x402 # None => config.billing # None /\ X402Valid(config.x402)

-----------------------------------------------------------------------------
(* What a start derives.                                                   *)

\* What Bot::new still refuses once the rules are met, before it signs in:
\* agent definitions that make no agent, no data directory, a session key
\* that does not parse.
Prepared(config) ==
  config.agents /\ config.data_dir # None /\ KeyParses(config.session_key)

\* Where the ledger is: as configured, or in the data directory.
DbPath(config) == IF config.billing.db_path # None THEN config.billing.db_path ELSE config.data_dir

\* The avatar to show, None to leave the present one alone.
DesiredAvatar(config) ==
  CASE config.avatar \in {None, ""} -> "logo"
    [] config.avatar = "keep" -> None
    [] OTHER -> config.avatar
=============================================================================
