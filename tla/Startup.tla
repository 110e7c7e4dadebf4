------------------------------ MODULE Startup ------------------------------
(***************************************************************************)
(* A start of the bot, from its configuration to the sync, with the        *)
(* account it signs in to.  The process may be killed between any two      *)
(* steps and started again, with another configuration or with the data    *)
(* directory lost; meanwhile the wallet may be bound to somebody else and  *)
(* the account's other clients replace its secret storage, its key backup  *)
(* or its profile.                                                         *)
(*                                                                         *)
(* On the homeserver: the devices (of this bot's making), the user the     *)
(* wallet is bound to, the secret storage (the passphrase that opens it    *)
(* and the backup key in it), the key backup (a version, 0 for none) and   *)
(* the profile.  In the data directory: the session and the version of the *)
(* backup key the crypto store holds.  matrix-sdk and mxlink do what the   *)
(* callers say of them (see the README).                                   *)
(***************************************************************************)
EXTENDS StaticConfig

CONSTANTS Deployments,  \* pairs of a file and environment variables to start with
          MaxStarts, MaxMishaps, MaxOthers  \* bounds: starts; kills and losses; changes by others

\* What happened, a device and a storage are never taken for the absence of one.
ASSUME NoneAssumption ==
  LET phrases == {"own", "P", "W"} \cup {RecoveryPassphrase(Load(d.file, d.env)) : d \in Deployments}
  IN  /\ None \notin {"unfit", "no_storage", "wrong_key", "inconsistent"}
      /\ None \notin [user : {"bot", "somebody"}, id : Nat]
      /\ None \notin [passphrase : phrases, key : Nat]
ASSUME StartupBounds == {MaxStarts, MaxMishaps, MaxOthers} \subseteq Nat

VARIABLES pc, config, outcome, seen, made_device,     \* this start
          session, secrets,                           \* data directory
          devices, binding, storage, backup, profile, \* homeserver
          starts, mishaps, others, versions,
          abandoned   \* the starts whose device may be left behind

process == <<pc, config, outcome, seen, made_device>>
data == <<session, secrets>>
account == <<devices, binding, storage, backup, profile>>
history == <<starts, mishaps, others, versions, abandoned>>
startupVars == <<process, data, account, history>>

Users == {"bot", "somebody"}
Passphrase == RecoveryPassphrase(config)
Storage(passphrase, key) == [passphrase |-> passphrase, key |-> key]

StartupInit ==
  /\ pc = "down" /\ config = None /\ outcome = None /\ seen = 0 /\ made_device = FALSE
  /\ session = None /\ secrets = 0
  /\ devices = {} /\ binding = "bot" /\ storage = None /\ backup = 0
  /\ profile = [name |-> None, avatar |-> None]
  /\ starts = 0 /\ mishaps = 0 /\ others = 0 /\ versions = 0 /\ abandoned = {}

At(here, there) == pc = here /\ pc' = there

\* An error ends the start: main returns it.
Exit == pc' = "down"

(* Configuration *)

\* main: the operator starts the bot.
Start(file, env) ==
  /\ At("down", "load") /\ starts < MaxStarts
  /\ starts' = starts + 1
  /\ config' = Load(file, env)
  /\ outcome' = None /\ seen' = others /\ made_device' = FALSE
  /\ UNCHANGED <<data, account, mishaps, others, versions, abandoned>>

\* load_config: the rules, on the values as overridden.
CheckConfig ==
  /\ pc = "load"
  /\ IF Validate(config) THEN pc' = "prepare" /\ UNCHANGED config
     ELSE Exit /\ config' = None
  /\ UNCHANGED <<outcome, seen, made_device, data, account, history>>

\* Faulty variant: the wallet signs in at every start, session file or not.
Prepare_SignsInAnew ==
  /\ pc = "prepare"
  /\ pc' = CASE ~Prepared(config) -> "down"
             [] Prepared(config) /\ AuthConfig(config) = "wallet" -> "lookup"
             [] OTHER -> IF session = None THEN "login" ELSE "recover"
  /\ config' = IF Prepared(config) THEN config ELSE None
  /\ UNCHANGED <<outcome, seen, made_device, data, account, history>>

\* Bot::new up to the sign-in, with the keys create_matrix_link parses; a
\* session file stands in for the wallet.
Prepare ==
  /\ pc = "prepare"
  /\ pc' = CASE ~Prepared(config) -> "down"
             [] Prepared(config) /\ session # None -> "recover"
             [] Prepared(config) /\ session = None /\ AuthConfig(config) = "wallet" -> "lookup"
             [] OTHER -> "login"
  /\ config' = IF Prepared(config) THEN config ELSE None
  /\ UNCHANGED <<outcome, seen, made_device, data, account, history>>

(* Sign-in *)

\* The wallet must be bound to the configured user.
Lookup ==
  /\ pc = "lookup"
  /\ IF binding = "bot" THEN pc' = "challenge" ELSE Exit
  /\ UNCHANGED <<config, outcome, seen, made_device, data, account, history>>

\* A challenge for the wallet, refused for an unbound wallet (the localpart
\* is taken), signed.
SignChallenge ==
  /\ pc = "challenge"
  /\ IF binding # None THEN pc' = "login" ELSE Exit
  /\ UNCHANGED <<config, outcome, seen, made_device, data, account, history>>

\* The homeserver makes a device for the user it decides on: of the wallet
\* whoever it is bound to now, of the password the configured one.  A token
\* comes with its device.
LoggedInAs == IF AuthConfig(config) = "wallet" THEN binding ELSE "bot"
Device ==
  IF AuthConfig(config) = "token" THEN [user |-> "bot", id |-> 0] ELSE [user |-> LoggedInAs, id |-> starts]
SignInRefused ==
  /\ pc = "login" /\ LoggedInAs = None /\ Exit
  /\ UNCHANGED <<config, outcome, seen, made_device, data, account, history>>
Login ==
  /\ pc = "login" /\ LoggedInAs # None
  /\ devices' = devices \cup {Device}
  /\ made_device' = TRUE
  /\ pc' = "loggedin"
  /\ UNCHANGED <<config, outcome, seen, data, binding, storage, backup, profile, history>>

\* The device this start made and has not saved.
Fresh == {d \in devices : d.id = IF AuthConfig(config) = "token" THEN 0 ELSE starts}

\* An answer for another user is refused, its device left behind; otherwise
\* mxlink::init saves the session, if it can (see Fails).
SaveSession ==
  /\ pc = "loggedin"
  /\ \E device \in Fresh :
       IF device.user = "bot"
       THEN /\ session' = device /\ secrets' = 0 /\ pc' = "recover"
            /\ UNCHANGED abandoned
       ELSE /\ Exit /\ abandoned' = abandoned \cup {starts}
            /\ UNCHANGED data
  /\ UNCHANGED <<config, outcome, seen, made_device, account, starts, mishaps, others, versions>>

(* Recovery *)

StorageOpens == storage # None /\ storage.passphrase = Passphrase

\* recovery.recover(passphrase), as classify tells its failures apart.
Failure ==
  CASE storage = None -> "no_storage"
    [] storage # None /\ storage.passphrase # Passphrase -> "wrong_key"
    [] storage # None /\ storage.passphrase = Passphrase /\ backup # 0 /\ storage.key # backup ->
         "inconsistent"
    [] OTHER -> None

\* ensure: what each failure leads to.
AfterFailure(failure) ==
  CASE failure = "no_storage" -> "enable"
    [] failure = "wrong_key" -> IF config.recovery_reset_allowed THEN "reset" ELSE "down"
    [] failure = "inconsistent" -> IF config.recovery_reset_allowed THEN "fix" ELSE "down"

\* Faulty variant: the storage is opened, and the key in it not imported.
Recover_OpensOnly ==
  /\ pc = "recover"
  /\ seen' = others
  /\ IF Passphrase = None \/ Failure = None
     THEN /\ pc' = "open"
          /\ outcome' = IF Passphrase = None THEN "device_only" ELSE "imported"
     ELSE pc' = AfterFailure(Failure) /\ UNCHANGED outcome
  /\ UNCHANGED <<config, made_device, data, account, history>>

Recover ==
  /\ pc = "recover"
  /\ seen' = others
  /\ IF Passphrase = None \/ Failure = None
     THEN /\ pc' = "open"
          /\ outcome' = IF Passphrase = None THEN "device_only" ELSE "imported"
          /\ secrets' = IF Passphrase = None THEN secrets ELSE storage.key
     ELSE pc' = AfterFailure(Failure) /\ UNCHANGED <<outcome, secrets>>
  /\ UNCHANGED <<config, made_device, session, account, history>>

\* reset_key: a new storage for the passphrase, with what the device has.
ResetKey ==
  /\ At("reset", "open")
  /\ storage' = Storage(Passphrase, secrets) /\ outcome' = "key_reset"
  /\ UNCHANGED <<config, seen, made_device, data, devices, binding, backup, profile, history>>

NewBackup ==
  /\ versions' = versions + 1 /\ backup' = versions' /\ secrets' = versions'

\* recover_and_fix_backup: opens the storage again and replaces the backup.
FixBackup ==
  /\ pc = "fix"
  /\ IF StorageOpens
     THEN /\ NewBackup /\ storage' = Storage(Passphrase, versions')
          /\ pc' = "open" /\ outcome' = "backup_recreated"
     ELSE Exit /\ UNCHANGED <<versions, backup, secrets, storage, outcome>>
  /\ UNCHANGED <<config, seen, made_device, session, devices, binding, profile,
                 starts, mishaps, others, abandoned>>

\* Faulty variant: a backup this device cannot use is replaced in any case.
Enable_ReplacesForeign ==
  /\ pc = "enable"
  /\ IF backup = 0 THEN NewBackup /\ pc' = "store"
     ELSE /\ pc' = IF secrets = backup THEN "store" ELSE "delete"
          /\ UNCHANGED <<versions, backup, secrets>>
  /\ UNCHANGED <<config, outcome, seen, made_device, session, devices, binding, storage, profile,
                 starts, mishaps, others, abandoned>>

\* create: enable makes a backup unless this device has the present one, and
\* refuses to replace one this device cannot use; that takes the consent.
Enable ==
  /\ pc = "enable"
  /\ CASE backup = 0 -> NewBackup /\ pc' = "store"
       [] backup # 0 /\ secrets = backup -> pc' = "store" /\ UNCHANGED <<versions, backup, secrets>>
       [] backup # 0 /\ secrets # backup ->
            /\ pc' = IF config.recovery_reset_allowed THEN "delete" ELSE "down"
            /\ UNCHANGED <<versions, backup, secrets>>
  /\ UNCHANGED <<config, outcome, seen, made_device, session, devices, binding, storage, profile,
                 starts, mishaps, others, abandoned>>

\* disable_and_delete, and enable once more.
DeleteBackup ==
  /\ At("delete", "enable_again")
  /\ backup' = 0 /\ secrets' = 0
  /\ UNCHANGED <<config, outcome, seen, made_device, session, devices, binding, storage, profile,
                 history>>
EnableAgain ==
  /\ pc = "enable_again"
  /\ IF backup = 0 THEN NewBackup /\ pc' = "store"
     ELSE Exit /\ UNCHANGED <<versions, backup, secrets>>
  /\ UNCHANGED <<config, outcome, seen, made_device, session, devices, binding, storage, profile,
                 starts, mishaps, others, abandoned>>

\* enable, second half: the storage, with the device's key.
CreateStorage ==
  /\ At("store", "open")
  /\ storage' = Storage(Passphrase, secrets) /\ outcome' = "created"
  /\ UNCHANGED <<config, seen, made_device, data, devices, binding, backup, profile, history>>

(* The rest of Bot::new, and Bot::start *)

\* open_billing and create_x402_client: the ledger has to be somewhere.
OpenLedger ==
  /\ pc = "open"
  /\ IF config.billing # None /\ DbPath(config) = None
     THEN Exit /\ outcome' = "unfit"
     ELSE pc' = (IF config.x402 # None THEN "bind" ELSE "profile") /\ UNCHANGED outcome
  /\ UNCHANGED <<config, seen, made_device, data, account, history>>

\* start_x402: binds the port the sidecar posts settlements to, not to an
\* address others can reach unless told to; then the event handlers and the
\* catch-up marker.
BindWebhook ==
  /\ pc = "bind"
  /\ IF BindAllowed(config.x402) THEN pc' = "profile" /\ UNCHANGED outcome
     ELSE Exit /\ outcome' = "unfit"
  /\ UNCHANGED <<config, seen, made_device, data, account, history>>

\* What the homeserver may have done for a start that does not hear of it: a
\* device made; a backup made, without the device having its key, or deleted.
LoginUnheard ==
  \/ UNCHANGED devices
  \/ /\ pc = "login" /\ LoggedInAs # None /\ AuthConfig(config) # "token"
     /\ devices' = devices \cup {Device}
BackupUnheard ==
  \/ UNCHANGED <<backup, versions>>
  \/ /\ (pc \in {"enable", "enable_again"} /\ backup = 0) \/ (pc = "fix" /\ StorageOpens)
     /\ versions' = versions + 1 /\ backup' = versions'
  \/ /\ pc = "delete" \/ (pc = "fix" /\ StorageOpens)
     /\ backup' = 0 /\ UNCHANGED versions

\* The start ends where it is.  Until its session is saved, its device may be
\* left behind.
CutShort ==
  /\ Exit
  /\ LoginUnheard /\ BackupUnheard
  /\ abandoned' = IF pc \in {"login", "loggedin"} THEN abandoned \cup {starts} ELSE abandoned
  /\ UNCHANGED <<config, outcome, seen, made_device, data, binding, storage, profile, starts, others>>

\* A request that is not answered, a file or a port that cannot be had: any
\* of the steps before the profile may end the start.  After the login it is
\* the session that cannot be written, or the store that cannot be opened.
Fails ==
  /\ pc \in {"lookup", "challenge", "login", "loggedin", "recover", "reset", "fix", "enable",
             "delete", "enable_again", "store", "open", "bind"}
  /\ CutShort
  /\ UNCHANGED mishaps

\* do_prepare_profile: the name first; then the avatar, unless it is to be
\* kept.  A present avatar is fetched to compare, which fails when its media
\* is gone; a custom one is read from its file.
NameSet == [profile EXCEPT !.name = config.name]
\* Faulty variant: the present avatar is fetched even if it is to be kept.
AvatarPossible_ComparesAlways == DesiredAvatar(config) # "unreadable" /\ profile.avatar # "gone"

AvatarPossible ==
  \/ DesiredAvatar(config) = None
  \/ DesiredAvatar(config) # "unreadable" /\ profile.avatar # "gone"
ProfileSet ==
  IF DesiredAvatar(config) = None THEN NameSet ELSE [NameSet EXCEPT !.avatar = DesiredAvatar(config)]
PrepareProfile ==
  /\ At("profile", "sync") /\ AvatarPossible
  /\ profile' = ProfileSet
  /\ UNCHANGED <<config, outcome, seen, made_device, data, devices, binding, storage, backup, history>>

\* An attempt that fails before or after the name, or whose last answer is
\* lost: prepare_profile waits and tries again, for ever.
ProfileFails ==
  /\ pc = "profile"
  /\ profile' \in {profile, NameSet} \cup (IF AvatarPossible THEN {ProfileSet} ELSE {})
  /\ UNCHANGED <<process, data, devices, binding, storage, backup, history>>

\* The sync ends with an error only.
SyncFails ==
  /\ pc = "sync" /\ Exit
  /\ UNCHANGED <<config, outcome, seen, made_device, data, account, history>>

(* Accidents and the account's other clients *)

\* The process is killed.
Kill ==
  /\ pc # "down" /\ mishaps < MaxMishaps
  /\ CutShort
  /\ mishaps' = mishaps + 1

\* The data directory is lost, or removed to sign in afresh.
LoseData ==
  /\ pc = "down" /\ session # None /\ mishaps < MaxMishaps
  /\ session' = None /\ secrets' = 0
  /\ mishaps' = mishaps + 1 /\ abandoned' = abandoned \cup {session.id}
  /\ UNCHANGED <<process, account, starts, others, versions>>

\* Another client of the account (or its owner): the wallet is bound anew,
\* the backup replaced, with or without a storage for it, the storage taken
\* away, the profile changed, the avatar's media removed.
OthersAct ==
  /\ others < MaxOthers /\ others' = others + 1
  /\ \/ binding' \in (Users \cup {None}) \ {binding}
        /\ UNCHANGED <<storage, backup, versions, profile>>
     \/ /\ versions' = versions + 1 /\ backup' = versions'
        /\ \E passphrase \in {"own", "P", "W"} :
             storage' \in {storage, None, Storage(passphrase, versions')}
        /\ UNCHANGED <<binding, profile>>
     \/ /\ profile' \in {[profile EXCEPT !.name = "renamed"], [profile EXCEPT !.avatar = "picture"],
                         [profile EXCEPT !.avatar = "gone"]}
        /\ UNCHANGED <<binding, storage, backup, versions>>
  /\ UNCHANGED <<process, data, devices, starts, mishaps, abandoned>>

Recovery == Recover \/ ResetKey \/ FixBackup \/ Enable \/ DeleteBackup \/ EnableAgain \/ CreateStorage
BootStep ==
  \/ CheckConfig \/ Prepare \/ Lookup \/ SignChallenge \/ SignInRefused \/ Login \/ SaveSession
  \/ Recovery \/ OpenLedger \/ BindWebhook \/ PrepareProfile
StartupNext ==
  \/ \E d \in Deployments : Start(d.file, d.env)
  \/ BootStep \/ Fails \/ ProfileFails \/ SyncFails \/ Kill \/ LoseData \/ OthersAct

\* A start goes on, and the homeserver, asked again and again for the
\* profile, answers at some time.
StartupFairness == WF_startupVars(BootStep) /\ SF_startupVars(PrepareProfile)

(* Properties *)

Up == pc \in {"open", "bind", "profile", "sync"}

\* The bot runs as the configured user and no other, whatever happens to the
\* wallet's binding between the lookup and the login.  No start makes two
\* devices; and a device (but a token's, which comes with it) that is not the
\* one it runs with was left by a start that ended at the login, or between
\* it and the saved session, or was lost with the data directory: a start that
\* finds a session makes none, and one that gets past the sign-in leaves none,
\* so that restarts do not pile up devices.  No start makes a device only to
\* find that its configuration is unfit for what follows.
SignInIsAccounted ==
  /\ session # None => session.user = "bot"
  /\ \A d, e \in devices : d.id = e.id => d = e
  /\ \A d \in devices \ {session} :
       d.id \in abandoned \cup {0} \/ (pc = "loggedin" /\ d.id = starts)
  /\ outcome = "unfit" => ~made_device

\* Once a start with a passphrase is past the recovery and nobody else has
\* touched the account since, a data directory that is lost can be made up
\* for: the passphrase opens the storage, which holds what the device holds,
\* the key of the present backup.  (After a key reset it is the device's key,
\* which may be of an older backup; and there may be no backup to have the
\* key of, after a reset that was cut short.)  And the bot that syncs shows the name
\* and the avatar it is configured with.
UpAsConfigured ==
  others = seen =>
    /\ Up /\ Passphrase # None =>
         /\ storage # None /\ storage.passphrase = Passphrase /\ storage.key = secrets
         /\ outcome # "key_reset" => storage.key = backup \/ backup = 0
    /\ pc = "sync" =>
         /\ profile.name = config.name
         /\ DesiredAvatar(config) # None => profile.avatar = DesiredAvatar(config)

\* The bot replaces a key backup, or a secret storage that was there when it
\* looked, only in a start that has recovery_reset_allowed.
NothingLostWithoutConsent ==
  [][others' = others =>
       /\ backup # 0 /\ backup' # backup => config.recovery_reset_allowed
       /\ storage # None /\ storage' # storage /\ others = seen => config.recovery_reset_allowed]_startupVars

\* Every start comes to the sync or ends, unless it hangs at the avatar: a
\* file that cannot be read, or a present avatar whose media is gone.
AvatarHangs ==
  /\ config # None
  /\ \/ config.avatar = "unreadable"
     \/ DesiredAvatar(config) # None /\ profile.avatar = "gone"
StartsComeUp == (pc # "down") ~> (pc \in {"down", "sync"} \/ AvatarHangs)
=============================================================================
