--------------------------- MODULE BotLifeProofs ---------------------------
(***************************************************************************)
(* Theorems about BotLife, for any deployments, rooms, agents and commands *)
(* and any number of starts, kills, losses and changes by the account's    *)
(* other clients.                                                          *)
(*                                                                         *)
(* A start goes through its stages once.  ChecksInv says what the stages   *)
(* before the present one have made sure of, DevicesInv where the devices  *)
(* went, RecoveryInv what is known of the storage and the backup as long   *)
(* as nobody else has touched the account.                                 *)
(*                                                                         *)
(* The settings: SettingsInv says that what is stored is a document with   *)
(* every setting in its section, so that a setter changes what it names    *)
(* and nothing else (WithValue, WithHandler); what rooms use is a function *)
(* of those documents (GoesBy).  The status is true of any documents.      *)
(***************************************************************************)
EXTENDS BotLife, TLAPS

Loaded == {Load(d.file, d.env) : d \in Deployments}

\* The stages, in the order of a start.
Beginning == {"load", "prepare", "lookup", "challenge", "login"}
SigningIn == {"lookup", "challenge", "login", "loggedin"}
Mending   == {"reset", "fix"}
Creating  == {"enable", "delete", "enable_again", "store"}
Stages == {"down", "recover"} \cup Beginning \cup SigningIn \cup Mending \cup Creating
            \cup {"open", "bind", "profile", "sync"}

Devices == [user : Users, id : 0..starts]
Phrases == {"own", "P", "W"} \cup {RecoveryPassphrase(c) : c \in Loaded}
Storages == [passphrase : Phrases, key : Nat]

TypeInv ==
  /\ pc \in Stages
  /\ starts \in Nat /\ others \in Nat /\ versions \in Nat
  /\ seen \in 0..others
  /\ secrets \in Nat /\ backup \in Nat
  /\ DOMAIN profile = {"name", "avatar"}
  /\ binding \in Users \cup {None}
  /\ devices \subseteq Devices
  /\ storage \in Storages \cup {None}

\* Nothing but the rules let a start go on, so what was checked still holds.
ChecksInv ==
  /\ pc # "down" => config \in Loaded /\ starts > 0
  /\ pc \notin {"down", "load"} => Validate(config)
  /\ pc \notin {"down", "load", "prepare"} => Prepared(config)
  /\ pc = "bind" => config.x402 # None
  /\ outcome # "unfit"

\* The device of this start is made by Login, or by a login whose answer is
\* lost, and no earlier; it is the only one of its number, 0 standing for the
\* token's.
DevicesInv ==
  /\ session # None => session.user = "bot"
  /\ pc \in SigningIn => session = None
  /\ \A d \in devices \ {session} : d.id \in abandoned \cup {0} \/ (pc = "loggedin" /\ d \in Fresh)
  /\ \A d, e \in devices : d.id = e.id => d = e
  /\ \A d \in devices : d.id = 0 => d.user = "bot"
  /\ pc \in Beginning => \A d \in devices : d.id # starts

\* What is replaced was consented to, or was not there; the storage that is
\* made gets the key of the backup that is there.
RecoveryInv ==
  /\ pc \in Mending \cup Creating => Passphrase # None
  /\ pc \in Mending \cup {"delete", "enable_again"} => config.recovery_reset_allowed
  /\ others = seen =>
       /\ pc \in Creating => storage = None
       /\ pc = "store" => secrets = backup

Inv == TypeInv /\ ChecksInv /\ DevicesInv /\ RecoveryInv /\ UpAsConfigured

-----------------------------------------------------------------------------
(* The parts of the invariant, over the steps of a start.                  *)

LEMMA NothingIsNone ==
  /\ None # "unfit" /\ None \notin Storages
  /\ None \notin {"no_storage", "wrong_key", "inconsistent"}
  /\ starts \in Nat => None \notin Devices
<1>1. {RecoveryPassphrase(Load(d.file, d.env)) : d \in Deployments} = {RecoveryPassphrase(c) : c \in Loaded}
  BY DEF Loaded
<1>2. starts \in Nat => Devices \subseteq [user : {"bot", "somebody"}, id : Nat]
  BY DEF Devices, Users
<1> QED BY <1>1, <1>2, NoneAssumption DEF Storages, Phrases

LEMMA PassphraseIsPhrase == config \in Loaded => Passphrase \in Phrases
BY DEF Passphrase, Phrases

\* What ensure finds, and where it goes from there.
LEMMA WhereFailuresLead ==
  /\ Failure = None => /\ storage # None /\ storage.passphrase = Passphrase
                       /\ backup # 0 => storage.key = backup
  /\ Failure # None =>
       /\ AfterFailure(Failure) \in {"enable", "reset", "fix", "down"}
       /\ AfterFailure(Failure) = "enable" => storage = None
       /\ AfterFailure(Failure) \in Mending => config.recovery_reset_allowed
<1> USE NothingIsNone
<1>1. CASE storage = None
  <2>1. Failure = "no_storage"
    BY <1>1 DEF Failure
  <2> QED BY <1>1, <2>1 DEF AfterFailure, Mending
<1>2. CASE storage # None /\ storage.passphrase # Passphrase
  <2>1. Failure = "wrong_key"
    BY <1>2, Zenon DEF Failure
  <2>2. AfterFailure("wrong_key") = IF config.recovery_reset_allowed THEN "reset" ELSE "down"
    BY DEF AfterFailure
  <2> QED BY <1>2, <2>1, <2>2 DEF Mending
<1>3. CASE storage # None /\ storage.passphrase = Passphrase /\ backup # 0 /\ storage.key # backup
  <2>1. Failure = "inconsistent"
    BY <1>3, Zenon DEF Failure
  <2>2. AfterFailure("inconsistent") = IF config.recovery_reset_allowed THEN "fix" ELSE "down"
    BY DEF AfterFailure
  <2> QED BY <1>3, <2>1, <2>2 DEF Mending
<1>4. CASE storage # None /\ storage.passphrase = Passphrase /\ ~(backup # 0 /\ storage.key # backup)
  <2>1. Failure = None
    BY <1>4, Zenon DEF Failure
  <2> QED BY <1>4, <2>1
<1> QED BY <1>1, <1>2, <1>3, <1>4

LEMMA Enabling ==
  ASSUME Enable
  PROVE  /\ pc = "enable" /\ pc' \in {"store", "delete", "down"}
         /\ pc' = "store" => IF backup = 0 THEN NewBackup
                             ELSE secrets = backup /\ UNCHANGED <<versions, backup, secrets>>
         /\ pc' # "store" => backup # 0 /\ UNCHANGED <<versions, backup, secrets>>
         /\ pc' = "delete" => config.recovery_reset_allowed
         /\ UNCHANGED <<config, outcome, seen, made_device, session, devices, binding, storage, profile,
                        starts, mishaps, others, abandoned>>
<1>1. CASE backup = 0
  <2>1. NewBackup /\ pc' = "store"
    BY <1>1, Zenon DEF Enable
  <2> QED BY <1>1, <2>1 DEF Enable
<1>2. CASE backup # 0 /\ secrets = backup
  <2>1. pc' = "store" /\ UNCHANGED <<versions, backup, secrets>>
    BY <1>2, Zenon DEF Enable
  <2> QED BY <1>2, <2>1 DEF Enable
<1>3. CASE backup # 0 /\ secrets # backup
  <2>1. /\ pc' = IF config.recovery_reset_allowed THEN "delete" ELSE "down"
        /\ UNCHANGED <<versions, backup, secrets>>
    BY <1>3, Zenon DEF Enable
  <2> QED BY <1>3, <2>1 DEF Enable
<1> QED BY <1>1, <1>2, <1>3

\* A session file stands in for the sign-in.
LEMMA Preparing ==
  ASSUME Prepare
  PROVE  /\ pc = "prepare" /\ pc' \in {"down", "recover", "lookup", "login"}
         /\ pc' # "down" => Prepared(config) /\ config' = config
         /\ pc' \in SigningIn => session = None
<1>1. CASE ~Prepared(config)
  BY <1>1, Zenon DEF Prepare, SigningIn
<1>2. CASE Prepared(config) /\ session # None
  BY <1>2, Zenon DEF Prepare, SigningIn
<1>3. CASE Prepared(config) /\ session = None /\ AuthConfig(config) = "wallet"
  BY <1>3, Zenon DEF Prepare, SigningIn
<1>4. CASE Prepared(config) /\ session = None /\ AuthConfig(config) # "wallet"
  BY <1>4, Zenon DEF Prepare, SigningIn
<1> QED BY <1>1, <1>2, <1>3, <1>4

\* What a login, heard of or not, makes.
LEMMA DeviceMade ==
  ASSUME Inv, pc = "login", LoggedInAs # None
  PROVE  /\ Device \in Devices
         /\ Device.id = IF AuthConfig(config) = "token" THEN 0 ELSE starts
         /\ Device.id = 0 => Device.user = "bot"
         /\ \A d \in devices : d.id = Device.id => d = Device
<1>1. starts \in Nat /\ starts > 0 /\ devices \subseteq Devices
  BY DEF Inv, TypeInv, ChecksInv
<1>2. LoggedInAs \in Users
  BY DEF Inv, TypeInv, LoggedInAs, Users
<1>3. \A d \in devices : d.id # starts /\ (d.id = 0 => d.user = "bot")
  BY DEF Inv, DevicesInv, Beginning
<1>4. CASE AuthConfig(config) = "token"
  <2>1. Device = [user |-> "bot", id |-> 0]
    BY <1>4 DEF Device
  <2>2. ASSUME NEW d \in devices, d.id = 0 PROVE d = [user |-> "bot", id |-> 0]
    BY <1>1, <1>3, <2>2 DEF Devices
  <2> QED BY <1>1, <1>4, <2>1, <2>2 DEF Devices, Users
<1>5. CASE AuthConfig(config) # "token"
  <2>1. Device = [user |-> LoggedInAs, id |-> starts]
    BY <1>5 DEF Device
  <2> QED BY <1>1, <1>2, <1>3, <1>5, <2>1 DEF Devices
<1> QED BY <1>4, <1>5

\* Wherever a start is cut short, and whatever the homeserver did of it: a
\* backup is replaced with consent only, a device counted as left behind.
LEMMA CutShortLeaves ==
  ASSUME Inv, CutShort
  PROVE  /\ pc' = "down" /\ UNCHANGED <<config, outcome, seen, data, binding, storage, profile, starts, others>>
         /\ versions' \in Nat /\ backup' \in Nat
         /\ backup # 0 /\ backup' # backup => config.recovery_reset_allowed
         /\ \/ UNCHANGED devices
            \/ /\ pc = "login" /\ LoggedInAs # None /\ AuthConfig(config) # "token"
               /\ devices' = devices \cup {Device}
         /\ abandoned' = IF pc \in {"login", "loggedin"} THEN abandoned \cup {starts} ELSE abandoned
<1> USE DEF CutShort
<1>1. versions' \in Nat /\ backup' \in Nat
  BY DEF BackupUnheard, Inv, TypeInv
<1>2. backup # 0 /\ backup' # backup => config.recovery_reset_allowed
  BY DEF BackupUnheard, Inv, RecoveryInv, Mending
<1>3. LoginUnheard
  OBVIOUS
<1> QED BY <1>1, <1>2, <1>3 DEF LoginUnheard, Exit, data

LEMMA InitInv == Init => Inv
<1> SUFFICES ASSUME Init PROVE Inv
  OBVIOUS
<1> USE NothingIsNone DEF Init, StartupInit
<1>1. TypeInv
  BY DEF TypeInv, Stages, Devices, Users
<1>2. ChecksInv
  BY DEF ChecksInv
<1>3. DevicesInv
  BY DEF DevicesInv, SigningIn, Beginning
<1>4. RecoveryInv
  BY DEF RecoveryInv, Mending, Creating
<1>5. UpAsConfigured
  BY DEF UpAsConfigured, Up
<1> QED BY <1>1, <1>2, <1>3, <1>4, <1>5 DEF Inv

LEMMA TypesStep == Inv /\ StartupNext => TypeInv'
<1> SUFFICES ASSUME Inv, StartupNext PROVE TypeInv'
  OBVIOUS
<1> USE NothingIsNone DEF Inv, TypeInv, Stages, Beginning, SigningIn, Mending, Creating, Exit, At,
        process, data, account, history
<1>0. starts' >= starts /\ starts' \in Nat => Devices \subseteq Devices'
  BY DEF Devices
<1>1. ASSUME NEW d \in Deployments, Start(d.file, d.env) PROVE TypeInv'
  BY <1>0, <1>1 DEF Start
<1>2. CASE CheckConfig \/ Lookup \/ SignChallenge \/ SignInRefused
  BY <1>2 DEF CheckConfig, Lookup, SignChallenge, SignInRefused, Devices
<1>p. CASE Prepare
  BY <1>p, Preparing DEF Prepare, Devices
<1>3. CASE Login
  <2>1. devices' \subseteq Devices /\ Devices' = Devices
    BY <1>3, DeviceMade DEF Login, Devices
  <2> QED BY <1>3, <2>1 DEF Login
<1>4. CASE SaveSession
  BY <1>4 DEF SaveSession, Devices
<1>5. CASE Recover
  <2>1. Failure = None => storage.key \in Nat
    BY WhereFailuresLead DEF Storages
  <2> QED BY <1>5, <2>1, WhereFailuresLead DEF Recover, Devices
<1>6. CASE ResetKey \/ CreateStorage \/ FixBackup
  <2>1. pc \in Mending \cup Creating /\ Passphrase \in Phrases
    BY <1>6, PassphraseIsPhrase DEF ResetKey, CreateStorage, FixBackup, RecoveryInv, ChecksInv
  <2>2. storage' \in Storages \cup {None} /\ versions' \in Nat /\ backup' \in Nat /\ secrets' \in Nat
    BY <1>6, <2>1 DEF ResetKey, CreateStorage, FixBackup, NewBackup, Storage, Storages
  <2> QED BY <1>6, <2>2 DEF ResetKey, CreateStorage, FixBackup, Devices, Storages
<1>7. CASE DeleteBackup \/ EnableAgain
  BY <1>7 DEF DeleteBackup, EnableAgain, NewBackup, Devices
<1>e. CASE Enable
  BY <1>e, Enabling DEF NewBackup, Devices
<1>8. CASE OpenLedger \/ BindWebhook \/ SyncFails \/ LoseData
  BY <1>8 DEF OpenLedger, BindWebhook, SyncFails, LoseData, Devices
<1>c. CASE CutShort
  <2>1. Devices' = Devices /\ devices' \subseteq Devices
    BY <1>c, CutShortLeaves, DeviceMade DEF Devices
  <2> QED BY <1>c, <2>1, CutShortLeaves
<1>9. CASE PrepareProfile \/ ProfileFails
  <2>1. DOMAIN NameSet = {"name", "avatar"} /\ DOMAIN ProfileSet = {"name", "avatar"}
    BY DEF NameSet, ProfileSet
  <2> QED BY <1>9, <2>1 DEF PrepareProfile, ProfileFails, Devices
<1>10. CASE OthersAct
  <2>1. versions' \in Nat /\ backup' \in Nat /\ binding' \in Users \cup {None}
    BY <1>10 DEF OthersAct
  <2>2. storage' \in Storages \cup {None}
    BY <1>10, <2>1 DEF OthersAct, Storage, Storages, Phrases
  <2>3. DOMAIN profile' = {"name", "avatar"}
    BY <1>10 DEF OthersAct
  <2>4. others' \in Nat /\ seen' \in 0..others'
    BY <1>10 DEF OthersAct
  <2> QED BY <1>10, <2>1, <2>2, <2>3, <2>4 DEF OthersAct, Devices, Storages
<1> QED BY <1>1, <1>2, <1>p, <1>3, <1>4, <1>5, <1>6, <1>7, <1>e, <1>8, <1>c, <1>9, <1>10
        DEF StartupNext, BootStep, Recovery, Fails, Kill

\* The rules let no webhook through that is not to be bound (Config::validate).
LEMMA WebhookIsChecked ==
  ASSUME NEW c, Validate(c), c.x402 # None PROVE BindAllowed(c.x402)
BY DEF Validate, X402Valid

LEMMA ChecksStep == Inv /\ StartupNext => ChecksInv'
<1> SUFFICES ASSUME Inv, StartupNext PROVE ChecksInv'
  OBVIOUS
<1> USE NothingIsNone DEF Inv, TypeInv, ChecksInv, Exit, At, process, data, account, history
<1>1. ASSUME NEW d \in Deployments, Start(d.file, d.env) PROVE ChecksInv'
  BY <1>1 DEF Start, Loaded
<1>2. CASE CheckConfig \/ Lookup \/ SignChallenge \/ SignInRefused \/ Login \/ SaveSession
  BY <1>2 DEF CheckConfig, Lookup, SignChallenge, SignInRefused, Login, SaveSession
<1>3. CASE Prepare
  BY <1>3, Preparing DEF Prepare
<1>4. CASE Recover
  BY <1>4, WhereFailuresLead DEF Recover
<1>5. CASE Enable
  BY <1>5, Enabling
<1>6. CASE ResetKey \/ FixBackup \/ DeleteBackup \/ EnableAgain \/ CreateStorage
  BY <1>6 DEF ResetKey, FixBackup, DeleteBackup, EnableAgain, CreateStorage
<1>7. CASE OpenLedger
  <2>1. ~(config.billing # None /\ DbPath(config) = None)
    BY <1>7 DEF OpenLedger, Prepared, DbPath
  <2> QED BY <1>7, <2>1 DEF OpenLedger
<1>8. CASE BindWebhook
  <2>1. config.x402 # None /\ Validate(config)
    BY <1>8 DEF BindWebhook
  <2>2. BindAllowed(config.x402)
    BY <2>1, WebhookIsChecked
  <2> QED BY <1>8, <2>2 DEF BindWebhook
<1>9. CASE SyncFails \/ LoseData \/ PrepareProfile \/ ProfileFails \/ OthersAct
  BY <1>9 DEF SyncFails, LoseData, PrepareProfile, ProfileFails, OthersAct
<1>10. CASE CutShort
  BY <1>10, CutShortLeaves
<1> QED BY <1>1, <1>2, <1>3, <1>4, <1>5, <1>6, <1>7, <1>8, <1>9, <1>10
        DEF StartupNext, BootStep, Recovery, Fails, Kill

LEMMA DevicesStep == Inv /\ StartupNext => DevicesInv'
<1> SUFFICES ASSUME Inv, StartupNext PROVE DevicesInv'
  OBVIOUS
<1> USE NothingIsNone DEF Inv, DevicesInv, SigningIn, Beginning, Exit, At, process, data, account, history
<1>t. /\ starts \in Nat /\ devices \subseteq Devices
      /\ \A d \in devices : d.id \in 0..starts /\ d \in [user : Users, id : 0..starts]
      /\ pc # "down" => starts > 0
  BY DEF TypeInv, ChecksInv, Devices
<1>1. ASSUME NEW d \in Deployments, Start(d.file, d.env) PROVE DevicesInv'
  <2>1. \A e \in devices : e.id # starts'
    BY <1>1, <1>t DEF Start
  <2> QED BY <1>1, <2>1 DEF Start
<1>2. CASE CheckConfig \/ Lookup \/ SignChallenge \/ SignInRefused
  BY <1>2 DEF CheckConfig, Lookup, SignChallenge, SignInRefused
<1>3. CASE Prepare
  BY <1>3, Preparing DEF Prepare
<1>4. CASE Login
  <2>1. /\ pc = "login" /\ pc' = "loggedin" /\ devices' = devices \cup {Device}
        /\ UNCHANGED <<config, session, starts, abandoned>>
    BY <1>4 DEF Login
  <2>2. /\ Device.id = IF AuthConfig(config) = "token" THEN 0 ELSE starts
        /\ Device.id = 0 => Device.user = "bot"
        /\ \A d \in devices : d.id = Device.id => d = Device
    BY <1>4, DeviceMade DEF Login
  <2>3. Device \in Fresh'
    BY <2>1, <2>2 DEF Fresh
  <2> QED BY <2>1, <2>2, <2>3
<1>5. CASE SaveSession
  <2> PICK device \in Fresh :
             IF device.user = "bot"
             THEN /\ session' = device /\ pc' = "recover" /\ UNCHANGED abandoned
             ELSE pc' = "down" /\ abandoned' = abandoned \cup {starts} /\ UNCHANGED session
    BY <1>5 DEF SaveSession
  <2>1. pc = "loggedin" /\ session = None /\ UNCHANGED <<devices, starts>>
    BY <1>5 DEF SaveSession, account
  <2>2. \A d \in Fresh : d \in devices /\ d.id = device.id /\ d.id \in {0, starts}
    BY DEF Fresh
  <2>3. CASE device.user = "bot"
    BY <1>t, <2>1, <2>2, <2>3
  <2>4. CASE device.user # "bot"
    BY <1>t, <2>1, <2>2, <2>4
  <2> QED BY <2>3, <2>4
<1>6. CASE Recover
  BY <1>6, WhereFailuresLead DEF Recover
<1>7. CASE Enable
  BY <1>7, Enabling
<1>8. CASE ResetKey \/ FixBackup \/ DeleteBackup \/ EnableAgain \/ CreateStorage \/ OpenLedger \/ BindWebhook
  BY <1>8 DEF ResetKey, FixBackup, DeleteBackup, EnableAgain, CreateStorage, OpenLedger, BindWebhook
<1>9. CASE SyncFails \/ PrepareProfile
  BY <1>9 DEF SyncFails, PrepareProfile
<1>10. CASE CutShort
  <2>1. \A d \in Fresh : d.id \in {0, starts}
    BY DEF Fresh
  <2>2. /\ pc' = "down" /\ UNCHANGED <<session, starts>>
        /\ abandoned' = IF pc \in {"login", "loggedin"} THEN abandoned \cup {starts} ELSE abandoned
    BY <1>10, CutShortLeaves
  <2>3. CASE UNCHANGED devices
    BY <2>1, <2>2, <2>3
  <2>4. CASE /\ pc = "login" /\ LoggedInAs # None /\ AuthConfig(config) # "token"
             /\ devices' = devices \cup {Device}
    <3>1. /\ Device.id = starts
          /\ Device.id = 0 => Device.user = "bot"
          /\ \A d \in devices : d.id = Device.id => d = Device
      BY <2>4, DeviceMade
    <3> QED BY <2>2, <2>4, <3>1
  <2> QED BY <1>10, <2>3, <2>4, CutShortLeaves
<1>11. CASE LoseData
  BY <1>11 DEF LoseData
<1>12. CASE ProfileFails \/ OthersAct
  BY <1>12 DEF ProfileFails, OthersAct, Fresh
<1> QED BY <1>1, <1>2, <1>3, <1>4, <1>5, <1>6, <1>7, <1>8, <1>9, <1>10, <1>11, <1>12
        DEF StartupNext, BootStep, Recovery, Fails, Kill

\* Whatever is done to the storage and the backup by somebody else, is seen.
LEMMA OthersAreSeen == Inv /\ OthersAct => others' # seen'
BY DEF Inv, TypeInv, OthersAct, process

LEMMA RecoveryStep == Inv /\ StartupNext => RecoveryInv'
<1> SUFFICES ASSUME Inv, StartupNext PROVE RecoveryInv'
  OBVIOUS
<1> USE NothingIsNone DEF Inv, RecoveryInv, Mending, Creating, Passphrase,
        Exit, At, process, data, account, history
<1>1. ASSUME NEW d \in Deployments, Start(d.file, d.env) PROVE RecoveryInv'
  BY <1>1 DEF Start
<1>2. CASE CheckConfig \/ Lookup \/ SignChallenge \/ SignInRefused \/ Login \/ SaveSession
  BY <1>2 DEF CheckConfig, Lookup, SignChallenge, SignInRefused, Login, SaveSession
<1>3. CASE Prepare
  BY <1>3, Preparing DEF Prepare
<1>4. CASE Recover
  <2>1. CASE Passphrase = None \/ Failure = None
    BY <1>4, <2>1 DEF Recover
  <2>2. CASE ~(Passphrase = None \/ Failure = None)
    BY <1>4, <2>2, WhereFailuresLead DEF Recover
  <2> QED BY <2>1, <2>2
<1>5. CASE Enable
  BY <1>5, Enabling DEF NewBackup
<1>6. CASE EnableAgain
  BY <1>6 DEF EnableAgain, NewBackup
<1>7. CASE DeleteBackup
  BY <1>7 DEF DeleteBackup
<1>8. CASE ResetKey \/ FixBackup \/ CreateStorage \/ OpenLedger \/ BindWebhook
  BY <1>8 DEF ResetKey, FixBackup, CreateStorage, OpenLedger, BindWebhook
<1>9. CASE SyncFails \/ LoseData \/ PrepareProfile
  BY <1>9 DEF SyncFails, LoseData, PrepareProfile
<1>10. CASE ProfileFails
  BY <1>10 DEF ProfileFails
<1>11. CASE OthersAct
  BY <1>11, OthersAreSeen DEF OthersAct
<1>12. CASE CutShort
  BY <1>12, CutShortLeaves
<1> QED BY <1>1, <1>2, <1>3, <1>4, <1>5, <1>6, <1>7, <1>8, <1>9, <1>10, <1>11, <1>12
        DEF StartupNext, BootStep, Recovery, Fails, Kill

\* What a start leaves behind when it is past the recovery.
Recovered ==
  others = seen /\ Up /\ Passphrase # None =>
    /\ storage # None /\ storage.passphrase = Passphrase /\ storage.key = secrets
    /\ outcome # "key_reset" => storage.key = backup \/ backup = 0

\* And once it syncs.
Shown ==
  others = seen /\ pc = "sync" =>
    /\ profile.name = config.name
    /\ DesiredAvatar(config) # None => profile.avatar = DesiredAvatar(config)

LEMMA RecoveredStep == Inv /\ StartupNext => Recovered'
<1> SUFFICES ASSUME Inv, StartupNext PROVE Recovered'
  OBVIOUS
<1>u. Recovered
  BY DEF Inv, UpAsConfigured, Recovered
<1> USE NothingIsNone, <1>u DEF Recovered, Up, Passphrase, Exit, At, process, data, account, history
<1>i. TypeInv /\ ChecksInv /\ RecoveryInv
  BY DEF Inv
<1>1. ASSUME NEW d \in Deployments, Start(d.file, d.env) PROVE Recovered'
  BY <1>1 DEF Start
<1>2. CASE CheckConfig \/ Lookup \/ SignChallenge \/ SignInRefused \/ Login \/ SaveSession
  BY <1>2 DEF CheckConfig, Lookup, SignChallenge, SignInRefused, Login, SaveSession
<1>3. CASE Prepare
  BY <1>3, Preparing, <1>i DEF Prepare
<1>4. CASE Recover
  <2>1. CASE Passphrase # None /\ Failure = None
    BY <1>4, <2>1, WhereFailuresLead DEF Recover
  <2>2. CASE Passphrase = None
    BY <1>4, <2>2 DEF Recover
  <2>3. CASE Passphrase # None /\ Failure # None
    BY <1>4, <2>3, WhereFailuresLead DEF Recover
  <2> QED BY <2>1, <2>2, <2>3
<1>5. CASE Enable
  BY <1>5, Enabling
<1>6. CASE EnableAgain \/ DeleteBackup
  BY <1>6 DEF EnableAgain, DeleteBackup
<1>7. CASE ResetKey \/ CreateStorage
  <2>1. /\ storage' = [passphrase |-> Passphrase, key |-> secrets]
        /\ UNCHANGED <<config, secrets, backup, others, seen>>
        /\ \/ pc = "reset" /\ outcome' = "key_reset"
           \/ pc = "store" /\ outcome' = "created"
    BY <1>7 DEF ResetKey, CreateStorage, Storage
  <2>2. config \in Loaded /\ secrets \in Nat
    BY <1>i, <2>1 DEF ChecksInv, TypeInv
  <2>3. storage' \in Storages
    BY <2>1, <2>2, PassphraseIsPhrase DEF Storages
  <2>4. pc = "store" /\ others = seen => secrets = backup
    BY <1>i DEF RecoveryInv
  <2> QED BY <2>1, <2>3, <2>4
<1>8. CASE FixBackup
  <2>1. CASE pc' = "down"
    BY <2>1
  <2>2. CASE pc' # "down"
    <3>1. /\ pc = "fix"
          /\ storage' = [passphrase |-> Passphrase, key |-> secrets']
          /\ secrets' = backup' /\ backup' = versions + 1
          /\ UNCHANGED config
      BY <1>8, <2>2 DEF FixBackup, NewBackup, Storage
    <3>2. config \in Loaded /\ secrets' \in Nat
      BY <1>i, <3>1 DEF ChecksInv, TypeInv
    <3>3. storage' \in Storages
      BY <3>1, <3>2, PassphraseIsPhrase DEF Storages
    <3> QED BY <3>1, <3>3
  <2> QED BY <2>1, <2>2
<1>9. CASE OpenLedger \/ BindWebhook \/ PrepareProfile
  <2>1. Up /\ UNCHANGED <<config, others, seen, storage, secrets, backup>> /\ (outcome' = outcome \/ pc' = "down")
    BY <1>9 DEF OpenLedger, BindWebhook, PrepareProfile
  <2> QED BY <2>1
<1>10. CASE SyncFails \/ LoseData \/ CutShort
  BY <1>10, CutShortLeaves DEF SyncFails, LoseData
<1>11. CASE ProfileFails
  BY <1>11 DEF ProfileFails
<1>12. CASE OthersAct
  BY <1>12, OthersAreSeen
<1> QED BY <1>1, <1>2, <1>3, <1>4, <1>5, <1>6, <1>7, <1>8, <1>9, <1>10, <1>11, <1>12
        DEF StartupNext, BootStep, Recovery, Fails, Kill

LEMMA ShownStep == Inv /\ StartupNext => Shown'
<1> SUFFICES ASSUME Inv, StartupNext PROVE Shown'
  OBVIOUS
<1>u. Shown
  BY DEF Inv, UpAsConfigured, Shown
<1> USE DEF Shown, Exit, At, process, data, account, history
<1>1. CASE PrepareProfile
  <2>1. profile' = ProfileSet /\ UNCHANGED config
    BY <1>1 DEF PrepareProfile
  <2>2. DOMAIN profile = {"name", "avatar"}
    BY DEF Inv, TypeInv
  <2>3. NameSet.name = config.name /\ DOMAIN NameSet = {"name", "avatar"}
    BY <2>2 DEF NameSet
  <2>4. /\ ProfileSet.name = config.name
        /\ DesiredAvatar(config) # None => ProfileSet.avatar = DesiredAvatar(config)
    BY <2>3 DEF ProfileSet
  <2> QED BY <2>1, <2>4
<1>2. CASE pc' # "sync"
  BY <1>2
<1>3. CASE pc = "sync" /\ UNCHANGED <<config, others, seen, profile>>
  BY <1>3, <1>u
<1>4. CASE OthersAct
  BY <1>4, OthersAreSeen
<1>5. PrepareProfile \/ pc' # "sync" \/ (pc = "sync" /\ UNCHANGED <<config, others, seen, profile>>) \/ OthersAct
  <2>1. ASSUME NEW d \in Deployments, Start(d.file, d.env) PROVE pc' # "sync"
    BY <2>1 DEF Start
  <2>2. CASE CheckConfig \/ Lookup \/ SignChallenge \/ SignInRefused \/ Login \/ SaveSession
    BY <2>2 DEF CheckConfig, Lookup, SignChallenge, SignInRefused, Login, SaveSession
  <2>3. CASE Prepare \/ Enable
    BY <2>3, Preparing, Enabling
  <2>4. CASE Recover
    BY <2>4, WhereFailuresLead DEF Recover
  <2>5. CASE EnableAgain \/ DeleteBackup \/ ResetKey \/ CreateStorage \/ FixBackup \/ OpenLedger \/ BindWebhook
    BY <2>5 DEF EnableAgain, DeleteBackup, ResetKey, CreateStorage, FixBackup, OpenLedger, BindWebhook
  <2>6. CASE SyncFails \/ LoseData \/ ProfileFails \/ CutShort
    BY <2>6, CutShortLeaves DEF SyncFails, LoseData, ProfileFails
  <2> QED BY <2>1, <2>2, <2>3, <2>4, <2>5, <2>6 DEF StartupNext, BootStep, Recovery, Fails, Kill
<1> QED BY <1>1, <1>2, <1>3, <1>4, <1>5

-----------------------------------------------------------------------------
(* The invariant, and what follows from it.                                *)

LEMMA Invariant == Spec => []Inv
<1>1. Inv /\ [Next]_vars => Inv'
  <2> SUFFICES ASSUME Inv, [Next]_vars PROVE Inv'
    OBVIOUS
  <2>1. CASE StartupNext
    BY <2>1, TypesStep, ChecksStep, DevicesStep, RecoveryStep, RecoveredStep, ShownStep
       DEF Inv, UpAsConfigured, Recovered, Shown
  <2>2. CASE UNCHANGED startupVars
    BY <2>2 DEF startupVars, process, data, account, history, Inv, TypeInv, ChecksInv, DevicesInv, RecoveryInv,
                UpAsConfigured, Up, Passphrase, Devices, Fresh
  <2>3. StartupNext \/ UNCHANGED startupVars
    BY DEF Next, Boot, Command, vars
  <2> QED BY <2>1, <2>2, <2>3
<1> QED BY <1>1, InitInv, PTL DEF Spec

\* The bot runs as the configured user; no start makes two devices; and every
\* device but the one it runs with is of a start that ended while it signed in,
\* of a lost data directory or of a token; and none is made for a configuration
\* that turns out to be unfit (create_matrix_link and Bot::new).
THEOREM SignInAccounted == Spec => []SignInIsAccounted
<1>1. Inv => SignInIsAccounted
  <2>1. \A d \in Fresh : d.id \in {0, starts}
    BY DEF Fresh
  <2> QED BY <2>1 DEF Inv, ChecksInv, DevicesInv, SignInIsAccounted
<1> QED BY <1>1, Invariant, PTL

\* Past the recovery the passphrase opens a storage that holds the key of the
\* backup, and the bot that syncs shows its name and avatar (ensure, main).
THEOREM BotIsUpAsConfigured == Spec => []UpAsConfigured
<1>1. Inv => UpAsConfigured
  BY DEF Inv
<1> QED BY <1>1, Invariant, PTL

\* A backup, or a storage the bot has seen, is replaced with consent only.
THEOREM NothingLost == Spec => NothingLostWithoutConsent
<1> DEFINE Consented ==
      others' = others =>
        /\ backup # 0 /\ backup' # backup => config.recovery_reset_allowed
        /\ storage # None /\ storage' # storage /\ others = seen => config.recovery_reset_allowed
<1>1. Inv /\ [Next]_vars => [Consented]_startupVars
  <2> SUFFICES ASSUME Inv, StartupNext PROVE Consented
    BY DEF Next, Boot, Command, vars
  <2> USE DEF Inv, RecoveryInv, Mending, Creating, At, process, data, account, history
  <2>1. CASE Enable
    BY <2>1, Enabling
  <2>2. CASE EnableAgain \/ DeleteBackup
    BY <2>2 DEF EnableAgain, DeleteBackup
  <2>3. CASE ResetKey \/ FixBackup \/ CreateStorage
    BY <2>3 DEF ResetKey, FixBackup, CreateStorage
  <2>4. CASE OthersAct
    BY <2>4 DEF OthersAct, TypeInv
  <2>5. CASE UNCHANGED <<backup, storage>>
    BY <2>5
  <2>6. CASE CutShort
    BY <2>6, CutShortLeaves
  <2>7. \/ Enable \/ EnableAgain \/ DeleteBackup \/ ResetKey \/ FixBackup \/ CreateStorage
        \/ OthersAct \/ CutShort \/ UNCHANGED <<backup, storage>>
    BY DEF StartupNext, Start, BootStep, CheckConfig, Prepare, Lookup, SignChallenge, SignInRefused, Login,
           SaveSession, Recovery, Recover, OpenLedger, BindWebhook, PrepareProfile, Fails, ProfileFails,
           SyncFails, Kill, LoseData
  <2> QED BY <2>1, <2>2, <2>3, <2>4, <2>5, <2>6, <2>7
<1> QED BY <1>1, Invariant, PTL DEF Spec, NothingLostWithoutConsent

-----------------------------------------------------------------------------
(* The settings.                                                           *)

LEMMA Sections ==
  /\ DOMAIN Section = {"text-generation", "speech-to-text", "text-to-speech"}
  /\ DOMAIN Section["text-generation"] =
       {"context-management-enabled", "thinking-notice-enabled", "prefix-requirement-type", "auto-usage",
        "prompt-override", "temperature-override", "sender-context-mode"}
  /\ DOMAIN Section["speech-to-text"] =
       {"flow-type", "msg-type-for-non-threaded-only-transcribed-messages", "language"}
  /\ DOMAIN Section["text-to-speech"] =
       {"bot-msgs-flow-type", "user-msgs-flow-type", "speed-override", "voice-override"}
<1>1. /\ DOMAIN Section = {"text-generation", "speech-to-text", "text-to-speech"}
      /\ Section["text-generation"] = TextGenerationChoices ++ TextGenerationOverrides
      /\ Section["speech-to-text"] = SpeechToTextChoices
      /\ Section["text-to-speech"] = TextToSpeechChoices
  BY DEF Section
<1>2. DOMAIN (TextGenerationChoices ++ TextGenerationOverrides) = DOMAIN TextGenerationChoices \cup DOMAIN TextGenerationOverrides
  BY DEF ++
<1>3. /\ DOMAIN TextGenerationChoices =
           {"context-management-enabled", "thinking-notice-enabled", "prefix-requirement-type", "auto-usage"}
      /\ DOMAIN TextGenerationOverrides = {"prompt-override", "temperature-override", "sender-context-mode"}
  BY DEF TextGenerationChoices, TextGenerationOverrides
<1>4. DOMAIN SpeechToTextChoices =
        {"flow-type", "msg-type-for-non-threaded-only-transcribed-messages", "language"}
  BY DEF SpeechToTextChoices
<1>5. DOMAIN TextToSpeechChoices =
        {"bot-msgs-flow-type", "user-msgs-flow-type", "speed-override", "voice-override"}
  BY DEF TextToSpeechChoices
<1> QED BY <1>1, <1>2, <1>3, <1>4, <1>5

LEMMA NoDefault ==
  \A name \in {"prompt-override", "temperature-override", "language", "speed-override", "voice-override"} :
    Defaults[name] = Unset
<1> SUFFICES ASSUME NEW name \in {"prompt-override", "temperature-override", "language", "speed-override",
                                  "voice-override"}
             PROVE  Defaults[name] = Unset
  OBVIOUS
<1>1. name \in UNION {DOMAIN Section[section] : section \in DOMAIN Section}
  BY Sections
<1> QED BY <1>1 DEF Defaults

\* The agent that serves, if one does, is the one the handlers lead to.
LEMMA WhoServes ==
  ASSUME NEW initial, NEW r, NEW p
  PROVE  LET effective == EffectiveAgent(initial, r, p)
             id == EffectiveId(initial, r, p)
         IN  /\ "id" \in DOMAIN effective => /\ effective.id = id /\ id # Unset /\ id \in Available(r)
                                             /\ AgentOf(initial, r, p) = id
             /\ effective = [error |-> "none configured"] <=> id = Unset
<1> DEFINE effective == EffectiveAgent(initial, r, p)
           id == EffectiveId(initial, r, p)
<1>d. AgentOf(initial, r, p) = IF "id" \in DOMAIN effective THEN effective.id ELSE Unset
  BY DEF AgentOf
<1>1. id = Unset => effective = [error |-> "none configured"]
  BY Zenon DEF EffectiveAgent
<1>2. id # Unset /\ id \notin Available(r) => effective = [error |-> "missing"]
  BY Zenon DEF EffectiveAgent
<1>3. id # Unset /\ id \in Available(r) /\ p \notin Agents[id].supports => effective = [error |-> "lacks support"]
  BY Zenon DEF EffectiveAgent
<1>4. id # Unset /\ id \in Available(r) /\ p \in Agents[id].supports =>
        effective = [id |-> id, set |-> IF OfPurpose(Room(r).handler, p) # Unset THEN "room" ELSE "global"]
  BY Zenon DEF EffectiveAgent
<1> HIDE DEF effective, id
<1>5. \A e : "id" \notin DOMAIN [error |-> e] /\ DOMAIN [error |-> e] = {"error"}
  OBVIOUS
<1>6. \A s : DOMAIN [id |-> id, set |-> s] = {"id", "set"} /\ [id |-> id, set |-> s].id = id
  OBVIOUS
<1>7. /\ "id" \in DOMAIN effective => /\ effective.id = id /\ id # Unset /\ id \in Available(r)
                                      /\ AgentOf(initial, r, p) = id
      /\ effective = [error |-> "none configured"] <=> id = Unset
  <2>1. CASE id = Unset
    BY <1>1, <1>5, <2>1
  <2>2. CASE id # Unset /\ id \notin Available(r)
    <3>1. [error |-> "missing"] # [error |-> "none configured"]
      OBVIOUS
    <3> QED BY <1>2, <1>5, <2>2, <3>1
  <2>3. CASE id # Unset /\ id \in Available(r) /\ p \notin Agents[id].supports
    <3>1. [error |-> "lacks support"] # [error |-> "none configured"]
      OBVIOUS
    <3> QED BY <1>3, <1>5, <2>3, <3>1
  <2>4. CASE id # Unset /\ id \in Available(r) /\ p \in Agents[id].supports
    <3>1. DOMAIN effective = {"id", "set"} /\ effective.id = id
      BY <1>4, <1>6, <2>4
    <3>2. effective # [error |-> "none configured"]
      BY <3>1, <1>5
    <3> QED BY <1>d, <2>4, <3>1, <3>2
  <2> QED BY <2>1, <2>2, <2>3, <2>4
<1> QED BY <1>7 DEF effective, id

\* The line of a handler names an agent if there is one to name.
LEMMA NamesItsAgent ==
  ASSUME NEW r, NEW handler, NEW p, NEW g
  PROVE  LET line == HandlerLine(r, handler, p, g)
         IN  /\ handler[p] # Unset =>
                  "agent" \in DOMAIN line /\ line = [agent |-> handler[p], found |-> handler[p] \in Available(r)]
             /\ handler[p] = Unset => "agent" \notin DOMAIN line
<1> DEFINE line == HandlerLine(r, handler, p, g)
<1>1. handler[p] # Unset => line = [agent |-> handler[p], found |-> handler[p] \in Available(r)]
  BY Zenon DEF HandlerLine
<1>2. handler[p] = Unset => \E where : line = [defaulting_to |-> where]
  <2>1. CASE p = "catch-all"
    BY <2>1, Zenon DEF HandlerLine
  <2>2. CASE p # "catch-all"
    BY <2>2, Zenon DEF HandlerLine
  <2> QED BY <2>1, <2>2
<1> HIDE DEF line
<1>3. \A where : "agent" \notin DOMAIN [defaulting_to |-> where]
  OBVIOUS
<1>4. \A a, b : "agent" \in DOMAIN [agent |-> a, found |-> b]
  OBVIOUS
<1>5. /\ handler[p] # Unset =>
           "agent" \in DOMAIN line /\ line = [agent |-> handler[p], found |-> handler[p] \in Available(r)]
      /\ handler[p] = Unset => "agent" \notin DOMAIN line
  BY <1>1, <1>2, <1>3, <1>4
<1> QED BY <1>5 DEF line

\* Of the lines there are, the first that names an agent is followed.
LEMMA FirstIsFollowed ==
  ASSUME NEW S \in SUBSET (1..4), NEW i \in S, \A j \in S : i <= j
  PROVE  (CHOOSE m \in S : \A j \in S : m <= j) = i
<1> DEFINE Least(m) == \A j \in S : m <= j
<1>1. \E m \in S : Least(m)
  OBVIOUS
<1>2. (CHOOSE m \in S : Least(m)) \in S /\ Least(CHOOSE m \in S : Least(m))
  BY <1>1
<1>3. \A m \in S : Least(m) => m = i
  OBVIOUS
<1> QED BY <1>2, <1>3

LEMMA StatusLeads ==
  ASSUME NEW initial, NEW room, NEW p \in Purposes
  PROVE  LET followed == Followed(Status(initial, room), p)
             id == EffectiveId(initial, room, p)
         IN  followed.agent = id /\ (id # Unset => followed.found = (id \in Available(room)))
<1> DEFINE status == Status(initial, room)
           h == Room(room).handler
           g == Global(initial).handler
           lines == << <<status.room_handlers, p>>, <<status.room_handlers, "catch-all">>,
                       <<status.global_handlers, p>>, <<status.global_handlers, "catch-all">> >>
           Line(i) == lines[i][1][lines[i][2]]
           named == {i \in 1..4 : "agent" \in DOMAIN Line(i)}
           Told(a) == [agent |-> a, found |-> a \in Available(room)]
           followed == Followed(status, p)
           id == EffectiveId(initial, room, p)
<1>1. /\ status.room_handlers = [q \in Purposes |-> HandlerLine(room, h, q, FALSE)]
      /\ status.global_handlers = [q \in Purposes |-> HandlerLine(room, g, q, TRUE)]
  BY DEF Status, RoomHandlers, GlobalHandlers
<1>2. followed = IF named = {} THEN [agent |-> Unset, found |-> FALSE]
                 ELSE Line(CHOOSE i \in named : \A j \in named : i <= j)
  BY DEF Followed
<1>3. id = IF h[p] # Unset THEN h[p] ELSE IF h["catch-all"] # Unset THEN h["catch-all"]
           ELSE IF g[p] # Unset THEN g[p] ELSE g["catch-all"]
  BY DEF EffectiveId, OfPurpose, Or
<1> HIDE DEF status, h, g, followed, id
<1>4. "catch-all" \in Purposes
  BY DEF Purposes
<1>5. /\ Line(1) = HandlerLine(room, h, p, FALSE) /\ Line(2) = HandlerLine(room, h, "catch-all", FALSE)
      /\ Line(3) = HandlerLine(room, g, p, TRUE) /\ Line(4) = HandlerLine(room, g, "catch-all", TRUE)
  BY <1>1, <1>4
<1> HIDE DEF Line
<1>6. /\ 1 \in named <=> h[p] # Unset
      /\ 2 \in named <=> h["catch-all"] # Unset
      /\ 3 \in named <=> g[p] # Unset
      /\ 4 \in named <=> g["catch-all"] # Unset
  <2>a. ASSUME NEW handler, NEW q \in Purposes, NEW isGlobal \in BOOLEAN
        PROVE  "agent" \in DOMAIN HandlerLine(room, handler, q, isGlobal) <=> handler[q] # Unset
    BY NamesItsAgent, Zenon
  <2>b. "agent" \in DOMAIN Line(1) <=> h[p] # Unset
    BY <1>5, <2>a
  <2>c. "agent" \in DOMAIN Line(2) <=> h["catch-all"] # Unset
    BY <1>4, <1>5, <2>a
  <2>d. "agent" \in DOMAIN Line(3) <=> g[p] # Unset
    BY <1>5, <2>a
  <2>e. "agent" \in DOMAIN Line(4) <=> g["catch-all"] # Unset
    BY <1>4, <1>5, <2>a
  <2>1. /\ "agent" \in DOMAIN Line(1) <=> h[p] # Unset
        /\ "agent" \in DOMAIN Line(2) <=> h["catch-all"] # Unset
        /\ "agent" \in DOMAIN Line(3) <=> g[p] # Unset
        /\ "agent" \in DOMAIN Line(4) <=> g["catch-all"] # Unset
    BY <2>b, <2>c, <2>d, <2>e
  <2>2. \A i \in 1..4 : i \in named <=> "agent" \in DOMAIN Line(i)
    OBVIOUS
  <2>3. {1, 2, 3, 4} \subseteq 1..4
    OBVIOUS
  <2> HIDE DEF named
  <2> QED BY <2>1, <2>2, <2>3, Zenon
<1>7. /\ h[p] # Unset => Line(1) = Told(h[p])
      /\ h["catch-all"] # Unset => Line(2) = Told(h["catch-all"])
      /\ g[p] # Unset => Line(3) = Told(g[p])
      /\ g["catch-all"] # Unset => Line(4) = Told(g["catch-all"])
  BY <1>5, NamesItsAgent
<1>8. named \in SUBSET (1..4)
  OBVIOUS
<1> HIDE DEF named
<1>9. ASSUME NEW i \in named, \A j \in named : i <= j PROVE followed = Line(i)
  BY <1>2, <1>8, <1>9, FirstIsFollowed, Zenon
<1>10. \A a : Told(a).agent = a /\ Told(a).found = (a \in Available(room))
  OBVIOUS
<1> HIDE DEF Told
<1>11. followed.agent = id /\ (id # Unset => followed.found = (id \in Available(room)))
  <2>1. CASE h[p] # Unset
    <3>1. \A j \in named : 1 <= j
      BY <1>8
    <3> QED BY <2>1, <3>1, <1>3, <1>6, <1>7, <1>9, <1>10
  <2>2. CASE h[p] = Unset /\ h["catch-all"] # Unset
    <3>1. \A j \in named : 2 <= j
      BY <1>6, <1>8, <2>2
    <3> QED BY <2>2, <3>1, <1>3, <1>6, <1>7, <1>9, <1>10
  <2>3. CASE h[p] = Unset /\ h["catch-all"] = Unset /\ g[p] # Unset
    <3>1. \A j \in named : 3 <= j
      BY <1>6, <1>8, <2>3
    <3> QED BY <2>3, <3>1, <1>3, <1>6, <1>7, <1>9, <1>10
  <2>4. CASE h[p] = Unset /\ h["catch-all"] = Unset /\ g[p] = Unset /\ g["catch-all"] # Unset
    <3>1. \A j \in named : 4 <= j
      BY <1>6, <1>8, <2>4
    <3> QED BY <2>4, <3>1, <1>3, <1>6, <1>7, <1>9, <1>10
  <2>5. CASE h[p] = Unset /\ h["catch-all"] = Unset /\ g[p] = Unset /\ g["catch-all"] = Unset
    <3>1. named = {}
      BY <1>6, <1>8, <2>5
    <3>2. followed = [agent |-> Unset, found |-> FALSE]
      BY <1>2, <3>1
    <3> QED BY <2>5, <3>2, <1>3
  <2> QED BY <2>1, <2>2, <2>3, <2>4, <2>5
<1> QED BY <1>11 DEF followed, id, status

-----------------------------------------------------------------------------
(* What the status shows.                                                  *)

Written == DOMAIN TextGenerationChoices \cup {"sender-context-mode"}
Prompted == {"prompt-override", "temperature-override"}
Flows == {"bot-msgs-flow-type", "user-msgs-flow-type"}
Spoken == {"speed-override", "voice-override"}

\* What the agent that writes is configured with, or speaks with.
OfWriter(initial, room, name) ==
  LET id == AgentOf(initial, room, "text-generation")
  IN  IF id = Unset THEN Unset ELSE IF name = "prompt-override" THEN Agents[id].prompt ELSE Agents[id].temperature
OfSpeaker(initial, room, name) ==
  LET id == AgentOf(initial, room, "text-to-speech")
  IN  IF id = Unset THEN Unset ELSE IF name = "speed-override" THEN Agents[id].speed ELSE Agents[id].voice

Neither(name) == [value |-> IF name = "prompt-override" THEN "" ELSE Unset, set |-> "agent"]

LEMMA StatusLines ==
  ASSUME NEW initial, NEW room
  PROVE  LET status == Status(initial, room)
         IN  /\ DOMAIN status.text_generation = Written \cup Prompted
             /\ \A n \in Written : status.text_generation[n] = Entry(initial, room, "text-generation", n)
             /\ \A n \in Prompted : status.text_generation[n] =
                  Override(initial, room, "text-generation", n, OfWriter(initial, room, n), Neither(n))
             /\ DOMAIN status.speech_to_text = DOMAIN SpeechToTextChoices
             /\ \A n \in DOMAIN SpeechToTextChoices :
                  status.speech_to_text[n] = Entry(initial, room, "speech-to-text", n)
             /\ DOMAIN status.text_to_speech = Flows \cup Spoken
             /\ \A n \in Flows : status.text_to_speech[n] = Entry(initial, room, "text-to-speech", n)
             /\ \A n \in Spoken : status.text_to_speech[n] =
                  Override(initial, room, "text-to-speech", n, OfSpeaker(initial, room, n),
                           [value |-> Unset, set |-> "default"])
<1> DEFINE status == Status(initial, room)
           written == StatusTextGeneration(initial, room)
           prompted == StatusGenerationOverrides(initial, room)
           flows == StatusTextToSpeech(initial, room)
           spoken == StatusSpeechOverrides(initial, room)
<1>1. /\ status.text_generation = written ++ prompted
      /\ status.speech_to_text = StatusSpeechToText(initial, room)
      /\ status.text_to_speech = flows ++ spoken
  BY DEF Status
<1>2. /\ written = [n \in Written |-> Entry(initial, room, "text-generation", n)]
      /\ StatusSpeechToText(initial, room) =
           [n \in DOMAIN SpeechToTextChoices |-> Entry(initial, room, "speech-to-text", n)]
      /\ flows = [n \in Flows |-> Entry(initial, room, "text-to-speech", n)]
  BY DEF StatusTextGeneration, StatusSpeechToText, StatusTextToSpeech, Written, Flows
<1>3. /\ DOMAIN prompted = Prompted
      /\ \A n \in Prompted : prompted[n] =
           Override(initial, room, "text-generation", n, OfWriter(initial, room, n), Neither(n))
  BY DEF StatusGenerationOverrides, Prompted, OfWriter, Neither
<1>4. /\ DOMAIN spoken = Spoken
      /\ \A n \in Spoken : spoken[n] =
           Override(initial, room, "text-to-speech", n, OfSpeaker(initial, room, n),
                    [value |-> Unset, set |-> "default"])
  BY DEF StatusSpeechOverrides, Spoken, OfSpeaker
<1>5. Written \cap Prompted = {} /\ Flows \cap Spoken = {}
  BY DEF Written, Prompted, Flows, Spoken, TextGenerationChoices
<1> HIDE DEF status, written, prompted, flows, spoken
<1>6. /\ DOMAIN (written ++ prompted) = Written \cup Prompted
      /\ \A n \in Written : (written ++ prompted)[n] = Entry(initial, room, "text-generation", n)
      /\ \A n \in Prompted : (written ++ prompted)[n] = prompted[n]
  BY <1>2, <1>3, <1>5 DEF ++
<1>7. /\ DOMAIN (flows ++ spoken) = Flows \cup Spoken
      /\ \A n \in Flows : (flows ++ spoken)[n] = Entry(initial, room, "text-to-speech", n)
      /\ \A n \in Spoken : (flows ++ spoken)[n] = spoken[n]
  BY <1>2, <1>4, <1>5 DEF ++
<1> QED BY <1>1, <1>2, <1>3, <1>4, <1>6, <1>7 DEF status

\* The value of an override is the one that is used.
LEMMA OverrideIsUsed ==
  ASSUME NEW initial, NEW room, NEW section, NEW name, NEW configured, NEW fallback,
         Effective(initial, room, section, name) =
           Or(Room(room).values[section][name], Or(Global(initial).values[section][name], Unset))
  PROVE  Override(initial, room, section, name, configured, fallback).value =
           LET own == Or(Effective(initial, room, section, name), configured)
           IN  IF own # Unset THEN own ELSE fallback.value
<1> DEFINE line == Override(initial, room, section, name, configured, fallback)
           inRoom == Room(room).values[section][name]
           inGlobal == Global(initial).values[section][name]
           used == Effective(initial, room, section, name)
<1>1. /\ inRoom # Unset => line = [value |-> inRoom, set |-> "room"]
      /\ inRoom = Unset /\ inGlobal # Unset => line = [value |-> inGlobal, set |-> "global"]
      /\ inRoom = Unset /\ inGlobal = Unset /\ configured # Unset =>
           line = [value |-> configured, set |-> "agent"]
      /\ inRoom = Unset /\ inGlobal = Unset /\ configured = Unset => line = fallback
  BY Zenon DEF Override
<1>2. used = IF inRoom # Unset THEN inRoom ELSE IF inGlobal # Unset THEN inGlobal ELSE Unset
  BY DEF Or
<1> HIDE DEF line, inRoom, inGlobal, used
<1>3. line.value = LET own == Or(used, configured) IN IF own # Unset THEN own ELSE fallback.value
  BY <1>1, <1>2 DEF Or
<1> QED BY <1>3 DEF line, used

LEMMA StatusShows ==
  ASSUME NEW initial, NEW room
  PROVE  ShowsWhatIsUsed(Status(initial, room), initial, room)
<1> DEFINE status == Status(initial, room)
           writer == AgentOf(initial, room, "text-generation")
           speaker == AgentOf(initial, room, "text-to-speech")
<1>1. /\ \A p : status.effective[p] = EffectiveAgent(initial, room, p) \/ p \notin Purposes \ {"catch-all"}
      /\ {"text-generation", "text-to-speech"} \subseteq Purposes \ {"catch-all"}
  BY DEF Status, StatusEffective, Purposes
<1>2. /\ "id" \in DOMAIN status.effective["text-generation"] => writer # Unset
      /\ "id" \in DOMAIN status.effective["text-to-speech"] => speaker # Unset
  <2>1. /\ "id" \in DOMAIN EffectiveAgent(initial, room, "text-generation") => writer # Unset
        /\ "id" \in DOMAIN EffectiveAgent(initial, room, "text-to-speech") => speaker # Unset
    BY WhoServes, Zenon
  <2> QED BY <1>1, <2>1
<1>3. \A n \in Prompted : Effective(initial, room, "text-generation", n) =
        Or(Room(room).values["text-generation"][n], Or(Global(initial).values["text-generation"][n], Unset))
  BY NoDefault DEF Effective, TextGeneration, Prompted
<1>4. \A n \in Spoken : Effective(initial, room, "text-to-speech", n) =
        Or(Room(room).values["text-to-speech"][n], Or(Global(initial).values["text-to-speech"][n], Unset))
  BY NoDefault DEF Effective, TextToSpeech, Spoken
<1>5. \A n \in Prompted : status.text_generation[n].value =
        LET own == Or(TextGeneration(initial, room, n), OfWriter(initial, room, n))
        IN  IF own # Unset THEN own ELSE Neither(n).value
  <2> SUFFICES ASSUME NEW n \in Prompted
      PROVE  status.text_generation[n].value =
               LET own == Or(TextGeneration(initial, room, n), OfWriter(initial, room, n))
               IN  IF own # Unset THEN own ELSE Neither(n).value
    OBVIOUS
  <2>1. status.text_generation[n] =
          Override(initial, room, "text-generation", n, OfWriter(initial, room, n), Neither(n))
    BY StatusLines
  <2>2. Effective(initial, room, "text-generation", n) = TextGeneration(initial, room, n)
    BY DEF Effective
  <2> QED BY <1>3, <2>1, <2>2, OverrideIsUsed
<1>6. \A n \in Spoken : status.text_to_speech[n].value =
        Or(TextToSpeech(initial, room, n), OfSpeaker(initial, room, n))
  <2> SUFFICES ASSUME NEW n \in Spoken
      PROVE  status.text_to_speech[n].value = Or(TextToSpeech(initial, room, n), OfSpeaker(initial, room, n))
    OBVIOUS
  <2> DEFINE nothing == [value |-> Unset, set |-> "default"]
  <2>1. status.text_to_speech[n] =
          Override(initial, room, "text-to-speech", n, OfSpeaker(initial, room, n), nothing)
    BY StatusLines
  <2>2. Effective(initial, room, "text-to-speech", n) = TextToSpeech(initial, room, n)
    BY DEF Effective
  <2>3. Override(initial, room, "text-to-speech", n, OfSpeaker(initial, room, n), nothing).value =
          LET own == Or(TextToSpeech(initial, room, n), OfSpeaker(initial, room, n))
          IN  IF own # Unset THEN own ELSE nothing.value
    BY <1>4, <2>2, OverrideIsUsed
  <2>4. nothing.value = Unset
    OBVIOUS
  <2> QED BY <2>1, <2>3, <2>4
<1>7. writer # Unset =>
        [prompt |-> status.text_generation["prompt-override"].value,
         temperature |-> status.text_generation["temperature-override"].value] = GenerationParams(initial, room)
  BY <1>5 DEF GenerationParams, OfWriter, Neither, Or, Prompted
<1>8. speaker # Unset =>
        [speed |-> status.text_to_speech["speed-override"].value,
         voice |-> status.text_to_speech["voice-override"].value] = SpeechParams(initial, room)
  BY <1>6 DEF SpeechParams, OfSpeaker, Or, Spoken
<1> HIDE DEF status, writer, speaker
<1>9. ShowsWhatIsUsed(status, initial, room)
  BY <1>2, <1>7, <1>8 DEF ShowsWhatIsUsed
<1> QED BY <1>9 DEF status

\* A line that is neither the room's nor its agent's is every room's.
LEMMA EntriesDiffer ==
  ASSUME NEW initial, NEW room, NEW other, NEW section \in DOMAIN Section, NEW n,
         Entry(initial, room, section, n) # Entry(initial, other, section, n)
  PROVE  "room" \in {Entry(initial, room, section, n).set, Entry(initial, other, section, n).set}
<1> DEFINE Own(r) == Room(r).values[section][n]
           shared == Global(initial).values[section][n]
<1>1. \A r : Entry(initial, r, section, n) =
               [value |-> Or(Own(r), Or(shared, Defaults[n])), set |-> Where(initial, r, section, n)]
  BY Sections DEF Entry, Effective, TextGeneration, SpeechToText, TextToSpeech
<1>2. \A r : /\ Own(r) # Unset => Where(initial, r, section, n) = "room"
             /\ Own(r) = Unset => Where(initial, r, section, n) = IF shared # Unset THEN "global" ELSE "default"
  <2> SUFFICES ASSUME NEW r
      PROVE  /\ Own(r) # Unset => Where(initial, r, section, n) = "room"
             /\ Own(r) = Unset => Where(initial, r, section, n) = IF shared # Unset THEN "global" ELSE "default"
    OBVIOUS
  <2> QED BY Zenon DEF Where
<1> HIDE DEF Own, shared
<1> QED BY <1>1, <1>2 DEF Or

LEMMA OverridesDiffer ==
  ASSUME NEW initial, NEW room, NEW other, NEW section, NEW n, NEW configured, NEW configuredOther, NEW fallback,
         Override(initial, room, section, n, configured, fallback) #
           Override(initial, other, section, n, configuredOther, fallback)
  PROVE  {Override(initial, room, section, n, configured, fallback).set,
          Override(initial, other, section, n, configuredOther, fallback).set} \cap {"room", "agent"} # {}
<1> DEFINE Own(r) == Room(r).values[section][n]
           shared == Global(initial).values[section][n]
           Line(r, c) == Override(initial, r, section, n, c, fallback)
<1>1. \A r, c : /\ Own(r) # Unset => Line(r, c) = [value |-> Own(r), set |-> "room"]
                /\ Own(r) = Unset /\ shared # Unset => Line(r, c) = [value |-> shared, set |-> "global"]
                /\ Own(r) = Unset /\ shared = Unset /\ c # Unset => Line(r, c) = [value |-> c, set |-> "agent"]
                /\ Own(r) = Unset /\ shared = Unset /\ c = Unset => Line(r, c) = fallback
  <2> SUFFICES ASSUME NEW r, NEW c
      PROVE  /\ Own(r) # Unset => Line(r, c) = [value |-> Own(r), set |-> "room"]
             /\ Own(r) = Unset /\ shared # Unset => Line(r, c) = [value |-> shared, set |-> "global"]
             /\ Own(r) = Unset /\ shared = Unset /\ c # Unset => Line(r, c) = [value |-> c, set |-> "agent"]
             /\ Own(r) = Unset /\ shared = Unset /\ c = Unset => Line(r, c) = fallback
    OBVIOUS
  <2> QED BY Zenon DEF Override
<1> HIDE DEF Own, shared, Line
<1>2. Line(room, configured) # Line(other, configuredOther) =>
        {Line(room, configured).set, Line(other, configuredOther).set} \cap {"room", "agent"} # {}
  <2>1. ASSUME NEW r, NEW c, Line(r, c).set \notin {"room", "agent"}
        PROVE  Line(r, c) = IF shared # Unset THEN [value |-> shared, set |-> "global"] ELSE fallback
    <3>1. CASE Own(r) # Unset
      <4>1. Line(r, c) = [value |-> Own(r), set |-> "room"]
        BY <1>1, <3>1
      <4> QED BY <2>1, <4>1
    <3>2. CASE Own(r) = Unset /\ shared = Unset /\ c # Unset
      <4>1. Line(r, c) = [value |-> c, set |-> "agent"]
        BY <1>1, <3>2
      <4> QED BY <2>1, <4>1
    <3> QED BY <1>1, <3>1, <3>2
  <2> QED BY <2>1
<1> QED BY <1>2 DEF Line

LEMMA SectionsDiffer ==
  ASSUME NEW initial, NEW room, NEW other
  PROVE  LET ours == Status(initial, room)
             theirs == Status(initial, other)
         IN  /\ DifferAsSaid(ours.text_generation, theirs.text_generation)
             /\ DifferAsSaid(ours.speech_to_text, theirs.speech_to_text)
             /\ DifferAsSaid(ours.text_to_speech, theirs.text_to_speech)
<1> DEFINE ours == Status(initial, room)
           theirs == Status(initial, other)
<1>s. {"text-generation", "speech-to-text", "text-to-speech"} \subseteq DOMAIN Section
  BY Sections
<1>1. DifferAsSaid(ours.text_generation, theirs.text_generation)
  <2> SUFFICES ASSUME NEW n \in DOMAIN ours.text_generation, ours.text_generation[n] # theirs.text_generation[n]
      PROVE  {ours.text_generation[n].set, theirs.text_generation[n].set} \cap {"room", "agent"} # {}
    BY DEF DifferAsSaid
  <2>1. n \in Written \/ n \in Prompted
    BY StatusLines
  <2>2. CASE n \in Written
    <3>1. /\ ours.text_generation[n] = Entry(initial, room, "text-generation", n)
          /\ theirs.text_generation[n] = Entry(initial, other, "text-generation", n)
      BY <2>2, StatusLines
    <3> HIDE DEF ours, theirs
    <3>2. Entry(initial, room, "text-generation", n) # Entry(initial, other, "text-generation", n)
      BY <3>1
    <3>3. "room" \in {Entry(initial, room, "text-generation", n).set, Entry(initial, other, "text-generation", n).set}
      BY <1>s, <3>2, EntriesDiffer
    <3> QED BY <3>1, <3>3
  <2>3. CASE n \in Prompted
    <3>1. /\ ours.text_generation[n] =
               Override(initial, room, "text-generation", n, OfWriter(initial, room, n), Neither(n))
          /\ theirs.text_generation[n] =
               Override(initial, other, "text-generation", n, OfWriter(initial, other, n), Neither(n))
      BY <2>3, StatusLines
    <3> HIDE DEF ours, theirs
    <3> QED BY <3>1, OverridesDiffer
  <2> QED BY <2>1, <2>2, <2>3
<1>2. DifferAsSaid(ours.speech_to_text, theirs.speech_to_text)
  <2> SUFFICES ASSUME NEW n \in DOMAIN ours.speech_to_text, ours.speech_to_text[n] # theirs.speech_to_text[n]
      PROVE  {ours.speech_to_text[n].set, theirs.speech_to_text[n].set} \cap {"room", "agent"} # {}
    BY DEF DifferAsSaid
  <2>1. /\ ours.speech_to_text[n] = Entry(initial, room, "speech-to-text", n)
        /\ theirs.speech_to_text[n] = Entry(initial, other, "speech-to-text", n)
    BY StatusLines
  <2> HIDE DEF ours, theirs
  <2>2. Entry(initial, room, "speech-to-text", n) # Entry(initial, other, "speech-to-text", n)
    BY <2>1
  <2>3. "room" \in {Entry(initial, room, "speech-to-text", n).set, Entry(initial, other, "speech-to-text", n).set}
    BY <1>s, <2>2, EntriesDiffer
  <2> QED BY <2>1, <2>3
<1>3. DifferAsSaid(ours.text_to_speech, theirs.text_to_speech)
  <2> SUFFICES ASSUME NEW n \in DOMAIN ours.text_to_speech, ours.text_to_speech[n] # theirs.text_to_speech[n]
      PROVE  {ours.text_to_speech[n].set, theirs.text_to_speech[n].set} \cap {"room", "agent"} # {}
    BY DEF DifferAsSaid
  <2> DEFINE nothing == [value |-> Unset, set |-> "default"]
  <2>1. n \in Flows \/ n \in Spoken
    BY StatusLines
  <2>2. CASE n \in Flows
    <3>1. /\ ours.text_to_speech[n] = Entry(initial, room, "text-to-speech", n)
          /\ theirs.text_to_speech[n] = Entry(initial, other, "text-to-speech", n)
      BY <2>2, StatusLines
    <3> HIDE DEF ours, theirs
    <3>2. Entry(initial, room, "text-to-speech", n) # Entry(initial, other, "text-to-speech", n)
      BY <3>1
    <3>3. "room" \in {Entry(initial, room, "text-to-speech", n).set, Entry(initial, other, "text-to-speech", n).set}
      BY <1>s, <3>2, EntriesDiffer
    <3> QED BY <3>1, <3>3
  <2>3. CASE n \in Spoken
    <3>1. /\ ours.text_to_speech[n] =
               Override(initial, room, "text-to-speech", n, OfSpeaker(initial, room, n), nothing)
          /\ theirs.text_to_speech[n] =
               Override(initial, other, "text-to-speech", n, OfSpeaker(initial, other, n), nothing)
      BY <2>3, StatusLines
    <3> HIDE DEF ours, theirs, nothing
    <3> QED BY <3>1, OverridesDiffer
  <2> QED BY <2>1, <2>2, <2>3
<1> QED BY <1>1, <1>2, <1>3

LEMMA StatusIsTrue == ASSUME NEW initial PROVE StatusAgrees(initial)
<1>1. ASSUME NEW room, NEW p \in Purposes \ {"catch-all"} PROVE LeadsToWhoServes(Status(initial, room), p)
  <2> DEFINE status == Status(initial, room)
             followed == Followed(status, p)
             id == EffectiveId(initial, room, p)
  <2>1. status.effective[p] = EffectiveAgent(initial, room, p)
    BY DEF Status, StatusEffective
  <2>2. followed.agent = id /\ (id # Unset => followed.found = (id \in Available(room)))
    BY StatusLeads
  <2>3. /\ "id" \in DOMAIN status.effective[p] =>
             status.effective[p].id = id /\ id # Unset /\ id \in Available(room)
        /\ status.effective[p] = [error |-> "none configured"] <=> id = Unset
    BY <2>1, WhoServes, Zenon
  <2> HIDE DEF status, followed, id
  <2>4. /\ "id" \in DOMAIN status.effective[p] => status.effective[p].id = followed.agent /\ followed.found
        /\ followed.agent = Unset <=> status.effective[p] = [error |-> "none configured"]
    BY <2>2, <2>3
  <2>5. LeadsToWhoServes(status, p)
    BY <2>4 DEF LeadsToWhoServes, followed
  <2> QED BY <2>5 DEF status
<1> QED BY <1>1, StatusShows, SectionsDiffer DEF StatusAgrees

-----------------------------------------------------------------------------
(* Documents, and what a command does to one.                              *)

Proper(doc) ==
  /\ doc \in Documents
  /\ \A s \in DOMAIN Section : DOMAIN doc.values[s] = DOMAIN Section[s]

LEMMA ProperDocuments ==
  ASSUME NEW doc, Proper(doc)
  PROVE  /\ doc # Unset
         /\ doc.handler \in [Purposes -> Ids] /\ DOMAIN doc.values = DOMAIN Section
         /\ doc = [handler |-> doc.handler, values |-> doc.values]
         /\ \A s \in DOMAIN Section : doc.values[s] \in [DOMAIN Section[s] -> Typed]
<1>1. /\ doc # Unset
      /\ doc.handler \in [Purposes -> Ids] /\ DOMAIN doc.values = DOMAIN Section
      /\ doc = [handler |-> doc.handler, values |-> doc.values]
      /\ doc.values \in [DOMAIN Section -> UNION {[DOMAIN Section[s] -> Typed] : s \in DOMAIN Section}]
  BY DocumentAssumption DEF Proper, Documents
<1>2. ASSUME NEW s \in DOMAIN Section PROVE doc.values[s] \in [DOMAIN Section[s] -> Typed]
  <2>1. PICK t \in DOMAIN Section : doc.values[s] \in [DOMAIN Section[t] -> Typed]
    BY <1>1
  <2>2. DOMAIN doc.values[s] = DOMAIN Section[s]
    BY DEF Proper
  <2> QED BY <2>1, <2>2
<1> QED BY <1>1, <1>2

LEMMA MakesProper ==
  ASSUME NEW handler \in [Purposes -> Ids], NEW values, DOMAIN values = DOMAIN Section,
         values = [s \in DOMAIN values |-> values[s]],
         \A s \in DOMAIN Section : values[s] \in [DOMAIN Section[s] -> Typed]
  PROVE  Proper([handler |-> handler, values |-> values])
<1>1. values \in [DOMAIN Section -> UNION {[DOMAIN Section[s] -> Typed] : s \in DOMAIN Section}]
  OBVIOUS
<1> QED BY <1>1 DEF Proper, Documents

\* A document with one setting changed, or one handler.
WithValue(doc, s, n, v) ==
  [handler |-> doc.handler,
   values |-> [t \in DOMAIN Section |-> [m \in DOMAIN Section[t] |->
                 IF t = s /\ m = n THEN v ELSE doc.values[t][m]]]]
WithHandler(doc, p, id) ==
  [handler |-> [q \in Purposes |-> IF q = p THEN id ELSE doc.handler[q]], values |-> doc.values]

LEMMA ProperWithValue ==
  ASSUME NEW doc, Proper(doc), NEW s \in DOMAIN Section, NEW n \in DOMAIN Section[s], NEW v \in Typed
  PROVE  /\ Proper(WithValue(doc, s, n, v))
         /\ WithValue(doc, s, n, v).handler = doc.handler
         /\ \A t \in DOMAIN Section : \A m \in DOMAIN Section[t] :
              WithValue(doc, s, n, v).values[t][m] = IF t = s /\ m = n THEN v ELSE doc.values[t][m]
<1> DEFINE values == [t \in DOMAIN Section |-> [m \in DOMAIN Section[t] |->
                        IF t = s /\ m = n THEN v ELSE doc.values[t][m]]]
<1>1. doc.handler \in [Purposes -> Ids] /\ \A t \in DOMAIN Section : doc.values[t] \in [DOMAIN Section[t] -> Typed]
  BY ProperDocuments
<1>2. \A t \in DOMAIN Section : values[t] \in [DOMAIN Section[t] -> Typed]
  BY <1>1
<1>3. Proper([handler |-> doc.handler, values |-> values])
  BY <1>1, <1>2, MakesProper
<1>4. \A t \in DOMAIN Section : \A m \in DOMAIN Section[t] :
        values[t][m] = IF t = s /\ m = n THEN v ELSE doc.values[t][m]
  OBVIOUS
<1> HIDE DEF values
<1>5. [handler |-> doc.handler, values |-> values].values = values
  OBVIOUS
<1>6. WithValue(doc, s, n, v) = [handler |-> doc.handler, values |-> values]
  BY DEF WithValue, values
<1> QED BY <1>3, <1>4, <1>5, <1>6

LEMMA ProperWithHandler ==
  ASSUME NEW doc, Proper(doc), NEW p \in Purposes, NEW id \in Ids
  PROVE  /\ Proper(WithHandler(doc, p, id))
         /\ WithHandler(doc, p, id).values = doc.values
         /\ \A q \in Purposes : WithHandler(doc, p, id).handler[q] = IF q = p THEN id ELSE doc.handler[q]
<1> DEFINE handler == [q \in Purposes |-> IF q = p THEN id ELSE doc.handler[q]]
<1>1. /\ doc.handler \in [Purposes -> Ids] /\ DOMAIN doc.values = DOMAIN Section
      /\ doc.values = [s \in DOMAIN doc.values |-> doc.values[s]]
      /\ \A t \in DOMAIN Section : doc.values[t] \in [DOMAIN Section[t] -> Typed]
  BY ProperDocuments DEF Proper, Documents
<1>2. handler \in [Purposes -> Ids]
  BY <1>1
<1>3. Proper([handler |-> handler, values |-> doc.values])
  BY <1>1, <1>2, MakesProper
<1> QED BY <1>3 DEF WithHandler

\* The setters of the sections and of the handlers do just that.
LEMMA SettersSet ==
  ASSUME NEW doc, Proper(doc)
  PROVE  /\ \A n \in DOMAIN Section["text-generation"], v \in Typed :
              SetTextGeneration(doc, n, v) = WithValue(doc, "text-generation", n, v)
         /\ \A n \in DOMAIN Section["speech-to-text"], v \in Typed :
              SetSpeechToText(doc, n, v) = WithValue(doc, "speech-to-text", n, v)
         /\ \A n \in DOMAIN Section["text-to-speech"], v \in Typed :
              SetTextToSpeech(doc, n, v) = WithValue(doc, "text-to-speech", n, v)
         /\ \A p \in Purposes, id \in Ids : SetHandler(doc, p, id) = WithHandler(doc, p, id)
<1>1. /\ doc = [handler |-> doc.handler, values |-> doc.values]
      /\ doc.handler \in [Purposes -> Ids]
      /\ doc.values = [t \in DOMAIN Section |-> doc.values[t]]
      /\ \A t \in DOMAIN Section : doc.values[t] = [m \in DOMAIN Section[t] |-> doc.values[t][m]]
  <2>1. doc.values = [t \in DOMAIN Section |-> doc.values[t]]
    BY DEF Proper, Documents
  <2> QED BY <2>1, ProperDocuments
<1>2. ASSUME NEW s \in DOMAIN Section, NEW n \in DOMAIN Section[s], NEW v
      PROVE  [doc EXCEPT !.values[s][n] = v] = WithValue(doc, s, n, v)
  <2>1. [doc EXCEPT !.values[s][n] = v] = [handler |-> doc.handler, values |-> [doc.values EXCEPT ![s][n] = v]]
    BY <1>1
  <2>2. [doc.values EXCEPT ![s][n] = v] =
          [t \in DOMAIN Section |-> IF t = s THEN [doc.values[s] EXCEPT ![n] = v] ELSE doc.values[t]]
    BY <1>1
  <2>3. [doc.values[s] EXCEPT ![n] = v] = [m \in DOMAIN Section[s] |-> IF m = n THEN v ELSE doc.values[s][m]]
    BY <1>1
  <2>4. ASSUME NEW t \in DOMAIN Section
        PROVE  (IF t = s THEN [doc.values[s] EXCEPT ![n] = v] ELSE doc.values[t]) =
               [m \in DOMAIN Section[t] |-> IF t = s /\ m = n THEN v ELSE doc.values[t][m]]
    BY <1>1, <2>3
  <2> QED BY <2>1, <2>2, <2>4 DEF WithValue
<1>3. ASSUME NEW p \in Purposes, NEW id PROVE [doc EXCEPT !.handler[p] = id] = WithHandler(doc, p, id)
  BY <1>1 DEF WithHandler
<1>4. {"text-generation", "speech-to-text", "text-to-speech"} \subseteq DOMAIN Section
  BY Sections
<1> QED BY <1>2, <1>3, <1>4 DEF SetTextGeneration, SetSpeechToText, SetTextToSpeech, SetHandler

\* What a setter's text says.
LEMMA Setters ==
  ASSUME NEW text \in Texts
  PROVE  LET command == Determine(text)
         IN  /\ command.do = "set" =>
                  /\ command.section \in DOMAIN Section /\ command.name \in DOMAIN Section[command.section]
                  /\ command.value \in Typed
             /\ command.do = "set_handler" => command.purpose \in Purposes /\ command.agent \in Ids
<1> DEFINE command == Determine(text)
           Good(c) == /\ c.do = "set" =>
                           /\ c.section \in DOMAIN Section /\ c.name \in DOMAIN Section[c.section]
                           /\ c.value \in Typed
                      /\ c.do = "set_handler" => c.purpose \in Purposes /\ c.agent \in Ids
<1>1. Good(DetermineSetting(text))
  <2> DEFINE To(value) == [do |-> "set", scope |-> text.scope, section |-> text.section, name |-> text.name,
                           value |-> value]
  <2>1. CASE text.section \notin DOMAIN Section
    <3>1. DetermineSetting(text) = Only("unknown")
      BY <2>1, Zenon DEF DetermineSetting
    <3> QED BY <3>1 DEF Only
  <2>2. CASE text.section \in DOMAIN Section /\ text.name \notin DOMAIN Section[text.section]
    <3>1. DetermineSetting(text) = Only("unknown")
      BY <2>2, Zenon DEF DetermineSetting
    <3> QED BY <3>1 DEF Only
  <2>3. CASE text.section \in DOMAIN Section /\ text.name \in DOMAIN Section[text.section]
    <3>1. DetermineSetting(text) =
            CASE text.verb = "get" /\ text.argument = "" -> [To(Unset) EXCEPT !.do = "get"]
              [] text.verb = "set" /\ text.argument = "" -> To(Unset)
              [] text.verb = "set" /\ text.argument \in Section[text.section][text.name] -> To(text.argument)
              [] OTHER -> Only("error")
      BY <2>3, Zenon DEF DetermineSetting
    <3>2. ASSUME NEW v \in Typed PROVE Good(To(v))
      BY <2>3
    <3>3. Good([To(Unset) EXCEPT !.do = "get"]) /\ Good(Only("error"))
      BY DEF Only
    <3>4. Unset \in Typed
      BY DEF Typed
    <3>5. text.argument \in Section[text.section][text.name] => text.argument \in Typed
      BY <2>3 DEF Typed
    <3> HIDE DEF To, Good
    <3>6. CASE text.verb = "get" /\ text.argument = ""
      BY <3>1, <3>3, <3>6
    <3>7. CASE text.verb = "set" /\ text.argument = ""
      <4>1. text.verb # "get"
        BY <3>7
      <4>2. DetermineSetting(text) = To(Unset) \/ DetermineSetting(text) = To(text.argument)
        BY <3>1, <3>7, <4>1, Zenon
      <4> QED BY <3>1, <3>2, <3>4, <3>5, <3>7, <4>1
    <3>8. CASE text.verb = "set" /\ text.argument # "" /\ text.argument \in Section[text.section][text.name]
      BY <3>1, <3>2, <3>5, <3>8
    <3>9. CASE /\ ~(text.verb = "get" /\ text.argument = "") /\ ~(text.verb = "set" /\ text.argument = "")
               /\ ~(text.verb = "set" /\ text.argument \in Section[text.section][text.name])
      BY <3>1, <3>3, <3>9
    <3> QED BY <3>6, <3>7, <3>8, <3>9
  <2> HIDE DEF Good
  <2> QED BY <2>1, <2>2, <2>3
<1>2. Good(DetermineHandler(text))
  <2> DEFINE To(id) == [do |-> "set_handler", scope |-> text.scope, purpose |-> text.name, agent |-> id]
  <2>1. CASE text.name \notin Purposes
    <3>1. DetermineHandler(text) = Only("error")
      BY <2>1, Zenon DEF DetermineHandler
    <3> QED BY <3>1 DEF Only
  <2>2. ASSUME NEW id \in Ids, text.name \in Purposes PROVE Good(To(id))
    BY <2>2
  <2>3. Good([To(Unset) EXCEPT !.do = "get_handler"]) /\ Good(Only("error")) /\ Good(Only("unknown"))
    BY DEF Only
  <2>4. Unset \in Ids /\ (text.argument \in DOMAIN Agents => text.argument \in Ids)
    BY DEF Ids
  <2> HIDE DEF To, Good
  <2>5. CASE text.name \in Purposes /\ text.verb = "get"
    <3>1. DetermineHandler(text) =
            IF text.argument = "" THEN [To(Unset) EXCEPT !.do = "get_handler"] ELSE Only("error")
      BY <2>5 DEF DetermineHandler, To
    <3> QED BY <3>1, <2>3
  <2>6. CASE text.name \in Purposes /\ text.verb = "set"
    <3>1. DetermineHandler(text) =
            CASE text.argument = "" -> To(Unset)
              [] text.argument \in DOMAIN Agents -> To(text.argument)
              [] OTHER -> Only("error")
      BY <2>6 DEF DetermineHandler, To
    <3> QED BY <2>2, <2>3, <2>4, <2>6, <3>1
  <2>7. CASE text.name \in Purposes /\ text.verb \notin {"get", "set"}
    <3>1. text.verb # "get" /\ text.verb # "set"
      BY <2>7
    <3>2. DetermineHandler(text) = Only("unknown")
      BY <2>7, <3>1, Zenon DEF DetermineHandler
    <3> QED BY <3>2, <2>3
  <2> QED BY <2>1, <2>5, <2>6, <2>7
<1>3. \A w : Good(Only(w)) \/ w \in {"set", "set_handler"}
  BY DEF Only
<1> HIDE DEF Good
<1>4. ASSUME text.scope \in {"room", "global"} PROVE Good(command)
  <2>1. text.scope # "status" /\ text.scope # "CONFIG_TYPE"
    BY <1>4
  <2>2. command = IF text.section = "handler" THEN DetermineHandler(text) ELSE DetermineSetting(text)
    BY <1>4, <2>1, Zenon DEF Determine
  <2> QED BY <1>1, <1>2, <2>2
<1>5. ASSUME text.scope \notin {"room", "global"} PROVE Good(command)
  <2>1. CASE text.scope = "status"
    <3>1. command = Only("status")
      BY <2>1, Zenon DEF Determine
    <3> QED BY <1>3, <3>1
  <2>2. CASE text.scope = "CONFIG_TYPE"
    <3>1. text.scope # "status"
      BY <2>2
    <3>2. command = Only("error")
      BY <1>5, <2>2, <3>1, Zenon DEF Determine
    <3> QED BY <1>3, <3>2
  <2>3. CASE text.scope # "status" /\ text.scope # "CONFIG_TYPE"
    <3>1. command = Only("help")
      BY <1>5, <2>3, Zenon DEF Determine
    <3> QED BY <1>3, <3>1
  <2> QED BY <2>1, <2>2, <2>3
<1> QED BY <1>4, <1>5 DEF Good

LEMMA ChangedIs ==
  ASSUME NEW doc, Proper(doc), NEW text \in Texts
  PROVE  LET command == Determine(text)
         IN  /\ command.do = "set" =>
                  Changed(doc, command) = WithValue(doc, command.section, command.name, command.value)
             /\ command.do = "set_handler" =>
                  Changed(doc, command) = WithHandler(doc, command.purpose, command.agent)
<1> DEFINE command == Determine(text)
<1>1. /\ command.do = "set" =>
           /\ command.section \in DOMAIN Section /\ command.name \in DOMAIN Section[command.section]
           /\ command.value \in Typed
      /\ command.do = "set_handler" => command.purpose \in Purposes /\ command.agent \in Ids
  BY Setters
<1> HIDE DEF command
<1>2. ASSUME command.do = "set_handler"
      PROVE  Changed(doc, command) = WithHandler(doc, command.purpose, command.agent)
  <2>1. command.do # "set"
    BY <1>2
  <2>2. Changed(doc, command) = SetHandler(doc, command.purpose, command.agent)
    BY <1>2, <2>1, Zenon DEF Changed
  <2> QED BY <1>1, <1>2, <2>2, SettersSet
<1>3. ASSUME command.do = "set"
      PROVE  Changed(doc, command) = WithValue(doc, command.section, command.name, command.value)
  <2>1. command.do # "set_handler"
    BY <1>3
  <2>2. CASE command.section = "text-generation"
    <3>1. Changed(doc, command) = SetTextGeneration(doc, command.name, command.value)
      <4>1. "text-generation" # "speech-to-text" /\ "text-generation" # "text-to-speech"
        OBVIOUS
      <4> QED BY <1>3, <2>1, <2>2, <4>1, Zenon DEF Changed
    <3> QED BY <1>1, <1>3, <2>2, <3>1, SettersSet
  <2>3. CASE command.section = "speech-to-text"
    <3>1. Changed(doc, command) = SetSpeechToText(doc, command.name, command.value)
      <4>1. "speech-to-text" # "text-generation" /\ "speech-to-text" # "text-to-speech"
        OBVIOUS
      <4> QED BY <1>3, <2>1, <2>3, <4>1, Zenon DEF Changed
    <3> QED BY <1>1, <1>3, <2>3, <3>1, SettersSet
  <2>4. CASE command.section = "text-to-speech"
    <3>1. Changed(doc, command) = SetTextToSpeech(doc, command.name, command.value)
      <4>1. "text-to-speech" # "text-generation" /\ "text-to-speech" # "speech-to-text"
        OBVIOUS
      <4> QED BY <1>3, <2>1, <2>4, <4>1, Zenon DEF Changed
    <3> QED BY <1>1, <1>3, <2>4, <3>1, SettersSet
  <2> QED BY <1>1, <1>3, <2>2, <2>3, <2>4, Sections
<1> QED BY <1>2, <1>3 DEF command

LEMMA ChangedIsProper ==
  ASSUME NEW doc, Proper(doc), NEW text \in Texts, Determine(text).do \in {"set", "set_handler"}
  PROVE  Proper(Changed(doc, Determine(text)))
BY ChangedIs, Setters, ProperWithValue, ProperWithHandler

\* The documents as the first message would create them.
LEMMA FirstDocuments ==
  /\ \A initial \in [Purposes -> StaticIds \cup {Unset}] : Proper([NoSettings EXCEPT !.handler = initial])
  /\ \A v \in {"no", "command_prefix"} :
       Proper([NoSettings EXCEPT !.values["text-generation"]["prefix-requirement-type"] = v])
<1> DEFINE unset == [s \in DOMAIN Section |-> [n \in DOMAIN Section[s] |-> Unset]]
<1>1. Unset \in Ids /\ Unset \in Typed /\ StaticIds \subseteq Ids
  BY DEF Ids, Typed
<1>2. \A s \in DOMAIN Section : unset[s] \in [DOMAIN Section[s] -> Typed]
  BY <1>1
<1>3. NoSettings = [handler |-> [p \in Purposes |-> Unset], values |-> unset]
  BY DEF NoSettings
<1>4. DOMAIN unset = DOMAIN Section /\ unset = [s \in DOMAIN unset |-> unset[s]]
  OBVIOUS
<1> HIDE DEF unset
<1>5. ASSUME NEW initial \in [Purposes -> StaticIds \cup {Unset}]
      PROVE  Proper([NoSettings EXCEPT !.handler = initial])
  <2>1. [NoSettings EXCEPT !.handler = initial] = [handler |-> initial, values |-> unset]
    BY <1>3
  <2>2. initial \in [Purposes -> Ids]
    BY <1>1
  <2> QED BY <1>2, <1>4, <2>1, <2>2, MakesProper
<1>6. Proper(NoSettings)
  <2>1. [p \in Purposes |-> Unset] \in [Purposes -> Ids]
    BY <1>1
  <2> QED BY <1>2, <1>3, <1>4, <2>1, MakesProper
<1>7. ASSUME NEW v \in {"no", "command_prefix"}
      PROVE  Proper([NoSettings EXCEPT !.values["text-generation"]["prefix-requirement-type"] = v])
  <2>1. /\ "text-generation" \in DOMAIN Section
        /\ "prefix-requirement-type" \in DOMAIN Section["text-generation"]
    BY Sections
  <2>2. Section["text-generation"]["prefix-requirement-type"] = PrefixRequirementTypes
    BY DEF Section, ++, TextGenerationChoices
  <2>3. v \in Typed
    BY <2>1, <2>2 DEF Typed, PrefixRequirementTypes
  <2>4. [NoSettings EXCEPT !.values["text-generation"]["prefix-requirement-type"] = v]
          = SetTextGeneration(NoSettings, "prefix-requirement-type", v)
    BY DEF SetTextGeneration
  <2>5. SetTextGeneration(NoSettings, "prefix-requirement-type", v)
          = WithValue(NoSettings, "text-generation", "prefix-requirement-type", v)
    BY <1>6, <2>1, <2>3, SettersSet
  <2> QED BY <1>6, <2>1, <2>3, <2>4, <2>5, ProperWithValue
<1> QED BY <1>5, <1>7

-----------------------------------------------------------------------------
(* The settings over the life of the bot.                                  *)

SettingsInv ==
  /\ rooms = [r \in Rooms |-> rooms[r]]
  /\ \A r \in Rooms : rooms[r] = Unset \/ Proper(rooms[r])
  /\ global = Unset \/ Proper(global)
  /\ commands \in Nat

\* What the rooms go by: their documents and the global one, there or not.
Docs == [r \in Rooms |-> Room(r)]
Shared == Global(config.initial)

Configured == config.initial \in [Purposes -> StaticIds \cup {Unset}]

LEMMA DocumentsAreProper ==
  ASSUME SettingsInv
  PROVE  /\ \A r \in Rooms : Docs[r] = Room(r) /\ Proper(Docs[r])
         /\ Configured => Proper(Shared)
<1>1. ASSUME NEW r \in Rooms PROVE Proper(Room(r))
  <2>1. CASE rooms[r] # Unset
    BY <2>1 DEF SettingsInv, Room
  <2>2. CASE rooms[r] = Unset
    <3> DEFINE v == IF r \in Crowded THEN "command_prefix" ELSE "no"
    <3>1. Room(r) = [NoSettings EXCEPT !.values["text-generation"]["prefix-requirement-type"] = v]
      BY <2>2 DEF Room
    <3>2. v \in {"no", "command_prefix"}
      OBVIOUS
    <3> HIDE DEF v
    <3> QED BY <3>1, <3>2, FirstDocuments
  <2> QED BY <2>1, <2>2
<1>2. Configured => Proper(Shared)
  BY FirstDocuments DEF Shared, Global, SettingsInv, Configured
<1> QED BY <1>1, <1>2 DEF Docs

\* A document that is there is the one a room goes by.
LEMMA KeptDocuments ==
  ASSUME SettingsInv, Configured, UNCHANGED config, NEW room \in Rooms, NEW doc, Proper(doc), NEW shared, Proper(shared),
         rooms' = [rooms EXCEPT ![room] = doc], global' = shared
  PROVE  /\ Docs' = [Docs EXCEPT ![room] = doc] /\ Shared' = shared
         /\ rooms' = [r \in Rooms |-> rooms'[r]]
         /\ \A r \in Rooms : rooms'[r] = Unset \/ Proper(rooms'[r])
<1>1. doc # Unset /\ shared # Unset
  BY ProperDocuments
<1>2. Shared' = shared
  BY <1>1 DEF Shared, Global
<1>3. \A r \in Rooms : rooms'[r] = IF r = room THEN doc ELSE rooms[r]
  BY DEF SettingsInv
<1>4. Docs' = [r \in Rooms |-> IF r = room THEN doc ELSE Room(r)]
  BY <1>1, <1>3 DEF Docs, Room
<1> QED BY <1>2, <1>3, <1>4 DEF Docs, SettingsInv

SetterDone(command) == last'.answer = "done" /\ command.do \in {"set", "set_handler"}

\* A command that is not a setter, or is refused, changes nothing rooms go by;
\* a setter changes one document.
LEMMA WhatCommandsDo ==
  ASSUME SettingsInv, Configured, SettingsNext(config.initial), UNCHANGED startupVars
  PROVE  /\ SettingsInv'
         /\ commands' # commands
         /\ \/ Docs' = Docs /\ Shared' = Shared /\ ~SetterDone(last'.command)
            \/ \E room \in Rooms, text \in Texts :
                 LET command == Determine(text)
                 IN  /\ last'.command = command /\ last'.room = room /\ SetterDone(command)
                     /\ \/ /\ command.scope = "room" /\ Shared' = Shared
                           /\ Docs' = [Docs EXCEPT ![room] = Changed(Docs[room], command)]
                        \/ /\ command.scope = "global" /\ Docs' = Docs
                           /\ Shared' = Changed(Shared, command)
<1>c. config' = config
  BY DEF startupVars, process
<1>d. /\ \A r \in Rooms : Docs[r] = Room(r) /\ Proper(Docs[r])
      /\ Proper(Shared) /\ Shared = Global(config.initial)
      /\ Docs = [r \in Rooms |-> Docs[r]]
      /\ commands \in Nat
  BY DocumentsAreProper DEF Shared, Docs, SettingsInv
<1>k. ASSUME NEW room \in Rooms, Keep(config.initial, room)
      PROVE  /\ Docs' = Docs /\ Shared' = Shared
             /\ rooms' = [r \in Rooms |-> rooms'[r]]
             /\ \A r \in Rooms : rooms'[r] = Unset \/ Proper(rooms'[r])
             /\ Proper(global')
  <2>1. rooms' = [rooms EXCEPT ![room] = Docs[room]] /\ global' = Shared
    BY <1>d, <1>k DEF Keep
  <2>2. Proper(Docs[room]) /\ Proper(Shared)
    BY <1>d
  <2>3. /\ Docs' = [Docs EXCEPT ![room] = Docs[room]] /\ Shared' = Shared
        /\ rooms' = [r \in Rooms |-> rooms'[r]]
        /\ \A r \in Rooms : rooms'[r] = Unset \/ Proper(rooms'[r])
    BY <1>c, <2>1, <2>2, KeptDocuments
  <2> QED BY <1>d, <2>1, <2>2, <2>3
<1>1. ASSUME NEW room \in Rooms, DeleteAgent(config.initial, room)
      PROVE  /\ SettingsInv' /\ commands' # commands
             /\ Docs' = Docs /\ Shared' = Shared /\ ~SetterDone(last'.command)
  <2>1. commands' = commands + 1 /\ Keep(config.initial, room) /\ last'.command = Only("delete")
    BY <1>1 DEF DeleteAgent
  <2>2. last'.command.do = "delete"
    BY <2>1 DEF Only
  <2> QED BY <1>d, <1>k, <2>1, <2>2 DEF SettingsInv, SetterDone
<1>2. ASSUME NEW room \in Rooms, NEW sender, NEW text \in Texts, Answer(config.initial, room, sender, text)
      PROVE  /\ SettingsInv' /\ commands' # commands
             /\ Docs' = Docs /\ Shared' = Shared /\ ~SetterDone(last'.command)
  <2> DEFINE command == Determine(text)
             refused == Refused(sender, command) \/ HandlerRefused(room, command)
             answer == CASE refused -> "refused"
                         [] command.do \in {"get", "get_handler"} /\ ~Refused(sender, command) ->
                              Got(config.initial, room, command)
                         [] OTHER -> command.do
  <2>1. /\ command.do \in {"set", "set_handler"} => refused
        /\ Arrives(room, command, answer) /\ Keep(config.initial, room)
    BY <1>2 DEF Answer
  <2>2. commands' = commands + 1 /\ last'.command = command /\ last'.answer = answer
    BY <2>1 DEF Arrives
  <2>3. ASSUME command.do \in {"set", "set_handler"} PROVE answer # "done"
    <3>1. refused /\ command.do \notin {"get", "get_handler"}
      BY <2>1, <2>3
    <3> HIDE DEF refused, command
    <3>2. answer = "refused"
      BY <3>1, Zenon
    <3> QED BY <3>2
  <2> HIDE DEF command, answer
  <2> QED BY <1>d, <1>k, <2>1, <2>2, <2>3 DEF SettingsInv, SetterDone
<1>3. ASSUME NEW room \in Rooms, NEW text \in Texts, ChangeRoom(config.initial, room, text)
      PROVE  LET command == Determine(text)
             IN  /\ SettingsInv' /\ commands' # commands
                 /\ last'.command = command /\ last'.room = room /\ SetterDone(command)
                 /\ command.scope = "room" /\ Shared' = Shared
                 /\ Docs' = [Docs EXCEPT ![room] = Changed(Docs[room], command)]
  <2> DEFINE command == Determine(text)
  <2>1. /\ command.do \in {"set", "set_handler"} /\ command.scope = "room"
        /\ rooms' = [rooms EXCEPT ![room] = Changed(Docs[room], command)] /\ global' = Shared
        /\ commands' = commands + 1 /\ last' = [room |-> room, command |-> command, answer |-> "done"]
    BY <1>d, <1>3 DEF ChangeRoom, Arrives
  <2>2. Proper(Changed(Docs[room], command)) /\ Proper(Shared)
    BY <1>d, <2>1, ChangedIsProper
  <2> HIDE DEF command
  <2>3. /\ Docs' = [Docs EXCEPT ![room] = Changed(Docs[room], command)] /\ Shared' = Shared
        /\ rooms' = [r \in Rooms |-> rooms'[r]]
        /\ \A r \in Rooms : rooms'[r] = Unset \/ Proper(rooms'[r])
    BY <1>c, <2>1, <2>2, KeptDocuments
  <2>4. last'.command = command /\ last'.room = room /\ SetterDone(command)
    BY <2>1 DEF SetterDone
  <2>5. SettingsInv' /\ commands' # commands
    BY <1>d, <2>1, <2>2, <2>3 DEF SettingsInv
  <2> QED BY <2>1, <2>3, <2>4, <2>5 DEF command
<1>4. ASSUME NEW room \in Rooms, NEW sender, NEW text \in Texts, ChangeGlobal(config.initial, room, sender, text)
      PROVE  LET command == Determine(text)
             IN  /\ SettingsInv' /\ commands' # commands
                 /\ last'.command = command /\ last'.room = room /\ SetterDone(command)
                 /\ command.scope = "global" /\ Docs' = Docs
                 /\ Shared' = Changed(Shared, command)
  <2> DEFINE command == Determine(text)
  <2>1. /\ command.do \in {"set", "set_handler"} /\ command.scope = "global"
        /\ rooms' = [rooms EXCEPT ![room] = Docs[room]] /\ global' = Changed(Shared, command)
        /\ commands' = commands + 1 /\ last' = [room |-> room, command |-> command, answer |-> "done"]
    BY <1>d, <1>4 DEF ChangeGlobal, Arrives
  <2>2. Proper(Docs[room]) /\ Proper(Changed(Shared, command))
    BY <1>d, <2>1, ChangedIsProper
  <2> HIDE DEF command
  <2>3. /\ Docs' = [Docs EXCEPT ![room] = Docs[room]] /\ Shared' = Changed(Shared, command)
        /\ rooms' = [r \in Rooms |-> rooms'[r]]
        /\ \A r \in Rooms : rooms'[r] = Unset \/ Proper(rooms'[r])
    BY <1>c, <2>1, <2>2, KeptDocuments
  <2>4. last'.command = command /\ last'.room = room /\ SetterDone(command)
    BY <2>1 DEF SetterDone
  <2>5. SettingsInv' /\ commands' # commands
    BY <1>d, <2>1, <2>2, <2>3 DEF SettingsInv
  <2>6. Docs' = Docs
    BY <1>d, <2>3
  <2> QED BY <2>1, <2>3, <2>4, <2>5, <2>6 DEF command
<1> QED BY <1>1, <1>2, <1>3, <1>4 DEF SettingsNext

-----------------------------------------------------------------------------
(* What rooms use, in terms of the documents they go by.                   *)

Used(docs, shared, r, s, n) == Or(docs[r].values[s][n], Or(shared.values[s][n], Defaults[n]))
Serving(docs, shared, r, p) == Or(OfPurpose(docs[r].handler, p), OfPurpose(shared.handler, p))

GoesBy ==
  \A r \in Rooms :
    /\ Room(r) = Docs[r]
    /\ \A s \in DOMAIN Section : \A n \in DOMAIN Section[s] :
         Effective(config.initial, r, s, n) = Used(Docs, Shared, r, s, n)
    /\ \A p \in Purposes : EffectiveId(config.initial, r, p) = Serving(Docs, Shared, r, p)

LEMMA GoesByNow == GoesBy
<1> SUFFICES ASSUME NEW r \in Rooms
    PROVE  /\ Room(r) = Docs[r]
           /\ \A s \in DOMAIN Section : \A n \in DOMAIN Section[s] :
                Effective(config.initial, r, s, n) = Used(Docs, Shared, r, s, n)
           /\ \A p \in Purposes : EffectiveId(config.initial, r, p) = Serving(Docs, Shared, r, p)
  BY DEF GoesBy
<1>1. Room(r) = Docs[r]
  BY DEF Docs
<1>2. ASSUME NEW s \in DOMAIN Section, NEW n
      PROVE  Effective(config.initial, r, s, n) =
               Or(Room(r).values[s][n], Or(Global(config.initial).values[s][n], Defaults[n]))
  BY Sections DEF Effective, TextGeneration, SpeechToText, TextToSpeech
<1> QED BY <1>1, <1>2 DEF Used, Serving, EffectiveId, Shared

LEMMA GoesByNext == GoesBy'
BY GoesByNow, PTL

\* Nothing a room uses changes while the documents stay.
LEMMA NothingChanges ==
  ASSUME Docs' = Docs, Shared' = Shared,
         ~(commands' # commands /\ last'.answer = "done" /\ last'.command.do \in {"set", "set_handler"})
  PROVE  ChangesOnlyWhatIsTyped(config.initial) /\ ServesAsTyped(config.initial)
<1>1. ASSUME NEW r \in Rooms, NEW s \in DOMAIN Section, NEW n \in DOMAIN Section[s]
      PROVE  Effective(config.initial, r, s, n)' = Effective(config.initial, r, s, n)
  BY GoesByNow, GoesByNext DEF GoesBy, Used
<1>2. ASSUME NEW r \in Rooms, NEW p \in Purposes
      PROVE  EffectiveId(config.initial, r, p)' = EffectiveId(config.initial, r, p)
  BY GoesByNow, GoesByNext DEF GoesBy, Serving
<1>3. /\ ~(commands' # commands /\ last'.answer = "done" /\ last'.command.do = "set_handler")
      /\ ~(commands' # commands /\ last'.answer = "done" /\ last'.command.do = "set")
  OBVIOUS
<1>4. ServesAsTyped(config.initial)
  BY <1>2, <1>3, Zenon DEF ServesAsTyped
<1>5. ChangesOnlyWhatIsTyped(config.initial)
  <2> DEFINE Own(room, section, name) == Room(room).values[section][name] # Unset
  <2> SUFFICES ASSUME NEW room \in Rooms, NEW section \in DOMAIN Section, NEW name \in DOMAIN Section[section]
      PROVE  LET command == last'.command
                 done == commands' # commands /\ last'.answer = "done"
                 reached == /\ done /\ command.do = "set" /\ command.section = section /\ command.name = name
                            /\ IF command.scope = "room" THEN room = last'.room ELSE ~Own(room, section, name)
                 uses == Effective(config.initial, room, section, name)'
             IN CASE ~reached -> uses = Effective(config.initial, room, section, name)
                  [] reached /\ command.value # Unset -> uses = command.value
                  [] reached /\ command.value = Unset ->
                       \A other \in Rooms :
                         ~Own(other, section, name)' => uses = Effective(config.initial, other, section, name)'
    BY Zenon DEF ChangesOnlyWhatIsTyped
  <2>1. Effective(config.initial, room, section, name)' = Effective(config.initial, room, section, name)
    BY <1>1
  <2> HIDE DEF Own
  <2> QED BY <1>3, <2>1, Zenon
<1> QED BY <1>4, <1>5

\* The setters, in terms of what the documents say.
ValueSet(docs, shared, docs2, shared2, room, c) ==
  /\ \A r \in Rooms : docs2[r].handler = docs[r].handler
  /\ shared2.handler = shared.handler
  /\ \A s \in DOMAIN Section : \A n \in DOMAIN Section[s] :
       /\ \A r \in Rooms :
            docs2[r].values[s][n] = IF c.scope = "room" /\ r = room /\ s = c.section /\ n = c.name
                                    THEN c.value ELSE docs[r].values[s][n]
       /\ shared2.values[s][n] = IF c.scope = "global" /\ s = c.section /\ n = c.name
                                 THEN c.value ELSE shared.values[s][n]
HandlerSet(docs, shared, docs2, shared2, room, c) ==
  /\ \A r \in Rooms : docs2[r].values = docs[r].values
  /\ shared2.values = shared.values
  /\ \A p \in Purposes :
       /\ \A r \in Rooms :
            docs2[r].handler[p] = IF c.scope = "room" /\ r = room /\ p = c.purpose
                                  THEN c.agent ELSE docs[r].handler[p]
       /\ shared2.handler[p] = IF c.scope = "global" /\ p = c.purpose
                               THEN c.agent ELSE shared.handler[p]

LEMMA SettersChange ==
  ASSUME SettingsInv, Configured, NEW room \in Rooms, NEW text \in Texts,
         \/ /\ Determine(text).scope = "room" /\ Shared' = Shared
            /\ Docs' = [Docs EXCEPT ![room] = Changed(Docs[room], Determine(text))]
         \/ /\ Determine(text).scope = "global" /\ Docs' = Docs
            /\ Shared' = Changed(Shared, Determine(text))
  PROVE  LET c == Determine(text)
         IN  /\ c.do = "set" => ValueSet(Docs, Shared, Docs', Shared', room, c)
             /\ c.do = "set_handler" => HandlerSet(Docs, Shared, Docs', Shared', room, c)
<1> DEFINE c == Determine(text)
<1>1. /\ \A r \in Rooms : Proper(Docs[r])
      /\ Proper(Shared)
      /\ DOMAIN Docs = Rooms
  BY DocumentsAreProper DEF Docs
<1>2. /\ c.do = "set" =>
           /\ c.section \in DOMAIN Section /\ c.name \in DOMAIN Section[c.section]
           /\ c.value \in Typed
      /\ c.do = "set_handler" => c.purpose \in Purposes /\ c.agent \in Ids
  BY Setters
<1>3. ASSUME NEW doc, Proper(doc)
      PROVE  /\ c.do = "set" => Changed(doc, c) = WithValue(doc, c.section, c.name, c.value)
             /\ c.do = "set_handler" => Changed(doc, c) = WithHandler(doc, c.purpose, c.agent)
  BY <1>3, ChangedIs
<1>4. \/ /\ c.scope = "room" /\ Shared' = Shared /\ Docs' = [Docs EXCEPT ![room] = Changed(Docs[room], c)]
      \/ /\ c.scope = "global" /\ Docs' = Docs /\ Shared' = Changed(Shared, c)
  OBVIOUS
<1> HIDE DEF c
<1>5. ASSUME c.do = "set" PROVE ValueSet(Docs, Shared, Docs', Shared', room, c)
  <2>1. ASSUME NEW doc, Proper(doc)
        PROVE  /\ Changed(doc, c).handler = doc.handler
               /\ \A s \in DOMAIN Section : \A n \in DOMAIN Section[s] :
                    Changed(doc, c).values[s][n] = IF s = c.section /\ n = c.name THEN c.value ELSE doc.values[s][n]
    <3>1. Changed(doc, c) = WithValue(doc, c.section, c.name, c.value)
      BY <1>3, <1>5, <2>1
    <3> QED BY <1>2, <1>5, <2>1, <3>1, ProperWithValue
  <2>2. CASE c.scope = "room"
    <3>1. /\ Shared' = Shared
          /\ \A r \in Rooms : Docs'[r] = IF r = room THEN Changed(Docs[room], c) ELSE Docs[r]
      BY <1>1, <1>4, <2>2
    <3>2. c.scope # "global"
      BY <2>2
    <3> QED BY <1>1, <2>1, <2>2, <3>1, <3>2 DEF ValueSet
  <2>3. CASE c.scope = "global"
    <3>1. Docs' = Docs /\ Shared' = Changed(Shared, c) /\ c.scope # "room"
      BY <1>4, <2>3
    <3> QED BY <1>1, <2>1, <2>3, <3>1 DEF ValueSet
  <2> QED BY <1>4, <2>2, <2>3
<1>6. ASSUME c.do = "set_handler" PROVE HandlerSet(Docs, Shared, Docs', Shared', room, c)
  <2>1. ASSUME NEW doc, Proper(doc)
        PROVE  /\ Changed(doc, c).values = doc.values
               /\ \A p \in Purposes : Changed(doc, c).handler[p] = IF p = c.purpose THEN c.agent ELSE doc.handler[p]
    <3>1. Changed(doc, c) = WithHandler(doc, c.purpose, c.agent)
      BY <1>3, <1>6, <2>1
    <3> QED BY <1>2, <1>6, <2>1, <3>1, ProperWithHandler
  <2>2. CASE c.scope = "room"
    <3>1. /\ Shared' = Shared
          /\ \A r \in Rooms : Docs'[r] = IF r = room THEN Changed(Docs[room], c) ELSE Docs[r]
      BY <1>1, <1>4, <2>2
    <3>2. c.scope # "global"
      BY <2>2
    <3> QED BY <1>1, <2>1, <2>2, <3>1, <3>2 DEF HandlerSet
  <2>3. CASE c.scope = "global"
    <3>1. Docs' = Docs /\ Shared' = Changed(Shared, c) /\ c.scope # "room"
      BY <1>4, <2>3
    <3> QED BY <1>1, <2>1, <2>3, <3>1 DEF HandlerSet
  <2> QED BY <1>4, <2>2, <2>3
<1> QED BY <1>5, <1>6 DEF c

\* What a setter that is done promises of one room and one setting.
LEMMA ValueTakesEffect ==
  ASSUME NEW c, c.do = "set", NEW at \in Rooms, c.scope \in {"room", "global"},
         ValueSet(Docs, Shared, Docs', Shared', at, c),
         commands' # commands, last'.command = c, last'.answer = "done", last'.room = at
  PROVE  ChangesOnlyWhatIsTyped(config.initial) /\ ServesAsTyped(config.initial)
<1>1. ASSUME NEW room \in Rooms, NEW s \in DOMAIN Section, NEW n \in DOMAIN Section[s]
      PROVE  /\ Room(room).values[s][n] = Docs[room].values[s][n]
             /\ Room(room)'.values[s][n] = Docs'[room].values[s][n]
             /\ Effective(config.initial, room, s, n) = Used(Docs, Shared, room, s, n)
             /\ Effective(config.initial, room, s, n)' = Used(Docs', Shared', room, s, n)
             /\ Docs'[room].values[s][n] = IF c.scope = "room" /\ room = at /\ s = c.section /\ n = c.name
                                           THEN c.value ELSE Docs[room].values[s][n]
             /\ Shared'.values[s][n] = IF c.scope = "global" /\ s = c.section /\ n = c.name
                                       THEN c.value ELSE Shared.values[s][n]
  BY GoesByNow, GoesByNext DEF GoesBy, ValueSet, Used
<1>2. ServesAsTyped(config.initial)
  <2>1. ASSUME NEW room \in Rooms, NEW p \in Purposes
        PROVE  EffectiveId(config.initial, room, p)' = EffectiveId(config.initial, room, p)
    BY GoesByNow, GoesByNext DEF GoesBy, Serving, ValueSet
  <2>2. c.do # "set_handler"
    OBVIOUS
  <2> QED BY <2>1, <2>2, Zenon DEF ServesAsTyped
<1>3. ChangesOnlyWhatIsTyped(config.initial)
  <2> SUFFICES ASSUME NEW room \in Rooms, NEW s \in DOMAIN Section, NEW n \in DOMAIN Section[s]
      PROVE  LET command == last'.command
                 done == commands' # commands /\ last'.answer = "done"
                 reached == /\ done /\ command.do = "set" /\ command.section = s /\ command.name = n
                            /\ IF command.scope = "room" THEN room = last'.room ELSE ~(Room(room).values[s][n] # Unset)
                 uses == Effective(config.initial, room, s, n)'
             IN CASE ~reached -> uses = Effective(config.initial, room, s, n)
                  [] reached /\ command.value # Unset -> uses = command.value
                  [] reached /\ command.value = Unset ->
                       \A other \in Rooms :
                         ~(Room(other).values[s][n] # Unset)' => uses = Effective(config.initial, other, s, n)'
    BY Zenon DEF ChangesOnlyWhatIsTyped
  <2> DEFINE reached == /\ commands' # commands /\ last'.answer = "done"
                        /\ c.do = "set" /\ c.section = s /\ c.name = n
                        /\ IF c.scope = "room" THEN room = at ELSE ~(Room(room).values[s][n] # Unset)
             uses == Effective(config.initial, room, s, n)'
  <2>1. ASSUME ~reached PROVE uses = Effective(config.initial, room, s, n)
    <3>1. \/ ~(s = c.section /\ n = c.name)
          \/ c.scope = "room" /\ room # at
          \/ c.scope = "global" /\ Docs[room].values[s][n] # Unset
      BY <1>1, <2>1
    <3> QED BY <1>1, <3>1 DEF Used, Or
  <2>2. ASSUME reached, c.value # Unset PROVE uses = c.value
    <3>1. /\ s = c.section /\ n = c.name
          /\ (c.scope = "room" /\ room = at) \/ (c.scope = "global" /\ Docs[room].values[s][n] = Unset)
      BY <1>1, <2>2
    <3> QED BY <1>1, <2>2, <3>1 DEF Used, Or
  <2>3. ASSUME reached, c.value = Unset, NEW other \in Rooms, ~(Room(other).values[s][n] # Unset)'
        PROVE  uses = Effective(config.initial, other, s, n)'
    <3>1. /\ s = c.section /\ n = c.name
          /\ (c.scope = "room" /\ room = at) \/ (c.scope = "global" /\ Docs[room].values[s][n] = Unset)
      BY <1>1, <2>3
    <3>2. Docs'[room].values[s][n] = Unset
      BY <1>1, <2>3, <3>1
    <3>3. Docs'[other].values[s][n] = Unset
      BY <1>1, <2>3
    <3> QED BY <1>1, <3>2, <3>3 DEF Used, Or
  <2>4. \/ ~reached /\ uses = Effective(config.initial, room, s, n)
        \/ reached /\ c.value # Unset /\ uses = c.value
        \/ /\ reached /\ c.value = Unset
           /\ \A other \in Rooms : ~(Room(other).values[s][n] # Unset)' => uses = Effective(config.initial, other, s, n)'
    BY <2>1, <2>2, <2>3, Zenon
  <2> QED BY <2>4, Zenon
<1> QED BY <1>2, <1>3

LEMMA HandlerTakesEffect ==
  ASSUME NEW c, c.do = "set_handler", NEW at \in Rooms, c.scope \in {"room", "global"},
         HandlerSet(Docs, Shared, Docs', Shared', at, c),
         commands' # commands, last'.command = c, last'.answer = "done", last'.room = at
  PROVE  ChangesOnlyWhatIsTyped(config.initial) /\ ServesAsTyped(config.initial)
<1>1. ChangesOnlyWhatIsTyped(config.initial)
  <2>1. ASSUME NEW r \in Rooms, NEW s \in DOMAIN Section, NEW n \in DOMAIN Section[s]
        PROVE  Effective(config.initial, r, s, n)' = Effective(config.initial, r, s, n)
    BY GoesByNow, GoesByNext DEF GoesBy, Used, HandlerSet
  <2>2. c.do # "set"
    OBVIOUS
  <2> SUFFICES ASSUME NEW room \in Rooms, NEW s \in DOMAIN Section, NEW n \in DOMAIN Section[s]
      PROVE  LET command == last'.command
                 done == commands' # commands /\ last'.answer = "done"
                 reached == /\ done /\ command.do = "set" /\ command.section = s /\ command.name = n
                            /\ IF command.scope = "room" THEN room = last'.room ELSE ~(Room(room).values[s][n] # Unset)
                 uses == Effective(config.initial, room, s, n)'
             IN CASE ~reached -> uses = Effective(config.initial, room, s, n)
                  [] reached /\ command.value # Unset -> uses = command.value
                  [] reached /\ command.value = Unset ->
                       \A other \in Rooms :
                         ~(Room(other).values[s][n] # Unset)' => uses = Effective(config.initial, other, s, n)'
    BY Zenon DEF ChangesOnlyWhatIsTyped
  <2>3. ~(last'.command.do = "set")
    BY <2>2
  <2>4. Effective(config.initial, room, s, n)' = Effective(config.initial, room, s, n)
    BY <2>1
  <2> QED BY <2>3, <2>4, Zenon
<1>2. ServesAsTyped(config.initial)
  <2>1. ASSUME NEW room \in Rooms, NEW p \in Purposes
        PROVE  /\ Room(room).handler = Docs[room].handler
               /\ EffectiveId(config.initial, room, p) = Serving(Docs, Shared, room, p)
               /\ EffectiveId(config.initial, room, p)' = Serving(Docs', Shared', room, p)
               /\ Docs'[room].handler[p] = IF c.scope = "room" /\ room = at /\ p = c.purpose
                                           THEN c.agent ELSE Docs[room].handler[p]
               /\ Shared'.handler[p] = IF c.scope = "global" /\ p = c.purpose
                                       THEN c.agent ELSE Shared.handler[p]
    BY GoesByNow, GoesByNext DEF GoesBy, HandlerSet, Serving
  <2> SUFFICES ASSUME NEW room \in Rooms, NEW purpose \in Purposes
      PROVE  LET reached == /\ c.purpose \in {purpose, "catch-all"}
                            /\ IF c.scope = "room" THEN room = at
                               ELSE OfPurpose(Room(room).handler, purpose) = Unset
             IN /\ ~reached => EffectiveId(config.initial, room, purpose)' = EffectiveId(config.initial, room, purpose)
                /\ reached /\ c.purpose = purpose /\ c.agent # Unset =>
                     EffectiveId(config.initial, room, purpose)' = c.agent
    BY DEF ServesAsTyped
  <2>2. "catch-all" \in Purposes
    BY DEF Purposes
  <2>3. ASSUME c.purpose \notin {purpose, "catch-all"}
        PROVE  EffectiveId(config.initial, room, purpose)' = EffectiveId(config.initial, room, purpose)
    BY <2>1, <2>2, <2>3 DEF Serving, OfPurpose
  <2>4. ASSUME c.scope = "room", room # at
        PROVE  EffectiveId(config.initial, room, purpose)' = EffectiveId(config.initial, room, purpose)
    BY <2>1, <2>2, <2>4 DEF Serving, OfPurpose
  <2>5. ASSUME c.scope = "global", OfPurpose(Room(room).handler, purpose) # Unset
        PROVE  EffectiveId(config.initial, room, purpose)' = EffectiveId(config.initial, room, purpose)
    BY <2>1, <2>2, <2>5 DEF Serving, OfPurpose, Or
  <2>6. ASSUME c.purpose = purpose, c.agent # Unset, c.scope = "room", room = at
        PROVE  EffectiveId(config.initial, room, purpose)' = c.agent
    BY <2>1, <2>2, <2>6 DEF Serving, OfPurpose, Or
  <2>7. ASSUME c.purpose = purpose, c.agent # Unset, c.scope = "global", OfPurpose(Room(room).handler, purpose) = Unset
        PROVE  EffectiveId(config.initial, room, purpose)' = c.agent
    BY <2>1, <2>2, <2>7 DEF Serving, OfPurpose, Or
  <2> QED BY <2>3, <2>4, <2>5, <2>6, <2>7
<1> QED BY <1>1, <1>2

\* What a command that is done takes effect on, whatever the command.
LEMMA CommandsEffect ==
  ASSUME SettingsInv, Configured, SettingsNext(config.initial), UNCHANGED startupVars
  PROVE  ChangesOnlyWhatIsTyped(config.initial) /\ ServesAsTyped(config.initial)
<1>1. CASE Docs' = Docs /\ Shared' = Shared /\ ~SetterDone(last'.command)
  BY <1>1, NothingChanges DEF SetterDone
<1>2. ASSUME NEW room \in Rooms, NEW text \in Texts,
             last'.command = Determine(text), last'.room = room, SetterDone(Determine(text)),
             \/ /\ Determine(text).scope = "room" /\ Shared' = Shared
                /\ Docs' = [Docs EXCEPT ![room] = Changed(Docs[room], Determine(text))]
             \/ /\ Determine(text).scope = "global" /\ Docs' = Docs
                /\ Shared' = Changed(Shared, Determine(text)),
             commands' # commands
      PROVE  ChangesOnlyWhatIsTyped(config.initial) /\ ServesAsTyped(config.initial)
  <2>1. /\ Determine(text).do = "set" => ValueSet(Docs, Shared, Docs', Shared', room, Determine(text))
        /\ Determine(text).do = "set_handler" => HandlerSet(Docs, Shared, Docs', Shared', room, Determine(text))
    BY <1>2, SettersChange
  <2>2. last'.answer = "done" /\ Determine(text).do \in {"set", "set_handler"}
    BY <1>2 DEF SetterDone
  <2>3. Determine(text).scope \in {"room", "global"}
    BY <1>2
  <2>4. CASE Determine(text).do = "set"
    BY <1>2, <2>1, <2>2, <2>3, <2>4, ValueTakesEffect
  <2>5. CASE Determine(text).do = "set_handler"
    BY <1>2, <2>1, <2>2, <2>3, <2>5, HandlerTakesEffect
  <2> QED BY <2>2, <2>4, <2>5
<1> QED BY <1>1, <1>2, WhatCommandsDo

LEMMA SyncsConfigured == Inv /\ pc = "sync" => Configured
<1> SUFFICES ASSUME Inv, pc = "sync" PROVE Configured
  OBVIOUS
<1>1. PICK d \in Deployments : config = Load(d.file, d.env)
  BY DEF Inv, ChecksInv, Loaded
<1>2. Validate(config)
  BY DEF Inv, ChecksInv
<1> QED BY <1>1, <1>2, InitialAssumption DEF Configured

LEMMA SettingsInvariant == Spec => []SettingsInv
<1>1. Init => SettingsInv
  BY DEF Init, SettingsInit, SettingsInv
<1>2. Inv /\ SettingsInv /\ [Next]_vars => SettingsInv'
  <2> SUFFICES ASSUME Inv, SettingsInv, [Next]_vars PROVE SettingsInv'
    OBVIOUS
  <2>1. CASE Command
    BY <2>1, WhatCommandsDo, SyncsConfigured DEF Command
  <2>2. CASE UNCHANGED settingsVars
    BY <2>2 DEF settingsVars, SettingsInv
  <2> QED BY <2>1, <2>2 DEF Next, Boot, vars
<1> QED BY <1>1, <1>2, Invariant, PTL DEF Spec

\* A command that is done takes the effect that was typed, in the rooms it
\* reaches, and nothing else changes what any room uses: neither another
\* command nor a restart with another static configuration (handle_set,
\* get_or_create, RoomConfigContext).
THEOREM CommandsTakeEffect == Spec => CommandTakesEffect
<1> DEFINE Effect == None \notin {config, config'} /\ (global # Unset \/ config' = config) =>
                       ChangesOnlyWhatIsTyped(config.initial) /\ ServesAsTyped(config.initial)
<1>1. Inv /\ SettingsInv /\ [Next]_vars => [Effect]_vars
  <2> SUFFICES ASSUME Inv, SettingsInv, Next, global # Unset \/ config' = config
      PROVE  ChangesOnlyWhatIsTyped(config.initial) /\ ServesAsTyped(config.initial)
    OBVIOUS
  <2>1. CASE Command
    BY <2>1, CommandsEffect, SyncsConfigured DEF Command
  <2>2. CASE Boot
    <3>1. UNCHANGED settingsVars
      BY <2>2 DEF Boot
    <3>2. Docs' = Docs /\ Shared' = Shared
      BY <3>1 DEF settingsVars, Docs, Room, Shared, Global
    <3>3. commands' = commands
      BY <3>1 DEF settingsVars
    <3> QED BY <3>2, <3>3, NothingChanges
  <2> QED BY <2>1, <2>2 DEF Next
<1> QED BY <1>1, Invariant, SettingsInvariant, PTL DEF Spec, CommandTakesEffect

\* `config status` tells what the handlers and the providers use: its lines
\* lead to the agent that serves a purpose, it shows what a provider is asked
\* for, and two rooms differ about what one of them says it has (generate_status).
THEOREM StatusIsTruthful == Spec => []StatusTellsTruth
<1>1. StatusAgrees(config.initial)
  BY StatusIsTrue
<1>2. StatusTellsTruth
  BY <1>1 DEF StatusTellsTruth
<1> QED BY <1>2, PTL
=============================================================================
