# A TLA+ verification of baibot

baibot is a Matrix bot (Rust, `src/`) that answers messages with the help of
LLM providers, charges rooms for it from a prepaid ledger, and sells credit
through a payment sidecar (Python, `x402-sidecar/`) that settles TRON payments
with an external x402 facilitator. This directory holds TLA+ models of the parts
of it where state, concurrency and failure meet, TLC instances that check them,
and TLAPS proofs of what matters most.

Contents: [inventory](#inventory), [modules](#modules),
[runs](#runs-and-what-they-show), [bounds](#bounds), [fairness](#fairness),
[proofs](#proofs), [disagreements with the documentation](#where-the-code-and-its-documentation-disagree),
[not modelled](#not-modelled), [plan](#plan).

## Inventory

The bot is one tokio process: every Matrix event is handled by a task of its
own, so handlers of different messages interleave at every `await`. The sidecar
is one asyncio event loop: what happens between two awaits is atomic. They share
nothing but HTTP calls. State survives in four places: an SQLite ledger (bot),
an SQLite table of payments (sidecar), the Matrix account (the bot's dynamic
configuration and its catch-up marker, its devices, secret storage, key backup and
profile), and the data directory (the session file and the SDK's store).

| Component | State | Operations | What is hard | What makes it correct |
|---|---|---|---|---|
| Billing ledger (`billing/ledger.rs`, `schema.sql`) | append-only `billing_events` | reserve, charge, release, topup, manual release and refund; balance, spending of a period, zombies | uniqueness is enforced per transaction, partly by lookups and partly by a unique index; balances are sums over the table | a hold is settled at most once; no money appears or disappears |
| Billed calls (`billing/wrapper.rs`, `chat_completion/billing_glue.rs`) | where each handler is | balance check, two caps, reserve, provider call, charge, release | four transactions to get in and two to get out, other handlers in between; kills and power losses | refused calls cost nothing, provider calls run under a hold, answers are charged once, overdraft and overspending are bounded |
| x402 top-ups, bot side (`bot/x402.rs`, `x402/`) | submits in flight, announcement channel | forward a permit, credit a settlement, confirm it in the room | look-then-insert, time-outs racing answers, lost notices | a payment is credited at most once, to its room, only if it was paid |
| x402 sidecar (`x402_sidecar/app.py`, `db.py`) | `payments`, `webhooks_received` | issue, submit (verify, settle, notify), legacy push, status | rows read before awaits; several wallets per payment; a lost settle answer | a settled row is final; acceptance means settlement |
| Dynamic configuration (`entity/globalconfig`, `entity/roomconfig`, `controller/cfg`) | a room document per room, a global document | every setting, handlers | handlers persist a whole document from the copy they read | an undisturbed command does exactly what it says |
| Access control (`controller/access`, `entity/message_context.rs`) | users and room-local agent managers, in the global document | set users, set managers, the check of each command | rights are checked on a copy | access changes only through administrators |
| Agents (`agent/`, `controller/agent`) | definitions in the documents and in the static configuration | create (with a ping), delete, resolve for a purpose | definitions come and go while handlers name them | what serves a purpose exists and may serve there |
| Chat completion and speech on demand (`controller/chat_completion/mod.rs`, `controller/reaction`) | messages and reactions in the room | transcribe, notice, generate, finalise, speak | a timer races the generation; every request may fail or lose its answer | one outcome, nothing left behind, the answer is not lost |
| Event intake (`bot/messaging.rs`, `bot/reacting.rs`, `bot/rooms.rs`, `entity/catch_up_marker`) | the catch-up marker, its schedule | is_caught_up, catch_up, the persisting task | events out of order, two mutexes, restarts | only late events are ignored, no update is dropped |
| Message routing (`controller/determination`, `conversation/matrix`) | a cache of events | a message, its place and its thread's root to a controller | prefix rules, mentions, roots that are redacted or cannot be decrypted, a cache that is never told | who addresses the bot is answered, nobody else |
| Conversations (`conversation/`) | none | thread or reply chain to turns, merging, shortening | the room changes while it is read; boundaries of the context window | the messages that count, in order, cut between turns |
| Settings and status (`entity/roomconfig`, `entity/globalconfig`, `entity/room_config_context.rs`, `controller/cfg`) | none of their own: the two documents | parse a command, set, unset, resolve for a room, `config status` | every setting has its own chain of fallbacks, written once in the handlers and once more in the status | a command changes what it names and nothing else, the status says what is used |
| Static configuration and startup (`entity/cfg`, `main.rs`, `bot/implementation.rs`) | the configuration of this start, the session file | load, override, validate; sign in, recover, open ledger and webhook, prepare the profile, sync | a start may be cut short anywhere and be repeated with another configuration | a start ends refused, failed with nothing lost, or up as configured |
| Recovery and TRON login (`recovery.rs`, `tron_login`) | the account's devices, secret storage and key backup | lookup, challenge, sign, log in; recover, reset, enable, repair | sequences of remote calls with a deletion in them; a binding read before it is used | the bot runs as its own user; keys are replaced only with consent |
| Venice (`agent/provider/venice`) | the cache of refused fields, for the life of the process | a request, its retries without the field that was refused | learned by one handler, used by another; a retry without a counter | only what the model refused is dropped, each refusal is met once |
| Pricing (`billing/pricing.rs`) | price table | cost of a call | missing costs, unknown models | a charge covers the cost |
| Facilitator watch (`facilitator_watch.py`) | last verdict, failure count | probe, record outcome | a probe overlapping an outcome | the verdict reflects the last outcomes |
| Invitations, introductions, images | little or none | sequences of remote calls | partial failure | see [plan](#plan) |
| Providers, texts, help, localisation, codecs, utilities | none | I/O and formatting | | out of scope |

How they interact: a *start* brings the bot from the *static configuration*
through *login* and *recovery* to the sync. From then on a message passes *event intake* (catch-up marker, access),
is *routed* by what it is and where it is posted, and either becomes a *configuration* command, or a *chat completion*
that calls *billed calls* around the provider (*Venice* among them). The static
configuration shows up once more in the *settings*, as the initial global
configuration and as the agents that exist everywhere. A refused call makes the bot ask
the *sidecar* for a payment; the payer's signed permit comes back as a Matrix
event, goes to the sidecar, which settles it at the facilitator and notifies the
bot's webhook, which tops the *ledger* up and has the room told.

`PROJECT.json` lists every hazard found, at its line, with the properties that
would notice it going wrong.

## Modules

| Module | Models | State and actions |
|---|---|---|
| `BillingLedger` | `BillingService` | constant module: each query and transaction is an operator on the sequence of rows. A row that would violate a lookup or the unique index is refused |
| `BilledCalls` | `run_billed_call`, next to top-ups and administrators | `events` is the ledger; `pc[c]` the await of call `c`, or its `BilledCallOutcome`. `CheckBalance`, `CheckDailyCap`, `CheckMonthlyCap`, `WriteReserve`, `LlmAnswers`/`LlmFails`, `WriteCharge`, `WriteRelease` are one step per await; `LedgerFails` is a database error at any of them; `Credit`, `AdminReleases`, `AdminRefunds` are the other writers; a kill and `PowerLoss` (which takes any suffix of the rows) are the environment |
| `RoomAccounts` | what the ledger promises | abstract: balances, holds, captures, deposits. `BilledCalls` implements it (`AccountsSpec`), a balance being the sum over the table |
| `X402Payments` | the bot's submit handler and webhook, the sidecar, the facilitator's part | `row` is the payments table; `pc[s]` the sidecar's await of submit `s`, `bot[s]` the bot's side of it, `notice[m]` the notification at the webhook, `events` the top-ups in the ledger (the operators of `BillingLedger`), `channel` and `posted` the announcements. `DrainAnnouncement` posts the confirmation, or drops it (the bot is not in the room, the send fails), which leaves the notice "unconfirmed" |
| `PaymentPipeline` | what the three processes promise together | abstract: issue, pay, book, credit, confirm, in this order, each at most once. `X402Payments` implements it (`PipelineSpec`) |
| `ConfigStore` | both documents, all commands that change them, access, which agents exist and are named where | `room`, `global` are stored documents; `copy[c]` what the handler of command `c` read; `ReadRoom`, `PingAgent`, `PersistRoom`, `PersistGlobal`, `Reread`, `ReadAndPersist` are the awaits, and a write may be carried out while its answer is lost (`Answer`); `Joined` resets a room |
| `ChatReply` | `chat_completion::handle` for one message, and `reaction::handle` for a reaction that asks for speech | `messages` and `reactions` are the bot's events in the room as they now read; one action per request to the homeserver, a provider or the ledger, each with the outcomes done / not done / done but unacknowledged |
| `VeniceChat` | one text generation by an agent on Venice | `cache` is the process-wide table of refusals by base URL and model, `request` the optional fields of the request under way, `response` what Venice said; `Respond`, `Retry`, `OthersLearn` (the other handlers) |
| `VeniceReply` | `ChatReply` with `VeniceChat` for its provider | the generation's future runs only while the handler polls it (`Poll`): an answer, or a refusal to retry after, waits for a notice that is being posted |
| `EventIntake` | the catch-up marker and the handlers that use it | `cached`, `stored`, `next` are the marker, its copy in account data, and the schedule; `persister` says which of the two mutexes the task holds: the schedule's from `Tick`, the manager's as well from `ReadMarker`, where `due` is worked out, to `Persist`. A handler has the manager's while it reads the marker (`LockManager`, `IsCaughtUp`), and takes the schedule's in `CatchUp` |
| `Conversations` | who is answered, with which messages, and what is kept of them for the provider | `timeline` is the room as posted, `view` how each message reads now (clear, encrypted, redacted), `cache` how it read when `RoomEventFetcher` got it; `handler` is the handler of one message, with an action per await (`RouteThreaded` and `FetchReplyChain` fetch through the cache, `CreateConversationForThread` asks the server). Selecting, merging and shortening are recursive functions of the number of messages dealt with (`InOrder`, `CombineConsecutiveMessages`, `ShortenToContextSize`), whose steps are `Combine` and `Keep` |
| `StaticConfig` | the configuration file, the variables laid over it, the validation, what a start derives from it | constant module: `Load`, `Validate`, `AuthConfig` and the rules they are made of |
| `Startup` | `main`, `Bot::new`, `recovery.rs`, `tron_login`, `prepare_profile` | `pc` is where this start is, `config` what it runs with; `session`, `secrets` are the data directory; `devices`, `binding`, `storage`, `backup`, `profile` the account. One action per remote call; `Fails` ends a start at any of them, the one after the login included (`mxlink::init`), with or without the request having been carried out (`LoginUnheard`, `BackupUnheard`); `Kill`, `LoseData` and `OthersAct` come in between |
| `Settings` | every setting, the commands that read and change them, what the handlers use, `config status` | `global` and `room` are the documents; parsing, the getters and the status are operators, each translated from its own code and none defined by another |
| `BotLife` | `Startup` and `Settings` together | starts, commands while the bot syncs, and later starts with other configurations that find the settings in the account data |
| `BilledCallsProofs`, `X402PaymentsProofs`, `ConfigStoreProofs`, `EventIntakeProofs`, `ChatReplyProofs`, `VeniceReplyProofs`, `ConversationsProofs`, `BotLifeProofs` | | theorems, each about the module it is named after |
| `MC*` | | instances for TLC |

Two abstractions recur. *Data*: amounts are small integers, texts are the kind of
text, a permit that does not check out is the answer `bad_request`. *Awaits*: a
step is what the code does between two awaits; a ledger call is one step because
it is one SQLite transaction under one mutex.

`ConfigStore` and `Settings` divide the dynamic configuration: the first has
commands that overlap and one value for a setting; the second has every setting with
its own name, type and defaults, and commands one after the other. Which agent serves a
purpose, and whether it supports it, is in `Settings` (`EffectiveAgent`).

`matrix-sdk` and `mxlink` are dependencies. `Startup` and `EventIntake` state what
they take them to do: reading an account-data document that does not exist
stores the initial one; a login makes a device; recovering with the right
passphrase restores the backup key; the SDK signs nobody out.

`Conversations` follows one handler at a time. All that another one could do to
it is to post messages and to fill the cache; people's posts, redactions and
settings between any two awaits, and fetches of earlier handlers, do as much.

Definitions whose name ends in an underscore and a phrase (`Record_ByModel`)
are faulty variants of the definition they are named after. Nothing uses them;
they show, one for each property, that the property would notice such a fault.

## Runs and what they show

| Run | Shows |
|---|---|
| `billed_settle` | Two concurrent calls in two rooms, a top-up, an administrator who releases and refunds, ledger errors and kills. A call has at most one row per kind (`OneRowPerKind`); the ledger has of a call what its handler is at (`OutcomeMatchesLedger`: nothing of a refused call, the hold during the provider call, a charge only of an answered call and with the amount of its answer, both settlements of a success); a room's balance is its credit minus charges minus open holds (`BalanceConservation`); a room cannot go below zero by more than a hold and a charge per concurrent handler (`OverdraftBounded`); every call gets an outcome (`EveryCallEnds`); and the table implements `RoomAccounts` (`AccountsSpec`) |
| `billed_caps` | Three calls over a day boundary and a month boundary, and a power loss that takes any suffix of the rows: a cap is exceeded by at most one charge per concurrent handler (`CapOvershootBounded`), and no settlement is on record without its hold (`SettlementFollowsHold`) |
| `billed_doc_zombie` | violation, see below |
| `x402_credit` | Two submits (two wallets, two rooms) and a legacy push race for one payment, with a kill of either process and a lost notice: credited at most once, to the room and with the amount it was issued for, only if transferred; a 200 answer means settled; a settled row is final; `PaymentPipeline` is implemented. The room may not be told: a confirmation can be dropped |
| `x402_live` | Every submit event ends in an acceptance or in something told to the room; a notice that reaches the webhook fails before the insert, or is credited; and then it is posted, found to be a repeated one, or given up unconfirmed after a failure (`NoticeIsCredited`) |
| `x402_doc_paid` | violation, see below |
| `config_safety` | Two commands of any kind, from an administrator or a user, in two rooms, with joins between: agents exist only where they were created, the global fallback names no room-local agent (in `TypeOK`), a handler names only an agent of the bot's or one that was created in that very room (or by an administrator) by who may, even where a copy it was looked up in was overtaken (`HandlersNameDeclared`), access changes only through administrators, and a command that no other write overtook does exactly what it says, also when only the answer to its write is lost. (With two commands, a deletion comes between the lookup of an agent and the handler that names it only as a join; the theorem is about any number) |
| `config_doc_agents` | violation, see below |
| `chat_reply` | Every kind of message and setting, reactions that ask for speech, up to two failing requests, a notice racing the generation, a provider that refuses fields while other handlers learn of refusals: one outcome per generation (`OneOutcome`), no notice or progress reaction left unless a request failed (`ProgressIsWithdrawn`), the answer lost only by as many failures as there are ways to deliver it (`AnswerReachesRoom`), speech only of the answer, of the user's text or of the text reacted to, no notice after the outcome, the handler ends, with all retries of the generation (`HandlerEnds`); a request lacks only optional fields that its own model on its own deployment refused (`OnlyRefusedFieldsAreDropped`), and no generation meets a refusal that was known before it began (`RefusalIsLearnedOnce`) |
| `event_intake` | Three events in any order, a failing request, a restart with or without the SDK's store: an event is ignored as old only if one later than it by the tolerance was dealt with; a scheduled update disappears only by being written, replaced by a later one, or lost to a failure; though the task waits for one mutex with the other in hand, it and the handlers do not block one another (`HandlersAndScheduleEnd`) |
| `conversations` | Rooms of up to three messages (one top-level, the others threaded or replies), of a user, a stranger and the bot, one of them redacted or decrypted late, encrypted or not: a message is answered exactly if it addresses the bot by the documented rule, unless its thread's root cannot be read, and with one exception that the rule does not have: voice messages, and the threads they begin, are answered where a prefix is required (`AnswersWhoAddressesIt`, `VoiceIsAnswered`); the conversation has every message of the thread or chain that counts, once and in order, and no stranger's unless the bot was called in (`ConversationIsWhole`); what is kept is the longest part from the end that starts with a user and fits, for every context size, and merging loses and misattributes nothing (`RequestIsRecentTurns`) |
| `bot_life` | Up to three starts with any of twelve deployments (eight of them refused, each by another rule), failures and kills anywhere, with or without the last request having been carried out, a lost data directory, a wallet bound to somebody else and changes by the account's other clients; or settings commands, and a restart with another configuration. The bot runs as its own user, no start makes two devices, and every device but the one it runs with is of a start that ended at the login or between the login and the saved session, or of a lost data directory (`SignInIsAccounted`): a start that finds a session makes none, one that is past the sign-in leaves none; a bot that is up, and whose account nobody else touched since, could make up for the loss of its data directory and shows the name and avatar it is configured with (`UpAsConfigured`); secret storage and key backup are replaced only by a start with `recovery_reset_allowed` (`NothingLostWithoutConsent`); a start ends, up or refused, unless the avatar cannot be had (`StartsComeUp`); a command changes the setting it names to what was typed, in the document it names, and a restart with another configuration changes nothing of what rooms use once the global document exists (`CommandTakesEffect`); the status says, setting by setting, what is used and where it is set (`StatusTellsTruth`) |

Deadlock is not checked anywhere: in every module the system comes to rest when
the bounded supply of messages, payments or commands is used up. That nothing
waits for ever before is what the liveness properties state.

## Bounds

* Two handlers are enough for every race between a check and the write it
  guards, as each race is between two. `billed_caps` has three calls with at most
  two at work, so that a call that has ended can have used the cap up.
* `MaxTime`, `DayLength` and `MonthLength` put one boundary of each kind within
  reach (ticks 0 and 1 of a two-tick month). In `billed_settle` time stands still, as nothing
  checked there depends on it.
* Charges of 0 and of more than the hold (5 against 3) are the two extremes:
  a model without a price, and an answer dearer than what was reserved. Caps are
  low enough to refuse.
* `MaxFailures`, `MaxCrashes`, `MaxPowerLosses`, `MaxRefunds` bound events of the
  environment, one of each; in `ChatReply` two failing requests, because its
  properties count them (an edit and the send that replaces it).
* The agents on Venice: two models on one deployment, and the name of one of them on
  another, so that a refusal kept under half of its key shows. Other handlers learn until
  the generation of this one ends; later refusals reach nothing that the run observes.
* `BotLife`: three starts (one to set up, one that is cut short, one that makes up
  for it), two kills or losses, one change by others, two commands, and twelve
  deployments. Failures are not bounded but by the starts. Commands come in the first start, one of them carried over to a
  second, and only in lives without accidents: what a command changes is on the
  homeserver, which no accident reaches. Values, agents and rooms are two or three
  each: own and inherited, with and without an agent, one room with two people and
  one with more.
* One payment in `X402Payments`: nothing in the code relates two payments except
  their rooms' balance, which is a sum (`BilledCalls`). The proofs are for any number.
* `EventIntake` has timestamps 1, 2, 4 and tolerance 1: within, at and beyond the
  tolerance.
* `Conversations` has three messages, and the bot's posts are among them: a root or a
  chain, an answer or a transcript, and the message that asks. `MaxContext` exceeds the size of
  all of them together; a user's text counts one token and an answer two, so that
  windows end at either. People post one message at most before the bot gets to it.
* Symmetry is used for calls, rooms, commands, payments, users, wallets and
  submits, in runs without liveness properties.

## Fairness

* `BilledCalls`: weak fairness of each handler. tokio polls a task that can go
  on; the ledger's mutex is held for one transaction only; the agent's HTTP call
  answers or fails (assumed of the network, the bot itself sets no limit).
* `X402Payments`: weak fairness of the bot's handler, of the sidecar's, and of
  the webhook's steps. Each await between the processes has a time-out
  (10 s in `client.rs` and in the notify client, the facilitator client's own),
  which the model has as actions. Nothing is assumed of the facilitator, of the
  payer, or that a lost notice is repeated.
* `VeniceReply`: weak fairness of the handler, of Venice (it answers, or the HTTP
  client's 120 seconds end the request) and of the poll of the generation. The
  timer is *not* fair, so the handler cannot rely on it; nor is what others learn.
* `Startup`: weak fairness of the step a start is at; each is a local step or a
  remote call that answers or fails. Strong fairness of `PrepareProfile`, which is
  retried until it succeeds: the homeserver does not fail it for ever. The failures,
  kills and the others are not fair.
* `EventIntake`: weak fairness of the interval and of the write, strong fairness of
  the handlers and of the step at which the task waits for the manager's mutex. Both
  wait for mutexes which the other takes again and again; they get them because
  tokio's mutexes are first come, first served.

## Proofs

TLAPS checks these for every value of the constants that satisfies the
assumptions in the modules. Those are of four kinds: a value that stands for "none"
is none of the values it stands beside (`IdAssumption`, `NameAssumption`,
`TermsAssumption`, `MessageAssumption`, `DocumentAssumption`, and each
`NoneAssumption`); numbers are numbers (amounts, lengths, bounds); there is a dearest
charge (`DearestAssumption`: a cost is that of a bounded number of tokens); and what a
configuration names is of the kind it should be (`AgentAssumption`,
`InitialAssumption`, `KindAssumption`). TLC evaluates them all. The bounds that keep
TLC's runs finite are constants too, so that a theorem covers every bound.

**`BilledCallsProofs`**: `TypeCorrect`, `AtMostOncePerKind`,
`SettlementsMatchHolds`, `OutcomesAreBooked`. The argument has two layers. First, every step either
leaves the ledger alone, appends one *admissible* row (first of its kind for its
call, after the hold it settles), or cuts a suffix (a power loss);
`LedgerInv` (at most one row per kind; settlements match holds) is inductive
under these three alone. Cutting a suffix keeps it because a settlement comes
after its hold. Second, `CallInv` relates a handler's `pc` to the rows of its
call: none before the reserve is written, the hold while the provider is called,
a charge only after the answer. `OutcomesAreBooked` follows from it; the part of
it that no property states is that a handler still before its reserve has no rows
(`NoRowsBeforeHold`): refusals are only sound because of it. A power loss keeps
it because the handlers die with the rows.

Then the money: `MoneyIsConserved`, `OverdraftIsBounded`, `CapOvershootIsBounded`.
A sum over the table is a recursive function of its length (`SumUpTo`), and what is
true of sums is proved by induction over the rows. The library's induction theorems
take a predicate as a parameter, which no installed prover can instantiate;
`SetInduction` states the same for a *set* of numbers, and is used with the set of those
for which a fact about the sum holds. `MoneyIsConserved` holds of every prefix of a
table of admissible rows: a settlement finds its hold among the rows before it. For
`OverdraftIsBounded`, `OverdraftInv` weighs the balance against the handlers at work in the room:
one that has passed the balance check and not yet reserved stands for a hold and a
charge, one that has reserved for a charge, and there are never more than
`MaxConcurrent` of them (`ConcurrencyInv`). `CapInv` does the same with what a period has
spent; that a new period only ever counts less (`SpentLater`) is what makes it survive
the clock. `LedgerImplementsAccounts`: while there is no power loss, the ledger
implements `RoomAccounts`. Each row a step may write is one step of the accounts or
none (`RowIsAccountStep`), a balance being the sum, a hold being open as long as neither
settlement is on record.

**`X402PaymentsProofs`**: `PaymentTypes`, `CreditedOnce`, `CreditsAreBacked`,
`AcceptsOnlySettled`, `SettledForGood`. Records only grow (`Grows`: a row keeps
its room and amount, a settled row all of it, a transfer stays settled), so a
fact about them, once true, stays. `PaymentInv` strengthens the properties by
`Linked`: work goes on only for known payments, a booked row names a transfer
that went through, whoever claims settlement (a notice, an accepted submit) is
right; and `WaitingIsNoticed`, that whatever waits in the channel came of a
notice. `CreditedAtMostOnce` then rests on the unique index at the moment of the
insert, not on the lookup before it. `PaymentsImplementPipeline` shows that the three
processes implement `PaymentPipeline`, step by step. What it needs besides is
`AnnouncedInv`: an announcement, in the channel or in the room, is of a payment that was
credited, and only the one handler that inserted the top-up makes it; a payment is
therefore announced once although several notices arrive.

**`EventIntakeProofs`**: `IntakeTypes`, `LateEventsOnly`, `ScheduleKept`. The marker
travels from the schedule through account data back into memory, over failures and
restarts. `IntakeInv` says of each of the three places that what it holds was
*earned*: the schedule is the timestamp of an event that was dealt with, and a marker
lies below such a timestamp by the tolerance. `DueIsScheduled` says that what the task
worked out before its write is still what is scheduled at the write, which only the
schedule's mutex makes true; `ScheduleKept` rests on it. An event found old is then late by
comparison with one that was dealt with, whatever the order they came in.

**`ConfigStoreProofs`**: `ConfigTypes`, `AccessByAdmins`, `UndisturbedExact`,
`AgentsDeclared`, `HandlersDeclared`, for any number of overlapping commands. `HandlerInv` says what a
handler may take for granted at each of its awaits: that its sender and command
passed the checks *made on its copy*, and nothing of the stored documents, which others
change meanwhile. `FreshInv` adds what the documents have to do with the copy: as long
as no write overtook it, the copy of the document it will persist is the document. `AgentsInv` says of the documents and of all copies alike that their agents
were created there, as a stale copy is persisted as readily as a fresh one; `HandlersDeclared`
has the same of the agents that handlers name, of documents, copies and the commands
that were looked up in them.

**`ChatReplyProofs`**: `SpeechOfTheAnswer`, `OutcomeIsLast`, for any number of failing
requests. `RoomInv` says of each await what the room may read: nothing that looks like
an outcome before `Finalize`; nothing to speak before the answer was acknowledged; the
message to speak is an answer and, as nothing is edited any more, stays one. That a
lost answer to an edit leaves an outcome behind which the handler does not know of is
the case that makes "no outcome before `send_answer`" false, and the invariant needs it.
`OutcomesAreCounted`, `ProgressIsCounted` and `AnswersAreNotLost` count: `OutcomeInv` and
`NoticeInv` bound the outcomes and notices in the room by the failures so far, await by
await (an outcome the handler does not know of has cost a failure, and so has a notice
that was not replaced), `ProgressInv` the reactions that are not withdrawn. `ReplyTypes`
gives the types they rest on.

**`VeniceReplyProofs`**: `OnlyRefusedDropped`, `LearnedOnce`, of the composed system,
for any agents on any deployments. `CacheInv` says that the cache has exactly the
fields that Venice refused to that model on that deployment, each of them one that
may be dropped. A request starts without what the cache has and loses a field only
together with its record, so that both properties are about the same set.
`ReplyImplementsChatReply` shows that the composed system is a `ChatReply`: Venice's
retries do not show in the room. `ReplySpeech`, `ReplyOutcome`, `ReplyIsOne`,
`ReplyWithdrawsProgress` and `ReplyReachesRoom` follow from it.

**`ConversationsProofs`**: `AnswersAddressed`, `ConversationsAreWhole`,
`RequestsAreRecentTurns`, for any messages of any people, bounded or not, and contexts of
any size. The verdict is reached over awaits, on readings that may be outdated, and must
still be right when the conversation is built. `ReadInv` says what an outdated reading
is worth: what the cache has as redacted is redacted, as nothing is ever un-redacted,
and what it has as encrypted was posted without its key; a cached *clear* reading says
nothing of the present, and the rule does not need it. `RoutesWhoAsks` is
`determine_controller` against the documented rule and its exception, `RoutesByRoot` the same of a
thread's root however it was read, and `VerdictStays` carries the verdict through
whatever the room does next (`Grows`).

`TalkInv` goes on from there to the conversation. `ChainInv` says what has been fetched
of a chain of replies: each message is what the next one replies to, and one that read as
unreadable was, and is still, or had its key come late; so a chain that ends has every
message that could still be read (`ChainIsWhole`), and stays within the chain as it was posted.
`GenerateInv` says of the conversation what `ConversationIsWhole` says, and with it that it
is made of messages of the room in their order, which later posts, redactions and keys do
not change. `TalkConverses` is the step from fetched events to a conversation, the same for
threads and chains. `RequestIsRecentTurns` is then a fact about such sequences alone: it
holds of every sequence of proper messages, and the invariant is needed only to say that
the conversation is one.

What the recursive functions compute is shown in the same way each time, with
`SetInduction` over how far they have come: a function with the recursion's equations exists
(`RecursionExists`), and what it has after *k* messages has a characterisation that one step
keeps. For `InOrder` it is "the members of the set up to *k*, in order"; for `Combine`
(`CombineStep`) "the first *k* messages, flattened, each in a turn of its author, and
no two neighbours that could be merged"; for `Keep` (`KeepStep`) "the *j* last of the *k* last
messages, which fit, and one more would not". `ShortenedIs` turns the last one into the
longest fitting part that begins with a user, because the size of a part only grows with it
(`SizesGrow`). `ConversationTypes` proves
the type invariant on top of it. The assumptions are `SenderAssumption`, `KindAssumption`, `NoneAssumption` and
`BoundAssumption`: people are not the bot, `None` is nothing else, bounds are numbers.

**`BotLifeProofs`**: `SignInAccounted`, `BotIsUpAsConfigured`, `NothingLost`,
`CommandsTakeEffect`, `StatusIsTruthful`, for any deployments that configure anything
that may be configured, and any number of starts, kills and losses. A start goes
through its stages once; `ChecksInv` says at each of them what the stages before it have
made sure of (the configuration passed `Validate`, and could be prepared), `DevicesInv` where
every device came from: it is the one in use, the token's, or of a start that is on record
as having left it; no two have one number, since a start logs in once (`DeviceMade`), and
`CutShortLeaves` says what an end leaves, heard of or not. `RecoveryInv` says
what a start knows of storage and backup while nobody else touches the account: when it
makes a storage there is none, the key it puts there is the backup's, and nothing is
deleted without consent.
`NothingLost` is an action property: a replacement of the storage or the backup is
traced to the check of `recovery_reset_allowed` that the same start made before.
For the settings, the document a command writes has every setting in its section
(`SettingsInv`), so that a setter changes what it names and nothing else
(`SettersSet`, `WithValue`), and what rooms use is a function of the two documents and,
until the global one is stored, of the initial one (`GoesBy`). `StatusIsTruthful` needs
no invariant: for *any* documents, each line of the status is compared with the getter it speaks of
(`StatusLeads` for the agents, `StatusLines` and `StatusShows` for the values), which is
the comparison of two independent translations.

Every safety invariant and action property of the passing runs is stated by a theorem.
What is only model-checked: liveness, as all reasoning about fairness and ENABLED is out of
the prover's reach, and the findings, which are counterexamples. The type invariants of
`X402Payments`, `EventIntake`, `ChatReply`, `BotLife` and `Conversations` are proved, beside
or as parts of the invariants above, and no run spends itself on them.

## Where the code and its documentation disagree

Shown by a run:

* `billed_doc_zombie`: `billing_glue.rs` says of `SettleFailed` that "the reserve
  stays as a zombie for manual reconciliation". When the charge was written and
  the release failed, `list_zombies` leaves the reserve out, because it looks for
  reserves with neither.
* `x402_doc_paid`: `docs/configuration/x402.md` says that once the payment settles
  on-chain, the sidecar notifies the bot. When the answer to `/settle` is lost,
  nothing asks again: the payment is on-chain and never credited.
* `config_doc_agents`: `docs/access.md` says that users cannot create agents. A
  user's setting, working on the copy that was read when the message arrived,
  puts back an agent that a manager deleted in between.

Noticed while modelling, smaller or a matter of reading:

* `docs/configuration/billing.md:38` ("a room whose balance is below this value
  cannot trigger a call") and `:40` (caps) hold for one handler; concurrent ones,
  and charges above the reserve, exceed both, by what `OverdraftBounded` and
  `CapOvershootBounded` say.
* `docs/runbook.md:131` expects no rows of an audit query that a zombie released
  by hand does produce.
* `docs/matrix-events.md:121` calls a permit the facilitator rejected still
  payable; the sender of a second, concurrent submit of a payment that has been
  spent is told the same. At `:122`, `sidecar_unavailable` is also what a room is told
  after 10 seconds for a payment that then settles.
* `chat_completion/mod.rs:849` ("never leaves an orphaned thinking… message")
  holds unless the edit itself fails, for which errors have no fallback.
* The catch-up marker can move backwards (an event within the tolerance handled
  after a later one was persisted), and an event from a server whose clock is
  ahead by more than the tolerance makes the events of others ignored.
* `wrapper.rs:149-153` announces a zombie for an unpriced model; `settle_charge`
  charges 0 and releases.
* `conversation/matrix/utils/mod.rs:377` says that a redacted thread root is not
  answered. One that was cached before is; and in an encrypted room a redacted
  root is reported as an encrypted first message.
* `docs/configuration/text-generation.md:24` says that where a prefix is required the bot
  ignores all messages that are not prefixed, and `docs/features.md:31` that it only
  responds to the prefix or a mention. A voice message at the top level is answered
  all the same, and so is what follows in its thread: the arm for audio in
  `controller/determination/mod.rs:123` asks for no prefix. `AnswersWhoAddressesIt` holds the
  bot to the documents and has the exception by name (`VoiceIsAnswered`).
* `docs/configuration/text-generation.md:30` says that a message that mentions the
  bot is always answered; an image or a file at the top level that mentions it is not, where a
  prefix is required. `:53` says that whole turns are dropped; where texts are not
  merged (Venice, OpenAI), the window may start at the second of two messages of one turn.
* `tokenization.rs:50` says that the response is always reserved for; it is only
  if there is a prompt.
* The transcript of a voice message that is a reply mentioning the bot goes to a
  thread, which the chain of replies it is answered from does not include.
* A message of a reply chain that cannot be fetched is unwrapped
  (`utils/mod.rs:95`): the handler panics and the room is told nothing.
* `docs/configuration/README.md:23` says that the initial global configuration is used
  the first time the bot starts; it is when the first event is handled. Between the
  two, another start with another configuration changes what will be used.
* `config status` shows an empty prompt for a room without an agent; it shows the
  room's voice where the agent's provider rejects the override (`openai`).
* `recovery.rs` of the Venice provider says that agents on one deployment share what they
  learn. They do if their `base_url`s are the same text; a trailing slash makes a
  second cache. A refusal is kept until the process ends.
* A wallet that turns out to be bound to somebody else is refused
  (`UnexpectedUser`) after the login, and leaves a device on the other account.
* A start that fails or is killed between the login and the saved session
  (`mxlink::init` cannot write the session file or open the store) leaves a device that no
  later start uses or removes; where the cause lasts, every start leaves one.
* A start that makes a key backup and does not hear that it did leaves a backup the device
  has no key of. Without `recovery_reset_allowed` later starts refuse to go on.
* A confirmation of a credit is not repeated: the bot drops it when it is not in the room or
  the room's id does not parse, and only logs a failed send (`bot/x402.rs:227-277`).
* A command whose write is answered too late is reported as failed, and may have been done.
* After a key reset on a device that is lost before the bot is up, the next start
  may need the operator's consent again.
* `prepare_profile` retries for ever, and the bot never syncs, if the configured avatar
  file cannot be read or the present avatar's media is gone (`AvatarHangs`).
* An empty `BAIBOT_USER_TRON_*` variable makes a `tron` section, and the
  configuration is refused for it. That the initial handlers name existing agents is not
  validated. `billing.markup_override_pct` is stored per room and no command sets it.
* Speech that fails is reported to the room as a failure of speech-to-text
  (`controller/utils/text_to_speech.rs:111`).
* The prefix requirement of a new room falls back to `no` if the members cannot be
  fetched.
* An administrator who releases the hold of a call in flight makes it end as
  `SettleFailed` although it is charged and released.

## Not modelled

The facilitator client's stub mode and typed-data hashing (byte codecs); floating
point (amounts are `f64` in the code, integers here: rounding of sums is not
covered); the delays between retries (3 to 30 seconds in `prepare_profile`); a
device that was logged out from elsewhere; whether a client retries a permit
(`bot/x402.rs:181`); the encryption and encoding of account data (`mxlink`); providers and
wire formats; wording, locale and layout; malformed webhook and Matrix events,
which the handlers turn away before any state. A legacy push is assumed to be
about a transfer that happened, in full: its signature vouches for that.
`PROJECT.json` gives the reason for each component left out.

## Plan

In order of importance; the first nine are done.

1. `BillingLedger`, `BilledCalls`, `RoomAccounts`: money per call. Theorems above.
2. `X402Payments`, `PaymentPipeline`: money in. Theorems above.
3. `ConfigStore`: configuration, access, agents. Theorems above.
4. `ChatReply`: what the room sees. Theorems above.
5. `EventIntake`: which events are dealt with. Theorems above.
6. `Conversations`: who is answered, and from which messages. Theorems above.
7. `VeniceChat`, `VeniceReply`: the retries of a generation, composed with the reply.
   Theorems above.
8. `StaticConfig`, `Startup`: a start, with login and recovery as sequences of
   remote calls that may be cut short. Theorems above.
9. `Settings`, `BotLife`: every setting, the status, and both over restarts. Theorems
   above.
10. Pure functions, checked against reference definitions over bounded inputs in one
   run: pricing, and the parsers of the other commands with their gate.
11. `FacilitatorWatch`: probes overlapping recorded settle outcomes; invitations and
   introductions; the chain of edits of images.
12. Composition of `ChatReply` with the outcomes of `BilledCalls` (a refused call
   asks for a payment and is told to the room).
13. Theorems about the pure functions of item 10, once they are modelled, with the
   induction that `ConversationsProofs` uses.
