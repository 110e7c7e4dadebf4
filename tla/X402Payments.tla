---------------------------- MODULE X402Payments ---------------------------
(***************************************************************************)
(* A top-up from the signed permit to the ledger, across three processes:  *)
(*                                                                         *)
(*   bot         handle_x402_submit (src/bot/x402.rs) forwards a signed    *)
(*               permit; handle_settled (src/x402/webhook.rs) credits it;  *)
(*               drain_topup_announcements confirms it in the room         *)
(*   sidecar     submit_payment_signature, settlement_webhook, get_status  *)
(*               (x402-sidecar/src/x402_sidecar/app.py) on the table       *)
(*               payments (db.py)                                          *)
(*   facilitator external: verifies permits and settles them on-chain      *)
(*                                                                         *)
(* Sidecar handlers are coroutines of one event loop: what happens between *)
(* two awaits is one step.  Either process may be killed at any point; a   *)
(* call between them may time out while the callee goes on.                *)
(***************************************************************************)
EXTENDS BillingLedger

CONSTANTS
  Payments,     \* payment_id
  Rooms, Users,
  Amounts,      \* what a payment may be asked for
  Buyers,       \* wallets; a Permit2 nonce is used up per wallet
  Submits,      \* one per POST /payment-request/submit
  Webhooks,     \* webhook_id of the legacy push path
  MaxFailures,  \* bound: notices lost, refused or dropped, confirmations not posted
  MaxCrashes    \* bound: kills of the bot and of the sidecar

ASSUME NameAssumption == None \notin Payments \cup Rooms
ASSUME TermsAssumption == None \notin [room : Rooms, amount : Amounts]
ASSUME MessageAssumption == Submits \cap Webhooks = {}
ASSUME TopupAssumption == Amounts \subseteq Nat \ {0}

VARIABLES
  row,        \* sidecar: the table payments
  expired,    \* the payments past expires_at, which is also the permit's deadline
  submit,     \* what each submit carries
  pc,         \* sidecar: the await a submit is at, or its answer
  transfer,   \* facilitator: each settle request
  push,       \* sidecar: the table webhooks_received
  bot,        \* bot: where each handle_x402_submit is, or what it told the room
  notice,     \* the notification of each submit or push, on its way or at the bot
  events,     \* bot: the top-ups of the ledger
  channel,    \* bot: the announcements waiting to be posted
  posted,     \* the notices whose credit was confirmed in the room
  failures, crashes

sidecarVars == <<row, expired, submit, pc, push>>
hookVars    == <<notice, events, channel>>
envVars     == <<posted, failures, crashes>>
vars == <<sidecarVars, transfer, bot, hookVars, envVars>>

Messages == Submits \cup Webhooks

NoRow    == [status |-> "none"]
Issued   == [status : {"pending", "settled"}, room : Rooms, user : Users,
             amount : Amounts, tx : Submits \cup {None}]
NoSubmit == [payment |-> None]
Permits  == [payment : Payments, buyer : Buyers, room : Rooms, user : Users]

Awaits  == {"received", "verify", "settle", "notify"}
Answers == {"settled", "already_settled", "verify_failed", "settle_failed",
            "bad_request", "not_found", "gone", "facilitator_error"}
ErrorCodes == {"unknown_payment", "wrong_room", "wrong_sender", "expired",
               "bad_request", "facilitator_rejected", "sidecar_unavailable"}

TypeOK ==
  /\ row \in [Payments -> Issued \cup {NoRow}]
  /\ expired \subseteq Payments
  /\ submit \in [Submits -> Permits \cup {NoSubmit}]
  /\ pc \in [Submits -> {"idle", "killed"} \cup Awaits \cup Answers]
  /\ transfer \in [Submits -> {"none", "queued", "settled", "refused"}]
  /\ push \in [Webhooks -> Payments \cup {None}]
  /\ bot \in [Submits -> {"idle", "status", "waiting", "accepted", "ignored", "killed"} \cup ErrorCodes]
  /\ notice \in [Messages -> {"none", "sent", "insert", "announce", "credited",
                                   "unconfirmed", "conflict", "failed"}]
  /\ events \in Seq(Row(Rooms, {}, Payments))
  /\ channel \subseteq Messages
  /\ posted \subseteq Messages
  /\ failures \in Nat
  /\ crashes \in Nat

Init ==
  /\ row = [p \in Payments |-> NoRow]
  /\ expired = {}
  /\ submit = [s \in Submits |-> NoSubmit]
  /\ pc = [s \in Submits |-> "idle"]
  /\ transfer = [s \in Submits |-> "none"]
  /\ push = [w \in Webhooks |-> None]
  /\ bot = [s \in Submits |-> "idle"]
  /\ notice = [m \in Messages |-> "none"]
  /\ events = << >>
  /\ channel = {}
  /\ posted = {}
  /\ failures = 0
  /\ crashes = 0

PaymentOf(m) == IF m \in Submits THEN submit[m].payment ELSE push[m]
Credited(p)  == TopupExistsByPaymentId(events, p)

\* The transfers of a payment that went through: each used up the nonce of
\* its buyer, of whom there may be several.
Transfers(p) == {s \in Submits : transfer[s] = "settled" /\ submit[s].payment = p}

-----------------------------------------------------------------------------
(* Issuing a payment, and its expiry.                                      *)

CreatePaymentRequest(p, r, u, a) ==
  /\ row[p] = NoRow
  /\ row' = [row EXCEPT ![p] =
       [status |-> "pending", room |-> r, user |-> u, amount |-> a, tx |-> None]]
  /\ UNCHANGED <<expired, submit, pc, push, transfer, bot, hookVars, envVars>>

Expire(p) ==
  /\ row[p] # NoRow
  /\ p \notin expired
  /\ expired' = expired \cup {p}
  /\ UNCHANGED <<row, submit, pc, push, transfer, bot, hookVars, envVars>>

-----------------------------------------------------------------------------
(* The bot forwards a permit.                                              *)

Tell(s, code) == bot' = [bot EXCEPT ![s] = code]

\* A cc.chums.x402_submit event: ask the sidecar whose payment it is.
SubmitEvent(s, p, b, r, u) ==
  /\ submit[s] = NoSubmit
  /\ submit' = [submit EXCEPT ![s] = [payment |-> p, buyer |-> b, room |-> r, user |-> u]]
  /\ Tell(s, "status")
  /\ UNCHANGED <<row, expired, pc, push, transfer, hookVars, envVars>>

\* The README's other way: the payer's client posts to the sidecar itself.
ClientSubmits(s, p, b, r, u) ==
  /\ submit[s] = NoSubmit
  /\ submit' = [submit EXCEPT ![s] = [payment |-> p, buyer |-> b, room |-> r, user |-> u]]
  /\ pc' = [pc EXCEPT ![s] = "received"]
  /\ UNCHANGED <<row, expired, push, transfer, bot, hookVars, envVars>>

StatusAnswers(s) ==
  LET payment == row[submit[s].payment]
      verdict == IF payment = NoRow THEN "unknown_payment"
                 ELSE IF payment.room # submit[s].room THEN "wrong_room"
                 ELSE IF payment.user # submit[s].user THEN "wrong_sender"
                 ELSE IF payment.status = "settled" THEN "ignored"
                 ELSE "waiting"
  IN  /\ bot[s] = "status"
      /\ Tell(s, verdict)
      /\ pc' = IF verdict = "waiting" THEN [pc EXCEPT ![s] = "received"] ELSE pc
      /\ UNCHANGED <<row, expired, submit, push, transfer, hookVars, envVars>>

ErrorCodeOf(answer) ==
  CASE answer \in {"settled", "already_settled"}     -> "accepted"
    [] answer = "bad_request"                        -> "bad_request"
    [] answer \in {"verify_failed", "settle_failed"} -> "facilitator_rejected"
    [] answer = "not_found"                          -> "unknown_payment"
    [] answer = "gone"                               -> "expired"
    [] answer = "facilitator_error"                  -> "sidecar_unavailable"

SubmitAnswers(s) ==
  /\ bot[s] = "waiting"
  /\ pc[s] \in Answers
  /\ Tell(s, ErrorCodeOf(pc[s]))
  /\ UNCHANGED <<sidecarVars, transfer, hookVars, envVars>>

\* Faulty variant: the submit has no time-out.
SidecarCallFails_StatusOnly(s) ==
  /\ bot[s] = "status"
  /\ Tell(s, "sidecar_unavailable")
  /\ UNCHANGED <<sidecarVars, transfer, hookVars, envVars>>

\* No answer to GET /status or to the submit within 10 seconds, or no sidecar.
SidecarCallFails(s) ==
  /\ bot[s] \in {"status", "waiting"}
  /\ Tell(s, "sidecar_unavailable")
  /\ UNCHANGED <<sidecarVars, transfer, hookVars, envVars>>

-----------------------------------------------------------------------------
(* The sidecar submits a permit.                                           *)

Goto(s, next) == pc' = [pc EXCEPT ![s] = next]

\* Everything up to the first await; `bad_request' is for a signature, an
\* address, an echoed envelope or a stored row that does not check out.
ReceiveSubmit(s) ==
  LET p == submit[s].payment IN
  /\ pc[s] = "received"
  /\ \/ row[p] = NoRow /\ Goto(s, "not_found")
     \/ row[p] # NoRow /\ row[p].status = "settled" /\ Goto(s, "already_settled")
     \/ row[p] # NoRow /\ row[p].status # "settled" /\ p \in expired /\ Goto(s, "gone")
     \/ /\ row[p] # NoRow /\ row[p].status # "settled" /\ p \notin expired
        /\ Goto(s, "bad_request") \/ Goto(s, "verify")
  /\ UNCHANGED <<row, expired, submit, push, transfer, bot, hookVars, envVars>>

\* What record_rejection writes (error_reason) is left out.
VerifyAnswers(s) ==
  /\ pc[s] = "verify"
  /\ \/ Goto(s, "verify_failed") /\ UNCHANGED transfer
     \/ Goto(s, "facilitator_error") /\ UNCHANGED transfer
     \/ Goto(s, "settle") /\ transfer' = [transfer EXCEPT ![s] = "queued"]
  /\ UNCHANGED <<row, expired, submit, push, bot, hookVars, envVars>>

\* External: the transfer, once per wallet and permit, and not after the deadline.
FacilitatorSettles(s) ==
  /\ transfer[s] = "queued"
  /\ submit[s].payment \notin expired
  /\ \A t \in Transfers(submit[s].payment) : submit[t].buyer # submit[s].buyer
  /\ transfer' = [transfer EXCEPT ![s] = "settled"]
  /\ UNCHANGED <<sidecarVars, bot, hookVars, envVars>>

FacilitatorRefuses(s) ==
  /\ transfer[s] = "queued"
  /\ transfer' = [transfer EXCEPT ![s] = "refused"]
  /\ UNCHANGED <<sidecarVars, bot, hookVars, envVars>>

\* Faulty variant: a settled row is settled again.
MarkSettled_AnyStatus(p, tx) ==
  row' = [row EXCEPT ![p].status = "settled", ![p].tx = tx]

MarkSettled(p, tx) ==
  row' = IF row[p].status = "pending"
         THEN [row EXCEPT ![p].status = "settled", ![p].tx = tx] ELSE row

Notify(m) == notice' = [notice EXCEPT ![m] = "sent"]

\* Faulty variant: `success' is not looked at.
SettleAnswers_SuccessIgnored(s) ==
  /\ pc[s] = "settle"
  /\ transfer[s] \in {"settled", "refused"}
  /\ MarkSettled(submit[s].payment, s) /\ Notify(s) /\ Goto(s, "notify")
  /\ UNCHANGED <<expired, submit, push, transfer, bot, events, channel, envVars>>

SettleAnswers(s) ==
  /\ pc[s] = "settle"
  /\ \/ /\ transfer[s] = "settled"
        /\ MarkSettled(submit[s].payment, s)
        /\ Notify(s)
        /\ Goto(s, "notify")
     \/ /\ transfer[s] = "refused"
        /\ Goto(s, "settle_failed")
        /\ UNCHANGED <<row, notice>>
  /\ UNCHANGED <<expired, submit, push, transfer, bot, events, channel, envVars>>

\* A transport error, a 5xx or 95 seconds without an answer: whether the
\* transfer happened, or still will, is not known and not asked again.
SettleFails(s) ==
  /\ pc[s] = "settle"
  /\ Goto(s, "facilitator_error")
  /\ UNCHANGED <<row, expired, submit, push, transfer, bot, hookVars, envVars>>

\* The bot answered, or could not be reached, or did not answer in 10 seconds.
NotifyReturns(s) ==
  /\ pc[s] = "notify"
  /\ Goto(s, "settled")
  /\ UNCHANGED <<row, expired, submit, push, transfer, bot, hookVars, envVars>>

\* POST /webhook/settlement.  Only what its signature vouches for is assumed of
\* a push: the payment was transferred, in full.  A repeated push, or one about
\* an unknown payment, changes nothing.
SettlementWebhook(w, p) ==
  /\ push[w] = None
  /\ row[p] # NoRow
  /\ \E s \in Transfers(p) : MarkSettled(p, s)
  /\ push' = [push EXCEPT ![w] = p]
  /\ Notify(w)
  /\ UNCHANGED <<expired, submit, pc, transfer, bot, events, channel, envVars>>

-----------------------------------------------------------------------------
(* The bot credits a payment: handle_settled, one step per ledger call.    *)

CheckPayment(m) ==
  /\ notice[m] = "sent"
  /\ notice' = [notice EXCEPT ![m] = IF Credited(PaymentOf(m)) THEN "conflict" ELSE "insert"]
  /\ UNCHANGED <<sidecarVars, transfer, bot, events, channel, envVars>>

\* Faulty variant: the loser of the race is announced as well.
InsertTopup_DuplicateAnnounced(m) ==
  LET p == PaymentOf(m) IN
  /\ notice[m] = "insert"
  /\ notice' = [notice EXCEPT ![m] = "announce"]
  /\ events' = IF DuplicatePaymentId(events, p) THEN events
               ELSE Topup(events, row[p].room, row[p].amount, p, 0)
  /\ UNCHANGED <<sidecarVars, transfer, bot, channel, envVars>>

\* Faulty variant: the room of the submit, not of the payment, is credited.
InsertTopup_RoomOfSubmit(m) ==
  LET p == PaymentOf(m) IN
  /\ notice[m] = "insert"
  /\ IF DuplicatePaymentId(events, p)
     THEN notice' = [notice EXCEPT ![m] = "conflict"] /\ UNCHANGED events
     ELSE /\ notice' = [notice EXCEPT ![m] = "announce"]
          /\ events' = Topup(events, IF m \in Submits THEN submit[m].room ELSE row[p].room,
                             row[p].amount, p, 0)
  /\ UNCHANGED <<sidecarVars, transfer, bot, channel, envVars>>

\* The notice carries the room of the payment's row, which never changes, and
\* its amount: a push reports what was paid, and the permit fixes that amount.
InsertTopup(m) ==
  LET p == PaymentOf(m) IN
  /\ notice[m] = "insert"
  /\ IF DuplicatePaymentId(events, p)
     THEN notice' = [notice EXCEPT ![m] = "conflict"] /\ UNCHANGED events
     ELSE /\ notice' = [notice EXCEPT ![m] = "announce"]
          /\ events' = Topup(events, row[p].room, row[p].amount, p, 0)
  /\ UNCHANGED <<sidecarVars, transfer, bot, channel, envVars>>

\* Faulty variant: nothing is sent into the channel.
Announce_NotSent(m) ==
  /\ notice[m] = "announce"
  /\ notice' = [notice EXCEPT ![m] = "credited"]
  /\ UNCHANGED <<sidecarVars, transfer, bot, events, channel, envVars>>

\* compute_balance, then the channel.
Announce(m) ==
  /\ notice[m] = "announce"
  /\ notice' = [notice EXCEPT ![m] = "credited"]
  /\ channel' = channel \cup {m}
  /\ UNCHANGED <<sidecarVars, transfer, bot, events, envVars>>

\* The bot is down, the signature does not match (401), the ledger fails
\* (500), or the sidecar hangs up and the handler is dropped.  The sidecar
\* logs it and never asks again.
NoticeFails(m) ==
  /\ failures < MaxFailures
  /\ failures' = failures + 1
  /\ \/ notice[m] \in {"sent", "insert"} /\ notice' = [notice EXCEPT ![m] = "failed"]
     \/ notice[m] = "announce" /\ notice' = [notice EXCEPT ![m] = "unconfirmed"]
  /\ UNCHANGED <<sidecarVars, transfer, bot, events, channel, posted, crashes>>

\* The confirmation is an event and a text, and is posted when either arrives.
\* It is dropped when the room is not one of the bot's, or its id is no room
\* id; a send that fails is logged; nothing is tried again.
DrainAnnouncement(m) ==
  /\ m \in channel
  /\ channel' = channel \ {m}
  /\ \/ posted' = posted \cup {m} /\ UNCHANGED <<notice, failures>>
     \/ /\ failures < MaxFailures
        /\ failures' = failures + 1
        /\ notice' = [notice EXCEPT ![m] = "unconfirmed"]
        /\ UNCHANGED posted
  /\ UNCHANGED <<sidecarVars, transfer, bot, events, crashes>>

-----------------------------------------------------------------------------
(* Kills.                                                                  *)

SidecarCrash ==
  /\ crashes < MaxCrashes
  /\ crashes' = crashes + 1
  /\ pc' = [s \in Submits |-> IF pc[s] \in Awaits THEN "killed" ELSE pc[s]]
  /\ UNCHANGED <<row, expired, submit, push, transfer, bot, hookVars, posted, failures>>

BotCrash ==
  /\ crashes < MaxCrashes
  /\ crashes' = crashes + 1
  /\ bot' = [s \in Submits |-> IF bot[s] \in {"status", "waiting"} THEN "killed" ELSE bot[s]]
  /\ notice' = [m \in Messages |->
                  IF notice[m] = "insert" THEN "failed"
                  ELSE IF notice[m] = "announce" \/ m \in channel THEN "unconfirmed" ELSE notice[m]]
  /\ channel' = {}
  /\ UNCHANGED <<sidecarVars, transfer, events, posted, failures>>

-----------------------------------------------------------------------------
BotStep(s) == StatusAnswers(s) \/ SubmitAnswers(s) \/ SidecarCallFails(s)

SidecarStep(s) ==
  \/ ReceiveSubmit(s) \/ VerifyAnswers(s) \/ SettleAnswers(s) \/ SettleFails(s)
  \/ NotifyReturns(s)

HookStep(m) == CheckPayment(m) \/ InsertTopup(m) \/ Announce(m) \/ DrainAnnouncement(m)

Next ==
  \/ \E p \in Payments, r \in Rooms, u \in Users, a \in Amounts : CreatePaymentRequest(p, r, u, a)
  \/ \E p \in Payments : Expire(p)
  \/ \E s \in Submits, p \in Payments, b \in Buyers, r \in Rooms, u \in Users :
       SubmitEvent(s, p, b, r, u) \/ ClientSubmits(s, p, b, r, u)
  \/ \E s \in Submits : BotStep(s) \/ SidecarStep(s)
  \/ \E s \in Submits : FacilitatorSettles(s) \/ FacilitatorRefuses(s)
  \/ \E w \in Webhooks, p \in Payments : SettlementWebhook(w, p)
  \/ \E m \in Messages : HookStep(m) \/ NoticeFails(m)
  \/ SidecarCrash
  \/ BotCrash

Spec == Init /\ [][Next]_vars

\* Both runtimes poll their tasks, every await between them has a timeout,
\* and the announcement channel is drained.  Nothing is assumed of the
\* facilitator, of the user, or of a notice that fails.
FairSpec ==
  /\ Spec
  /\ \A s \in Submits : WF_vars(BotStep(s)) /\ WF_vars(SidecarStep(s))
  /\ \A m \in Messages : WF_vars(HookStep(m))

-----------------------------------------------------------------------------
(* Safety.                                                                 *)

\* src/x402/webhook.rs: "a `payment_id` is credited at most once", although
\* the handler looks first and inserts later, two wallets may pay the same
\* payment, and the legacy push path announces a settlement a second time.
CreditedAtMostOnce ==
  \A i, j \in DOMAIN events : events[i].payment = events[j].payment => i = j

\* Money in the ledger is money on the chain: a top-up row is for a payment
\* the sidecar has as settled by a transfer that went through, and goes to
\* the room and has the amount that payment was issued for, whichever room the
\* permit was sent from.
CreditIsBacked ==
  \A i \in DOMAIN events :
    /\ events[i].payment \in Payments
    /\ LET payment == row[events[i].payment] IN
         /\ payment.status = "settled"
         /\ payment.tx \in Transfers(events[i].payment)
         /\ events[i].room = payment.room
         /\ events[i].amount = payment.amount

\* A submit the sidecar accepts (200, which makes the bot stay silent) is for
\* a payment that was transferred and is on record as settled.
AcceptedIsSettled ==
  \A s \in Submits : pc[s] \in {"settled", "already_settled"} \/ bot[s] \in {"accepted", "ignored"} =>
    /\ row[submit[s].payment].status = "settled"
    /\ Transfers(submit[s].payment) # {}

\* Once a payment is settled its record never changes again: a second
\* settlement (another wallet's, or the legacy push path's) does not replace
\* the transaction (WHERE status = 'pending' in db.py).
SettledRowIsFinal ==
  [][\A p \in Payments : row[p].status = "settled" => row'[p] = row[p]]_vars

-----------------------------------------------------------------------------
(* The three processes implement the pipeline.                             *)

TermsOf(p)  == IF row[p] = NoRow THEN None ELSE [room |-> row[p].room, amount |-> row[p].amount]
CreditOf(p) ==
  IF ~Credited(p) THEN None
  ELSE LET topup == events[CHOOSE i \in DOMAIN events : events[i].payment = p]
       IN  [room |-> topup.room, amount |-> topup.amount]

Pipeline == INSTANCE PaymentPipeline WITH
  Terms     <- [room : Rooms, amount : Amounts],
  terms     <- [p \in Payments |-> TermsOf(p)],
  paid      <- {p \in Payments : Transfers(p) # {}},
  booked    <- {p \in Payments : row[p].status = "settled"},
  credit    <- [p \in Payments |-> CreditOf(p)],
  confirmed <- [p \in Payments |-> Cardinality({m \in posted : PaymentOf(m) = p})]

\* Every interleaving, loss and kill keeps each payment in its pipeline: it is
\* credited with its own terms, confirmed only after it was credited, and
\* confirmed at most once.
PipelineSpec == Pipeline!Spec

-----------------------------------------------------------------------------
(* Liveness.                                                               *)

\* Every cc.chums.x402_submit event is dealt with, whatever becomes of the
\* sidecar: the handler tells the room an error, or stays silent because the
\* payment is settled (or dies with the bot).
EverySubmitEnds == \A s \in Submits : bot[s] = "status" ~> bot[s] \notin {"status", "waiting"}

\* Every notice that left the sidecar comes to an end: it is lost or refused,
\* or its payment is credited, and confirmed in the room by the notice that
\* credited it, unless that confirmation was cut short, dropped by the drain or
\* not accepted by the homeserver.
NoticeIsCredited ==
  \A m \in Messages :
    notice[m] = "sent" ~>
      \/ notice[m] = "failed"
      \/ Credited(PaymentOf(m)) /\ (notice[m] \in {"conflict", "unconfirmed"} \/ m \in posted)

-----------------------------------------------------------------------------
(* What the documentation says, and a lost answer of the facilitator breaks.*)

\* docs/configuration/x402.md: "Once the payment settles on-chain, the sidecar
\* notifies the bot on an internal HTTP endpoint. The bot credits the room in
\* the ledger".  Checked without kills and without failing notices.
PaidIsCredited ==
  \A s \in Submits : transfer[s] = "settled" ~> Credited(submit[s].payment)
=============================================================================
