---------------------------- MODULE BilledCalls ----------------------------
(***************************************************************************)
(* LLM calls paid from room balances: run_billed_call                      *)
(* (src/controller/chat_completion/billing_glue.rs) run by any number of   *)
(* message handlers at once against one ledger, next to the top-ups of the *)
(* x402 webhook and the administration commands.                           *)
(*                                                                         *)
(* pre_check (src/billing/wrapper.rs) reads the balance, the day's and the *)
(* month's spending in three transactions and reserve is a fourth, so      *)
(* other handlers run between them; so do they between the charge and the  *)
(* release that settle the call.  The process may be killed at any point   *)
(* (handlers are lost, the ledger is not); with journal_mode = WAL and     *)
(* synchronous = NORMAL a power loss also takes the transactions committed *)
(* since the last WAL checkpoint.                                          *)
(***************************************************************************)
EXTENDS BillingLedger

CONSTANTS
  Calls,            \* one per LLM call, also its correlation_id (Uuid::now_v7)
  Rooms,
  Payments,         \* payment ids the sidecar may report as settled
  ReserveAmount,    \* billing.reserve_amount_usd
  DailyCap,         \* billing.daily_cap_usd
  MonthlyCap,       \* billing.monthly_cap_usd
  ChargeAmounts,    \* provider cost times markup, 0 for a model without a price
  CreditAmounts,    \* amounts of top-ups and of manual refunds
  DayLength,        \* ticks in a UTC day
  MonthLength,      \* ticks in a UTC month
  MaxTime,          \* bound: last tick
  MaxConcurrent,    \* bound: handlers at work at once
  MaxRefunds,       \* bound: manual refunds
  MaxPowerLosses    \* bound: power losses

ASSUME IdAssumption == None \notin Calls \cup Rooms \cup Payments
ASSUME AmountAssumption ==
  /\ ReserveAmount \in Nat
  /\ ChargeAmounts \subseteq Nat
  /\ CreditAmounts \subseteq Nat \ {0}
  /\ DailyCap \in Nat
  /\ MonthlyCap \in Nat
\* An answer is never longer than the model's limit: one charge is the dearest.
ASSUME DearestAssumption == \E most \in ChargeAmounts : \A a \in ChargeAmounts : a <= most
ASSUME BoundAssumption == MaxConcurrent \in Nat
ASSUME TimeAssumption ==
  /\ DayLength \in Nat \ {0}
  /\ MonthLength \in Nat \ {0}
  /\ MaxTime \in Nat

VARIABLES
  events,       \* the ledger
  pc,           \* where each call is, or how it ended (BilledCallOutcome)
  room,         \* the room of each call
  charged,      \* what each answered call is to be charged
  now,
  powerLosses

vars == <<events, pc, room, charged, now, powerLosses>>

\* The awaits of run_billed_call, in order.
PreChecking == {"balance", "daily", "monthly", "reserve"}
Settling    == {"charge", "release"}
InFlight    == PreChecking \cup {"llm"} \cup Settling

Refused  == {"insufficient_balance", "daily_cap_hit", "monthly_cap_hit", "pre_check_error"}
Answered == {"success", "settle_failed"}
Outcomes == Refused \cup Answered \cup {"llm_error", "killed"}

TypeOK ==
  /\ events \in Seq(Row(Rooms, Calls, Payments))
  /\ pc \in [Calls -> {"idle"} \cup InFlight \cup Outcomes]
  /\ room \in [Calls -> Rooms \cup {None}]
  /\ charged \in [Calls -> Nat]
  /\ now \in Nat
  /\ powerLosses \in Nat

Init ==
  /\ events = << >>
  /\ pc = [c \in Calls |-> "idle"]
  /\ room = [c \in Calls |-> None]
  /\ charged = [c \in Calls |-> 0]
  /\ now = 0
  /\ powerLosses = 0

-----------------------------------------------------------------------------
(* One handler: pre_check and reserve.                                     *)

Goto(c, next) == pc' = [pc EXCEPT ![c] = next]

\* A message that needs an answer arrives in room r.
Start(c, r) ==
  /\ pc[c] = "idle"
  /\ Cardinality({d \in Calls : pc[d] \in InFlight}) < MaxConcurrent
  /\ room' = [room EXCEPT ![c] = r]
  /\ Goto(c, "balance")
  /\ UNCHANGED <<events, charged, now, powerLosses>>

\* Faulty variant: the balance is not looked at.
CheckBalance_Skipped(c) ==
  /\ pc[c] = "balance"
  /\ Goto(c, "daily")
  /\ UNCHANGED <<events, room, charged, now, powerLosses>>

CheckBalance(c) ==
  /\ pc[c] = "balance"
  /\ Goto(c, IF ComputeBalance(events, room[c]) < ReserveAmount
             THEN "insufficient_balance" ELSE "daily")
  /\ UNCHANGED <<events, room, charged, now, powerLosses>>

CheckDailyCap(c) ==
  /\ pc[c] = "daily"
  /\ LET spent == ComputePeriodSpent(events, PeriodStart(DayLength, now))
     IN  Goto(c, IF spent + ReserveAmount > DailyCap THEN "daily_cap_hit" ELSE "monthly")
  /\ UNCHANGED <<events, room, charged, now, powerLosses>>

\* Faulty variant: the day's spending is compared with the monthly cap.
CheckMonthlyCap_OfTheDay(c) ==
  /\ pc[c] = "monthly"
  /\ LET spent == ComputePeriodSpent(events, PeriodStart(DayLength, now))
     IN  Goto(c, IF spent + ReserveAmount > MonthlyCap THEN "monthly_cap_hit" ELSE "reserve")
  /\ UNCHANGED <<events, room, charged, now, powerLosses>>

CheckMonthlyCap(c) ==
  /\ pc[c] = "monthly"
  /\ LET spent == ComputePeriodSpent(events, PeriodStart(MonthLength, now))
     IN  Goto(c, IF spent + ReserveAmount > MonthlyCap THEN "monthly_cap_hit" ELSE "reserve")
  /\ UNCHANGED <<events, room, charged, now, powerLosses>>

WriteReserve(c) ==
  /\ pc[c] = "reserve"
  /\ IF DuplicateReserve(events, c)
     THEN Goto(c, "pre_check_error") /\ UNCHANGED events
     ELSE Goto(c, "llm") /\ events' = Reserve(events, room[c], c, ReserveAmount, now)
  /\ UNCHANGED <<room, charged, now, powerLosses>>

-----------------------------------------------------------------------------
(* One handler: the LLM call and settle_charge.                            *)

LlmAnswers(c, amount) ==
  /\ pc[c] = "llm"
  /\ charged' = [charged EXCEPT ![c] = amount]
  /\ Goto(c, "charge")
  /\ UNCHANGED <<events, room, now, powerLosses>>

\* The reserve stays behind.
LlmFails(c) ==
  /\ pc[c] = "llm"
  /\ Goto(c, "llm_error")
  /\ UNCHANGED <<events, room, charged, now, powerLosses>>

WriteCharge(c) ==
  /\ pc[c] = "charge"
  /\ IF ChargeRefused(events, c)
     THEN Goto(c, "settle_failed") /\ UNCHANGED events
     ELSE Goto(c, "release") /\ events' = Charge(events, c, charged[c], now)
  /\ UNCHANGED <<room, charged, now, powerLosses>>

WriteRelease(c) ==
  /\ pc[c] = "release"
  /\ IF ReleaseRefused(events, c)
     THEN Goto(c, "settle_failed") /\ UNCHANGED events
     ELSE Goto(c, "success") /\ events' = Release(events, c, now)
  /\ UNCHANGED <<room, charged, now, powerLosses>>

\* Faulty variants: a failed charge is only logged; a failed check starts over.
LedgerFails_ChargeIgnored(c) ==
  /\ pc[c] = "charge" /\ Goto(c, "release")
  /\ UNCHANGED <<events, room, charged, now, powerLosses>>

LedgerFails_Retried(c) ==
  /\ pc[c] \in PreChecking /\ Goto(c, "balance")
  /\ UNCHANGED <<events, room, charged, now, powerLosses>>

\* A ledger transaction of the handler fails (BillingError::Sqlite, a full
\* disk, ...): nothing is written and the handler gives up.
LedgerFails(c) ==
  /\ \/ pc[c] \in PreChecking /\ Goto(c, "pre_check_error")
     \/ pc[c] \in Settling /\ Goto(c, "settle_failed")
  /\ UNCHANGED <<events, room, charged, now, powerLosses>>

-----------------------------------------------------------------------------
(* The other writers of the ledger, the clock and the machine.             *)

Credit(r, amount, payment) ==
  /\ ~DuplicatePaymentId(events, payment)
  /\ events' = Topup(events, r, amount, payment, now)
  /\ UNCHANGED <<pc, room, charged, now, powerLosses>>

\* `billing manual-release <event_id>': the id comes from a listing of
\* zombies that may be out of date, or from the runbook's SQL.
AdminReleases(id) ==
  /\ ~ManualReleaseRefused(events, id)
  /\ events' = ManualRelease(events, id, now)
  /\ UNCHANGED <<pc, room, charged, now, powerLosses>>

AdminRefunds(r, amount) ==
  /\ Cardinality({i \in DOMAIN events : events[i].type = "refund_manual"}) < MaxRefunds
  /\ events' = ManualRefund(events, r, amount, now)
  /\ UNCHANGED <<pc, room, charged, now, powerLosses>>

Tick ==
  /\ now < MaxTime
  /\ now' = now + 1
  /\ UNCHANGED <<events, pc, room, charged, powerLosses>>

KillHandlers == pc' = [c \in Calls |-> IF pc[c] \in InFlight THEN "killed" ELSE pc[c]]

\* The process is killed and started again.
Crash ==
  /\ \E c \in Calls : pc[c] \in InFlight
  /\ KillHandlers
  /\ UNCHANGED <<events, room, charged, now, powerLosses>>

\* The machine goes down, and with it a suffix of the rows: those SQLite had
\* not yet moved from the WAL into the database file.  When it does so is not
\* modelled: any prefix may be what is left.
PowerLoss ==
  /\ powerLosses < MaxPowerLosses
  /\ powerLosses' = powerLosses + 1
  /\ \E k \in 0..Len(events) : events' = SubSeq(events, 1, k)
  /\ KillHandlers
  /\ UNCHANGED <<room, charged, now>>

-----------------------------------------------------------------------------
HandlerStep(c) ==
  \/ CheckBalance(c) \/ CheckDailyCap(c) \/ CheckMonthlyCap(c) \/ WriteReserve(c)
  \/ \E amount \in ChargeAmounts : LlmAnswers(c, amount)
  \/ LlmFails(c)
  \/ WriteCharge(c) \/ WriteRelease(c)
  \/ LedgerFails(c)

Next ==
  \/ \E c \in Calls : HandlerStep(c) \/ \E r \in Rooms : Start(c, r)
  \/ \E r \in Rooms, a \in CreditAmounts, p \in Payments : Credit(r, a, p)
  \/ \E id \in DOMAIN events : AdminReleases(id)
  \/ \E r \in Rooms, a \in CreditAmounts : AdminRefunds(r, a)
  \/ Tick
  \/ Crash
  \/ PowerLoss

Spec == Init /\ [][Next]_vars

\* tokio polls every handler, and the agent's HTTP client answers or fails.
FairSpec == Spec /\ \A c \in Calls : WF_vars(HandlerStep(c))
-----------------------------------------------------------------------------
(* Safety.                                                                 *)

\* One correlation_id never has two reserves, two charges or two releases,
\* however the handler's own release, manual releases, crashes and power
\* losses interleave: a call is never charged twice, and its hold is never
\* given back twice (the DuplicateReserve / DuplicateCharge /
\* DuplicateRelease checks of ledger.rs).
OneRowPerKind ==
  \A i, j \in DOMAIN events :
    /\ events[i].corr # None
    /\ events[i].corr = events[j].corr
    /\ events[i].type = events[j].type
    => i = j

\* Every charge and every release comes after a reserve of the same call, is
\* booked on that reserve's room, and a release (by the handler or by an
\* administrator) gives back exactly what was held.
SettlementFollowsHold ==
  \A i \in DOMAIN events : events[i].type \in {"charge", "release"} =>
    \E j \in 1..(i - 1) :
      /\ events[j].type = "reserve"
      /\ events[j].corr = events[i].corr
      /\ events[j].room = events[i].room
      /\ events[i].type = "release" => events[i].amount = -events[j].amount

\* A call that was turned away before the LLM (low balance, a cap, a ledger
\* error: "Nothing is charged") has left no row at all in the ledger.
RefusedCallsLeaveNoTrace ==
  \A c \in Calls : pc[c] \in Refused => \A i \in DOMAIN events : events[i].corr # c

\* While the provider is being called or the answer is being settled, the
\* call's hold is in the ledger, on the room it was asked from.
LlmRunsUnderHold ==
  \A c \in Calls : pc[c] \in {"llm"} \cup Settling =>
    \E i \in EventsOf(events, c, "reserve") :
      events[i].room = room[c] /\ events[i].amount = -ReserveAmount

\* A charge row exists only for a call whose provider answered, with the
\* amount computed from that answer; a failed call is never charged, even
\* when its hold is released by hand.
ChargedOnlyForAnswer ==
  \A c \in Calls : \A i \in EventsOf(events, c, "charge") :
    /\ pc[c] \in {"release", "killed"} \cup Answered
    /\ events[i].amount = -charged[c]

\* A call reported as a success is fully settled: charged, and its hold given
\* back (until a power loss takes rows away).
SuccessIsSettled ==
  powerLosses = 0 =>
    \A c \in Calls : pc[c] = "success" =>
      DuplicateCharge(events, c) /\ DuplicateRelease(events, c)

\* At every point of run_billed_call the ledger has of the call what the
\* handler believes it has: nothing of a refused one, the hold of a running
\* one, the charge of an answered one only, both settlements of a success.
\* What an administrator, a kill or another handler does in between does not
\* make the two disagree.
OutcomeMatchesLedger ==
  /\ RefusedCallsLeaveNoTrace
  /\ LlmRunsUnderHold
  /\ ChargedOnlyForAnswer
  /\ SuccessIsSettled

\* The balance of a room is what was paid in, less what was charged, less
\* the holds not yet given back: money is neither created nor lost by any
\* interleaving of settlements, manual releases and crashes.
Total(r, types) ==
  SumAmounts(events, {i \in DOMAIN events : events[i].room = r /\ events[i].type \in types})

OpenHolds(r) ==
  {i \in DOMAIN events :
     /\ events[i].type = "reserve" /\ events[i].room = r
     /\ EventsOf(events, events[i].corr, "release") = {}}

BalanceConservation ==
  \A r \in Rooms :
    ComputeBalance(events, r) =
      Total(r, {"topup", "refund_manual"}) + Total(r, {"charge"})
        - ReserveAmount * Cardinality(OpenHolds(r))

\* The caps are checked before a call is held, not when it is charged, so a
\* period can be overspent; but only by the calls already past the check when
\* the last one passed it: one charge per concurrent handler.
MaxCharge == Max(ChargeAmounts)

CapOvershootBounded ==
  LET Bound(cap) == Max({cap - ReserveAmount, 0}) + MaxConcurrent * MaxCharge
  IN  /\ ComputePeriodSpent(events, PeriodStart(DayLength, now)) <= Bound(DailyCap)
      /\ ComputePeriodSpent(events, PeriodStart(MonthLength, now)) <= Bound(MonthlyCap)

\* Likewise a room can go below zero, by at most the hold and the charge of
\* each concurrent handler (until a power loss takes a top-up away).
OverdraftBounded ==
  powerLosses = 0 =>
    \A r \in Rooms :
      ComputeBalance(events, r) >=
        Min({ReserveAmount - MaxConcurrent * (ReserveAmount + MaxCharge), 0})

-----------------------------------------------------------------------------
(* The ledger implements room accounts.                                    *)

HolderOf(c) == IF HasReserve(events, c) THEN FindReserve(events, c).room ELSE None

Accounts == INSTANCE RoomAccounts WITH
  balance  <- [r \in Rooms |-> ComputeBalance(events, r)],
  holder   <- [c \in Calls |-> HolderOf(c)],
  captured <- {c \in Calls : DuplicateCharge(events, c)},
  freed    <- {c \in Calls : DuplicateRelease(events, c)},
  credited <- [p \in Payments |-> SumAmounts(events, {i \in DOMAIN events : events[i].payment = p})]

\* As long as no power loss takes rows away, every step of any interleaving is
\* one step of the accounts (a hold, a capture, a freeing, a deposit, a
\* refund) or none: the sums over the table behave as balances, and each call
\* and each payment moves money at most once per kind.
AccountsSpec == Accounts!Spec

-----------------------------------------------------------------------------
(* What the documentation says, and a failing write breaks.                *)

\* billing_glue.rs, BilledCallOutcome::SettleFailed: "the charge/release
\* writeback failed [...] the reserve stays as a zombie for manual
\* reconciliation".  `billing zombies' must therefore list it, until somebody
\* releases it.
SettleFailureStaysAsZombie ==
  \A c \in Calls : pc[c] = "settle_failed" /\ ~DuplicateRelease(events, c) =>
    \E id \in ListZombies(events, now) : events[id].corr = c

-----------------------------------------------------------------------------
(* Liveness.                                                               *)

\* Every message that entered the billed path gets an outcome: no await of
\* run_billed_call waits for another handler.
EveryCallEnds == \A c \in Calls : pc[c] = "balance" ~> pc[c] \in Outcomes
=============================================================================
