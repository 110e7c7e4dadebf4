--------------------------- MODULE BillingLedger ---------------------------
(***************************************************************************)
(* The operations of BillingService (src/billing/ledger.rs) on the         *)
(* append-only table billing_events (src/billing/schema.sql).              *)
(*                                                                         *)
(* A ledger is the sequence of the table's rows in insertion order; the    *)
(* position of a row stands for its event_id, a UUID v7 that is unique and *)
(* ordered by time.  Every operation of the service is one transaction     *)
(* under one mutex, hence one operator on a ledger.  Amounts are integers  *)
(* (micro-USD) with the sign the schema gives them; timestamps are ticks.  *)
(* user_mxid, matrix_event_id and the audit part of meta_json are left out,*)
(* meta_json.payment_id is the field `payment'.                            *)
(***************************************************************************)
EXTENDS Integers, Sequences, FiniteSetsExt

CONSTANT None     \* SQL NULL: no correlation_id, or no payment_id

-----------------------------------------------------------------------------
(* Rows.                                                                   *)

EventTypes == {"reserve", "charge", "release", "topup", "refund_manual"}

BuildEvent(type, room, amount, corr, payment, at) ==
  [type |-> type, room |-> room, amount |-> amount,
   corr |-> corr, payment |-> payment, at |-> at]

Row(Rooms, Corrs, Payments) ==
  [type : EventTypes, room : Rooms, amount : Int,
   corr : Corrs \cup {None}, payment : Payments \cup {None}, at : Nat]

\* The event ids of the rows of one type that share a correlation_id.
EventsOf(L, corr, type) ==
  {i \in DOMAIN L : L[i].corr = corr /\ L[i].type = type}

\* SQL SUM: the first n terms of t, and the amounts of the rows `ids'.
SumUpTo(t, n) ==
  LET sum[i \in 0..n] == IF i = 0 THEN 0 ELSE sum[i - 1] + t[i]
  IN  sum[n]

AmountsOf(L, ids) == [i \in DOMAIN L |-> IF i \in ids THEN L[i].amount ELSE 0]

SumAmounts(L, ids) == SumUpTo(AmountsOf(L, ids), Len(L))

-----------------------------------------------------------------------------
(* Reads.                                                                  *)

ComputeBalance(L, room) ==
  SumAmounts(L, {i \in DOMAIN L : L[i].room = room})

\* Bot-wide: the charges of every room since `start'.
ComputePeriodSpent(L, start) ==
  -SumAmounts(L, {i \in DOMAIN L : L[i].type = "charge" /\ L[i].at >= start})

PeriodStart(length, now) == now - (now % length)

\* The reserves created at or before `cutoff' whose correlation_id has
\* neither a charge nor a release.
ListZombies(L, cutoff) ==
  {i \in DOMAIN L :
     /\ L[i].type = "reserve"
     /\ L[i].at <= cutoff
     /\ EventsOf(L, L[i].corr, "charge") \cup EventsOf(L, L[i].corr, "release") = {}}

TopupExistsByPaymentId(L, payment) ==
  \E i \in DOMAIN L : L[i].type = "topup" /\ L[i].payment = payment

-----------------------------------------------------------------------------
(* Writes.  The first group says when an operation is refused, the second  *)
(* what it appends when it is not.                                         *)

HasReserve(L, corr)       == EventsOf(L, corr, "reserve") # {}
DuplicateReserve(L, corr) == EventsOf(L, corr, "reserve") # {}
DuplicateCharge(L, corr)  == EventsOf(L, corr, "charge") # {}
DuplicateRelease(L, corr) == EventsOf(L, corr, "release") # {}
\* Faulty variant: no unique index, only the webhook's own check.
DuplicatePaymentId_NoIndex(L, payment) == FALSE

\* The partial unique index on payment_id; a top-up without one is never refused.
DuplicatePaymentId(L, payment) ==
  payment # None /\ TopupExistsByPaymentId(L, payment)

ChargeRefused(L, corr)  == ~HasReserve(L, corr) \/ DuplicateCharge(L, corr)
\* Faulty variant: a second release is not noticed.
ReleaseRefused_NoDuplicateCheck(L, corr) == ~HasReserve(L, corr)

ReleaseRefused(L, corr) == ~HasReserve(L, corr) \/ DuplicateRelease(L, corr)

\* The row `charge' and `release' inherit the room from.
FindReserve(L, corr) == L[CHOOSE i \in EventsOf(L, corr, "reserve") : TRUE]

Reserve(L, room, corr, amount, at) ==
  Append(L, BuildEvent("reserve", room, -amount, corr, None, at))

Charge(L, corr, charged, at) ==
  Append(L, BuildEvent("charge", FindReserve(L, corr).room, -charged, corr, None, at))

\* Faulty variant: the sign of the reserve is kept.
Release_Signed(L, corr, at) ==
  LET reserve == FindReserve(L, corr)
  IN  Append(L, BuildEvent("release", reserve.room, reserve.amount, corr, None, at))

\* Restores what the reserve held, whatever was charged.
Release(L, corr, at) ==
  LET reserve == FindReserve(L, corr)
  IN  Append(L, BuildEvent("release", reserve.room, -reserve.amount, corr, None, at))

Topup(L, room, amount, payment, at) ==
  Append(L, BuildEvent("topup", room, amount, None, payment, at))

\* By event id; whether the call behind the reserve was charged, or is still
\* running, is not asked.
ManualReleaseRefused(L, id) ==
  \/ id \notin DOMAIN L
  \/ L[id].type # "reserve"
  \/ DuplicateRelease(L, L[id].corr)

\* Faulty variant: the sign of the reserve is kept.
ManualRelease_Signed(L, id, at) ==
  Append(L, BuildEvent("release", L[id].room, L[id].amount, L[id].corr, None, at))

ManualRelease(L, id, at) ==
  Append(L, BuildEvent("release", L[id].room, -L[id].amount, L[id].corr, None, at))

ManualRefund(L, room, amount, at) ==
  Append(L, BuildEvent("refund_manual", room, amount, None, None, at))
=============================================================================
