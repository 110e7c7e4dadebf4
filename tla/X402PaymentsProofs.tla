------------------------ MODULE X402PaymentsProofs -------------------------
(***************************************************************************)
(* Proofs about X402Payments, for any number of payments, submits, wallets *)
(* and webhooks, and any amounts.                                          *)
(*                                                                         *)
(* The records the three processes keep only grow (Monotone): an issued    *)
(* payment keeps its terms, a settled one its transaction, a submit its    *)
(* content, the chain its transfers.  Hence what a handler relied on before *)
(* an await still holds after it, and Linked, which relates every handler  *)
(* and every notice to the payment it works for, is inductive.             *)
(*                                                                         *)
(* The refinement of PaymentPipeline needs AnnouncedInv besides: what is   *)
(* announced was credited, by the one handler of its payment that inserted *)
(* a top-up.  One lemma per abstract action follows.                       *)
(***************************************************************************)
EXTENDS X402Payments, SequenceTheorems, FiniteSetTheorems, TLAPS

TopupRow == Row(Rooms, {}, Payments)

Known(p)   == row[p] # NoRow
Settled(p) == row[p].status = "settled"

\* A submit that nobody has sent has left no trace.
UnsentIsIdle ==
  \A s \in Submits : submit[s] = NoSubmit =>
    pc[s] = "idle" /\ bot[s] = "idle" /\ transfer[s] = "none" /\ notice[s] = "none"

\* The sidecar asks the facilitator only about payments it has issued.
WorkIsKnown ==
  \A s \in Submits :
    pc[s] \in {"verify", "settle"} \/ transfer[s] # "none" => Known(submit[s].payment)

\* A submit asks for one transfer, and the bot submits a permit once.
AsksOnce ==
  \A s \in Submits :
    /\ pc[s] \in {"idle", "received", "verify"} => transfer[s] = "none"
    /\ bot[s] = "status" => pc[s] = "idle"

\* A settled payment names a transfer of its own.
BooksAreBacked == \A p \in Payments : Settled(p) => row[p].tx \in Transfers(p)

\* Whoever says that a payment is settled is right.
ClaimsAreTrue ==
  \A s \in Submits :
    \/ pc[s] \in {"notify", "settled", "already_settled"}
    \/ bot[s] \in {"accepted", "ignored"}
    \/ notice[s] # "none"
    => submit[s] # NoSubmit /\ Settled(submit[s].payment)

PushesAreTrue ==
  \A w \in Webhooks : notice[w] # "none" => push[w] # None /\ Settled(push[w])

Linked == UnsentIsIdle /\ WorkIsKnown /\ AsksOnce /\ BooksAreBacked /\ ClaimsAreTrue /\ PushesAreTrue

\* The webhook writes no other rows.
OnlyTopups == \A i \in DOMAIN events : events[i].type = "topup"

\* What waits to be confirmed was announced by a notice.
WaitingIsNoticed == \A m \in channel : notice[m] # "none"

PaymentInv == TypeOK /\ OnlyTopups /\ Linked /\ WaitingIsNoticed /\ CreditIsBacked /\ CreditedAtMostOnce

-----------------------------------------------------------------------------
(* Records only grow.                                                      *)

KeepsRow(p) == Known(p) => /\ row'[p] # NoRow
                           /\ row'[p].room = row[p].room
                           /\ row'[p].amount = row[p].amount
                           /\ Settled(p) => row'[p] = row[p]

\* What one step may do to the records of the three processes.
Grows ==
  /\ \A p \in Payments : KeepsRow(p)
  /\ \A s \in Submits : submit[s] # NoSubmit => submit'[s] = submit[s]
  /\ \A s \in Submits : transfer[s] = "settled" => transfer'[s] = "settled"
  /\ \A w \in Webhooks : push[w] # None => push'[w] = push[w]

\* mark_settled keeps every record, because it only touches pending ones.
LEMMA MarkSettledKeeps ==
  ASSUME TypeOK, NEW p \in Payments, NEW tx \in Submits, Known(p), MarkSettled(p, tx)
  PROVE  /\ row' \in [Payments -> Issued \cup {NoRow}]
         /\ \A q \in Payments : KeepsRow(q)
         /\ \A q \in Payments : row'[q].status = "settled" => Settled(q) \/ (q = p /\ row'[q].tx = tx)
         /\ row'[p].status = "settled"
<1> USE DEF Known, Settled, KeepsRow
<1>1. row[p] \in Issued /\ row \in [Payments -> Issued \cup {NoRow}]
  BY DEF TypeOK
<1>2. CASE row[p].status # "pending"
  <2>1. row[p].status = "settled"
    BY <1>1, <1>2 DEF Issued
  <2> QED BY <1>1, <1>2, <2>1 DEF MarkSettled
<1>3. CASE row[p].status = "pending"
  <2> DEFINE settled == [row[p] EXCEPT !.status = "settled", !.tx = tx]
  <2>1. row' = [row EXCEPT ![p] = settled]
    BY <1>1, <1>3 DEF MarkSettled
  <2>2. settled \in Issued /\ settled.status = "settled" /\ settled.tx = tx
        /\ settled.room = row[p].room /\ settled.amount = row[p].amount
    BY <1>1 DEF Issued
  <2>3. settled # NoRow
    BY <2>2 DEF NoRow
  <2> HIDE DEF settled
  <2> QED BY <1>1, <1>3, <2>1, <2>2, <2>3
<1> QED BY <1>2, <1>3

LEMMA Monotone ==
  ASSUME TypeOK, Linked, [Next]_vars
  PROVE  Grows
<1> USE DEF Grows, KeepsRow, Known, Settled
<1>1. CASE UNCHANGED vars
  BY <1>1 DEF vars, sidecarVars
<1>2. ASSUME NEW p \in Payments, NEW r \in Rooms, NEW u \in Users, NEW a \in Amounts,
             CreatePaymentRequest(p, r, u, a)
      PROVE  Grows
  BY <1>2 DEF CreatePaymentRequest, TypeOK
<1>3. ASSUME NEW p \in Payments, Expire(p)
      PROVE  Grows
  BY <1>3 DEF Expire
<1>4. ASSUME NEW s \in Submits, NEW p \in Payments, NEW b \in Buyers, NEW r \in Rooms,
             NEW u \in Users, SubmitEvent(s, p, b, r, u) \/ ClientSubmits(s, p, b, r, u)
      PROVE  Grows
  BY <1>4 DEF SubmitEvent, ClientSubmits, TypeOK
<1>5. ASSUME NEW s \in Submits, BotStep(s)
      PROVE  Grows
  BY <1>5 DEF BotStep, StatusAnswers, SubmitAnswers, SidecarCallFails, sidecarVars
<1>6. ASSUME NEW s \in Submits, SidecarStep(s)
      PROVE  Grows
  <2>1. CASE ReceiveSubmit(s) \/ SettleFails(s) \/ NotifyReturns(s)
    BY <2>1 DEF ReceiveSubmit, SettleFails, NotifyReturns
  <2>2. CASE VerifyAnswers(s)
    BY <2>2 DEF VerifyAnswers, TypeOK, Linked, AsksOnce
  <2>3. CASE SettleAnswers(s)
    <3>1. CASE transfer[s] = "settled"
      <4>1. submit[s].payment \in Payments /\ Known(submit[s].payment)
        BY <2>3 DEF SettleAnswers, Linked, UnsentIsIdle, WorkIsKnown, TypeOK, Permits
      <4>2. MarkSettled(submit[s].payment, s)
        BY <2>3, <3>1 DEF SettleAnswers
      <4> QED BY <2>3, <4>1, <4>2, MarkSettledKeeps DEF SettleAnswers
    <3>2. CASE transfer[s] # "settled"
      BY <2>3, <3>2 DEF SettleAnswers
    <3> QED BY <3>1, <3>2
  <2> QED BY <1>6, <2>1, <2>2, <2>3 DEF SidecarStep
<1>7. ASSUME NEW s \in Submits, FacilitatorSettles(s) \/ FacilitatorRefuses(s)
      PROVE  Grows
  BY <1>7 DEF FacilitatorSettles, FacilitatorRefuses, sidecarVars, TypeOK
<1>8. ASSUME NEW w \in Webhooks, NEW p \in Payments, SettlementWebhook(w, p)
      PROVE  Grows
  <2>1. PICK s \in Submits : MarkSettled(p, s)
    BY <1>8 DEF SettlementWebhook, Transfers
  <2> QED BY <1>8, <2>1, MarkSettledKeeps DEF SettlementWebhook, TypeOK
<1>9. ASSUME NEW m \in Messages, HookStep(m) \/ NoticeFails(m)
      PROVE  Grows
  BY <1>9 DEF HookStep, CheckPayment, InsertTopup, Announce, DrainAnnouncement, NoticeFails,
              sidecarVars
<1>10. CASE SidecarCrash \/ BotCrash
  BY <1>10 DEF SidecarCrash, BotCrash, sidecarVars
<1> QED BY <1>1, <1>2, <1>3, <1>4, <1>5, <1>6, <1>7, <1>8, <1>9, <1>10 DEF Next
-----------------------------------------------------------------------------
(* Every handler and every notice stays linked to its payment.             *)

LEMMA LinkedInit == Init => PaymentInv
<1> SUFFICES ASSUME Init PROVE PaymentInv
  OBVIOUS
<1> USE DEF Init, Linked, NoSubmit
<1>1. TypeOK
  <2>1. events \in Seq(Row(Rooms, {}, Payments))
    BY DEF Init
  <2> QED BY <2>1 DEF TypeOK, Messages
<1>2. Linked
  BY DEF UnsentIsIdle, WorkIsKnown, AsksOnce, BooksAreBacked, ClaimsAreTrue, PushesAreTrue, Settled, NoRow, Messages
<1>3. CreditIsBacked /\ CreditedAtMostOnce /\ OnlyTopups /\ WaitingIsNoticed
  BY DEF CreditIsBacked, CreditedAtMostOnce, OnlyTopups, WaitingIsNoticed
<1> QED BY <1>1, <1>2, <1>3 DEF PaymentInv

LEMMA WaitingStep ==
  ASSUME TypeOK, WaitingIsNoticed, [Next]_vars
  PROVE  WaitingIsNoticed'
<1> USE DEF WaitingIsNoticed, TypeOK
<1>1. CASE UNCHANGED <<notice, channel>>
  BY <1>1
<1>2. ASSUME NEW m \in Messages, Notify(m), UNCHANGED channel
      PROVE  WaitingIsNoticed'
  BY <1>2 DEF Notify
<1>3. ASSUME NEW m \in Messages, HookStep(m) \/ NoticeFails(m)
      PROVE  WaitingIsNoticed'
  BY <1>3 DEF HookStep, CheckPayment, InsertTopup, Announce, DrainAnnouncement, NoticeFails
<1>4. CASE BotCrash
  BY <1>4 DEF BotCrash
<1>5. ASSUME NEW s \in Submits, BotStep(s) \/ SidecarStep(s)
      PROVE  WaitingIsNoticed'
  BY <1>1, <1>2, <1>5 DEF BotStep, StatusAnswers, SubmitAnswers, SidecarCallFails, SidecarStep, ReceiveSubmit,
     VerifyAnswers, SettleAnswers, SettleFails, NotifyReturns, hookVars, Messages
<1> QED BY <1>1, <1>2, <1>3, <1>4, <1>5
        DEF Next, CreatePaymentRequest, Expire, SubmitEvent, ClientSubmits, FacilitatorSettles,
            FacilitatorRefuses, SettlementWebhook, SidecarCrash, vars, hookVars, Messages

LEMMA LinkedStep ==
  ASSUME TypeOK, Linked, WaitingIsNoticed, [Next]_vars
  PROVE  Linked'
<1> USE DEF Linked, UnsentIsIdle, WorkIsKnown, AsksOnce, BooksAreBacked, ClaimsAreTrue, PushesAreTrue,
            Known, Settled, Transfers
<1>0. Grows
  BY Monotone
<1>a. \A s \in Submits : submit[s] # NoSubmit => submit[s].payment \in Payments
  BY DEF TypeOK, Permits
<1>b. \A q \in Payments :
        /\ Known(q) => row'[q] # NoRow
        /\ Settled(q) => row'[q].status = "settled"
  BY <1>0 DEF Grows, KeepsRow
<1>c. \A s \in Submits :
        submit[s] # NoSubmit =>
          /\ Known(submit[s].payment) => row'[submit'[s].payment] # NoRow
          /\ Settled(submit[s].payment) => row'[submit'[s].payment].status = "settled"
          /\ submit'[s] # NoSubmit
  <2> SUFFICES ASSUME NEW s \in Submits, submit[s] # NoSubmit
               PROVE  /\ Known(submit[s].payment) => row'[submit'[s].payment] # NoRow
                      /\ Settled(submit[s].payment) => row'[submit'[s].payment].status = "settled"
                      /\ submit'[s] # NoSubmit
    OBVIOUS
  <2>1. submit'[s] = submit[s]
    BY <1>0 DEF Grows
  <2>2. submit[s].payment \in Payments
    BY <1>a
  <2> QED BY <1>b, <2>1, <2>2
<1>1. CASE UNCHANGED vars
  BY <1>1 DEF vars, sidecarVars, hookVars
<1>2. ASSUME NEW p \in Payments, NEW r \in Rooms, NEW u \in Users, NEW a \in Amounts,
             CreatePaymentRequest(p, r, u, a)
      PROVE  Linked'
  BY <1>0, <1>2 DEF Grows, KeepsRow, CreatePaymentRequest, TypeOK, NoRow, hookVars
<1>3. ASSUME NEW p \in Payments, Expire(p)
      PROVE  Linked'
  BY <1>3 DEF Expire, hookVars
<1>4. ASSUME NEW s \in Submits, NEW p \in Payments, NEW b \in Buyers, NEW r \in Rooms,
             NEW u \in Users, SubmitEvent(s, p, b, r, u)
      PROVE  Linked'
  <2>1. submit[s] = NoSubmit /\ submit'[s] # NoSubmit
    BY <1>4, NameAssumption DEF SubmitEvent, TypeOK, NoSubmit
  <2>2. \A t \in Submits : t # s => submit'[t] = submit[t]
    BY <1>4 DEF SubmitEvent, TypeOK
  <2>3. pc[s] = "idle" /\ bot[s] = "idle" /\ transfer[s] = "none" /\ notice[s] = "none"
    BY <2>1
  <2>4. UNCHANGED <<row, transfer, push, notice>>
    BY <1>4 DEF SubmitEvent, hookVars
  <2>5. \A t \in Submits : t # s => pc'[t] = pc[t] /\ bot'[t] = bot[t]
    BY <1>4 DEF SubmitEvent, Tell, TypeOK
  <2>6. /\ pc'[s] \in {"idle", "received"}
        /\ bot'[s] \in {"idle", "status"}
        /\ bot'[s] = "status" => pc'[s] = "idle"
    BY <1>4, <2>3 DEF SubmitEvent, Tell, TypeOK
  <2> QED BY <2>1, <2>2, <2>3, <2>4, <2>5, <2>6
<1>5. ASSUME NEW s \in Submits, NEW p \in Payments, NEW b \in Buyers, NEW r \in Rooms,
             NEW u \in Users, ClientSubmits(s, p, b, r, u)
      PROVE  Linked'
  <2>1. submit[s] = NoSubmit /\ submit'[s] # NoSubmit
    BY <1>5, NameAssumption DEF ClientSubmits, TypeOK, NoSubmit
  <2>2. \A t \in Submits : t # s => submit'[t] = submit[t]
    BY <1>5 DEF ClientSubmits, TypeOK
  <2>3. pc[s] = "idle" /\ bot[s] = "idle" /\ transfer[s] = "none" /\ notice[s] = "none"
    BY <2>1
  <2>4. UNCHANGED <<row, transfer, push, notice>>
    BY <1>5 DEF ClientSubmits, hookVars
  <2>5. \A t \in Submits : t # s => pc'[t] = pc[t] /\ bot'[t] = bot[t]
    BY <1>5 DEF ClientSubmits, TypeOK
  <2>6. /\ pc'[s] \in {"idle", "received"}
        /\ bot'[s] \in {"idle", "status"}
        /\ bot'[s] = "status" => pc'[s] = "idle"
    BY <1>5, <2>3 DEF ClientSubmits, TypeOK
  <2> QED BY <2>1, <2>2, <2>3, <2>4, <2>5, <2>6
<1>6. ASSUME NEW s \in Submits, StatusAnswers(s)
      PROVE  Linked'
  <2> DEFINE p == submit[s].payment
  <2>1. submit[s] # NoSubmit /\ pc[s] = "idle" /\ p \in Payments
    BY <1>6 DEF StatusAnswers, TypeOK, Permits
  <2>2. UNCHANGED <<row, submit, transfer, push, notice>>
    BY <1>6 DEF StatusAnswers, hookVars
  <2>3. \A t \in Submits : t # s => pc'[t] = pc[t] /\ bot'[t] = bot[t]
    BY <1>6 DEF StatusAnswers, Tell, TypeOK
  <2>4. /\ pc'[s] \in {"idle", "received"}
        /\ bot'[s] \notin {"status", "accepted"}
        /\ bot'[s] = "ignored" => Settled(p)
    BY <1>6, <2>1 DEF StatusAnswers, Tell, TypeOK
  <2> QED BY <2>1, <2>2, <2>3, <2>4
<1>7. ASSUME NEW s \in Submits, SubmitAnswers(s)
      PROVE  Linked'
  BY <1>0, <1>7 DEF Grows, KeepsRow, SubmitAnswers, Tell, ErrorCodeOf, Answers, TypeOK, hookVars, sidecarVars
<1>8. ASSUME NEW s \in Submits, SidecarCallFails(s)
      PROVE  Linked'
  BY <1>0, <1>8 DEF Grows, KeepsRow, SidecarCallFails, Tell, TypeOK, hookVars, sidecarVars
<1>9. ASSUME NEW s \in Submits, ReceiveSubmit(s)
      PROVE  Linked'
  BY <1>0, <1>9 DEF Grows, KeepsRow, ReceiveSubmit, Goto, TypeOK, hookVars
<1>10. ASSUME NEW s \in Submits, VerifyAnswers(s)
      PROVE  Linked'
  BY <1>0, <1>10 DEF Grows, KeepsRow, VerifyAnswers, Goto, TypeOK, hookVars
<1>11. ASSUME NEW s \in Submits, SettleAnswers(s)
      PROVE  Linked'
  <2>1. CASE transfer[s] = "refused"
    BY <1>11, <2>1 DEF SettleAnswers, Goto, TypeOK
  <2>2. CASE transfer[s] = "settled"
    <3> DEFINE p == submit[s].payment
    <3>1. p \in Payments /\ Known(p) /\ submit[s] # NoSubmit
      BY <1>11 DEF SettleAnswers, TypeOK, Permits
    <3>2. MarkSettled(p, s) /\ UNCHANGED <<submit, transfer, push, bot>>
      BY <1>11, <2>2 DEF SettleAnswers
    <3>3. /\ \A q \in Payments : row'[q].status = "settled" => Settled(q) \/ (q = p /\ row'[q].tx = s)
          /\ row'[p].status = "settled"
      BY <3>1, <3>2, MarkSettledKeeps
    <3>4. /\ pc' = [pc EXCEPT ![s] = "notify"]
          /\ notice' = [notice EXCEPT ![s] = "sent"]
      BY <1>11, <2>2 DEF SettleAnswers, Goto, Notify
    <3>5. BooksAreBacked'
      BY <1>0, <2>2, <3>2, <3>3 DEF Grows, KeepsRow
    <3>6. \A t \in Submits : t # s => pc'[t] = pc[t] /\ notice'[t] = notice[t]
      BY <3>4 DEF TypeOK
    <3>7. pc'[s] = "notify" /\ \A w \in Webhooks : notice'[w] = notice[w]
      BY <3>4, MessageAssumption DEF TypeOK, Messages
    <3>8. ClaimsAreTrue' /\ PushesAreTrue'
      <4>1. ClaimsAreTrue'
        BY <1>c, <3>1, <3>2, <3>3, <3>6, <3>7
      <4>2. \A w \in Webhooks : push[w] # None => push[w] \in Payments
        BY DEF TypeOK
      <4>3. PushesAreTrue'
        BY <1>b, <3>2, <3>7, <4>2
      <4> QED BY <4>1, <4>3
    <3>9. UnsentIsIdle' /\ AsksOnce'
      <4>1. pc[s] = "settle"
        BY <1>11 DEF SettleAnswers
      <4> QED BY <2>2, <3>1, <3>2, <3>6, <3>7, <4>1
    <3>10. WorkIsKnown'
      BY <1>c, <2>2, <3>1, <3>2, <3>6, <3>7
    <3> QED BY <3>5, <3>8, <3>9, <3>10
  <2> QED BY <1>11, <2>1, <2>2 DEF SettleAnswers
<1>12. ASSUME NEW s \in Submits, SettleFails(s)
      PROVE  Linked'
  BY <1>0, <1>12 DEF Grows, KeepsRow, SettleFails, Goto, TypeOK, hookVars
<1>13. ASSUME NEW s \in Submits, NotifyReturns(s)
      PROVE  Linked'
  BY <1>0, <1>13 DEF Grows, KeepsRow, NotifyReturns, Goto, TypeOK, hookVars
<1>14. ASSUME NEW s \in Submits, FacilitatorSettles(s)
      PROVE  Linked'
  BY <1>0, <1>14 DEF Grows, KeepsRow, FacilitatorSettles, TypeOK, sidecarVars, hookVars
<1>15. ASSUME NEW s \in Submits, FacilitatorRefuses(s)
      PROVE  Linked'
  BY <1>0, <1>15 DEF Grows, KeepsRow, FacilitatorRefuses, TypeOK, sidecarVars, hookVars
<1>16. ASSUME NEW w \in Webhooks, NEW p \in Payments, SettlementWebhook(w, p)
      PROVE  Linked'
  <2>1. PICK s \in Transfers(p) : MarkSettled(p, s)
    BY <1>16 DEF SettlementWebhook
  <2>2. /\ Known(p) /\ s \in Submits
        /\ UNCHANGED <<submit, pc, transfer, bot>>
        /\ push' = [push EXCEPT ![w] = p]
        /\ notice' = [notice EXCEPT ![w] = "sent"]
    BY <1>16, <2>1 DEF SettlementWebhook, Notify
  <2>3. /\ \A q \in Payments : row'[q].status = "settled" => Settled(q) \/ (q = p /\ row'[q].tx = s)
        /\ row'[p].status = "settled"
    BY <2>1, <2>2, MarkSettledKeeps
  <2>4. BooksAreBacked'
    BY <1>0, <2>1, <2>2, <2>3 DEF Grows, KeepsRow
  <2>7. \A t \in Submits : notice'[t] = notice[t]
    BY <2>2, MessageAssumption DEF TypeOK, Messages
  <2>5. ClaimsAreTrue'
    BY <1>c, <2>2, <2>7
  <2>6. PushesAreTrue'
    BY <1>0, <2>2, <2>3, NameAssumption DEF Grows, KeepsRow, TypeOK, Messages
  <2>8. UnsentIsIdle' /\ AsksOnce'
    BY <2>2, <2>7
  <2>9. WorkIsKnown'
    BY <1>c, <2>2
  <2> QED BY <2>4, <2>5, <2>6, <2>8, <2>9
<1>17. ASSUME NEW m \in Messages, CheckPayment(m)
      PROVE  Linked'
  BY <1>0, <1>17 DEF Grows, KeepsRow, CheckPayment, TypeOK, Messages, sidecarVars, hookVars
<1>18. ASSUME NEW m \in Messages, InsertTopup(m)
      PROVE  Linked'
  BY <1>0, <1>18 DEF Grows, KeepsRow, InsertTopup, TypeOK, Messages, sidecarVars, hookVars
<1>19. ASSUME NEW m \in Messages, Announce(m)
      PROVE  Linked'
  BY <1>0, <1>19 DEF Grows, KeepsRow, Announce, TypeOK, Messages, sidecarVars, hookVars
<1>20. ASSUME NEW m \in Messages, DrainAnnouncement(m)
      PROVE  Linked'
  <2>1. /\ UNCHANGED <<row, submit, pc, push, transfer, bot>>
        /\ notice' = notice \/ notice' = [notice EXCEPT ![m] = "unconfirmed"]
        /\ notice[m] # "none"
    BY <1>20 DEF DrainAnnouncement, sidecarVars, WaitingIsNoticed
  <2> QED BY <2>1 DEF TypeOK, Messages
<1>21. ASSUME NEW m \in Messages, NoticeFails(m)
      PROVE  Linked'
  BY <1>0, <1>21 DEF Grows, KeepsRow, NoticeFails, TypeOK, Messages, sidecarVars, hookVars
<1>22. CASE SidecarCrash
  BY <1>0, <1>22 DEF Grows, KeepsRow, SidecarCrash, Awaits, hookVars
<1>23. CASE BotCrash
  BY <1>0, <1>23 DEF Grows, KeepsRow, BotCrash, WaitingIsNoticed, Messages, sidecarVars
<1> QED BY <1>1, <1>2, <1>3, <1>4, <1>5, <1>6, <1>7, <1>8, <1>9, <1>10, <1>11, <1>12, <1>13,
           <1>14, <1>15, <1>16, <1>17, <1>18, <1>19, <1>20, <1>21, <1>22, <1>23
        DEF Next, BotStep, SidecarStep, HookStep
-----------------------------------------------------------------------------
(* Types.                                                                  *)

\* An issued row has the fields of Issued.
LEMMA IssuedRow ==
  ASSUME TypeOK, NEW p \in Payments, Known(p)
  PROVE  row[p] \in Issued
  BY DEF TypeOK, Known

LEMMA IssuedTerms ==
  ASSUME NEW payment \in Issued
  PROVE  payment.room \in Rooms /\ payment.amount \in Int
<1>1. payment.room \in Rooms /\ payment.amount \in Amounts
  BY DEF Issued
<1>2. \A a \in Amounts : a \in Int
  BY TopupAssumption
<1> QED BY <1>1, <1>2

\* Every notice at work is about a payment that is on record as settled.
LEMMA NoticeSettled ==
  ASSUME TypeOK, Linked, NEW m \in Messages, notice[m] # "none"
  PROVE  /\ PaymentOf(m) \in Payments
         /\ Settled(PaymentOf(m))
         /\ row[PaymentOf(m)] \in Issued
<1>1. CASE m \in Submits
  <2>1. submit[m].payment \in Payments /\ Settled(submit[m].payment)
    BY <1>1 DEF Linked, ClaimsAreTrue, TypeOK, Permits
  <2> QED BY <1>1, <2>1, IssuedRow DEF PaymentOf, Settled, Known, NoRow
<1>2. CASE m \notin Submits
  <2>1. m \in Webhooks /\ push[m] \in Payments /\ Settled(push[m])
    BY <1>2 DEF Linked, PushesAreTrue, TypeOK, Messages
  <2> QED BY <1>2, <2>1, IssuedRow DEF PaymentOf, Settled, Known, NoRow
<1> QED BY <1>1, <1>2

LEMMA TypeStep ==
  ASSUME TypeOK, Linked, [Next]_vars
  PROVE  TypeOK'
<1> USE DEF TypeOK
<1>1. CASE UNCHANGED vars
  BY <1>1 DEF vars, sidecarVars, hookVars, envVars
<1>2. ASSUME NEW p \in Payments, NEW r \in Rooms, NEW u \in Users, NEW a \in Amounts,
             CreatePaymentRequest(p, r, u, a)
      PROVE  TypeOK'
  BY <1>2 DEF CreatePaymentRequest, Issued, hookVars, envVars
<1>3. ASSUME NEW p \in Payments, Expire(p)
      PROVE  TypeOK'
  BY <1>3 DEF Expire, hookVars, envVars
<1>4. ASSUME NEW s \in Submits, NEW p \in Payments, NEW b \in Buyers, NEW r \in Rooms,
             NEW u \in Users, SubmitEvent(s, p, b, r, u) \/ ClientSubmits(s, p, b, r, u)
      PROVE  TypeOK'
  BY <1>4 DEF SubmitEvent, ClientSubmits, Tell, Permits, Awaits, hookVars, envVars
<1>5. ASSUME NEW s \in Submits, StatusAnswers(s)
      PROVE  TypeOK'
  BY <1>5 DEF StatusAnswers, Tell, ErrorCodes, Awaits, hookVars, envVars
<1>6. ASSUME NEW s \in Submits, SubmitAnswers(s)
      PROVE  TypeOK'
  BY <1>6 DEF SubmitAnswers, Tell, ErrorCodeOf, ErrorCodes, Answers, sidecarVars, hookVars, envVars
<1>7. ASSUME NEW s \in Submits, SidecarCallFails(s)
      PROVE  TypeOK'
  BY <1>7 DEF SidecarCallFails, Tell, ErrorCodes, hookVars, sidecarVars, envVars
<1>8. ASSUME NEW s \in Submits, ReceiveSubmit(s)
      PROVE  TypeOK'
  BY <1>8 DEF ReceiveSubmit, Goto, Awaits, Answers, hookVars, envVars
<1>9. ASSUME NEW s \in Submits, VerifyAnswers(s)
      PROVE  TypeOK'
  BY <1>9 DEF VerifyAnswers, Goto, Awaits, Answers, hookVars, envVars
<1>10. ASSUME NEW s \in Submits, SettleAnswers(s)
      PROVE  TypeOK'
  <2>1. row' \in [Payments -> Issued \cup {NoRow}]
    <3>1. CASE transfer[s] = "settled"
      <4>1. submit[s].payment \in Payments /\ Known(submit[s].payment)
        BY <1>10 DEF SettleAnswers, Linked, UnsentIsIdle, WorkIsKnown, Permits
      <4>2. MarkSettled(submit[s].payment, s)
        BY <1>10, <3>1 DEF SettleAnswers
      <4> QED BY <4>1, <4>2, MarkSettledKeeps
    <3> QED BY <1>10, <3>1 DEF SettleAnswers
  <2> QED BY <1>10, <2>1 DEF SettleAnswers, Notify, Goto, Awaits, Answers, Messages, envVars
<1>11. ASSUME NEW s \in Submits, SettleFails(s)
      PROVE  TypeOK'
  BY <1>11 DEF SettleFails, Goto, Awaits, Answers, hookVars, envVars
<1>12. ASSUME NEW s \in Submits, NotifyReturns(s)
      PROVE  TypeOK'
  BY <1>12 DEF NotifyReturns, Goto, Awaits, Answers, hookVars, envVars
<1>13. ASSUME NEW s \in Submits, FacilitatorSettles(s)
      PROVE  TypeOK'
  BY <1>13 DEF FacilitatorSettles, sidecarVars, hookVars, envVars
<1>14. ASSUME NEW s \in Submits, FacilitatorRefuses(s)
      PROVE  TypeOK'
  BY <1>14 DEF FacilitatorRefuses, sidecarVars, hookVars, envVars
<1>15. ASSUME NEW w \in Webhooks, NEW p \in Payments, SettlementWebhook(w, p)
      PROVE  TypeOK'
  <2>1. PICK s \in Submits : MarkSettled(p, s)
    BY <1>15 DEF SettlementWebhook, Transfers
  <2>2. row' \in [Payments -> Issued \cup {NoRow}]
    BY <1>15, <2>1, MarkSettledKeeps DEF SettlementWebhook, Known
  <2> QED BY <1>15, <2>2 DEF SettlementWebhook, Notify, Messages, envVars
<1>16. ASSUME NEW m \in Messages, CheckPayment(m)
      PROVE  TypeOK'
  BY <1>16 DEF CheckPayment, sidecarVars, hookVars, envVars
<1>17. ASSUME NEW m \in Messages, InsertTopup(m)
      PROVE  TypeOK'
  <2> DEFINE p == PaymentOf(m)
             topup == BuildEvent("topup", row[p].room, row[p].amount, None, p, 0)
  <2>1. p \in Payments /\ row[p] \in Issued
    BY <1>17, NoticeSettled DEF InsertTopup
  <2>2. topup \in TopupRow
    <3>1. row[p].room \in Rooms /\ row[p].amount \in Int
      BY <2>1, IssuedTerms
    <3>2. BuildEvent("topup", row[p].room, row[p].amount, None, p, 0)
            = [type |-> "topup", room |-> row[p].room, amount |-> row[p].amount,
               corr |-> None, payment |-> p, at |-> 0]
      BY DEF BuildEvent
    <3>3. "topup" \in EventTypes /\ 0 \in Nat
      BY DEF EventTypes
    <3> HIDE DEF p
    <3> QED BY <2>1, <3>1, <3>2, <3>3 DEF TopupRow, Row
  <2>3. events' = events \/ events' = Append(events, topup)
    BY <1>17 DEF InsertTopup, Topup
  <2>4. events' \in Seq(TopupRow)
    <3>1. events \in Seq(TopupRow)
      BY DEF TopupRow
    <3> HIDE DEF topup
    <3> QED BY <2>2, <2>3, <3>1, SMTT(30)
  <2> QED BY <1>17, <2>4 DEF InsertTopup, TopupRow, sidecarVars, envVars
<1>18. ASSUME NEW m \in Messages, Announce(m)
      PROVE  TypeOK'
  BY <1>18 DEF Announce, sidecarVars, hookVars, envVars
<1>19. ASSUME NEW m \in Messages, DrainAnnouncement(m)
      PROVE  TypeOK'
  BY <1>19 DEF DrainAnnouncement, sidecarVars, hookVars, envVars
<1>20. ASSUME NEW m \in Messages, NoticeFails(m)
      PROVE  TypeOK'
  BY <1>20 DEF NoticeFails, sidecarVars, hookVars, envVars
<1>21. CASE SidecarCrash
  BY <1>21 DEF SidecarCrash, hookVars
<1>22. CASE BotCrash
  BY <1>22 DEF BotCrash, sidecarVars
<1> QED BY <1>1, <1>2, <1>3, <1>4, <1>5, <1>6, <1>7, <1>8, <1>9, <1>10, <1>11, <1>12,
           <1>13, <1>14, <1>15, <1>16, <1>17, <1>18, <1>19, <1>20, <1>21, <1>22
        DEF Next, BotStep, SidecarStep, HookStep
-----------------------------------------------------------------------------
(* The ledger.                                                             *)

\* Only an insert that finds no row of its payment changes the ledger.
Inserts(m) ==
  LET p == PaymentOf(m) IN
  /\ notice[m] # "none"
  /\ ~DuplicatePaymentId(events, p)
  /\ events' = Append(events, BuildEvent("topup", row[p].room, row[p].amount, None, p, 0))
  /\ UNCHANGED row

LEMMA LedgerStep ==
  ASSUME [Next]_vars
  PROVE  UNCHANGED events \/ \E m \in Messages : Inserts(m)
<1>1. ASSUME NEW m \in Messages, InsertTopup(m)
      PROVE  UNCHANGED events \/ Inserts(m)
  BY <1>1 DEF InsertTopup, Topup, Inserts, sidecarVars
<1>2. ASSUME NEW m \in Messages, HookStep(m) \/ NoticeFails(m)
      PROVE  UNCHANGED events \/ Inserts(m)
  BY <1>1, <1>2 DEF HookStep, CheckPayment, Announce, DrainAnnouncement, NoticeFails
<1>3. ASSUME NEW s \in Submits, BotStep(s) \/ SidecarStep(s)
      PROVE  UNCHANGED events
  BY <1>3 DEF BotStep, StatusAnswers, SubmitAnswers, SidecarCallFails, SidecarStep, ReceiveSubmit,
              VerifyAnswers, SettleAnswers, SettleFails, NotifyReturns, hookVars
<1>4. CASE UNCHANGED vars
  BY <1>4 DEF vars, hookVars
<1> QED
  BY <1>2, <1>3, <1>4
  DEF Next, CreatePaymentRequest, Expire, SubmitEvent, ClientSubmits, FacilitatorSettles,
      FacilitatorRefuses, SettlementWebhook, SidecarCrash, BotCrash, hookVars

\* What CreditIsBacked says of a row, before and after a step.
Backed(e) ==
  /\ e.payment \in Payments
  /\ Settled(e.payment)
  /\ row[e.payment].tx \in Transfers(e.payment)
  /\ e.room = row[e.payment].room
  /\ e.amount = row[e.payment].amount

BackedNext(e) ==
  /\ e.payment \in Payments
  /\ row'[e.payment].status = "settled"
  /\ row'[e.payment].tx \in Submits
  /\ transfer'[row'[e.payment].tx] = "settled"
  /\ submit'[row'[e.payment].tx].payment = e.payment
  /\ e.room = row'[e.payment].room
  /\ e.amount = row'[e.payment].amount

LEMMA BackedSplit ==
  /\ CreditIsBacked <=> \A i \in DOMAIN events : Backed(events[i])
  /\ CreditIsBacked' <=> \A i \in DOMAIN events' : BackedNext(events'[i])
<1>1. CreditIsBacked <=> \A i \in DOMAIN events : Backed(events[i])
  BY DEF CreditIsBacked, Backed, Settled
<1>2. CreditIsBacked' <=> \A i \in DOMAIN events' : BackedNext(events'[i])
  BY DEF CreditIsBacked, BackedNext, Transfers
<1> QED BY <1>1, <1>2

LEMMA BackedStays ==
  ASSUME TypeOK, Linked, [Next]_vars, NEW e, Backed(e)
  PROVE  BackedNext(e)
<1>1. Grows
  BY Monotone
<1>2. row'[e.payment] = row[e.payment]
  BY <1>1 DEF Grows, KeepsRow, Backed, Settled, Known, NoRow
<1>3. ASSUME NEW t \in Transfers(e.payment)
      PROVE  t \in Submits /\ transfer'[t] = "settled" /\ submit'[t].payment = e.payment
  <2>1. t \in Submits /\ transfer[t] = "settled" /\ submit[t].payment = e.payment
    BY <1>3 DEF Transfers
  <2>2. submit[t] # NoSubmit
    BY <2>1 DEF Linked, UnsentIsIdle
  <2>3. transfer'[t] = "settled" /\ submit'[t] = submit[t]
    BY <1>1, <2>1, <2>2 DEF Grows
  <2> QED BY <2>1, <2>3
<1> QED BY <1>2, <1>3 DEF Backed, BackedNext, Settled

LEMMA CreditStep ==
  ASSUME PaymentInv, [Next]_vars
  PROVE  CreditIsBacked' /\ CreditedAtMostOnce' /\ OnlyTopups'
<1>1. TypeOK /\ Linked /\ CreditedAtMostOnce /\ \A i \in DOMAIN events : Backed(events[i])
  BY BackedSplit DEF PaymentInv
<1>2. \A e : Backed(e) => BackedNext(e)
  BY <1>1, BackedStays
<1>3. CASE UNCHANGED events
  <2>1. CreditIsBacked'
    BY <1>1, <1>2, <1>3, BackedSplit
  <2> QED BY <1>1, <1>3, <2>1 DEF CreditedAtMostOnce, OnlyTopups, PaymentInv
<1>4. ASSUME NEW m \in Messages, Inserts(m)
      PROVE  CreditIsBacked' /\ CreditedAtMostOnce' /\ OnlyTopups'
  <2> DEFINE p == PaymentOf(m)
             topup == BuildEvent("topup", row[p].room, row[p].amount, None, p, 0)
             n == Len(events)
  <2>1. p \in Payments /\ Settled(p)
    BY <1>1, <1>4, NoticeSettled DEF Inserts
  <2>2. row[p].tx \in Transfers(p)
    BY <1>1, <2>1 DEF Linked, BooksAreBacked
  <2>3. Backed(topup)
    BY <2>1, <2>2 DEF Backed, BuildEvent
  <2>4. topup.payment = p /\ topup.type = "topup"
    BY DEF BuildEvent
  <2>5. \A i \in DOMAIN events : events[i].payment # p
    <3>1. p # None
      BY <2>1, NameAssumption
    <3>2. \A i \in DOMAIN events : events[i].type = "topup"
      BY DEF PaymentInv, OnlyTopups
    <3> QED BY <1>4, <3>1, <3>2 DEF Inserts, DuplicatePaymentId, TopupExistsByPaymentId
  <2> HIDE DEF topup
  <2>6. /\ DOMAIN events' = 1..(n + 1)
        /\ DOMAIN events = 1..n
        /\ n \in Nat
        /\ \A i \in 1..n : events'[i] = events[i]
        /\ events'[n + 1] = topup
    BY <1>4, <2>4 DEF Inserts, topup
  <2>7. CreditIsBacked'
    BY <1>1, <1>2, <2>3, <2>6, BackedSplit
  <2>8. CreditedAtMostOnce'
    BY <1>1, <2>4, <2>5, <2>6 DEF CreditedAtMostOnce
  <2>9. OnlyTopups'
    BY <2>4, <2>6 DEF OnlyTopups, PaymentInv
  <2> QED BY <2>7, <2>8, <2>9
<1> QED BY <1>3, <1>4, LedgerStep

-----------------------------------------------------------------------------
(* One announcement for each credit.                                       *)

\* The notices whose handler inserted a top-up.
Crediting == {"announce", "credited"}

\* A notice is announced, and its credit confirmed, once, and by one handler
\* for each payment; a submit notifies once, at the end.
AnnouncedInv ==
  /\ channel \cup posted \subseteq {m \in Messages : notice[m] = "credited"}
  /\ channel \cap posted = {}
  /\ \A s \in Submits : pc[s] \in {"idle", "received", "verify", "settle"} => notice[s] = "none"
  /\ \A m \in Messages : notice[m] \in Crediting => Credited(PaymentOf(m))
  /\ \A m, n \in Messages :
       notice[m] \in Crediting /\ notice[n] \in Crediting /\ PaymentOf(m) = PaymentOf(n) => m = n

LEMMA AnnouncedInit == Init => AnnouncedInv
BY DEF Init, AnnouncedInv, Crediting, Messages

\* A message at work is about the same payment all along.
LEMMA PaymentStays ==
  ASSUME TypeOK, Linked, [Next]_vars, NEW m \in Messages, notice[m] # "none"
  PROVE  PaymentOf(m)' = PaymentOf(m)
<1>1. Grows
  BY Monotone
<1>2. CASE m \in Submits
  BY <1>1, <1>2 DEF Grows, Linked, UnsentIsIdle, PaymentOf
<1>3. CASE m \notin Submits
  <2>1. m \in Webhooks /\ push[m] # None
    BY <1>3 DEF Messages, Linked, PushesAreTrue
  <2> QED BY <1>1, <1>3, <2>1 DEF Grows, PaymentOf
<1> QED BY <1>2, <1>3

LEMMA CreditStays ==
  ASSUME TypeOK, [Next]_vars, NEW p, Credited(p)
  PROVE  Credited(p)'
<1>1. CASE UNCHANGED events
  BY <1>1 DEF Credited, TopupExistsByPaymentId
<1>2. ASSUME NEW m \in Messages, Inserts(m)
      PROVE  Credited(p)'
  <2>1. PICK e : events' = Append(events, e)
    BY <1>2 DEF Inserts
  <2>2. \A i \in DOMAIN events : i \in DOMAIN events' /\ events'[i] = events[i]
    BY <2>1 DEF TypeOK
  <2> QED BY <2>2 DEF Credited, TopupExistsByPaymentId
<1> QED BY <1>1, <1>2, LedgerStep

\* Steps by which no handler credits a payment.
LEMMA AnnouncedKept ==
  ASSUME TypeOK, Linked, AnnouncedInv, [Next]_vars,
         \A m \in Messages : notice'[m] \in Crediting => notice[m] \in Crediting,
         channel' \cup posted' \subseteq {m \in Messages : notice'[m] = "credited"},
         channel' \cap posted' = {},
         \A s \in Submits : pc'[s] \in {"idle", "received", "verify", "settle"} => notice'[s] = "none"
  PROVE  AnnouncedInv'
<1>1. \A m \in Messages : notice'[m] \in Crediting =>
        /\ notice[m] \in Crediting
        /\ PaymentOf(m)' = PaymentOf(m)
  BY PaymentStays DEF Crediting
<1>2. \A m \in Messages : notice'[m] \in Crediting => Credited(PaymentOf(m))'
  <2> SUFFICES ASSUME NEW m \in Messages, notice'[m] \in Crediting
               PROVE  Credited(PaymentOf(m))'
    OBVIOUS
  <2>1. Credited(PaymentOf(m)) /\ PaymentOf(m)' = PaymentOf(m)
    BY <1>1 DEF AnnouncedInv
  <2>2. \A p : Credited(p) => \E i \in DOMAIN events' : events'[i].type = "topup" /\ events'[i].payment = p
    BY CreditStays DEF Credited, TopupExistsByPaymentId
  <2> QED BY <2>1, <2>2 DEF Credited, TopupExistsByPaymentId
<1> QED BY <1>1, <1>2 DEF AnnouncedInv

LEMMA AnnouncedStep ==
  ASSUME PaymentInv, AnnouncedInv, [Next]_vars
  PROVE  AnnouncedInv'
<1>0. /\ TypeOK /\ Linked
      /\ notice \in [Messages -> {"none", "sent", "insert", "announce", "credited",
                                  "unconfirmed", "conflict", "failed"}]
      /\ pc \in [Submits -> {"idle", "killed"} \cup Awaits \cup Answers]
      /\ Submits \subseteq Messages /\ Webhooks \subseteq Messages
  BY DEF PaymentInv, TypeOK, Messages
<1>a. /\ channel \cup posted \subseteq {m \in Messages : notice[m] = "credited"}
      /\ channel \cap posted = {}
      /\ \A s \in Submits : pc[s] \in {"idle", "received", "verify", "settle"} => notice[s] = "none"
  BY DEF AnnouncedInv
\* The notices stay as they are.
<1>1. CASE UNCHANGED <<notice, channel, posted>>
  <2>1. \A s \in Submits : pc'[s] \in {"idle", "received", "verify", "settle"} => notice'[s] = "none"
    <3> DEFINE held == \A s \in Submits :
                          pc'[s] \in {"idle", "received", "verify", "settle"} =>
                            pc[s] \in {"idle", "received", "verify", "settle"}
    <3>1. held
      <4>1. ASSUME NEW s \in Submits, NEW p \in Payments, NEW b \in Buyers, NEW r \in Rooms,
                   NEW u \in Users, ClientSubmits(s, p, b, r, u)
            PROVE  held
        BY <1>0, <4>1 DEF ClientSubmits, Linked, UnsentIsIdle
      <4>2. ASSUME NEW s \in Submits, StatusAnswers(s)
            PROVE  held
        BY <1>0, <4>2 DEF StatusAnswers, Linked, AsksOnce
      <4>3. ASSUME NEW s \in Submits, SidecarStep(s)
            PROVE  held
        BY <1>0, <4>3 DEF SidecarStep, ReceiveSubmit, VerifyAnswers, SettleAnswers, SettleFails,
           NotifyReturns, Goto
      <4>4. CASE SidecarCrash
        BY <1>0, <4>4 DEF SidecarCrash
      <4>5. CASE UNCHANGED pc
        BY <4>5
      <4>6. ASSUME NEW s \in Submits, SubmitAnswers(s) \/ SidecarCallFails(s)
            PROVE  held
        BY <4>6 DEF SubmitAnswers, SidecarCallFails, sidecarVars
      <4>7. ASSUME NEW m \in Messages, HookStep(m) \/ NoticeFails(m)
            PROVE  held
        BY <4>7 DEF HookStep, CheckPayment, InsertTopup, Announce, DrainAnnouncement, NoticeFails,
                    sidecarVars
      <4> QED BY <4>1, <4>2, <4>3, <4>4, <4>5, <4>6, <4>7
             DEF Next, CreatePaymentRequest, Expire, SubmitEvent, BotStep, FacilitatorSettles,
                 FacilitatorRefuses, SettlementWebhook, BotCrash, vars, sidecarVars
    <3> QED BY <1>1, <1>a, <3>1
  <2> QED BY <1>0, <1>a, <1>1, <2>1, AnnouncedKept
\* A notice sets out.
<1>2. ASSUME NEW m \in Messages, notice[m] = "none", Notify(m), UNCHANGED <<channel, posted>>,
             \A s \in Submits : s # m => pc'[s] = pc[s],
             m \in Submits => pc'[m] = "notify"
      PROVE  AnnouncedInv'
  <2>1. \A n \in Messages : notice'[n] = IF n = m THEN "sent" ELSE notice[n]
    BY <1>0, <1>2 DEF Notify
  <2> QED BY <1>0, <1>a, <1>2, <2>1, AnnouncedKept DEF Crediting
<1>3. ASSUME NEW s \in Submits, SettleAnswers(s)
      PROVE  AnnouncedInv'
  <2>1. CASE UNCHANGED notice
    BY <1>1, <1>3, <2>1 DEF SettleAnswers, envVars
  <2>2. CASE Notify(s) /\ Goto(s, "notify")
    <3>1. notice[s] = "none"
      BY <1>3, <1>a DEF SettleAnswers
    <3>2. pc'[s] = "notify" /\ \A t \in Submits : t # s => pc'[t] = pc[t]
      BY <1>0, <2>2 DEF Goto
    <3> QED BY <1>0, <1>2, <1>3, <2>2, <3>1, <3>2 DEF SettleAnswers, envVars
  <2> QED BY <1>3, <2>1, <2>2 DEF SettleAnswers
<1>4. ASSUME NEW w \in Webhooks, NEW p \in Payments, SettlementWebhook(w, p)
      PROVE  AnnouncedInv'
  <2>1. notice[w] = "none" /\ w \notin Submits
    BY <1>0, <1>4, MessageAssumption DEF SettlementWebhook, Linked, PushesAreTrue
  <2> QED BY <1>0, <1>2, <1>4, <2>1 DEF SettlementWebhook, envVars
\* A handler at work.
<1>5. ASSUME NEW m \in Messages, CheckPayment(m)
      PROVE  AnnouncedInv'
  <2>1. /\ \A n \in Messages : n # m => notice'[n] = notice[n]
        /\ notice[m] = "sent" /\ notice'[m] \notin Crediting
        /\ UNCHANGED <<pc, channel, posted>>
    BY <1>0, <1>5 DEF CheckPayment, Crediting, sidecarVars, envVars
  <2> QED BY <1>0, <1>a, <2>1, AnnouncedKept
<1>6. ASSUME NEW m \in Messages, Announce(m)
      PROVE  AnnouncedInv'
  <2>1. /\ \A n \in Messages : n # m => notice'[n] = notice[n]
        /\ notice[m] = "announce" /\ notice'[m] = "credited"
        /\ channel' = channel \cup {m} /\ UNCHANGED <<pc, posted>>
    BY <1>0, <1>6 DEF Announce, sidecarVars, envVars
  <2> QED BY <1>0, <1>a, <2>1, AnnouncedKept DEF Crediting
<1>7. ASSUME NEW m \in Messages, NoticeFails(m)
      PROVE  AnnouncedInv'
  <2>1. /\ \A n \in Messages : n # m => notice'[n] = notice[n]
        /\ notice[m] \in {"sent", "insert", "announce"}
        /\ notice'[m] = IF notice[m] = "announce" THEN "unconfirmed" ELSE "failed"
        /\ UNCHANGED <<pc, channel, posted>>
    BY <1>0, <1>7 DEF NoticeFails, sidecarVars
  <2> QED BY <1>0, <1>a, <2>1, AnnouncedKept DEF Crediting
<1>8. ASSUME NEW m \in Messages, DrainAnnouncement(m)
      PROVE  AnnouncedInv'
  <2>1. m \in channel /\ channel' = channel \ {m} /\ UNCHANGED pc
    BY <1>8 DEF DrainAnnouncement, sidecarVars
  <2>2. CASE posted' = posted \cup {m} /\ UNCHANGED notice
    BY <1>0, <1>a, <2>1, <2>2, AnnouncedKept
  <2>3. CASE UNCHANGED posted /\ notice' = [notice EXCEPT ![m] = "unconfirmed"]
    <3>1. /\ \A n \in Messages : notice'[n] = IF n = m THEN "unconfirmed" ELSE notice[n]
          /\ notice[m] = "credited" /\ m \notin posted
      BY <1>0, <1>a, <2>1, <2>3
    <3> QED BY <1>0, <1>a, <2>1, <2>3, <3>1, AnnouncedKept DEF Crediting
  <2> QED BY <1>8, <2>2, <2>3 DEF DrainAnnouncement
<1>9. CASE BotCrash
  <2>1. /\ \A n \in Messages : notice'[n] = IF notice[n] = "insert" THEN "failed"
                                           ELSE IF notice[n] = "announce" \/ n \in channel
                                                THEN "unconfirmed"
                                           ELSE notice[n]
        /\ channel' = {} /\ UNCHANGED <<pc, posted>>
    BY <1>0, <1>9 DEF BotCrash, sidecarVars
  <2> QED BY <1>0, <1>a, <2>1, AnnouncedKept DEF Crediting
\* The handler that credits.
<1>10. ASSUME NEW m \in Messages, InsertTopup(m)
       PROVE  AnnouncedInv'
  <2> DEFINE p == PaymentOf(m)
  <2>1. /\ \A n \in Messages : n # m => notice'[n] = notice[n]
        /\ notice[m] = "insert"
        /\ UNCHANGED <<pc, channel, posted>>
    BY <1>0, <1>10 DEF InsertTopup, sidecarVars, envVars
  <2>2. CASE notice'[m] = "conflict"
    BY <1>0, <1>a, <2>1, <2>2, AnnouncedKept DEF Crediting
  <2>3. CASE ~DuplicatePaymentId(events, p)
    <3>1. /\ notice'[m] = "announce"
          /\ events' = Append(events, BuildEvent("topup", row[p].room, row[p].amount, None, p, 0))
      BY <1>0, <1>10, <2>3 DEF InsertTopup, Topup
    <3>2. p \in Payments /\ p # None /\ ~Credited(p)
      BY <1>0, <2>1, <2>3, NoticeSettled, NameAssumption DEF DuplicatePaymentId, Credited
    <3>3. \E i \in DOMAIN events' : events'[i].type = "topup" /\ events'[i].payment = p
      <4> DEFINE e == BuildEvent("topup", row[p].room, row[p].amount, None, p, 0)
      <4>1. e.type = "topup" /\ e.payment = p
        BY DEF BuildEvent
      <4> HIDE DEF e, p
      <4>2. Len(events) + 1 \in DOMAIN events' /\ events'[Len(events) + 1] = e
        BY <1>0, <3>1 DEF TypeOK, e
      <4> QED BY <4>1, <4>2
    <3>4. \A n \in Messages : notice[n] # "none" => PaymentOf(n)' = PaymentOf(n)
      BY <1>0, PaymentStays
    <3>5. \A n \in Messages : notice[n] \in Crediting =>
            Credited(PaymentOf(n)) /\ PaymentOf(n) # p /\ PaymentOf(n)' = PaymentOf(n)
      BY <3>2, <3>4 DEF AnnouncedInv, Crediting
    <3>6. \A n \in Messages : notice'[n] \in Crediting => n = m \/ notice[n] \in Crediting
      BY <2>1
    <3>7. PaymentOf(m)' = p
      BY <2>1, <3>4
    <3>8. \A n \in Messages : notice'[n] \in Crediting => Credited(PaymentOf(n))'
      <4> SUFFICES ASSUME NEW n \in Messages, notice'[n] \in Crediting
                   PROVE  Credited(PaymentOf(n))'
        OBVIOUS
      <4>1. \A q : Credited(q) => \E i \in DOMAIN events' : events'[i].type = "topup" /\ events'[i].payment = q
        BY <1>0, CreditStays DEF Credited, TopupExistsByPaymentId
      <4> QED BY <3>3, <3>5, <3>6, <3>7, <4>1 DEF Credited, TopupExistsByPaymentId
    <3>9. \A n, o \in Messages :
            notice'[n] \in Crediting /\ notice'[o] \in Crediting /\ PaymentOf(n)' = PaymentOf(o)' => n = o
      BY <3>5, <3>6, <3>7 DEF AnnouncedInv
    <3>10. /\ channel' \cup posted' \subseteq {n \in Messages : notice'[n] = "credited"}
           /\ channel' \cap posted' = {}
           /\ \A s \in Submits : pc'[s] \in {"idle", "received", "verify", "settle"} => notice'[s] = "none"
      <4>1. m \notin channel \cup posted /\ m \in Messages
        BY <1>a, <2>1
      <4>2. \A n \in channel \cup posted : n \in Messages /\ n # m /\ notice'[n] = "credited"
        BY <1>a, <2>1, <4>1
      <4>3. \A s \in Submits : pc'[s] \in {"idle", "received", "verify", "settle"} =>
              s # m /\ notice'[s] = "none"
        BY <1>0, <1>a, <2>1
      <4> QED BY <1>a, <2>1, <4>2, <4>3
    <3> QED BY <3>8, <3>9, <3>10 DEF AnnouncedInv
  <2>4. DuplicatePaymentId(events, p) => notice'[m] = "conflict"
    BY <1>0, <1>10 DEF InsertTopup
  <2> QED BY <2>2, <2>3, <2>4
<1>11. CASE \/ \E p \in Payments, r \in Rooms, u \in Users, a \in Amounts : CreatePaymentRequest(p, r, u, a)
            \/ \E p \in Payments : Expire(p)
            \/ \E s \in Submits, p \in Payments, b \in Buyers, r \in Rooms, u \in Users :
                 SubmitEvent(s, p, b, r, u) \/ ClientSubmits(s, p, b, r, u)
            \/ \E s \in Submits : FacilitatorSettles(s) \/ FacilitatorRefuses(s)
            \/ SidecarCrash \/ UNCHANGED vars
  BY <1>1, <1>11 DEF CreatePaymentRequest, Expire, SubmitEvent, ClientSubmits, FacilitatorSettles,
     FacilitatorRefuses, SidecarCrash, vars, sidecarVars, hookVars, envVars
<1>12. ASSUME NEW s \in Submits, BotStep(s) \/ ReceiveSubmit(s) \/ VerifyAnswers(s) \/ SettleFails(s) \/ NotifyReturns(s)
       PROVE  AnnouncedInv'
  BY <1>1, <1>12 DEF BotStep, StatusAnswers, SubmitAnswers, SidecarCallFails, ReceiveSubmit,
     VerifyAnswers, SettleFails, NotifyReturns, hookVars, envVars
<1> QED BY <1>3, <1>4, <1>5, <1>6, <1>7, <1>8, <1>9, <1>10, <1>11, <1>12
       DEF Next, SidecarStep, HookStep

-----------------------------------------------------------------------------
(* The pipeline's view of the three processes.                             *)

PTerms     == [p \in Payments |-> TermsOf(p)]
PPaid      == {p \in Payments : Transfers(p) # {}}
PBooked    == {p \in Payments : row[p].status = "settled"}
PCredit    == [p \in Payments |-> CreditOf(p)]
PConfirmed == [p \in Payments |-> Cardinality({m \in posted : PaymentOf(m) = p})]

PipelineInv == PaymentInv /\ AnnouncedInv

LEMMA PipelineInvariant == Spec => []PipelineInv
<1>1. Init => PipelineInv
  BY LinkedInit, AnnouncedInit DEF PipelineInv
<1>2. PipelineInv /\ [Next]_vars => PipelineInv'
  BY TypeStep, LinkedStep, WaitingStep, CreditStep, AnnouncedStep DEF PipelineInv, PaymentInv
<1> QED BY <1>1, <1>2, PTL DEF Spec

LEMMA TermsAreKnown ==
  ASSUME TypeOK, NEW p \in Payments
  PROVE  /\ TermsOf(p) # None <=> Known(p)
         /\ Known(p) => TermsOf(p) \in [room : Rooms, amount : Amounts]
<1>1. CASE Known(p)
  <2>1. row[p].room \in Rooms /\ row[p].amount \in Amounts
    BY <1>1, IssuedRow DEF Issued
  <2>2. TermsOf(p) = [room |-> row[p].room, amount |-> row[p].amount]
    BY <1>1 DEF TermsOf, Known
  <2> QED BY <1>1, <2>1, <2>2, TermsAssumption
<1>2. CASE ~Known(p)
  BY <1>2 DEF TermsOf, Known
<1> QED BY <1>1, <1>2

\* A credit is for the terms of its payment.
LEMMA CreditIsTerms ==
  PaymentInv => \A p \in Payments : CreditOf(p) = IF Credited(p) THEN TermsOf(p) ELSE None
<1> SUFFICES ASSUME PaymentInv, NEW p \in Payments
             PROVE  CreditOf(p) = IF Credited(p) THEN TermsOf(p) ELSE None
  OBVIOUS
<1>1. CASE ~Credited(p)
  BY <1>1 DEF CreditOf
<1>2. CASE Credited(p)
  <2> DEFINE i == CHOOSE j \in DOMAIN events : events[j].payment = p
  <2>1. i \in DOMAIN events /\ events[i].payment = p
    BY <1>2 DEF Credited, TopupExistsByPaymentId
  <2>2. CreditOf(p) = [room |-> events[i].room, amount |-> events[i].amount]
    BY <1>2 DEF CreditOf
  <2> HIDE DEF i
  <2>3. /\ row[p].status = "settled"
        /\ events[i].room = row[p].room /\ events[i].amount = row[p].amount
    BY <2>1 DEF PaymentInv, CreditIsBacked
  <2>4. TermsOf(p) = [room |-> row[p].room, amount |-> row[p].amount]
    BY <2>3 DEF TermsOf, NoRow
  <2> QED BY <1>2, <2>2, <2>3, <2>4
<1> QED BY <1>1, <1>2

LEMMA CreditIsTermsNext ==
  PaymentInv' => \A p \in Payments : CreditOf(p)' = IF Credited(p)' THEN TermsOf(p)' ELSE None
<1>1. PaymentInv' => (\A p \in Payments : CreditOf(p) = IF Credited(p) THEN TermsOf(p) ELSE None)'
  BY CreditIsTerms, PTL
<1> QED BY <1>1

LEMMA CreditedIsSettled ==
  ASSUME PaymentInv, NEW p \in Payments, Credited(p)
  PROVE  Settled(p) /\ Known(p)
BY DEF PaymentInv, CreditIsBacked, Credited, TopupExistsByPaymentId, Settled, Known, NoRow

-----------------------------------------------------------------------------
(* What leaves each part of the view alone.                                *)

\* Rows.
LEMMA RowsKept ==
  ASSUME UNCHANGED row
  PROVE  UNCHANGED <<PTerms, PBooked>>
BY DEF PTerms, PBooked, TermsOf

\* Transfers.
LEMMA PaidKept ==
  ASSUME TypeOK, Linked, [Next]_vars,
         \A s \in Submits : transfer'[s] = "settled" => transfer[s] = "settled"
  PROVE  UNCHANGED PPaid
<1>1. \A s \in Submits : transfer[s] = "settled" <=> transfer'[s] = "settled"
  BY Monotone DEF Grows
<1>2. \A s \in Submits : transfer[s] = "settled" => submit'[s] = submit[s]
  BY Monotone DEF Grows, Linked, UnsentIsIdle
<1>3. \A p \in Payments : Transfers(p)' = Transfers(p)
  BY <1>1, <1>2 DEF Transfers
<1> QED BY <1>3 DEF PPaid

\* Credits.
LEMMA CreditsKept ==
  ASSUME PaymentInv, PaymentInv', [Next]_vars, UNCHANGED events
  PROVE  UNCHANGED PCredit
<1>1. \A p : Credited(p)' <=> Credited(p)
  BY DEF Credited, TopupExistsByPaymentId
<1>2. \A p \in Payments : Known(p) => TermsOf(p)' = TermsOf(p)
  BY Monotone DEF PaymentInv, Grows, KeepsRow, TermsOf, Known
<1>3. \A p \in Payments : CreditOf(p)' = CreditOf(p)
  BY <1>1, <1>2, CreditIsTerms, CreditIsTermsNext, CreditedIsSettled
<1> QED BY <1>3 DEF PCredit

\* Confirmations.
LEMMA ConfirmedKept ==
  ASSUME PaymentInv, AnnouncedInv, [Next]_vars, UNCHANGED posted
  PROVE  UNCHANGED PConfirmed
<1>1. \A m \in posted : PaymentOf(m)' = PaymentOf(m)
  <2>1. \A m \in posted : m \in Messages /\ notice[m] # "none"
    BY DEF AnnouncedInv
  <2> QED BY <2>1, PaymentStays DEF PaymentInv
<1>2. \A p \in Payments : {m \in posted' : PaymentOf(m)' = p} = {m \in posted : PaymentOf(m) = p}
  BY <1>1
<1>3. \A p \in Payments :
        Cardinality({m \in posted' : PaymentOf(m)' = p}) = Cardinality({m \in posted : PaymentOf(m) = p})
  BY <1>2
<1> QED BY <1>3 DEF PConfirmed

-----------------------------------------------------------------------------
(* Each kind of step.                                                      *)

LEMMA IssueStep ==
  ASSUME PipelineInv, PipelineInv', [Next]_vars,
         NEW p \in Payments, NEW r \in Rooms, NEW u \in Users, NEW a \in Amounts,
         CreatePaymentRequest(p, r, u, a)
  PROVE  Pipeline!Issue(p)
<1>1. TypeOK /\ ~Known(p) /\ UNCHANGED <<transfer, events, posted>>
  BY DEF PipelineInv, PaymentInv, TypeOK, CreatePaymentRequest, Known, hookVars, envVars
<1>2. UNCHANGED PPaid /\ UNCHANGED PCredit /\ UNCHANGED PConfirmed
  BY <1>1, PaidKept, CreditsKept, ConfirmedKept DEF PipelineInv, PaymentInv
<1> DEFINE issued == [status |-> "pending", room |-> r, user |-> u, amount |-> a, tx |-> None]
<1>3. row' = [row EXCEPT ![p] = issued] /\ row \in [Payments -> Issued \cup {NoRow}]
  BY <1>1 DEF CreatePaymentRequest, TypeOK
<1>4. issued # NoRow /\ issued.room = r /\ issued.amount = a /\ issued.status = "pending"
  BY DEF NoRow
<1> HIDE DEF issued
<1>5. TermsOf(p)' = [room |-> r, amount |-> a] /\ \A q \in Payments : q # p => TermsOf(q)' = TermsOf(q)
  BY <1>3, <1>4 DEF TermsOf
<1>6. PTerms' = [PTerms EXCEPT ![p] = [room |-> r, amount |-> a]]
  BY <1>5 DEF PTerms
<1>7. UNCHANGED PBooked
  BY <1>1, <1>3, <1>4 DEF PBooked, Known, NoRow
<1>8. PTerms[p] = None
  BY <1>1, TermsAreKnown DEF PTerms
<1>9. [room |-> r, amount |-> a] \in [room : Rooms, amount : Amounts]
  OBVIOUS
<1> QED BY <1>2, <1>6, <1>7, <1>8, <1>9
       DEF Pipeline!Issue, PTerms, PPaid, PBooked, PCredit, PConfirmed

LEMMA PayStep ==
  ASSUME PipelineInv, PipelineInv', [Next]_vars, NEW s \in Submits, FacilitatorSettles(s)
  PROVE  Pipeline!Pay(submit[s].payment) /\ submit[s].payment \in Payments
<1> DEFINE p == submit[s].payment
<1>1. TypeOK /\ Linked /\ transfer[s] = "queued" /\ submit[s] # NoSubmit
  BY DEF PipelineInv, PaymentInv, FacilitatorSettles, Linked, UnsentIsIdle
<1>2. p \in Payments /\ Known(p)
  BY <1>1 DEF TypeOK, Permits, Linked, WorkIsKnown
<1>3. UNCHANGED <<row, submit, events, posted>> /\ transfer' = [transfer EXCEPT ![s] = "settled"]
  BY DEF FacilitatorSettles, sidecarVars, hookVars, envVars
<1>4. UNCHANGED PTerms /\ UNCHANGED PBooked /\ UNCHANGED PCredit /\ UNCHANGED PConfirmed
  BY <1>3, RowsKept, CreditsKept, ConfirmedKept DEF PipelineInv
<1>5. PPaid' = PPaid \cup {p}
  <2>1. \A t \in Submits : transfer'[t] = IF t = s THEN "settled" ELSE transfer[t]
    BY <1>1, <1>3 DEF TypeOK
  <2>2. \A q \in Payments : q = p => Transfers(q)' # {}
    BY <1>3, <2>1 DEF Transfers
  <2>3. \A q \in Payments : q # p => Transfers(q)' = Transfers(q)
    BY <1>1, <1>3, <2>1 DEF Transfers
  <2>4. \A q \in Payments : q \in PPaid' <=> q = p \/ q \in PPaid
    BY <2>2, <2>3 DEF PPaid
  <2>5. PPaid \subseteq Payments /\ PPaid' \subseteq Payments
    BY DEF PPaid
  <2> QED BY <1>2, <2>4, <2>5
<1>6. PTerms[p] # None
  BY <1>1, <1>2, TermsAreKnown DEF PTerms
<1> QED BY <1>2, <1>4, <1>5, <1>6 DEF Pipeline!Pay, PTerms, PPaid, PBooked, PCredit, PConfirmed

\* By the answer of the facilitator or a push.
LEMMA BookStep ==
  ASSUME PipelineInv, PipelineInv', [Next]_vars,
         NEW p \in Payments, Known(p), NEW s \in Transfers(p), MarkSettled(p, s),
         UNCHANGED <<transfer, events, posted>>
  PROVE  Pipeline!Book(p)
<1>1. TypeOK /\ Linked /\ s \in Submits
  BY DEF PipelineInv, PaymentInv, Transfers
<1>2. UNCHANGED PPaid /\ UNCHANGED PCredit /\ UNCHANGED PConfirmed
  BY PaidKept, CreditsKept, ConfirmedKept DEF PipelineInv, PaymentInv
<1>3. /\ \A q \in Payments : KeepsRow(q)
      /\ \A q \in Payments : row'[q].status = "settled" => Settled(q) \/ q = p
      /\ row'[p].status = "settled"
  BY <1>1, MarkSettledKeeps
<1>4. PBooked' = PBooked \cup {p}
  BY <1>3 DEF PBooked, KeepsRow, Settled, Known, NoRow
<1>5. UNCHANGED PTerms
  <2>1. \A q \in Payments : q # p => row'[q] = row[q]
    BY <1>1 DEF MarkSettled, TypeOK
  <2>2. \A q \in Payments : TermsOf(q)' = TermsOf(q)
    BY <1>3, <2>1 DEF TermsOf, KeepsRow, Known
  <2> QED BY <2>2 DEF PTerms
<1>6. p \in PPaid
  BY DEF PPaid
<1> QED BY <1>2, <1>4, <1>5, <1>6 DEF Pipeline!Book, PTerms, PPaid, PBooked, PCredit, PConfirmed

LEMMA InsertStep ==
  ASSUME PipelineInv, PipelineInv', [Next]_vars, NEW m \in Messages, Inserts(m),
         UNCHANGED <<transfer, posted>>
  PROVE  Pipeline!Credit(PaymentOf(m)) /\ PaymentOf(m) \in Payments
<1> DEFINE p == PaymentOf(m)
           e == BuildEvent("topup", row[p].room, row[p].amount, None, p, 0)
<1>1. TypeOK /\ Linked /\ PaymentInv /\ p \in Payments /\ Settled(p)
  BY NoticeSettled DEF PipelineInv, PaymentInv, Inserts
<1>2. UNCHANGED row /\ events' = Append(events, e) /\ ~Credited(p)
  BY <1>1, NameAssumption DEF Inserts, DuplicatePaymentId, Credited
<1>3. UNCHANGED PTerms /\ UNCHANGED PBooked /\ UNCHANGED PPaid /\ UNCHANGED PConfirmed
  BY <1>1, <1>2, RowsKept, PaidKept, ConfirmedKept DEF PipelineInv
<1>4. e.type = "topup" /\ e.payment = p
  BY DEF BuildEvent
<1> HIDE DEF e
<1>5. \A q \in Payments : Credited(q)' <=> q = p \/ Credited(q)
  <2>1. /\ DOMAIN events' = DOMAIN events \cup {Len(events) + 1}
        /\ \A i \in DOMAIN events : events'[i] = events[i]
        /\ events'[Len(events) + 1] = e
        /\ Len(events) + 1 \notin DOMAIN events
    BY <1>1, <1>2 DEF TypeOK
  <2>2. ASSUME NEW q
        PROVE  (\E i \in DOMAIN events' : events'[i].type = "topup" /\ events'[i].payment = q)
                 <=> q = p \/ Credited(q)
    BY <1>4, <2>1 DEF Credited, TopupExistsByPaymentId
  <2> QED BY <2>2 DEF Credited, TopupExistsByPaymentId
<1>6. \A q \in Payments : TermsOf(q)' = TermsOf(q)
  BY <1>2 DEF TermsOf
<1>7. \A q \in Payments : CreditOf(q)' = IF q = p THEN TermsOf(p) ELSE CreditOf(q)
  BY <1>1, <1>5, <1>6, CreditIsTerms, CreditIsTermsNext DEF PipelineInv
<1>8. PCredit' = [PCredit EXCEPT ![p] = PTerms[p]]
  BY <1>1, <1>7 DEF PCredit, PTerms
<1>9. PCredit[p] = None /\ p \in PBooked
  BY <1>1, <1>2, CreditIsTerms DEF PCredit, PBooked, Settled
<1> QED BY <1>1, <1>3, <1>8, <1>9
       DEF Pipeline!Credit, PTerms, PPaid, PBooked, PCredit, PConfirmed

LEMMA ConfirmStep ==
  ASSUME PipelineInv, PipelineInv', [Next]_vars, NEW m \in Messages, DrainAnnouncement(m),
         posted' = posted \cup {m}
  PROVE  Pipeline!Confirm(PaymentOf(m)) /\ PaymentOf(m) \in Payments
<1> DEFINE p == PaymentOf(m)
<1>1. /\ TypeOK /\ Linked /\ m \in channel /\ m \notin posted
      /\ \A n \in posted \cup {m} : n \in Messages /\ notice[n] = "credited"
      /\ \A n \in posted : PaymentOf(n) # p
      /\ Credited(p)
  BY DEF PipelineInv, PaymentInv, AnnouncedInv, DrainAnnouncement, Crediting
<1>2. p \in Payments /\ Settled(p)
  BY <1>1, NoticeSettled
<1>3. /\ UNCHANGED <<row, submit, push, transfer, events>>
      /\ posted' = posted \cup {m}
  BY DEF DrainAnnouncement, sidecarVars
<1>4. UNCHANGED PTerms /\ UNCHANGED PBooked /\ UNCHANGED PPaid /\ UNCHANGED PCredit
  BY <1>1, <1>3, RowsKept, PaidKept, CreditsKept DEF PipelineInv
<1>5. \A n : PaymentOf(n)' = PaymentOf(n)
  BY <1>3 DEF PaymentOf
<1>6. {n \in posted : PaymentOf(n) = p} = {} /\ {n \in posted' : PaymentOf(n)' = p} = {m}
  BY <1>1, <1>3, <1>5
<1>7. /\ Cardinality({n \in posted : PaymentOf(n) = p}) = 0
      /\ Cardinality({n \in posted' : PaymentOf(n)' = p}) = 1
  <2>1. Cardinality({}) = 0 /\ Cardinality({m}) = 1
    BY FS_EmptySet, FS_Singleton
  <2> QED BY <1>6, <2>1
<1>8. \A q \in Payments : q # p =>
        {n \in posted' : PaymentOf(n)' = q} = {n \in posted : PaymentOf(n) = q}
  BY <1>3, <1>5
<1>9. PConfirmed' = [PConfirmed EXCEPT ![p] = 1]
  BY <1>2, <1>7, <1>8 DEF PConfirmed
<1>10. PConfirmed[p] = 0
  BY <1>2, <1>7 DEF PConfirmed
<1>11. PCredit[p] # None
  <2>1. CreditOf(p) = TermsOf(p) /\ Known(p)
    BY <1>1, <1>2, CreditIsTerms DEF PipelineInv, Settled, Known, NoRow
  <2> QED BY <1>1, <1>2, <2>1, TermsAreKnown DEF PCredit
<1> QED BY <1>2, <1>4, <1>9, <1>10, <1>11
       DEF Pipeline!Confirm, PTerms, PPaid, PBooked, PCredit, PConfirmed

\* All others.
LEMMA StillStep ==
  ASSUME PipelineInv, PipelineInv', [Next]_vars, UNCHANGED <<row, events, posted>>,
         \A s \in Submits : transfer'[s] = "settled" => transfer[s] = "settled"
  PROVE  UNCHANGED Pipeline!pvars
<1>1. UNCHANGED PTerms /\ UNCHANGED PBooked /\ UNCHANGED PPaid /\ UNCHANGED PCredit /\ UNCHANGED PConfirmed
  BY RowsKept, PaidKept, CreditsKept, ConfirmedKept DEF PipelineInv, PaymentInv
<1> QED BY <1>1 DEF Pipeline!pvars, PTerms, PPaid, PBooked, PCredit, PConfirmed

LEMMA PipelineStep ==
  PipelineInv /\ PipelineInv' /\ [Next]_vars => [Pipeline!Next]_(Pipeline!pvars)
<1> SUFFICES ASSUME PipelineInv, PipelineInv', [Next]_vars
             PROVE  [Pipeline!Next]_(Pipeline!pvars)
  OBVIOUS
<1>1. ASSUME NEW p \in Payments, NEW r \in Rooms, NEW u \in Users, NEW a \in Amounts,
             CreatePaymentRequest(p, r, u, a)
      PROVE  Pipeline!Next
  BY <1>1, IssueStep DEF Pipeline!Next
<1>2. ASSUME NEW s \in Submits, FacilitatorSettles(s)
      PROVE  Pipeline!Next
  BY <1>2, PayStep DEF Pipeline!Next
<1>3. ASSUME NEW s \in Submits, SettleAnswers(s)
      PROVE  [Pipeline!Next]_(Pipeline!pvars)
  <2>1. CASE transfer[s] = "settled"
    <3>1. /\ submit[s].payment \in Payments /\ Known(submit[s].payment)
          /\ s \in Transfers(submit[s].payment)
      BY <1>3, <2>1 DEF SettleAnswers, PipelineInv, PaymentInv, Linked, UnsentIsIdle, WorkIsKnown,
         TypeOK, Permits, Transfers
    <3>2. MarkSettled(submit[s].payment, s) /\ UNCHANGED <<transfer, events, posted>>
      BY <1>3, <2>1 DEF SettleAnswers, envVars
    <3> QED BY <3>1, <3>2, BookStep DEF Pipeline!Next
  <2>2. CASE transfer[s] # "settled"
    <3>1. UNCHANGED <<row, transfer, events, posted>>
      BY <1>3, <2>2 DEF SettleAnswers, envVars
    <3> QED BY <3>1, StillStep
  <2> QED BY <2>1, <2>2
<1>4. ASSUME NEW w \in Webhooks, NEW p \in Payments, SettlementWebhook(w, p)
      PROVE  Pipeline!Next
  <2>1. PICK s \in Transfers(p) : MarkSettled(p, s)
    BY <1>4 DEF SettlementWebhook
  <2>2. Known(p) /\ UNCHANGED <<transfer, events, posted>>
    BY <1>4 DEF SettlementWebhook, Known, envVars
  <2> QED BY <2>1, <2>2, BookStep DEF Pipeline!Next
<1>5. ASSUME NEW m \in Messages, InsertTopup(m)
      PROVE  [Pipeline!Next]_(Pipeline!pvars)
  <2>1. UNCHANGED <<row, transfer, posted>>
    BY <1>5 DEF InsertTopup, sidecarVars, envVars
  <2>2. CASE DuplicatePaymentId(events, PaymentOf(m))
    <3>1. UNCHANGED events
      BY <1>5, <2>2 DEF InsertTopup
    <3> QED BY <2>1, <3>1, StillStep
  <2>3. CASE ~DuplicatePaymentId(events, PaymentOf(m))
    <3>1. Inserts(m)
      BY <1>5, <2>1, <2>3 DEF InsertTopup, Inserts, Topup
    <3> QED BY <2>1, <3>1, InsertStep DEF Pipeline!Next
  <2> QED BY <2>2, <2>3
<1>6. ASSUME NEW m \in Messages, DrainAnnouncement(m)
      PROVE  [Pipeline!Next]_(Pipeline!pvars)
  <2>1. CASE posted' = posted \cup {m}
    BY <1>6, <2>1, ConfirmStep DEF Pipeline!Next
  <2>2. CASE UNCHANGED posted
    <3>1. UNCHANGED <<row, transfer, events>>
      BY <1>6 DEF DrainAnnouncement, sidecarVars
    <3> QED BY <2>2, <3>1, StillStep
  <2> QED BY <1>6, <2>1, <2>2 DEF DrainAnnouncement
<1>7. ASSUME NEW s \in Submits, VerifyAnswers(s)
      PROVE  [Pipeline!Next]_(Pipeline!pvars)
  <2>1. transfer' = transfer \/ transfer' = [transfer EXCEPT ![s] = "queued"]
    BY <1>7 DEF VerifyAnswers
  <2>2. \A t \in Submits : transfer'[t] = "settled" => transfer[t] = "settled"
    BY <2>1 DEF PipelineInv, PaymentInv, TypeOK
  <2>3. UNCHANGED <<row, events, posted>>
    BY <1>7 DEF VerifyAnswers, hookVars, envVars
  <2> QED BY <2>2, <2>3, StillStep
<1>8. ASSUME NEW s \in Submits, FacilitatorRefuses(s)
      PROVE  [Pipeline!Next]_(Pipeline!pvars)
  <2>1. UNCHANGED <<row, events, posted>> /\ transfer' = [transfer EXCEPT ![s] = "refused"]
    BY <1>8 DEF FacilitatorRefuses, sidecarVars, hookVars, envVars
  <2>2. \A t \in Submits : transfer'[t] = "settled" => transfer[t] = "settled"
    BY <2>1 DEF PipelineInv, PaymentInv, TypeOK
  <2> QED BY <2>1, <2>2, StillStep
<1>9. ASSUME NEW s \in Submits, BotStep(s) \/ ReceiveSubmit(s) \/ SettleFails(s) \/ NotifyReturns(s)
      PROVE  [Pipeline!Next]_(Pipeline!pvars)
  <2>1. UNCHANGED <<row, transfer, events, posted>>
    BY <1>9 DEF BotStep, StatusAnswers, SubmitAnswers, SidecarCallFails, ReceiveSubmit, SettleFails,
       NotifyReturns, sidecarVars, hookVars, envVars
  <2> QED BY <2>1, StillStep
<1>10. ASSUME NEW m \in Messages, CheckPayment(m) \/ Announce(m) \/ NoticeFails(m)
       PROVE  [Pipeline!Next]_(Pipeline!pvars)
  <2>1. UNCHANGED <<row, transfer, events, posted>>
    BY <1>10 DEF CheckPayment, Announce, NoticeFails, sidecarVars, envVars
  <2> QED BY <2>1, StillStep
<1>11. CASE \/ \E p \in Payments : Expire(p)
            \/ \E s \in Submits, p \in Payments, b \in Buyers, r \in Rooms, u \in Users :
                 SubmitEvent(s, p, b, r, u) \/ ClientSubmits(s, p, b, r, u)
            \/ SidecarCrash \/ BotCrash \/ UNCHANGED vars
  <2>1. UNCHANGED <<row, transfer, events, posted>>
    BY <1>11 DEF Expire, SubmitEvent, ClientSubmits, SidecarCrash, BotCrash, vars, sidecarVars,
       hookVars, envVars
  <2> QED BY <2>1, StillStep
<1> QED BY <1>1, <1>2, <1>3, <1>4, <1>5, <1>6, <1>7, <1>8, <1>9, <1>10, <1>11
       DEF Next, SidecarStep, HookStep

-----------------------------------------------------------------------------
(* Theorems.                                                               *)

LEMMA PaymentInvariant == Spec => []PaymentInv
<1>1. Init => PaymentInv
  BY LinkedInit
<1>2. PaymentInv /\ [Next]_vars => PaymentInv'
  BY TypeStep, LinkedStep, WaitingStep, CreditStep DEF PaymentInv
<1> QED BY <1>1, <1>2, PTL DEF Spec

\* The records of the three processes always have their types; in particular
\* an issued payment never loses a field to a refusal, a settlement or a kill.
THEOREM PaymentTypes == Spec => []TypeOK
<1>1. PaymentInv => TypeOK
  BY DEF PaymentInv
<1> QED BY <1>1, PaymentInvariant, PTL

\* "A payment_id is credited at most once" (src/x402/webhook.rs), for any
\* number of notices, wallets, racing handlers, lost calls and kills.
THEOREM CreditedOnce == Spec => []CreditedAtMostOnce
<1>1. PaymentInv => CreditedAtMostOnce
  BY DEF PaymentInv
<1> QED BY <1>1, PaymentInvariant, PTL

\* Whatever the bot credits was transferred on-chain and is booked as settled,
\* and goes to the room and has the amount the payment was issued for.
THEOREM CreditsAreBacked == Spec => []CreditIsBacked
<1>1. PaymentInv => CreditIsBacked
  BY DEF PaymentInv
<1> QED BY <1>1, PaymentInvariant, PTL

\* The sidecar answers 200, and the bot stays silent, only for a payment that
\* was transferred and is booked as settled.
THEOREM AcceptsOnlySettled == Spec => []AcceptedIsSettled
<1>1. ASSUME Linked, TypeOK
      PROVE  AcceptedIsSettled
  BY <1>1 DEF Linked, ClaimsAreTrue, BooksAreBacked, AcceptedIsSettled, Settled, TypeOK, Permits
<1>2. PaymentInv => AcceptedIsSettled
  BY <1>1 DEF PaymentInv
<1> QED BY <1>2, PaymentInvariant, PTL

\* A settled record is never changed again, by a second wallet's settlement,
\* the legacy push path or a late refusal.
THEOREM SettledForGood == Spec => SettledRowIsFinal
<1>1. PaymentInv /\ [Next]_vars =>
        [\A p \in Payments : row[p].status = "settled" => row'[p] = row[p]]_vars
  BY Monotone DEF PaymentInv, Grows, KeepsRow, Known, Settled, NoRow
<1> QED BY <1>1, PaymentInvariant, PTL DEF Spec, SettledRowIsFinal

\* The bot, the sidecar and the facilitator implement the pipeline: each
\* payment is issued, paid, booked, credited with its own terms and confirmed,
\* in this order and each at most once, however calls are lost or repeated and
\* whoever is killed.
THEOREM PaymentsImplementPipeline == Spec => PipelineSpec
<1>1. Init => Pipeline!Init
  <2> SUFFICES ASSUME Init
               PROVE  Pipeline!Init
    OBVIOUS
  <2>1. \A p \in Payments : TermsOf(p) = None /\ ~Credited(p) /\ row[p].status # "settled"
    BY DEF Init, TermsOf, Credited, TopupExistsByPaymentId, NoRow
  <2>2. \A p \in Payments : CreditOf(p) = None /\ Transfers(p) = {}
    BY <2>1 DEF Init, CreditOf, Transfers
  <2>3. \A p \in Payments : {m \in posted : PaymentOf(m) = p} = {}
    BY DEF Init
  <2>4. \A p \in Payments : Cardinality({m \in posted : PaymentOf(m) = p}) = 0
    BY <2>3, FS_EmptySet
  <2> QED BY <2>1, <2>2, <2>4 DEF Pipeline!Init
<1> QED BY <1>1, PipelineInvariant, PipelineStep, PTL DEF Spec, PipelineSpec, Pipeline!Spec
=============================================================================
