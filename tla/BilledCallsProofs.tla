------------------------- MODULE BilledCallsProofs -------------------------
(***************************************************************************)
(* Proofs about BilledCalls, for any number of calls, rooms and payments   *)
(* and any amounts.                                                        *)
(*                                                                         *)
(* The ledger invariants follow from one fact about steps (LedgerStep):    *)
(* a step leaves the table alone, drops a suffix of it, or appends one row *)
(* that was admissible when it was written.  The invariants about calls    *)
(* are inductive together with NoRowsBeforeHold: a call owns no row until  *)
(* its reserve is written.                                                 *)
(*                                                                         *)
(* Sums: the induction theorems of the library take a predicate as a       *)
(* parameter, so SetInduction states the principle for a set of numbers,   *)
(* and is used with the set of the numbers a fact about SumUpTo holds for. *)
(* BalanceConservation holds of every prefix of a table whose rows were    *)
(* admissible, by induction over the rows.  OverdraftInv and CapInv weigh  *)
(* a balance, or what a period has spent, against the handlers that have   *)
(* passed the check it was read for.  The refinement of RoomAccounts has   *)
(* one lemma for the row a step writes (RowIsAccountStep).                 *)
(***************************************************************************)
EXTENDS BilledCalls, SequenceTheorems, FiniteSetTheorems, WellFoundedInduction, TLAPS

-----------------------------------------------------------------------------
(* Tables: what an insert and the loss of an unsynced suffix do to one.    *)

\* Appending a row keeps the type of a ledger, its length grows by one and the
\* rows it had stay where they were.
LEMMA AppendRow ==
  ASSUME NEW S, NEW L \in Seq(S), NEW row \in S
  PROVE  /\ Append(L, row) \in Seq(S)
         /\ Len(Append(L, row)) = Len(L) + 1
         /\ DOMAIN Append(L, row) = 1..(Len(L) + 1)
         /\ DOMAIN L = 1..Len(L)
         /\ Len(L) \in Nat
         /\ \A i \in 1..Len(L) : Append(L, row)[i] = L[i]
         /\ Append(L, row)[Len(L) + 1] = row
  OBVIOUS

\* Cutting a ledger after its k-th row keeps the first k rows.
LEMMA CutRows ==
  ASSUME NEW S, NEW L \in Seq(S), NEW k \in 0..Len(L)
  PROVE  /\ SubSeq(L, 1, k) \in Seq(S)
         /\ Len(SubSeq(L, 1, k)) = k
         /\ DOMAIN SubSeq(L, 1, k) = 1..k
         /\ \A i \in 1..k : SubSeq(L, 1, k)[i] = L[i]
  BY SubSeqProperties

-----------------------------------------------------------------------------
(* Induction.                                                              *)

\* Every set of numbers that is not empty has a least member.
LEMMA LeastNumber ==
  ASSUME NEW T, T \subseteq Nat, T # {}
  PROVE  \E m \in T : \A n \in T : m <= n
<1> DEFINE R == OpToRel(<, Nat)
<1>1. IsWellFoundedOn(R, Nat)
  BY NatLessThanWellFounded
<1>2. PICK m \in T : \A n \in T : <<n, m>> \notin R
  BY <1>1, WFMin, Zenon
<1>3. \A n \in T : ~(n < m)
  BY <1>2 DEF OpToRel
<1> QED BY <1>3

\* A set of numbers that has 0, and with every number the next, has them all.
LEMMA SetInduction ==
  ASSUME NEW S, 0 \in S, \A n \in Nat : n \in S => n + 1 \in S
  PROVE  \A n \in Nat : n \in S
<1> SUFFICES ASSUME Nat \ S # {} PROVE FALSE
  OBVIOUS
<1>1. PICK m \in Nat \ S : \A n \in Nat \ S : m <= n
  BY LeastNumber
<1>2. m - 1 \in Nat /\ m - 1 \in S
  BY <1>1
<1> QED BY <1>1, <1>2

-----------------------------------------------------------------------------
(* Sums.                                                                   *)

\* The recursive function of SumUpTo.
IsSum(s, t, n) == s = [i \in 0..n |-> IF i = 0 THEN 0 ELSE s[i - 1] + t[i]]

LEMMA SumExists ==
  ASSUME NEW t
  PROVE  \A n \in Nat : \E s : IsSum(s, t, n)
<1> DEFINE S == {n \in Nat : \E s : IsSum(s, t, n)}
<1>1. 0 \in S
  <2>1. IsSum([i \in 0..0 |-> 0], t, 0)
    BY DEF IsSum
  <2> QED BY <2>1
<1>2. ASSUME NEW n \in Nat, n \in S
      PROVE  n + 1 \in S
  <2>1. PICK s : IsSum(s, t, n)
    BY <1>2
  <2> DEFINE u == [i \in 0..(n + 1) |-> IF i = n + 1 THEN s[n] + t[n + 1] ELSE s[i]]
  <2>2. \A i \in 0..(n + 1) : u[i] = IF i = 0 THEN 0 ELSE u[i - 1] + t[i]
    BY <2>1 DEF IsSum
  <2>3. IsSum(u, t, n + 1)
    BY <2>2 DEF IsSum
  <2> QED BY <2>3
<1> HIDE DEF S
<1>3. \A n \in Nat : n \in S
  BY <1>1, <1>2, SetInduction
<1> QED BY <1>3 DEF S

\* Two sums agree wherever their terms do.
LEMMA SumUnique ==
  ASSUME NEW t, NEW u, NEW m \in Nat, NEW n \in Nat, NEW r, NEW s,
         IsSum(r, t, m), IsSum(s, u, n),
         NEW k \in Nat, k <= m, k <= n, \A i \in 1..k : t[i] = u[i]
  PROVE  r[k] = s[k]
<1> DEFINE S == {j \in Nat : j <= k => r[j] = s[j]}
<1>1. 0 \in S
  BY DEF IsSum
<1>2. ASSUME NEW j \in Nat, j \in S
      PROVE  j + 1 \in S
  <2> SUFFICES ASSUME j + 1 <= k PROVE r[j + 1] = s[j + 1]
    OBVIOUS
  <2>1. r[j] = s[j] /\ t[j + 1] = u[j + 1]
    BY <1>2
  <2>2. r[j + 1] = r[j] + t[j + 1] /\ s[j + 1] = s[j] + u[j + 1]
    BY DEF IsSum
  <2> QED BY <2>1, <2>2
<1> HIDE DEF S
<1>3. \A j \in Nat : j \in S
  BY <1>1, <1>2, SetInduction
<1> QED BY <1>3 DEF S

LEMMA SumDefined ==
  ASSUME NEW t, NEW n \in Nat
  PROVE  \E s : IsSum(s, t, n) /\ SumUpTo(t, n) = s[n]
<1> DEFINE sum == CHOOSE s : s = [i \in 0..n |-> IF i = 0 THEN 0 ELSE s[i - 1] + t[i]]
<1>1. IsSum(sum, t, n)
  BY SumExists DEF IsSum
<1>2. SumUpTo(t, n) = sum[n]
  BY DEF SumUpTo
<1> QED BY <1>1, <1>2

\* The sum of no terms is 0.
LEMMA SumEmpty == \A t : SumUpTo(t, 0) = 0
  BY SumDefined DEF IsSum

\* The sum of one term more is that term more.
LEMMA SumNext ==
  ASSUME NEW t, NEW n \in Nat
  PROVE  SumUpTo(t, n + 1) = SumUpTo(t, n) + t[n + 1]
<1>1. PICK r : IsSum(r, t, n) /\ SumUpTo(t, n) = r[n]
  BY SumDefined
<1>2. PICK s : IsSum(s, t, n + 1) /\ SumUpTo(t, n + 1) = s[n + 1]
  BY SumDefined
<1>3. r[n] = s[n]
  BY <1>1, <1>2, SumUnique
<1>4. s[n + 1] = s[n] + t[n + 1]
  BY <1>2 DEF IsSum
<1> QED BY <1>1, <1>2, <1>3, <1>4

\* Sums of the same terms are the same.
LEMMA SumAgrees ==
  ASSUME NEW t, NEW u, NEW n \in Nat, \A i \in 1..n : t[i] = u[i]
  PROVE  SumUpTo(t, n) = SumUpTo(u, n)
<1>1. PICK r : IsSum(r, t, n) /\ SumUpTo(t, n) = r[n]
  BY SumDefined
<1>2. PICK s : IsSum(s, u, n) /\ SumUpTo(u, n) = s[n]
  BY SumDefined
<1> QED BY <1>1, <1>2, SumUnique

\* A sum of nothing but 0 is 0.
LEMMA SumOfZeros ==
  ASSUME NEW t, NEW n \in Nat, \A i \in 1..n : t[i] = 0
  PROVE  SumUpTo(t, n) = 0
<1> DEFINE S == {k \in Nat : k <= n => SumUpTo(t, k) = 0}
<1>1. 0 \in S
  BY SumEmpty
<1>2. ASSUME NEW k \in Nat, k \in S PROVE k + 1 \in S
  <2>1. SumUpTo(t, k + 1) = SumUpTo(t, k) + t[k + 1]
    BY SumNext
  <2> QED BY <1>2, <2>1
<1> HIDE DEF S
<1>3. n \in S
  BY <1>1, <1>2, SetInduction
<1> QED BY <1>3 DEF S

\* A sum of integers is an integer.
LEMMA SumType ==
  ASSUME NEW t, NEW n \in Nat, \A i \in 1..n : t[i] \in Int
  PROVE  \A k \in 0..n : SumUpTo(t, k) \in Int
<1> DEFINE S == {k \in Nat : k <= n => SumUpTo(t, k) \in Int}
<1>1. 0 \in S
  BY SumEmpty
<1>2. ASSUME NEW k \in Nat, k \in S PROVE k + 1 \in S
  <2>1. SumUpTo(t, k + 1) = SumUpTo(t, k) + t[k + 1]
    BY SumNext
  <2> QED BY <1>2, <2>1
<1> HIDE DEF S
<1>3. \A k \in Nat : k \in S
  BY <1>1, <1>2, SetInduction
<1> QED BY <1>3 DEF S

\* Smaller terms make a smaller sum, and more terms that are not positive do.
LEMMA SumMonotone ==
  ASSUME NEW t, NEW u, NEW n \in Nat, NEW m \in 0..n,
         \A i \in 1..n : t[i] \in Int /\ u[i] \in Int /\ t[i] <= u[i] /\ t[i] <= 0
  PROVE  SumUpTo(t, n) <= SumUpTo(u, m)
<1>t. \A k \in 0..n : SumUpTo(t, k) \in Int /\ SumUpTo(u, k) \in Int
  BY SumType
<1> DEFINE S == {k \in Nat : k <= n =>
                    /\ k <= m => SumUpTo(t, k) <= SumUpTo(u, k)
                    /\ k > m => SumUpTo(t, k) <= SumUpTo(u, m)}
<1>1. 0 \in S
  BY SumEmpty
<1>2. ASSUME NEW k \in Nat, k \in S PROVE k + 1 \in S
  <2> SUFFICES ASSUME k + 1 <= n
               PROVE  /\ k + 1 <= m => SumUpTo(t, k + 1) <= SumUpTo(u, k + 1)
                      /\ k + 1 > m => SumUpTo(t, k + 1) <= SumUpTo(u, m)
    OBVIOUS
  <2>1. SumUpTo(t, k + 1) = SumUpTo(t, k) + t[k + 1] /\ SumUpTo(u, k + 1) = SumUpTo(u, k) + u[k + 1]
    BY SumNext
  <2>2. k + 1 <= m => SumUpTo(t, k + 1) <= SumUpTo(u, k + 1)
    BY <1>2, <1>t, <2>1
  <2>3. CASE k = m
    BY <1>2, <1>t, <2>1, <2>3
  <2>4. CASE k > m
    BY <1>2, <1>t, <2>1, <2>4
  <2> QED BY <2>2, <2>3, <2>4
<1> HIDE DEF S
<1>3. \A k \in Nat : k \in S
  BY <1>1, <1>2, SetInduction
<1>4. n \in S
  BY <1>3
<1> QED BY <1>4 DEF S

-----------------------------------------------------------------------------
(* Sums over the rows of a ledger.                                         *)

\* An insert adds the amount of its row, when the row is one of those summed.
LEMMA SumInsert ==
  ASSUME NEW S, NEW L \in Seq(S), NEW row \in S, NEW ids, NEW ids2,
         \A i \in 1..Len(L) : i \in ids <=> i \in ids2
  PROVE  SumAmounts(Append(L, row), ids2) =
           SumAmounts(L, ids) + IF Len(L) + 1 \in ids2 THEN row.amount ELSE 0
<1> DEFINE n == Len(L)
           t == AmountsOf(L, ids)
           u == AmountsOf(Append(L, row), ids2)
<1>1. /\ n \in Nat /\ Len(Append(L, row)) = n + 1
      /\ \A i \in 1..n : t[i] = u[i]
      /\ u[n + 1] = IF n + 1 \in ids2 THEN row.amount ELSE 0
  BY AppendRow DEF AmountsOf
<1>2. SumUpTo(t, n) = SumUpTo(u, n)
  BY <1>1, SumAgrees
<1>3. SumUpTo(u, n + 1) = SumUpTo(u, n) + u[n + 1]
  BY <1>1, SumNext
<1> QED BY <1>1, <1>2, <1>3 DEF SumAmounts

\* A sum over a table of integer amounts is an integer.
LEMMA SumOfRows ==
  ASSUME NEW S, NEW L \in Seq(S), \A i \in 1..Len(L) : L[i].amount \in Int, NEW ids
  PROVE  SumAmounts(L, ids) \in Int
<1> DEFINE t == AmountsOf(L, ids)
<1>1. Len(L) \in Nat /\ \A i \in 1..Len(L) : t[i] \in Int
  <2>1. Len(L) \in Nat /\ DOMAIN L = 1..Len(L)
    OBVIOUS
  <2> QED BY <2>1 DEF AmountsOf
<1>2. \A k \in 0..Len(L) : SumUpTo(t, k) \in Int
  <2> HIDE DEF t
  <2> QED BY <1>1, SumType
<1> QED BY <1>1, <1>2 DEF SumAmounts

-----------------------------------------------------------------------------
(* Periods.                                                                *)

LEMMA Division ==
  ASSUME NEW n \in Nat, NEW l \in Nat \ {0}
  PROVE  n = l * (n \div l) + (n % l) /\ (n % l) \in 0..(l - 1) /\ (n \div l) \in Int
  OBVIOUS

\* A period never starts later than now, and its start never moves back.
LEMMA PeriodStartGrows ==
  ASSUME NEW n \in Nat, NEW l \in Nat \ {0}
  PROVE  /\ PeriodStart(l, n) \in Int
         /\ PeriodStart(l, n) <= n
         /\ PeriodStart(l, n) <= PeriodStart(l, n + 1)
<1> DEFINE q == n \div l
           p == (n + 1) \div l
           r == n % l
           s == (n + 1) % l
<1>1. n = l * q + r /\ r \in 0..(l - 1) /\ q \in Int
  BY Division
<1>2. n + 1 = l * p + s /\ s \in 0..(l - 1) /\ p \in Int
  BY Division
<1>3. PeriodStart(l, n) = n - r /\ PeriodStart(l, n + 1) = (n + 1) - s
  BY DEF PeriodStart
<1> HIDE DEF q, p, r, s
<1>4. q <= p
  <2> SUFFICES ASSUME p < q PROVE FALSE
    BY <1>1, <1>2
  <2>1. PICK d \in Nat : q = p + 1 + d
    BY <1>1, <1>2, q - p - 1 \in Nat /\ q = p + 1 + (q - p - 1)
  <2>2. l * q = l * p + l + l * d /\ l * d \in Nat /\ l * p \in Int
    BY <2>1, <1>1, <1>2
  <2> QED BY <1>1, <1>2, <2>2
<1>5. PICK d \in Nat : p = q + d
  BY <1>1, <1>2, <1>4, p - q \in Nat /\ p = q + (p - q)
<1>6. l * d \in Nat /\ l * p = l * q + l * d /\ l * q \in Int
  BY <1>5, <1>1, <1>2
<1> QED BY <1>1, <1>2, <1>3, <1>6

-----------------------------------------------------------------------------
(* What the rows and the handlers are.                                     *)

EventRow == Row(Rooms, Calls, Payments)

\* A handler that has started knows its room.
RoomKnown == \A c \in Calls : pc[c] # "idle" => room[c] \in Rooms

\* What an answered call is to be charged is what an answer can cost.
ChargeKnown == \A c \in Calls : pc[c] = "charge" => charged[c] \in ChargeAmounts

\* What the operations of the service write into a row, by its type.
Booked(row) ==
  /\ row.type \in {"reserve", "charge", "release"} <=> row.corr # None
  /\ row.type = "reserve" => row.amount = -ReserveAmount
  /\ row.type = "charge" => -row.amount \in ChargeAmounts
  /\ row.type = "release" => row.amount = ReserveAmount
  /\ row.type \in {"topup", "refund_manual"} => row.amount \in CreditAmounts
  /\ row.type = "topup" <=> row.payment # None

RowsBooked == \A i \in DOMAIN events : Booked(events[i]) /\ events[i].at <= now

TypeInv == TypeOK /\ RoomKnown /\ ChargeKnown /\ RowsBooked

-----------------------------------------------------------------------------
(* What a step does to the ledger.                                         *)

\* A row an operation of the service may append: the first of its kind for its
\* call, and a settlement only of a reserve, on the reserve's room.
Admissible(L, row) ==
  /\ Booked(row)
  /\ row.at = now
  /\ row.type = "topup" => ~TopupExistsByPaymentId(L, row.payment)
  /\ row.corr # None => EventsOf(L, row.corr, row.type) = {}
  /\ row.type \in {"charge", "release"} =>
       \E j \in DOMAIN L :
         /\ L[j].type = "reserve"
         /\ L[j].corr = row.corr
         /\ L[j].room = row.room
         /\ row.type = "release" => row.amount = -L[j].amount

AppendsAdmissibleRow ==
  \E row \in EventRow : events' = Append(events, row) /\ Admissible(events, row)

\* find_reserve returns a reserve of the call when there is one.
LEMMA FoundReserve ==
  ASSUME NEW L \in Seq(EventRow), NEW c, HasReserve(L, c)
  PROVE  \E j \in DOMAIN L :
           /\ FindReserve(L, c) = L[j]
           /\ L[j].type = "reserve"
           /\ L[j].corr = c
           /\ L[j] \in EventRow
<1> DEFINE j == CHOOSE i \in EventsOf(L, c, "reserve") : TRUE
<1>1. j \in EventsOf(L, c, "reserve")
  BY DEF HasReserve
<1>2. j \in DOMAIN L /\ L[j].type = "reserve" /\ L[j].corr = c
  BY <1>1 DEF EventsOf
<1>3. L[j] \in EventRow
  BY <1>2
<1>4. FindReserve(L, c) = L[j]
  BY DEF FindReserve
<1> QED BY <1>2, <1>3, <1>4

AppendsRowOf(c) ==
  \E row \in EventRow :
    row.corr = c /\ events' = Append(events, row) /\ Admissible(events, row)

\* One step of a handler writes nothing or one admissible row of its own call.
LEMMA HandlerWrites ==
  ASSUME TypeInv, NEW c \in Calls, HandlerStep(c)
  PROVE  UNCHANGED events \/ AppendsRowOf(c)
<1> USE DEF TypeInv, TypeOK, AppendsRowOf, Admissible
<1>1. CASE WriteReserve(c)
  <2>1. CASE DuplicateReserve(events, c)
    BY <1>1, <2>1 DEF WriteReserve
  <2>2. CASE ~DuplicateReserve(events, c)
    <3> DEFINE row == BuildEvent("reserve", room[c], -ReserveAmount, c, None, now)
    <3>1. room[c] \in Rooms
      BY <1>1 DEF RoomKnown, WriteReserve
    <3>2. row \in EventRow
      BY <3>1, AmountAssumption DEF EventRow, Row, BuildEvent, EventTypes
    <3>3. events' = Append(events, row)
      BY <1>1, <2>2 DEF WriteReserve, Reserve
    <3>4. Booked(row)
      BY IdAssumption DEF Booked, BuildEvent
    <3>5. Admissible(events, row) /\ row.corr = c
      BY <2>2, <3>4 DEF DuplicateReserve, BuildEvent
    <3> QED BY <3>2, <3>3, <3>5
  <2> QED BY <2>1, <2>2
<1>2. CASE WriteCharge(c)
  <2>1. CASE ChargeRefused(events, c)
    BY <1>2, <2>1 DEF WriteCharge
  <2>2. CASE ~ChargeRefused(events, c)
    <3>1. PICK j \in DOMAIN events :
            /\ FindReserve(events, c) = events[j]
            /\ events[j].type = "reserve"
            /\ events[j].corr = c
            /\ events[j] \in EventRow
      BY <2>2, FoundReserve DEF ChargeRefused, EventRow
    <3> DEFINE row == BuildEvent("charge", events[j].room, -charged[c], c, None, now)
    <3>2. row \in EventRow
      BY <3>1 DEF EventRow, Row, BuildEvent, EventTypes
    <3>3. events' = Append(events, row)
      BY <1>2, <2>2, <3>1 DEF WriteCharge, Charge
    <3>4. Booked(row)
      <4>1. charged[c] \in ChargeAmounts /\ charged[c] \in Int
        BY <1>2 DEF WriteCharge, ChargeKnown
      <4> QED BY <4>1, IdAssumption DEF Booked, BuildEvent
    <3>5. Admissible(events, row) /\ row.corr = c
      BY <2>2, <3>1, <3>4 DEF ChargeRefused, DuplicateCharge, BuildEvent
    <3> QED BY <3>2, <3>3, <3>5
  <2> QED BY <2>1, <2>2
<1>3. CASE WriteRelease(c)
  <2>1. CASE ReleaseRefused(events, c)
    BY <1>3, <2>1 DEF WriteRelease
  <2>2. CASE ~ReleaseRefused(events, c)
    <3>1. PICK j \in DOMAIN events :
            /\ FindReserve(events, c) = events[j]
            /\ events[j].type = "reserve"
            /\ events[j].corr = c
            /\ events[j] \in EventRow
      BY <2>2, FoundReserve DEF ReleaseRefused, EventRow
    <3> DEFINE row == BuildEvent("release", events[j].room, -events[j].amount, c, None, now)
    <3>2. row \in EventRow
      BY <3>1 DEF EventRow, Row, BuildEvent, EventTypes
    <3>3. events' = Append(events, row)
      BY <1>3, <2>2, <3>1 DEF WriteRelease, Release
    <3>4. Booked(row)
      BY <3>1, IdAssumption, AmountAssumption DEF Booked, BuildEvent, RowsBooked
    <3>5. Admissible(events, row) /\ row.corr = c
      BY <2>2, <3>1, <3>4 DEF ReleaseRefused, DuplicateRelease, BuildEvent
    <3> QED BY <3>2, <3>3, <3>5
  <2> QED BY <2>1, <2>2
<1> QED
  BY <1>1, <1>2, <1>3
  DEF HandlerStep, CheckBalance, CheckDailyCap, CheckMonthlyCap, LlmAnswers, LlmFails, LedgerFails

\* Any step of the system keeps the ledger, cuts it, or appends one admissible row.
LEMMA LedgerStep ==
  ASSUME TypeInv, [Next]_vars
  PROVE  \/ UNCHANGED events
         \/ AppendsAdmissibleRow
         \/ PowerLoss /\ \E k \in 0..Len(events) : events' = SubSeq(events, 1, k)
<1> USE DEF TypeInv, TypeOK, AppendsAdmissibleRow, Admissible
<1>1. ASSUME NEW c \in Calls, HandlerStep(c)
      PROVE  UNCHANGED events \/ AppendsAdmissibleRow
  BY <1>1, HandlerWrites DEF AppendsRowOf
<1>2. ASSUME NEW r \in Rooms, NEW a \in CreditAmounts, NEW p \in Payments, Credit(r, a, p)
      PROVE  AppendsAdmissibleRow
  <2> DEFINE row == BuildEvent("topup", r, a, None, p, now)
  <2>1. row \in EventRow /\ Booked(row)
    BY AmountAssumption, IdAssumption DEF EventRow, Row, BuildEvent, EventTypes, Booked
  <2>2. Admissible(events, row)
    BY <1>2, <2>1, IdAssumption DEF Credit, DuplicatePaymentId, BuildEvent
  <2> QED BY <1>2, <2>1, <2>2 DEF Credit, Topup
<1>3. ASSUME NEW id \in DOMAIN events, AdminReleases(id)
      PROVE  AppendsAdmissibleRow
  <2> DEFINE row == BuildEvent("release", events[id].room, -events[id].amount, events[id].corr, None, now)
  <2>1. events[id] \in EventRow /\ events[id].type = "reserve"
    BY <1>3 DEF AdminReleases, ManualReleaseRefused, EventRow
  <2>2. row \in EventRow
    BY <2>1 DEF EventRow, Row, BuildEvent, EventTypes
  <2>3. Booked(row)
    BY <2>1, AmountAssumption DEF Booked, BuildEvent, RowsBooked
  <2>4. Admissible(events, row)
    BY <1>3, <2>1, <2>3 DEF AdminReleases, ManualReleaseRefused, DuplicateRelease, BuildEvent
  <2> QED BY <1>3, <2>2, <2>4 DEF AdminReleases, ManualRelease
<1>4. ASSUME NEW r \in Rooms, NEW a \in CreditAmounts, AdminRefunds(r, a)
      PROVE  AppendsAdmissibleRow
  <2> DEFINE row == BuildEvent("refund_manual", r, a, None, None, now)
  <2>1. row \in EventRow /\ Booked(row)
    BY AmountAssumption DEF EventRow, Row, BuildEvent, EventTypes, Booked
  <2>2. Admissible(events, row)
    BY <2>1 DEF BuildEvent
  <2> QED BY <1>4, <2>1, <2>2 DEF AdminRefunds, ManualRefund
<1>5. CASE PowerLoss
  BY <1>5 DEF PowerLoss
<1>6. CASE UNCHANGED vars
  BY <1>6 DEF vars
<1>7. ASSUME NEW c \in Calls, NEW r \in Rooms, Start(c, r) PROVE UNCHANGED events
  BY <1>7 DEF Start
<1> QED
  BY <1>1, <1>2, <1>3, <1>4, <1>5, <1>6, <1>7 DEF Next, Tick, Crash

-----------------------------------------------------------------------------
(* Type correctness.                                                       *)

\* Only the clock moves the time.
LEMMA ClockStep ==
  ASSUME [Next]_vars
  PROVE  UNCHANGED now \/ now' = now + 1
<1>1. ASSUME NEW c \in Calls, HandlerStep(c) PROVE UNCHANGED now
  BY <1>1 DEF HandlerStep, CheckBalance, CheckDailyCap, CheckMonthlyCap, WriteReserve,
              LlmAnswers, LlmFails, WriteCharge, WriteRelease, LedgerFails
<1>2. CASE ~\E c \in Calls : HandlerStep(c)
  BY <1>2 DEF Next, Start, Credit, AdminReleases, AdminRefunds, Tick, Crash, PowerLoss, vars
<1> QED BY <1>1, <1>2

\* The ledger keeps its type whatever a step does to it.
LEMMA LedgerTyped ==
  ASSUME TypeInv, [Next]_vars
  PROVE  events' \in Seq(EventRow) /\ RowsBooked'
<1> USE DEF TypeInv, TypeOK
<1>n. now' \in Nat /\ now <= now'
  BY ClockStep
<1>e. /\ events \in Seq(EventRow)
      /\ \A i \in 1..Len(events) : Booked(events[i]) /\ events[i].at \in Nat /\ events[i].at <= now
  <2>1. events \in Seq(EventRow) /\ DOMAIN events = 1..Len(events)
    BY DEF EventRow
  <2>2. \A i \in DOMAIN events : events[i] \in EventRow
    BY <2>1
  <2> QED BY <2>1, <2>2 DEF EventRow, Row, RowsBooked
<1> HIDE DEF TypeInv, TypeOK
<1>1. CASE UNCHANGED events
  <2>1. events' = events /\ now \in Nat
    BY <1>1 DEF TypeInv, TypeOK
  <2>2. ASSUME NEW i \in 1..Len(events')
        PROVE  Booked(events'[i]) /\ events'[i].at \in Nat /\ events'[i].at <= now'
    BY <1>n, <1>e, <2>1
  <2> QED BY <1>e, <2>1, <2>2 DEF RowsBooked
<1>2. CASE AppendsAdmissibleRow
  <2>1. PICK row \in EventRow : events' = Append(events, row) /\ Admissible(events, row)
    BY <1>2 DEF AppendsAdmissibleRow
  <2>2. Booked(row) /\ row.at = now
    BY <2>1 DEF Admissible
  <2> QED BY <1>e, <1>n, <2>1, <2>2, AppendRow DEF RowsBooked, TypeInv, TypeOK
<1>3. ASSUME NEW k \in 0..Len(events), events' = SubSeq(events, 1, k)
      PROVE  events' \in Seq(EventRow) /\ RowsBooked'
  BY <1>3, <1>e, <1>n, CutRows DEF RowsBooked, TypeInv, TypeOK
<1> QED BY <1>1, <1>2, <1>3, LedgerStep

\* The part of the state outside the ledger keeps its type, and a handler
\* knows its room from its first step on.
LEMMA HandlersTyped ==
  ASSUME TypeInv, [Next]_vars
  PROVE  /\ pc' \in [Calls -> {"idle"} \cup InFlight \cup Outcomes]
         /\ room' \in [Calls -> Rooms \cup {None}]
         /\ charged' \in [Calls -> Nat]
         /\ now' \in Nat
         /\ powerLosses' \in Nat
         /\ RoomKnown'
         /\ ChargeKnown'
<1> USE DEF TypeInv, TypeOK, RoomKnown, ChargeKnown, InFlight, PreChecking, Settling,
            Outcomes, Refused, Answered, Goto
<1>1. ASSUME NEW c \in Calls, HandlerStep(c)
      PROVE  pc' \in [Calls -> {"idle"} \cup InFlight \cup Outcomes]
  BY <1>1 DEF HandlerStep, CheckBalance, CheckDailyCap, CheckMonthlyCap, WriteReserve,
              LlmAnswers, LlmFails, WriteCharge, WriteRelease, LedgerFails
<1>2. ASSUME NEW c \in Calls, HandlerStep(c)
      PROVE  /\ charged' \in [Calls -> Nat]
             /\ UNCHANGED <<room, now, powerLosses>>
             /\ \A d \in Calls : pc'[d] # "idle" => pc[d] # "idle"
             /\ ChargeKnown'
  BY <1>2, AmountAssumption
  DEF HandlerStep, CheckBalance, CheckDailyCap, CheckMonthlyCap, WriteReserve,
      LlmAnswers, LlmFails, WriteCharge, WriteRelease, LedgerFails
<1>3. ASSUME NEW c \in Calls, NEW r \in Rooms, Start(c, r)
      PROVE  /\ pc' \in [Calls -> {"idle"} \cup InFlight \cup Outcomes]
             /\ room' \in [Calls -> Rooms \cup {None}]
             /\ UNCHANGED <<charged, now, powerLosses>>
             /\ RoomKnown'
             /\ ChargeKnown'
  BY <1>3 DEF Start
<1>4. CASE Crash
  BY <1>4 DEF Crash, KillHandlers
<1>5. CASE PowerLoss
  BY <1>5 DEF PowerLoss, KillHandlers
<1>6. CASE Tick
  BY <1>6 DEF Tick
<1>7. ASSUME NEW r \in Rooms, NEW a \in CreditAmounts, NEW p \in Payments, Credit(r, a, p)
      PROVE  UNCHANGED <<pc, room, charged, now, powerLosses>>
  BY <1>7 DEF Credit
<1>8. ASSUME NEW id \in DOMAIN events, AdminReleases(id)
      PROVE  UNCHANGED <<pc, room, charged, now, powerLosses>>
  BY <1>8 DEF AdminReleases
<1>9. ASSUME NEW r \in Rooms, NEW a \in CreditAmounts, AdminRefunds(r, a)
      PROVE  UNCHANGED <<pc, room, charged, now, powerLosses>>
  BY <1>9 DEF AdminRefunds
<1>10. CASE UNCHANGED vars
  BY <1>10 DEF vars
<1> QED
  BY <1>1, <1>2, <1>3, <1>4, <1>5, <1>6, <1>7, <1>8, <1>9, <1>10 DEF Next

\* Every reachable state is well typed: the ledger holds only rows of the
\* schema, and every call is at an await of run_billed_call or has one of its
\* outcomes.
THEOREM TypeCorrect == Spec => []TypeInv
<1>1. Init => TypeInv
  BY TimeAssumption DEF Init, TypeInv, TypeOK, RoomKnown, ChargeKnown, RowsBooked
<1>2. TypeInv /\ [Next]_vars => TypeInv'
  BY LedgerTyped, HandlersTyped DEF TypeInv, TypeOK, EventRow
<1>3. QED BY <1>1, <1>2, PTL DEF Spec

-----------------------------------------------------------------------------
(* The ledger invariants.                                                  *)

LedgerInv == OneRowPerKind /\ SettlementFollowsHold

\* An admissible row is the first of its kind for its call, and the reserve it
\* settles is already there; cutting a suffix keeps both.
LEMMA LedgerInvStep ==
  ASSUME TypeInv, LedgerInv, [Next]_vars
  PROVE  LedgerInv'
<1> USE DEF LedgerInv
<1>t. events \in Seq(EventRow) /\ Len(events) \in Nat /\ DOMAIN events = 1..Len(events)
  BY DEF TypeInv, TypeOK, EventRow
<1>1. CASE UNCHANGED events
  BY <1>1 DEF OneRowPerKind, SettlementFollowsHold
<1>2. CASE AppendsAdmissibleRow
  <2>1. PICK row \in EventRow : events' = Append(events, row) /\ Admissible(events, row)
    BY <1>2 DEF AppendsAdmissibleRow
  <2> DEFINE n == Len(events)
  <2>2. /\ DOMAIN events' = 1..(n + 1)
        /\ \A i \in 1..n : events'[i] = events[i]
        /\ events'[n + 1] = row
    BY <2>1, <1>t, AppendRow
  <2>3. row.corr # None => \A i \in 1..n : ~(events[i].corr = row.corr /\ events[i].type = row.type)
    BY <2>1, <1>t DEF Admissible, EventsOf
  <2>4. OneRowPerKind'
    BY <2>2, <2>3, <1>t DEF OneRowPerKind
  <2>5. row.type \in {"charge", "release"} =>
          \E j \in 1..n :
            /\ events'[j].type = "reserve"
            /\ events'[j].corr = row.corr
            /\ events'[j].room = row.room
            /\ row.type = "release" => row.amount = -events'[j].amount
    BY <2>1, <2>2, <1>t DEF Admissible
  <2>6. SettlementFollowsHold'
    <3> SUFFICES ASSUME NEW i \in DOMAIN events', events'[i].type \in {"charge", "release"}
                 PROVE  \E j \in 1..(i - 1) :
                          /\ events'[j].type = "reserve"
                          /\ events'[j].corr = events'[i].corr
                          /\ events'[j].room = events'[i].room
                          /\ events'[i].type = "release" => events'[i].amount = -events'[j].amount
      BY DEF SettlementFollowsHold
    <3>1. CASE i = n + 1
      BY <3>1, <2>2, <2>5, <1>t
    <3>2. CASE i \in 1..n
      <4>1. PICK j \in 1..(i - 1) :
              /\ events[j].type = "reserve"
              /\ events[j].corr = events[i].corr
              /\ events[j].room = events[i].room
              /\ events[i].type = "release" => events[i].amount = -events[j].amount
        BY <3>2, <2>2, <1>t DEF SettlementFollowsHold
      <4>2. j \in 1..n
        BY <3>2, <1>t
      <4> QED BY <4>1, <4>2, <3>2, <2>2
    <3> QED BY <3>1, <3>2, <2>2, <1>t
  <2> QED BY <2>4, <2>6
<1>3. ASSUME NEW k \in 0..Len(events), events' = SubSeq(events, 1, k)
      PROVE  LedgerInv'
  <2>1. /\ DOMAIN events' = 1..k
        /\ \A i \in 1..k : events'[i] = events[i]
        /\ 1..k \subseteq DOMAIN events
    BY <1>3, <1>t, CutRows
  <2>2. OneRowPerKind'
    BY <2>1 DEF OneRowPerKind
  <2>3. \A i \in 1..k : 1..(i - 1) \subseteq 1..k
    BY <1>t
  <2>4. SettlementFollowsHold'
    BY <2>1, <2>3 DEF SettlementFollowsHold
  <2> QED BY <2>2, <2>4
<1> QED BY <1>1, <1>2, <1>3, LedgerStep

LEMMA LedgerInvariant == Spec => []LedgerInv
<1>1. Init => LedgerInv
  BY DEF Init, LedgerInv, OneRowPerKind, SettlementFollowsHold
<1>2. TypeInv /\ LedgerInv /\ [Next]_vars => LedgerInv'
  BY LedgerInvStep
<1>3. QED BY <1>1, <1>2, TypeCorrect, PTL DEF Spec

\* No interleaving of handlers, manual releases, crashes and power losses
\* charges a call twice or gives its hold back twice.
THEOREM AtMostOncePerKind == Spec => []OneRowPerKind
BY LedgerInvariant, PTL DEF LedgerInv

\* Every charge and release settles an earlier hold of the same call on the
\* same room, and a release gives back exactly what was held.
THEOREM SettlementsMatchHolds == Spec => []SettlementFollowsHold
BY LedgerInvariant, PTL DEF LedgerInv

-----------------------------------------------------------------------------
(* The invariants about calls.                                             *)

BeforeHold == {"idle"} \cup PreChecking \cup Refused

\* A call owns no row of the ledger until its reserve is written.
NoRowsBeforeHold ==
  \A c \in Calls : pc[c] \in BeforeHold => \A i \in DOMAIN events : events[i].corr # c

CallInv == NoRowsBeforeHold /\ LlmRunsUnderHold /\ ChargedOnlyForAnswer

\* The rows of call c in the next state, when a row of another owner is appended.
LEMMA OtherRows ==
  ASSUME TypeInv, NEW row \in EventRow, events' = Append(events, row),
         NEW c \in Calls, row.corr # c
  PROVE  /\ EventsOf(events', c, "reserve") = EventsOf(events, c, "reserve")
         /\ EventsOf(events', c, "charge") = EventsOf(events, c, "charge")
         /\ \A i \in DOMAIN events : events'[i] = events[i]
         /\ (\A i \in DOMAIN events' : events'[i].corr # c)
              <=> (\A i \in DOMAIN events : events[i].corr # c)
<1>1. events \in Seq(EventRow) /\ Len(events) \in Nat /\ DOMAIN events = 1..Len(events)
  BY DEF TypeInv, TypeOK, EventRow
<1>2. /\ DOMAIN events' = 1..(Len(events) + 1)
      /\ \A i \in 1..Len(events) : events'[i] = events[i]
      /\ events'[Len(events) + 1] = row
  BY <1>1, AppendRow
<1> QED BY <1>1, <1>2 DEF EventsOf

\* The invariant for one call, so that a step can be checked call by call.
CallInvOf(c) ==
  /\ pc[c] \in BeforeHold => \A i \in DOMAIN events : events[i].corr # c
  /\ pc[c] \in {"llm"} \cup Settling =>
       \E i \in EventsOf(events, c, "reserve") :
         events[i].room = room[c] /\ events[i].amount = -ReserveAmount
  /\ \A i \in EventsOf(events, c, "charge") :
       /\ pc[c] \in {"release", "killed"} \cup Answered
       /\ events[i].amount = -charged[c]

LEMMA CallInvSplit == CallInv <=> \A c \in Calls : CallInvOf(c)
  BY DEF CallInv, CallInvOf, NoRowsBeforeHold, LlmRunsUnderHold, ChargedOnlyForAnswer

\* A step that appends a row of no call, or of call c's own hold, and leaves
\* the handlers alone, keeps the invariant of every call.
LEMMA ForeignRow ==
  ASSUME TypeInv, CallInv, UNCHANGED <<pc, room, charged>>,
         NEW row \in EventRow, events' = Append(events, row),
         \/ row.corr = None
         \/ row.type = "release" /\ \E j \in DOMAIN events : events[j].corr = row.corr,
         NEW c \in Calls
  PROVE  CallInvOf(c)'
<1>c. CallInvOf(c)
  BY CallInvSplit
<1>1. CASE row.corr # c
  <2>1. /\ EventsOf(events', c, "reserve") = EventsOf(events, c, "reserve")
        /\ EventsOf(events', c, "charge") = EventsOf(events, c, "charge")
        /\ \A i \in DOMAIN events : events'[i] = events[i]
        /\ (\A i \in DOMAIN events' : events'[i].corr # c)
             <=> (\A i \in DOMAIN events : events[i].corr # c)
    BY <1>1, OtherRows
  <2>2. \A type : EventsOf(events, c, type) \subseteq DOMAIN events
    BY DEF EventsOf
  <2> QED BY <1>c, <2>1, <2>2 DEF CallInvOf
<1>2. CASE row.corr = c
  <2>1. row.type = "release" /\ \E j \in DOMAIN events : events[j].corr = c
    BY <1>2, IdAssumption
  <2>2. pc[c] \notin BeforeHold
    BY <2>1, <1>c DEF CallInvOf
  <2>3. events \in Seq(EventRow) /\ Len(events) \in Nat /\ DOMAIN events = 1..Len(events)
    BY DEF TypeInv, TypeOK, EventRow
  <2>4. /\ DOMAIN events' = 1..(Len(events) + 1)
        /\ \A i \in 1..Len(events) : events'[i] = events[i]
        /\ events'[Len(events) + 1] = row
    BY <2>3, AppendRow
  <2>5. \A type \in {"reserve", "charge"} :
          EventsOf(events', c, type) = EventsOf(events, c, type)
    BY <2>1, <2>3, <2>4 DEF EventsOf
  <2>6. \A type \in {"reserve", "charge"} : \A i \in EventsOf(events, c, type) : events'[i] = events[i]
    BY <2>3, <2>4 DEF EventsOf
  <2> QED BY <2>2, <2>5, <2>6, <1>c DEF CallInvOf
<1> QED BY <1>1, <1>2

\* A step of handler d changes nothing for another call c.
LEMMA OtherHandler ==
  ASSUME TypeInv, CallInv, NEW d \in Calls, HandlerStep(d), NEW c \in Calls, c # d
  PROVE  CallInvOf(c)'
<1>c. CallInvOf(c)
  BY CallInvSplit
<1>1. pc'[c] = pc[c] /\ room'[c] = room[c] /\ charged'[c] = charged[c]
  BY DEF TypeInv, TypeOK, HandlerStep, CheckBalance, CheckDailyCap, CheckMonthlyCap, WriteReserve,
         LlmAnswers, LlmFails, WriteCharge, WriteRelease, LedgerFails, Goto
<1>2. CASE UNCHANGED events
  BY <1>1, <1>2, <1>c DEF CallInvOf
<1>3. CASE AppendsRowOf(d)
  <2>1. PICK row \in EventRow : events' = Append(events, row) /\ row.corr # c
    BY <1>3 DEF AppendsRowOf
  <2>2. /\ EventsOf(events', c, "reserve") = EventsOf(events, c, "reserve")
        /\ EventsOf(events', c, "charge") = EventsOf(events, c, "charge")
        /\ \A i \in DOMAIN events : events'[i] = events[i]
        /\ (\A i \in DOMAIN events' : events'[i].corr # c)
             <=> (\A i \in DOMAIN events : events[i].corr # c)
    BY <2>1, OtherRows
  <2>3. \A type : EventsOf(events, c, type) \subseteq DOMAIN events
    BY DEF EventsOf
  <2> QED BY <1>1, <1>c, <2>2, <2>3 DEF CallInvOf
<1> QED BY <1>2, <1>3, HandlerWrites

\* A step of handler c keeps the invariant of its own call: one case per await.
LEMMA OwnHandler ==
  ASSUME TypeInv, CallInv, NEW c \in Calls, HandlerStep(c)
  PROVE  CallInvOf(c)'
<1> DEFINE n == Len(events)
<1>c. CallInvOf(c)
  BY CallInvSplit
<1>t. events \in Seq(EventRow) /\ n \in Nat /\ DOMAIN events = 1..n
  BY DEF TypeInv, TypeOK, EventRow
<1>f. /\ pc \in [Calls -> {"idle"} \cup InFlight \cup Outcomes]
      /\ charged \in [Calls -> Nat]
      /\ pc[c] # "idle" => room[c] \in Rooms
  BY DEF TypeInv, TypeOK, RoomKnown
<1>a. ASSUME NEW row \in EventRow, events' = Append(events, row)
      PROVE  /\ DOMAIN events' = 1..(n + 1)
             /\ \A i \in 1..n : events'[i] = events[i]
             /\ events'[n + 1] = row
  BY <1>a, <1>t, AppendRow
<1> USE DEF BeforeHold, PreChecking, Settling, Refused, Answered, Goto
<1>1. CASE CheckBalance(c) \/ CheckDailyCap(c) \/ CheckMonthlyCap(c)
  BY <1>1, <1>c, <1>f DEF CallInvOf, CheckBalance, CheckDailyCap, CheckMonthlyCap
<1>2. CASE WriteReserve(c)
  <2>0. pc[c] = "reserve" /\ UNCHANGED <<room, charged>> /\ room[c] \in Rooms
    BY <1>2, <1>f DEF WriteReserve
  <2>1. \A i \in DOMAIN events : events[i].corr # c
    BY <2>0, <1>c DEF CallInvOf
  <2>2. CASE DuplicateReserve(events, c)
    BY <2>2, <2>1 DEF DuplicateReserve, EventsOf
  <2>3. CASE ~DuplicateReserve(events, c)
    <3> DEFINE row == BuildEvent("reserve", room[c], -ReserveAmount, c, None, now)
    <3>1. row \in EventRow
      BY <2>0, AmountAssumption DEF EventRow, Row, BuildEvent, EventTypes, TypeInv, TypeOK
    <3>2. events' = Append(events, row) /\ pc'[c] = "llm"
      BY <1>2, <2>3, <1>f DEF WriteReserve, Reserve
    <3>3. n + 1 \in EventsOf(events', c, "reserve") /\ events'[n + 1] = row
      BY <3>1, <3>2, <1>a, <1>t DEF EventsOf, BuildEvent
    <3>4. EventsOf(events', c, "charge") = {}
      BY <3>1, <3>2, <2>1, <1>a, <1>t DEF EventsOf, BuildEvent
    <3> QED BY <2>0, <3>2, <3>3, <3>4 DEF CallInvOf, BuildEvent
  <2> QED BY <2>2, <2>3
<1>3. ASSUME NEW amount \in ChargeAmounts, LlmAnswers(c, amount)
      PROVE  CallInvOf(c)'
  <2>1. EventsOf(events, c, "charge") = {}
    BY <1>3, <1>c DEF CallInvOf, LlmAnswers
  <2> QED BY <1>3, <2>1, <1>c, <1>f DEF CallInvOf, LlmAnswers
<1>4. CASE LlmFails(c)
  BY <1>4, <1>c, <1>f DEF CallInvOf, LlmFails
<1>5. CASE WriteCharge(c)
  <2>0. pc[c] = "charge" /\ UNCHANGED <<room, charged>>
    BY <1>5 DEF WriteCharge
  <2>1. EventsOf(events, c, "charge") = {}
    BY <2>0, <1>c DEF CallInvOf
  <2>2. CASE ChargeRefused(events, c)
    BY <1>5, <2>0, <2>1, <2>2, <1>f DEF CallInvOf, WriteCharge
  <2>3. CASE ~ChargeRefused(events, c)
    <3>1. PICK j \in DOMAIN events :
            FindReserve(events, c) = events[j] /\ events[j] \in EventRow
      BY <2>3, <1>t, FoundReserve DEF ChargeRefused
    <3> DEFINE row == BuildEvent("charge", events[j].room, -charged[c], c, None, now)
    <3>2. row \in EventRow
      BY <3>1, <1>f DEF EventRow, Row, BuildEvent, EventTypes, TypeInv, TypeOK
    <3>3. events' = Append(events, row) /\ pc'[c] = "release"
      BY <1>5, <2>3, <3>1, <1>f DEF WriteCharge, Charge
    <3>4. /\ EventsOf(events', c, "charge") = {n + 1}
          /\ events'[n + 1].amount = -charged[c]
      BY <3>2, <3>3, <2>1, <1>a, <1>t DEF EventsOf, BuildEvent
    <3>5. \A i \in EventsOf(events, c, "reserve") :
            i \in EventsOf(events', c, "reserve") /\ events'[i] = events[i]
      BY <3>2, <3>3, <1>a, <1>t DEF EventsOf
    <3> QED BY <2>0, <3>3, <3>4, <3>5, <1>c DEF CallInvOf
  <2> QED BY <2>2, <2>3
<1>6. CASE WriteRelease(c)
  <2>0. pc[c] = "release" /\ UNCHANGED <<room, charged>> /\ pc'[c] \in Answered
    BY <1>6, <1>f DEF WriteRelease
  <2>1. CASE UNCHANGED events
    BY <2>0, <2>1, <1>c DEF CallInvOf
  <2>2. CASE ~ReleaseRefused(events, c)
    <3>1. PICK j \in DOMAIN events :
            FindReserve(events, c) = events[j] /\ events[j] \in EventRow
      BY <2>2, <1>t, FoundReserve DEF ReleaseRefused
    <3> DEFINE row == BuildEvent("release", events[j].room, -events[j].amount, c, None, now)
    <3>2. row \in EventRow
      BY <3>1 DEF EventRow, Row, BuildEvent, EventTypes, TypeInv, TypeOK
    <3>3. events' = Append(events, row)
      BY <1>6, <2>2, <3>1 DEF WriteRelease, Release
    <3>4. \A i \in EventsOf(events', c, "charge") :
            i \in EventsOf(events, c, "charge") /\ events'[i] = events[i]
      BY <3>2, <3>3, <1>a, <1>t DEF EventsOf, BuildEvent
    <3> QED BY <2>0, <3>4, <1>c DEF CallInvOf
  <2> QED BY <1>6, <2>1, <2>2 DEF WriteRelease
<1>7. CASE LedgerFails(c)
  BY <1>7, <1>c, <1>f DEF CallInvOf, LedgerFails
<1> QED
  BY <1>1, <1>2, <1>3, <1>4, <1>5, <1>6, <1>7 DEF HandlerStep

LEMMA CallInvStep ==
  ASSUME TypeInv, CallInv, [Next]_vars
  PROVE  CallInv'
<1>t. events \in Seq(EventRow) /\ Len(events) \in Nat /\ DOMAIN events = 1..Len(events)
  BY DEF TypeInv, TypeOK, EventRow
<1> SUFFICES ASSUME NEW c \in Calls PROVE CallInvOf(c)'
  BY DEF CallInv, CallInvOf, NoRowsBeforeHold, LlmRunsUnderHold, ChargedOnlyForAnswer
<1>c. CallInvOf(c)
  BY CallInvSplit
<1>1. ASSUME NEW d \in Calls, HandlerStep(d) PROVE CallInvOf(c)'
  BY <1>1, OtherHandler, OwnHandler
<1>2. ASSUME NEW d \in Calls, NEW r \in Rooms, Start(d, r) PROVE CallInvOf(c)'
  <2>1. UNCHANGED <<events, charged>> /\ (c # d => pc'[c] = pc[c] /\ room'[c] = room[c])
    BY <1>2 DEF Start, Goto, TypeInv, TypeOK
  <2>2. c = d => pc[c] = "idle" /\ pc'[c] = "balance"
    BY <1>2 DEF Start, Goto, TypeInv, TypeOK
  <2> QED
    BY <2>1, <2>2, <1>c DEF CallInvOf, BeforeHold, PreChecking, Settling, Refused, Answered
<1>3. ASSUME NEW r \in Rooms, NEW a \in CreditAmounts, NEW p \in Payments, Credit(r, a, p)
      PROVE  CallInvOf(c)'
  <2> DEFINE row == BuildEvent("topup", r, a, None, p, now)
  <2>1. row \in EventRow /\ row.corr = None
    BY AmountAssumption DEF EventRow, Row, BuildEvent, EventTypes, TypeInv, TypeOK
  <2>2. events' = Append(events, row) /\ UNCHANGED <<pc, room, charged>>
    BY <1>3 DEF Credit, Topup
  <2> QED BY <2>1, <2>2, ForeignRow
<1>4. ASSUME NEW id \in DOMAIN events, AdminReleases(id)
      PROVE  CallInvOf(c)'
  <2> DEFINE row == BuildEvent("release", events[id].room, -events[id].amount, events[id].corr, None, now)
  <2>1. events[id] \in EventRow
    BY <1>t
  <2>2. row \in EventRow /\ row.type = "release" /\ row.corr = events[id].corr
    BY <2>1 DEF EventRow, Row, BuildEvent, EventTypes, TypeInv, TypeOK
  <2>3. events' = Append(events, row) /\ UNCHANGED <<pc, room, charged>>
    BY <1>4 DEF AdminReleases, ManualRelease
  <2> QED BY <2>2, <2>3, ForeignRow
<1>5. ASSUME NEW r \in Rooms, NEW a \in CreditAmounts, AdminRefunds(r, a)
      PROVE  CallInvOf(c)'
  <2> DEFINE row == BuildEvent("refund_manual", r, a, None, None, now)
  <2>1. row \in EventRow /\ row.corr = None
    BY AmountAssumption DEF EventRow, Row, BuildEvent, EventTypes, TypeInv, TypeOK
  <2>2. events' = Append(events, row) /\ UNCHANGED <<pc, room, charged>>
    BY <1>5 DEF AdminRefunds, ManualRefund
  <2> QED BY <2>1, <2>2, ForeignRow
<1>k. ASSUME KillHandlers
      PROVE  /\ pc'[c] \in BeforeHold => pc[c] = pc'[c]
             /\ pc'[c] \notin {"llm"} \cup Settling
             /\ pc[c] \in {"release", "killed"} \cup Answered
                  => pc'[c] \in {"release", "killed"} \cup Answered
  BY <1>k DEF KillHandlers, BeforeHold, InFlight, PreChecking, Settling, Refused, Answered
<1>6. CASE Crash
  BY <1>6, <1>k, <1>c DEF Crash, CallInvOf
<1>7. CASE PowerLoss
  <2>1. PICK k \in 0..Len(events) : events' = SubSeq(events, 1, k)
    BY <1>7 DEF PowerLoss, TypeInv, TypeOK
  <2>2. /\ DOMAIN events' \subseteq DOMAIN events
        /\ \A i \in DOMAIN events' : events'[i] = events[i]
    BY <2>1, <1>t, CutRows
  <2>3. \A i \in EventsOf(events', c, "charge") :
          i \in EventsOf(events, c, "charge") /\ events'[i] = events[i]
    BY <2>2 DEF EventsOf
  <2> QED BY <1>7, <1>k, <1>c, <2>2, <2>3 DEF PowerLoss, CallInvOf
<1>8. CASE Tick \/ UNCHANGED vars
  BY <1>8, <1>c DEF Tick, vars, CallInvOf
<1> QED
  BY <1>1, <1>2, <1>3, <1>4, <1>5, <1>6, <1>7, <1>8 DEF Next

LEMMA CallInvariant == Spec => []CallInv
<1>1. Init => CallInv
  BY DEF Init, CallInv, NoRowsBeforeHold, LlmRunsUnderHold, ChargedOnlyForAnswer, EventsOf, Settling
<1>2. TypeInv /\ CallInv /\ [Next]_vars => CallInv'
  BY CallInvStep
<1>3. QED BY <1>1, <1>2, TypeCorrect, PTL DEF Spec

-----------------------------------------------------------------------------
(* What a call that goes on, or reports a success, has behind it.          *)

\* A handler that has written the charge is at the release, or done.  Only a
\* power loss takes the row away again.
SettledOf(c) ==
  powerLosses = 0 =>
    /\ pc[c] \in {"release", "success"} => DuplicateCharge(events, c)
    /\ pc[c] = "success" => DuplicateRelease(events, c)

SettledInv == \A c \in Calls : SettledOf(c)

\* Without a power loss no row is ever taken away.
LEMMA RowsStay ==
  ASSUME TypeInv, [Next]_vars, powerLosses' = 0, NEW c, NEW type,
         EventsOf(events, c, type) # {}
  PROVE  EventsOf(events', c, type) # {}
<1>1. ~PowerLoss
  BY DEF PowerLoss, TypeInv, TypeOK
<1>2. PICK i \in DOMAIN events : events[i].corr = c /\ events[i].type = type
  BY DEF EventsOf
<1>3. CASE UNCHANGED events
  BY <1>3 DEF EventsOf
<1>4. CASE AppendsAdmissibleRow
  <2>1. PICK row \in EventRow : events' = Append(events, row)
    BY <1>4 DEF AppendsAdmissibleRow
  <2>2. i \in DOMAIN events' /\ events'[i] = events[i]
    BY <2>1, AppendRow DEF TypeInv, TypeOK, EventRow
  <2> QED BY <1>2, <2>2 DEF EventsOf
<1> QED BY <1>1, <1>3, <1>4, LedgerStep

\* The row a handler has just written is in the ledger.
LEMMA RowWritten ==
  ASSUME TypeInv, NEW row \in EventRow, events' = Append(events, row)
  PROVE  EventsOf(events', row.corr, row.type) # {}
<1>1. /\ Len(events) + 1 \in DOMAIN events'
      /\ events'[Len(events) + 1] = row
  BY AppendRow DEF TypeInv, TypeOK, EventRow
<1> QED BY <1>1 DEF EventsOf

\* A handler reaches the release only by writing its charge, and reports a
\* success only by writing its release.
LEMMA SettlingStep ==
  ASSUME TypeInv, NEW c \in Calls, NEW d \in Calls, HandlerStep(d)
  PROVE  /\ pc'[c] = "release" => pc[c] = "release" \/ DuplicateCharge(events', c)
         /\ pc'[c] = "success" => \/ pc[c] = "success"
                                  \/ pc[c] = "release" /\ DuplicateRelease(events', c)
<1> USE DEF TypeInv, TypeOK
<1>1. CASE WriteCharge(d)
  <2>1. CASE ChargeRefused(events, d)
    BY <1>1, <2>1 DEF WriteCharge, Goto
  <2>2. CASE ~ChargeRefused(events, d)
    <3>1. PICK j \in DOMAIN events :
            FindReserve(events, d) = events[j] /\ events[j] \in EventRow
      BY <2>2, FoundReserve DEF ChargeRefused, EventRow
    <3> DEFINE row == BuildEvent("charge", events[j].room, -charged[d], d, None, now)
    <3>2. row \in EventRow /\ row.corr = d /\ row.type = "charge"
      BY <3>1 DEF EventRow, Row, BuildEvent, EventTypes
    <3>3. events' = Append(events, row)
      BY <1>1, <2>2, <3>1 DEF WriteCharge, Charge
    <3>4. EventsOf(events', d, "charge") # {}
      BY <3>2, <3>3, RowWritten
    <3> QED BY <1>1, <2>2, <3>4 DEF WriteCharge, Goto, DuplicateCharge
  <2> QED BY <2>1, <2>2
<1>2. CASE WriteRelease(d)
  <2>1. CASE ReleaseRefused(events, d)
    BY <1>2, <2>1 DEF WriteRelease, Goto
  <2>2. CASE ~ReleaseRefused(events, d)
    <3>1. PICK j \in DOMAIN events :
            FindReserve(events, d) = events[j] /\ events[j] \in EventRow
      BY <2>2, FoundReserve DEF ReleaseRefused, EventRow
    <3> DEFINE row == BuildEvent("release", events[j].room, -events[j].amount, d, None, now)
    <3>2. row \in EventRow /\ row.corr = d /\ row.type = "release"
      BY <3>1 DEF EventRow, Row, BuildEvent, EventTypes
    <3>3. events' = Append(events, row)
      BY <1>2, <2>2, <3>1 DEF WriteRelease, Release
    <3>4. EventsOf(events', d, "release") # {}
      BY <3>2, <3>3, RowWritten
    <3> QED BY <1>2, <2>2, <3>4 DEF WriteRelease, Goto, DuplicateRelease
  <2> QED BY <2>1, <2>2
<1>3. CASE WriteReserve(d)
  BY <1>3 DEF WriteReserve, Goto
<1>4. CASE ~WriteCharge(d) /\ ~WriteRelease(d) /\ ~WriteReserve(d)
  BY <1>4 DEF HandlerStep, CheckBalance, CheckDailyCap, CheckMonthlyCap, LlmAnswers, LlmFails,
              LedgerFails, Goto, PreChecking, Settling
<1> QED BY <1>1, <1>2, <1>3, <1>4

\* A state without a power loss has none behind it.
LEMMA PowerLossesStay ==
  ASSUME TypeInv, [Next]_vars, powerLosses' = 0
  PROVE  powerLosses = 0 /\ ~PowerLoss
<1>1. ~PowerLoss
  BY DEF PowerLoss, TypeInv, TypeOK
<1>2. ASSUME NEW d \in Calls, HandlerStep(d) PROVE UNCHANGED powerLosses
  BY <1>2 DEF HandlerStep, CheckBalance, CheckDailyCap, CheckMonthlyCap, WriteReserve, LlmAnswers,
              LlmFails, WriteCharge, WriteRelease, LedgerFails
<1>3. CASE ~\E d \in Calls : HandlerStep(d)
  BY <1>1, <1>3 DEF Next, Start, Credit, AdminReleases, AdminRefunds, Tick, Crash, vars
<1> QED BY <1>1, <1>2, <1>3

LEMMA SettledInvStep ==
  ASSUME TypeInv, SettledInv, [Next]_vars
  PROVE  SettledInv'
<1> SUFFICES ASSUME NEW c \in Calls, powerLosses' = 0
             PROVE  /\ pc'[c] \in {"release", "success"} => DuplicateCharge(events', c)
                    /\ pc'[c] = "success" => DuplicateRelease(events', c)
  BY DEF SettledInv, SettledOf
<1>1. powerLosses = 0 /\ ~PowerLoss
  BY PowerLossesStay
<1>2. /\ pc[c] \in {"release", "success"} => DuplicateCharge(events, c)
      /\ pc[c] = "success" => DuplicateRelease(events, c)
  BY <1>1 DEF SettledInv, SettledOf
<1>3. /\ DuplicateCharge(events, c) => DuplicateCharge(events', c)
      /\ DuplicateRelease(events, c) => DuplicateRelease(events', c)
  BY RowsStay DEF DuplicateCharge, DuplicateRelease
<1>4. CASE \E d \in Calls : HandlerStep(d)
  BY <1>2, <1>3, <1>4, SettlingStep
<1>5. CASE ~\E d \in Calls : HandlerStep(d)
  <2>1. pc'[c] \in {"release", "success"} => pc'[c] = pc[c]
    BY <1>1, <1>5 DEF Next, Start, Goto, Credit, AdminReleases, AdminRefunds, Tick, Crash, KillHandlers,
                      vars, TypeInv, TypeOK
  <2> QED BY <1>2, <1>3, <2>1
<1> QED BY <1>4, <1>5

LEMMA SettledInvariant == Spec => []SettledInv
<1>1. Init => SettledInv
  BY DEF Init, SettledInv, SettledOf
<1>2. TypeInv /\ SettledInv /\ [Next]_vars => SettledInv'
  BY SettledInvStep
<1>3. QED BY <1>1, <1>2, TypeCorrect, PTL DEF Spec

\* Whatever the interleaving, what a handler of run_billed_call is at agrees
\* with what the ledger has of its call: no row of a refused call, the hold of
\* one that runs or is settled, a charge only of an answer, and both
\* settlements of a success.
THEOREM OutcomesAreBooked == Spec => []OutcomeMatchesLedger
<1>1. CallInv => RefusedCallsLeaveNoTrace /\ LlmRunsUnderHold /\ ChargedOnlyForAnswer
  BY DEF CallInv, NoRowsBeforeHold, RefusedCallsLeaveNoTrace, BeforeHold
<1>2. SettledInv => SuccessIsSettled
  BY DEF SettledInv, SettledOf, SuccessIsSettled
<1>3. CallInv /\ SettledInv => OutcomeMatchesLedger
  BY <1>1, <1>2 DEF OutcomeMatchesLedger
<1>4. QED BY <1>3, CallInvariant, SettledInvariant, PTL

-----------------------------------------------------------------------------
(* Conservation of money.                                                  *)

\* The sums of BalanceConservation over the first k rows of the ledger.
OfRoom(r) == {i \in DOMAIN events : events[i].room = r}
OfRoomAndTypes(r, types) == {i \in DOMAIN events : events[i].room = r /\ events[i].type \in types}

BalanceTo(r, k)      == SumUpTo(AmountsOf(events, OfRoom(r)), k)
TotalTo(r, types, k) == SumUpTo(AmountsOf(events, OfRoomAndTypes(r, types)), k)

OpenHoldsTo(r, k) ==
  {i \in 1..k :
     /\ events[i].type = "reserve" /\ events[i].room = r
     /\ \A j \in 1..k : ~(events[j].corr = events[i].corr /\ events[j].type = "release")}

ConservedTo(r, k) ==
  BalanceTo(r, k) =
    TotalTo(r, {"topup", "refund_manual"}, k) + TotalTo(r, {"charge"}, k)
      - ReserveAmount * Cardinality(OpenHoldsTo(r, k))

\* The ledger as a sequence of typed and booked rows.
LEMMA LedgerRows ==
  ASSUME TypeInv
  PROVE  /\ events \in Seq(EventRow)
         /\ Len(events) \in Nat
         /\ DOMAIN events = 1..Len(events)
         /\ \A i \in 1..Len(events) :
              /\ events[i] \in EventRow
              /\ events[i].type \in EventTypes
              /\ events[i].amount \in Int
              /\ Booked(events[i])
<1>1. events \in Seq(EventRow) /\ Len(events) \in Nat /\ DOMAIN events = 1..Len(events)
  BY DEF TypeInv, TypeOK, EventRow
<1>2. \A i \in 1..Len(events) : events[i] \in EventRow
  BY <1>1
<1>3. \A i \in 1..Len(events) : Booked(events[i])
  BY <1>1 DEF TypeInv, RowsBooked
<1> QED BY <1>1, <1>2, <1>3 DEF EventRow, Row

\* Only a reserve opens a hold, in its own room, and only the release of an
\* open hold closes it.
LEMMA OpenHoldsNext ==
  ASSUME TypeInv, LedgerInv, NEW r, NEW k \in Nat, k + 1 <= Len(events)
  PROVE  LET row == events[k + 1] IN
         /\ row.room # r \/ row.type \notin {"reserve", "release"} =>
              OpenHoldsTo(r, k + 1) = OpenHoldsTo(r, k)
         /\ row.room = r /\ row.type = "reserve" =>
              OpenHoldsTo(r, k + 1) = OpenHoldsTo(r, k) \cup {k + 1}
         /\ row.room = r /\ row.type = "release" =>
              \E j \in OpenHoldsTo(r, k) : OpenHoldsTo(r, k + 1) = OpenHoldsTo(r, k) \ {j}
<1> DEFINE n == Len(events)
           row == events[k + 1]
<1>t. /\ n \in Nat /\ DOMAIN events = 1..n
      /\ \A i \in 1..n : Booked(events[i])
  BY LedgerRows
<1>1. \A i, j \in 1..n :
        events[i].corr # None /\ events[i].corr = events[j].corr /\ events[i].type = events[j].type
          => i = j
  BY <1>t DEF LedgerInv, OneRowPerKind
<1>2. \A i \in 1..n : events[i].type \in {"reserve", "release"} => events[i].corr # None
  BY <1>t DEF Booked
<1>3. \A i \in 1..n : events[i].type = "release" =>
        \E j \in 1..(i - 1) :
          events[j].type = "reserve" /\ events[j].corr = events[i].corr /\ events[j].room = events[i].room
  BY <1>t DEF LedgerInv, SettlementFollowsHold
<1>4. k + 1 \in 1..n /\ 1..k \subseteq 1..n /\ 1..(k + 1) = 1..k \cup {k + 1}
  BY <1>t
<1>5. ASSUME row.room # r \/ row.type \notin {"reserve", "release"}
      PROVE  OpenHoldsTo(r, k + 1) = OpenHoldsTo(r, k)
  <2>1. CASE row.type # "release"
    BY <1>4, <1>5, <2>1 DEF OpenHoldsTo
  <2>2. CASE row.type = "release" /\ row.room # r
    <3>1. PICK j \in 1..k :
            events[j].type = "reserve" /\ events[j].corr = row.corr /\ events[j].room = row.room
      BY <1>3, <1>4, <2>2
    <3>2. \A i \in 1..k : events[i].type = "reserve" /\ events[i].corr = row.corr => events[i].room # r
      BY <1>1, <1>2, <1>4, <3>1, <2>2
    <3> QED BY <1>4, <2>2, <3>2 DEF OpenHoldsTo
  <2> QED BY <1>5, <2>1, <2>2
<1>6. ASSUME row.room = r, row.type = "reserve"
      PROVE  OpenHoldsTo(r, k + 1) = OpenHoldsTo(r, k) \cup {k + 1}
  <2>1. \A i \in 1..k : ~(events[i].corr = row.corr /\ events[i].type = "release")
    <3> SUFFICES ASSUME NEW i \in 1..k, events[i].corr = row.corr, events[i].type = "release"
                 PROVE  FALSE
      OBVIOUS
    <3>1. PICK j \in 1..(i - 1) : events[j].type = "reserve" /\ events[j].corr = row.corr
      BY <1>3, <1>4
    <3>2. j \in 1..n /\ j # k + 1 /\ row.corr # None
      BY <1>2, <1>4, <1>6, <3>1
    <3> QED BY <1>1, <1>4, <1>6, <3>1, <3>2
  <2> QED BY <1>4, <1>6, <2>1 DEF OpenHoldsTo
<1>7. ASSUME row.room = r, row.type = "release"
      PROVE  \E j \in OpenHoldsTo(r, k) : OpenHoldsTo(r, k + 1) = OpenHoldsTo(r, k) \ {j}
  <2>1. PICK j \in 1..k :
          events[j].type = "reserve" /\ events[j].corr = row.corr /\ events[j].room = r
    BY <1>3, <1>4, <1>7
  <2>2. \A i \in 1..k : ~(events[i].corr = row.corr /\ events[i].type = "release")
    BY <1>1, <1>2, <1>4, <1>7
  <2>3. j \in OpenHoldsTo(r, k)
    BY <2>1, <2>2 DEF OpenHoldsTo
  <2>4. \A i \in 1..k : events[i].type = "reserve" /\ events[i].corr = row.corr => i = j
    BY <1>1, <1>2, <1>4, <2>1
  <2>5. OpenHoldsTo(r, k + 1) = OpenHoldsTo(r, k) \ {j}
    BY <1>4, <1>7, <2>1, <2>4 DEF OpenHoldsTo
  <2> QED BY <2>3, <2>5
<1> QED BY <1>5, <1>6, <1>7

\* Every prefix of a ledger that keeps the ledger invariants conserves money:
\* an induction over its rows.
LEMMA PrefixConserves ==
  ASSUME TypeInv, LedgerInv, NEW r
  PROVE  \A k \in Nat : k <= Len(events) =>
           ConservedTo(r, k) /\ IsFiniteSet(OpenHoldsTo(r, k))
<1> DEFINE n == Len(events)
           paid == {"topup", "refund_manual"}
           S == {k \in Nat : k <= n => ConservedTo(r, k) /\ IsFiniteSet(OpenHoldsTo(r, k))}
           b == AmountsOf(events, OfRoom(r))
           p == AmountsOf(events, OfRoomAndTypes(r, paid))
           c == AmountsOf(events, OfRoomAndTypes(r, {"charge"}))
<1>t. /\ n \in Nat /\ DOMAIN events = 1..n
      /\ \A i \in 1..n : /\ events[i].type \in EventTypes
                         /\ events[i].amount \in Int
                         /\ Booked(events[i])
  BY LedgerRows
<1>a. \A i \in 1..n :
        /\ b[i] = IF events[i].room = r THEN events[i].amount ELSE 0
        /\ p[i] = IF events[i].room = r /\ events[i].type \in paid THEN events[i].amount ELSE 0
        /\ c[i] = IF events[i].room = r /\ events[i].type = "charge" THEN events[i].amount ELSE 0
  BY <1>t DEF AmountsOf, OfRoom, OfRoomAndTypes
<1>1. 0 \in S
  <2>1. OpenHoldsTo(r, 0) = {}
    BY DEF OpenHoldsTo
  <2>2. BalanceTo(r, 0) = 0 /\ TotalTo(r, paid, 0) = 0 /\ TotalTo(r, {"charge"}, 0) = 0
    BY SumEmpty DEF BalanceTo, TotalTo
  <2>3. ReserveAmount * Cardinality(OpenHoldsTo(r, 0)) = 0 /\ IsFiniteSet(OpenHoldsTo(r, 0))
    BY <2>1, FS_EmptySet, AmountAssumption
  <2> QED BY <2>2, <2>3 DEF ConservedTo
<1>2. ASSUME NEW k \in Nat, k \in S PROVE k + 1 \in S
  <2> SUFFICES ASSUME k + 1 <= n
               PROVE  ConservedTo(r, k + 1) /\ IsFiniteSet(OpenHoldsTo(r, k + 1))
    OBVIOUS
  <2> DEFINE row == events[k + 1]
             O == OpenHoldsTo(r, k)
             Next1 == OpenHoldsTo(r, k + 1)
  <2>0. k + 1 \in 1..n
    BY <1>t
  <2>1. ConservedTo(r, k) /\ IsFiniteSet(O)
    BY <1>2
  <2>2. /\ BalanceTo(r, k + 1) = BalanceTo(r, k) + b[k + 1]
        /\ TotalTo(r, paid, k + 1) = TotalTo(r, paid, k) + p[k + 1]
        /\ TotalTo(r, {"charge"}, k + 1) = TotalTo(r, {"charge"}, k) + c[k + 1]
    BY SumNext DEF BalanceTo, TotalTo
  <2>3. /\ BalanceTo(r, k) \in Int
        /\ TotalTo(r, paid, k) \in Int
        /\ TotalTo(r, {"charge"}, k) \in Int
    <3>1. \A i \in 1..n : b[i] \in Int /\ p[i] \in Int /\ c[i] \in Int
      BY <1>a, <1>t
    <3>2. k \in 0..n
      BY <2>0
    <3> HIDE DEF b, p, c
    <3>3. SumUpTo(b, k) \in Int /\ SumUpTo(p, k) \in Int /\ SumUpTo(c, k) \in Int
      BY <1>t, <3>1, <3>2, SumType
    <3> USE DEF b, p, c
    <3> QED BY <3>3 DEF BalanceTo, TotalTo
  <2>4. Cardinality(O) \in Nat /\ ReserveAmount \in Nat
    BY <2>1, FS_CardinalityType, AmountAssumption
  <2>5. CASE row.room # r \/ row.type \notin {"reserve", "release"}
    <3>1. Next1 = O
      BY <2>5, OpenHoldsNext
    <3>2. b[k + 1] = p[k + 1] + c[k + 1]
      BY <2>0, <2>5, <1>a, <1>t DEF EventTypes
    <3>3. p[k + 1] \in Int /\ c[k + 1] \in Int
      BY <2>0, <1>a, <1>t
    <3> HIDE DEF b, p, c, O
    <3> QED BY <2>1, <2>2, <2>3, <2>4, <3>1, <3>2, <3>3 DEF ConservedTo, O
  <2>6. CASE row.room = r /\ row.type = "reserve"
    <3>1. Next1 = O \cup {k + 1}
      BY <2>6, OpenHoldsNext
    <3>o. k + 1 \notin O
      BY DEF OpenHoldsTo
    <3>2. IsFiniteSet(Next1) /\ Cardinality(Next1) = Cardinality(O) + 1
      BY <2>1, <3>1, <3>o, FS_AddElement
    <3>3. b[k + 1] = -ReserveAmount /\ p[k + 1] = 0 /\ c[k + 1] = 0
      BY <2>0, <2>6, <1>a, <1>t DEF Booked
    <3> HIDE DEF b, p, c, O, Next1
    <3>4. ReserveAmount * (Cardinality(O) + 1) = ReserveAmount * Cardinality(O) + ReserveAmount
      BY <2>4
    <3> QED BY <2>1, <2>2, <2>3, <2>4, <3>2, <3>3, <3>4 DEF ConservedTo, O, Next1
  <2>7. CASE row.room = r /\ row.type = "release"
    <3>1. PICK j \in O : Next1 = O \ {j}
      BY <2>7, OpenHoldsNext
    <3>2. /\ IsFiniteSet(Next1) /\ Cardinality(Next1) \in Nat
          /\ Cardinality(Next1) = Cardinality(O) - 1
      BY <2>1, <3>1, FS_RemoveElement, FS_CardinalityType
    <3>3. b[k + 1] = ReserveAmount /\ p[k + 1] = 0 /\ c[k + 1] = 0
      BY <2>0, <2>7, <1>a, <1>t DEF Booked
    <3> HIDE DEF b, p, c, O, Next1
    <3>4. ReserveAmount * (Cardinality(O) - 1) = ReserveAmount * Cardinality(O) - ReserveAmount
      BY <2>4
    <3> QED BY <2>1, <2>2, <2>3, <2>4, <3>2, <3>3, <3>4 DEF ConservedTo, O, Next1
  <2> QED BY <2>5, <2>6, <2>7
<1> HIDE DEF S
<1>3. \A k \in Nat : k \in S
  BY <1>1, <1>2, SetInduction
<1> QED BY <1>3 DEF S

\* Money is neither created nor lost: in every reachable state the balance of
\* a room is what was paid in, less what was charged, less the holds still
\* open, whatever settlements, manual releases, crashes and power losses
\* interleaved.
THEOREM MoneyIsConserved == Spec => []BalanceConservation
<1>1. ASSUME TypeInv, LedgerInv PROVE BalanceConservation
  <2> SUFFICES ASSUME NEW r \in Rooms
               PROVE  ComputeBalance(events, r) =
                        Total(r, {"topup", "refund_manual"}) + Total(r, {"charge"})
                          - ReserveAmount * Cardinality(OpenHolds(r))
    BY DEF BalanceConservation
  <2> DEFINE n == Len(events)
  <2>1. n \in Nat /\ DOMAIN events = 1..n
    BY <1>1, LedgerRows
  <2>2. ConservedTo(r, n)
    BY <1>1, <2>1, PrefixConserves
  <2>3. OpenHolds(r) = OpenHoldsTo(r, n)
    BY <2>1 DEF OpenHolds, OpenHoldsTo, EventsOf
  <2>4. /\ ComputeBalance(events, r) = BalanceTo(r, n)
        /\ \A types : Total(r, types) = TotalTo(r, types, n)
    BY DEF ComputeBalance, Total, SumAmounts, BalanceTo, TotalTo, OfRoom, OfRoomAndTypes
  <2> QED BY <2>2, <2>3, <2>4 DEF ConservedTo
<1> QED BY <1>1, TypeCorrect, LedgerInvariant, PTL

-----------------------------------------------------------------------------
(* How many handlers are at work.                                          *)

Busy == {c \in Calls : pc[c] \in InFlight}

ConcurrencyInv == IsFiniteSet(Busy) /\ Cardinality(Busy) <= MaxConcurrent

\* Only Start makes a call busy.
LEMMA BusyStep ==
  ASSUME TypeInv, [Next]_vars
  PROVE  \/ Busy' \subseteq Busy
         \/ \E c \in Calls : Cardinality(Busy) < MaxConcurrent /\ Busy' = Busy \cup {c}
<1> USE DEF Busy, Goto, InFlight, PreChecking, Settling
<1>t. pc \in [Calls -> {"idle"} \cup InFlight \cup Outcomes]
  BY DEF TypeInv, TypeOK
<1>1. ASSUME NEW c \in Calls, HandlerStep(c) PROVE Busy' \subseteq Busy
  BY <1>1, <1>t DEF HandlerStep, CheckBalance, CheckDailyCap, CheckMonthlyCap, WriteReserve,
                    LlmAnswers, LlmFails, WriteCharge, WriteRelease, LedgerFails
<1>2. ASSUME NEW c \in Calls, NEW r \in Rooms, Start(c, r)
      PROVE  Cardinality(Busy) < MaxConcurrent /\ Busy' = Busy \cup {c}
  BY <1>2, <1>t DEF Start
<1>3. CASE Crash \/ PowerLoss
  BY <1>3 DEF Crash, PowerLoss, KillHandlers
<1>4. CASE UNCHANGED pc
  BY <1>4
<1> QED
  BY <1>1, <1>2, <1>3, <1>4 DEF Next, Credit, AdminReleases, AdminRefunds, Tick, vars

LEMMA ConcurrencyInvariant == Spec => []ConcurrencyInv
<1>1. Init => ConcurrencyInv
  <2> SUFFICES ASSUME Init PROVE ConcurrencyInv
    OBVIOUS
  <2>1. Busy = {}
    BY DEF Init, Busy, InFlight, PreChecking, Settling
  <2> QED BY <2>1, FS_EmptySet, BoundAssumption DEF ConcurrencyInv
<1>2. ASSUME TypeInv, ConcurrencyInv, [Next]_vars PROVE ConcurrencyInv'
  <2>0. IsFiniteSet(Busy) /\ Cardinality(Busy) \in Nat
    BY <1>2, FS_CardinalityType DEF ConcurrencyInv
  <2>1. CASE Busy' \subseteq Busy
    <3>1. IsFiniteSet(Busy') /\ Cardinality(Busy') <= Cardinality(Busy)
      BY <2>0, <2>1, FS_Subset
    <3>2. Cardinality(Busy') \in Nat
      BY <3>1, FS_CardinalityType
    <3> QED BY <1>2, <2>0, <3>1, <3>2, BoundAssumption DEF ConcurrencyInv
  <2>2. ASSUME NEW c \in Calls, Cardinality(Busy) < MaxConcurrent, Busy' = Busy \cup {c}
        PROVE  ConcurrencyInv'
    BY <2>0, <2>2, FS_AddElement, BoundAssumption DEF ConcurrencyInv
  <2> QED BY <1>2, <2>1, <2>2, BusyStep
<1>3. QED BY <1>1, <1>2, TypeCorrect, PTL DEF Spec

-----------------------------------------------------------------------------
(* What an appended row does to the balances.                              *)

LEMMA BalanceType ==
  ASSUME TypeInv, NEW r
  PROVE  ComputeBalance(events, r) \in Int
  BY LedgerRows, SumOfRows DEF ComputeBalance

LEMMA BalanceAfter ==
  ASSUME TypeInv, NEW row \in EventRow, events' = Append(events, row), NEW r
  PROVE  ComputeBalance(events', r) =
           ComputeBalance(events, r) + IF row.room = r THEN row.amount ELSE 0
<1> DEFINE n == Len(events)
           after == {i \in DOMAIN events' : events'[i].room = r}
<1>t. events \in Seq(EventRow) /\ n \in Nat /\ DOMAIN events = 1..n
  BY LedgerRows
<1>1. /\ DOMAIN events' = 1..(n + 1)
      /\ \A i \in 1..n : events'[i] = events[i]
      /\ events'[n + 1] = row
  BY <1>t, AppendRow
<1>2. \A i \in 1..n : i \in OfRoom(r) <=> i \in after
  BY <1>t, <1>1 DEF OfRoom
<1>3. n + 1 \in after <=> row.room = r
  BY <1>t, <1>1
<1> HIDE DEF after
<1>4. SumAmounts(Append(events, row), after) =
        SumAmounts(events, OfRoom(r)) + IF n + 1 \in after THEN row.amount ELSE 0
  BY <1>t, <1>2, SumInsert
<1>5. /\ ComputeBalance(events, r) = SumAmounts(events, OfRoom(r))
      /\ ComputeBalance(events', r) = SumAmounts(Append(events, row), after)
  BY DEF ComputeBalance, OfRoom, after
<1> QED BY <1>3, <1>4, <1>5

-----------------------------------------------------------------------------
(* The dearest charge.                                                     *)

LEMMA DearestCharge ==
  /\ MaxCharge \in Nat
  /\ \A a \in ChargeAmounts : a <= MaxCharge
<1>1. PICK most \in ChargeAmounts : \A a \in ChargeAmounts : most >= a
  BY DearestAssumption, AmountAssumption
<1>2. MaxCharge \in ChargeAmounts /\ \A a \in ChargeAmounts : MaxCharge >= a
  BY <1>1 DEF MaxCharge, Max
<1> QED BY <1>2, AmountAssumption

LEMMA MinOfTwo ==
  ASSUME NEW x \in Int, NEW y \in Int
  PROVE  Min({x, y}) \in {x, y} /\ Min({x, y}) <= x /\ Min({x, y}) <= y
<1>1. \E m \in {x, y} : \A n \in {x, y} : m <= n
  <2>1. CASE x <= y
    BY <2>1
  <2>2. CASE y <= x
    BY <2>2
  <2> QED BY <2>1, <2>2
<1> QED BY <1>1 DEF Min

LEMMA MaxOfTwo ==
  ASSUME NEW x \in Int, NEW y \in Int
  PROVE  Max({x, y}) \in {x, y} /\ Max({x, y}) >= x /\ Max({x, y}) >= y
<1>1. \E m \in {x, y} : \A n \in {x, y} : m >= n
  <2>1. CASE x <= y
    BY <2>1
  <2>2. CASE y <= x
    BY <2>2
  <2> QED BY <2>1, <2>2
<1> QED BY <1>1 DEF Max

\* A larger number of calls is a larger multiple of what one can cost.
LEMMA LargerMultiple ==
  ASSUME NEW a \in Nat, NEW b \in Nat, a <= b, NEW x \in Nat
  PROVE  a * x <= b * x /\ a * x \in Nat /\ b * x \in Nat
<1>1. PICK d \in Nat : b = a + d
  BY (b - a) \in Nat /\ b = a + (b - a)
<1>2. a * x \in Nat /\ d * x \in Nat /\ (a + d) * x = a * x + d * x
  OBVIOUS
<1> QED BY <1>1, <1>2

-----------------------------------------------------------------------------
(* Overdraft.                                                              *)

\* The calls of a room that may still take a hold and a charge from its
\* balance, and those that may still take a charge.
BeforeReserve == {"daily", "monthly", "reserve"}
BeforeCharge  == {"llm", "charge"}

ToHold(r)   == {c \in Calls : pc[c] \in BeforeReserve /\ room[c] = r}
ToCharge(r) == {c \in Calls : pc[c] \in BeforeCharge /\ room[c] = r}

Exposure(r) ==
  Cardinality(ToHold(r)) * (ReserveAmount + MaxCharge) + Cardinality(ToCharge(r)) * MaxCharge

Floor == Min({ReserveAmount - MaxConcurrent * (ReserveAmount + MaxCharge), 0})

\* The balance stays above the floor even when all of them take what they may.
OverdraftInv ==
  powerLosses = 0 => \A r \in Rooms : ComputeBalance(events, r) - Exposure(r) >= Floor

\* What a handler's step does to the ledger and to the handler, by what it
\* means for the money of its room.
LEMMA HandlerMoney ==
  ASSUME TypeInv, LedgerInv, CallInv, NEW c \in Calls, HandlerStep(c)
  PROVE  /\ UNCHANGED <<room, now, powerLosses>>
         /\ \A d \in Calls : d # c => pc'[d] = pc[d]
         /\ \/ /\ pc[c] = "balance" /\ pc'[c] = "daily" /\ UNCHANGED events
               /\ ComputeBalance(events, room[c]) >= ReserveAmount
            \/ /\ pc[c] = "reserve" /\ pc'[c] = "llm"
               /\ \E row \in EventRow :
                    /\ events' = Append(events, row) /\ row.type = "reserve"
                    /\ row.room = room[c] /\ row.amount = -ReserveAmount
            \/ /\ pc[c] = "charge" /\ pc'[c] = "release"
               /\ \E row \in EventRow :
                    /\ events' = Append(events, row) /\ row.type = "charge"
                    /\ row.room = room[c] /\ -row.amount \in ChargeAmounts /\ row.at = now
            \/ /\ pc'[c] \in BeforeReserve => pc[c] \in BeforeReserve
               /\ pc'[c] \in BeforeCharge => pc[c] \in BeforeCharge
               /\ \/ UNCHANGED events
                  \/ \E row \in EventRow :
                       events' = Append(events, row) /\ row.type = "release" /\ row.amount = ReserveAmount
<1> USE DEF BeforeReserve, BeforeCharge, Goto
<1>f. /\ pc \in [Calls -> {"idle"} \cup InFlight \cup Outcomes]
      /\ room \in [Calls -> Rooms \cup {None}] /\ now \in Nat
      /\ \A d \in Calls : charged[d] \in Nat
      /\ \A d \in Calls : pc[d] # "idle" => room[d] \in Rooms
      /\ \A d \in Calls : pc[d] = "charge" => charged[d] \in ChargeAmounts
  BY DEF TypeInv, TypeOK, RoomKnown, ChargeKnown
<1>t. events \in Seq(EventRow) /\ DOMAIN events = 1..Len(events)
  BY LedgerRows
<1>0. /\ UNCHANGED <<room, now, powerLosses>>
      /\ \A d \in Calls : d # c => pc'[d] = pc[d]
  BY <1>f DEF HandlerStep, CheckBalance, CheckDailyCap, CheckMonthlyCap, WriteReserve,
              LlmAnswers, LlmFails, WriteCharge, WriteRelease, LedgerFails
<1>1. CASE CheckBalance(c)
  <2>1. ComputeBalance(events, room[c]) \in Int /\ ReserveAmount \in Int
    BY BalanceType, AmountAssumption
  <2> QED BY <1>0, <1>1, <1>f, <2>1 DEF CheckBalance
<1>2. CASE WriteReserve(c)
  <2>1. CASE DuplicateReserve(events, c)
    BY <1>0, <1>2, <1>f, <2>1 DEF WriteReserve
  <2>2. CASE ~DuplicateReserve(events, c)
    <3> DEFINE row == BuildEvent("reserve", room[c], -ReserveAmount, c, None, now)
    <3>1. row \in EventRow
      BY <1>2, <1>f, AmountAssumption DEF WriteReserve, EventRow, Row, BuildEvent, EventTypes
    <3>2. events' = Append(events, row) /\ pc[c] = "reserve" /\ pc'[c] = "llm"
      BY <1>2, <1>f, <2>2 DEF WriteReserve, Reserve
    <3>3. row.type = "reserve" /\ row.room = room[c] /\ row.amount = -ReserveAmount
      BY DEF BuildEvent
    <3> QED BY <1>0, <3>1, <3>2, <3>3
  <2> QED BY <2>1, <2>2
<1>3. CASE WriteCharge(c)
  <2>1. CASE ChargeRefused(events, c)
    BY <1>0, <1>3, <1>f, <2>1 DEF WriteCharge
  <2>2. CASE ~ChargeRefused(events, c)
    <3>1. PICK j \in DOMAIN events :
            /\ FindReserve(events, c) = events[j]
            /\ events[j].type = "reserve"
            /\ events[j].corr = c
            /\ events[j] \in EventRow
      BY <2>2, <1>t, FoundReserve DEF ChargeRefused
    <3>2. events[j].room = room[c]
      <4>1. PICK i \in EventsOf(events, c, "reserve") : events[i].room = room[c]
        BY <1>3 DEF CallInv, LlmRunsUnderHold, WriteCharge, Settling
      <4>2. i = j
        BY <3>1, <4>1, IdAssumption DEF LedgerInv, OneRowPerKind, EventsOf
      <4> QED BY <4>1, <4>2
    <3> DEFINE row == BuildEvent("charge", events[j].room, -charged[c], c, None, now)
    <3>3. row \in EventRow
      BY <3>1, <1>f DEF EventRow, Row, BuildEvent, EventTypes
    <3>4. events' = Append(events, row) /\ pc[c] = "charge" /\ pc'[c] = "release"
      BY <1>3, <1>f, <2>2, <3>1 DEF WriteCharge, Charge
    <3>5. row.type = "charge" /\ row.room = room[c] /\ row.at = now /\ -row.amount \in ChargeAmounts
      BY <1>f, <3>2, <3>4 DEF BuildEvent
    <3> QED BY <1>0, <3>3, <3>4, <3>5
  <2> QED BY <2>1, <2>2
<1>4. CASE WriteRelease(c)
  <2>1. CASE ReleaseRefused(events, c)
    BY <1>0, <1>4, <1>f, <2>1 DEF WriteRelease
  <2>2. CASE ~ReleaseRefused(events, c)
    <3>1. PICK j \in DOMAIN events :
            /\ FindReserve(events, c) = events[j]
            /\ events[j].type = "reserve"
            /\ events[j] \in EventRow
      BY <2>2, <1>t, FoundReserve DEF ReleaseRefused
    <3>2. -events[j].amount = ReserveAmount
      BY <1>t, <3>1, LedgerRows, AmountAssumption DEF Booked
    <3> DEFINE row == BuildEvent("release", events[j].room, -events[j].amount, c, None, now)
    <3>3. row \in EventRow
      BY <3>1, <1>f DEF EventRow, Row, BuildEvent, EventTypes
    <3>4. events' = Append(events, row) /\ pc'[c] = "success"
      BY <1>4, <1>f, <2>2, <3>1 DEF WriteRelease, Release
    <3>5. row.type = "release" /\ row.amount = ReserveAmount
      BY <3>2 DEF BuildEvent
    <3> QED BY <1>0, <3>3, <3>4, <3>5
  <2> QED BY <2>1, <2>2
<1>5. CASE CheckDailyCap(c) \/ CheckMonthlyCap(c)
  BY <1>0, <1>5, <1>f DEF CheckDailyCap, CheckMonthlyCap
<1>6. CASE (\E a \in ChargeAmounts : LlmAnswers(c, a)) \/ LlmFails(c) \/ LedgerFails(c)
  BY <1>0, <1>6, <1>f DEF LlmAnswers, LlmFails, LedgerFails, PreChecking, Settling
<1> QED BY <1>1, <1>2, <1>3, <1>4, <1>5, <1>6 DEF HandlerStep

\* What the steps of everybody else do: they move no handler closer to its
\* hold or its charge, and only give rooms money.
LEMMA OthersMoney ==
  ASSUME TypeInv, [Next]_vars, ~\E c \in Calls : HandlerStep(c)
  PROVE  /\ \A c \in Calls : pc'[c] = pc[c] \/ pc'[c] \in {"balance", "killed"}
         /\ \A c \in Calls : pc'[c] = "balance" \/ room'[c] = room[c]
         /\ \/ PowerLoss
            \/ UNCHANGED events
            \/ \E row \in EventRow :
                 events' = Append(events, row) /\ row.type # "charge" /\ row.amount >= 0
<1>f. /\ pc \in [Calls -> {"idle"} \cup InFlight \cup Outcomes]
      /\ room \in [Calls -> Rooms \cup {None}] /\ now \in Nat
  BY DEF TypeInv, TypeOK
<1>1. ASSUME NEW c \in Calls, NEW r \in Rooms, Start(c, r)
      PROVE  /\ \A d \in Calls : pc'[d] = pc[d] \/ pc'[d] = "balance"
             /\ \A d \in Calls : pc'[d] = "balance" \/ room'[d] = room[d]
             /\ UNCHANGED events
  BY <1>1, <1>f DEF Start, Goto
<1>2. ASSUME NEW r \in Rooms, NEW a \in CreditAmounts, NEW p \in Payments, Credit(r, a, p)
      PROVE  /\ UNCHANGED <<pc, room>>
             /\ \E row \in EventRow :
                  events' = Append(events, row) /\ row.type # "charge" /\ row.amount >= 0
  <2> DEFINE row == BuildEvent("topup", r, a, None, p, now)
  <2>1. row \in EventRow /\ row.type # "charge" /\ row.amount >= 0
    BY AmountAssumption, <1>f DEF EventRow, Row, BuildEvent, EventTypes
  <2> QED BY <1>2, <2>1 DEF Credit, Topup
<1>3. ASSUME NEW id \in DOMAIN events, AdminReleases(id)
      PROVE  /\ UNCHANGED <<pc, room>>
             /\ \E row \in EventRow :
                  events' = Append(events, row) /\ row.type # "charge" /\ row.amount >= 0
  <2> DEFINE row == BuildEvent("release", events[id].room, -events[id].amount, events[id].corr, None, now)
  <2>1. /\ events[id] \in EventRow /\ events[id].type = "reserve"
        /\ events[id].amount = -ReserveAmount
    BY <1>3, LedgerRows DEF AdminReleases, ManualReleaseRefused, Booked
  <2>2. row \in EventRow /\ row.type # "charge" /\ row.amount >= 0
    BY AmountAssumption, <1>f, <2>1 DEF EventRow, Row, BuildEvent, EventTypes
  <2> QED BY <1>3, <2>2 DEF AdminReleases, ManualRelease
<1>4. ASSUME NEW r \in Rooms, NEW a \in CreditAmounts, AdminRefunds(r, a)
      PROVE  /\ UNCHANGED <<pc, room>>
             /\ \E row \in EventRow :
                  events' = Append(events, row) /\ row.type # "charge" /\ row.amount >= 0
  <2> DEFINE row == BuildEvent("refund_manual", r, a, None, None, now)
  <2>1. row \in EventRow /\ row.type # "charge" /\ row.amount >= 0
    BY AmountAssumption, <1>f DEF EventRow, Row, BuildEvent, EventTypes
  <2> QED BY <1>4, <2>1 DEF AdminRefunds, ManualRefund
<1>5. CASE Crash \/ PowerLoss
  BY <1>5 DEF Crash, PowerLoss, KillHandlers
<1>6. CASE Tick \/ UNCHANGED vars
  BY <1>6 DEF Tick, vars
<1> QED BY <1>1, <1>2, <1>3, <1>4, <1>5, <1>6 DEF Next

LEMMA RoomCounts ==
  ASSUME ConcurrencyInv, NEW r
  PROVE  /\ IsFiniteSet(ToHold(r)) /\ Cardinality(ToHold(r)) \in Nat
         /\ IsFiniteSet(ToCharge(r)) /\ Cardinality(ToCharge(r)) \in Nat
         /\ Cardinality(ToHold(r)) + Cardinality(ToCharge(r)) <= MaxConcurrent
<1>1. IsFiniteSet(Busy) /\ Cardinality(Busy) \in Nat /\ Cardinality(Busy) <= MaxConcurrent
  BY FS_CardinalityType DEF ConcurrencyInv
<1>2. /\ ToHold(r) \subseteq Busy /\ ToCharge(r) \subseteq Busy
      /\ ToHold(r) \cup ToCharge(r) \subseteq Busy
      /\ ToHold(r) \cap ToCharge(r) = {}
  BY DEF ToHold, ToCharge, Busy, BeforeReserve, BeforeCharge, InFlight, PreChecking, Settling
<1>3. /\ IsFiniteSet(ToHold(r)) /\ IsFiniteSet(ToCharge(r))
      /\ Cardinality(ToHold(r) \cup ToCharge(r)) <= Cardinality(Busy)
  BY <1>1, <1>2, FS_Subset
<1>4. /\ Cardinality(ToHold(r) \cup ToCharge(r)) =
           Cardinality(ToHold(r)) + Cardinality(ToCharge(r)) - Cardinality(ToHold(r) \cap ToCharge(r))
      /\ Cardinality(ToHold(r) \cap ToCharge(r)) = 0
  BY <1>2, <1>3, FS_Union, FS_EmptySet
<1>5. Cardinality(ToHold(r)) \in Nat /\ Cardinality(ToCharge(r)) \in Nat
  BY <1>3, FS_CardinalityType
<1> QED BY <1>1, <1>3, <1>4, <1>5, BoundAssumption

\* At most MaxConcurrent calls may take something, in a state and in the next.
CountsBounded ==
  \A r : /\ Cardinality(ToHold(r)) \in Nat
         /\ Cardinality(ToCharge(r)) \in Nat
         /\ Cardinality(ToHold(r)) + Cardinality(ToCharge(r)) <= MaxConcurrent

LEMMA RoomCountsBounded == ConcurrencyInv => CountsBounded
  BY RoomCounts DEF CountsBounded

LEMMA RoomCountsNext == ConcurrencyInv' => CountsBounded'
  BY RoomCountsBounded, PTL

\* What a call may take is a multiple of what one call may take.
LEMMA ExposureBounded ==
  ASSUME NEW a \in Nat, NEW b \in Nat, NEW m \in Nat, a + b <= m
  PROVE  /\ a * (ReserveAmount + MaxCharge) + b * MaxCharge <= m * (ReserveAmount + MaxCharge)
         /\ a * (ReserveAmount + MaxCharge) + b * MaxCharge \in Nat
<1> DEFINE x == ReserveAmount + MaxCharge
<1>1. ReserveAmount \in Nat /\ MaxCharge \in Nat /\ x \in Nat
  BY AmountAssumption, DearestCharge
<1>2. b * ReserveAmount \in Nat /\ b * MaxCharge \in Nat /\ b * x = b * ReserveAmount + b * MaxCharge
  BY <1>1
<1>3. a * x \in Nat /\ (a + b) * x = a * x + b * x
  BY <1>1
<1>4. (a + b) * x <= m * x /\ m * x \in Nat
  <2> HIDE DEF x
  <2> QED BY <1>1, LargerMultiple
<1> QED BY <1>2, <1>3, <1>4

LEMMA FloorIs ==
  /\ Floor \in Int /\ Floor <= 0
  /\ Floor <= ReserveAmount - MaxConcurrent * (ReserveAmount + MaxCharge)
  /\ MaxConcurrent * (ReserveAmount + MaxCharge) \in Nat
<1>1. MaxConcurrent * (ReserveAmount + MaxCharge) \in Nat
  BY AmountAssumption, DearestCharge, BoundAssumption, LargerMultiple
<1>2. ReserveAmount - MaxConcurrent * (ReserveAmount + MaxCharge) \in Int
  BY <1>1, AmountAssumption
<1> QED BY <1>1, <1>2, MinOfTwo DEF Floor

\* A step that takes no call of the room further, and no money from it, keeps
\* the invariant.
LEMMA NothingTaken ==
  ASSUME ConcurrencyInv, NEW r,
         ToHold(r)' \subseteq ToHold(r), ToCharge(r)' \subseteq ToCharge(r)
  PROVE  Exposure(r) \in Int /\ Exposure(r)' \in Int /\ Exposure(r)' <= Exposure(r)
<1> DEFINE a == Cardinality(ToHold(r))
           b == Cardinality(ToCharge(r))
           a2 == Cardinality(ToHold(r)')
           b2 == Cardinality(ToCharge(r)')
           x == ReserveAmount + MaxCharge
           y == MaxCharge
<1>1. a \in Nat /\ b \in Nat
  BY RoomCounts
<1>2. IsFiniteSet(ToHold(r)') /\ IsFiniteSet(ToCharge(r)') /\ a2 <= a /\ b2 <= b
  BY RoomCounts, FS_Subset
<1>3. a2 \in Nat /\ b2 \in Nat
  BY <1>2, FS_CardinalityType
<1>4. x \in Nat /\ y \in Nat
  BY AmountAssumption, DearestCharge
<1>5. Exposure(r) = a * x + b * y /\ Exposure(r)' = a2 * x + b2 * y
  BY DEF Exposure, MaxCharge
<1> HIDE DEF a, b, a2, b2, x, y
<1>6. /\ a2 * x <= a * x /\ a2 * x \in Nat /\ a * x \in Nat
      /\ b2 * y <= b * y /\ b2 * y \in Nat /\ b * y \in Nat
  BY <1>1, <1>2, <1>3, <1>4, LargerMultiple
<1> QED BY <1>5, <1>6

LEMMA OverdraftInvStep ==
  ASSUME TypeInv, LedgerInv, CallInv, ConcurrencyInv, ConcurrencyInv', OverdraftInv, [Next]_vars
  PROVE  OverdraftInv'
<1> SUFFICES ASSUME powerLosses' = 0, NEW r \in Rooms
             PROVE  ComputeBalance(events', r) - Exposure(r)' >= Floor
  BY DEF OverdraftInv, Floor, MaxCharge
<1> DEFINE R == ReserveAmount
           M == MaxCharge
           a == Cardinality(ToHold(r))
           b == Cardinality(ToCharge(r))
           a2 == Cardinality(ToHold(r)')
           b2 == Cardinality(ToCharge(r)')
           bal == ComputeBalance(events, r)
           bal2 == ComputeBalance(events', r)
<1>p. powerLosses = 0 /\ ~PowerLoss
  BY PowerLossesStay
<1>b. bal - Exposure(r) >= Floor
  BY <1>p DEF OverdraftInv
<1>n. R \in Nat /\ M \in Nat /\ MaxConcurrent \in Nat
  BY AmountAssumption, DearestCharge, BoundAssumption
<1>c. /\ IsFiniteSet(ToHold(r)) /\ IsFiniteSet(ToCharge(r))
      /\ a \in Nat /\ b \in Nat /\ a2 \in Nat /\ b2 \in Nat
      /\ a + b <= MaxConcurrent /\ a2 + b2 <= MaxConcurrent
  BY RoomCounts, RoomCountsNext DEF CountsBounded
<1>e. /\ Exposure(r) = a * (R + M) + b * M
      /\ Exposure(r)' = a2 * (R + M) + b2 * M
      /\ Exposure(r) \in Nat /\ Exposure(r)' \in Nat
  BY <1>c, ExposureBounded DEF Exposure, MaxCharge
<1>i. bal \in Int /\ Floor \in Int
  BY BalanceType, FloorIs
<1>k. ASSUME ToHold(r)' \subseteq ToHold(r), ToCharge(r)' \subseteq ToCharge(r),
             bal2 \in Int, bal2 >= bal
      PROVE  bal2 - Exposure(r)' >= Floor
  BY <1>k, <1>b, <1>i, NothingTaken
<1>u. UNCHANGED events => bal2 \in Int /\ bal2 >= bal
  BY <1>i
<1>w. ASSUME NEW row \in EventRow, events' = Append(events, row), row.amount >= 0
      PROVE  bal2 \in Int /\ bal2 >= bal
  BY <1>w, <1>i, BalanceAfter DEF EventRow, Row
<1>1. ASSUME NEW c \in Calls, HandlerStep(c)
      PROVE  bal2 - Exposure(r)' >= Floor
  <2>0. /\ UNCHANGED <<room, now, powerLosses>>
        /\ \A d \in Calls : d # c => pc'[d] = pc[d]
    BY <1>1, HandlerMoney
  <2>1. CASE /\ pc[c] = "balance" /\ pc'[c] = "daily" /\ UNCHANGED events
             /\ ComputeBalance(events, room[c]) >= ReserveAmount
    <3>1. CASE room[c] # r
      <4>1. ToHold(r)' \subseteq ToHold(r) /\ ToCharge(r)' \subseteq ToCharge(r)
        BY <2>0, <2>1, <3>1 DEF ToHold, ToCharge, BeforeReserve, BeforeCharge
      <4> QED BY <1>i, <1>k, <2>1, <4>1
    <3>2. CASE room[c] = r
      <4>1. bal2 = bal /\ bal >= R
        BY <2>1, <3>2
      <4>2. a2 * (R + M) + b2 * M <= MaxConcurrent * (R + M)
        BY <1>c, <1>n, ExposureBounded
      <4>3. Floor <= R - MaxConcurrent * (R + M) /\ MaxConcurrent * (R + M) \in Nat
        BY FloorIs
      <4> HIDE DEF a, b, a2, b2, R, M, bal, bal2
      <4> QED BY <1>e, <1>i, <1>n, <4>1, <4>2, <4>3
    <3> QED BY <3>1, <3>2
  <2>2. ASSUME pc[c] = "reserve", pc'[c] = "llm",
               NEW row \in EventRow, events' = Append(events, row),
               row.room = room[c], row.amount = -ReserveAmount
        PROVE  bal2 - Exposure(r)' >= Floor
    <3>1. CASE room[c] # r
      <4>1. ToHold(r)' \subseteq ToHold(r) /\ ToCharge(r)' \subseteq ToCharge(r)
        BY <2>0, <2>2, <3>1 DEF ToHold, ToCharge, BeforeReserve, BeforeCharge
      <4>2. bal2 = bal
        BY <1>i, <2>2, <3>1, BalanceAfter
      <4> QED BY <1>i, <1>k, <4>1, <4>2
    <3>2. CASE room[c] = r
      <4>1. bal2 = bal - R
        BY <1>i, <1>n, <2>2, <3>2, BalanceAfter
      <4>2. /\ ToHold(r)' = ToHold(r) \ {c} /\ c \in ToHold(r)
            /\ ToCharge(r)' = ToCharge(r) \cup {c} /\ c \notin ToCharge(r)
        BY <2>0, <2>2, <3>2 DEF ToHold, ToCharge, BeforeReserve, BeforeCharge
      <4>3. a2 = a - 1 /\ b2 = b + 1
        <5>1. Cardinality(ToHold(r) \ {c}) = a - 1
          BY <1>c, <4>2, FS_RemoveElement
        <5>2. Cardinality(ToCharge(r) \cup {c}) = b + 1
          BY <1>c, <4>2, FS_AddElement
        <5> QED BY <4>2, <5>1, <5>2
      <4>4. (a - 1) * (R + M) = a * (R + M) - (R + M) /\ (b + 1) * M = b * M + M
        BY <1>c, <1>n
      <4>5. a * (R + M) \in Nat /\ b * M \in Nat
        BY <1>c, <1>n
      <4> HIDE DEF a, b, a2, b2, R, M, bal, bal2
      <4> QED BY <1>b, <1>e, <1>i, <1>n, <4>1, <4>3, <4>4, <4>5
    <3> QED BY <3>1, <3>2
  <2>3. ASSUME pc[c] = "charge", pc'[c] = "release",
               NEW row \in EventRow, events' = Append(events, row),
               row.room = room[c], -row.amount \in ChargeAmounts
        PROVE  bal2 - Exposure(r)' >= Floor
    <3>0. row.amount \in Int /\ row.amount >= -M
      BY <2>3, <1>n, DearestCharge, AmountAssumption DEF EventRow, Row
    <3>1. CASE room[c] # r
      <4>1. ToHold(r)' \subseteq ToHold(r) /\ ToCharge(r)' \subseteq ToCharge(r)
        BY <2>0, <2>3, <3>1 DEF ToHold, ToCharge, BeforeReserve, BeforeCharge
      <4>2. bal2 = bal
        BY <1>i, <2>3, <3>1, BalanceAfter
      <4> QED BY <1>i, <1>k, <4>1, <4>2
    <3>2. CASE room[c] = r
      <4>1. bal2 = bal + row.amount
        BY <1>i, <2>3, <3>2, BalanceAfter
      <4>2. ToHold(r)' = ToHold(r) /\ ToCharge(r)' = ToCharge(r) \ {c} /\ c \in ToCharge(r)
        BY <2>0, <2>3, <3>2 DEF ToHold, ToCharge, BeforeReserve, BeforeCharge
      <4>3. a2 = a /\ b2 = b - 1
        BY <1>c, <4>2, FS_RemoveElement
      <4>4. (b - 1) * M = b * M - M /\ b * M \in Nat /\ a * (R + M) \in Nat
        BY <1>c, <1>n
      <4> HIDE DEF a, b, a2, b2, R, M, bal, bal2
      <4> QED BY <1>b, <1>e, <1>i, <1>n, <3>0, <4>1, <4>3, <4>4
    <3> QED BY <3>1, <3>2
  <2>4. ASSUME pc'[c] \in BeforeReserve => pc[c] \in BeforeReserve,
               pc'[c] \in BeforeCharge => pc[c] \in BeforeCharge,
               \/ UNCHANGED events
               \/ \E row \in EventRow : events' = Append(events, row) /\ row.amount >= 0
        PROVE  bal2 - Exposure(r)' >= Floor
    <3>1. ToHold(r)' \subseteq ToHold(r) /\ ToCharge(r)' \subseteq ToCharge(r)
      BY <2>0, <2>4 DEF ToHold, ToCharge
    <3>2. bal2 \in Int /\ bal2 >= bal
      BY <1>i, <1>u, <1>w, <2>4
    <3> QED BY <1>k, <3>1, <3>2
  <2>r. ReserveAmount >= 0
    BY <1>n
  <2> QED BY <1>1, <2>1, <2>2, <2>3, <2>4, <2>r, HandlerMoney
<1>2. CASE ~\E c \in Calls : HandlerStep(c)
  <2>1. ToHold(r)' \subseteq ToHold(r) /\ ToCharge(r)' \subseteq ToCharge(r)
    <3>1. \A c \in Calls : pc'[c] \in BeforeReserve \cup BeforeCharge => pc'[c] = pc[c] /\ room'[c] = room[c]
      BY <1>2, OthersMoney DEF BeforeReserve, BeforeCharge
    <3> QED BY <3>1 DEF ToHold, ToCharge
  <2>2. bal2 \in Int /\ bal2 >= bal
    BY <1>2, <1>p, <1>i, <1>u, <1>w, OthersMoney
  <2> QED BY <1>k, <2>1, <2>2
<1> QED BY <1>1, <1>2

\* Until a power loss takes rows away, a room is overdrawn by no more than the
\* hold and the charge of each handler at work at once, less the reserve the
\* last of them found: the balance check runs apart from the reserve, and that
\* is all it costs.
THEOREM OverdraftIsBounded == Spec => []OverdraftBounded
<1>1. Init => OverdraftInv
  <2> SUFFICES ASSUME Init, NEW r \in Rooms
               PROVE  ComputeBalance(events, r) - Exposure(r) >= Floor
    BY DEF OverdraftInv
  <2>1. ComputeBalance(events, r) = 0
    BY SumEmpty DEF Init, ComputeBalance, SumAmounts
  <2>2. ToHold(r) = {} /\ ToCharge(r) = {}
    BY DEF Init, ToHold, ToCharge, BeforeReserve, BeforeCharge
  <2>3. Exposure(r) = 0
    BY <2>2, FS_EmptySet, AmountAssumption, DearestCharge DEF Exposure
  <2> QED BY <2>1, <2>3, FloorIs
<1>2. TypeInv /\ LedgerInv /\ CallInv /\ ConcurrencyInv /\ ConcurrencyInv' /\ OverdraftInv /\ [Next]_vars
        => OverdraftInv'
  BY OverdraftInvStep
<1>3. ASSUME TypeInv, ConcurrencyInv, OverdraftInv PROVE OverdraftBounded
  <2> SUFFICES ASSUME powerLosses = 0, NEW r \in Rooms
               PROVE  ComputeBalance(events, r) >= Floor
    BY DEF OverdraftBounded, Floor
  <2>1. Exposure(r) \in Nat
    BY <1>3, RoomCounts, ExposureBounded, BoundAssumption DEF Exposure
  <2>2. ComputeBalance(events, r) - Exposure(r) >= Floor
    BY <1>3 DEF OverdraftInv
  <2> QED BY <1>3, <2>1, <2>2, BalanceType, FloorIs
<1>4. QED
  BY <1>1, <1>2, <1>3, TypeCorrect, LedgerInvariant, CallInvariant, ConcurrencyInvariant, PTL DEF Spec

-----------------------------------------------------------------------------
(* The caps.                                                               *)

\* The charges since `start', and what they sum up to.
ChargesSince(start) == {i \in DOMAIN events : events[i].type = "charge" /\ events[i].at >= start}

LEMMA SpentTerms ==
  ASSUME TypeInv, NEW start \in Int
  PROVE  /\ ComputePeriodSpent(events, start) = -SumAmounts(events, ChargesSince(start))
         /\ ComputePeriodSpent(events, start) \in Int
         /\ \A i \in 1..Len(events) :
              LET t == AmountsOf(events, ChargesSince(start))[i] IN
              /\ t \in Int /\ t <= 0
              /\ t = IF events[i].type = "charge" /\ events[i].at >= start THEN events[i].amount ELSE 0
<1>1. /\ events \in Seq(EventRow) /\ Len(events) \in Nat /\ DOMAIN events = 1..Len(events)
      /\ \A i \in 1..Len(events) : events[i].amount \in Int /\ Booked(events[i])
  BY LedgerRows
<1>2. ComputePeriodSpent(events, start) = -SumAmounts(events, ChargesSince(start))
  BY DEF ComputePeriodSpent, ChargesSince
<1>3. SumAmounts(events, ChargesSince(start)) \in Int
  BY <1>1, SumOfRows
<1>4. \A i \in 1..Len(events) : events[i].type = "charge" => events[i].amount <= 0
  BY <1>1, AmountAssumption DEF Booked
<1> QED BY <1>1, <1>2, <1>3, <1>4 DEF AmountsOf, ChargesSince

SpentIsInteger == \A start \in Int : ComputePeriodSpent(events, start) \in Int

LEMMA SpentTypedNow == TypeInv => SpentIsInteger
  BY SpentTerms DEF SpentIsInteger

LEMMA SpentTyped == TypeInv' => SpentIsInteger'
  BY SpentTypedNow, PTL

\* Of a later start no more was spent.
LEMMA SpentLater ==
  ASSUME TypeInv, NEW start \in Int, NEW later \in Int, start <= later
  PROVE  ComputePeriodSpent(events, later) <= ComputePeriodSpent(events, start)
<1> DEFINE n == Len(events)
           t == AmountsOf(events, ChargesSince(start))
           u == AmountsOf(events, ChargesSince(later))
<1>1. n \in Nat /\ n \in 0..n /\ \A i \in 1..n : events[i].at \in Nat /\ events[i].amount \in Int
  BY LedgerRows DEF EventRow, Row
<1>2. \A i \in 1..n : t[i] \in Int /\ u[i] \in Int /\ t[i] <= u[i] /\ t[i] <= 0
  <2>1. \A i \in 1..n :
          /\ t[i] \in Int /\ t[i] <= 0
          /\ t[i] = IF events[i].type = "charge" /\ events[i].at >= start THEN events[i].amount ELSE 0
    BY SpentTerms
  <2>2. \A i \in 1..n :
          /\ u[i] \in Int /\ u[i] <= 0
          /\ u[i] = IF events[i].type = "charge" /\ events[i].at >= later THEN events[i].amount ELSE 0
    BY SpentTerms
  <2> HIDE DEF t, u
  <2> QED BY <1>1, <2>1, <2>2
<1>3. SumUpTo(t, n) <= SumUpTo(u, n)
  <2> HIDE DEF t, u, n
  <2> QED BY <1>1, <1>2, SumMonotone
<1>4. /\ ComputePeriodSpent(events, start) = -SumUpTo(t, n) /\ -SumUpTo(t, n) \in Int
      /\ ComputePeriodSpent(events, later) = -SumUpTo(u, n) /\ -SumUpTo(u, n) \in Int
  BY SpentTerms DEF SumAmounts
<1>5. SumUpTo(t, n) \in Int /\ SumUpTo(u, n) \in Int
  BY <1>1, <1>2, SumType
<1> QED BY <1>3, <1>4, <1>5

\* Of fewer rows no more was spent.
LEMMA SpentCut ==
  ASSUME TypeInv, NEW start \in Int, NEW k \in 0..Len(events), events' = SubSeq(events, 1, k)
  PROVE  ComputePeriodSpent(events', start) <= ComputePeriodSpent(events, start)
<1> DEFINE n == Len(events)
           t == AmountsOf(events, ChargesSince(start))
           cut == {i \in DOMAIN events' : events'[i].type = "charge" /\ events'[i].at >= start}
           u == AmountsOf(events', cut)
<1>0. events \in Seq(EventRow) /\ n \in Nat /\ DOMAIN events = 1..n
  BY LedgerRows
<1>1. /\ Len(events') = k /\ DOMAIN events' = 1..k /\ k \in 0..n
      /\ \A i \in 1..k : events'[i] = events[i]
  BY <1>0, CutRows
<1>2. \A i \in 1..n : t[i] \in Int /\ t[i] <= 0
  BY SpentTerms
<1>3. \A i \in 1..k : t[i] = u[i]
  BY <1>0, <1>1 DEF AmountsOf, ChargesSince
<1>4. /\ ComputePeriodSpent(events, start) = -SumUpTo(t, n)
      /\ ComputePeriodSpent(events', start) = -SumUpTo(u, k)
  BY <1>1, SpentTerms DEF SumAmounts, ComputePeriodSpent
<1>5. SumUpTo(t, n) <= SumUpTo(t, k) /\ SumUpTo(t, n) \in Int /\ SumUpTo(t, k) \in Int
  <2> HIDE DEF t, n
  <2>1. \A i \in 1..n : t[i] \in Int /\ t[i] <= t[i]
    BY <1>2
  <2>2. SumUpTo(t, n) <= SumUpTo(t, k)
    BY <1>0, <1>1, <1>2, <2>1, SumMonotone
  <2>3. \A i \in 0..n : SumUpTo(t, i) \in Int
    BY <1>0, <1>2, SumType
  <2> QED BY <1>0, <1>1, <2>2, <2>3
<1>6. SumUpTo(t, k) = SumUpTo(u, k)
  <2> HIDE DEF t, u
  <2> QED BY <1>1, <1>3, SumAgrees
<1> HIDE DEF t, u
<1> QED BY <1>4, <1>5, <1>6

\* A charge of the period is spent, other rows are not.
LEMMA SpentAfter ==
  ASSUME TypeInv, NEW row \in EventRow, events' = Append(events, row), NEW start \in Int
  PROVE  ComputePeriodSpent(events', start) =
           ComputePeriodSpent(events, start)
             - IF row.type = "charge" /\ row.at >= start THEN row.amount ELSE 0
<1> DEFINE n == Len(events)
           after == {i \in DOMAIN events' : events'[i].type = "charge" /\ events'[i].at >= start}
<1>t. events \in Seq(EventRow) /\ n \in Nat /\ DOMAIN events = 1..n
  BY LedgerRows
<1>1. /\ DOMAIN events' = 1..(n + 1)
      /\ \A i \in 1..n : events'[i] = events[i]
      /\ events'[n + 1] = row
  BY <1>t, AppendRow
<1>2. \A i \in 1..n : i \in ChargesSince(start) <=> i \in after
  BY <1>t, <1>1 DEF ChargesSince
<1>3. n + 1 \in after <=> row.type = "charge" /\ row.at >= start
  BY <1>t, <1>1
<1> HIDE DEF after
<1>4. SumAmounts(Append(events, row), after) =
        SumAmounts(events, ChargesSince(start)) + IF n + 1 \in after THEN row.amount ELSE 0
  BY <1>t, <1>2, SumInsert
<1>5. ComputePeriodSpent(events', start) = -SumAmounts(Append(events, row), after)
  BY DEF ComputePeriodSpent, after
<1>6. /\ ComputePeriodSpent(events, start) = -SumAmounts(events, ChargesSince(start))
      /\ SumAmounts(events, ChargesSince(start)) \in Int /\ row.amount \in Int
  BY <1>t, LedgerRows, SumOfRows, SpentTerms DEF EventRow, Row
<1> QED BY <1>3, <1>4, <1>5, <1>6

\* The calls past a cap's check whose charge is still to come, and the spending
\* of the cap's period if all of them are charged the most.
Past(awaits) == {c \in Calls : pc[c] \in awaits}

Allowed(cap) == Max({cap - ReserveAmount, 0}) + MaxConcurrent * MaxCharge

WithinCap(length, cap, awaits) ==
  ComputePeriodSpent(events, PeriodStart(length, now)) + Cardinality(Past(awaits)) * MaxCharge
    <= Allowed(cap)

PastDaily   == {"monthly", "reserve", "llm", "charge"}
PastMonthly == {"reserve", "llm", "charge"}

CapInv ==
  WithinCap(DayLength, DailyCap, PastDaily) /\ WithinCap(MonthLength, MonthlyCap, PastMonthly)

LEMMA AllowedIs ==
  ASSUME NEW cap \in Nat
  PROVE  /\ Allowed(cap) \in Nat /\ MaxConcurrent * MaxCharge \in Nat
         /\ cap - ReserveAmount + MaxConcurrent * MaxCharge <= Allowed(cap)
<1>1. MaxConcurrent * MaxCharge \in Nat
  BY BoundAssumption, DearestCharge, LargerMultiple
<1>2. cap - ReserveAmount \in Int
  BY AmountAssumption
<1> DEFINE rest == Max({cap - ReserveAmount, 0})
<1>3. rest \in Nat /\ rest >= cap - ReserveAmount
  BY <1>2, MaxOfTwo
<1> HIDE DEF rest
<1>4. Allowed(cap) = rest + MaxConcurrent * MaxCharge
  BY DEF Allowed, rest
<1> QED BY <1>1, <1>2, <1>3, <1>4

LEMMA PastCounts ==
  ASSUME ConcurrencyInv, NEW awaits, awaits \subseteq InFlight
  PROVE  /\ IsFiniteSet(Past(awaits)) /\ Cardinality(Past(awaits)) \in Nat
         /\ Cardinality(Past(awaits)) <= MaxConcurrent
<1>1. IsFiniteSet(Busy) /\ Cardinality(Busy) \in Nat /\ Cardinality(Busy) <= MaxConcurrent
  BY FS_CardinalityType DEF ConcurrencyInv
<1>2. Past(awaits) \subseteq Busy
  BY DEF Past, Busy
<1>3. IsFiniteSet(Past(awaits)) /\ Cardinality(Past(awaits)) <= Cardinality(Busy)
  BY <1>1, <1>2, FS_Subset
<1> QED BY <1>1, <1>3, FS_CardinalityType, BoundAssumption

\* A handler gets past the check only with the cap not yet reached.
ChecksFirst(length, cap, awaits) ==
  \A c \in Calls : HandlerStep(c) /\ pc'[c] \in awaits =>
    \/ pc[c] \in awaits
    \/ /\ UNCHANGED events
       /\ ComputePeriodSpent(events, PeriodStart(length, now)) + ReserveAmount <= cap

\* The same for both caps: an entering call finds the spending below the cap, a
\* charge takes one call out, and neither the clock nor the loss of rows adds
\* spending.
LEMMA WithinCapStep ==
  ASSUME TypeInv, LedgerInv, CallInv, ConcurrencyInv, [Next]_vars,
         NEW length \in Nat \ {0}, NEW cap \in Nat, NEW awaits,
         awaits \subseteq InFlight \ {"balance", "release"}, "charge" \in awaits,
         WithinCap(length, cap, awaits),
         ChecksFirst(length, cap, awaits),
         IsFiniteSet(Past(awaits)'), Cardinality(Past(awaits)') <= MaxConcurrent
  PROVE  WithinCap(length, cap, awaits)'
<1> DEFINE start == PeriodStart(length, now)
           start2 == PeriodStart(length, now')
           spent == ComputePeriodSpent(events, start)
           spent2 == ComputePeriodSpent(events', start2)
           d == Cardinality(Past(awaits))
           d2 == Cardinality(Past(awaits)')
           M == MaxCharge
           bound == Allowed(cap)
<1> SUFFICES spent2 + d2 * M <= bound
  BY DEF WithinCap, Allowed, MaxCharge, PeriodStart
<1>b. spent + d * M <= bound
  BY DEF WithinCap
<1>n. M \in Nat /\ ReserveAmount \in Nat /\ MaxConcurrent \in Nat /\ now \in Nat
  BY AmountAssumption, DearestCharge, BoundAssumption DEF TypeInv, TypeOK
<1>d. d \in Nat /\ d2 \in Nat /\ d2 <= MaxConcurrent /\ IsFiniteSet(Past(awaits))
  BY PastCounts, FS_CardinalityType
<1>a. /\ bound \in Nat /\ MaxConcurrent * M \in Nat
      /\ cap - ReserveAmount + MaxConcurrent * M <= bound
  BY AllowedIs
<1>s. start \in Int /\ start <= now /\ spent \in Int
  BY <1>n, PeriodStartGrows, SpentTerms
<1>k. ASSUME Past(awaits)' \subseteq Past(awaits), spent2 \in Int, spent2 <= spent
      PROVE  spent2 + d2 * M <= bound
  <2>1. d2 <= d
    BY <1>k, <1>d, FS_Subset
  <2>2. d2 * M <= d * M /\ d2 * M \in Nat /\ d * M \in Nat
    BY <1>d, <1>n, <2>1, LargerMultiple
  <2> HIDE DEF spent, spent2, d, d2, M, bound
  <2> QED BY <1>k, <1>a, <1>b, <1>s, <2>2
<1>u. UNCHANGED <<events, now>> => spent2 \in Int /\ spent2 <= spent
  BY <1>s
<1>w. ASSUME NEW row \in EventRow, events' = Append(events, row), row.type # "charge", UNCHANGED now
      PROVE  spent2 \in Int /\ spent2 <= spent
  BY <1>w, <1>s, SpentAfter
<1>1. ASSUME NEW c \in Calls, HandlerStep(c)
      PROVE  spent2 + d2 * M <= bound
  <2>0. UNCHANGED now /\ \A e \in Calls : e # c => pc'[e] = pc[e]
    BY <1>1, HandlerMoney
  <2>1. CASE pc'[c] \in awaits /\ pc[c] \notin awaits
    <3>1. UNCHANGED events /\ spent + ReserveAmount <= cap
      BY <1>1, <2>1 DEF ChecksFirst
    <3>2. spent2 = spent
      BY <2>0, <3>1
    <3>3. d2 * M <= MaxConcurrent * M /\ d2 * M \in Nat
      BY <1>d, <1>n, LargerMultiple
    <3> HIDE DEF spent, spent2, d, d2, M, bound
    <3> QED BY <1>a, <1>n, <1>s, <3>1, <3>2, <3>3
  <2>2. CASE ~(pc'[c] \in awaits /\ pc[c] \notin awaits)
    <3>0. Past(awaits)' \subseteq Past(awaits)
      BY <2>0, <2>2 DEF Past
    <3>1. ASSUME pc[c] = "charge", pc'[c] = "release",
                 NEW row \in EventRow, events' = Append(events, row),
                 row.type = "charge", -row.amount \in ChargeAmounts, row.at = now
          PROVE  spent2 + d2 * M <= bound
      <4>1. row.amount \in Int /\ -row.amount <= M
        BY <3>1, DearestCharge DEF EventRow, Row
      <4>2. spent2 = spent - row.amount
        BY <2>0, <3>1, <1>s, <1>n, SpentAfter
      <4>3. Past(awaits)' = Past(awaits) \ {c} /\ c \in Past(awaits)
        BY <2>0, <3>1 DEF Past
      <4>4. d2 = d - 1
        BY <1>d, <4>3, FS_RemoveElement
      <4>5. (d - 1) * M = d * M - M /\ d * M \in Nat
        BY <1>d, <1>n
      <4> HIDE DEF spent, spent2, d, d2, M, bound
      <4> QED BY <1>a, <1>b, <1>n, <1>s, <4>1, <4>2, <4>4, <4>5
    <3>2. ASSUME \/ UNCHANGED events
                 \/ \E row \in EventRow : events' = Append(events, row) /\ row.type # "charge"
          PROVE  spent2 + d2 * M <= bound
      <4>1. spent2 \in Int /\ spent2 <= spent
        BY <3>2, <2>0, <1>u, <1>w
      <4> QED BY <1>k, <3>0, <4>1
    <3>3. \A row : row.type = "reserve" \/ row.type = "release" => row.type # "charge"
      OBVIOUS
    <3> QED BY <1>1, <3>1, <3>2, <3>3, HandlerMoney
  <2> QED BY <2>1, <2>2
<1>2. CASE ~\E c \in Calls : HandlerStep(c)
  <2>0. Past(awaits)' \subseteq Past(awaits)
    <3>1. "killed" \notin awaits /\ "balance" \notin awaits
      BY DEF InFlight, PreChecking, Settling
    <3>2. \A c \in Calls : pc'[c] = pc[c] \/ pc'[c] \in {"balance", "killed"}
      BY <1>2, OthersMoney
    <3> QED BY <3>1, <3>2 DEF Past
  <2>1. spent2 \in Int /\ spent2 <= spent
    <3>1. CASE PowerLoss
      <4>1. PICK k \in 0..Len(events) : events' = SubSeq(events, 1, k)
        BY <3>1 DEF PowerLoss
      <4>2. start2 = start
        BY <3>1 DEF PowerLoss
      <4>3. TypeInv'
        BY LedgerTyped, HandlersTyped DEF TypeInv, TypeOK, EventRow
      <4>4. spent2 \in Int
        BY <4>2, <4>3, <1>s, SpentTyped DEF SpentIsInteger
      <4> QED BY <1>s, <4>1, <4>2, <4>4, SpentCut
    <3>2. CASE Tick
      <4>1. events' = events /\ start2 \in Int /\ start <= start2
        BY <3>2, <1>n, PeriodStartGrows DEF Tick
      <4> QED BY <1>s, <4>1, SpentLater, SpentTerms
    <3>3. CASE ~PowerLoss /\ ~Tick
      <4>1. UNCHANGED now
        BY <1>2, <3>3 DEF Next, Start, Credit, AdminReleases, AdminRefunds, Crash, vars
      <4> QED BY <1>2, <1>u, <1>w, <3>3, <4>1, OthersMoney
    <3> QED BY <3>1, <3>2, <3>3
  <2> QED BY <1>k, <2>0, <2>1
<1> QED BY <1>1, <1>2

\* Each cap has a check of its own on the way to the LLM.
LEMMA CapsAreChecked ==
  ASSUME TypeInv
  PROVE  /\ ChecksFirst(DayLength, DailyCap, PastDaily)
         /\ ChecksFirst(MonthLength, MonthlyCap, PastMonthly)
<1> USE DEF PastDaily, PastMonthly, Goto
<1>f. pc \in [Calls -> {"idle"} \cup InFlight \cup Outcomes] /\ now \in Nat
  BY DEF TypeInv, TypeOK
<1>s. /\ ComputePeriodSpent(events, PeriodStart(DayLength, now)) \in Int
      /\ ComputePeriodSpent(events, PeriodStart(MonthLength, now)) \in Int
      /\ ReserveAmount \in Int /\ DailyCap \in Int /\ MonthlyCap \in Int
  <2>1. PeriodStart(DayLength, now) \in Int /\ PeriodStart(MonthLength, now) \in Int
    BY <1>f, PeriodStartGrows, TimeAssumption
  <2>2. \A start \in Int : ComputePeriodSpent(events, start) \in Int
    BY SpentTerms
  <2>3. ReserveAmount \in Int /\ DailyCap \in Int /\ MonthlyCap \in Int
    BY AmountAssumption
  <2> QED BY <2>1, <2>2, <2>3
<1>1. ASSUME NEW c \in Calls, HandlerStep(c), pc'[c] \in PastDaily
      PROVE  \/ pc[c] \in PastDaily
             \/ /\ UNCHANGED events
                /\ ComputePeriodSpent(events, PeriodStart(DayLength, now)) + ReserveAmount <= DailyCap
  <2>1. CASE CheckDailyCap(c)
    BY <1>1, <1>f, <1>s, <2>1 DEF CheckDailyCap
  <2>2. CASE ~CheckDailyCap(c)
    BY <1>1, <1>f, <2>2
    DEF HandlerStep, CheckBalance, CheckMonthlyCap, WriteReserve, LlmAnswers, LlmFails,
        WriteCharge, WriteRelease, LedgerFails
  <2> QED BY <2>1, <2>2
<1>2. ASSUME NEW c \in Calls, HandlerStep(c), pc'[c] \in PastMonthly
      PROVE  \/ pc[c] \in PastMonthly
             \/ /\ UNCHANGED events
                /\ ComputePeriodSpent(events, PeriodStart(MonthLength, now)) + ReserveAmount <= MonthlyCap
  <2>1. CASE CheckMonthlyCap(c)
    BY <1>2, <1>f, <1>s, <2>1 DEF CheckMonthlyCap
  <2>2. CASE ~CheckMonthlyCap(c)
    BY <1>2, <1>f, <2>2
    DEF HandlerStep, CheckBalance, CheckDailyCap, WriteReserve, LlmAnswers, LlmFails,
        WriteCharge, WriteRelease, LedgerFails
  <2> QED BY <2>1, <2>2
<1> QED BY <1>1, <1>2 DEF ChecksFirst

PastBounded ==
  \A awaits \in {PastDaily, PastMonthly} :
    IsFiniteSet(Past(awaits)) /\ Cardinality(Past(awaits)) <= MaxConcurrent

LEMMA PastBoundedNow == ConcurrencyInv => PastBounded
  BY PastCounts DEF PastBounded, PastDaily, PastMonthly, InFlight, PreChecking, Settling

LEMMA PastBoundedNext == ConcurrencyInv' => PastBounded'
  BY PastBoundedNow, PTL

LEMMA CapInvStep ==
  ASSUME TypeInv, LedgerInv, CallInv, ConcurrencyInv, ConcurrencyInv', CapInv, [Next]_vars
  PROVE  CapInv'
<1>1. /\ PastDaily \subseteq InFlight \ {"balance", "release"} /\ "charge" \in PastDaily
      /\ PastMonthly \subseteq InFlight \ {"balance", "release"} /\ "charge" \in PastMonthly
  BY DEF PastDaily, PastMonthly, InFlight, PreChecking, Settling
<1>2. /\ IsFiniteSet(Past(PastDaily)') /\ Cardinality(Past(PastDaily)') <= MaxConcurrent
      /\ IsFiniteSet(Past(PastMonthly)') /\ Cardinality(Past(PastMonthly)') <= MaxConcurrent
  BY PastBoundedNext DEF PastBounded, PastDaily, PastMonthly
<1>3. DailyCap \in Nat /\ MonthlyCap \in Nat /\ DayLength \in Nat \ {0} /\ MonthLength \in Nat \ {0}
  BY AmountAssumption, TimeAssumption
<1>4. /\ ChecksFirst(DayLength, DailyCap, PastDaily)
      /\ ChecksFirst(MonthLength, MonthlyCap, PastMonthly)
  BY CapsAreChecked
<1>5. WithinCap(DayLength, DailyCap, PastDaily)'
  BY <1>1, <1>2, <1>3, <1>4, WithinCapStep DEF CapInv
<1>6. WithinCap(MonthLength, MonthlyCap, PastMonthly)'
  BY <1>1, <1>2, <1>3, <1>4, WithinCapStep DEF CapInv
<1> QED BY <1>5, <1>6 DEF CapInv, PastDaily, PastMonthly

\* In no period is more charged than the cap, less the reserve that the check
\* sets aside, and one dearest charge for each handler at work at once, across
\* the ends of days and months and with any suffix of the rows lost.
THEOREM CapOvershootIsBounded == Spec => []CapOvershootBounded
<1>1. Init => CapInv
  <2> SUFFICES ASSUME Init PROVE CapInv
    OBVIOUS
  <2>1. \A start : ComputePeriodSpent(events, start) = 0
    BY SumEmpty DEF Init, ComputePeriodSpent, SumAmounts
  <2>2. Past(PastDaily) = {} /\ Past(PastMonthly) = {}
    BY DEF Init, Past, PastDaily, PastMonthly
  <2>3. 0 * MaxCharge = 0 /\ Allowed(DailyCap) \in Nat /\ Allowed(MonthlyCap) \in Nat
    BY DearestCharge, AllowedIs, AmountAssumption
  <2> QED BY <2>1, <2>2, <2>3, FS_EmptySet DEF CapInv, WithinCap
<1>2. TypeInv /\ LedgerInv /\ CallInv /\ ConcurrencyInv /\ ConcurrencyInv' /\ CapInv /\ [Next]_vars
        => CapInv'
  BY CapInvStep
<1>3. ASSUME TypeInv, ConcurrencyInv, CapInv PROVE CapOvershootBounded
  <2> DEFINE day == ComputePeriodSpent(events, PeriodStart(DayLength, now))
             month == ComputePeriodSpent(events, PeriodStart(MonthLength, now))
  <2>1. day \in Int /\ month \in Int
    BY <1>3, PeriodStartGrows, SpentTerms, TimeAssumption DEF TypeInv, TypeOK
  <2>2. Cardinality(Past(PastDaily)) \in Nat /\ Cardinality(Past(PastMonthly)) \in Nat
    BY <1>3, PastCounts DEF PastDaily, PastMonthly, InFlight, PreChecking, Settling
  <2>3. /\ Cardinality(Past(PastDaily)) * MaxCharge \in Nat
        /\ Cardinality(Past(PastMonthly)) * MaxCharge \in Nat
    BY <2>2, DearestCharge
  <2>4. Allowed(DailyCap) \in Nat /\ Allowed(MonthlyCap) \in Nat
    BY AllowedIs, AmountAssumption
  <2>5. day <= Allowed(DailyCap) /\ month <= Allowed(MonthlyCap)
    BY <1>3, <2>1, <2>3, <2>4 DEF CapInv, WithinCap
  <2> QED BY <2>5 DEF CapOvershootBounded, Allowed
<1>4. QED
  BY <1>1, <1>2, <1>3, TypeCorrect, LedgerInvariant, CallInvariant, ConcurrencyInvariant, PTL DEF Spec

-----------------------------------------------------------------------------
(* The ledger implements room accounts.                                    *)

\* The accounts as the ledger has them.
BalanceOf  == [r \in Rooms |-> ComputeBalance(events, r)]
HoldersOf  == [c \in Calls |-> HolderOf(c)]
CapturedOf == {c \in Calls : DuplicateCharge(events, c)}
FreedOf    == {c \in Calls : DuplicateRelease(events, c)}

PaidBy(p)     == {i \in DOMAIN events : events[i].payment = p}
CreditedOf    == [p \in Payments |-> SumAmounts(events, PaidBy(p))]

\* An appended row joins the rows of its call and type, and no others.
LEMMA EventsAfter ==
  ASSUME TypeInv, NEW row \in EventRow, events' = Append(events, row), NEW c, NEW type
  PROVE  /\ EventsOf(events', c, type) =
              EventsOf(events, c, type)
                \cup (IF row.corr = c /\ row.type = type THEN {Len(events) + 1} ELSE {})
         /\ \A i \in EventsOf(events, c, type) : events'[i] = events[i]
         /\ events'[Len(events) + 1] = row
<1> DEFINE n == Len(events)
<1>1. events \in Seq(EventRow) /\ n \in Nat /\ DOMAIN events = 1..n
  BY LedgerRows
<1>2. /\ DOMAIN events' = 1..(n + 1)
      /\ \A i \in 1..n : events'[i] = events[i]
      /\ events'[n + 1] = row
  BY <1>1, AppendRow
<1> QED BY <1>1, <1>2 DEF EventsOf

\* A call has a holder from its reserve on, the room of that reserve.
LEMMA HolderIs ==
  ASSUME TypeInv, LedgerInv, NEW c \in Calls, NEW i \in EventsOf(events, c, "reserve")
  PROVE  HasReserve(events, c) /\ HolderOf(c) = events[i].room /\ HolderOf(c) \in Rooms
<1>1. events \in Seq(EventRow) /\ DOMAIN events = 1..Len(events)
  BY LedgerRows
<1>2. HasReserve(events, c)
  BY DEF HasReserve
<1>3. PICK j \in DOMAIN events :
        /\ FindReserve(events, c) = events[j]
        /\ events[j].type = "reserve" /\ events[j].corr = c /\ events[j] \in EventRow
  BY <1>1, <1>2, FoundReserve
<1>4. i = j
  BY <1>3, IdAssumption DEF LedgerInv, OneRowPerKind, EventsOf
<1> QED BY <1>2, <1>3, <1>4 DEF HolderOf, EventRow, Row

HolderIsRoom ==
  \A c \in Calls : \A i \in EventsOf(events, c, "reserve") : HolderOf(c) = events[i].room

LEMMA HolderIsNow == TypeInv /\ LedgerInv => HolderIsRoom
  BY HolderIs DEF HolderIsRoom

LEMMA HolderIsNext == TypeInv' /\ LedgerInv' => HolderIsRoom'
  BY HolderIsNow, PTL

\* Only a reserve gives a call a holder.
LEMMA HolderAfter ==
  ASSUME TypeInv, LedgerInv, TypeInv', LedgerInv',
         NEW row \in EventRow, events' = Append(events, row), NEW c \in Calls
  PROVE  HolderOf(c)' = IF row.type = "reserve" /\ row.corr = c THEN row.room ELSE HolderOf(c)
<1> DEFINE n == Len(events)
<1>1. /\ EventsOf(events', c, "reserve") =
           EventsOf(events, c, "reserve")
             \cup (IF row.corr = c /\ row.type = "reserve" THEN {n + 1} ELSE {})
      /\ \A i \in EventsOf(events, c, "reserve") : events'[i] = events[i]
      /\ events'[n + 1] = row
  BY EventsAfter
<1>2. CASE row.type = "reserve" /\ row.corr = c
  <2>1. n + 1 \in EventsOf(events', c, "reserve")
    BY <1>1, <1>2
  <2>2. HolderOf(c)' = events'[n + 1].room
    BY <2>1, HolderIsNext DEF HolderIsRoom
  <2> QED BY <1>1, <1>2, <2>2
<1>3. CASE ~(row.type = "reserve" /\ row.corr = c)
  <2>1. EventsOf(events', c, "reserve") = EventsOf(events, c, "reserve")
    BY <1>1, <1>3
  <2>2. CASE EventsOf(events, c, "reserve") = {}
    BY <1>3, <2>1, <2>2 DEF HolderOf, HasReserve
  <2>3. CASE EventsOf(events, c, "reserve") # {}
    <3>1. PICK i \in EventsOf(events, c, "reserve") : TRUE
      BY <2>3
    <3>2. HolderOf(c) = events[i].room
      BY <3>1, HolderIs
    <3>3. HolderOf(c)' = events'[i].room
      BY <2>1, <3>1, HolderIsNext DEF HolderIsRoom
    <3> QED BY <1>1, <1>3, <3>2, <3>3
  <2> QED BY <2>2, <2>3
<1> QED BY <1>2, <1>3

\* A top-up credits its payment, other rows credit none.
LEMMA CreditedAfter ==
  ASSUME TypeInv, NEW row \in EventRow, events' = Append(events, row), NEW p \in Payments
  PROVE  CreditedOf'[p] = CreditedOf[p] + IF row.payment = p THEN row.amount ELSE 0
<1> DEFINE n == Len(events)
           after == {i \in DOMAIN events' : events'[i].payment = p}
<1>t. events \in Seq(EventRow) /\ n \in Nat /\ DOMAIN events = 1..n
  BY LedgerRows
<1>1. /\ DOMAIN events' = 1..(n + 1)
      /\ \A i \in 1..n : events'[i] = events[i]
      /\ events'[n + 1] = row
  BY <1>t, AppendRow
<1>2. \A i \in 1..n : i \in PaidBy(p) <=> i \in after
  BY <1>t, <1>1 DEF PaidBy
<1>3. n + 1 \in after <=> row.payment = p
  BY <1>t, <1>1
<1> HIDE DEF after
<1>4. SumAmounts(Append(events, row), after) =
        SumAmounts(events, PaidBy(p)) + IF n + 1 \in after THEN row.amount ELSE 0
  BY <1>t, <1>2, SumInsert
<1>5. CreditedOf[p] = SumAmounts(events, PaidBy(p)) /\ CreditedOf'[p] = SumAmounts(Append(events, row), after)
  BY DEF CreditedOf, PaidBy, after
<1> QED BY <1>3, <1>4, <1>5

LEMMA CreditedType ==
  ASSUME TypeInv, NEW p \in Payments
  PROVE  CreditedOf[p] \in Int
  BY LedgerRows, SumOfRows DEF CreditedOf

\* Nothing is credited for a payment without a top-up.
LEMMA NotCredited ==
  ASSUME TypeInv, NEW p \in Payments, ~TopupExistsByPaymentId(events, p)
  PROVE  CreditedOf[p] = 0
<1> DEFINE n == Len(events)
           t == AmountsOf(events, PaidBy(p))
           zero == [i \in 1..n |-> 0]
<1>1. n \in Nat /\ DOMAIN events = 1..n /\ \A i \in 1..n : Booked(events[i])
  BY LedgerRows
<1>2. \A i \in 1..n : events[i].payment # p
  BY <1>1, IdAssumption DEF TopupExistsByPaymentId, Booked
<1>3. \A i \in 1..n : t[i] = 0
  BY <1>1, <1>2 DEF AmountsOf, PaidBy
<1>4. SumUpTo(t, n) = 0
  <2> HIDE DEF t, n
  <2> QED BY <1>1, <1>3, SumOfZeros
<1> QED BY <1>4 DEF CreditedOf, SumAmounts

-----------------------------------------------------------------------------
\* One admissible row is one step of the accounts.
LEMMA RowIsAccountStep ==
  ASSUME TypeInv, LedgerInv, TypeInv', LedgerInv',
         NEW row \in EventRow, events' = Append(events, row), Admissible(events, row)
  PROVE  Accounts!Next
<1> DEFINE c == row.corr
           r == row.room
           p == row.payment
<1>r. r \in Rooms /\ row.type \in EventTypes /\ row.amount \in Int
  BY DEF EventRow, Row
<1>k. Booked(row)
  BY DEF Admissible
<1>c. row.type \in {"reserve", "charge", "release"} => c \in Calls
  BY <1>k DEF Booked, EventRow, Row
<1>p. row.type = "topup" => p \in Payments
  BY <1>k DEF Booked, EventRow, Row
<1>n. row.type # "topup" => p \notin Payments
  BY <1>k, IdAssumption DEF Booked
<1>1. \A q \in Rooms : /\ ComputeBalance(events, q) \in Int
                       /\ ComputeBalance(events', q) =
                            ComputeBalance(events, q) + IF r = q THEN row.amount ELSE 0
  BY BalanceType, BalanceAfter
<1>2. \A d \in Calls :
        HolderOf(d)' = IF row.type = "reserve" /\ c = d THEN r ELSE HolderOf(d)
  BY HolderAfter
<1>3. \A d \in Calls : /\ DuplicateCharge(events', d) <=> DuplicateCharge(events, d) \/ (c = d /\ row.type = "charge")
                       /\ DuplicateRelease(events', d) <=> DuplicateRelease(events, d) \/ (c = d /\ row.type = "release")
  BY EventsAfter DEF DuplicateCharge, DuplicateRelease
<1>4. \A q \in Payments : /\ CreditedOf[q] \in Int
                          /\ CreditedOf'[q] = CreditedOf[q] + IF p = q THEN row.amount ELSE 0
  BY CreditedType, CreditedAfter
<1>5. /\ BalanceOf' = [q \in Rooms |-> ComputeBalance(events', q)]
      /\ HoldersOf' = [d \in Calls |-> HolderOf(d)']
      /\ CapturedOf' = {d \in Calls : DuplicateCharge(events', d)}
      /\ FreedOf' = {d \in Calls : DuplicateRelease(events', d)}
      /\ CreditedOf' = [q \in Payments |-> CreditedOf'[q]]
      /\ CreditedOf = [q \in Payments |-> CreditedOf[q]]
  BY DEF BalanceOf, HoldersOf, CapturedOf, FreedOf, CreditedOf
<1>6. BalanceOf' = [BalanceOf EXCEPT ![r] = @ + row.amount]
  BY <1>1, <1>5, <1>r DEF BalanceOf
<1>7. row.type # "reserve" => HoldersOf' = HoldersOf
  BY <1>2, <1>5 DEF HoldersOf
<1>8. row.type # "charge" => CapturedOf' = CapturedOf
  BY <1>3, <1>5 DEF CapturedOf
<1>9. row.type # "release" => FreedOf' = FreedOf
  BY <1>3, <1>5 DEF FreedOf
<1>10. row.type # "topup" => CreditedOf' = CreditedOf
  BY <1>n, <1>4, <1>5
<1>11. row.type \in {"charge", "release"} =>
         c \in Calls /\ HolderOf(c) = r /\ r # None
  <2> SUFFICES ASSUME row.type \in {"charge", "release"} PROVE HolderOf(c) = r /\ r # None
    BY <1>c
  <2>1. PICK j \in DOMAIN events :
          events[j].type = "reserve" /\ events[j].corr = c /\ events[j].room = r
    BY DEF Admissible
  <2>2. j \in EventsOf(events, c, "reserve") /\ c \in Calls
    BY <1>c, <2>1 DEF EventsOf
  <2> QED BY <2>1, <2>2, <1>r, HolderIs, IdAssumption
<1>12. CASE row.type = "reserve"
  <2>1. row.amount = -ReserveAmount /\ c \in Calls
    BY <1>12, <1>k, <1>c DEF Booked
  <2>2. HoldersOf[c] = None
    BY <1>12, <2>1, IdAssumption DEF Admissible, HoldersOf, HolderOf, HasReserve
  <2>3. HoldersOf' = [HoldersOf EXCEPT ![c] = r]
    BY <1>2, <1>5, <1>12, <2>1 DEF HoldersOf
  <2>4. BalanceOf' = [BalanceOf EXCEPT ![r] = @ - ReserveAmount]
    BY <1>1, <1>6, <1>r, <2>1, AmountAssumption DEF BalanceOf
  <2>5. Accounts!Hold(c, r)
    BY <1>8, <1>9, <1>10, <1>12, <2>2, <2>3, <2>4
    DEF Accounts!Hold, Accounts!Held, BalanceOf, HoldersOf, CapturedOf, FreedOf, CreditedOf, PaidBy
  <2> QED BY <1>r, <2>1, <2>5 DEF Accounts!Next
<1>13. CASE row.type = "charge"
  <2>1. -row.amount \in ChargeAmounts
    BY <1>13, <1>k DEF Booked
  <2>2. HoldersOf[c] = r /\ HoldersOf[c] # None
    BY <1>11, <1>13 DEF HoldersOf
  <2>3. c \notin CapturedOf /\ CapturedOf' = CapturedOf \cup {c}
    BY <1>3, <1>5, <1>11, <1>13, IdAssumption DEF Admissible, CapturedOf, DuplicateCharge
  <2>4. BalanceOf' = [BalanceOf EXCEPT ![HoldersOf[c]] = @ - (-row.amount)]
    <3>1. BalanceOf[r] \in Int
      BY <1>1, <1>r DEF BalanceOf
    <3>2. BalanceOf[r] + row.amount = BalanceOf[r] - (-row.amount)
      BY <1>r, <3>1
    <3> QED BY <1>6, <2>2, <3>2
  <2>5. Accounts!Capture(c, -row.amount)
    BY <1>7, <1>9, <1>10, <1>13, <2>2, <2>3, <2>4
    DEF Accounts!Capture, Accounts!Held, BalanceOf, HoldersOf, CapturedOf, FreedOf, CreditedOf, PaidBy
  <2> QED BY <1>11, <1>13, <2>1, <2>5 DEF Accounts!Next
<1>14. CASE row.type = "release"
  <2>1. row.amount = ReserveAmount
    BY <1>14, <1>k DEF Booked
  <2>2. HoldersOf[c] = r /\ HoldersOf[c] # None
    BY <1>11, <1>14 DEF HoldersOf
  <2>3. c \notin FreedOf /\ FreedOf' = FreedOf \cup {c}
    BY <1>3, <1>5, <1>11, <1>14, IdAssumption DEF Admissible, FreedOf, DuplicateRelease
  <2>4. BalanceOf' = [BalanceOf EXCEPT ![HoldersOf[c]] = @ + ReserveAmount]
    BY <1>6, <2>1, <2>2
  <2>5. Accounts!Free(c)
    BY <1>7, <1>8, <1>10, <1>14, <2>2, <2>3, <2>4
    DEF Accounts!Free, Accounts!Held, BalanceOf, HoldersOf, CapturedOf, FreedOf, CreditedOf, PaidBy
  <2> QED BY <1>11, <1>14, <2>5 DEF Accounts!Next
<1>15. CASE row.type = "topup"
  <2>1. row.amount \in CreditAmounts /\ p \in Payments
    BY <1>15, <1>k, <1>p DEF Booked
  <2>2. CreditedOf[p] = 0
    BY <1>15, <2>1, NotCredited DEF Admissible
  <2>3. CreditedOf' = [CreditedOf EXCEPT ![p] = row.amount]
    BY <1>4, <1>5, <1>r, <2>1, <2>2
  <2>4. Accounts!Deposit(r, row.amount, p)
    BY <1>6, <1>7, <1>8, <1>9, <1>15, <2>2, <2>3
    DEF Accounts!Deposit, BalanceOf, HoldersOf, CapturedOf, FreedOf, CreditedOf, PaidBy
  <2> QED BY <1>r, <2>1, <2>4 DEF Accounts!Next
<1>16. CASE row.type = "refund_manual"
  <2>1. row.amount \in CreditAmounts
    BY <1>16, <1>k DEF Booked
  <2>2. Accounts!Refund(r, row.amount)
    BY <1>6, <1>7, <1>8, <1>9, <1>10, <1>16
    DEF Accounts!Refund, BalanceOf, HoldersOf, CapturedOf, FreedOf, CreditedOf, PaidBy
  <2> QED BY <1>r, <2>1, <2>2 DEF Accounts!Next
<1> QED BY <1>r, <1>12, <1>13, <1>14, <1>15, <1>16 DEF EventTypes

\* As long as no power loss takes rows away, the ledger with everything that
\* writes to it is an implementation of RoomAccounts: it starts without a
\* balance, a hold or a credited payment, and each step of any interleaving is
\* one hold, capture, freeing, deposit or refund, or none of them.
THEOREM LedgerImplementsAccounts == Spec /\ [](powerLosses = 0) => AccountsSpec
<1>1. Init => Accounts!Init
  <2> SUFFICES ASSUME Init PROVE Accounts!Init
    OBVIOUS
  <2>1. /\ \A r : ComputeBalance(events, r) = 0
        /\ \A p : SumAmounts(events, {i \in DOMAIN events : events[i].payment = p}) = 0
    BY SumEmpty DEF Init, ComputeBalance, SumAmounts
  <2>2. \A c, type : EventsOf(events, c, type) = {}
    BY DEF Init, EventsOf
  <2>3. \A c : HolderOf(c) = None /\ ~DuplicateCharge(events, c) /\ ~DuplicateRelease(events, c)
    BY <2>2 DEF HolderOf, HasReserve, DuplicateCharge, DuplicateRelease
  <2> QED BY <2>1, <2>3 DEF Accounts!Init
<1>2. ASSUME TypeInv, LedgerInv, TypeInv', LedgerInv', [Next]_vars, (powerLosses = 0)'
      PROVE  [Accounts!Next]_Accounts!vars
  <2>1. ~PowerLoss
    BY <1>2, PowerLossesStay
  <2>2. CASE UNCHANGED events
    BY <2>2 DEF Accounts!vars, HolderOf
  <2>3. CASE AppendsAdmissibleRow
    BY <1>2, <2>3, RowIsAccountStep DEF AppendsAdmissibleRow
  <2> QED BY <1>2, <2>1, <2>2, <2>3, LedgerStep
<1>3. QED
  BY <1>1, <1>2, TypeCorrect, LedgerInvariant, PTL DEF Spec, AccountsSpec, Accounts!Spec
=============================================================================
