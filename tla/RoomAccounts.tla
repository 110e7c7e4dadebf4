---------------------------- MODULE RoomAccounts ----------------------------
(***************************************************************************)
(* What the billing ledger promises, without rows or handlers: every room  *)
(* has one balance; a call takes a fixed amount off it as a hold, may then *)
(* be captured (charged) once and freed (the hold given back) once, in     *)
(* either order; a settled payment is credited once.                       *)
(***************************************************************************)
EXTENDS Integers

CONSTANTS Calls, Rooms, Payments, None, ReserveAmount, ChargeAmounts, CreditAmounts

VARIABLES
  balance,     \* of each room
  holder,      \* the room whose money a call holds, None before the hold
  captured,    \* calls that were charged
  freed,       \* calls whose hold was given back
  credited     \* how much was booked for each payment

vars == <<balance, holder, captured, freed, credited>>

Init ==
  /\ balance = [r \in Rooms |-> 0]
  /\ holder = [c \in Calls |-> None]
  /\ captured = {}
  /\ freed = {}
  /\ credited = [p \in Payments |-> 0]

Held(c) == holder[c] # None

Hold(c, r) ==
  /\ ~Held(c)
  /\ holder' = [holder EXCEPT ![c] = r]
  /\ balance' = [balance EXCEPT ![r] = @ - ReserveAmount]
  /\ UNCHANGED <<captured, freed, credited>>

Capture(c, amount) ==
  /\ Held(c)
  /\ c \notin captured
  /\ captured' = captured \cup {c}
  /\ balance' = [balance EXCEPT ![holder[c]] = @ - amount]
  /\ UNCHANGED <<holder, freed, credited>>

Free(c) ==
  /\ Held(c)
  /\ c \notin freed
  /\ freed' = freed \cup {c}
  /\ balance' = [balance EXCEPT ![holder[c]] = @ + ReserveAmount]
  /\ UNCHANGED <<holder, captured, credited>>

Deposit(r, amount, p) ==
  /\ credited[p] = 0
  /\ credited' = [credited EXCEPT ![p] = amount]
  /\ balance' = [balance EXCEPT ![r] = @ + amount]
  /\ UNCHANGED <<holder, captured, freed>>

Refund(r, amount) ==
  /\ balance' = [balance EXCEPT ![r] = @ + amount]
  /\ UNCHANGED <<holder, captured, freed, credited>>

Next ==
  \/ \E c \in Calls, r \in Rooms : Hold(c, r)
  \/ \E c \in Calls, a \in ChargeAmounts : Capture(c, a)
  \/ \E c \in Calls : Free(c)
  \/ \E r \in Rooms, a \in CreditAmounts :
       Refund(r, a) \/ \E p \in Payments : Deposit(r, a, p)

Spec == Init /\ [][Next]_vars
=============================================================================
