-------------------------- MODULE PaymentPipeline --------------------------
(***************************************************************************)
(* What the bot, its payment sidecar and the facilitator promise together: *)
(* a payment is issued for a room and an amount, paid on-chain, booked as  *)
(* settled by the sidecar, credited by the bot to that room with that      *)
(* amount, and confirmed in the room; in this order, each at most once.    *)
(* It may stop at any stage: nothing here says that it goes on.            *)
(***************************************************************************)
EXTENDS Naturals

CONSTANTS
  Payments,
  Terms,      \* what a payment is issued for
  None        \* not a member of Terms

VARIABLES
  terms,      \* the terms each payment was issued with
  paid,       \* the payments transferred on-chain
  booked,     \* the payments the sidecar has as settled
  credit,     \* the terms each payment was credited with
  confirmed   \* how often each payment was confirmed in its room

pvars == <<terms, paid, booked, credit, confirmed>>

Init ==
  /\ terms = [p \in Payments |-> None]
  /\ paid = {}
  /\ booked = {}
  /\ credit = [p \in Payments |-> None]
  /\ confirmed = [p \in Payments |-> 0]

Issue(p) ==
  /\ terms[p] = None
  /\ \E t \in Terms : terms' = [terms EXCEPT ![p] = t]
  /\ UNCHANGED <<paid, booked, credit, confirmed>>

Pay(p) ==
  /\ terms[p] # None
  /\ paid' = paid \cup {p}
  /\ UNCHANGED <<terms, booked, credit, confirmed>>

Book(p) ==
  /\ p \in paid
  /\ booked' = booked \cup {p}
  /\ UNCHANGED <<terms, paid, credit, confirmed>>

Credit(p) ==
  /\ p \in booked
  /\ credit[p] = None
  /\ credit' = [credit EXCEPT ![p] = terms[p]]
  /\ UNCHANGED <<terms, paid, booked, confirmed>>

Confirm(p) ==
  /\ credit[p] # None
  /\ confirmed[p] = 0
  /\ confirmed' = [confirmed EXCEPT ![p] = 1]
  /\ UNCHANGED <<terms, paid, booked, credit>>

Next == \E p \in Payments : Issue(p) \/ Pay(p) \/ Book(p) \/ Credit(p) \/ Confirm(p)

Spec == Init /\ [][Next]_pvars
=============================================================================
