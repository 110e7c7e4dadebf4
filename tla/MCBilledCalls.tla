--------------------------- MODULE MCBilledCalls ---------------------------
(***************************************************************************)
(* TLC instances of BilledCalls.                                           *)
(***************************************************************************)
EXTENDS BilledCalls, TLC

CONSTANTS c1, c2, c3, r1, r2, p1

\* The handlers and the rooms are interchangeable.
Symmetry == Permutations(Calls) \cup Permutations(Rooms)
=============================================================================
