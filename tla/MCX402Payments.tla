-------------------------- MODULE MCX402Payments ---------------------------
(* Small instances of X402Payments for TLC. *)
EXTENDS X402Payments, TLC

CONSTANTS p1, p2, r1, r2, u1, u2, b1, b2, s1, s2, w1

\* Names that are only compared.  None of the properties under symmetry is a
\* liveness property.
Symmetry ==
  Permutations(Payments) \cup Permutations(Rooms) \cup Permutations(Users)
    \cup Permutations(Buyers) \cup Permutations(Submits)
=============================================================================
