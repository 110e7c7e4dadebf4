--------------------------- MODULE MCEventIntake ---------------------------
(* The instance of EventIntake for TLC. *)
EXTENDS EventIntake

CONSTANTS e1, e2, e3
=============================================================================
