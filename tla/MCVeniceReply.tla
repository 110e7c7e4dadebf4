--------------------------- MODULE MCVeniceReply ---------------------------
(* The instance of VeniceReply for TLC.                                    *)
EXTENDS VeniceReply

\* Two models on one deployment, and the name of one of them on another.
MCVeniceAgents ==
  {[base_url |-> "u1", model |-> "m1", fields |-> {"prompt_cache_retention", "reasoning_effort"}],
   [base_url |-> "u1", model |-> "m2", fields |-> {}],
   [base_url |-> "u2", model |-> "m1", fields |-> {}]}
=============================================================================
