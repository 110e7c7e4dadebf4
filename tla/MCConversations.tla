-------------------------- MODULE MCConversations --------------------------
(* A TLC instance of Conversations: the bounds are in the configuration.   *)
EXTENDS Conversations
=============================================================================
