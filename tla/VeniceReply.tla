---------------------------- MODULE VeniceReply ----------------------------
(***************************************************************************)
(* The reply to a message (ChatReply) by an agent on Venice (VeniceChat):  *)
(* the provider's part of the generation is Venice's.  The future of the   *)
(* generation runs only while the handler polls it: an answer, or a        *)
(* refusal to retry after, waits for a notice that is being posted.        *)
(***************************************************************************)
EXTENDS ChatReply, VeniceChat

allvars == <<vars, vvars>>

ReplyInit == Init /\ VeniceInit

\* The reservation that succeeds starts the generation, and the biased select
\* posts no notice once Venice has answered.
Handler ==
  /\ HandlerStep
  /\ pc = "generate" /\ pc' = "notice" => response = Nil
  /\ IF generation = "none" /\ generation' = "running"
     THEN \E a \in VeniceAgents : Begin(a)
     ELSE UNCHANGED vvars

\* Venice's answers arrive at any time.
Arrive == Respond /\ UNCHANGED vars

\* The select polls the generation.
Poll ==
  /\ pc = "generate"
  /\ \/ Retry /\ UNCHANGED vars
     \/ ProviderAnswers /\ End(generation')

Elapse == IntervalElapses /\ UNCHANGED vvars

\* The process ends, and the cache with it.
Exit == Kill /\ agent' = Nil /\ request' = {} /\ response' = Nil
             /\ unsupported' = {} /\ refused' = {}

\* What the others learn after this handler's generation changes nothing here.
Others == OthersLearn /\ generation \in {"none", "running"} /\ pc # "killed" /\ UNCHANGED vars

ReplyNext == Handler \/ Arrive \/ Poll \/ Elapse \/ Exit \/ Others

\* Venice answers or the client's timeout elapses, and a generation that can
\* go on is polled.
ReplySpec ==
  /\ ReplyInit /\ [][ReplyNext]_allvars
  /\ WF_allvars(Handler) /\ WF_allvars(Arrive) /\ WF_allvars(Poll)
=============================================================================
