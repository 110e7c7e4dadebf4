------------------------- MODULE VeniceReplyProofs -------------------------
(***************************************************************************)
(* Theorems about VeniceReply, for any agents on Venice: what the cache of *)
(* refusals holds is what Venice refused, and so is all a request lacks;   *)
(* and the reply it is part of is one of ChatReply's.                      *)
(***************************************************************************)
EXTENDS VeniceReply, ChatReplyProofs

\* The cache is exact, and never holds a field that matters.
CacheInv ==
  /\ unsupported = refused
  /\ \A a \in VeniceAgents : RefusedTo(a) \subseteq DROPPABLE_FIELDS
  /\ agent # Nil => agent \in VeniceAgents

ReplyInv == CacheInv /\ OnlyRefusedFieldsAreDropped

\* The steps as far as the generation is concerned.
LEMMA VeniceSteps ==
  ASSUME [ReplyNext]_allvars
  PROVE  \/ \E a \in VeniceAgents : Begin(a)
         \/ Respond \/ Retry \/ OthersLearn
         \/ \E result \in {generation'} : End(result)
         \/ agent' = Nil /\ unsupported' = {} /\ refused' = {}
         \/ UNCHANGED vvars
BY DEF ReplyNext, Handler, Arrive, Poll, Elapse, Exit, Others, allvars

LEMMA ReplyInitInv == ReplyInit => ReplyInv
BY DEF ReplyInit, VeniceInit, ReplyInv, CacheInv, RefusedTo, OnlyRefusedFieldsAreDropped

LEMMA ReplyStepInv == ReplyInv /\ [ReplyNext]_allvars => ReplyInv'
<1> SUFFICES ASSUME ReplyInv, [ReplyNext]_allvars
             PROVE  ReplyInv'
  OBVIOUS
<1> USE DEF ReplyInv, CacheInv, RefusedTo, OnlyRefusedFieldsAreDropped
<1>1. ASSUME NEW a \in VeniceAgents, Begin(a)
      PROVE  ReplyInv'
  BY <1>1 DEF Begin, KnownFor, Strippable, Fields, Configured
<1>2. CASE Respond
  BY <1>2 DEF Respond
<1>3. CASE Retry
  BY <1>3 DEF Retry, Recoverable, Strippable, Record, Fields
<1>4. CASE OthersLearn
  <2> PICK a \in VeniceAgents : \E field \in Configured(a) \cap DROPPABLE_FIELDS :
             /\ Record(a, field)
             /\ refused' = refused \cup {<<a.base_url, a.model, field>>}
    BY <1>4 DEF OthersLearn
  <2>1. UNCHANGED <<agent, request>>
    BY <1>4 DEF OthersLearn
  <2> QED BY <2>1 DEF Record
<1>5. ASSUME NEW result, End(result)
      PROVE  ReplyInv'
  BY <1>5 DEF End
<1>6. CASE agent' = Nil /\ unsupported' = {} /\ refused' = {}
  BY <1>6
<1>7. CASE UNCHANGED vvars
  BY <1>7 DEF vvars
<1> QED BY <1>1, <1>2, <1>3, <1>4, <1>5, <1>6, <1>7, VeniceSteps

\* A request lacks only optional fields, which its own model on its own
\* deployment has refused (strip_droppable_field, UnsupportedFieldsCache).
THEOREM OnlyRefusedDropped == ReplySpec => []OnlyRefusedFieldsAreDropped
<1>1. ReplyInv => OnlyRefusedFieldsAreDropped
  BY DEF ReplyInv
<1> QED BY ReplyInitInv, ReplyStepInv, <1>1, PTL DEF ReplySpec

\* A generation sends no field that was refused before it began (known_for).
THEOREM LearnedOnce == ReplySpec => RefusalIsLearnedOnce
<1>1. ASSUME ReplyInv, [ReplyNext]_allvars
      PROVE  [agent = Nil /\ agent' # Nil => request' \cap RefusedTo(agent') = {}]_vvars
  <2> SUFFICES ASSUME agent = Nil, agent' # Nil
               PROVE  request' \cap RefusedTo(agent') = {}
    OBVIOUS
  <2>1. PICK a \in VeniceAgents : Begin(a)
    BY <1>1, VeniceSteps DEF Respond, Retry, OthersLearn, End, vvars
  <2>2. RefusedTo(a) = KnownFor(a) /\ RefusedTo(a) \subseteq DROPPABLE_FIELDS
    BY <1>1 DEF ReplyInv, CacheInv, RefusedTo, KnownFor
  <2>3. request' \cap RefusedTo(a) = {}
    BY <2>1, <2>2 DEF Begin, Strippable
  <2> QED BY <2>1, <2>3 DEF Begin
<1> QED BY ReplyInitInv, ReplyStepInv, <1>1, PTL DEF ReplySpec, RefusalIsLearnedOnce

-----------------------------------------------------------------------------
(* The provider's retries do not show in the reply.                        *)

\* With Venice's part of the generation, every behaviour of the handler is one
\* that ChatReply has with a provider that answers in any way, at any time.
THEOREM ReplyImplementsChatReply == ReplySpec => Spec
<1>1. ReplyInit => Init
  BY DEF ReplyInit
<1>2. [ReplyNext]_allvars => [Next]_vars
  BY DEF ReplyNext, Handler, Arrive, Poll, Elapse, Exit, Others, Next, allvars
<1> QED BY <1>1, <1>2, PTL DEF ReplySpec, Spec

\* What is spoken is the answer, the user's text, or the text reacted to.
THEOREM ReplySpeech == ReplySpec => []SpeechIsOfTheAnswer
BY ReplyImplementsChatReply, SpeechOfTheAnswer

\* No notice follows the outcome.
THEOREM ReplyOutcome == ReplySpec => NoticeNeverFollowsOutcome
BY ReplyImplementsChatReply, OutcomeIsLast

\* However often Venice refuses fields, a generation leaves one outcome ...
THEOREM ReplyIsOne == ReplySpec => []OneOutcome
BY ReplyImplementsChatReply, OutcomesAreCounted

\* ... no progress reaction ...
THEOREM ReplyWithdrawsProgress == ReplySpec => []ProgressIsWithdrawn
BY ReplyImplementsChatReply, ProgressIsCounted

\* ... and its text, but for the requests to the homeserver that failed.
THEOREM ReplyReachesRoom == ReplySpec => []AnswerReachesRoom
BY ReplyImplementsChatReply, AnswersAreNotLost
=============================================================================
