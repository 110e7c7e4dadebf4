-------------------------- MODULE ChatReplyProofs --------------------------
(***************************************************************************)
(* Theorems about ChatReply, for any number of failing requests: what is   *)
(* spoken; what happens to the messages of the room once one of them reads *)
(* as the outcome; and how many outcomes, notices and progress reactions a *)
(* handler can leave behind, counted against the requests that failed.     *)
(***************************************************************************)
EXTENDS ChatReply, FiniteSetTheorems, TLAPS

\* The awaits of a handler before anything reads as an outcome.
BeforeOutcome ==
  {"start", "stt_agent", "stt_react", "stt_run", "stt_send", "stt_annotate", "stt_redact",
   "stt_redact_failed", "stt_error", "auto", "gen_react", "gen_agent", "gen_error",
   "conversation", "reserve", "refusal", "generate", "notice", "finalize"}

\* Those of the generation and of speech, and those before the provider is
\* asked for anything.
Generating == {"auto", "gen_react", "gen_agent", "gen_error", "conversation", "reserve",
               "refusal", "generate", "notice", "finalize", "send_answer", "gen_redact"}
Speaking   == {"offer", "offer_react", "speak", "speak_react", "speak_run", "speak_send",
               "speak_error", "speak_redact", "tts_complain"}
Unasked    == BeforeOutcome \ {"generate", "notice", "finalize"}

Reads(bodies) == \E i \in DOMAIN messages : messages[i] \in bodies

MessagesInv ==
  /\ messages \in Seq(Bodies)
  /\ placeholder # None => placeholder \in DOMAIN messages
  /\ pc \in BeforeOutcome => ~Reads(Outcomes)

TargetInv ==
  /\ pc \in BeforeOutcome \cup {"send_answer"} => target = None
  /\ pc \in Speaking => target # None
  /\ target = 0 => payload \in {"text", "reaction_to_text"} /\ generation = "none"
  /\ target \notin {0, None} => target \in DOMAIN messages /\ messages[target] = "answer"

SpeechInv ==
  /\ pc \in Unasked => generation = "none"
  /\ pc \in {"start"} \cup Generating \cup Speaking => flow # "only_transcribe"
  /\ Reads({"audio"}) => target # None /\ flow # "only_transcribe"

RoomInv == MessagesInv /\ TargetInv /\ SpeechInv

-----------------------------------------------------------------------------
(* What a request does to the messages.                                    *)

LEMMA SendEffect ==
  ASSUME messages \in Seq(Bodies), NEW d, NEW body \in Bodies, Send(d, body)
  PROVE  /\ messages' \in Seq(Bodies)
         /\ DOMAIN messages \subseteq DOMAIN messages'
         /\ \A i \in DOMAIN messages : messages'[i] = messages[i]
         /\ \A i \in DOMAIN messages' : i \notin DOMAIN messages => messages'[i] = body
         /\ d = "ok" => /\ Created(d, messages) \in DOMAIN messages'
                        /\ messages'[Created(d, messages)] = body
BY DEF Send, Created

LEMMA EditEffect ==
  ASSUME messages \in Seq(Bodies), NEW d, NEW id, NEW body \in Bodies, Edit(d, id, body)
  PROVE  /\ messages' \in Seq(Bodies)
         /\ DOMAIN messages' = DOMAIN messages
         /\ \A i \in DOMAIN messages : messages'[i] \in {messages[i], body}
         /\ d = "ok" /\ id \in DOMAIN messages => messages'[id] = body
<1>1. CASE messages' = messages
  BY <1>1 DEF Edit
<1>2. CASE messages' = [messages EXCEPT ![id] = body]
  <2>1. messages \in [1..Len(messages) -> Bodies] /\ Len(messages) \in Nat
    OBVIOUS
  <2>2. messages' \in [1..Len(messages) -> Bodies]
    BY <1>2, <2>1
  <2>3. messages' \in Seq(Bodies)
    BY <2>1, <2>2
  <2> QED BY <1>2, <2>1, <2>2, <2>3
<1> QED BY <1>1, <1>2 DEF Edit

\* An event a request made is not the user's.
LEMMA CreatedId ==
  ASSUME messages \in Seq(Bodies), NEW d
  PROVE  /\ Created(d, messages) # 0
         /\ d # "ok" => Created(d, messages) = None
         /\ d = "ok" => Created(d, messages) # None
BY NoneAssumption DEF Created

-----------------------------------------------------------------------------
LEMMA RoomInit == Init => RoomInv
BY NoneAssumption DEF Init, RoomInv, MessagesInv, TargetInv, SpeechInv, Reads, BeforeOutcome,
   Unasked, Generating, Speaking, Flows

LEMMA AgentFound ==
  ASSUME NEW ready, NEW none, NEW complain, NEW complainWhenUnsupported,
         FindAgent(ready, none, complain, complainWhenUnsupported)
  PROVE  pc' \in {ready, none, complain}
BY DEF FindAgent, Agents

\* What a step to another await has to respect.
Orderly ==
  /\ pc' \in BeforeOutcome => pc \in BeforeOutcome
  /\ pc' = "send_answer" => pc \in BeforeOutcome \cup {"send_answer"}
  /\ pc' \in Speaking => pc \in Speaking \/ target # None
  /\ pc' \in Unasked => pc \in Unasked
  /\ pc' = "start" => UNCHANGED <<pc, flow>>
  /\ pc' \in Generating \cup Speaking => flow' # "only_transcribe"
  /\ flow' = flow \/ ~Reads({"audio"})

LEMMA OrderlyStep ==
  ASSUME RoomInv, Orderly, UNCHANGED <<payload, messages, placeholder, target, generation>>
  PROVE  RoomInv'
BY DEF Orderly, RoomInv, MessagesInv, TargetInv, SpeechInv, Reads, BeforeOutcome

LEMMA QuietSteps ==
  ASSUME RoomInv,
         \/ Start \/ SttAgent \/ SttReact \/ SttRun \/ SttAnnotate \/ SttRedact
         \/ GenReact \/ GenAgent \/ CreateConversation \/ Select \/ GenRedact
         \/ Offer \/ OfferReact \/ Speak \/ SpeakReact \/ SpeakRun \/ SpeakRedact
         \/ IntervalElapses \/ Kill \/ UNCHANGED vars
  PROVE  RoomInv'
<1>1. UNCHANGED <<payload, messages, placeholder, target, generation>>
  BY DEF Start, SttAgent, SttReact, SttRun, SttAnnotate, SttRedact, GenReact, GenAgent,
     CreateConversation, Select, GenRedact, Offer, OfferReact, Speak, SpeakReact, SpeakRun,
     SpeakRedact, IntervalElapses, Kill, stt, gen, vars
<1> USE DEF Orderly, BeforeOutcome, Unasked, Generating, Speaking, stt, gen
<1>2. CASE Start
  <2>1. ~Reads({"audio"})
    BY <1>2 DEF Start, RoomInv, TargetInv, SpeechInv
  <2> QED BY <1>2, <2>1, <1>1, OrderlyStep DEF Start, RoomInv, SpeechInv
<1>3. CASE SttAgent \/ GenAgent \/ Offer \/ Speak
  BY <1>3, <1>1, OrderlyStep DEF FindAgent, Agents, SttAgent, GenAgent, Offer, Speak, RoomInv, SpeechInv
<1>4. CASE SttReact \/ SttRun \/ SttAnnotate \/ SttRedact
  BY <1>4, <1>1, OrderlyStep DEF SttReact, SttRun, SttAnnotate, SttRedact
<1>5. CASE GenReact \/ CreateConversation \/ Select
  BY <1>5, <1>1, OrderlyStep DEF GenReact, CreateConversation, Select, RoomInv, SpeechInv
<1>6. CASE GenRedact
  BY <1>6, <1>1, OrderlyStep DEF GenRedact, RoomInv, SpeechInv
<1>7. CASE OfferReact \/ SpeakReact \/ SpeakRun \/ SpeakRedact
  BY <1>7, <1>1, OrderlyStep DEF OfferReact, SpeakReact, SpeakRun, SpeakRedact, RoomInv, SpeechInv
<1>8. CASE IntervalElapses \/ Kill \/ UNCHANGED vars
  BY <1>8, <1>1, OrderlyStep DEF IntervalElapses, Kill, vars, RoomInv, TargetInv, SpeechInv
<1> QED BY <1>2, <1>3, <1>4, <1>5, <1>6, <1>7, <1>8

\* Steps that only add a message.
LEMMA SayingStep ==
  ASSUME RoomInv, Orderly, UNCHANGED <<payload, flow, placeholder, target, generation>>,
         NEW d, NEW body \in Bodies, Send(d, body),
         body \in Outcomes => pc' \notin BeforeOutcome,
         body = "audio" => pc \in Speaking
  PROVE  RoomInv'
<1>1. messages \in Seq(Bodies)
  BY DEF RoomInv, MessagesInv
<1>2. MessagesInv'
  BY <1>1, SendEffect DEF RoomInv, MessagesInv, Orderly, Reads
<1>3. TargetInv'
  BY <1>1, SendEffect DEF RoomInv, TargetInv, Orderly
<1>4. SpeechInv'
  BY <1>1, SendEffect DEF RoomInv, SpeechInv, TargetInv, Orderly, Reads
<1> QED BY <1>2, <1>3, <1>4 DEF RoomInv

LEMMA SayingSteps ==
  ASSUME RoomInv, SttSend \/ SttError \/ GenError \/ Refusal \/ TtsComplain \/ SpeakSend
  PROVE  RoomInv'
<1> USE DEF Orderly, BeforeOutcome, Unasked, Generating, Speaking, Bodies, Outcomes, stt, gen
<1>1. CASE SttSend
  BY <1>1, SayingStep DEF SttSend
<1>2. CASE SttError
  BY <1>2, SayingStep DEF SttError
<1>3. CASE GenError
  BY <1>3, SayingStep DEF GenError, RoomInv, SpeechInv
<1>4. CASE Refusal
  BY <1>4, SayingStep DEF Refusal, RoomInv, SpeechInv
<1>5. CASE TtsComplain
  BY <1>5, SayingStep DEF TtsComplain, RoomInv, SpeechInv
<1>6. CASE SpeakSend
  BY <1>6, SayingStep DEF SpeakSend, RoomInv, SpeechInv
<1> QED BY <1>1, <1>2, <1>3, <1>4, <1>5, <1>6

-----------------------------------------------------------------------------
(* The steps that decide what is spoken, ask the provider, and finish.     *)

LEMMA ChoosingSteps ==
  ASSUME RoomInv, ReactionStart \/ AutoTextGeneration \/ Reserve \/ ProviderAnswers
  PROVE  RoomInv'
<1> USE DEF RoomInv, MessagesInv, TargetInv, SpeechInv, Reads, BeforeOutcome, Unasked,
            Generating, Speaking, stt, gen
<1>1. CASE ReactionStart
  BY <1>1, NoneAssumption DEF ReactionStart
<1>2. CASE AutoTextGeneration
  BY <1>2, NoneAssumption DEF AutoTextGeneration
<1>3. CASE Reserve
  BY <1>3, NoneAssumption DEF Reserve
<1>4. CASE ProviderAnswers
  BY <1>4 DEF ProviderAnswers
<1> QED BY <1>1, <1>2, <1>3, <1>4

LEMMA NoticeStep == RoomInv /\ Notice => RoomInv'
<1> SUFFICES ASSUME RoomInv, Notice
             PROVE  RoomInv'
  OBVIOUS
<1> USE DEF Bodies, Outcomes
<1>1. /\ messages \in Seq(Bodies) /\ target = None /\ ~Reads(Outcomes)
      /\ pc = "notice" /\ pc' = "generate" /\ UNCHANGED <<payload, flow, generation, target>>
      /\ flow # "only_transcribe" /\ ~Reads({"audio"})
  BY DEF Notice, RoomInv, MessagesInv, TargetInv, SpeechInv, BeforeOutcome, Generating, stt
<1>2. PICK d \in Deliveries :
        IF placeholder = None
        THEN Send(d, "thinking") /\ placeholder' = Created(d, messages)
        ELSE Edit(d, placeholder, "thinking") /\ UNCHANGED placeholder
  BY DEF Notice
<1>3. /\ messages' \in Seq(Bodies) /\ DOMAIN messages \subseteq DOMAIN messages'
      /\ \A i \in DOMAIN messages' :
           messages'[i] = "thinking" \/ (i \in DOMAIN messages /\ messages'[i] = messages[i])
  <2>1. CASE placeholder = None
    BY <1>1, <1>2, <2>1, SendEffect
  <2>2. CASE placeholder # None
    BY <1>1, <1>2, <2>2, EditEffect
  <2> QED BY <2>1, <2>2
<1>4. placeholder' # None => placeholder' \in DOMAIN messages'
  BY <1>1, <1>2, <1>3, SendEffect, CreatedId, Zenon DEF RoomInv, MessagesInv
<1>5. MessagesInv'
  BY <1>1, <1>3, <1>4 DEF MessagesInv, Reads
<1>6. TargetInv'
  BY <1>1, NoneAssumption DEF TargetInv, Speaking
<1>7. SpeechInv'
  BY <1>1, <1>3 DEF SpeechInv, Unasked, Reads
<1> QED BY <1>5, <1>6, <1>7 DEF RoomInv

LEMMA FinalizeStep == RoomInv /\ Finalize => RoomInv'
<1> SUFFICES ASSUME RoomInv, Finalize
             PROVE  RoomInv'
  OBVIOUS
<1> USE DEF Bodies, Outcomes
<1>1. /\ messages \in Seq(Bodies) /\ target = None
      /\ pc = "finalize" /\ pc' \in {"gen_redact", "send_answer"}
      /\ UNCHANGED <<payload, flow, generation, placeholder>>
      /\ flow # "only_transcribe" /\ ~Reads({"audio"})
      /\ placeholder # None => placeholder \in DOMAIN messages
  BY DEF Finalize, EditAnswer, RoomInv, MessagesInv, TargetInv, SpeechInv, BeforeOutcome,
         Generating, stt, gen
<1>2. /\ messages' \in Seq(Bodies) /\ DOMAIN messages \subseteq DOMAIN messages'
      /\ \A i \in DOMAIN messages' :
           messages'[i] \in Outcomes \/ (i \in DOMAIN messages /\ messages'[i] = messages[i])
      /\ \/ UNCHANGED target
         \/ placeholder # None /\ pc' = "gen_redact" /\ target' = placeholder /\ messages'[target'] = "answer"
  <2>1. CASE generation = "text" /\ placeholder # None
    <3> PICK d \in Deliveries : EditAnswer(d)
      BY <2>1 DEF Finalize
    <3>1. Edit(d, placeholder, "answer")
      BY DEF EditAnswer
    <3> QED BY <1>1, <2>1, <3>1, EditEffect DEF EditAnswer
  <2>2. CASE generation = "text" /\ placeholder = None
    BY <1>1, <2>2 DEF Finalize
  <2>3. CASE generation # "text"
    <3> PICK d \in Deliveries : FinalizeError(d)
      BY <2>3 DEF Finalize
    <3>1. UNCHANGED target
      BY <2>3 DEF Finalize
    <3>2. CASE Send(d, "text_error")
      BY <1>1, <3>1, <3>2, SendEffect
    <3>3. CASE Edit(d, placeholder, "text_error")
      BY <1>1, <3>1, <3>3, EditEffect
    <3> QED BY <3>2, <3>3 DEF FinalizeError
  <2> QED BY <2>1, <2>2, <2>3
<1>3. MessagesInv'
  BY <1>1, <1>2 DEF MessagesInv, BeforeOutcome
<1>4. TargetInv'
  BY <1>1, <1>2, NoneAssumption DEF TargetInv, BeforeOutcome, Speaking
<1>5. SpeechInv'
  BY <1>1, <1>2 DEF SpeechInv, Unasked, BeforeOutcome, Reads
<1> QED BY <1>3, <1>4, <1>5 DEF RoomInv

LEMMA SendAnswerStep == RoomInv /\ SendAnswer => RoomInv'
<1> SUFFICES ASSUME RoomInv, SendAnswer
             PROVE  RoomInv'
  OBVIOUS
<1> USE DEF Bodies
<1>1. /\ messages \in Seq(Bodies) /\ target = None
      /\ pc = "send_answer" /\ pc' = "gen_redact"
      /\ UNCHANGED <<payload, flow, generation, placeholder>>
      /\ flow # "only_transcribe" /\ ~Reads({"audio"})
      /\ placeholder # None => placeholder \in DOMAIN messages
  BY DEF SendAnswer, RoomInv, MessagesInv, TargetInv, SpeechInv, Generating, stt, gen
<1>2. PICK d \in Deliveries : Send(d, "answer") /\ target' = Created(d, messages)
  BY DEF SendAnswer
<1>3. MessagesInv'
  BY <1>1, <1>2, SendEffect DEF MessagesInv, BeforeOutcome
<1>4. TargetInv'
  BY <1>1, <1>2, SendEffect, CreatedId DEF TargetInv, BeforeOutcome, Speaking
<1>5. SpeechInv'
  BY <1>1, <1>2, SendEffect DEF SpeechInv, Unasked, BeforeOutcome, Reads
<1> QED BY <1>3, <1>4, <1>5 DEF RoomInv

LEMMA RoomStep == RoomInv /\ [Next]_vars => RoomInv'
BY QuietSteps, SayingSteps, ChoosingSteps, NoticeStep, FinalizeStep, SendAnswerStep
   DEF Next, HandlerStep, Transcription, TextGeneration, Speech

\* Once there is an outcome, no message is edited.
LEMMA AfterOutcome ==
  ASSUME pc \notin BeforeOutcome, [Next]_vars
  PROVE  \/ UNCHANGED messages
         \/ \E d \in Deliveries, body \in Bodies \ {"thinking"} : Send(d, body)
<1> USE DEF BeforeOutcome, Bodies
<1>1. CASE Start \/ ReactionStart \/ Transcription \/ AutoTextGeneration
  BY <1>1 DEF Start, ReactionStart, Transcription, SttAgent, SttReact, SttRun, SttSend,
     SttAnnotate, SttRedact, SttError, AutoTextGeneration
<1>2. CASE TextGeneration
  BY <1>2 DEF TextGeneration, GenReact, GenAgent, CreateConversation, GenError, Reserve,
     Refusal, Select, Notice, Finalize, SendAnswer, GenRedact
<1>3. CASE Offer \/ OfferReact \/ Speak \/ SpeakReact \/ SpeakRun \/ SpeakRedact
  BY <1>3 DEF Offer, OfferReact, Speak, SpeakReact, SpeakRun, SpeakRedact
<1>4. CASE TtsComplain \/ SpeakSend
  BY <1>4 DEF TtsComplain, SpeakSend
<1>5. CASE ProviderAnswers \/ IntervalElapses \/ Kill \/ UNCHANGED vars
  BY <1>5 DEF ProviderAnswers, IntervalElapses, Kill, vars
<1> QED BY <1>1, <1>2, <1>3, <1>4, <1>5 DEF Next, HandlerStep, Speech

-----------------------------------------------------------------------------
(* Types.                                                                  *)

Reacted == [on : Nat, key : {"progress", "transcribed", "speak"}, redacted : BOOLEAN]

\* What the reactions to a transcript rest on.
TypeInv ==
  /\ TypeOK
  /\ pc \in {"stt_annotate", "gen_react"} => transcript # None

LEMMA FaultEffect ==
  ASSUME faults \in 0..MaxFaults, NEW d, Fault(d)
  PROVE  /\ faults' \in 0..MaxFaults /\ faults' >= faults
         /\ d = "ok" => faults' = faults
         /\ d # "ok" => faults' = faults + 1
BY BoundAssumption DEF Fault

\* A request that goes out may fail.
LEMMA RequestFault ==
  ASSUME NEW d, NEW id, NEW key,
         \/ Send(d, key) \/ Edit(d, id, key) \/ React(d, id, key)
  PROVE  Fault(d)
BY DEF Send, Edit, React

LEMMA ReactEffect ==
  ASSUME reactions \in Seq(Reacted), NEW d, NEW id \in Nat,
         NEW key \in {"progress", "transcribed", "speak"}, React(d, id, key)
  PROVE  /\ reactions' \in Seq(Reacted)
         /\ DOMAIN reactions \subseteq DOMAIN reactions'
         /\ \A i \in DOMAIN reactions : reactions'[i] = reactions[i]
         /\ DOMAIN reactions' \subseteq DOMAIN reactions \cup {Len(reactions) + 1}
         /\ \A i \in DOMAIN reactions' : i \notin DOMAIN reactions => reactions'[i].key = key
         /\ d = "lost" => reactions' = reactions
         /\ d = "ok" => Created(d, reactions) \in DOMAIN reactions'
<1>1. [on |-> id, key |-> key, redacted |-> FALSE] \in Reacted
  BY DEF Reacted
<1> DEFINE r == [on |-> id, key |-> key, redacted |-> FALSE]
<1>2. r.key = key
  OBVIOUS
<1>3. CASE reactions' = reactions
  BY <1>3 DEF Created, React
<1>4. CASE reactions' = Append(reactions, r)
  <2> HIDE DEF r
  <2>1. /\ reactions' \in Seq(Reacted) /\ Len(reactions') = Len(reactions) + 1
        /\ \A i \in 1..Len(reactions) : reactions'[i] = reactions[i]
        /\ reactions'[Len(reactions) + 1] = r
    BY <1>1, <1>4 DEF r
  <2>2. DOMAIN reactions = 1..Len(reactions) /\ DOMAIN reactions' = 1..(Len(reactions) + 1)
    BY <2>1
  <2>3. d # "lost"
    BY <1>4 DEF React
  <2> QED BY <1>2, <2>1, <2>2, <2>3 DEF Created
<1> QED BY <1>4 DEF React

LEMMA RedactEffect ==
  ASSUME reactions \in Seq(Reacted), progress # None => progress \in DOMAIN reactions,
         faults \in 0..MaxFaults, RedactProgress
  PROVE  /\ progress' = None
         /\ reactions' \in Seq(Reacted) /\ DOMAIN reactions' = DOMAIN reactions
         /\ \A i \in DOMAIN reactions : /\ reactions'[i].key = reactions[i].key
                                        /\ i # progress => reactions'[i] = reactions[i]
         /\ faults' \in 0..MaxFaults /\ faults' >= faults
         /\ progress = None \/ reactions'[progress].redacted \/ faults' = faults + 1
<1>1. progress' = None
  BY DEF RedactProgress
<1>2. CASE UNCHANGED <<reactions, faults>> /\ progress = None
  BY <1>1, <1>2
<1>3. CASE progress # None
  <2>1. PICK d \in Deliveries :
          /\ Fault(d)
          /\ reactions' = IF d = "lost" THEN reactions
                          ELSE [reactions EXCEPT ![progress].redacted = TRUE]
    BY <1>3 DEF RedactProgress
  <2>2. CASE reactions' = reactions /\ d = "lost"
    BY <1>1, <2>1, <2>2, FaultEffect
  <2>3. CASE reactions' = [reactions EXCEPT ![progress].redacted = TRUE]
    <3>1. reactions \in [1..Len(reactions) -> Reacted] /\ Len(reactions) \in Nat
      OBVIOUS
    <3>2. [reactions[progress] EXCEPT !.redacted = TRUE] \in Reacted
      BY <1>3, <3>1 DEF Reacted
    <3>3. reactions' \in [1..Len(reactions) -> Reacted]
      BY <2>3, <3>1, <3>2
    <3>4. /\ reactions' \in Seq(Reacted) /\ DOMAIN reactions' = DOMAIN reactions
          /\ reactions'[progress].redacted
          /\ \A i \in DOMAIN reactions : reactions'[i].key = reactions[i].key
          /\ \A i \in DOMAIN reactions : i # progress => reactions'[i] = reactions[i]
      BY <1>3, <2>3, <3>1, <3>3 DEF Reacted
    <3> QED BY <1>1, <2>1, <3>4, FaultEffect
  <2> QED BY <2>1, <2>2, <2>3
<1> QED BY <1>2, <1>3 DEF RedactProgress

\* The part of the types that is about the room.
RoomTypes ==
  /\ messages \in Seq(Bodies) /\ reactions \in Seq(Reacted)
  /\ {progress, transcript, placeholder, target} \subseteq Id
  /\ progress # None => progress \in DOMAIN reactions
  /\ \A id \in {transcript, placeholder, target} \ {None, 0} : id \in DOMAIN messages
  /\ faults \in 0..MaxFaults

\* The awaits a step may lead to.
Awaits ==
  {"start", "stt_agent", "stt_react", "stt_run", "stt_send", "stt_annotate",
   "stt_redact", "stt_redact_failed", "stt_error", "auto", "gen_react", "gen_agent",
   "gen_error", "conversation", "reserve", "refusal", "generate", "notice",
   "finalize", "send_answer", "gen_redact", "offer", "offer_react", "speak",
   "speak_react", "speak_run", "speak_send", "speak_error", "speak_redact",
   "tts_complain", "done", "killed"}

HandlerTypes ==
  /\ pc \in Awaits
  /\ pc \in {"stt_annotate", "gen_react"} => transcript # None
  /\ payload \in Payloads
  /\ flow \in Flows \cup {None}
  /\ generation \in {"none", "running", "text", "empty", "error"}
  /\ notice \in BOOLEAN /\ due \in BOOLEAN

LEMMA TypeParts == TypeInv <=> RoomTypes /\ HandlerTypes
BY DEF TypeInv, TypeOK, RoomTypes, HandlerTypes, Awaits, Reacted

LEMMA TypePartsNext == TypeInv' <=> RoomTypes' /\ HandlerTypes'
BY TypeParts, PTL

LEMMA TypeInit == Init => TypeInv
<1>1. Init => RoomTypes
  BY BoundAssumption, NoneAssumption DEF Init, RoomTypes, Id
<1>2. Init => HandlerTypes
  BY DEF Init, HandlerTypes, Awaits
<1> QED BY <1>1, <1>2, TypeParts

\* Steps that make no request.
LEMMA SilentTypes ==
  ASSUME TypeInv,
         \/ Start \/ ReactionStart \/ SttAgent \/ SttRun \/ AutoTextGeneration \/ GenAgent
         \/ CreateConversation \/ Reserve \/ Select \/ Offer \/ Speak \/ SpeakRun
         \/ ProviderAnswers \/ IntervalElapses \/ Kill \/ UNCHANGED vars
  PROVE  TypeInv'
<1>1. UNCHANGED <<payload, messages, reactions, progress, transcript, notice, placeholder, faults>>
      /\ target' \in {target, 0}
  BY DEF Start, ReactionStart, SttAgent, SttRun, AutoTextGeneration, GenAgent, CreateConversation,
     Reserve, Select, Offer, Speak, SpeakRun, ProviderAnswers, IntervalElapses, Kill, vars, stt, gen
<1>2. RoomTypes'
  BY <1>1, TypeParts DEF RoomTypes, Id
<1>3. HandlerTypes'
  <2>0. HandlerTypes
    BY TypeParts
  <2>1. CASE Start \/ ReactionStart \/ AutoTextGeneration
    BY <2>0, <2>1 DEF HandlerTypes, Awaits, stt, gen, Start, ReactionStart, AutoTextGeneration,
       Flows
  <2>2. CASE SttAgent \/ GenAgent \/ Offer \/ Speak
    BY <2>0, <2>2 DEF HandlerTypes, Awaits, stt, gen, FindAgent, Agents, SttAgent, GenAgent,
       Offer, Speak
  <2>3. CASE SttRun \/ CreateConversation \/ Reserve \/ Select \/ SpeakRun
    BY <2>0, <2>3 DEF HandlerTypes, Awaits, stt, gen, SttRun, CreateConversation, Reserve,
       Select, SpeakRun
  <2>4. CASE ProviderAnswers \/ IntervalElapses \/ Kill \/ UNCHANGED vars
    <3>1. CASE UNCHANGED vars
      BY <2>0, <3>1 DEF HandlerTypes, vars
    <3>2. CASE ProviderAnswers
      BY <2>0, <3>2 DEF HandlerTypes, stt, ProviderAnswers
    <3>3. CASE IntervalElapses
      BY <2>0, <3>3 DEF HandlerTypes, stt, IntervalElapses
    <3>4. CASE Kill
      BY <2>0, <3>4 DEF HandlerTypes, Awaits, stt, gen, Kill
    <3> QED BY <2>4, <3>1, <3>2, <3>3, <3>4
  <2> QED BY <2>1, <2>2, <2>3, <2>4
<1> QED BY <1>2, <1>3, TypePartsNext

LEMMA ReactTypes ==
  ASSUME RoomInv, TypeInv, SttReact \/ SttAnnotate \/ GenReact \/ OfferReact \/ SpeakReact
  PROVE  TypeInv'
<1>1. /\ reactions \in Seq(Reacted) /\ faults \in 0..MaxFaults
      /\ progress # None => progress \in DOMAIN reactions
      /\ transcript # None => transcript \in Nat
      /\ pc \in {"offer_react", "speak_react"} => target \in Nat
  BY DEF TypeInv, TypeOK, Reacted, Id, RoomInv, TargetInv, Speaking
<1>2. /\ UNCHANGED <<stt, messages, gen, target>>
      /\ pc' \in {"stt_run", "stt_redact", "gen_agent", "done", "speak_run"}
      /\ \E d \in Deliveries, id \in Nat, key \in {"progress", "transcribed", "speak"} :
           /\ React(d, id, key)
           /\ progress' \in {progress, Created(d, reactions)}
  <2>1. CASE SttReact \/ GenReact \/ SpeakReact
    BY <1>1, <2>1 DEF SttReact, GenReact, SpeakReact, ReactProgress, TypeInv, stt, gen
  <2>2. CASE SttAnnotate \/ OfferReact
    BY <1>1, <2>2 DEF SttAnnotate, OfferReact, TypeInv, stt, gen
  <2> QED BY <2>1, <2>2
<1>3. PICK d \in Deliveries, id \in Nat, key \in {"progress", "transcribed", "speak"} :
        React(d, id, key) /\ progress' \in {progress, Created(d, reactions)}
  BY <1>2
<1>4. reactions' \in Seq(Reacted) /\ DOMAIN reactions \subseteq DOMAIN reactions'
  BY <1>1, <1>3, ReactEffect
<1>5. Created(d, reactions) # None => Created(d, reactions) \in DOMAIN reactions' \cap Nat
  BY <1>1, <1>3, ReactEffect DEF Created
<1>6. faults' \in 0..MaxFaults
  BY <1>1, <1>3, FaultEffect, RequestFault
<1>7. RoomTypes'
  <2>1. RoomTypes
    BY TypeParts
  <2> QED BY <1>2, <1>3, <1>4, <1>5, <1>6, <2>1 DEF RoomTypes, Id, stt, gen
<1>8. HandlerTypes'
  <2>1. HandlerTypes
    BY TypeParts
  <2> QED BY <1>2, <2>1 DEF HandlerTypes, Awaits, stt, gen
<1> QED BY <1>7, <1>8, TypePartsNext

LEMMA RedactTypes ==
  ASSUME TypeInv, SttRedact \/ GenRedact \/ SpeakRedact
  PROVE  TypeInv'
<1>1. RedactProgress /\ UNCHANGED <<stt, messages, gen, target>>
  BY DEF SttRedact, GenRedact, SpeakRedact
<1>2. pc' \in {"stt_error", "done", "auto", "offer", "speak"}
  BY DEF SttRedact, GenRedact, SpeakRedact
<1>3. /\ progress' = None /\ reactions' \in Seq(Reacted) /\ faults' \in 0..MaxFaults
  BY <1>1, RedactEffect DEF TypeInv, TypeOK, Reacted
<1> QED BY <1>1, <1>2, <1>3 DEF TypeInv, TypeOK, Reacted, Id, stt, gen

LEMMA SayTypes ==
  ASSUME RoomInv, TypeInv,
         \/ SttSend \/ SttError \/ GenError \/ Refusal \/ Notice \/ Finalize \/ SendAnswer
         \/ TtsComplain \/ SpeakSend
  PROVE  TypeInv'
<1> USE DEF Bodies
<1>1. messages \in Seq(Bodies) /\ faults \in 0..MaxFaults
  BY DEF TypeInv, TypeOK
<1>2. /\ UNCHANGED <<payload, flow, reactions, progress, notice, generation, due>>
      /\ pc' \in {"stt_redact_failed", "stt_redact", "stt_annotate", "done", "gen_redact",
                  "generate", "send_answer", "speak_redact"}
      /\ pc' = "stt_annotate" => transcript' # None
  <2>1. CASE SttSend
    BY <1>1, <2>1, CreatedId DEF SttSend, gen
  <2>2. CASE Finalize
    BY <2>2 DEF Finalize, EditAnswer, stt, gen
  <2>3. CASE SttError \/ GenError \/ Refusal \/ Notice \/ SendAnswer \/ TtsComplain \/ SpeakSend
    BY <2>3 DEF SttError, GenError, Refusal, Notice, SendAnswer, TtsComplain, SpeakSend, stt, gen
  <2> QED BY <2>1, <2>2, <2>3
<1> DEFINE ids  == {transcript, placeholder, target}
           ids2 == {transcript', placeholder', target'}
<1>3. \/ UNCHANGED <<messages, faults>> /\ ids2 = ids
      \/ \E d \in Deliveries, body \in Bodies : Edit(d, placeholder, body) /\ ids2 \subseteq ids
      \/ \E d \in Deliveries, body \in Bodies :
           Send(d, body) /\ ids2 \subseteq ids \cup {Created(d, messages)}
  <2>1. CASE SttSend
    BY <2>1 DEF SttSend, gen
  <2>2. CASE Finalize
    <3>1. CASE UNCHANGED <<messages, target, faults>>
      BY <2>2, <3>1 DEF Finalize, stt, gen
    <3>2. ASSUME NEW d \in Deliveries, EditAnswer(d)
          PROVE  Edit(d, placeholder, "answer") /\ target' \in {target, placeholder}
      BY <3>2 DEF EditAnswer
    <3>3. ASSUME NEW d \in Deliveries, FinalizeError(d), UNCHANGED target
          PROVE  Send(d, "text_error") \/ Edit(d, placeholder, "text_error")
      BY <3>3 DEF FinalizeError
    <3> QED BY <2>2, <3>1, <3>2, <3>3 DEF Finalize, stt, gen
  <2>3. CASE Notice
    BY <2>3 DEF Notice, stt
  <2>4. CASE SttError \/ GenError \/ Refusal \/ SendAnswer \/ TtsComplain \/ SpeakSend
    BY <2>4 DEF SttError, GenError, Refusal, SendAnswer, TtsComplain, SpeakSend, stt, gen
  <2> QED BY <2>1, <2>2, <2>3, <2>4
<1> DEFINE grown == /\ messages' \in Seq(Bodies) /\ DOMAIN messages \subseteq DOMAIN messages'
                    /\ faults' \in 0..MaxFaults
                    /\ \A id \in ids2 \ ids : id # None => id \in DOMAIN messages'
<1>4. grown
  <2>1. ASSUME NEW d \in Deliveries, NEW body \in Bodies, Edit(d, placeholder, body), ids2 \subseteq ids
        PROVE  grown
    BY <1>1, <2>1, EditEffect, FaultEffect, RequestFault
  <2>2. ASSUME NEW d \in Deliveries, NEW body \in Bodies, Send(d, body),
               ids2 \subseteq ids \cup {Created(d, messages)}
        PROVE  grown
    <3>1. Created(d, messages) # None => Created(d, messages) \in DOMAIN messages'
      BY <1>1, <2>2, SendEffect, CreatedId
    <3> QED BY <1>1, <2>2, <3>1, SendEffect, FaultEffect, RequestFault
  <2> QED BY <1>1, <1>3, <2>1, <2>2
<1>5. RoomTypes'
  <2>1. \A id \in ids \ {None, 0} : id \in DOMAIN messages
    BY TypeParts DEF RoomTypes
  <2>2. \A id \in ids2 : id \in ids \/ id = None \/ id \in DOMAIN messages'
    BY <1>4
  <2>3. \A id \in ids2 \ {None, 0} : id \in DOMAIN messages'
    BY <2>1, <2>2, <1>4
  <2>4. \A id \in ids2 : id \in Id
    BY <2>2, <1>4, TypeParts DEF RoomTypes, Id
  <2> QED BY <1>2, <1>4, <2>3, <2>4, TypeParts DEF RoomTypes
<1>6. HandlerTypes'
  BY <1>2, TypeParts DEF HandlerTypes, Awaits
<1> QED BY <1>5, <1>6, TypePartsNext

LEMMA TypeStep == RoomInv /\ TypeInv /\ [Next]_vars => TypeInv'
BY SilentTypes, ReactTypes, RedactTypes, SayTypes
   DEF Next, HandlerStep, Transcription, TextGeneration, Speech

LEMMA FaultsGrow ==
  ASSUME TypeInv, [Next]_vars
  PROVE  faults' \in Nat /\ faults' >= faults
<1>1. faults \in 0..MaxFaults
  BY DEF TypeInv, TypeOK
<1>2. CASE UNCHANGED faults
  BY <1>1, <1>2
<1>3. CASE \E d \in Deliveries : Fault(d)
  BY <1>1, <1>3, FaultEffect
<1>4. CASE SttSend \/ SttError \/ GenError \/ Refusal \/ SendAnswer \/ TtsComplain \/ SpeakSend
  BY <1>3, <1>4 DEF Send, SttSend, SttError, GenError, Refusal, SendAnswer, TtsComplain, SpeakSend
<1>5. CASE Notice
  BY <1>3, <1>5 DEF Send, Edit, Notice
<1>6. CASE Finalize
  BY <1>2, <1>3, <1>6 DEF Send, Edit, Finalize, EditAnswer, FinalizeError
<1>7. CASE SttReact \/ SttAnnotate \/ GenReact \/ OfferReact \/ SpeakReact
  BY <1>3, <1>7 DEF React, ReactProgress, SttReact, SttAnnotate, GenReact, OfferReact, SpeakReact
<1>8. CASE SttRedact \/ GenRedact \/ SpeakRedact
  BY <1>2, <1>3, <1>8 DEF RedactProgress, SttRedact, GenRedact, SpeakRedact
<1>9. CASE \/ Start \/ ReactionStart \/ SttAgent \/ SttRun
           \/ AutoTextGeneration \/ GenAgent \/ CreateConversation \/ Reserve
           \/ Select \/ Offer \/ Speak \/ SpeakRun
           \/ ProviderAnswers \/ IntervalElapses \/ Kill \/ UNCHANGED vars
  BY <1>2, <1>9 DEF Start, ReactionStart, SttAgent, SttRun, AutoTextGeneration, GenAgent,
     CreateConversation, Reserve, Select, Offer, Speak, SpeakRun, ProviderAnswers,
     IntervalElapses, Kill, vars
<1> QED BY <1>4, <1>5, <1>6, <1>7, <1>8, <1>9
       DEF Next, HandlerStep, Transcription, TextGeneration, Speech

-----------------------------------------------------------------------------
(* Counting messages and reactions.                                        *)

LEMMA NowFinite ==
  ASSUME messages \in Seq(Bodies), NEW bodies
  PROVE  IsFiniteSet(Now(bodies)) /\ Cardinality(Now(bodies)) \in Nat
<1>1. Len(messages) \in Nat /\ DOMAIN messages = 1..Len(messages)
  OBVIOUS
<1>2. IsFiniteSet(1..Len(messages))
  BY <1>1, FS_Interval
<1> QED BY <1>1, <1>2, FS_Subset, FS_CardinalityType DEF Now

LEMMA CountSubset ==
  ASSUME NEW S, IsFiniteSet(S), NEW T, T \subseteq S
  PROVE  /\ IsFiniteSet(T) /\ Cardinality(T) \in Nat /\ Cardinality(S) \in Nat
         /\ Cardinality(T) <= Cardinality(S)
BY FS_Subset, FS_CardinalityType

\* One more element at most.
LEMMA CountOneMore ==
  ASSUME NEW S, IsFiniteSet(S), NEW x, NEW T, T \subseteq S \cup {x}
  PROVE  /\ IsFiniteSet(T) /\ Cardinality(T) \in Nat /\ Cardinality(S) \in Nat
         /\ Cardinality(T) <= Cardinality(S) + 1
<1>1. /\ IsFiniteSet(S \cup {x}) /\ Cardinality(S) \in Nat
      /\ Cardinality(S \cup {x}) <= Cardinality(S) + 1
  <2>1. Cardinality(S) \in Nat
    BY FS_CardinalityType
  <2> QED BY <2>1, FS_AddElement
<1>2. IsFiniteSet(T) /\ Cardinality(T) \in Nat /\ Cardinality(T) <= Cardinality(S \cup {x})
  BY <1>1, CountSubset
<1>3. Cardinality(S \cup {x}) \in Nat
  BY <1>1, FS_CardinalityType
<1> QED BY <1>1, <1>2, <1>3

\* The messages that read as one of the bodies, after a message more ...
LEMMA NowAfterSend ==
  ASSUME messages \in Seq(Bodies), NEW d, NEW body \in Bodies, Send(d, body), NEW bodies
  PROVE  /\ Now(bodies) \subseteq Now(bodies)'
         /\ body \notin bodies \/ d = "lost" => Now(bodies)' = Now(bodies)
         /\ Now(bodies)' \subseteq Now(bodies) \cup {Len(messages) + 1}
         /\ body \in bodies /\ d # "lost" => Now(bodies)' = Now(bodies) \cup {Len(messages) + 1}
<1>1. CASE messages' = messages
  BY <1>1 DEF Send, Now
<1>2. CASE messages' = Append(messages, body)
  <2>1. /\ DOMAIN messages' = DOMAIN messages \cup {Len(messages) + 1}
        /\ Len(messages) + 1 \notin DOMAIN messages
        /\ \A i \in DOMAIN messages : messages'[i] = messages[i]
        /\ messages'[Len(messages) + 1] = body
    BY <1>2
  <2>2. d # "lost"
    BY <2>1 DEF Send
  <2> QED BY <2>1, <2>2 DEF Now
<1> QED BY <1>1, <1>2 DEF Send

\* ... and after one is edited.
LEMMA NowAfterEdit ==
  ASSUME messages \in Seq(Bodies), NEW d, NEW id \in DOMAIN messages, NEW body \in Bodies,
         Edit(d, id, body), NEW bodies
  PROVE  /\ d = "lost" => Now(bodies)' = Now(bodies)
         /\ Now(bodies)' \subseteq Now(bodies) \cup {id}
         /\ Now(bodies) \subseteq Now(bodies)' \cup {id}
         /\ body \notin bodies => Now(bodies)' \subseteq Now(bodies)
         /\ d # "lost" => (id \in Now(bodies)' <=> body \in bodies)
<1>1. CASE messages' = messages /\ d = "lost"
  BY <1>1 DEF Now
<1>2. CASE messages' = [messages EXCEPT ![id] = body] /\ d # "lost"
  BY <1>2 DEF Now
<1> QED BY <1>1, <1>2 DEF Edit

-----------------------------------------------------------------------------
(* Progress reactions.                                                     *)

ProgressLeft == {i \in DOMAIN reactions : reactions[i].key = "progress" /\ ~reactions[i].redacted}

\* The awaits at which the handler has no progress reaction of its own.
Unmarked == {"start", "stt_agent", "stt_react", "stt_error", "auto", "gen_react", "offer",
             "offer_react", "speak", "speak_react", "tts_complain", "done"}

\* Besides the one the handler is to withdraw, each reaction left is of a
\* request that failed.
ProgressInv ==
  /\ Cardinality(ProgressLeft \ {progress}) <= faults
  /\ pc \in Unmarked => progress = None

LEMMA ProgressFinite ==
  ASSUME reactions \in Seq(Reacted)
  PROVE  IsFiniteSet(ProgressLeft) /\ Len(reactions) + 1 \notin ProgressLeft
<1>1. Len(reactions) \in Nat /\ DOMAIN reactions = 1..Len(reactions)
  OBVIOUS
<1>2. IsFiniteSet(1..Len(reactions))
  BY <1>1, FS_Interval
<1> QED BY <1>1, <1>2, FS_Subset DEF ProgressLeft

LEMMA ProgressInit == Init => ProgressInv
BY FS_EmptySet DEF Init, ProgressInv, ProgressLeft, Unmarked

\* Steps that neither react nor withdraw a reaction.
LEMMA ProgressKept ==
  ASSUME TypeInv, ProgressInv, UNCHANGED <<reactions, progress>>,
         \/ Start \/ ReactionStart \/ SttAgent \/ SttRun \/ SttSend \/ SttError
         \/ AutoTextGeneration \/ GenAgent \/ CreateConversation \/ GenError \/ Reserve
         \/ Refusal \/ Select \/ Notice \/ Finalize \/ SendAnswer \/ Offer \/ Speak
         \/ TtsComplain \/ SpeakRun \/ SpeakSend
         \/ ProviderAnswers \/ IntervalElapses \/ Kill \/ UNCHANGED vars
  PROVE  ProgressInv'
<1>1. faults \in 0..MaxFaults /\ reactions \in Seq(Reacted)
  BY DEF TypeInv, TypeOK, Reacted
<1>2. faults' \in Nat /\ faults' >= faults
  <2>1. [Next]_vars
    BY DEF Next, HandlerStep, Transcription, TextGeneration, Speech
  <2> QED BY <2>1, FaultsGrow
<1>3. ProgressLeft' = ProgressLeft
  BY DEF ProgressLeft
<1>4. Cardinality(ProgressLeft \ {progress}) \in Nat
  BY <1>1, ProgressFinite, CountSubset
<1>5. pc' \in Unmarked => pc \in Unmarked
  <2> USE DEF Unmarked
  <2>1. CASE Start \/ ReactionStart \/ AutoTextGeneration
    BY <2>1 DEF Start, ReactionStart, AutoTextGeneration
  <2>2. CASE SttAgent \/ GenAgent \/ Offer \/ Speak
    BY <2>2 DEF FindAgent, Agents, SttAgent, GenAgent, Offer, Speak
  <2>3. CASE SttRun \/ SttSend \/ SttError \/ CreateConversation \/ GenError \/ Reserve \/ Refusal
    BY <2>3 DEF SttRun, SttSend, SttError, CreateConversation, GenError, Reserve, Refusal
  <2>4. CASE Select \/ Notice \/ Finalize \/ SendAnswer \/ TtsComplain \/ SpeakRun \/ SpeakSend
    BY <2>4 DEF Select, Notice, Finalize, EditAnswer, SendAnswer, TtsComplain, SpeakRun, SpeakSend
  <2>5. CASE ProviderAnswers \/ IntervalElapses \/ Kill \/ UNCHANGED vars
    BY <2>5 DEF ProviderAnswers, IntervalElapses, Kill, vars
  <2> QED BY <2>1, <2>2, <2>3, <2>4, <2>5
<1> QED BY <1>1, <1>2, <1>3, <1>4, <1>5 DEF ProgressInv

LEMMA ReactProgressStep ==
  ASSUME TypeInv, ProgressInv, progress = None, pc' \notin Unmarked,
         NEW id \in Nat, ReactProgress(id)
  PROVE  ProgressInv'
<1>1. /\ reactions \in Seq(Reacted) /\ faults \in 0..MaxFaults
      /\ DOMAIN reactions = 1..Len(reactions) /\ Len(reactions) \in Nat
  BY DEF TypeInv, TypeOK, Reacted
<1>2. PICK d \in Deliveries : React(d, id, "progress") /\ progress' = Created(d, reactions)
  BY DEF ReactProgress
<1>3. IsFiniteSet(ProgressLeft) /\ Cardinality(ProgressLeft) \in Nat /\ Cardinality(ProgressLeft) <= faults
  <2>1. ProgressLeft \ {progress} = ProgressLeft
    BY <1>1, NoneAssumption DEF ProgressLeft
  <2> QED BY <1>1, <2>1, ProgressFinite, FS_CardinalityType DEF ProgressInv
<1>4. ProgressLeft' \subseteq ProgressLeft \cup {Len(reactions) + 1}
  BY <1>1, <1>2, ReactEffect DEF ProgressLeft
<1>5. Cardinality(ProgressLeft' \ {progress'}) <= faults'
  <2>1. CASE d = "ok"
    <3>1. ProgressLeft' \ {progress'} \subseteq ProgressLeft
      BY <1>2, <1>4, <2>1 DEF Created
    <3>2. Cardinality(ProgressLeft' \ {progress'}) <= Cardinality(ProgressLeft)
          /\ Cardinality(ProgressLeft' \ {progress'}) \in Nat
      BY <1>3, <3>1, CountSubset
    <3> QED BY <1>1, <1>2, <1>3, <2>1, <3>2, FaultEffect, RequestFault
  <2>2. CASE d # "ok"
    <3>1. ProgressLeft' \ {progress'} \subseteq ProgressLeft \cup {Len(reactions) + 1}
      BY <1>4
    <3>2. Cardinality(ProgressLeft' \ {progress'}) <= Cardinality(ProgressLeft) + 1
          /\ Cardinality(ProgressLeft' \ {progress'}) \in Nat
      BY <1>3, <3>1, CountOneMore
    <3>3. faults' = faults + 1
      BY <1>1, <1>2, <2>2, FaultEffect, RequestFault
    <3> QED BY <1>1, <1>3, <3>2, <3>3
  <2> QED BY <2>1, <2>2
<1> QED BY <1>5 DEF ProgressInv

LEMMA OtherReactionStep ==
  ASSUME TypeInv, ProgressInv, UNCHANGED progress, pc' \in Unmarked => pc \in Unmarked,
         NEW d, NEW id \in Nat, NEW key \in {"transcribed", "speak"}, React(d, id, key)
  PROVE  ProgressInv'
<1>1. reactions \in Seq(Reacted) /\ faults \in 0..MaxFaults
  BY DEF TypeInv, TypeOK, Reacted
<1>2. ProgressLeft' = ProgressLeft
  BY <1>1, ReactEffect DEF ProgressLeft
<1>3. Cardinality(ProgressLeft \ {progress}) \in Nat
  BY <1>1, ProgressFinite, CountSubset
<1>4. faults' \in Nat /\ faults' >= faults
  BY <1>1, FaultEffect, RequestFault
<1> QED BY <1>1, <1>2, <1>3, <1>4 DEF ProgressInv

LEMMA RedactProgressStep ==
  ASSUME TypeInv, ProgressInv, RedactProgress
  PROVE  ProgressInv'
<1>1. /\ reactions \in Seq(Reacted) /\ faults \in 0..MaxFaults
      /\ progress # None => progress \in DOMAIN reactions
  BY DEF TypeInv, TypeOK, Reacted
<1>2. IsFiniteSet(ProgressLeft \ {progress}) /\ Cardinality(ProgressLeft \ {progress}) \in Nat
  BY <1>1, ProgressFinite, CountSubset
<1>3. /\ ProgressLeft' \subseteq (ProgressLeft \ {progress}) \cup {progress}
      /\ progress = None \/ faults' # faults + 1 => ProgressLeft' \subseteq ProgressLeft \ {progress}
      /\ progress' = None /\ faults' \in Nat /\ faults' >= faults
  BY <1>1, RedactEffect, NoneAssumption DEF ProgressLeft
<1>4. Cardinality(ProgressLeft' \ {progress'}) <= faults'
  <2>1. CASE faults' = faults + 1
    <3>1. ProgressLeft' \ {progress'} \subseteq (ProgressLeft \ {progress}) \cup {progress}
      BY <1>3
    <3>2. Cardinality(ProgressLeft' \ {progress'}) <= Cardinality(ProgressLeft \ {progress}) + 1
          /\ Cardinality(ProgressLeft' \ {progress'}) \in Nat
      BY <1>2, <3>1, CountOneMore
    <3> QED BY <1>1, <1>2, <2>1, <3>2 DEF ProgressInv
  <2>2. CASE faults' # faults + 1
    <3>1. ProgressLeft' \ {progress'} \subseteq ProgressLeft \ {progress}
      BY <1>3, <2>2
    <3>2. Cardinality(ProgressLeft' \ {progress'}) <= Cardinality(ProgressLeft \ {progress})
          /\ Cardinality(ProgressLeft' \ {progress'}) \in Nat
      BY <1>2, <3>1, CountSubset
    <3> QED BY <1>1, <1>2, <1>3, <3>2 DEF ProgressInv
  <2> QED BY <2>1, <2>2
<1> QED BY <1>3, <1>4 DEF ProgressInv

LEMMA ProgressStep ==
  RoomInv /\ TypeInv /\ ProgressInv /\ [Next]_vars => ProgressInv'
<1> SUFFICES ASSUME RoomInv, TypeInv, ProgressInv, [Next]_vars
             PROVE  ProgressInv'
  OBVIOUS
<1>1. CASE SttReact \/ GenReact \/ SpeakReact
  <2>1. /\ transcript # None => transcript \in Nat
        /\ pc = "gen_react" => transcript # None
        /\ pc = "speak_react" => target \in Nat
    BY DEF TypeInv, TypeOK, Id, RoomInv, TargetInv, Speaking
  <2>2. progress = None
    BY <1>1 DEF SttReact, GenReact, SpeakReact, ProgressInv, Unmarked
  <2>3. \E id \in Nat : ReactProgress(id)
    BY <1>1, <2>1 DEF SttReact, GenReact, SpeakReact
  <2>4. pc' \notin Unmarked
    BY <1>1 DEF SttReact, GenReact, SpeakReact, Unmarked
  <2> QED BY <2>2, <2>3, <2>4, ReactProgressStep
<1>2. CASE SttAnnotate \/ OfferReact
  <2>1. /\ transcript # None => transcript \in Nat
        /\ pc = "stt_annotate" => transcript # None
        /\ pc = "offer_react" => target \in Nat
    BY DEF TypeInv, TypeOK, Id, RoomInv, TargetInv, Speaking
  <2>2. \E d \in Deliveries, id \in Nat, key \in {"transcribed", "speak"} : React(d, id, key)
    BY <1>2, <2>1 DEF SttAnnotate, OfferReact
  <2>3. UNCHANGED progress /\ (pc' \in Unmarked => pc \in Unmarked)
    BY <1>2 DEF SttAnnotate, OfferReact, Unmarked
  <2> QED BY <2>2, <2>3, OtherReactionStep
<1>3. CASE SttRedact \/ GenRedact \/ SpeakRedact
  BY <1>3, RedactProgressStep DEF SttRedact, GenRedact, SpeakRedact
<1>4. CASE \/ Start \/ ReactionStart \/ SttAgent \/ SttRun \/ SttSend \/ SttError
           \/ AutoTextGeneration \/ GenAgent \/ CreateConversation \/ GenError \/ Reserve
           \/ Refusal \/ Select \/ Notice \/ Finalize \/ SendAnswer \/ Offer \/ Speak
           \/ TtsComplain \/ SpeakRun \/ SpeakSend
           \/ ProviderAnswers \/ IntervalElapses \/ Kill \/ UNCHANGED vars
  <2>1. UNCHANGED <<reactions, progress>>
    BY <1>4 DEF Start, ReactionStart, SttAgent, SttRun, SttSend, SttError, AutoTextGeneration,
       GenAgent, CreateConversation, GenError, Reserve, Refusal, Select, Notice, Finalize,
       SendAnswer, Offer, Speak, TtsComplain, SpeakRun, SpeakSend, ProviderAnswers,
       IntervalElapses, Kill, vars
  <2> QED BY <1>4, <2>1, ProgressKept
<1> QED BY <1>1, <1>2, <1>3, <1>4
       DEF Next, HandlerStep, Transcription, TextGeneration, Speech

-----------------------------------------------------------------------------
(* Notices and outcomes.                                                   *)

Notices == Now({"thinking"})
Replies == Now(Outcomes)
Answers == Now({"answer"})

LEMMA NoticesFinite ==
  ASSUME messages \in Seq(Bodies)
  PROVE  /\ IsFiniteSet(Notices) /\ Cardinality(Notices) \in Nat /\ None \notin Notices
         /\ IsFiniteSet(Replies) /\ Cardinality(Replies) \in Nat /\ None \notin Replies
<1>1. None \notin Notices /\ None \notin Replies
  BY NoneAssumption DEF Notices, Replies, Now
<1> QED BY <1>1, NowFinite DEF Notices, Replies

\* The awaits from which no text of this message is generated any more.
After == {"gen_redact", "done"} \cup Speaking

\* Besides the notice the handler can edit, each one is of a request that
\* failed; so is each one left once the handler is past its edit.
NoticeInv ==
  /\ Cardinality(Notices \ {placeholder}) <= faults
  /\ pc \in Unasked => placeholder = None
  /\ pc \in After \cup {"send_answer"} => Cardinality(Notices) <= faults

\* The answer is only sent anew after an edit failed, which may have been
\* carried out.
OutcomeInv ==
  /\ generation = "running" => pc \in {"generate", "notice", "killed"}
  /\ pc = "send_answer" =>
       /\ generation = "text" /\ Replies \subseteq {placeholder}
       /\ placeholder # None => faults > 0
  /\ Cardinality(Replies) <= 1 + faults
  /\ pc \in After /\ generation # "none" /\ faults = 0 => Cardinality(Replies) = 1
  /\ pc \in After /\ generation = "text" /\ Answers = {} =>
       faults >= (IF placeholder = None THEN 1 ELSE 2)

CountInv == NoticeInv /\ OutcomeInv

LEMMA CountInit == Init => CountInv
<1> SUFFICES ASSUME Init
             PROVE  CountInv
  OBVIOUS
<1>1. Notices = {} /\ Replies = {}
  BY DEF Init, Notices, Replies, Now
<1>2. Notices \ {placeholder} = {}
  BY <1>1
<1>3. Cardinality(Notices \ {placeholder}) = 0 /\ Cardinality(Replies) = 0
  BY <1>1, <1>2, FS_EmptySet
<1> QED BY <1>3 DEF Init, CountInv, NoticeInv, OutcomeInv, After, Speaking

\* A step that neither posts nor edits a notice or an outcome.
OrderlyCount ==
  /\ pc' \in Unasked => pc \in Unasked
  /\ pc' \in After => pc \in Unasked \cup After
  /\ pc' \in After => pc \in After \/ generation = "none"
  /\ pc' = "send_answer" => UNCHANGED <<pc, generation>>
  /\ generation' = "running" => pc' \in {"generate", "notice", "killed"}
  /\ generation' = generation \/ pc' \notin After

LEMMA CountsKept ==
  ASSUME TypeInv, CountInv, OrderlyCount, UNCHANGED placeholder,
         faults' \in Nat, faults' >= faults,
         Notices' \subseteq Notices, Replies' = Replies,
         Answers \subseteq Answers'
  PROVE  CountInv'
<1>1. messages \in Seq(Bodies) /\ faults \in Nat
  BY DEF TypeInv, TypeOK
<1> USE DEF CountInv, OrderlyCount
<1>2. NoticeInv'
  <2>1. IsFiniteSet(Notices) /\ IsFiniteSet(Notices \ {placeholder})
        /\ Notices' \ {placeholder} \subseteq Notices \ {placeholder}
    BY <1>1, NoticesFinite, CountSubset
  <2>2. /\ Cardinality(Notices' \ {placeholder}) \in Nat /\ Cardinality(Notices \ {placeholder}) \in Nat
        /\ Cardinality(Notices' \ {placeholder}) <= Cardinality(Notices \ {placeholder})
    BY <2>1, CountSubset
  <2>3. /\ Cardinality(Notices') \in Nat /\ Cardinality(Notices) \in Nat
        /\ Cardinality(Notices') <= Cardinality(Notices)
    BY <2>1, CountSubset
  <2>4. pc \in Unasked => Notices \ {placeholder} = Notices
    BY <1>1, NoticesFinite DEF NoticeInv
  <2>5. Cardinality(Notices' \ {placeholder'}) <= faults'
    BY <1>1, <2>2 DEF NoticeInv
  <2>6. pc' \in After \cup {"send_answer"} => Cardinality(Notices') <= faults'
    <3>1. pc \in Unasked \cup After \cup {"send_answer"} => Cardinality(Notices) <= faults
      BY <2>4 DEF NoticeInv
    <3>2. pc' \in After \cup {"send_answer"} => pc \in Unasked \cup After \cup {"send_answer"}
      OBVIOUS
    <3> QED BY <1>1, <2>3, <3>1, <3>2
  <2>7. pc' \in Unasked => placeholder' = None
    BY DEF NoticeInv
  <2> QED BY <2>5, <2>6, <2>7 DEF NoticeInv
<1>3. OutcomeInv'
  <2>1. Cardinality(Replies) \in Nat
    BY <1>1, NoticesFinite
  <2>2. Answers' = {} => Answers = {}
    OBVIOUS
  <2>3. Cardinality(Replies') <= 1 + faults'
    BY <1>1, <2>1 DEF OutcomeInv
  <2>4. pc' \in After /\ generation' # "none" => pc \in After /\ generation = generation'
    OBVIOUS
  <2>5. pc' \in After /\ generation' # "none" /\ faults' = 0 => Cardinality(Replies') = 1
    BY <1>1, <2>4 DEF OutcomeInv
  <2>6. pc' \in After /\ generation' = "text" /\ Answers' = {} =>
          faults' >= (IF placeholder' = None THEN 1 ELSE 2)
    BY <1>1, <2>2, <2>4 DEF OutcomeInv
  <2>7. pc' = "send_answer" =>
          /\ generation' = "text" /\ Replies' \subseteq {placeholder'}
          /\ placeholder' # None => faults' > 0
    BY <1>1 DEF OutcomeInv
  <2>8. generation' = "running" => pc' \in {"generate", "notice", "killed"}
    OBVIOUS
  <2> QED BY <2>3, <2>5, <2>6, <2>7, <2>8 DEF OutcomeInv
<1> QED BY <1>2, <1>3

\* Steps that say nothing, and messages beside the generation.
LEMMA CountsBeside ==
  ASSUME RoomInv, TypeInv, CountInv,
         \/ Start \/ ReactionStart \/ SttAgent \/ SttReact \/ SttRun \/ SttAnnotate \/ SttRedact
         \/ AutoTextGeneration \/ GenReact \/ GenAgent \/ CreateConversation \/ Reserve
         \/ GenRedact \/ Offer \/ OfferReact \/ Speak \/ SpeakReact \/ SpeakRun \/ SpeakRedact
         \/ Select \/ ProviderAnswers \/ IntervalElapses \/ Kill \/ UNCHANGED vars
         \/ SttSend \/ SttError \/ TtsComplain \/ SpeakSend
  PROVE  CountInv'
<1>1. messages \in Seq(Bodies)
  BY DEF TypeInv, TypeOK
<1>2. UNCHANGED placeholder
  BY DEF Start, ReactionStart, SttAgent, SttReact, SttRun, SttAnnotate, SttRedact,
     AutoTextGeneration, GenReact, GenAgent, CreateConversation, Reserve, GenRedact, Offer,
     OfferReact, Speak, SpeakReact, SpeakRun, SpeakRedact, Select, ProviderAnswers,
     IntervalElapses, Kill, vars, SttSend, SttError, TtsComplain, SpeakSend, gen
<1>3. \/ UNCHANGED messages
      \/ \E d \in Deliveries, body \in {"transcript", "stt_error", "tts_error", "audio"} : Send(d, body)
  BY DEF Start, ReactionStart, SttAgent, SttReact, SttRun, SttAnnotate, SttRedact,
     AutoTextGeneration, GenReact, GenAgent, CreateConversation, Reserve, GenRedact, Offer,
     OfferReact, Speak, SpeakReact, SpeakRun, SpeakRedact, Select, ProviderAnswers,
     IntervalElapses, Kill, vars, SttSend, SttError, TtsComplain, SpeakSend
<1>4. /\ Notices' = Notices /\ Replies' = Replies
      /\ Answers' = Answers
  <2>1. CASE UNCHANGED messages
    BY <2>1 DEF Notices, Replies, Answers, Now
  <2>2. ASSUME NEW d, NEW body \in {"transcript", "stt_error", "tts_error", "audio"}, Send(d, body)
        PROVE  /\ Notices' = Notices /\ Replies' = Replies
               /\ Answers' = Answers
    <3>1. body \in Bodies /\ body \notin {"thinking"} /\ body \notin Outcomes /\ body \notin {"answer"}
      BY DEF Bodies, Outcomes
    <3>2. \A bodies : body \notin bodies => {i \in DOMAIN messages' : messages'[i] \in bodies} = Now(bodies)
      BY <1>1, <2>2, <3>1, NowAfterSend DEF Now
    <3> QED BY <3>1, <3>2 DEF Notices, Replies, Answers, Now
  <2> QED BY <1>3, <2>1, <2>2
<1>5. OrderlyCount
  <2>1. /\ pc \in Unasked => generation = "none"
        /\ generation = "running" => pc \in {"generate", "notice", "killed"}
    BY DEF RoomInv, SpeechInv, CountInv, OutcomeInv
  <2> USE <2>1 DEF OrderlyCount, Unasked, BeforeOutcome, After, Speaking, stt, gen
  <2>2. CASE Start \/ ReactionStart \/ AutoTextGeneration
    BY <2>2 DEF Start, ReactionStart, AutoTextGeneration
  <2>3. CASE SttAgent \/ GenAgent \/ Offer \/ Speak
    BY <2>3 DEF FindAgent, Agents, SttAgent, GenAgent, Offer, Speak
  <2>4. CASE SttReact \/ SttRun \/ SttAnnotate \/ SttRedact \/ SttSend \/ SttError
    BY <2>4 DEF SttReact, SttRun, SttAnnotate, SttRedact, SttSend, SttError
  <2>5. CASE GenReact \/ CreateConversation \/ Reserve \/ Select \/ GenRedact
    BY <2>5 DEF GenReact, CreateConversation, Reserve, Select, GenRedact
  <2>6. CASE OfferReact \/ SpeakReact \/ SpeakRun \/ SpeakRedact \/ TtsComplain \/ SpeakSend
    BY <2>6 DEF OfferReact, SpeakReact, SpeakRun, SpeakRedact, TtsComplain, SpeakSend
  <2>7. CASE ProviderAnswers \/ IntervalElapses \/ Kill \/ UNCHANGED vars
    <3>1. CASE ProviderAnswers
      BY <3>1 DEF ProviderAnswers
    <3>2. CASE IntervalElapses
      BY <3>2 DEF IntervalElapses
    <3>3. CASE Kill
      BY <3>3 DEF Kill
    <3>4. CASE UNCHANGED vars
      BY <3>4 DEF vars
    <3> QED BY <2>7, <3>1, <3>2, <3>3, <3>4
  <2> QED BY <2>2, <2>3, <2>4, <2>5, <2>6, <2>7
<1>6. [Next]_vars
  BY DEF Next, HandlerStep, Transcription, TextGeneration, Speech
<1> QED BY <1>2, <1>4, <1>5, <1>6, FaultsGrow, CountsKept

LEMMA AtMostOne ==
  ASSUME NEW x, NEW T, T \subseteq {x}
  PROVE  /\ IsFiniteSet(T) /\ Cardinality(T) \in Nat /\ Cardinality(T) <= 1
         /\ x \in T => Cardinality(T) = 1
<1>1. T = {} \/ T = {x}
  OBVIOUS
<1>2. IsFiniteSet({x}) /\ Cardinality({x}) = 1
  BY FS_Singleton
<1>3. IsFiniteSet({}) /\ Cardinality({}) = 0
  BY FS_EmptySet
<1> QED BY <1>1, <1>2, <1>3

\* An outcome is sent.
LEMMA SaidEffect ==
  ASSUME messages \in Seq(Bodies), NEW d, NEW body \in Outcomes, Send(d, body)
  PROVE  /\ Notices' = Notices
         /\ Replies' \subseteq Replies \cup {Len(messages) + 1}
         /\ d # "lost" => Len(messages) + 1 \in Replies'
         /\ d # "lost" /\ body = "answer" => Answers' # {}
<1>1. body \in Bodies /\ body \notin {"thinking"}
  BY DEF Bodies, Outcomes
<1>2. {i \in DOMAIN messages' : messages'[i] \in {"thinking"}} = Notices
  BY <1>1, NowAfterSend DEF Notices, Now
<1>3. {i \in DOMAIN messages' : messages'[i] \in Outcomes} \subseteq Now(Outcomes) \cup {Len(messages) + 1}
  BY <1>1, NowAfterSend DEF Now
<1>4. ASSUME d # "lost"
      PROVE  Len(messages) + 1 \in DOMAIN messages' /\ messages'[Len(messages) + 1] = body
  BY <1>1, <1>4 DEF Send
<1> QED BY <1>2, <1>3, <1>4 DEF Notices, Replies, Answers, Now, Outcomes

\* A notice becomes an outcome.
LEMMA EditedEffect ==
  ASSUME messages \in Seq(Bodies), NEW d, NEW id \in DOMAIN messages, NEW body \in Outcomes,
         Edit(d, id, body)
  PROVE  /\ Notices' \subseteq Notices
         /\ Replies' \subseteq Replies \cup {id}
         /\ d # "lost" => id \notin Notices' /\ id \in Replies'
         /\ d # "lost" /\ body = "answer" => Answers' # {}
<1>1. body # "thinking" /\ body \in Bodies
  BY DEF Bodies, Outcomes
<1>2. /\ DOMAIN messages' = DOMAIN messages
      /\ \A i \in DOMAIN messages : i # id => messages'[i] = messages[i]
      /\ messages'[id] \in {messages[id], body}
      /\ d # "lost" => messages'[id] = body
  BY DEF Edit
<1> QED BY <1>1, <1>2 DEF Notices, Replies, Answers, Now

\* An outcome without a generation.
LEMMA CountsAside ==
  ASSUME RoomInv, TypeInv, CountInv, GenError \/ Refusal
  PROVE  CountInv'
<1>1. /\ messages \in Seq(Bodies) /\ faults \in Nat /\ Replies = {}
      /\ generation = "none" /\ placeholder = None /\ Cardinality(Notices) <= faults
  <2>1. pc \in Unasked /\ pc \in BeforeOutcome
    BY DEF GenError, Refusal, Unasked, BeforeOutcome
  <2>2. messages \in Seq(Bodies) /\ faults \in Nat
    BY DEF TypeInv, TypeOK
  <2>3. placeholder = None
    BY <2>1 DEF CountInv, NoticeInv
  <2>4. Notices \ {placeholder} = Notices
    BY <2>2, <2>3, NoticesFinite
  <2>5. Cardinality(Notices) <= faults
    BY <2>4 DEF CountInv, NoticeInv
  <2>6. Replies = {} /\ generation = "none"
    BY <2>1 DEF RoomInv, MessagesInv, SpeechInv, Replies, Now, Reads
  <2> QED BY <2>2, <2>3, <2>5, <2>6
<1>2. PICK d \in Deliveries, body \in Outcomes : Send(d, body)
  BY DEF GenError, Refusal, Outcomes
<1>3. pc' = "gen_redact" /\ UNCHANGED <<generation, placeholder>>
  BY DEF GenError, Refusal, gen
<1>4. Notices' = Notices /\ Replies' \subseteq {Len(messages) + 1}
  BY <1>1, <1>2, SaidEffect
<1>5. faults' \in Nat /\ faults' >= faults
  BY FaultsGrow DEF Next, HandlerStep, TextGeneration
<1>6. Cardinality(Replies') \in Nat /\ Cardinality(Replies') <= 1 /\ Cardinality(Notices) \in Nat
  BY <1>1, <1>4, AtMostOne, NoticesFinite
<1>7. Notices' \ {placeholder'} = Notices
  BY <1>1, <1>3, <1>4, NoticesFinite
<1>8. NoticeInv'
  <2>1. Cardinality(Notices') <= faults' /\ Cardinality(Notices' \ {placeholder'}) <= faults'
    <3>1. Cardinality(Notices) <= faults'
      BY <1>1, <1>5, <1>6
    <3> QED BY <1>4, <1>7, <3>1
  <2> QED BY <1>3, <2>1 DEF NoticeInv, Unasked, BeforeOutcome
<1>9. OutcomeInv'
  BY <1>1, <1>3, <1>5, <1>6 DEF OutcomeInv
<1> QED BY <1>8, <1>9 DEF CountInv

LEMMA NoticeCounts ==
  ASSUME RoomInv, TypeInv, CountInv, Notice
  PROVE  CountInv'
<1>1. /\ messages \in Seq(Bodies) /\ faults \in 0..MaxFaults
      /\ placeholder # None => placeholder \in DOMAIN messages
      /\ Replies = {} /\ Cardinality(Notices \ {placeholder}) <= faults
      /\ IsFiniteSet(Notices) /\ IsFiniteSet(Notices \ {placeholder})
      /\ Cardinality(Notices \ {placeholder}) \in Nat
  <2>1. messages \in Seq(Bodies) /\ IsFiniteSet(Notices)
    BY NoticesFinite DEF TypeInv, TypeOK
  <2>2. ~Reads(Outcomes)
    BY DEF Notice, BeforeOutcome, RoomInv, MessagesInv
  <2> QED BY <2>1, <2>2, CountSubset DEF TypeInv, TypeOK, RoomInv, MessagesInv, CountInv,
             NoticeInv, Replies, Now, Reads
<1>2. PICK d \in Deliveries :
        IF placeholder = None
        THEN Send(d, "thinking") /\ placeholder' = Created(d, messages)
        ELSE Edit(d, placeholder, "thinking") /\ UNCHANGED placeholder
  BY DEF Notice
<1>3. pc' = "generate" /\ UNCHANGED generation
  BY DEF Notice
<1>4. /\ faults' \in Nat /\ faults' >= faults
      /\ d # "ok" => faults' = faults + 1
  <2>1. Fault(d)
    BY <1>2 DEF Send, Edit
  <2> QED BY <1>1, <2>1, FaultEffect
<1>5. Replies' = {}
  <2>1. \A i \in DOMAIN messages' : messages'[i] \notin Outcomes
    <3>1. "thinking" \in Bodies \ Outcomes
      BY DEF Bodies, Outcomes
    <3>2. \A i \in DOMAIN messages : messages[i] \notin Outcomes
      BY <1>1 DEF Replies, Now
    <3>3. CASE Send(d, "thinking")
      BY <1>1, <3>1, <3>2, <3>3, SendEffect
    <3>4. CASE Edit(d, placeholder, "thinking")
      BY <1>1, <3>1, <3>2, <3>4, EditEffect
    <3> QED BY <1>2, <3>3, <3>4
  <2> QED BY <2>1 DEF Replies, Now
<1>6. Cardinality(Notices' \ {placeholder'}) <= faults'
  <2>1. CASE placeholder = None
    <3>1. Notices' \subseteq Notices \cup {Len(messages) + 1}
      BY <1>1, <1>2, <2>1, NowAfterSend DEF Bodies, Notices, Now
    <3>2. Cardinality(Notices) \in Nat /\ Cardinality(Notices) <= faults
      <4>1. Notices \ {placeholder} = Notices
        BY <1>1, <2>1, NoticesFinite
      <4> QED BY <1>1, <4>1
    <3>3. CASE d = "ok"
      <4>1. Notices' \ {placeholder'} \subseteq Notices
        BY <1>2, <2>1, <3>1, <3>3 DEF Created
      <4>2. /\ Cardinality(Notices' \ {placeholder'}) <= Cardinality(Notices)
            /\ Cardinality(Notices' \ {placeholder'}) \in Nat
        BY <1>1, <4>1, CountSubset
      <4> QED BY <1>1, <1>4, <3>2, <4>2
    <3>4. CASE d # "ok"
      <4>1. /\ Cardinality(Notices' \ {placeholder'}) <= Cardinality(Notices) + 1
            /\ Cardinality(Notices' \ {placeholder'}) \in Nat
        <5>1. Notices' \ {placeholder'} \subseteq Notices \cup {Len(messages) + 1}
          BY <3>1
        <5> QED BY <1>1, <5>1, CountOneMore
      <4> QED BY <1>1, <1>4, <3>2, <3>4, <4>1
    <3> QED BY <3>3, <3>4
  <2>2. CASE placeholder # None
    <3>1. Notices' \subseteq Notices \cup {placeholder}
      <4>1. /\ DOMAIN messages' = DOMAIN messages
            /\ \A i \in DOMAIN messages : i # placeholder => messages'[i] = messages[i]
        BY <1>1, <1>2, <2>2 DEF Edit
      <4> QED BY <4>1 DEF Notices, Now
    <3>2. Notices' \ {placeholder'} \subseteq Notices \ {placeholder}
      BY <1>2, <2>2, <3>1
    <3>3. /\ Cardinality(Notices' \ {placeholder'}) <= Cardinality(Notices \ {placeholder})
          /\ Cardinality(Notices' \ {placeholder'}) \in Nat
      BY <1>1, <3>2, CountSubset
    <3> QED BY <1>1, <1>4, <3>3
  <2> QED BY <2>1, <2>2
<1>7. NoticeInv'
  BY <1>3, <1>6 DEF NoticeInv, Unasked, BeforeOutcome, After, Speaking
<1>8. OutcomeInv'
  BY <1>3, <1>4, <1>5, FS_EmptySet DEF OutcomeInv, After, Speaking
<1> QED BY <1>7, <1>8 DEF CountInv

LEMMA FinalizeCounts ==
  ASSUME RoomInv, TypeInv, CountInv, Finalize
  PROVE  CountInv'
<1>1. /\ messages \in Seq(Bodies) /\ faults \in 0..MaxFaults /\ faults \in Nat
      /\ placeholder # None => placeholder \in DOMAIN messages
      /\ Replies = {} /\ Cardinality(Notices \ {placeholder}) <= faults
      /\ IsFiniteSet(Notices) /\ IsFiniteSet(Notices \ {placeholder}) /\ None \notin Notices
      /\ Cardinality(Notices \ {placeholder}) \in Nat /\ Cardinality(Notices) \in Nat
  <2>1. messages \in Seq(Bodies) /\ IsFiniteSet(Notices) /\ None \notin Notices /\ Cardinality(Notices) \in Nat
    BY NoticesFinite DEF TypeInv, TypeOK
  <2>2. ~Reads(Outcomes)
    BY DEF Finalize, BeforeOutcome, RoomInv, MessagesInv
  <2> QED BY <2>1, <2>2, CountSubset DEF TypeInv, TypeOK, RoomInv, MessagesInv, CountInv,
             NoticeInv, Replies, Now, Reads
<1>2. UNCHANGED <<generation, placeholder>> /\ generation \in {"text", "empty", "error"}
  BY DEF Finalize, gen
\* With a notice there is at most one more than was counted, and the edited one.
<1>3. /\ placeholder = None => Cardinality(Notices) <= faults
      /\ Cardinality(Notices) <= faults + 1
  <2>1. placeholder = None => Notices \ {placeholder} = Notices
    BY <1>1
  <2>2. Notices \subseteq (Notices \ {placeholder}) \cup {placeholder}
    OBVIOUS
  <2>3. Cardinality(Notices) <= Cardinality(Notices \ {placeholder}) + 1
    BY <1>1, <2>2, CountOneMore
  <2>4. Cardinality(Notices) <= faults + 1
    BY <1>1, <2>3
  <2>5. placeholder = None => Cardinality(Notices) <= faults
    BY <1>1, <2>1
  <2> QED BY <2>4, <2>5
<1>4. CASE generation = "text" /\ placeholder = None
  <2>1. pc' = "send_answer" /\ UNCHANGED <<messages, faults>>
    BY <1>4 DEF Finalize
  <2>2. Notices' = Notices /\ Replies' = Replies
    BY <2>1 DEF Notices, Replies, Now
  <2>3. NoticeInv'
    BY <1>1, <1>2, <1>3, <1>4, <2>1, <2>2 DEF NoticeInv, Unasked, BeforeOutcome
  <2>4. OutcomeInv'
    BY <1>1, <1>2, <1>4, <2>1, <2>2, FS_EmptySet DEF OutcomeInv, After, Speaking
  <2> QED BY <2>3, <2>4 DEF CountInv
\* What an edit of the notice leaves.
<1>5. ASSUME placeholder # None, NEW d, NEW body \in Outcomes, Edit(d, placeholder, body)
      PROVE  /\ Replies' \subseteq {placeholder} /\ Cardinality(Replies') <= 1
             /\ Cardinality(Replies') \in Nat
             /\ d = "ok" => Cardinality(Replies') = 1 /\ faults' = faults
             /\ d # "ok" => faults' = faults + 1
             /\ Cardinality(Notices') <= faults' /\ Cardinality(Notices' \ {placeholder}) <= faults'
             /\ d = "ok" /\ body = "answer" => Answers' # {}
  <2>1. /\ Notices' \subseteq Notices /\ Replies' \subseteq {placeholder}
        /\ d = "ok" => placeholder \notin Notices' /\ placeholder \in Replies'
        /\ d = "ok" /\ body = "answer" => Answers' # {}
    BY <1>1, <1>5, EditedEffect
  <2>2. /\ d = "ok" => faults' = faults
        /\ d # "ok" => faults' = faults + 1
    BY <1>1, <1>5, FaultEffect, RequestFault
  <2>3. /\ Cardinality(Replies') <= 1 /\ Cardinality(Replies') \in Nat
        /\ d = "ok" => Cardinality(Replies') = 1
    BY <2>1, AtMostOne
  <2>4. IsFiniteSet(Notices') /\ Cardinality(Notices') \in Nat /\ Cardinality(Notices') <= faults'
    <3>1. CASE d = "ok"
      <4>1. Notices' \subseteq Notices \ {placeholder}
        BY <2>1, <3>1
      <4> QED BY <1>1, <2>2, <3>1, <4>1, CountSubset
    <3>2. CASE d # "ok"
      BY <1>1, <1>3, <2>1, <2>2, <3>2, CountSubset
    <3> QED BY <3>1, <3>2
  <2>5. Notices' \ {placeholder} \subseteq Notices'
    OBVIOUS
  <2>6. Cardinality(Notices' \ {placeholder}) <= Cardinality(Notices')
        /\ Cardinality(Notices' \ {placeholder}) \in Nat
    BY <2>4, <2>5, CountSubset
  <2>7. faults' \in Nat
    BY <1>1, <2>2
  <2> QED BY <2>1, <2>2, <2>3, <2>4, <2>6, <2>7
<1>6. CASE generation = "text" /\ placeholder # None
  <2>1. PICK d \in Deliveries : EditAnswer(d)
    BY <1>6 DEF Finalize
  <2>2. Edit(d, placeholder, "answer") /\ "answer" \in Outcomes
    BY <2>1 DEF EditAnswer, Outcomes
  <2>3. pc' = IF d = "ok" THEN "gen_redact" ELSE "send_answer"
    BY <2>1 DEF EditAnswer
  <2>4. NoticeInv'
    BY <1>1, <1>2, <1>5, <1>6, <2>2, <2>3 DEF NoticeInv, Unasked, BeforeOutcome
  <2>5. OutcomeInv'
    BY <1>1, <1>2, <1>5, <1>6, <2>2, <2>3 DEF OutcomeInv, After, Speaking
  <2> QED BY <2>4, <2>5 DEF CountInv
<1>7. CASE generation # "text"
  <2>1. PICK d \in Deliveries : FinalizeError(d)
    BY <1>7 DEF Finalize
  <2>2. pc' = "gen_redact" /\ "text_error" \in Outcomes
    BY <1>7 DEF Finalize, Outcomes
  <2>3. CASE placeholder # None
    <3>1. Edit(d, placeholder, "text_error")
      BY <2>1, <2>3 DEF FinalizeError
    <3>2. NoticeInv'
      BY <1>1, <1>2, <1>5, <2>2, <2>3, <3>1 DEF NoticeInv, Unasked, BeforeOutcome
    <3>3. OutcomeInv'
      BY <1>1, <1>2, <1>5, <1>7, <2>2, <2>3, <3>1 DEF OutcomeInv
    <3> QED BY <3>2, <3>3 DEF CountInv
  <2>4. CASE placeholder = None
    <3>1. Send(d, "text_error")
      BY <2>1, <2>4 DEF FinalizeError
    <3>2. /\ Notices' = Notices /\ Replies' \subseteq {Len(messages) + 1}
          /\ d = "ok" => Len(messages) + 1 \in Replies'
      BY <1>1, <2>2, <3>1, SaidEffect
    <3>3. /\ faults' \in Nat /\ faults' >= faults
          /\ d # "ok" => faults' = faults + 1
      <4>1. Fault(d)
        BY <3>1 DEF Send
      <4> QED BY <1>1, <4>1, FaultEffect
    <3>4. /\ Cardinality(Replies') <= 1 /\ Cardinality(Replies') \in Nat
          /\ d = "ok" => Cardinality(Replies') = 1
      BY <3>2, AtMostOne
    <3>5. Notices' \ {placeholder'} = Notices
      BY <1>1, <1>2, <2>4, <3>2
    <3>6. NoticeInv'
      BY <1>1, <1>2, <1>3, <2>2, <2>4, <3>2, <3>3, <3>5 DEF NoticeInv, Unasked, BeforeOutcome
    <3>7. OutcomeInv'
      BY <1>1, <1>2, <1>7, <2>2, <3>3, <3>4 DEF OutcomeInv
    <3> QED BY <3>6, <3>7 DEF CountInv
  <2> QED BY <2>3, <2>4
<1> QED BY <1>4, <1>6, <1>7

LEMMA SendAnswerCounts ==
  ASSUME RoomInv, TypeInv, CountInv, SendAnswer
  PROVE  CountInv'
<1>1. /\ messages \in Seq(Bodies) /\ faults \in 0..MaxFaults /\ faults \in Nat
      /\ generation = "text" /\ Replies \subseteq {placeholder} /\ None \notin Replies
      /\ placeholder # None => faults > 0
      /\ Cardinality(Notices) <= faults /\ Cardinality(Notices) \in Nat /\ IsFiniteSet(Notices)
  BY NoticesFinite DEF TypeInv, TypeOK, CountInv, NoticeInv, OutcomeInv, SendAnswer
<1>2. PICK d \in Deliveries : Send(d, "answer")
  BY DEF SendAnswer
<1>3. pc' = "gen_redact" /\ UNCHANGED <<generation, placeholder>>
  BY DEF SendAnswer, gen
<1>4. /\ Notices' = Notices /\ Replies' \subseteq Replies \cup {Len(messages) + 1}
      /\ d # "lost" => Len(messages) + 1 \in Replies' /\ Answers' # {}
  BY <1>1, <1>2, SaidEffect DEF Outcomes
<1>5. /\ faults' \in Nat /\ faults' >= faults
      /\ d # "ok" => faults' = faults + 1
  <2>1. Fault(d)
    BY <1>2 DEF Send
  <2> QED BY <1>1, <2>1, FaultEffect
<1>6. NoticeInv'
  <2>1. Notices \ {placeholder} \subseteq Notices
    OBVIOUS
  <2>2. /\ Cardinality(Notices \ {placeholder}) <= Cardinality(Notices)
        /\ Cardinality(Notices \ {placeholder}) \in Nat
    BY <1>1, <2>1, CountSubset
  <2> QED BY <1>1, <1>3, <1>4, <1>5, <2>2 DEF NoticeInv, Unasked, BeforeOutcome
<1>7. /\ Cardinality(Replies') <= 1 + faults'
      /\ faults' = 0 => Cardinality(Replies') = 1
  <2>1. CASE placeholder = None
    <3>1. Replies' \subseteq {Len(messages) + 1}
      BY <1>1, <1>4, <2>1
    <3>2. /\ Cardinality(Replies') <= 1 /\ Cardinality(Replies') \in Nat
          /\ Len(messages) + 1 \in Replies' => Cardinality(Replies') = 1
      BY <3>1, AtMostOne
    <3>3. faults' = 0 => d = "ok"
      BY <1>1, <1>5
    <3> QED BY <1>4, <1>5, <3>2, <3>3
  <2>2. CASE placeholder # None
    <3>1. IsFiniteSet(Replies) /\ Cardinality(Replies) <= 1 /\ Cardinality(Replies) \in Nat
      BY <1>1, AtMostOne
    <3>2. Cardinality(Replies') <= Cardinality(Replies) + 1 /\ Cardinality(Replies') \in Nat
      BY <1>4, <3>1, CountOneMore
    <3> QED BY <1>1, <1>5, <2>2, <3>1, <3>2
  <2> QED BY <2>1, <2>2
<1>8. Answers' = {} => faults' >= (IF placeholder' = None THEN 1 ELSE 2)
  BY <1>1, <1>3, <1>4, <1>5
<1>9. OutcomeInv'
  BY <1>1, <1>3, <1>7, <1>8 DEF OutcomeInv
<1> QED BY <1>6, <1>9 DEF CountInv

LEMMA CountStep ==
  RoomInv /\ TypeInv /\ CountInv /\ [Next]_vars => CountInv'
BY CountsBeside, CountsAside, NoticeCounts, FinalizeCounts, SendAnswerCounts
   DEF Next, HandlerStep, Transcription, TextGeneration, Speech

-----------------------------------------------------------------------------
(* Theorems.                                                               *)

\* What is spoken, or offered to be, is the answer, in whichever message it
\* ended up, the user's text, or the text reacted to (handle, in
\* chat_completion/mod.rs and in reaction/text_to_speech.rs).
THEOREM SpeechOfTheAnswer == Spec => []SpeechIsOfTheAnswer
<1>1. RoomInv => SpeechIsOfTheAnswer
  BY DEF RoomInv, TargetInv, SpeechInv, SpeechIsOfTheAnswer, Now, Reads
<1> QED BY RoomInit, RoomStep, <1>1, PTL DEF Spec

\* Once a message reads as the outcome of the generation, it stays so, and no
\* notice follows (the biased select of handle_stage_text_generation).
THEOREM OutcomeIsLast == Spec => NoticeNeverFollowsOutcome
<1>1. ASSUME RoomInv, [Next]_vars
      PROVE  [Now(Outcomes) # {} =>
                \A i \in DOMAIN messages' :
                  /\ messages'[i] = "thinking" => i \in Now({"thinking"})
                  /\ i \in Now(Outcomes) => messages'[i] = messages[i]]_vars
  <2> SUFFICES ASSUME Reads(Outcomes), NEW i \in DOMAIN messages'
               PROVE  /\ messages'[i] = "thinking" => i \in Now({"thinking"})
                      /\ i \in Now(Outcomes) => messages'[i] = messages[i]
    BY DEF Now, Reads
  <2>1. messages \in Seq(Bodies) /\ pc \notin BeforeOutcome
    BY <1>1 DEF RoomInv, MessagesInv
  <2>2. \/ UNCHANGED messages
        \/ \E d \in Deliveries, body \in Bodies \ {"thinking"} : Send(d, body)
    BY <1>1, <2>1, AfterOutcome
  <2> QED BY <2>1, <2>2, SendEffect DEF Now
<1> QED BY RoomInit, RoomStep, <1>1, PTL DEF Spec, NoticeNeverFollowsOutcome

\* Everything about the room, together.
HandlerInv == RoomInv /\ TypeInv /\ ProgressInv /\ CountInv

LEMMA HandlerInvariant == Spec => []HandlerInv
<1>1. Init => HandlerInv
  BY RoomInit, TypeInit, ProgressInit, CountInit DEF HandlerInv
<1>2. HandlerInv /\ [Next]_vars => HandlerInv'
  BY RoomStep, TypeStep, ProgressStep, CountStep DEF HandlerInv
<1> QED BY <1>1, <1>2, PTL DEF Spec

\* Every variable has its type; the events the handler keeps are in the room.
THEOREM ReplyTypes == Spec => []TypeOK
<1>1. HandlerInv => TypeOK
  BY DEF HandlerInv, TypeInv
<1> QED BY HandlerInvariant, <1>1, PTL

\* When the handler has ended, a generation left exactly one outcome, and no
\* notice, except for what requests that failed left besides
\* (handle_stage_text_generation, finalize_thinking_notice_with_error).
THEOREM OutcomesAreCounted == Spec => []OneOutcome
<1>1. HandlerInv => OneOutcome
  <2> SUFFICES ASSUME HandlerInv, pc = "done"
               PROVE  /\ faults = 0 /\ generation # "none" => Cardinality(Replies) = 1
                      /\ Cardinality(Replies) <= 1 + faults
                      /\ Cardinality(Notices) <= faults
    BY DEF OneOutcome, Replies, Notices
  <2> QED BY DEF HandlerInv, CountInv, NoticeInv, OutcomeInv, After
<1> QED BY HandlerInvariant, <1>1, PTL

\* No progress reaction outlives the handler, other than by a request that
\* failed (every path of handle and its stages).
THEOREM ProgressIsCounted == Spec => []ProgressIsWithdrawn
<1>1. HandlerInv => ProgressIsWithdrawn
  <2> SUFFICES ASSUME HandlerInv, pc = "done"
               PROVE  Cardinality(ProgressLeft) <= faults
    BY DEF ProgressIsWithdrawn, ProgressLeft
  <2>1. reactions \in Seq(Reacted) /\ progress = None
    BY DEF HandlerInv, TypeInv, TypeOK, Reacted, ProgressInv, Unmarked
  <2>2. DOMAIN reactions \subseteq Nat
    BY <2>1
  <2>3. ProgressLeft \ {progress} = ProgressLeft
    BY <2>1, <2>2, NoneAssumption DEF ProgressLeft
  <2> QED BY <2>3 DEF HandlerInv, ProgressInv
<1> QED BY HandlerInvariant, <1>1, PTL

\* A generated text is in the room, unless sending it failed and, with a
\* notice to edit, the edit failed before that.
THEOREM AnswersAreNotLost == Spec => []AnswerReachesRoom
<1>1. HandlerInv => AnswerReachesRoom
  BY DEF HandlerInv, CountInv, OutcomeInv, After, Answers, AnswerReachesRoom
<1> QED BY HandlerInvariant, <1>1, PTL
=============================================================================
