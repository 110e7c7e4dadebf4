----------------------------- MODULE ChatReply -----------------------------
(***************************************************************************)
(* The bot's reply to one message that asks for it: transcription of a     *)
(* voice message, text generation with its "thinking..." notice, speech    *)
(* (src/controller/chat_completion/mod.rs); and speech on demand, asked    *)
(* for with a reaction (src/controller/reaction/).                         *)
(*                                                                         *)
(* One step per await: a request to the homeserver, to a provider or to    *)
(* the ledger.  The room's settings are read from the copy the message     *)
(* arrived with, each one once, so a setting is chosen where it is read.   *)
(* Left out: what the texts say, where in the room they appear, the typing *)
(* notice, and the settlement, which never changes the reply (BilledCalls).*)
(***************************************************************************)
EXTENDS Naturals, Sequences, FiniteSets

CONSTANTS
  MaxFaults,   \* bound on the requests to the homeserver that fail
  None

ASSUME BoundAssumption == MaxFaults \in Nat

\* What becomes of a voice message (SpeechToTextFlowType).
Flows == {"ignore", "transcribe_and_generate_text", "only_transcribe"}

ASSUME NoneAssumption == None \notin Nat /\ None \notin Flows

VARIABLES
  pc,          \* the await the handler is at
  payload,     \* of the message, or of the one reacted to
  flow,        \* the speech-to-text flow of a voice message
  messages,    \* the bot's messages in the room, each as it now reads
  reactions,   \* the bot's reactions
  progress,    \* the progress reaction to withdraw
  transcript,  \* the message with the transcribed text
  notice,      \* whether the thinking notice is enabled
  generation,  \* the provider's generate_text
  due,         \* whether the notice's interval has elapsed
  placeholder, \* the message with the notice
  target,      \* the message to speak: 0 is the user's, or the one reacted to
  faults       \* requests to the homeserver that failed so far

stt  == <<payload, flow, transcript>>
gen  == <<notice, generation, due, placeholder>>
vars == <<pc, payload, flow, messages, reactions, progress, transcript,
          notice, generation, due, placeholder, target, faults>>

Bodies == {"transcript", "stt_error", "thinking", "answer", "refusal", "text_error",
           "audio", "tts_error"}
\* What a text generation comes to.
Outcomes == {"answer", "refusal", "text_error"}

Id == Nat \cup {None}

\* A reaction is handed over with what it is a reaction to.
Reactions == {"reaction_to_text", "reaction_to_other"}
Payloads == {"text", "audio", "other"} \cup Reactions

TypeOK ==
  /\ pc \in {"start", "stt_agent", "stt_react", "stt_run", "stt_send", "stt_annotate",
             "stt_redact", "stt_redact_failed", "stt_error", "auto", "gen_react", "gen_agent",
             "gen_error", "conversation", "reserve", "refusal", "generate", "notice",
             "finalize", "send_answer", "gen_redact", "offer", "offer_react", "speak",
             "speak_react", "speak_run", "speak_send", "speak_error", "speak_redact",
             "tts_complain", "done", "killed"}
  /\ payload \in Payloads
  /\ flow \in Flows \cup {None}
  /\ messages \in Seq(Bodies)
  /\ reactions \in Seq([on : Nat, key : {"progress", "transcribed", "speak"}, redacted : BOOLEAN])
  /\ {progress, transcript, placeholder, target} \subseteq Id
  /\ progress # None => progress \in DOMAIN reactions
  /\ \A id \in {transcript, placeholder, target} \ {None, 0} : id \in DOMAIN messages
  /\ generation \in {"none", "running", "text", "empty", "error"}
  /\ notice \in BOOLEAN /\ due \in BOOLEAN
  /\ faults \in 0..MaxFaults

Init ==
  /\ pc = "start"
  /\ payload \in Payloads
  /\ flow = None
  /\ messages = <<>> /\ reactions = <<>>
  /\ progress = None /\ transcript = None /\ placeholder = None /\ target = None
  /\ notice \in BOOLEAN
  /\ generation = "none" /\ due = FALSE
  /\ faults = 0

-----------------------------------------------------------------------------
(* Requests to the homeserver.  One that fails was either not carried out, *)
(* or carried out and its answer lost; the bot only logs it (..._no_fail). *)

Deliveries == {"ok", "lost", "unacknowledged"}

Fault(d) == /\ d # "ok" => faults < MaxFaults
            /\ faults' = IF d = "ok" THEN faults ELSE faults + 1

Send(d, body) ==
  Fault(d) /\ messages' = IF d = "lost" THEN messages ELSE Append(messages, body)

Edit(d, id, body) ==
  Fault(d) /\ messages' = IF d = "lost" THEN messages ELSE [messages EXCEPT ![id] = body]

React(d, id, key) ==
  /\ Fault(d)
  /\ reactions' = IF d = "lost" THEN reactions
                  ELSE Append(reactions, [on |-> id, key |-> key, redacted |-> FALSE])

\* The event a request made, if its answer arrived.
Created(d, seq) == IF d = "ok" THEN Len(seq) + 1 ELSE None

ReactProgress(id) ==
  \E d \in Deliveries : React(d, id, "progress") /\ progress' = Created(d, reactions)

RedactProgress ==
  /\ progress' = None
  /\ IF progress = None THEN UNCHANGED <<reactions, faults>>
     ELSE \E d \in Deliveries :
            /\ Fault(d)
            /\ reactions' = IF d = "lost" THEN reactions
                            ELSE [reactions EXCEPT ![progress].redacted = TRUE]

\* get_effective_agent_for_purpose_or_complain: nobody is told that no agent
\* is configured, and an agent that lacks the purpose is only complained about
\* when it was asked for.
Agents == {"ready", "none", "missing", "unsupported"}

FindAgent(ready, none, complain, complainWhenUnsupported) ==
  \E agent \in Agents :
    pc' = CASE agent = "ready" -> ready
            [] agent = "none" -> none
            [] agent = "missing" -> complain
            [] agent = "unsupported" -> IF complainWhenUnsupported THEN complain ELSE none

-----------------------------------------------------------------------------
(* handle (of either controller), and handle_stage_speech_to_text.         *)

Start ==
  /\ pc = "start" /\ payload \notin Reactions
  /\ IF payload = "audio"
     THEN \E f \in Flows :
            flow' = f /\ pc' = IF f = "ignore" THEN "done" ELSE "stt_agent"
     ELSE flow' = flow /\ pc' = "auto"
  /\ UNCHANGED <<payload, messages, reactions, progress, transcript, gen, target, faults>>

\* Speech on demand: the speaker reaction to a text, by whomever, unless
\* the messages of its sender (the bot's, or a user's) are never spoken.
ReactionStart ==
  /\ pc = "start" /\ payload \in Reactions
  /\ \E key \in {"speak", "other"}, usage \in {"never", "on_demand", "always"} :
       IF key = "speak" /\ payload = "reaction_to_text" /\ usage # "never"
       THEN target' = 0 /\ pc' = "speak"
       ELSE pc' = "done" /\ UNCHANGED target
  /\ UNCHANGED <<stt, messages, reactions, progress, gen, faults>>

SttAgent ==
  /\ pc = "stt_agent"
  /\ FindAgent("stt_react", "done", "stt_error", TRUE)
  /\ UNCHANGED <<stt, messages, reactions, progress, gen, target, faults>>

SttReact ==
  /\ pc = "stt_react"
  /\ ReactProgress(0)
  /\ pc' = "stt_run"
  /\ UNCHANGED <<stt, messages, gen, target>>

\* The media download and the provider.
SttRun ==
  /\ pc = "stt_run"
  /\ pc' \in {"stt_send", "stt_redact_failed"}
  /\ UNCHANGED <<stt, messages, reactions, progress, gen, target, faults>>

\* A plain reply, which is annotated, when a message outside of a thread is
\* only transcribed.
SttSend ==
  /\ pc = "stt_send"
  /\ \E d \in Deliveries :
       /\ Send(d, "transcript")
       /\ transcript' = Created(d, messages)
       /\ IF d # "ok" THEN pc' = "stt_redact_failed"
          ELSE \/ pc' = "stt_redact"
               \/ flow = "only_transcribe" /\ pc' = "stt_annotate"
  /\ UNCHANGED <<payload, flow, reactions, progress, gen, target>>

SttAnnotate ==
  /\ pc = "stt_annotate"
  /\ \E d \in Deliveries : React(d, transcript, "transcribed")
  /\ pc' = "stt_redact"
  /\ UNCHANGED <<stt, messages, progress, gen, target>>

SttRedact ==
  /\ pc \in {"stt_redact", "stt_redact_failed"}
  /\ RedactProgress
  /\ pc' = IF pc = "stt_redact_failed" THEN "stt_error"
           ELSE IF flow = "only_transcribe" THEN "done" ELSE "auto"
  /\ UNCHANGED <<stt, messages, gen, target>>

SttError ==
  /\ pc = "stt_error"
  /\ \E d \in Deliveries : Send(d, "stt_error")
  /\ pc' = "done"
  /\ UNCHANGED <<stt, reactions, progress, gen, target>>

\* should_auto_text_generate and, if not, the text-to-speech of user messages.
AutoUsages == {"never", "always", "only_for_voice", "only_for_text"}

ShouldAutoTextGenerate(usage) ==
  CASE usage = "never" -> FALSE
    [] usage = "always" -> TRUE
    [] usage = "only_for_voice" -> payload = "audio"
    [] usage = "only_for_text" -> payload # "audio"

AutoTextGeneration ==
  /\ pc = "auto"
  /\ \E usage \in AutoUsages :
       IF ShouldAutoTextGenerate(usage)
       THEN /\ pc' = IF transcript # None THEN "gen_react" ELSE "gen_agent"
            /\ UNCHANGED target
       ELSE IF payload # "text" THEN pc' = "done" /\ UNCHANGED target
       ELSE target' = 0 /\ pc' \in {"done", "offer", "speak"}
  /\ UNCHANGED <<stt, messages, reactions, progress, gen, faults>>

-----------------------------------------------------------------------------
(* handle_stage_text_generation.                                           *)

GenReact ==
  /\ pc = "gen_react"
  /\ ReactProgress(transcript)
  /\ pc' = "gen_agent"
  /\ UNCHANGED <<stt, messages, gen, target>>

\* Faulty variant: without an agent the handler returns at once.
GenAgent_ReturnsAtOnce ==
  /\ pc = "gen_agent"
  /\ FindAgent("conversation", "done", "gen_error", TRUE)
  /\ UNCHANGED <<stt, messages, reactions, progress, gen, target, faults>>

GenAgent ==
  /\ pc = "gen_agent"
  /\ FindAgent("conversation", "gen_redact", "gen_error", TRUE)
  /\ UNCHANGED <<stt, messages, reactions, progress, gen, target, faults>>

\* The thread's messages are fetched.
CreateConversation ==
  /\ pc = "conversation"
  /\ pc' \in {"reserve", "gen_error"}
  /\ UNCHANGED <<stt, messages, reactions, progress, gen, target, faults>>

GenError ==
  /\ pc = "gen_error"
  /\ \E d \in Deliveries : Send(d, "text_error")
  /\ pc' = "gen_redact"
  /\ UNCHANGED <<stt, reactions, progress, gen, target>>

\* run_billed_call: the pre-check refuses, or the provider is called.
Reserve ==
  /\ pc = "reserve"
  /\ \/ pc' = "refusal" /\ UNCHANGED generation
     \/ pc' = "generate" /\ generation' = "running"
  /\ UNCHANGED <<stt, messages, reactions, progress, notice, due, placeholder, target, faults>>

Refusal ==
  /\ pc = "refusal"
  /\ \E d \in Deliveries : Send(d, "refusal")
  /\ pc' = "gen_redact"
  /\ UNCHANGED <<stt, reactions, progress, gen, target>>

ProviderAnswers ==
  /\ generation = "running" /\ pc # "killed"
  /\ generation' \in {"text", "empty", "error"}
  /\ UNCHANGED <<pc, stt, messages, reactions, progress, notice, due, placeholder, target, faults>>

IntervalElapses ==
  /\ pc \in {"generate", "notice"} /\ notice
  /\ due' = TRUE
  /\ UNCHANGED <<pc, stt, messages, reactions, progress, notice, generation, placeholder,
                 target, faults>>

\* tokio::select!, biased: a generation that is done ends the loop.
Select ==
  /\ pc = "generate"
  /\ \/ generation # "running" /\ pc' = "finalize" /\ UNCHANGED due
     \/ generation = "running" /\ due /\ pc' = "notice" /\ due' = FALSE
  /\ UNCHANGED <<stt, messages, reactions, progress, notice, generation, placeholder,
                 target, faults>>

\* Faulty variant: a task of its own posts the notice.
Notice_Detached ==
  /\ pc \in {"notice", "finalize", "gen_redact", "done"} /\ due
  /\ due' = FALSE
  /\ \E d \in Deliveries :
       IF placeholder = None
       THEN Send(d, "thinking") /\ placeholder' = Created(d, messages)
       ELSE Edit(d, placeholder, "thinking") /\ UNCHANGED placeholder
  /\ pc' = IF pc = "notice" THEN "generate" ELSE pc
  /\ UNCHANGED <<stt, reactions, progress, notice, generation, target>>

\* Meanwhile the generation is not polled.
Notice ==
  /\ pc = "notice"
  /\ \E d \in Deliveries :
       IF placeholder = None
       THEN Send(d, "thinking") /\ placeholder' = Created(d, messages)
       ELSE Edit(d, placeholder, "thinking") /\ UNCHANGED placeholder
  /\ pc' = "generate"
  /\ UNCHANGED <<stt, reactions, progress, notice, generation, due, target>>

\* Faulty variant: an error is sent although a notice is there.
FinalizeError_SentAnew(d) == Send(d, "text_error")

\* finalize_thinking_notice_with_error.
FinalizeError(d) ==
  IF placeholder = None THEN Send(d, "text_error") ELSE Edit(d, placeholder, "text_error")

\* Faulty variant: a failed edit counts as the answer.
EditAnswer_IsEnough(d) ==
  /\ Edit(d, placeholder, "answer")
  /\ pc' = "gen_redact" /\ target' = placeholder

\* The notice becomes the answer; if the edit fails, the answer is sent anew.
EditAnswer(d) ==
  /\ Edit(d, placeholder, "answer")
  /\ IF d = "ok" THEN pc' = "gen_redact" /\ target' = placeholder
                 ELSE pc' = "send_answer" /\ UNCHANGED target

Finalize ==
  /\ pc = "finalize"
  /\ \/ /\ generation = "text" /\ placeholder = None
        /\ pc' = "send_answer"
        /\ UNCHANGED <<messages, target, faults>>
     \/ /\ generation = "text" /\ placeholder # None
        /\ \E d \in Deliveries : EditAnswer(d)
     \/ /\ generation \in {"empty", "error"}
        /\ \E d \in Deliveries : FinalizeError(d)
        /\ pc' = "gen_redact"
        /\ UNCHANGED target
  /\ UNCHANGED <<stt, reactions, progress, gen>>

\* Faulty variant: the notice's event stays the one to speak.
SendAnswer_KeepsNotice ==
  /\ pc = "send_answer"
  /\ \E d \in Deliveries :
       /\ Send(d, "answer")
       /\ target' = IF d = "ok" /\ placeholder # None THEN placeholder ELSE Created(d, messages)
  /\ pc' = "gen_redact"
  /\ UNCHANGED <<stt, reactions, progress, gen>>

SendAnswer ==
  /\ pc = "send_answer"
  /\ \E d \in Deliveries : Send(d, "answer") /\ target' = Created(d, messages)
  /\ pc' = "gen_redact"
  /\ UNCHANGED <<stt, reactions, progress, gen>>

\* The answer may be spoken (text_to_speech_bot_messages_flow_type).
GenRedact ==
  /\ pc = "gen_redact"
  /\ RedactProgress
  /\ IF target = None THEN pc' = "done" ELSE pc' \in {"done", "offer", "speak"}
  /\ UNCHANGED <<stt, messages, gen, target>>

-----------------------------------------------------------------------------
(* Speech: an offer is a reaction that the user may repeat.                *)

Offer ==
  /\ pc = "offer"
  /\ FindAgent("offer_react", "done", "tts_complain", FALSE)
  /\ UNCHANGED <<stt, messages, reactions, progress, gen, target, faults>>

OfferReact ==
  /\ pc = "offer_react"
  /\ \E d \in Deliveries : React(d, target, "speak")
  /\ pc' = "done"
  /\ UNCHANGED <<stt, messages, progress, gen, target>>

Speak ==
  /\ pc = "speak"
  /\ FindAgent("speak_react", "done", "tts_complain", TRUE)
  /\ UNCHANGED <<stt, messages, reactions, progress, gen, target, faults>>

TtsComplain ==
  /\ pc = "tts_complain"
  /\ \E d \in Deliveries : Send(d, "tts_error")
  /\ pc' = "done"
  /\ UNCHANGED <<stt, reactions, progress, gen, target>>

SpeakReact ==
  /\ pc = "speak_react"
  /\ ReactProgress(target)
  /\ pc' = "speak_run"
  /\ UNCHANGED <<stt, messages, gen, target>>

\* The provider, and the upload, whose failure is only logged.
SpeakRun ==
  /\ pc = "speak_run"
  /\ pc' \in {"speak_send", "speak_error", "speak_redact"}
  /\ UNCHANGED <<stt, messages, reactions, progress, gen, target, faults>>

SpeakSend ==
  /\ pc \in {"speak_send", "speak_error"}
  /\ \E d \in Deliveries : Send(d, IF pc = "speak_send" THEN "audio" ELSE "tts_error")
  /\ pc' = "speak_redact"
  /\ UNCHANGED <<stt, reactions, progress, gen, target>>

SpeakRedact ==
  /\ pc = "speak_redact"
  /\ RedactProgress
  /\ pc' = "done"
  /\ UNCHANGED <<stt, messages, gen, target>>

-----------------------------------------------------------------------------
\* The process ends; nothing resumes the handler.
Kill ==
  /\ pc \notin {"start", "done", "killed"}
  /\ pc' = "killed"
  /\ UNCHANGED <<stt, messages, reactions, progress, gen, target, faults>>

Transcription == SttAgent \/ SttReact \/ SttRun \/ SttSend \/ SttAnnotate \/ SttRedact \/ SttError

TextGeneration ==
  \/ GenReact \/ GenAgent \/ CreateConversation \/ GenError \/ Reserve \/ Refusal
  \/ Select \/ Notice \/ Finalize \/ SendAnswer \/ GenRedact

Speech == Offer \/ OfferReact \/ Speak \/ TtsComplain \/ SpeakReact \/ SpeakRun \/ SpeakSend
            \/ SpeakRedact

HandlerStep == Start \/ ReactionStart \/ Transcription \/ AutoTextGeneration \/ TextGeneration \/ Speech

Next == HandlerStep \/ ProviderAnswers \/ IntervalElapses \/ Kill

Spec == Init /\ [][Next]_vars

\* The runtime polls a handler that can go on, and a provider answers.
FairSpec == Spec /\ WF_vars(HandlerStep) /\ WF_vars(ProviderAnswers)

-----------------------------------------------------------------------------
(* Safety.                                                                 *)

Now(bodies) == {i \in DOMAIN messages : messages[i] \in bodies}

\* When the handler has ended, a generation left exactly one outcome in the
\* room, and its notice is gone ("never leaves an orphaned thinking... message
\* behind"), if no request failed; each request that failed may have left one
\* more message, the one whose answer was lost.
OneOutcome ==
  pc = "done" =>
    /\ faults = 0 /\ generation # "none" => Cardinality(Now(Outcomes)) = 1
    /\ Cardinality(Now(Outcomes)) <= 1 + faults
    /\ Cardinality(Now({"thinking"})) <= faults

\* "no late edit can ever clobber the real answer": what reads as the outcome
\* of a generation stays so, and no notice is posted or refreshed after it.
NoticeNeverFollowsOutcome ==
  [][Now(Outcomes) # {} =>
       \A i \in DOMAIN messages' :
         /\ messages'[i] = "thinking" => i \in Now({"thinking"})
         /\ i \in Now(Outcomes) => messages'[i] = messages[i]]_vars

\* Whichever way the stages end, no progress reaction is left behind, unless
\* the reaction's answer was lost or its redaction failed.
ProgressIsWithdrawn ==
  pc = "done" =>
    Cardinality({i \in DOMAIN reactions : reactions[i].key = "progress" /\ ~reactions[i].redacted})
      <= faults

\* "so the real answer is never lost": with a notice to edit, it takes two
\* failed requests to lose a generated text.
AnswerReachesRoom ==
  pc = "done" /\ generation = "text" /\ Now({"answer"}) = {} =>
    faults >= (IF placeholder = None THEN 1 ELSE 2)

\* What is spoken, or offered to be, is the answer, in whichever message it
\* ended up, or the user's text if nothing was generated for it, or the text
\* reacted to; never a notice, a transcript or an error.
SpeechIsOfTheAnswer ==
  /\ target # None =>
       IF target = 0 THEN payload \in {"text", "reaction_to_text"} /\ generation = "none"
       ELSE messages[target] = "answer"
  /\ Now({"audio"}) # {} => target # None /\ flow # "only_transcribe"

-----------------------------------------------------------------------------
(* Liveness.                                                               *)

\* The handler ends however often the notice's interval elapses, and however
\* slow the requests for it are.
HandlerEnds == pc = "start" ~> pc \in {"done", "killed"}
=============================================================================
