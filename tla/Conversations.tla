--------------------------- MODULE Conversations ---------------------------
(***************************************************************************)
(* Which messages of a room the bot answers, and which messages it puts    *)
(* before the provider when it does (src/conversation, and the routing in  *)
(* src/controller/determination).                                          *)
(*                                                                         *)
(* The messages of a room are handled in their order.  Between the awaits  *)
(* of a handler people post, redact and change settings, and keys arrive   *)
(* for messages that could not be decrypted; single events are fetched     *)
(* through a cache that is never told of any of this.  Left out: what the  *)
(* texts say (with the prefixes stripped from them and the sender context  *)
(* added to them), the bot's notices, which no conversation contains, and  *)
(* what commands do and say (ConfigStore).                                 *)
(***************************************************************************)
EXTENDS Naturals, Sequences, FiniteSets, SequencesExt

CONSTANTS
  Users,         \* people who may always use the bot
  Strangers,     \* people who may use it only while access.user_patterns matches them
  Bot, None,
  TopKinds,      \* what people post at the top level of the room
  RelatedKinds,  \* what they post in threads and as replies
  MaxEvents,     \* bound on the messages in the room
  MaxTopLevel,   \* bound on those at its top level
  MaxBacklog,    \* bound on those posted before the bot gets to them
  MaxUnreadable, \* bound on those redacted, or decrypted late if ever
  Reserved,      \* tokens of the prompt, with those reserved for the response
  MaxContext     \* bound on max_context_tokens

People == Users \cup Strangers
Texts  == {"chat", "prefixed", "command"}
UserKinds == Texts \cup {"notice", "image", "audio"}
BotKinds  == {"answer", "transcript"}
Views     == {"clear", "encrypted", "redacted"}

Involvements == {"ThreadMention", "ReplyMention"}
ChatCompletions == {"TextCommand", "TextMention", "TextDirect", "Audio", "Image"} \cup Involvements
Controllers == ChatCompletions \cup {"Command", "Error", "Ignore"}

ASSUME SenderAssumption == Bot \notin People /\ None \notin People \cup {Bot}
ASSUME KindAssumption == TopKinds \cup RelatedKinds \subseteq UserKinds
ASSUME NoneAssumption == None \notin Nat \cup Views \cup Controllers /\ None \notin {Users, People}
ASSUME BoundAssumption == {MaxEvents, MaxTopLevel, MaxBacklog, MaxUnreadable, Reserved, MaxContext} \subseteq Nat

VARIABLES
  encrypted,  \* whether the room is encrypted
  timeline,   \* the room's messages, as posted
  view,       \* how each of them can be read now
  cache,      \* how each of them could be read when RoomEventFetcher cached it
  handler     \* the handler of the message that is being handled

vars == <<encrypted, timeline, view, cache, handler>>
room == <<encrypted, timeline, view>>

Events == DOMAIN timeline

LlmMessages ==
  [author : {"user"}, sender : People \cup {None}, of : Seq(Events), text : BOOLEAN]
    \cup [author : {"assistant"}, sender : {Bot}, of : Seq(Events), text : BOOLEAN]

TypeOK ==
  /\ \A e \in Events :
       /\ timeline[e].sender \in IF timeline[e].kind \in BotKinds THEN {Bot} ELSE People
       /\ timeline[e].relation \in {"none", "thread", "reply"}
       /\ timeline[e].to \in IF timeline[e].relation = "none" THEN {None} ELSE 1..(e - 1)
  /\ DOMAIN view = Events /\ \A e \in Events : view[e] \in Views
  /\ DOMAIN cache = Events /\ \A e \in Events : cache[e] \in Views \cup {None}
  /\ handler.event \in 0..Len(timeline)
  /\ handler.pc \in {"context", "dispatch", "transcribe", "chain", "thread", "generate", "done"}
  /\ handler.controller \in Controllers \cup {None}
  /\ handler.pc \in {"context", "done"} <=> handler.controller = None
  /\ handler.pc \in {"transcribe", "chain", "thread", "generate"} => handler.controller \in ChatCompletions
  /\ handler.pc = "chain" \/ handler.fetched # <<>> => handler.controller = "ReplyMention"
  /\ handler.conversation \in Seq(LlmMessages)
  /\ encrypted \in BOOLEAN

\* No message, or one that is dealt with.
Done(e) == [event |-> e, pc |-> "done", allowed |-> {}, prefixRequired |-> FALSE,
            controller |-> None, fetched |-> <<>>, conversation |-> <<>>]

Init ==
  /\ encrypted \in BOOLEAN
  /\ timeline = <<>> /\ view = <<>> /\ cache = <<>>
  /\ handler = Done(0)

-----------------------------------------------------------------------------
(* The room.                                                               *)

Post(message, v) ==
  /\ Len(timeline) < MaxEvents
  /\ timeline' = Append(timeline, message)
  /\ view' = Append(view, v)
  /\ cache' = Append(cache, None)
  /\ UNCHANGED encrypted

Unreadable == {e \in Events : view[e] = "redacted" \/ timeline[e].keyLate}

\* Where a message can be posted.
Places ==
  {[relation |-> "none", to |-> None]}
    \cup [relation : {"thread"}, to : {e \in Events : timeline[e].relation # "thread"}]
    \cup [relation : {"reply"}, to : Events]

\* A message whose key is late is never handled: only its text is of interest.
\* (Nor does it matter that a command, an image or a voice message at the top
\* level mentions the bot.)
PostByPerson(place, sender, kind, mention, keyLate) ==
  /\ Len(timeline) - handler.event < MaxBacklog
  /\ place.relation = "none" =>
       Cardinality({e \in Events : timeline[e].relation = "none"}) < MaxTopLevel
  /\ keyLate => encrypted /\ kind = "chat" /\ Cardinality(Unreadable) < MaxUnreadable
  /\ Post([sender |-> sender, kind |-> kind, mention |-> mention, keyLate |-> keyLate,
           relation |-> place.relation, to |-> place.to],
          IF keyLate THEN "encrypted" ELSE "clear")
  /\ UNCHANGED handler

PostByBot(kind, relation, to) ==
  Post([sender |-> Bot, kind |-> kind, mention |-> FALSE, keyLate |-> FALSE,
        relation |-> relation, to |-> to], "clear")

Redact(e) ==
  /\ view[e] # "redacted"
  /\ Cardinality(Unreadable \cup {e}) <= MaxUnreadable
  /\ view' = [view EXCEPT ![e] = "redacted"]
  /\ UNCHANGED <<encrypted, timeline, cache, handler>>

KeyArrives(e) ==
  /\ view[e] = "encrypted"
  /\ view' = [view EXCEPT ![e] = "clear"]
  /\ UNCHANGED <<encrypted, timeline, cache, handler>>

-----------------------------------------------------------------------------
(* RoomEventFetcher.                                                       *)

\* fetch_event_in_room returns event e as v: as it was when it was cached,
\* or, if it was evicted meanwhile, as it is.
FetchEvent(e, v) ==
  /\ v = cache[e] \/ v = view[e]
  /\ cache' = [cache EXCEPT ![e] = v]

-----------------------------------------------------------------------------
(* on_actionable_message: who is asking, and what for.                     *)

\* The next message of a person that the bot can decrypt; the settings are
\* read from what ConfigStore has by then.
Receive(e, allowed, required) ==
  /\ handler.pc = "done"
  /\ e \in Events /\ timeline[e].sender # Bot /\ ~timeline[e].keyLate
  /\ \A i \in (handler.event + 1)..(e - 1) : timeline[i].sender = Bot \/ timeline[i].keyLate
  /\ handler' = IF timeline[e].sender \in allowed /\ timeline[e].kind # "notice"
                THEN [Done(e) EXCEPT !.pc = "context", !.allowed = allowed, !.prefixRequired = required]
                ELSE Done(e)
  /\ UNCHANGED <<room, cache>>

\* Faulty variant: a required prefix does not count.
DetermineController_PrefixIgnored(kind, mention, required) ==
  CASE kind = "command" -> "Command"
    [] kind = "audio" -> "Audio"
    [] kind \in {"chat", "prefixed", "answer"} /\ mention -> "TextMention"
    [] kind \in {"chat", "prefixed", "answer"} /\ ~mention -> IF required THEN "Ignore" ELSE "TextDirect"
    [] kind = "image" -> IF required THEN "Ignore" ELSE "Image"
    [] kind \in {"notice", "transcript"} -> "Ignore"

\* determine_controller, for a message that can be read.
DetermineController(kind, mention, required) ==
  CASE kind = "command" -> "Command"
    [] kind = "audio" -> "Audio"
    [] kind \in {"chat", "prefixed", "answer"} /\ mention -> "TextMention"
    [] kind = "prefixed" /\ ~mention -> "TextCommand"
    [] kind \in {"chat", "answer"} /\ ~mention -> IF required THEN "Ignore" ELSE "TextDirect"
    [] kind = "image" -> IF required THEN "Ignore" ELSE "Image"
    [] kind \in {"notice", "transcript"} -> "Ignore"

\* timeline_event_to_detailed_message_payload and determine_controller.  What
\* is left of a redacted message of an encrypted room is still encrypted.
RouteByRoot(root, v, required) ==
  CASE v = "redacted" -> IF encrypted THEN "Error" ELSE "Ignore"
    [] v = "encrypted" -> "Error"
    [] v = "clear" -> DetermineController(timeline[root].kind, timeline[root].mention, required)

Root(e) == IF timeline[e].relation = "none" THEN e ELSE timeline[e].to

Stage(controller) == IF controller = "ReplyMention" THEN "chain" ELSE "thread"

Route(controller) ==
  handler' = [handler EXCEPT
    !.controller = controller,
    !.pc = IF controller \notin ChatCompletions THEN "dispatch"
           ELSE IF timeline[handler.event].kind = "audio" THEN "transcribe" ELSE Stage(controller)]

\* A top-level message speaks for itself, and a reply only by its mention.
RouteUnthreaded ==
  LET m == timeline[handler.event]
  IN  /\ handler.pc = "context" /\ m.relation # "thread"
      /\ Route(IF m.relation = "none"
               THEN DetermineController(m.kind, m.mention, handler.prefixRequired)
               ELSE IF m.mention THEN "ReplyMention" ELSE "Ignore")
      /\ UNCHANGED <<room, cache>>

\* A message in a thread is what its root is, unless it mentions the bot.
RouteThreaded ==
  LET m == timeline[handler.event]
  IN  /\ handler.pc = "context" /\ m.relation = "thread"
      /\ IF m.mention
         THEN Route("ThreadMention") /\ UNCHANGED cache
         ELSE \E v \in Views : /\ FetchEvent(m.to, v)
                              /\ Route(RouteByRoot(m.to, v, handler.prefixRequired))
      /\ UNCHANGED room

\* dispatch_controller: nothing, a command, or the error that the first
\* message of the thread is encrypted.
Dispatch ==
  /\ handler.pc = "dispatch"
  /\ handler' = Done(handler.event)
  /\ UNCHANGED <<room, cache>>

\* A voice message is transcribed into its thread first (ChatReply).
Transcribe ==
  /\ handler.pc = "transcribe"
  /\ PostByBot("transcript", "thread", Root(handler.event))
  /\ handler' = [handler EXCEPT !.pc = Stage(handler.controller)]

\* The handler ends early: an event, the thread, the transcript or the answer
\* could not be had or sent.  (A fetch that fails in a chain of replies is
\* unwrapped: the handler panics.)
GiveUp ==
  /\ handler.pc \notin {"done", "dispatch"}
  /\ handler' = Done(handler.event)
  /\ UNCHANGED <<room, cache>>

-----------------------------------------------------------------------------
(* What is put before the provider: the thread, or the chain of replies.   *)

\* Faulty variant: any mention involves the bot.
AllowedUsers_AnyMention(h) ==
  IF h.controller \in Involvements \cup {"TextMention"} THEN None ELSE h.allowed

\* handle_stage_text_generation: whose messages are considered; None is everybody's.
AllowedUsers(h) == IF h.controller \in Involvements THEN None ELSE h.allowed

IsMessageFromAllowedSender(e, users) ==
  timeline[e].sender = Bot \/ users = None \/ timeline[e].sender \in users

\* convert_matrix_native_event_to_matrix_message, convert_bot_notice_message.
Convertible == Texts \cup {"notice", "image", "answer", "transcript"}

LlmMessage(e) ==
  LET m == timeline[e]
  IN  [author |-> IF m.kind = "answer" THEN "assistant" ELSE "user",
       sender |-> IF m.kind = "transcript" THEN None ELSE m.sender,
       of |-> <<e>>, text |-> m.kind # "image"]

\* The numbers up to n that are in S, in order.
InOrder(S, n) ==
  LET upTo[k \in 0..n] ==
        IF k = 0 THEN <<>> ELSE IF k \in S THEN Append(upTo[k - 1], k) ELSE upTo[k - 1]
  IN  upTo[n]

\* The conversation made of events as they were fetched.
Conversation(fetched, users) ==
  LET heard == {i \in DOMAIN fetched : /\ fetched[i].view = "clear"
                                       /\ timeline[fetched[i].event].kind \in Convertible
                                       /\ IsMessageFromAllowedSender(fetched[i].event, users)}
      kept == InOrder(heard, Len(fetched))
  IN  [k \in DOMAIN kept |-> LlmMessage(fetched[kept[k]].event)]

\* (The prefix requirement is of no use any more.)
Converse(fetched) ==
  handler' = [handler EXCEPT
    !.pc = "generate", !.fetched = <<>>, !.prefixRequired = FALSE,
    !.conversation = Conversation(fetched, AllowedUsers(handler))]

CreateConversationForThread ==
  LET root == Root(handler.event)
      thread == InOrder({root} \cup {i \in Events : timeline[i].relation = "thread" /\ timeline[i].to = root},
                        Len(timeline))
  IN  /\ handler.pc = "thread"
      /\ Converse([i \in DOMAIN thread |-> [event |-> thread[i], view |-> view[thread[i]]]])
      /\ UNCHANGED <<room, cache>>

\* The message a fetched one replies to, if it can be read.
InReplyTo(f) ==
  IF f.view = "clear" /\ timeline[f.event].relation = "reply" THEN timeline[f.event].to ELSE None

\* One fetch of get_matrix_messages_in_reply_chain_native.  (An event only
\* replies to an earlier one, so the check for loops never bites.)
FetchReplyChain ==
  LET fetched == handler.fetched
      next == IF fetched = <<>> THEN handler.event ELSE InReplyTo(Head(fetched))
  IN  /\ handler.pc = "chain"
      /\ \E v \in Views :
           LET chain == <<[event |-> next, view |-> v]>> \o fetched
           IN  /\ FetchEvent(next, v)
               /\ IF InReplyTo(Head(chain)) = None THEN Converse(chain)
                  ELSE handler' = [handler EXCEPT !.fetched = chain]
      /\ UNCHANGED room

\* The answer is posted in the thread, or as a reply.
Generate ==
  /\ handler.pc = "generate"
  /\ IF handler.controller = "ReplyMention"
     THEN PostByBot("answer", "reply", handler.event)
     ELSE PostByBot("answer", "thread", Root(handler.event))
  /\ handler' = Done(handler.event)

-----------------------------------------------------------------------------
(* The providers: consecutive texts of one author combined (Anthropic),    *)
(* and the most recent turns that fit the context (all of them).           *)

\* The next message joins the turn before it or begins one.
Combine(turns, m) ==
  LET n == Len(turns)
      joined == [turns[n] EXCEPT !.of = @ \o m.of, !.sender = IF @ = m.sender THEN @ ELSE None]
  IN  IF turns # <<>> /\ turns[n].text /\ m.text /\ turns[n].author = m.author
      THEN [turns EXCEPT ![n] = joined]
      ELSE Append(turns, m)

CombineConsecutiveMessages(messages) ==
  LET combined[k \in 0..Len(messages)] ==
        IF k = 0 THEN <<>> ELSE Combine(combined[k - 1], messages[k])
  IN  combined[Len(messages)]

\* approximate_token_size_for_message: the framing, and a text's length.
TokenSize(m) ==
  1 + IF m.text THEN Len(m.of) + Cardinality({i \in DOMAIN m.of : timeline[m.of[i]].kind = "answer"})
      ELSE 0

\* Faulty variant: cut wherever the context ends.
WithoutOrphanedReplies_Not(messages) == messages

WithoutOrphanedReplies(messages) ==
  LET starts == {i \in DOMAIN messages : messages[i].author # "assistant"}
  IN  IF starts = {} THEN <<>> ELSE SubSeq(messages, Min(starts), Len(messages))

\* From the last message back, until one does not fit any more.
Keep(acc, m, maxContext) ==
  IF acc.full \/ acc.length + TokenSize(m) > maxContext
  THEN [acc EXCEPT !.full = TRUE]
  ELSE [acc EXCEPT !.length = @ + TokenSize(m), !.kept = <<m>> \o @]

ShortenToContextSize(messages, reserved, maxContext) ==
  LET n == Len(messages)
      keep[k \in 0..n] ==
        IF k = 0 THEN [full |-> FALSE, length |-> reserved, kept |-> <<>>]
        ELSE Keep(keep[k - 1], messages[n + 1 - k], maxContext)
  IN  WithoutOrphanedReplies(keep[n].kept)

-----------------------------------------------------------------------------
HandlerStep ==
  \/ RouteUnthreaded \/ RouteThreaded \/ Dispatch \/ Transcribe
  \/ CreateConversationForThread \/ FetchReplyChain \/ Generate \/ GiveUp

Next ==
  \/ \E place \in Places, sender \in People, keyLate \in BOOLEAN :
     \E kind \in IF place.relation = "none" THEN TopKinds ELSE RelatedKinds :
     \E mention \in IF ~keyLate /\ (kind = "chat" \/ place.relation # "none") THEN BOOLEAN ELSE {FALSE} :
       PostByPerson(place, sender, kind, mention, keyLate)
  \/ \E e \in Events : Redact(e) \/ KeyArrives(e)
  \/ \E e \in Events, allowed \in {Users, People}, required \in BOOLEAN : Receive(e, allowed, required)
  \/ HandlerStep

Spec == Init /\ [][Next]_vars
-----------------------------------------------------------------------------
(* Safety.                                                                 *)

\* What a message asks for by itself, as docs/configuration/text-generation.md
\* and docs/features.md tell people: where a prefix is required, only texts
\* with the prefix or a mention (an image that mentions the bot is no text).
AsksForText(e, required) ==
  LET m == timeline[e]
  IN  \/ m.kind = "prefixed"
      \/ m.kind = "chat" /\ m.mention
      \/ m.kind \in {"chat", "answer", "image", "audio"} /\ ~required

IsAddressed(e, required) ==
  LET m == timeline[e]
  IN  CASE m.relation = "none"   -> AsksForText(e, required)
        [] m.relation = "thread" -> m.mention \/ AsksForText(m.to, required)
        [] m.relation = "reply"  -> m.mention

\* Where the code does not keep to that: a voice message at the top level, and
\* a thread that begins with one, is answered although a prefix is required.
VoiceIsAnswered(e, required) ==
  required /\ timeline[e].relation \in {"none", "thread"} /\ timeline[Root(e)].kind = "audio"

\* The bot answers the messages that address it, and of the others only voice
\* messages, whatever is redacted, cached, decrypted late or changed in the
\* settings meanwhile: a message in a thread is answered if the thread was
\* begun with the bot or the message mentions it, a reply only if it mentions
\* the bot.  A message that is to be answered is not only if its thread's root
\* could not be read.
AnswersWhoAddressesIt ==
  LET e == handler.event
      addressed == IsAddressed(e, handler.prefixRequired) \/ VoiceIsAnswered(e, handler.prefixRequired)
      unreadable == /\ timeline[e].relation = "thread" /\ ~timeline[e].mention
                    /\ Root(e) \in Unreadable
  IN  handler.controller # None /\ handler.pc # "generate" =>
        /\ timeline[e].sender \in handler.allowed
        /\ handler.controller \in ChatCompletions => addressed
        /\ addressed => handler.controller \in ChatCompletions \/ unreadable

\* The messages a conversation may be made of: the thread, or what the message
\* replies to, directly or not, up to one that cannot be read.
ThreadOf(e) == {Root(e)} \cup {i \in Events : timeline[i].relation = "thread" /\ timeline[i].to = Root(e)}

\* The least set with e and what its readable members reply to.
ChainOf(e, readable) ==
  LET Closed(S) == \A i \in S \cap readable : timeline[i].relation = "reply" => timeline[i].to \in S
  IN  {i \in Events : \A S \in SUBSET Events : e \in S /\ Closed(S) => i \in S}

ScopeOf(e, readable) ==
  IF handler.controller = "ReplyMention" THEN ChainOf(e, readable) ELSE ThreadOf(e)

\* docs/features.md: the bot "only considers messages from allowed users", and
\* "when the bot is explicitly invoked (via mention) in a thread or reply
\* chain, it will consider all messages": what is put before the provider is
\* of the thread or the chain, in order, once; of a stranger only if the bot
\* was called in; and nothing that was said before and still stands is
\* missing, the message that is being answered included.
ConversationIsWhole ==
  LET e == handler.event
      said == handler.conversation
      involved == handler.controller \in Involvements
      standing == Events \ Unreadable
      Heard(i) == involved \/ timeline[i].sender \in handler.allowed \cup {Bot}
      asked == {said[i].of[1] : i \in DOMAIN said}
  IN  handler.pc = "generate" =>
        /\ asked \subseteq {i \in ScopeOf(e, Events) : Heard(i)}
        /\ \A i, j \in DOMAIN said : i < j => said[i].of[1] < said[j].of[1]
        /\ \A i \in ScopeOf(e, standing) \cap standing :
             i <= e /\ Heard(i) /\ timeline[i].kind \in Convertible => i \in asked
        \* A voice message is heard as its transcript, except in a chain of
        \* replies, which the transcript is not part of.
        /\ timeline[e].kind = "audio" /\ handler.controller # "ReplyMention" =>
             \E i \in ThreadOf(e) :
               /\ i > e /\ timeline[i].kind = "transcript"
               /\ i \in asked \/ view[i] = "redacted"

\* The size of the last k messages.
SizeOfLast(messages, k) ==
  LET n == Len(messages)
      size[j \in 0..n] == IF j = 0 THEN 0 ELSE size[j - 1] + TokenSize(messages[n + 1 - j])
  IN  size[k]

\* Context management "drops whole turns at a time, so a reply is never
\* separated from the message it answered" (docs/configuration/
\* text-generation.md): what is kept fits, is the most recent part, starts
\* with a user, and no longer part would do.  Combining texts neither loses
\* one nor attributes it to somebody else.
RequestIsRecentTurns ==
  LET said == handler.conversation
      turns == CombineConsecutiveMessages(said)
      Starts(messages) == {i \in DOMAIN messages : messages[i].author = "user"}
      From(messages, i) == SubSeq(messages, i, Len(messages))
      SizeFrom(messages, i) == SizeOfLast(messages, Len(messages) + 1 - i)
  IN  handler.pc = "generate" =>
        /\ FlattenSeq([i \in DOMAIN turns |-> turns[i].of]) = [i \in DOMAIN said |-> said[i].of[1]]
        /\ \A t \in Range(turns) : \A m \in Range(said) :
             m.of[1] \in Range(t.of) => m.author = t.author /\ t.sender \in {m.sender, None}
        /\ \A i \in 2..Len(turns) :
             turns[i].author = turns[i-1].author => ~turns[i].text \/ ~turns[i-1].text
        /\ \A messages \in {said, turns}, max \in 0..MaxContext :
             LET fitting == {i \in Starts(messages) : Reserved + SizeFrom(messages, i) <= max}
             IN  ShortenToContextSize(messages, Reserved, max) =
                   IF fitting = {} THEN <<>> ELSE From(messages, Min(fitting))
=============================================================================
