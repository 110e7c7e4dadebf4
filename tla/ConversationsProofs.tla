------------------------ MODULE ConversationsProofs -------------------------
(***************************************************************************)
(* Theorems about Conversations, for any messages of any people, bounded   *)
(* or not, any settings and any size of the context.                       *)
(*                                                                         *)
(* Posts, redactions and late keys change what can be read while a handler *)
(* is at an await, and the cache is told of none of it.  ReadInv says what *)
(* an outdated reading is still worth: what reads as redacted is, and what *)
(* reads as encrypted was posted without its key.  AnswerInv carries the   *)
(* verdict of the routing through the awaits that follow it, and TalkInv   *)
(* what has been fetched, up to the conversation that is made of it.       *)
(*                                                                         *)
(* What recursion builds (an ordered thread, the turns, the sizes, what is *)
(* kept) is characterised by induction on how far it has come: a set of    *)
(* numbers with 0 and every successor has them all (SetInduction).         *)
(***************************************************************************)
EXTENDS Conversations, SequenceTheorems, FiniteSetTheorems, WellFoundedInduction, TLAPS

Kinds == UserKinds \cup BotKinds

Messages == [sender : People \cup {Bot}, kind : Kinds, mention : BOOLEAN, keyLate : BOOLEAN,
             relation : {"none", "thread", "reply"}, to : Nat \cup {None}]

\* A message is posted after those it is related to; the bot mentions nobody,
\* and has the keys of what it posts.
RoomInv ==
  /\ timeline \in Seq(Messages)
  /\ \A e \in Events :
       /\ timeline[e].sender # Bot => timeline[e].kind \in UserKinds
       /\ timeline[e].kind \in BotKinds => timeline[e].sender = Bot /\ ~timeline[e].mention
       /\ timeline[e].sender = Bot => ~timeline[e].keyLate
       /\ timeline[e].relation # "none" => timeline[e].to \in 1..(e - 1)

\* What a reading says of the message, however old it is.
ReadInv ==
  /\ view \in Seq(Views) /\ cache \in Seq(Views \cup {None})
  /\ Len(view) = Len(timeline) /\ Len(cache) = Len(timeline)
  /\ \A e \in Events :
       /\ view[e] = "encrypted" \/ cache[e] = "encrypted" => timeline[e].keyLate
       /\ cache[e] = "redacted" => view[e] = "redacted"

\* Whom the bot answers: who addresses it, and who speaks to the room.
Wanted(e, required) == AsksForText(e, required) \/ (required /\ timeline[e].kind = "audio")
Answered(e, required) == IsAddressed(e, required) \/ VoiceIsAnswered(e, required)

\* Who is asking; and, from the routing to the conversation, that it was right.
Routed == {"dispatch", "transcribe", "chain", "thread"}

Rightly ==
  LET e == handler.event
      addressed == Answered(e, handler.prefixRequired)
  IN  /\ handler.controller \in ChatCompletions => addressed
      /\ addressed => \/ handler.controller \in ChatCompletions
                      \/ /\ timeline[e].relation = "thread" /\ ~timeline[e].mention
                         /\ Root(e) \in Unreadable

AnswerInv ==
  /\ DOMAIN handler = {"event", "pc", "allowed", "prefixRequired", "controller", "fetched", "conversation"}
  /\ handler.pc \in {"context", "generate", "done"} \cup Routed
  /\ handler.pc \in {"context", "done"} => handler.controller = None
  /\ handler.pc # "done" => /\ handler.event \in Events
                            /\ timeline[handler.event].sender \in handler.allowed
                            /\ timeline[handler.event].kind \in UserKinds \ {"notice"}
  /\ handler.pc \in Routed => Rightly

Inv == RoomInv /\ ReadInv /\ AnswerInv

-----------------------------------------------------------------------------
(* The routing.                                                            *)

Asks(kind, mention, required) ==
  \/ kind \in {"prefixed", "audio"}
  \/ kind = "chat" /\ mention
  \/ kind \in {"chat", "answer", "image"} /\ ~required

LEMMA RoutesWhoAsks ==
  ASSUME NEW kind \in Kinds, NEW mention \in BOOLEAN, NEW required,
         kind \in BotKinds => ~mention
  PROVE  /\ DetermineController(kind, mention, required) \in Controllers
         /\ DetermineController(kind, mention, required) \in ChatCompletions <=> Asks(kind, mention, required)
<1> DEFINE c == DetermineController(kind, mention, required)
<1>0. /\ {"TextCommand", "TextMention", "TextDirect", "Audio", "Image"} \subseteq ChatCompletions
      /\ "Command" \notin ChatCompletions /\ "Ignore" \notin ChatCompletions
      /\ ChatCompletions \cup {"Command", "Ignore"} \subseteq Controllers
  BY DEF Controllers, ChatCompletions, Involvements
<1>1. CASE kind = "command"
  <2>1. c = "Command"
    BY <1>1, Zenon DEF DetermineController
  <2> QED BY <1>0, <1>1, <2>1 DEF Asks
<1>2. CASE kind = "audio"
  <2>1. kind # "command"
    BY <1>2
  <2>2. c = "Audio"
    BY <1>2, <2>1, Zenon DEF DetermineController
  <2> QED BY <1>0, <1>2, <2>2 DEF Asks
<1>3. CASE kind \in {"chat", "prefixed", "answer"} /\ mention
  <2>1. kind # "command" /\ kind # "audio"
    BY <1>3
  <2>2. c = "TextMention"
    BY <1>3, <2>1, Zenon DEF DetermineController
  <2> QED BY <1>0, <1>3, <2>2 DEF Asks, BotKinds
<1>4. CASE kind = "prefixed" /\ ~mention
  <2>1. kind # "command" /\ kind # "audio"
    BY <1>4
  <2>2. c = "TextCommand"
    BY <1>4, <2>1, Zenon DEF DetermineController
  <2> QED BY <1>0, <1>4, <2>2 DEF Asks
<1>5. CASE kind \in {"chat", "answer"} /\ ~mention
  <2>1. kind # "command" /\ kind # "audio" /\ kind # "prefixed"
    BY <1>5
  <2>2. c = IF required THEN "Ignore" ELSE "TextDirect"
    BY <1>5, <2>1, Zenon DEF DetermineController
  <2> QED BY <1>0, <1>5, <2>2 DEF Asks
<1>6. CASE kind = "image"
  <2>1. kind # "command" /\ kind # "audio" /\ kind # "prefixed" /\ kind # "chat" /\ kind # "answer"
    BY <1>6
  <2>2. c = IF required THEN "Ignore" ELSE "Image"
    BY <1>6, <2>1, Zenon DEF DetermineController
  <2> QED BY <1>0, <1>6, <2>2 DEF Asks
<1>7. CASE kind \in {"notice", "transcript"}
  <2>1. kind # "command" /\ kind # "audio" /\ kind # "prefixed" /\ kind # "chat" /\ kind # "answer" /\ kind # "image"
    BY <1>7
  <2>2. c = "Ignore"
    BY <1>7, <2>1, Zenon DEF DetermineController
  <2> QED BY <1>0, <1>7, <2>2 DEF Asks
<1> HIDE DEF c
<1>8. \/ kind = "command" \/ kind = "audio" \/ kind \in {"chat", "prefixed", "answer"}
      \/ kind = "image" \/ kind \in {"notice", "transcript"}
  BY DEF Kinds, UserKinds, BotKinds, Texts
<1> QED BY <1>1, <1>2, <1>3, <1>4, <1>5, <1>6, <1>7, <1>8 DEF c

\* Whether a message is answered for its own sake, in the terms of its fields.
LEMMA AskedIs ==
  ASSUME NEW e, NEW required
  PROVE  Wanted(e, required) <=> Asks(timeline[e].kind, timeline[e].mention, required)
BY DEF AsksForText, Wanted, Asks

LEMMA AddressedIs ==
  ASSUME NEW e, NEW required, timeline[e].relation \in {"none", "thread", "reply"}
  PROVE  Answered(e, required) <=>
           \/ timeline[e].relation = "none" /\ Wanted(e, required)
           \/ timeline[e].relation = "thread" /\ (timeline[e].mention \/ Wanted(timeline[e].to, required))
           \/ timeline[e].relation = "reply" /\ timeline[e].mention
<1> USE DEF Wanted, Root
<1>1. CASE timeline[e].relation = "none"
  <2>1. timeline[e].relation # "thread" /\ timeline[e].relation # "reply"
    BY <1>1
  <2>2. IsAddressed(e, required) <=> AsksForText(e, required)
    BY <1>1, <2>1, Zenon DEF IsAddressed
  <2> QED BY <1>1, <2>1, <2>2 DEF Answered, VoiceIsAnswered
<1>2. CASE timeline[e].relation = "thread"
  <2>1. timeline[e].relation # "none" /\ timeline[e].relation # "reply"
    BY <1>2
  <2>2. IsAddressed(e, required) <=> timeline[e].mention \/ AsksForText(timeline[e].to, required)
    BY <1>2, <2>1, Zenon DEF IsAddressed
  <2> QED BY <1>2, <2>1, <2>2 DEF Answered, VoiceIsAnswered
<1>3. CASE timeline[e].relation = "reply"
  <2>1. timeline[e].relation # "none" /\ timeline[e].relation # "thread"
    BY <1>3
  <2>2. IsAddressed(e, required) <=> timeline[e].mention
    BY <1>3, <2>1, Zenon DEF IsAddressed
  <2> QED BY <1>3, <2>1, <2>2 DEF Answered, VoiceIsAnswered
<1> QED BY <1>1, <1>2, <1>3

LEMMA MessageFields ==
  ASSUME RoomInv, NEW e \in Events
  PROVE  /\ Events = 1..Len(timeline) /\ Len(timeline) \in Nat /\ timeline[e] \in Messages
         /\ timeline[e].kind \in Kinds /\ timeline[e].mention \in BOOLEAN
         /\ timeline[e].relation \in {"none", "thread", "reply"}
         /\ Root(e) \in Events
<1>1. Events = 1..Len(timeline) /\ Len(timeline) \in Nat /\ timeline[e] \in Messages
  BY DEF RoomInv, Events
<1> QED BY <1>1 DEF RoomInv, Messages, Root

\* A thread's root, however old the reading of it is.
LEMMA RoutesByRoot ==
  ASSUME RoomInv, ReadInv, NEW root \in Events, NEW v \in Views, v = cache[root] \/ v = view[root], NEW required
  PROVE  /\ RouteByRoot(root, v, required) \in Controllers
         /\ RouteByRoot(root, v, required) \in ChatCompletions => Wanted(root, required)
         /\ Wanted(root, required) => \/ RouteByRoot(root, v, required) \in ChatCompletions
                                     \/ root \in Unreadable
<1>0. "Error" \notin ChatCompletions /\ "Ignore" \notin ChatCompletions /\ {"Error", "Ignore"} \subseteq Controllers
  BY DEF Controllers, ChatCompletions, Involvements
<1>1. CASE v = "redacted"
  <2>1. root \in Unreadable
    BY <1>1 DEF ReadInv, Unreadable
  <2>2. RouteByRoot(root, v, required) = IF encrypted THEN "Error" ELSE "Ignore"
    BY <1>1 DEF RouteByRoot
  <2> QED BY <1>0, <2>1, <2>2
<1>2. CASE v = "encrypted"
  <2>1. root \in Unreadable
    BY <1>2 DEF ReadInv, Unreadable
  <2>2. RouteByRoot(root, v, required) = "Error"
    BY <1>2 DEF RouteByRoot
  <2> QED BY <1>0, <2>1, <2>2
<1>3. CASE v = "clear"
  <2>1. RouteByRoot(root, v, required) = DetermineController(timeline[root].kind, timeline[root].mention, required)
    BY <1>3 DEF RouteByRoot
  <2> QED BY <2>1, RoutesWhoAsks, AskedIs, MessageFields DEF RoomInv
<1> QED BY <1>1, <1>2, <1>3 DEF Views

-----------------------------------------------------------------------------
(* The room.                                                               *)

\* What the room may do to the messages there are.
Grows ==
  /\ Events \subseteq Events' /\ Unreadable \subseteq Unreadable'
  /\ \A e \in Events : /\ timeline'[e] = timeline[e]
                       /\ view[e] = "redacted" => view'[e] = "redacted"

LEMMA Posting ==
  ASSUME RoomInv, ReadInv, NEW message \in Messages, NEW v \in Views, Post(message, v),
         message.sender # Bot => message.kind \in UserKinds,
         message.kind \in BotKinds => message.sender = Bot /\ ~message.mention,
         message.sender = Bot => ~message.keyLate,
         message.relation # "none" => message.to \in Events,
         v = "encrypted" => message.keyLate
  PROVE  /\ RoomInv' /\ ReadInv' /\ Grows
         /\ Len(timeline) \in Nat /\ Events = 1..Len(timeline)
         /\ Len(timeline)' = Len(timeline) + 1 /\ Events' = 1..(Len(timeline) + 1)
         /\ timeline'[Len(timeline) + 1] = message /\ view'[Len(timeline) + 1] = v
         /\ \A e \in Events : view'[e] = view[e] /\ cache'[e] = cache[e]
         /\ UNCHANGED encrypted
<1> DEFINE n == Len(timeline)
<1>1. /\ n \in Nat /\ Events = 1..n
      /\ timeline' = Append(timeline, message) /\ view' = Append(view, v) /\ cache' = Append(cache, None)
      /\ UNCHANGED encrypted
      /\ timeline \in Seq(Messages) /\ view \in Seq(Views) /\ cache \in Seq(Views \cup {None})
      /\ Len(view) = n /\ Len(cache) = n
  BY DEF Post, RoomInv, ReadInv, Events
<1>2. /\ timeline' \in Seq(Messages) /\ Len(timeline') = n + 1 /\ Events' = 1..(n + 1)
      /\ \A e \in 1..n : timeline'[e] = timeline[e]
      /\ timeline'[n + 1] = message
  BY <1>1 DEF Events
<1>3. /\ view' \in Seq(Views) /\ Len(view') = n + 1
      /\ \A e \in 1..n : view'[e] = view[e]
      /\ view'[n + 1] = v
  BY <1>1
<1>4. /\ cache' \in Seq(Views \cup {None}) /\ Len(cache') = n + 1
      /\ \A e \in 1..n : cache'[e] = cache[e]
      /\ cache'[n + 1] = None
  BY <1>1
<1> HIDE DEF n
<1>5. RoomInv'
  <2>1. ASSUME NEW e \in Events'
        PROVE  /\ timeline'[e].sender # Bot => timeline'[e].kind \in UserKinds
               /\ timeline'[e].kind \in BotKinds => timeline'[e].sender = Bot /\ ~timeline'[e].mention
               /\ timeline'[e].sender = Bot => ~timeline'[e].keyLate
               /\ timeline'[e].relation # "none" => timeline'[e].to \in 1..(e - 1)
    <3>1. CASE e \in 1..n
      BY <1>1, <1>2, <3>1 DEF RoomInv
    <3>2. CASE e = n + 1
      BY <1>1, <1>2, <3>2
    <3> QED BY <1>1, <1>2, <3>1, <3>2
  <2> QED BY <1>2, <2>1 DEF RoomInv
<1>6. ReadInv'
  <2>1. ASSUME NEW e \in Events'
        PROVE  /\ view'[e] = "encrypted" \/ cache'[e] = "encrypted" => timeline'[e].keyLate
               /\ cache'[e] = "redacted" => view'[e] = "redacted"
    <3>1. CASE e \in 1..n
      BY <1>1, <1>2, <1>3, <1>4, <3>1 DEF ReadInv
    <3>2. CASE e = n + 1
      BY <1>1, <1>2, <1>3, <1>4, <3>2, NoneAssumption DEF Views
    <3> QED BY <1>1, <1>2, <3>1, <3>2
  <2> QED BY <1>2, <1>3, <1>4, <2>1 DEF ReadInv, n
<1>7. Grows
  BY <1>1, <1>2, <1>3 DEF Grows, Unreadable
<1> QED BY <1>1, <1>2, <1>3, <1>4, <1>5, <1>6, <1>7 DEF n

\* A redaction, and a key that arrives.
LEMMA Rereading ==
  ASSUME RoomInv, ReadInv, NEW e \in Events, Redact(e) \/ KeyArrives(e)
  PROVE  RoomInv' /\ ReadInv' /\ Grows /\ UNCHANGED <<timeline, handler>>
<1> DEFINE v == IF view[e] = "encrypted" /\ KeyArrives(e) THEN "clear" ELSE "redacted"
<1>1. /\ UNCHANGED <<encrypted, timeline, cache, handler>>
      /\ Events' = Events /\ e \in DOMAIN view /\ view \in Seq(Views)
      /\ Len(view) = Len(timeline) /\ Events = 1..Len(timeline) /\ DOMAIN view = Events
  BY DEF Redact, KeyArrives, Events, ReadInv, RoomInv
<1>2. \/ view' = [view EXCEPT ![e] = "redacted"]
      \/ view' = [view EXCEPT ![e] = "clear"] /\ view[e] = "encrypted"
  BY DEF Redact, KeyArrives
<1>3. view' \in Seq(Views) /\ Len(view') = Len(view)
  BY <1>1, <1>2 DEF Views
<1>4. \A i \in Events : \/ view'[i] = view[i] \/ view'[i] = "redacted"
                        \/ view[i] = "encrypted" /\ view'[i] = "clear"
  BY <1>1, <1>2
<1>5. ReadInv'
  BY <1>1, <1>3, <1>4 DEF ReadInv
<1>6. RoomInv'
  BY <1>1 DEF RoomInv
<1>7. Grows
  BY <1>1, <1>4 DEF Grows, Unreadable
<1> QED BY <1>1, <1>5, <1>6, <1>7

\* A fetch caches a reading that is as good as the one it is.
LEMMA Fetching ==
  ASSUME RoomInv, ReadInv, NEW e, NEW v \in Views, FetchEvent(e, v), UNCHANGED room
  PROVE  RoomInv' /\ ReadInv' /\ Grows /\ (v = cache[e] \/ v = view[e])
<1>1. /\ UNCHANGED <<encrypted, timeline, view>> /\ Events' = Events
      /\ cache \in Seq(Views \cup {None}) /\ Len(cache) = Len(timeline) /\ Events = 1..Len(timeline)
      /\ cache' = [cache EXCEPT ![e] = v] /\ (v = cache[e] \/ v = view[e])
  BY DEF room, Events, FetchEvent, ReadInv, RoomInv
<1>2. /\ cache' \in Seq(Views \cup {None}) /\ Len(cache') = Len(cache)
      /\ \A i \in Events : cache'[i] = IF i = e THEN v ELSE cache[i]
  <2>1. DOMAIN cache = Events
    BY <1>1
  <2>2. CASE e \in Events
    BY <1>1, <2>1, <2>2
  <2>3. CASE e \notin Events
    <3>1. cache' = cache
      BY <1>1, <2>1, <2>3
    <3> QED BY <1>1, <2>3, <3>1
  <2> QED BY <2>2, <2>3
<1>3. ReadInv'
  <2>1. \A i \in Events : /\ view[i] = "encrypted" \/ cache'[i] = "encrypted" => timeline[i].keyLate
                          /\ cache'[i] = "redacted" => view[i] = "redacted"
    BY <1>1, <1>2 DEF ReadInv
  <2> QED BY <1>1, <1>2, <2>1 DEF ReadInv
<1>4. RoomInv'
  BY <1>1 DEF RoomInv
<1>5. Grows
  BY <1>1 DEF Grows, Unreadable
<1> QED BY <1>1, <1>3, <1>4, <1>5

-----------------------------------------------------------------------------
(* The handler.                                                            *)

AddressedHere ==
  LET e == handler.event
      required == handler.prefixRequired
  IN  timeline[e].relation \in {"none", "thread", "reply"} =>
        (Answered(e, required) <=>
           \/ timeline[e].relation = "none" /\ Asks(timeline[e].kind, timeline[e].mention, required)
           \/ /\ timeline[e].relation = "thread"
              /\ \/ timeline[e].mention
                 \/ Asks(timeline[timeline[e].to].kind, timeline[timeline[e].to].mention, required)
           \/ timeline[e].relation = "reply" /\ timeline[e].mention)

LEMMA AddressedNow == AddressedHere
BY AddressedIs, AskedIs DEF AddressedHere

LEMMA AddressedNext == AddressedHere'
BY AddressedNow, PTL

\* A verdict stays right whatever happens in the room.
LEMMA VerdictStays ==
  ASSUME RoomInv, Grows, handler.event \in Events, Rightly,
         handler'.event = handler.event, handler'.prefixRequired = handler.prefixRequired,
         handler'.controller = handler.controller
  PROVE  Rightly'
<1> DEFINE e == handler.event
           r == handler.prefixRequired
<1>1. /\ timeline[e].relation \in {"none", "thread", "reply"} /\ Root(e) \in Events
      /\ timeline[e].relation # "none" => timeline[e].to \in Events
      /\ timeline'[e] = timeline[e]
  BY MessageFields DEF Grows, Root
<1>2. \A i \in Events : timeline'[i] = timeline[i]
  BY DEF Grows
<1>3. Answered(e, r)' <=> Answered(e, r)
  BY <1>1, <1>2, AddressedNow, AddressedNext DEF AddressedHere
<1> QED BY <1>1, <1>3 DEF Rightly, Grows, Root

LEMMA InitInv == Init => Inv
<1> SUFFICES ASSUME Init PROVE Inv
  OBVIOUS
<1>1. timeline = <<>> /\ view = <<>> /\ cache = <<>> /\ Events = {}
  BY DEF Init, Events
<1>2. RoomInv /\ ReadInv
  BY <1>1 DEF RoomInv, ReadInv
<1>3. AnswerInv
  BY DEF Init, AnswerInv, Done, Routed
<1> QED BY <1>2, <1>3 DEF Inv

\* The handler is where it was, or one await further with the same verdict.
LEMMA AnswerKept ==
  ASSUME Inv, Grows,
         \/ UNCHANGED handler
         \/ \E pc, fetched : /\ handler.pc \in Routed /\ pc \in Routed
                            /\ handler' = [handler EXCEPT !.pc = pc, !.fetched = fetched]
  PROVE  AnswerInv'
<1>1. DOMAIN handler = {"event", "pc", "allowed", "prefixRequired", "controller", "fetched", "conversation"}
  BY DEF Inv, AnswerInv
<1>2. /\ handler'.event = handler.event /\ handler'.prefixRequired = handler.prefixRequired
      /\ handler'.controller = handler.controller /\ handler'.allowed = handler.allowed
      /\ DOMAIN handler' = DOMAIN handler
      /\ handler'.pc = handler.pc \/ (handler.pc \in Routed /\ handler'.pc \in Routed)
  BY <1>1
<1>3. \A w \in Routed : w # "done" /\ w # "context"
  BY DEF Routed
<1>4. handler'.pc \in Routed => Rightly'
  BY <1>2, <1>3, VerdictStays DEF Inv, AnswerInv
<1> QED BY <1>2, <1>3, <1>4 DEF Inv, AnswerInv, Grows

\* A handler that has ended.
LEMMA Ended ==
  ASSUME NEW e, handler' = Done(e)
  PROVE  AnswerInv'
BY DEF AnswerInv, Done, Routed

LEMMA Routing ==
  ASSUME Inv, handler.pc = "context", NEW controller, Route(controller), Grows,
         LET e == handler.event
             addressed == Answered(e, handler.prefixRequired)
         IN  /\ controller \in ChatCompletions => addressed
             /\ addressed => \/ controller \in ChatCompletions
                             \/ /\ timeline[e].relation = "thread" /\ ~timeline[e].mention
                                /\ Root(e) \in Unreadable
  PROVE  AnswerInv'
<1> DEFINE pc == IF controller \notin ChatCompletions THEN "dispatch"
                 ELSE IF timeline[handler.event].kind = "audio" THEN "transcribe" ELSE Stage(controller)
           e == handler.event
           r == handler.prefixRequired
<1>1. pc \in Routed
  BY DEF Routed, Stage
<1>2. handler' = [handler EXCEPT !.controller = controller, !.pc = pc]
  BY DEF Route
<1> HIDE DEF pc
<1>3. DOMAIN handler = {"event", "pc", "allowed", "prefixRequired", "controller", "fetched", "conversation"}
  BY DEF Inv, AnswerInv
<1>4. /\ handler'.event = e /\ handler'.prefixRequired = r
      /\ handler'.controller = controller /\ handler'.allowed = handler.allowed
      /\ DOMAIN handler' = DOMAIN handler /\ handler'.pc \in Routed
  BY <1>1, <1>2, <1>3
<1>5. /\ e \in Events /\ timeline[e].sender \in handler.allowed
      /\ timeline[e].kind \in UserKinds \ {"notice"} /\ RoomInv
  BY DEF Inv, AnswerInv
<1>6. /\ timeline[e].relation \in {"none", "thread", "reply"} /\ Root(e) \in Events
      /\ timeline[e].relation # "none" => timeline[e].to \in Events
      /\ \A i \in Events : timeline'[i] = timeline[i]
  BY <1>5, MessageFields DEF Grows, Root
<1>7. Answered(e, r)' <=> Answered(e, r)
  BY <1>4, <1>5, <1>6, AddressedNow, AddressedNext DEF AddressedHere
<1>8. Rightly'
  BY <1>4, <1>5, <1>6, <1>7 DEF Rightly, Grows, Root
<1>9. \A w \in Routed : w # "done" /\ w # "context"
  BY DEF Routed
<1> QED BY <1>3, <1>4, <1>5, <1>6, <1>8, <1>9 DEF AnswerInv, Grows

-----------------------------------------------------------------------------
(* The steps.                                                              *)

LEMMA PersonPosts ==
  ASSUME Inv, NEW place \in Places, NEW sender \in People, NEW kind \in TopKinds \cup RelatedKinds,
         NEW mention \in BOOLEAN, NEW keyLate \in BOOLEAN,
         PostByPerson(place, sender, kind, mention, keyLate)
  PROVE  RoomInv' /\ ReadInv' /\ Grows /\ UNCHANGED handler
<1> DEFINE m == [sender |-> sender, kind |-> kind, mention |-> mention, keyLate |-> keyLate,
                 relation |-> place.relation, to |-> place.to]
           v == IF keyLate THEN "encrypted" ELSE "clear"
<1>1. Post(m, v) /\ UNCHANGED handler
  BY DEF PostByPerson
<1>2. Events = 1..Len(timeline) /\ Len(timeline) \in Nat
  BY DEF Inv, RoomInv, Events
<1>3. /\ place.relation \in {"none", "thread", "reply"} /\ place.to \in Events \cup {None}
      /\ place.relation # "none" => place.to \in Events
  BY DEF Places
<1>4. kind \in UserKinds /\ sender # Bot
  BY KindAssumption, SenderAssumption
<1>5. kind \notin BotKinds
  BY <1>4 DEF UserKinds, Texts, BotKinds
<1>6. m \in Messages
  BY <1>2, <1>3, <1>4 DEF Messages, Kinds
<1>7. /\ v \in Views /\ (v = "encrypted" => m.keyLate)
      /\ m.sender # Bot /\ m.kind \in UserKinds /\ m.kind \notin BotKinds
      /\ m.relation # "none" => m.to \in Events
  BY <1>3, <1>4, <1>5 DEF Views
<1> HIDE DEF m, v
<1>8. RoomInv' /\ ReadInv' /\ Grows
  BY <1>1, <1>6, <1>7, Posting DEF Inv
<1> QED BY <1>1, <1>8

\* What the bot posts is related to a message of the room.
LEMMA BotPosts ==
  ASSUME RoomInv, ReadInv, NEW kind \in BotKinds, NEW relation \in {"thread", "reply"}, NEW to \in Events,
         PostByBot(kind, relation, to)
  PROVE  RoomInv' /\ ReadInv' /\ Grows
<1> DEFINE m == [sender |-> Bot, kind |-> kind, mention |-> FALSE, keyLate |-> FALSE,
                 relation |-> relation, to |-> to]
<1>1. Post(m, "clear")
  BY DEF PostByBot
<1>2. Events = 1..Len(timeline) /\ Len(timeline) \in Nat
  BY DEF RoomInv, Events
<1>3. m \in Messages
  BY <1>2 DEF Messages, Kinds
<1>4. /\ m.sender = Bot /\ ~m.mention /\ ~m.keyLate /\ m.to \in Events
      /\ "clear" \in Views /\ "clear" # "encrypted"
  BY DEF Views
<1> HIDE DEF m
<1> QED BY <1>1, <1>3, <1>4, Posting

LEMMA Receives ==
  ASSUME Inv, NEW e \in Events, NEW allowed, NEW required, Receive(e, allowed, required)
  PROVE  Inv'
<1>1. UNCHANGED <<encrypted, timeline, view, cache>> /\ Events' = Events
  BY DEF Receive, room, Events
<1>2. RoomInv' /\ ReadInv'
  BY <1>1 DEF Inv, RoomInv, ReadInv
<1>3. CASE handler' = Done(e)
  BY <1>2, <1>3, Ended DEF Inv
<1>4. CASE handler' # Done(e)
  <2>1. /\ timeline[e].sender \in allowed /\ timeline[e].kind # "notice" /\ timeline[e].sender # Bot
        /\ handler' = [Done(e) EXCEPT !.pc = "context", !.allowed = allowed, !.prefixRequired = required]
    BY <1>4 DEF Receive
  <2>2. timeline[e].kind \in UserKinds \ {"notice"}
    BY <2>1 DEF Inv, RoomInv
  <2>3. AnswerInv'
    BY <1>1, <2>1, <2>2 DEF AnswerInv, Done, Routed
  <2> QED BY <1>2, <2>3 DEF Inv
<1> QED BY <1>3, <1>4

LEMMA SameRoom ==
  ASSUME Inv, UNCHANGED <<room, cache>>
  PROVE  RoomInv' /\ ReadInv' /\ Grows
BY DEF Inv, RoomInv, ReadInv, Grows, Unreadable, room, Events

LEMMA RoutesUnthreaded ==
  ASSUME Inv, RouteUnthreaded
  PROVE  Inv'
<1> DEFINE e == handler.event
           r == handler.prefixRequired
           m == timeline[e]
           c == IF m.relation = "none" THEN DetermineController(m.kind, m.mention, r)
                ELSE IF m.mention THEN "ReplyMention" ELSE "Ignore"
<1>1. handler.pc = "context" /\ m.relation # "thread" /\ Route(c) /\ UNCHANGED <<room, cache>>
  BY DEF RouteUnthreaded
<1>2. e \in Events /\ RoomInv
  BY <1>1 DEF Inv, AnswerInv
<1>3. /\ m.relation \in {"none", "thread", "reply"} /\ m.kind \in Kinds /\ m.mention \in BOOLEAN
      /\ m.kind \in BotKinds => ~m.mention
  BY <1>2, MessageFields DEF RoomInv
<1>4. "ReplyMention" \in ChatCompletions /\ "Ignore" \notin ChatCompletions
  BY DEF ChatCompletions, Involvements
<1>5. Answered(e, r) <=> \/ m.relation = "none" /\ Asks(m.kind, m.mention, r)
                         \/ m.relation = "reply" /\ m.mention
  BY <1>1, <1>3, AddressedNow DEF AddressedHere
<1>6. c \in ChatCompletions <=> Answered(e, r)
  <2>1. CASE m.relation = "none"
    <3>1. c = DetermineController(m.kind, m.mention, r)
      BY <2>1
    <3> HIDE DEF c
    <3> QED BY <1>3, <1>5, <2>1, <3>1, RoutesWhoAsks
  <2>2. CASE m.relation = "reply"
    BY <1>4, <1>5, <2>2
  <2> QED BY <1>1, <1>3, <2>1, <2>2
<1> HIDE DEF c
<1>7. RoomInv' /\ ReadInv' /\ Grows
  BY <1>1, SameRoom
<1>8. AnswerInv'
  BY <1>1, <1>6, <1>7, Routing
<1> QED BY <1>7, <1>8 DEF Inv

LEMMA RoutesThreaded ==
  ASSUME Inv, RouteThreaded
  PROVE  Inv'
<1> DEFINE e == handler.event
           r == handler.prefixRequired
           m == timeline[e]
<1>1. handler.pc = "context" /\ m.relation = "thread" /\ UNCHANGED room
  BY DEF RouteThreaded
<1>2. e \in Events /\ RoomInv /\ ReadInv
  BY <1>1 DEF Inv, AnswerInv
<1>3. /\ m.relation \in {"none", "thread", "reply"} /\ m.mention \in BOOLEAN
      /\ m.to \in Events /\ Root(e) = m.to
  BY <1>1, <1>2, MessageFields DEF Root
<1>4. Answered(e, r) <=> m.mention \/ Wanted(m.to, r)
  BY <1>1, <1>3, AddressedIs
<1>5. CASE m.mention
  <2>1. Route("ThreadMention") /\ UNCHANGED <<room, cache>>
    BY <1>1, <1>5 DEF RouteThreaded
  <2>2. "ThreadMention" \in ChatCompletions
    BY DEF ChatCompletions, Involvements
  <2>3. RoomInv' /\ ReadInv' /\ Grows
    BY <2>1, SameRoom
  <2>4. AnswerInv'
    BY <1>1, <1>4, <1>5, <2>1, <2>2, <2>3, Routing
  <2> QED BY <2>3, <2>4 DEF Inv
<1>6. CASE ~m.mention
  <2>1. PICK v \in Views : FetchEvent(m.to, v) /\ Route(RouteByRoot(m.to, v, r))
    BY <1>6 DEF RouteThreaded
  <2>2. RoomInv' /\ ReadInv' /\ Grows /\ (v = cache[m.to] \/ v = view[m.to])
    BY <1>1, <1>2, <1>3, <2>1, Fetching
  <2> DEFINE c == RouteByRoot(m.to, v, r)
  <2>3. /\ c \in ChatCompletions => Wanted(m.to, r)
        /\ Wanted(m.to, r) => c \in ChatCompletions \/ m.to \in Unreadable
    BY <1>2, <1>3, <2>2, RoutesByRoot
  <2>4. Route(c)
    BY <2>1
  <2> HIDE DEF c
  <2>5. AnswerInv'
    BY <1>1, <1>3, <1>4, <1>6, <2>2, <2>3, <2>4, Routing
  <2> QED BY <2>2, <2>5 DEF Inv
<1> QED BY <1>5, <1>6

LEMMA Transcribes ==
  ASSUME Inv, Transcribe
  PROVE  Inv'
<1>1. /\ handler.pc = "transcribe" /\ handler.pc \in Routed /\ Stage(handler.controller) \in Routed
      /\ handler' = [handler EXCEPT !.pc = Stage(handler.controller)]
      /\ PostByBot("transcript", "thread", Root(handler.event))
  BY DEF Transcribe, Routed, Stage
<1>2. handler.event \in Events /\ RoomInv /\ ReadInv
  BY <1>1 DEF Inv, AnswerInv
<1>3. Root(handler.event) \in Events /\ "transcript" \in BotKinds
  BY <1>2, MessageFields DEF BotKinds
<1>4. RoomInv' /\ ReadInv' /\ Grows
  BY <1>1, <1>2, <1>3, BotPosts
<1>5. handler' = [handler EXCEPT !.pc = Stage(handler.controller), !.fetched = handler.fetched]
  BY <1>1 DEF Inv, AnswerInv
<1>6. AnswerInv'
  BY <1>1, <1>4, <1>5, AnswerKept
<1> QED BY <1>4, <1>6 DEF Inv

\* With the conversation, the verdict has done its work.
LEMMA Conversing ==
  ASSUME Inv, handler.pc \in Routed, NEW fetched, Converse(fetched), Grows
  PROVE  AnswerInv'
<1> DEFINE said == Conversation(fetched, AllowedUsers(handler))
<1>1. handler' = [handler EXCEPT !.pc = "generate", !.fetched = <<>>, !.prefixRequired = FALSE,
                                 !.conversation = said]
  BY DEF Converse
<1> HIDE DEF said
<1>2. /\ DOMAIN handler = {"event", "pc", "allowed", "prefixRequired", "controller", "fetched", "conversation"}
      /\ handler.event \in Events /\ timeline[handler.event].sender \in handler.allowed
      /\ timeline[handler.event].kind \in UserKinds \ {"notice"}
  BY DEF Inv, AnswerInv, Routed
<1>3. /\ DOMAIN handler' = DOMAIN handler /\ handler'.pc = "generate"
      /\ handler'.event = handler.event /\ handler'.allowed = handler.allowed
  BY <1>1, <1>2
<1> QED BY <1>2, <1>3 DEF AnswerInv, Grows, Routed

LEMMA FetchesChain ==
  ASSUME Inv, FetchReplyChain
  PROVE  Inv'
<1> DEFINE fetched == handler.fetched
           next == IF fetched = <<>> THEN handler.event ELSE InReplyTo(Head(fetched))
<1>1. handler.pc = "chain" /\ handler.pc \in Routed /\ UNCHANGED room /\ RoomInv /\ ReadInv
  BY DEF FetchReplyChain, Routed, Inv
<1>2. PICK v \in Views : /\ FetchEvent(next, v)
                         /\ \/ Converse(<<[event |-> next, view |-> v]>> \o fetched)
                            \/ handler' = [handler EXCEPT !.fetched = <<[event |-> next, view |-> v]>> \o fetched]
  BY DEF FetchReplyChain
<1> DEFINE chain == <<[event |-> next, view |-> v]>> \o fetched
<1>3. RoomInv' /\ ReadInv' /\ Grows
  BY <1>1, <1>2, Fetching
<1>4. CASE Converse(chain)
  BY <1>1, <1>3, <1>4, Conversing DEF Inv
<1>5. CASE handler' = [handler EXCEPT !.fetched = chain]
  <2> HIDE DEF chain
  <2>1. handler' = [handler EXCEPT !.pc = "chain", !.fetched = chain]
    BY <1>1, <1>5 DEF Inv, AnswerInv
  <2>2. AnswerInv'
    BY <1>1, <1>3, <2>1, AnswerKept
  <2> QED BY <1>3, <2>2 DEF Inv
<1> QED BY <1>2, <1>4, <1>5

LEMMA Generates ==
  ASSUME Inv, Generate
  PROVE  Inv'
<1>1. handler.pc = "generate" /\ handler' = Done(handler.event)
  BY DEF Generate
<1>2. handler.event \in Events /\ RoomInv /\ ReadInv
  BY <1>1 DEF Inv, AnswerInv
<1>3. Root(handler.event) \in Events /\ "answer" \in BotKinds
  BY <1>2, MessageFields DEF BotKinds
<1>4. RoomInv' /\ ReadInv'
  BY <1>2, <1>3, BotPosts DEF Generate
<1> QED BY <1>1, <1>4, Ended DEF Inv

LEMMA StepInv == Inv /\ [Next]_vars => Inv'
<1> SUFFICES ASSUME Inv, [Next]_vars PROVE Inv'
  OBVIOUS
<1>1. ASSUME NEW place \in Places, NEW sender \in People, NEW keyLate \in BOOLEAN,
             NEW kind \in TopKinds \cup RelatedKinds, NEW mention \in BOOLEAN,
             PostByPerson(place, sender, kind, mention, keyLate)
      PROVE  Inv'
  BY <1>1, PersonPosts, AnswerKept DEF Inv
<1>2. ASSUME NEW e \in Events, Redact(e) \/ KeyArrives(e)
      PROVE  Inv'
  BY <1>2, Rereading, AnswerKept DEF Inv
<1>3. ASSUME NEW e \in Events, NEW allowed \in {Users, People}, NEW required \in BOOLEAN,
             Receive(e, allowed, required)
      PROVE  Inv'
  BY <1>3, Receives
<1>4. CASE Dispatch \/ GiveUp
  <2>1. UNCHANGED <<room, cache>> /\ handler' = Done(handler.event)
    BY <1>4 DEF Dispatch, GiveUp
  <2> QED BY <2>1, SameRoom, Ended DEF Inv
<1>5. CASE CreateConversationForThread
  <2>1. /\ handler.pc \in Routed /\ UNCHANGED <<room, cache>>
        /\ \E fetched : Converse(fetched)
    BY <1>5 DEF CreateConversationForThread, Routed
  <2> QED BY <2>1, SameRoom, Conversing DEF Inv
<1>6. CASE UNCHANGED vars
  <2>1. UNCHANGED <<room, cache>> /\ UNCHANGED handler
    BY <1>6 DEF vars, room
  <2> QED BY <2>1, SameRoom, AnswerKept DEF Inv
<1>7. HandlerStep => Inv'
  BY <1>4, <1>5, RoutesUnthreaded, RoutesThreaded, Transcribes, FetchesChain, Generates DEF HandlerStep
<1>8. Next => Inv'
  BY <1>1, <1>2, <1>3, <1>7 DEF Next
<1> QED BY <1>6, <1>8

\* The bot answers the messages that address it, and of the others only voice
\* messages and the threads they begin, whatever is posted, redacted, decrypted
\* late or changed in the settings between the awaits of a handler, and however
\* old the readings in the cache are (determine_controller and what leads to it).
THEOREM AnswersAddressed == Spec => []AnswersWhoAddressesIt
<1>1. Inv => AnswersWhoAddressesIt
  <2> SUFFICES ASSUME Inv, handler.controller # None, handler.pc # "generate"
               PROVE  /\ timeline[handler.event].sender \in handler.allowed /\ Rightly
    BY DEF AnswersWhoAddressesIt, Rightly, Answered
  <2> QED BY DEF Inv, AnswerInv, Routed
<1> QED BY <1>1, InitInv, StepInv, PTL DEF Spec

-----------------------------------------------------------------------------
(* Induction, and what is defined by recursion.                            *)

\* Every set of numbers that is not empty has a least member.
LEMMA LeastNumber ==
  ASSUME NEW T, T \subseteq Nat, T # {}
  PROVE  \E m \in T : \A n \in T : m <= n
<1> DEFINE R == OpToRel(<, Nat)
<1>1. IsWellFoundedOn(R, Nat)
  BY NatLessThanWellFounded
<1>2. PICK m \in T : \A n \in T : <<n, m>> \notin R
  BY <1>1, WFMin, Zenon
<1>3. \A n \in T : ~(n < m)
  BY <1>2 DEF OpToRel
<1> QED BY <1>3

\* A set of numbers that has 0, and with every number the next, has them all.
LEMMA SetInduction ==
  ASSUME NEW S, 0 \in S, \A n \in Nat : n \in S => n + 1 \in S
  PROVE  \A n \in Nat : n \in S
<1> SUFFICES ASSUME Nat \ S # {} PROVE FALSE
  OBVIOUS
<1>1. PICK m \in Nat \ S : \A n \in Nat \ S : m <= n
  BY LeastNumber
<1>2. m - 1 \in Nat /\ m - 1 \in S
  BY <1>1
<1> QED BY <1>1, <1>2

\* f is defined from its value for the number before.
Recurs(f, first, step, n) == f[0] = first /\ \A k \in 1..n : f[k] = step[k][f[k - 1]]

LEMMA RecursionExists ==
  ASSUME NEW S, NEW n \in Nat, NEW first \in S, NEW step \in [1..n -> [S -> S]]
  PROVE  \E f \in [0..n -> S] : Recurs(f, first, step, n)
<1> DEFINE T == {m \in Nat : m <= n => \E f \in [0..m -> S] : Recurs(f, first, step, m)}
<1>1. 0 \in T
  <2> DEFINE f == [k \in 0..0 |-> first]
  <2>1. f \in [0..0 -> S] /\ Recurs(f, first, step, 0)
    BY DEF Recurs
  <2> QED BY <2>1
<1>2. ASSUME NEW m \in Nat, m \in T
      PROVE  m + 1 \in T
  <2> SUFFICES ASSUME m + 1 <= n
               PROVE  \E g \in [0..(m + 1) -> S] : Recurs(g, first, step, m + 1)
    BY DEF T
  <2>1. PICK f \in [0..m -> S] : Recurs(f, first, step, m)
    BY <1>2 DEF T
  <2>2. PICK g : g = [k \in 0..(m + 1) |-> IF k = m + 1 THEN step[m + 1][f[m]] ELSE f[k]]
    OBVIOUS
  <2>3. /\ g[m + 1] = step[m + 1][f[m]] /\ g[m + 1] \in S
        /\ \A k \in 0..m : g[k] = f[k] /\ g[k] \in S
    <3>1. f[m] \in S /\ m + 1 \in 1..n
      BY <2>1
    <3> QED BY <2>1, <2>2, <3>1
  <2>4. g \in [0..(m + 1) -> S]
    BY <2>2, <2>3
  <2>5. ASSUME NEW k \in 1..(m + 1)
        PROVE  g[k] = step[k][g[k - 1]]
    <3>1. CASE k = m + 1
      <4>1. k - 1 = m /\ m \in 0..m
        BY <3>1
      <4> QED BY <2>3, <3>1, <4>1
    <3>2. CASE k # m + 1
      <4>1. k \in 1..m /\ k \in 0..m /\ k - 1 \in 0..m
        BY <3>2
      <4> QED BY <2>1, <2>3, <4>1 DEF Recurs
    <3> QED BY <3>1, <3>2
  <2>6. g[0] = first
    BY <2>1, <2>3 DEF Recurs
  <2> QED BY <2>4, <2>5, <2>6 DEF Recurs
<1> HIDE DEF T
<1>3. n \in T
  BY <1>1, <1>2, SetInduction
<1> QED BY <1>3 DEF T

-----------------------------------------------------------------------------
(* Numbers in order.                                                       *)

\* InOrder's: the members of S among the first k numbers.
IsUpTo(f, S, n) ==
  f = [k \in 0..n |-> IF k = 0 THEN <<>> ELSE IF k \in S THEN Append(f[k - 1], k) ELSE f[k - 1]]

LEMMA UpToExists ==
  ASSUME NEW S, NEW n \in Nat
  PROVE  \E f : IsUpTo(f, S, n)
<1>1. PICK step : step = [k \in 1..n |-> [s \in Seq(Nat) |-> IF k \in S THEN Append(s, k) ELSE s]]
  OBVIOUS
<1>2. \A k \in 1..n, s \in Seq(Nat) :
        step[k][s] = (IF k \in S THEN Append(s, k) ELSE s) /\ step[k][s] \in Seq(Nat)
  BY <1>1
<1>3. step \in [1..n -> [Seq(Nat) -> Seq(Nat)]] /\ <<>> \in Seq(Nat)
  BY <1>1, <1>2
<1>4. PICK f \in [0..n -> Seq(Nat)] : Recurs(f, <<>>, step, n)
  BY <1>3, RecursionExists
<1>5. \A k \in 0..n : f[k] = IF k = 0 THEN <<>> ELSE IF k \in S THEN Append(f[k - 1], k) ELSE f[k - 1]
  <2>1. f[0] = <<>> /\ \A k \in 0..n : k # 0 => k \in 1..n /\ k - 1 \in 0..n
    BY <1>4 DEF Recurs
  <2>2. \A k \in 1..n : k - 1 \in 0..n => f[k - 1] \in Seq(Nat) /\ f[k] = step[k][f[k - 1]]
    BY <1>4 DEF Recurs
  <2> QED BY <1>2, <2>1, <2>2
<1>6. f = [k \in 0..n |-> f[k]]
  BY <1>4
<1> QED BY <1>5, <1>6 DEF IsUpTo

\* s is the members of S up to k, in order.
Ordered(s, S, k) ==
  /\ s \in Seq(1..k)
  /\ \A i \in 1..Len(s) : s[i] \in S
  /\ \A j \in S \cap 1..k : \E i \in 1..Len(s) : s[i] = j
  /\ \A i, j \in 1..Len(s) : i < j => s[i] < s[j]

LEMMA OrderedNext ==
  ASSUME NEW S, NEW k \in Nat, NEW s, Ordered(s, S, k)
  PROVE  Ordered(IF k + 1 \in S THEN Append(s, k + 1) ELSE s, S, k + 1)
<1>1. /\ s \in Seq(1..(k + 1)) /\ Len(s) \in Nat /\ \A i \in 1..Len(s) : s[i] \in 1..k
  BY SeqMonotonic DEF Ordered
<1>2. CASE k + 1 \in S
  <2> DEFINE t == Append(s, k + 1)
  <2>1. /\ t \in Seq(1..(k + 1)) /\ Len(t) = Len(s) + 1 /\ t[Len(s) + 1] = k + 1
        /\ \A i \in 1..Len(s) : t[i] = s[i]
    BY <1>1
  <2> HIDE DEF t
  <2>2. ASSUME NEW i \in 1..Len(t)
        PROVE  t[i] \in S
    <3>1. CASE i = Len(s) + 1
      BY <1>2, <2>1, <3>1
    <3>2. CASE i # Len(s) + 1
      <4>1. i \in 1..Len(s)
        BY <1>1, <2>1, <3>2
      <4>2. t[i] = s[i] /\ s[i] \in S
        BY <2>1, <4>1 DEF Ordered
      <4> QED BY <4>2
    <3> QED BY <3>1, <3>2
  <2>3. ASSUME NEW j \in S \cap 1..(k + 1)
        PROVE  \E i \in 1..Len(t) : t[i] = j
    <3>1. CASE j = k + 1
      <4>1. Len(s) + 1 \in 1..Len(t) /\ t[Len(s) + 1] = j
        BY <1>1, <2>1, <3>1
      <4> QED BY <4>1
    <3>2. CASE j # k + 1
      <4>1. j \in S \cap 1..k
        BY <3>2
      <4>2. PICK i \in 1..Len(s) : s[i] = j
        BY <4>1 DEF Ordered
      <4> QED BY <1>1, <2>1, <4>2
    <3> QED BY <3>1, <3>2
  <2>4. ASSUME NEW i \in 1..Len(t), NEW j \in 1..Len(t), i < j
        PROVE  t[i] < t[j]
    <3>1. i \in 1..Len(s) /\ t[i] = s[i] /\ s[i] \in 1..k
      BY <1>1, <2>1, <2>4
    <3>2. CASE j = Len(s) + 1
      BY <2>1, <3>1, <3>2
    <3>3. CASE j # Len(s) + 1
      <4>1. j \in 1..Len(s) /\ t[j] = s[j]
        BY <1>1, <2>1, <3>3
      <4> QED BY <2>4, <3>1, <4>1 DEF Ordered
    <3> QED BY <3>2, <3>3
  <2>5. Ordered(t, S, k + 1)
    BY <2>1, <2>2, <2>3, <2>4 DEF Ordered
  <2> QED BY <1>2, <2>5 DEF t
<1>3. CASE k + 1 \notin S
  <2>1. S \cap 1..(k + 1) = S \cap 1..k
    BY <1>3
  <2>2. Ordered(s, S, k + 1)
    BY <1>1, <2>1 DEF Ordered
  <2> QED BY <1>3, <2>2
<1> QED BY <1>2, <1>3

LEMMA InOrderIs ==
  ASSUME NEW S, NEW n \in Nat
  PROVE  Ordered(InOrder(S, n), S, n)
<1> DEFINE F == CHOOSE f : IsUpTo(f, S, n)
<1>1. IsUpTo(F, S, n)
  BY UpToExists
<1>2. InOrder(S, n) = F[n]
  BY DEF InOrder, IsUpTo
<1> HIDE DEF F
<1>3. \A k \in 0..n : F[k] = IF k = 0 THEN <<>> ELSE IF k \in S THEN Append(F[k - 1], k) ELSE F[k - 1]
  BY <1>1 DEF IsUpTo
<1> DEFINE T == {k \in Nat : k <= n => Ordered(F[k], S, k)}
<1>4. 0 \in T
  <2>1. F[0] = <<>>
    BY <1>3
  <2>2. <<>> \in Seq(1..0) /\ Len(<<>>) = 0
    OBVIOUS
  <2>3. Ordered(<<>>, S, 0)
    BY <2>2 DEF Ordered
  <2> QED BY <2>1, <2>3
<1>5. ASSUME NEW k \in Nat, k \in T
      PROVE  k + 1 \in T
  <2> SUFFICES ASSUME k + 1 <= n PROVE Ordered(F[k + 1], S, k + 1)
    OBVIOUS
  <2>1. k <= n
    OBVIOUS
  <2>2. Ordered(F[k], S, k)
    BY <1>5, <2>1 DEF T
  <2>3. F[k + 1] = IF k + 1 \in S THEN Append(F[k], k + 1) ELSE F[k]
    BY <1>3
  <2> QED BY <2>2, <2>3, OrderedNext
<1> HIDE DEF T
<1>6. n \in T
  BY <1>4, <1>5, SetInduction
<1> QED BY <1>2, <1>6 DEF T

-----------------------------------------------------------------------------
(* The chain of replies.                                                   *)

LEMMA ChainBegins ==
  ASSUME NEW e \in Events, NEW readable
  PROVE  e \in ChainOf(e, readable)
BY DEF ChainOf

LEMMA ChainGoesOn ==
  ASSUME NEW e, NEW readable, NEW i \in ChainOf(e, readable) \cap readable,
         timeline[i].relation = "reply", timeline[i].to \in Events
  PROVE  timeline[i].to \in ChainOf(e, readable)
BY DEF ChainOf

LEMMA ChainIsWithin ==
  ASSUME NEW e, NEW readable, NEW S \in SUBSET Events, e \in S,
         \A i \in S \cap readable : timeline[i].relation = "reply" => timeline[i].to \in S
  PROVE  ChainOf(e, readable) \subseteq S
BY DEF ChainOf

\* What is posted later is in no chain there was, and what cannot be read any
\* more only makes a chain shorter.
LEMMA ChainsKeep ==
  ASSUME RoomInv, Grows, NEW e \in Events
  PROVE  /\ ChainOf(e, Events) \subseteq ChainOf(e, Events)'
         /\ ChainOf(e, Events \ Unreadable)' \subseteq ChainOf(e, Events \ Unreadable)
<1> DEFINE standing == Events \ Unreadable
<1>1. \A i \in Events : /\ i \in Events' /\ timeline'[i] = timeline[i]
                        /\ timeline[i].relation = "reply" => timeline[i].to \in Events
  <2>1. \A i \in Events : timeline[i].relation = "reply" => timeline[i].to \in 1..(i - 1) /\ i \in 1..Len(timeline)
    BY DEF RoomInv, Events
  <2>2. Len(timeline) \in Nat /\ Events = 1..Len(timeline)
    BY DEF RoomInv, Events
  <2> QED BY <2>1, <2>2 DEF Grows
<1>2. ASSUME NEW i \in ChainOf(e, Events), NEW S \in SUBSET Events', e \in S,
             \A j \in S \cap Events' : timeline'[j].relation = "reply" => timeline'[j].to \in S
      PROVE  i \in S
  <2>1. S \cap Events \in SUBSET Events /\ e \in S \cap Events
    BY <1>2
  <2>2. \A j \in (S \cap Events) \cap Events :
          timeline[j].relation = "reply" => timeline[j].to \in S \cap Events
    BY <1>1, <1>2
  <2>3. ChainOf(e, Events) \subseteq S \cap Events
    BY <2>1, <2>2, ChainIsWithin
  <2> QED BY <2>3
<1>3. ChainOf(e, Events) \subseteq Events
  BY DEF ChainOf
<1>4. ChainOf(e, Events) \subseteq ChainOf(e, Events)'
  BY <1>1, <1>2, <1>3 DEF ChainOf
<1>5. e \in ChainOf(e, standing) /\ ChainOf(e, standing) \subseteq Events'
  BY <1>1, ChainBegins DEF ChainOf
<1>6. \A i \in ChainOf(e, standing) \cap standing' :
        timeline'[i].relation = "reply" => timeline'[i].to \in ChainOf(e, standing)
  <2> TAKE i \in ChainOf(e, standing) \cap standing'
  <2>1. i \in Events
    BY DEF ChainOf
  <2>2. i \in standing
    BY <2>1 DEF Grows
  <2> QED BY <1>1, <2>1, <2>2, ChainGoesOn
<1>7. ChainOf(e, standing)' \subseteq ChainOf(e, standing)
  <2> DEFINE S == ChainOf(e, standing)
             R == standing'
  <2>1. S \in SUBSET Events' /\ e \in S /\ \A i \in S \cap R : timeline'[i].relation = "reply" => timeline'[i].to \in S
    BY <1>5, <1>6
  <2> HIDE DEF S, R
  <2>2. {i \in Events' : \A T \in SUBSET Events' :
           e \in T /\ (\A j \in T \cap R : timeline'[j].relation = "reply" => timeline'[j].to \in T) => i \in T} \subseteq S
    BY <2>1
  <2> QED BY <2>2 DEF ChainOf, S, R
<1> QED BY <1>4, <1>7

-----------------------------------------------------------------------------
(* A conversation.                                                         *)

LlmRecords == {LlmMessage(i) : i \in Events}

LEMMA LlmMessageIs ==
  ASSUME NEW i
  PROVE  /\ LlmMessage(i).of = <<i>> /\ LlmMessage(i).of[1] = i
         /\ LlmMessage(i).author = (IF timeline[i].kind = "answer" THEN "assistant" ELSE "user")
         /\ LlmMessage(i).sender = (IF timeline[i].kind = "transcript" THEN None ELSE timeline[i].sender)
         /\ LlmMessage(i).text = (timeline[i].kind # "image")
BY DEF LlmMessage

\* Messages of the room, in their order.
Proper(said) ==
  /\ said \in Seq(LlmRecords)
  /\ \A i, j \in 1..Len(said) : i < j => said[i].of[1] < said[j].of[1]

Asked(said) == {said[i].of[1] : i \in DOMAIN said}

\* Events as they were fetched, in their order.
Readings == [event : Events, view : Views]

InTurn(fetched) ==
  /\ fetched \in Seq(Readings)
  /\ \A i, j \in 1..Len(fetched) : i < j => fetched[i].event < fetched[j].event

Hears(fetched, users, i) ==
  /\ fetched[i].view = "clear"
  /\ timeline[fetched[i].event].kind \in Convertible
  /\ IsMessageFromAllowedSender(fetched[i].event, users)

LEMMA ConversationIs ==
  ASSUME NEW fetched, InTurn(fetched), NEW users
  PROVE  /\ Proper(Conversation(fetched, users))
         /\ Asked(Conversation(fetched, users))
              = {fetched[i].event : i \in {k \in 1..Len(fetched) : Hears(fetched, users, k)}}
<1> DEFINE n == Len(fetched)
           heard == {i \in DOMAIN fetched : Hears(fetched, users, i)}
           kept == InOrder(heard, n)
           said == [k \in DOMAIN kept |-> LlmMessage(fetched[kept[k]].event)]
<1>1. Conversation(fetched, users) = said
  BY DEF Conversation, Hears
<1>2. n \in Nat /\ DOMAIN fetched = 1..n /\ \A i \in 1..n : fetched[i].event \in Events
  <2>1. fetched \in Seq(Readings)
    BY DEF InTurn
  <2>2. \A i \in 1..Len(fetched) : fetched[i] \in Readings
    BY <2>1, ElementOfSeq
  <2> QED BY <2>1, <2>2 DEF Readings
<1>3. Ordered(kept, heard, n)
  BY <1>2, InOrderIs
<1> HIDE DEF kept
<1>4. DOMAIN kept = 1..Len(kept) /\ Len(kept) \in Nat /\ \A k \in 1..Len(kept) : kept[k] \in 1..n /\ kept[k] \in heard
  BY <1>3 DEF Ordered
<1>5. \A k \in 1..Len(kept) : said[k] = LlmMessage(fetched[kept[k]].event) /\ said[k].of[1] = fetched[kept[k]].event
  BY <1>4, LlmMessageIs
<1>6. said \in Seq(LlmRecords) /\ Len(said) = Len(kept) /\ DOMAIN said = 1..Len(kept)
  <2>1. \A k \in 1..Len(kept) : said[k] \in LlmRecords
    BY <1>2, <1>4, <1>5 DEF LlmRecords
  <2>2. DOMAIN said = 1..Len(kept) /\ said = [k \in 1..Len(kept) |-> said[k]]
    BY <1>4
  <2> HIDE DEF said
  <2> QED BY <1>4, <2>1, <2>2
<1> HIDE DEF said
<1>7. \A i, j \in 1..Len(said) : i < j => said[i].of[1] < said[j].of[1]
  <2> TAKE i, j \in 1..Len(said)
  <2> HAVE i < j
  <2>1. kept[i] < kept[j] /\ kept[i] \in 1..n /\ kept[j] \in 1..n
    BY <1>3, <1>4, <1>6 DEF Ordered
  <2> QED BY <1>5, <1>6, <2>1 DEF InTurn
<1>8. Proper(said)
  BY <1>6, <1>7 DEF Proper
<1>9. Asked(said) = {fetched[i].event : i \in heard}
  <2>1. ASSUME NEW x \in Asked(said)
        PROVE  x \in {fetched[i].event : i \in heard}
    BY <1>4, <1>5, <1>6 DEF Asked
  <2>2. ASSUME NEW i \in heard
        PROVE  fetched[i].event \in Asked(said)
    <3>1. i \in heard \cap 1..n
      BY <1>2
    <3>2. PICK k \in 1..Len(kept) : kept[k] = i
      BY <1>3, <3>1 DEF Ordered
    <3> QED BY <1>5, <1>6, <3>2 DEF Asked
  <2> QED BY <2>1, <2>2
<1>10. heard = {k \in 1..Len(fetched) : Hears(fetched, users, k)}
  BY <1>2
<1> QED BY <1>1, <1>8, <1>9, <1>10

-----------------------------------------------------------------------------
(* From the routing to the conversation.                                   *)

\* Where the handler is; and that a voice message has its transcript.
StageInv ==
  /\ handler.pc # "done" => handler.allowed \in {Users, People}
  /\ handler.pc = "chain" => handler.controller = "ReplyMention"
  /\ handler.pc = "thread" => handler.controller # "ReplyMention"
  /\ handler.pc \in {"context", "dispatch", "transcribe", "thread"} => handler.fetched = <<>>
  /\ handler.pc = "thread" /\ timeline[handler.event].kind = "audio" =>
       \E i \in ThreadOf(handler.event) : i > handler.event /\ timeline[i].kind = "transcript"

\* The end of the chain: each message is what the next one replies to, and one
\* that could not be read still cannot, or has lost its key for a time.
Chained(fetched) ==
  /\ InTurn(fetched) /\ fetched # <<>>
  /\ fetched[Len(fetched)].event = handler.event
  /\ \A k \in 1..Len(fetched) :
       /\ fetched[k].event \in ChainOf(handler.event, Events)
       /\ fetched[k].view # "clear" => fetched[k].event \in Unreadable
       /\ k > 1 => InReplyTo(fetched[k]) = fetched[k - 1].event

ChainInv ==
  handler.pc = "chain" /\ handler.fetched # <<>> =>
    Chained(handler.fetched) /\ InReplyTo(handler.fetched[1]) # None

\* ConversationIsWhole, of a conversation whose messages are in their order.
Heard(i) == handler.controller \in Involvements \/ timeline[i].sender \in handler.allowed \cup {Bot}

Standing == Events \ Unreadable

IsTranscript(i, e) == i > e /\ timeline[i].kind = "transcript"

Whole ==
  LET e == handler.event
      asked == Asked(handler.conversation)
  IN  /\ asked \subseteq {i \in ScopeOf(e, Events) : Heard(i)}
      /\ \A i \in ScopeOf(e, Standing) \cap Standing :
           i <= e /\ Heard(i) /\ timeline[i].kind \in Convertible => i \in asked
      /\ timeline[e].kind = "audio" /\ handler.controller # "ReplyMention" =>
           \E i \in ThreadOf(e) : IsTranscript(i, e) /\ (i \in asked \/ view[i] = "redacted")

GenerateInv == handler.pc = "generate" => Proper(handler.conversation) /\ Whole

TalkInv == StageInv /\ ChainInv /\ GenerateInv

\* Threads keep their messages, and what is posted later comes after.
LEMMA ThreadsKeep ==
  ASSUME RoomInv, RoomInv', Grows, NEW e \in Events
  PROVE  /\ ThreadOf(e) \subseteq ThreadOf(e)' /\ Root(e)' = Root(e)
         /\ \A i \in ThreadOf(e)' : i <= e => i \in ThreadOf(e)
         /\ \A i \in Events' : i <= e => i \in Events
         /\ ThreadOf(e) \subseteq Events
<1>1. /\ Events = 1..Len(timeline) /\ Len(timeline) \in Nat
      /\ Events' = 1..Len(timeline)' /\ Len(timeline)' \in Nat
  BY DEF RoomInv, Events
<1>2. \A i \in Events : i \in Events' /\ timeline'[i] = timeline[i]
  BY DEF Grows
<1>3. Root(e)' = Root(e) /\ Root(e) \in Events
  BY <1>2, MessageFields DEF Root
<1>4. \A i \in Events' : i <= e => i \in Events
  BY <1>1
<1>5. ThreadOf(e) \subseteq ThreadOf(e)'
  BY <1>2, <1>3 DEF ThreadOf
<1>6. \A i \in ThreadOf(e)' : i <= e => i \in ThreadOf(e)
  BY <1>2, <1>3, <1>4 DEF ThreadOf
<1>7. ThreadOf(e) \subseteq Events
  BY <1>3 DEF ThreadOf
<1> QED BY <1>3, <1>4, <1>5, <1>6, <1>7

LEMMA RecordsKeep ==
  ASSUME Grows
  PROVE  LlmRecords \subseteq LlmRecords' /\ Readings \subseteq Readings'
<1>1. \A i \in Events : i \in Events' /\ LlmMessage(i)' = LlmMessage(i)
  BY DEF Grows, LlmMessage
<1> QED BY <1>1 DEF LlmRecords, Readings, Grows

LEMMA ProperKeeps ==
  ASSUME Grows, NEW said, Proper(said)
  PROVE  Proper(said)'
BY RecordsKeep, SeqMonotonic DEF Proper

LEMMA ScopesKeep ==
  ASSUME RoomInv, RoomInv', Grows, NEW e \in Events, UNCHANGED handler
  PROVE  /\ ScopeOf(e, Events) \subseteq ScopeOf(e, Events)'
         /\ \A i \in ScopeOf(e, Standing)' : i <= e => i \in ScopeOf(e, Standing)
BY ChainsKeep, ThreadsKeep DEF ScopeOf, Standing

\* Nothing that happens in the room while the handler waits matters.
LEMMA TalkKept ==
  ASSUME Inv, Inv', TalkInv, Grows, UNCHANGED handler
  PROVE  TalkInv'
<1> DEFINE e == handler.event
<1>1. RoomInv /\ RoomInv' /\ \A i \in Events : i \in Events' /\ timeline'[i] = timeline[i]
  BY DEF Inv, Grows
<1>2. handler.pc # "done" => e \in Events
  BY DEF Inv, AnswerInv
<1>3. StageInv'
  <2>1. handler.pc = "thread" /\ timeline'[e].kind = "audio" =>
          \E i \in ThreadOf(e)' : i > e /\ timeline'[i].kind = "transcript"
    BY <1>1, <1>2, ThreadsKeep DEF TalkInv, StageInv
  <2> QED BY <2>1 DEF TalkInv, StageInv
<1>4. ChainInv'
  <2> SUFFICES ASSUME handler.pc = "chain", handler.fetched # <<>>
               PROVE  Chained(handler.fetched)' /\ InReplyTo(handler.fetched[1])' # None
    BY DEF ChainInv
  <2> DEFINE fetched == handler.fetched
  <2>1. Chained(fetched) /\ InReplyTo(fetched[1]) # None /\ e \in Events
    BY <1>2 DEF TalkInv, ChainInv
  <2>2. /\ fetched \in Seq(Readings) /\ Len(fetched) \in Nat
        /\ 1 \in 1..Len(fetched) /\ \A k \in 1..Len(fetched) : fetched[k].event \in Events
    <3>1. fetched \in Seq(Readings) /\ fetched # <<>>
      BY <2>1 DEF Chained, InTurn
    <3>2. \A k \in 1..Len(fetched) : fetched[k] \in Readings
      BY <3>1, ElementOfSeq
    <3> QED BY <3>1, <3>2 DEF Readings
  <2>3. InTurn(fetched)'
    BY <2>1, RecordsKeep, SeqMonotonic DEF Chained, InTurn
  <2>4. \A k \in 1..Len(fetched) : InReplyTo(fetched[k])' = InReplyTo(fetched[k])
    BY <1>1, <2>2 DEF InReplyTo
  <2>5. ChainOf(e, Events) \subseteq ChainOf(e, Events)' /\ Unreadable \subseteq Unreadable'
    BY <1>1, <2>1, ChainsKeep DEF Grows
  <2> QED BY <2>1, <2>2, <2>3, <2>4, <2>5 DEF Chained
<1>5. GenerateInv'
  <2> SUFFICES ASSUME handler.pc = "generate"
               PROVE  Proper(handler.conversation)' /\ Whole'
    BY DEF GenerateInv
  <2> DEFINE said == handler.conversation
  <2>1. Proper(said) /\ Whole /\ e \in Events
    BY <1>2 DEF TalkInv, GenerateInv
  <2>2. Proper(said)'
    BY <2>1, ProperKeeps
  <2>3. Asked(said)' = Asked(said) /\ ScopeOf(e, Events) \subseteq Events
    BY <1>1, <2>1, ThreadsKeep DEF Asked, ScopeOf, ChainOf
  <2>4. \A i \in Events : Heard(i)' <=> Heard(i)
    BY <1>1 DEF Heard
  <2>5. Asked(said)' \subseteq {i \in ScopeOf(e, Events) : Heard(i)}'
    <3>1. Asked(said) \subseteq {i \in ScopeOf(e, Events) : Heard(i)}
      BY <2>1 DEF Whole
    <3> QED BY <1>1, <2>1, <2>3, <2>4, <3>1, ScopesKeep
  <2>6. ASSUME NEW i \in ScopeOf(e, Standing)' \cap Standing', i <= e, Heard(i)', timeline'[i].kind \in Convertible
        PROVE  i \in Asked(said)'
    <3>1. i \in ScopeOf(e, Standing)
      BY <1>1, <2>1, <2>6, ScopesKeep
    <3>2. i \in Events
      BY <1>1, <2>1, <2>6, ThreadsKeep DEF Standing
    <3>3. i \in Standing /\ Heard(i) /\ timeline[i].kind \in Convertible
      BY <1>1, <2>4, <2>6, <3>2 DEF Standing, Grows
    <3> QED BY <2>1, <2>3, <2>6, <3>1, <3>3 DEF Whole
  <2>7. timeline'[e].kind = "audio" /\ handler.controller # "ReplyMention" =>
          \E i \in ThreadOf(e)' : IsTranscript(i, e)' /\ (i \in Asked(said)' \/ view'[i] = "redacted")
    <3> SUFFICES ASSUME timeline'[e].kind = "audio", handler.controller # "ReplyMention"
                 PROVE  \E i \in ThreadOf(e)' : IsTranscript(i, e)' /\ (i \in Asked(said)' \/ view'[i] = "redacted")
      OBVIOUS
    <3>1. PICK i \in ThreadOf(e) : IsTranscript(i, e) /\ (i \in Asked(said) \/ view[i] = "redacted")
      BY <1>1, <2>1 DEF Whole
    <3>2. i \in Events /\ i \in ThreadOf(e)'
      BY <1>1, <2>1, ThreadsKeep
    <3>3. IsTranscript(i, e)' /\ (view[i] = "redacted" => view'[i] = "redacted")
      BY <1>1, <3>1, <3>2 DEF IsTranscript, Grows
    <3> QED BY <2>3, <3>1, <3>2, <3>3
  <2>8. Whole'
    BY <2>5, <2>6, <2>7 DEF Whole
  <2> QED BY <2>2, <2>8
<1> QED BY <1>3, <1>4, <1>5 DEF TalkInv

HandlerFields ==
  DOMAIN handler = {"event", "pc", "allowed", "prefixRequired", "controller", "fetched", "conversation"}

LEMMA TalkEnded ==
  ASSUME NEW e, handler' = Done(e)
  PROVE  TalkInv'
BY DEF TalkInv, StageInv, ChainInv, GenerateInv, Done

LEMMA TalkReceives ==
  ASSUME NEW e \in Events, NEW allowed \in {Users, People}, NEW required, Receive(e, allowed, required)
  PROVE  TalkInv'
<1>1. CASE handler' = Done(e)
  BY <1>1, TalkEnded
<1>2. CASE handler' = [Done(e) EXCEPT !.pc = "context", !.allowed = allowed, !.prefixRequired = required]
  BY <1>2 DEF TalkInv, StageInv, ChainInv, GenerateInv, Done
<1> QED BY <1>1, <1>2 DEF Receive

LEMMA TalkRoutes ==
  ASSUME Inv, TalkInv, handler.pc = "context", NEW controller, Route(controller), Grows
  PROVE  TalkInv'
<1> DEFINE e == handler.event
           pc == IF controller \notin ChatCompletions THEN "dispatch"
                 ELSE IF timeline[e].kind = "audio" THEN "transcribe" ELSE Stage(controller)
<1>1. HandlerFields /\ e \in Events
  BY DEF Inv, AnswerInv, HandlerFields
<1>2. handler' = [handler EXCEPT !.controller = controller, !.pc = pc]
  BY DEF Route
<1>3. /\ pc \in {"dispatch", "transcribe", "chain", "thread"}
      /\ pc = "chain" => controller = "ReplyMention"
      /\ pc = "thread" => controller # "ReplyMention" /\ timeline[e].kind # "audio"
  BY DEF Stage
<1> HIDE DEF pc
<1>4. /\ handler'.pc = pc /\ handler'.controller = controller /\ handler'.event = e
      /\ handler'.allowed = handler.allowed /\ handler'.fetched = handler.fetched
  BY <1>1, <1>2 DEF HandlerFields
<1>5. timeline'[e] = timeline[e]
  BY <1>1 DEF Grows
<1>6. handler.allowed \in {Users, People} /\ handler.fetched = <<>>
  BY DEF TalkInv, StageInv
<1> QED BY <1>3, <1>4, <1>5, <1>6 DEF TalkInv, StageInv, ChainInv, GenerateInv

LEMMA TalkTranscribes ==
  ASSUME Inv, Inv', TalkInv, Transcribe
  PROVE  TalkInv'
<1> DEFINE e == handler.event
           root == Root(e)
           n == Len(timeline) + 1
<1>1. /\ handler.pc = "transcribe" /\ handler' = [handler EXCEPT !.pc = Stage(handler.controller)]
      /\ PostByBot("transcript", "thread", root)
  BY DEF Transcribe
<1>2. HandlerFields /\ e \in Events /\ RoomInv
  BY <1>1 DEF Inv, AnswerInv, HandlerFields
<1>3. root \in Events /\ Events = 1..Len(timeline) /\ Len(timeline) \in Nat
  BY <1>2, MessageFields
<1>4. timeline' = Append(timeline, [sender |-> Bot, kind |-> "transcript", mention |-> FALSE,
                                    keyLate |-> FALSE, relation |-> "thread", to |-> root])
  BY <1>1 DEF PostByBot, Post
<1>5. /\ n \in Events' /\ timeline'[n].kind = "transcript" /\ timeline'[n].relation = "thread"
      /\ timeline'[n].to = root /\ \A i \in Events : timeline'[i] = timeline[i]
  <2>1. timeline \in Seq(Messages)
    BY <1>2 DEF RoomInv
  <2> QED BY <1>3, <1>4, <2>1 DEF Events
<1>6. Root(e)' = root
  <2>1. handler'.event = e
    BY <1>1, <1>2 DEF HandlerFields
  <2>2. timeline'[e] = timeline[e]
    BY <1>2, <1>5
  <2> QED BY <2>1, <2>2 DEF Root
<1>7. /\ handler'.pc = Stage(handler.controller) /\ handler'.controller = handler.controller
      /\ handler'.event = e /\ handler'.allowed = handler.allowed /\ handler'.fetched = handler.fetched
  BY <1>1, <1>2 DEF HandlerFields
<1>8. \E i \in ThreadOf(e)' : i > e /\ timeline'[i].kind = "transcript"
  <2>1. n \in ThreadOf(e)'
    BY <1>5, <1>6, <1>7 DEF ThreadOf
  <2>2. n > e
    BY <1>2, <1>3
  <2> QED BY <1>5, <2>1, <2>2
<1>9. /\ handler.allowed \in {Users, People} /\ handler.fetched = <<>>
      /\ Stage(handler.controller) \in {"chain", "thread"}
      /\ Stage(handler.controller) = "chain" <=> handler.controller = "ReplyMention"
  BY <1>1 DEF TalkInv, StageInv, Stage
<1> QED BY <1>7, <1>8, <1>9 DEF TalkInv, StageInv, ChainInv, GenerateInv

\* The messages of fetched are those in scope, each as it could be read.
LEMMA TalkConverses ==
  ASSUME Inv, Inv', TalkInv, handler.pc \in {"chain", "thread"}, UNCHANGED room,
         NEW fetched, InTurn(fetched), Converse(fetched),
         \A k \in 1..Len(fetched) :
           /\ fetched[k].event \in ScopeOf(handler.event, Events)
           /\ fetched[k].view # "clear" => fetched[k].event \in Unreadable,
         \A i \in ScopeOf(handler.event, Standing) \cap Standing :
           i <= handler.event => \E k \in 1..Len(fetched) : fetched[k].event = i,
         timeline[handler.event].kind = "audio" /\ handler.controller # "ReplyMention" =>
           \E i \in ThreadOf(handler.event) :
             /\ IsTranscript(i, handler.event)
             /\ \/ view[i] = "redacted"
                \/ \E k \in 1..Len(fetched) : fetched[k].event = i /\ fetched[k].view = "clear"
  PROVE  TalkInv'
<1>1. HandlerFields /\ handler.event \in Events /\ handler.allowed \in {Users, People}
  BY DEF Inv, AnswerInv, HandlerFields, Routed, TalkInv, StageInv
<1>2. PICK e, users, said :
        /\ e = handler.event /\ users = AllowedUsers(handler)
        /\ said = Conversation(fetched, users)
  OBVIOUS
<1>3. /\ Proper(said)
      /\ Asked(said) = {fetched[i].event : i \in {k \in 1..Len(fetched) : Hears(fetched, users, k)}}
  BY <1>2, ConversationIs
<1>4. /\ handler'.pc = "generate" /\ handler'.conversation = said /\ handler'.controller = handler.controller
      /\ handler'.event = e /\ handler'.allowed = handler.allowed
  <2>1. handler' = [handler EXCEPT !.pc = "generate", !.fetched = <<>>, !.prefixRequired = FALSE,
                                   !.conversation = said]
    BY <1>2 DEF Converse
  <2> QED BY <1>1, <1>2, <2>1 DEF HandlerFields
<1>5. UNCHANGED <<timeline, view>> /\ Events' = Events /\ Unreadable' = Unreadable /\ Standing' = Standing
  BY DEF room, Events, Unreadable, Standing
<1>6. Grows /\ e \in Events
  BY <1>1, <1>2, <1>5 DEF Grows
<1>7. \A i : IsMessageFromAllowedSender(i, users) <=> Heard(i)
  BY <1>1, <1>2, NoneAssumption DEF IsMessageFromAllowedSender, Heard, AllowedUsers
<1>8. Proper(said)'
  BY <1>3, <1>6, ProperKeeps
<1>9. /\ Asked(said)' = Asked(said)
      /\ \A i : (Heard(i)' <=> Heard(i)) /\ (IsTranscript(i, e)' <=> IsTranscript(i, e))
      /\ ScopeOf(e, Events)' = ScopeOf(e, Events) /\ ScopeOf(e, Standing)' = ScopeOf(e, Standing)
      /\ ThreadOf(e)' = ThreadOf(e)
  <2>1. Asked(said)' = Asked(said)
    BY DEF Asked
  <2>2. \A i : (Heard(i)' <=> Heard(i)) /\ (IsTranscript(i, e)' <=> IsTranscript(i, e))
    BY <1>4, <1>5 DEF Heard, IsTranscript
  <2>3. ThreadOf(e)' = ThreadOf(e)
    BY <1>5 DEF ThreadOf, Root
  <2>4. ChainOf(e, Events)' = ChainOf(e, Events) /\ ChainOf(e, Standing)' = ChainOf(e, Standing)
    BY <1>5 DEF ChainOf
  <2> QED BY <1>4, <2>1, <2>2, <2>3, <2>4 DEF ScopeOf
<1>10. Asked(said) \subseteq {i \in ScopeOf(e, Events) : Heard(i)}
  BY <1>2, <1>3, <1>7 DEF Hears
<1>11. ASSUME NEW i \in ScopeOf(e, Standing) \cap Standing, i <= e, Heard(i), timeline[i].kind \in Convertible
       PROVE  i \in Asked(said)
  <2>1. PICK k \in 1..Len(fetched) : fetched[k].event = i
    BY <1>2, <1>11
  <2>2. fetched[k].view = "clear"
    BY <1>11, <2>1 DEF Standing
  <2>3. Hears(fetched, users, k)
    BY <1>7, <1>11, <2>1, <2>2 DEF Hears
  <2> QED BY <1>3, <2>1, <2>3
<1>12. ASSUME timeline[e].kind = "audio", handler.controller # "ReplyMention"
       PROVE  \E i \in ThreadOf(e) : IsTranscript(i, e) /\ (i \in Asked(said) \/ view[i] = "redacted")
  <2>1. PICK i \in ThreadOf(e) :
          /\ IsTranscript(i, e)
          /\ \/ view[i] = "redacted"
             \/ \E k \in 1..Len(fetched) : fetched[k].event = i /\ fetched[k].view = "clear"
    BY <1>2, <1>12
  <2>2. i \in Events /\ timeline[i].sender = Bot
    <3>1. ThreadOf(e) \subseteq Events /\ RoomInv
      BY <1>6, ThreadsKeep DEF Inv
    <3> QED BY <2>1, <3>1 DEF RoomInv, IsTranscript, BotKinds
  <2>3. ASSUME NEW k \in 1..Len(fetched), fetched[k].event = i, fetched[k].view = "clear"
        PROVE  i \in Asked(said)
    <3>1. Heard(i) /\ timeline[i].kind \in Convertible
      BY <2>1, <2>2 DEF Heard, Convertible, IsTranscript
    <3>2. Hears(fetched, users, k)
      BY <1>7, <2>3, <3>1 DEF Hears
    <3> QED BY <1>3, <2>3, <3>2
  <2> QED BY <2>1, <2>3
<1>13. Whole'
  <2>1. Asked(said)' \subseteq {i \in ScopeOf(e, Events)' : Heard(i)'}
    BY <1>9, <1>10
  <2>2. \A i \in ScopeOf(e, Standing)' \cap Standing' :
          i <= e /\ Heard(i)' /\ timeline'[i].kind \in Convertible => i \in Asked(said)'
    BY <1>5, <1>9, <1>11
  <2>3. timeline'[e].kind = "audio" /\ handler.controller # "ReplyMention" =>
          \E i \in ThreadOf(e)' : IsTranscript(i, e)' /\ (i \in Asked(said)' \/ view'[i] = "redacted")
    BY <1>5, <1>9, <1>12
  <2> QED BY <1>4, <1>5, <2>1, <2>2, <2>3 DEF Whole
<1>14. GenerateInv'
  BY <1>4, <1>8, <1>13 DEF GenerateInv
<1>15. StageInv' /\ ChainInv'
  BY <1>1, <1>4 DEF StageInv, ChainInv
<1> QED BY <1>14, <1>15 DEF TalkInv

\* A message that could be read neither now nor from the cache is unreadable.
LEMMA ReadingIs ==
  ASSUME ReadInv, NEW i \in Events, NEW v \in Views, v = view[i] \/ v = cache[i], v # "clear"
  PROVE  i \in Unreadable
BY DEF ReadInv, Unreadable, Views

LEMMA EventsAreNumbered ==
  ASSUME RoomInv
  PROVE  /\ Events = 1..Len(timeline) /\ Len(timeline) \in Nat
         /\ \A i \in Events : /\ i \in Nat
                             /\ timeline[i].relation # "none" =>
                                  timeline[i].to \in 1..(i - 1) /\ timeline[i].to \in Events
<1>1. Events = 1..Len(timeline) /\ Len(timeline) \in Nat
  BY DEF RoomInv, Events
<1>2. \A i \in Events : timeline[i].relation # "none" => timeline[i].to \in 1..(i - 1)
  BY DEF RoomInv
<1> QED BY <1>1, <1>2

LEMMA TalkInThread ==
  ASSUME Inv, Inv', TalkInv, CreateConversationForThread
  PROVE  TalkInv'
<1>1. /\ handler.pc = "thread" /\ UNCHANGED <<room, cache>> /\ handler.controller # "ReplyMention"
      /\ handler.event \in Events /\ RoomInv /\ ReadInv
  BY DEF CreateConversationForThread, Inv, AnswerInv, TalkInv, StageInv
<1>2. /\ Events = 1..Len(timeline) /\ Len(timeline) \in Nat /\ ThreadOf(handler.event) \subseteq Events
      /\ \A i \in Events : view[i] \in Views
  <2>1. Events = 1..Len(timeline) /\ Len(timeline) \in Nat /\ Root(handler.event) \in Events
    BY <1>1, MessageFields
  <2>2. \A i \in Events : view[i] \in Views
    BY <1>1, <2>1 DEF ReadInv
  <2> QED BY <2>1, <2>2 DEF ThreadOf
<1>3. PICK thread : thread = InOrder(ThreadOf(handler.event), Len(timeline))
  OBVIOUS
<1>4. Ordered(thread, ThreadOf(handler.event), Len(timeline))
  BY <1>2, <1>3, InOrderIs
<1>5. PICK fetched : fetched = [i \in DOMAIN thread |-> [event |-> thread[i], view |-> view[thread[i]]]]
  OBVIOUS
<1>6. Converse(fetched)
  BY <1>3, <1>5 DEF CreateConversationForThread, ThreadOf
<1>7. /\ DOMAIN thread = 1..Len(thread) /\ Len(thread) \in Nat
      /\ \A k \in 1..Len(thread) : thread[k] \in ThreadOf(handler.event) /\ thread[k] \in Events
  <2>1. thread \in Seq(1..Len(timeline))
    BY <1>4, Zenon DEF Ordered
  <2>2. \A k \in 1..Len(thread) : thread[k] \in ThreadOf(handler.event)
    BY <1>4, Zenon DEF Ordered
  <2>3. DOMAIN thread = 1..Len(thread) /\ Len(thread) \in Nat
    BY <2>1, LenProperties
  <2> QED BY <1>2, <2>2, <2>3
<1>8. /\ fetched \in Seq(Readings) /\ Len(fetched) = Len(thread)
      /\ \A k \in 1..Len(fetched) : fetched[k].event = thread[k] /\ fetched[k].view = view[thread[k]]
  <2>1. /\ DOMAIN fetched = 1..Len(thread)
        /\ \A k \in 1..Len(thread) : fetched[k] = [event |-> thread[k], view |-> view[thread[k]]]
    BY <1>5, <1>7
  <2>2. \A k \in 1..Len(thread) : fetched[k] \in Readings
    BY <1>2, <1>7, <2>1 DEF Readings
  <2>3. fetched = [k \in 1..Len(thread) |-> fetched[k]]
    BY <1>5, <1>7
  <2>4. fetched \in Seq(Readings)
    BY <1>7, <2>2, <2>3
  <2>5. Len(fetched) = Len(thread)
    BY <1>7, <2>1, <2>4, LenProperties
  <2> QED BY <2>1, <2>4, <2>5
<1>9. InTurn(fetched)
  <2>1. \A i, j \in 1..Len(fetched) : i < j => fetched[i].event < fetched[j].event
    BY <1>4, <1>8 DEF Ordered
  <2> QED BY <1>8, <2>1 DEF InTurn
<1>10. \A k \in 1..Len(fetched) :
         /\ fetched[k].event \in ScopeOf(handler.event, Events)
         /\ fetched[k].view # "clear" => fetched[k].event \in Unreadable
  BY <1>1, <1>2, <1>7, <1>8, ReadingIs DEF ScopeOf
<1>11. \A i \in ThreadOf(handler.event) : \E k \in 1..Len(fetched) : fetched[k].event = i
  BY <1>2, <1>4, <1>8 DEF Ordered
<1>12. ScopeOf(handler.event, Standing) = ThreadOf(handler.event)
  BY <1>1 DEF ScopeOf
<1>13. timeline[handler.event].kind = "audio" /\ handler.controller # "ReplyMention" =>
         \E i \in ThreadOf(handler.event) :
           /\ IsTranscript(i, handler.event)
           /\ \/ view[i] = "redacted"
              \/ \E k \in 1..Len(fetched) : fetched[k].event = i /\ fetched[k].view = "clear"
  <2> SUFFICES ASSUME timeline[handler.event].kind = "audio"
               PROVE  \E i \in ThreadOf(handler.event) :
                        /\ IsTranscript(i, handler.event)
                        /\ \/ view[i] = "redacted"
                           \/ \E k \in 1..Len(fetched) : fetched[k].event = i /\ fetched[k].view = "clear"
    OBVIOUS
  <2>1. PICK i \in ThreadOf(handler.event) : IsTranscript(i, handler.event)
    BY <1>1 DEF TalkInv, StageInv, IsTranscript
  <2>2. i \in Events /\ view[i] # "encrypted"
    BY <1>1, <1>2, <2>1 DEF RoomInv, ReadInv, IsTranscript, BotKinds
  <2>3. view[i] = "redacted" \/ view[i] = "clear"
    BY <1>2, <2>2 DEF Views
  <2>4. PICK k \in 1..Len(fetched) : fetched[k].event = i
    BY <1>11
  <2>5. fetched[k].view = view[i]
    BY <1>8, <2>4
  <2> QED BY <2>1, <2>3, <2>4, <2>5
<1> QED BY <1>1, <1>6, <1>9, <1>10, <1>11, <1>12, <1>13, TalkConverses

\* One more fetch makes the chain longer by what its first message replies to.
LEMMA ChainGrows ==
  ASSUME RoomInv, ReadInv, NEW fetched, NEW next, NEW v \in Views, handler.event \in Events,
         fetched # <<>> => Chained(fetched) /\ InReplyTo(fetched[1]) # None,
         fetched = <<>> \/ fetched \in Seq(Readings),
         next = IF fetched = <<>> THEN handler.event ELSE InReplyTo(fetched[1]),
         v = cache[next] \/ v = view[next]
  PROVE  LET chain == <<[event |-> next, view |-> v]>> \o fetched
         IN  Chained(chain) /\ Head(chain) = chain[1]
<1> DEFINE e == handler.event
           first == [event |-> next, view |-> v]
<1>1. fetched \in Seq(Readings) /\ Len(fetched) \in Nat
  <2>1. <<>> \in Seq(Readings)
    OBVIOUS
  <2>2. fetched \in Seq(Readings)
    BY <2>1
  <2> QED BY <2>2
<1>2. PICK chain : chain = <<first>> \o fetched
  OBVIOUS
<1>3. /\ Len(chain) = Len(fetched) + 1 /\ chain[1] = first /\ chain # <<>> /\ Head(chain) = chain[1]
      /\ \A k \in 1..Len(fetched) : chain[k + 1] = fetched[k]
  BY <1>1, <1>2
<1>4. /\ next \in ChainOf(e, Events) /\ next \in Events
      /\ fetched # <<>> => /\ next < fetched[1].event
                           /\ \A k \in 1..Len(fetched) : fetched[1].event <= fetched[k].event
  <2>1. CASE fetched = <<>>
    BY <2>1, ChainBegins
  <2>2. CASE fetched # <<>>
    <3>1. 1 \in 1..Len(fetched) /\ \A k \in 1..Len(fetched) : fetched[k] \in Readings
      BY <1>1, <2>2
    <3> DEFINE i == fetched[1].event
    <3>2. i \in ChainOf(e, Events) \cap Events /\ timeline[i].relation = "reply" /\ next = timeline[i].to
      BY <2>2, <3>1 DEF Chained, InReplyTo, Readings
    <3>3. next \in 1..(i - 1) /\ next \in Events /\ i \in Nat
      BY <3>2, EventsAreNumbered
    <3>4. next \in ChainOf(e, Events)
      BY <3>2, <3>3, ChainGoesOn
    <3>5. \A k \in 1..Len(fetched) : i <= fetched[k].event
      <4> TAKE k \in 1..Len(fetched)
      <4>1. CASE k = 1
        BY <3>3, <4>1
      <4>2. CASE k # 1
        <5>1. 1 < k /\ i < fetched[k].event
          BY <2>2, <3>1, <4>2 DEF Chained, InTurn
        <5>2. fetched[k].event \in Nat
          BY <3>1, EventsAreNumbered DEF Readings
        <5> QED BY <3>3, <5>1, <5>2
      <4> QED BY <4>1, <4>2
    <3> QED BY <3>3, <3>4, <3>5
  <2> QED BY <2>1, <2>2
<1>5. InTurn(chain)
  <2>1. first \in Readings
    BY <1>4 DEF Readings
  <2>2. chain \in Seq(Readings)
    BY <1>1, <1>2, <2>1
  <2>3. ASSUME NEW i \in 1..Len(chain), NEW j \in 1..Len(chain), i < j
        PROVE  chain[i].event < chain[j].event
    <3>1. fetched # <<>> /\ j - 1 \in 1..Len(fetched) /\ chain[j] = fetched[j - 1]
      BY <1>1, <1>3, <2>3
    <3>2. CASE i = 1
      <4>1. next < fetched[1].event /\ fetched[1].event <= fetched[j - 1].event
        BY <1>4, <3>1
      <4>2. fetched[1] \in Readings /\ fetched[j - 1] \in Readings
        BY <1>1, <3>1
      <4>3. next \in Nat /\ fetched[1].event \in Nat /\ fetched[j - 1].event \in Nat
        BY <1>4, <4>2, EventsAreNumbered DEF Readings
      <4> QED BY <1>3, <3>1, <3>2, <4>1, <4>3
    <3>3. CASE i # 1
      <4>1. i - 1 \in 1..Len(fetched) /\ chain[i] = fetched[i - 1] /\ i - 1 < j - 1
        BY <1>1, <1>3, <2>3, <3>3
      <4> QED BY <3>1, <4>1 DEF Chained, InTurn
    <3> QED BY <3>2, <3>3
  <2> QED BY <2>2, <2>3 DEF InTurn
<1>6. chain[Len(chain)].event = e
  <2>1. CASE fetched = <<>>
    BY <1>3, <2>1
  <2>2. CASE fetched # <<>>
    <3>1. Len(fetched) \in 1..Len(fetched) /\ fetched[Len(fetched)].event = e
      BY <1>1, <2>2 DEF Chained
    <3> QED BY <1>3, <3>1
  <2> QED BY <2>1, <2>2
<1>7. ASSUME NEW k \in 1..Len(chain)
      PROVE  /\ chain[k].event \in ChainOf(e, Events)
             /\ chain[k].view # "clear" => chain[k].event \in Unreadable
             /\ k > 1 => InReplyTo(chain[k]) = chain[k - 1].event
  <2>1. CASE k = 1
    BY <1>3, <1>4, <2>1, ReadingIs
  <2>2. CASE k # 1
    <3>1. k - 1 \in 1..Len(fetched) /\ chain[k] = fetched[k - 1] /\ fetched # <<>>
      BY <1>1, <1>3, <2>2
    <3>2. /\ chain[k].event \in ChainOf(e, Events)
          /\ chain[k].view # "clear" => chain[k].event \in Unreadable
      BY <3>1 DEF Chained
    <3>3. CASE k = 2
      BY <1>3, <3>1, <3>2, <3>3
    <3>4. CASE k # 2
      <4>1. k - 2 \in 1..Len(fetched) /\ k - 1 > 1 /\ (k - 1) - 1 = k - 2 /\ (k - 2) + 1 = k - 1
        BY <1>1, <1>3, <3>1, <3>4
      <4>2. chain[k - 1] = fetched[k - 2]
        BY <1>3, <4>1
      <4>3. InReplyTo(fetched[k - 1]) = fetched[(k - 1) - 1].event
        BY <3>1, <4>1 DEF Chained
      <4> QED BY <3>1, <3>2, <4>1, <4>2, <4>3
    <3> QED BY <3>3, <3>4
  <2> QED BY <2>1, <2>2
<1>8. Chained(chain)
  BY <1>3, <1>5, <1>6, <1>7 DEF Chained
<1> QED BY <1>2, <1>3, <1>8

\* A chain that ends has every message that could still be read.
LEMMA ChainIsWhole ==
  ASSUME RoomInv, NEW chain, Chained(chain), InReplyTo(chain[1]) = None, handler.event \in Events
  PROVE  \A i \in ChainOf(handler.event, Standing) : \E k \in 1..Len(chain) : chain[k].event = i
<1> DEFINE e == handler.event
<1> DEFINE S == {chain[k].event : k \in 1..Len(chain)}
<1>1. /\ chain \in Seq(Readings) /\ Len(chain) \in Nat /\ Len(chain) \in 1..Len(chain)
      /\ \A k \in 1..Len(chain) : chain[k].event \in Events
  <2>1. chain \in Seq(Readings) /\ chain # <<>>
    BY DEF Chained, InTurn
  <2>2. Len(chain) \in Nat /\ Len(chain) \in 1..Len(chain)
    BY <2>1
  <2>3. \A k \in 1..Len(chain) : chain[k] \in Readings
    BY <2>1, ElementOfSeq
  <2> QED BY <2>1, <2>2, <2>3 DEF Readings
<1>2. S \in SUBSET Events /\ e \in S
  BY <1>1 DEF Chained
<1>3. ASSUME NEW i \in S \cap Standing, timeline[i].relation = "reply"
      PROVE  timeline[i].to \in S
  <2>1. PICK k \in 1..Len(chain) : chain[k].event = i
    BY <1>3
  <2>2. chain[k].view = "clear"
    BY <1>3, <2>1 DEF Chained, Standing
  <2>3. InReplyTo(chain[k]) = timeline[i].to
    BY <1>3, <2>1, <2>2 DEF InReplyTo
  <2>4. timeline[i].to \in Nat
    BY <1>1, <1>3, <2>1, EventsAreNumbered
  <2>5. k # 1
    BY <2>3, <2>4, NoneAssumption
  <2>6. k > 1 /\ k - 1 \in 1..Len(chain)
    BY <1>1, <2>5
  <2> QED BY <2>3, <2>6 DEF Chained
<1> HIDE DEF S
<1>4. ChainOf(e, Standing) \subseteq S
  BY <1>2, <1>3, ChainIsWithin
<1> QED BY <1>4 DEF S

LEMMA TalkFetchesChain ==
  ASSUME Inv, Inv', TalkInv, FetchReplyChain
  PROVE  TalkInv'
<1> DEFINE fetched == handler.fetched
           next == IF fetched = <<>> THEN handler.event ELSE InReplyTo(Head(fetched))
<1>1. /\ handler.pc = "chain" /\ UNCHANGED room /\ handler.controller = "ReplyMention"
      /\ RoomInv /\ ReadInv /\ HandlerFields /\ handler.event \in Events
  BY DEF FetchReplyChain, Inv, AnswerInv, HandlerFields, TalkInv, StageInv
<1>2. /\ fetched # <<>> => Chained(fetched) /\ InReplyTo(fetched[1]) # None
      /\ fetched = <<>> \/ fetched \in Seq(Readings)
      /\ fetched # <<>> => Head(fetched) = fetched[1]
  <2>1. fetched # <<>> => Chained(fetched) /\ InReplyTo(fetched[1]) # None
    BY <1>1 DEF TalkInv, ChainInv
  <2>2. fetched = <<>> \/ fetched \in Seq(Readings)
    BY <2>1 DEF Chained, InTurn
  <2> QED BY <2>1, <2>2
<1>v. PICK v \in Views : \E chain :
        /\ chain = <<[event |-> next, view |-> v]>> \o fetched
        /\ FetchEvent(next, v)
        /\ IF InReplyTo(Head(chain)) = None THEN Converse(chain)
           ELSE handler' = [handler EXCEPT !.fetched = chain]
  BY DEF FetchReplyChain
<1>3. PICK chain :
        /\ chain = <<[event |-> next, view |-> v]>> \o fetched
        /\ FetchEvent(next, v)
        /\ IF InReplyTo(Head(chain)) = None THEN Converse(chain)
           ELSE handler' = [handler EXCEPT !.fetched = chain]
  BY <1>v
<1>4. Chained(chain) /\ Head(chain) = chain[1]
  <2>1. v = cache[next] \/ v = view[next]
    BY <1>3 DEF FetchEvent
  <2>2. next = IF fetched = <<>> THEN handler.event ELSE InReplyTo(fetched[1])
    BY <1>2
  <2> HIDE DEF next, fetched
  <2> QED BY <1>1, <1>2, <1>3, <2>1, <2>2, ChainGrows
<1>5. CASE InReplyTo(chain[1]) = None
  <2>1. Converse(chain) /\ InTurn(chain)
    BY <1>3, <1>4, <1>5 DEF Chained
  <2>2. \A k \in 1..Len(chain) :
          /\ chain[k].event \in ScopeOf(handler.event, Events)
          /\ chain[k].view # "clear" => chain[k].event \in Unreadable
    BY <1>1, <1>4 DEF Chained, ScopeOf
  <2>3. \A i \in ScopeOf(handler.event, Standing) : \E k \in 1..Len(chain) : chain[k].event = i
    BY <1>1, <1>4, <1>5, ChainIsWhole DEF ScopeOf
  <2> QED BY <1>1, <2>1, <2>2, <2>3, TalkConverses
<1>6. CASE InReplyTo(chain[1]) # None
  <2>1. handler' = [handler EXCEPT !.fetched = chain]
    BY <1>3, <1>4, <1>6
  <2>2. /\ handler'.pc = "chain" /\ handler'.controller = "ReplyMention" /\ handler'.fetched = chain
        /\ handler'.event = handler.event /\ handler'.allowed = handler.allowed
    BY <1>1, <2>1 DEF HandlerFields
  <2>3. UNCHANGED <<timeline, view>> /\ Events' = Events /\ Unreadable' = Unreadable
    BY <1>1 DEF room, Events, Unreadable
  <2>4. Chained(chain)'
    <3>1. InTurn(chain)'
      BY <1>4, <2>3 DEF Chained, InTurn, Readings
    <3>2. ChainOf(handler.event, Events)' = ChainOf(handler.event, Events)
      BY <2>2, <2>3 DEF ChainOf
    <3>3. \A k : InReplyTo(chain[k])' = InReplyTo(chain[k])
      BY <2>3 DEF InReplyTo
    <3> QED BY <1>4, <2>2, <2>3, <3>1, <3>2, <3>3 DEF Chained
  <2>5. InReplyTo(handler.fetched[1])' # None
    BY <1>6, <2>2, <2>3 DEF InReplyTo
  <2>6. ChainInv'
    BY <2>2, <2>4, <2>5 DEF ChainInv, Chained
  <2>7. StageInv'
    BY <1>1, <2>2 DEF TalkInv, StageInv
  <2>8. GenerateInv'
    BY <2>2 DEF GenerateInv
  <2> QED BY <2>6, <2>7, <2>8 DEF TalkInv
<1> QED BY <1>5, <1>6

LEMMA TalkStep == Inv /\ TalkInv /\ [Next]_vars => TalkInv'
<1> SUFFICES ASSUME Inv, TalkInv, [Next]_vars PROVE TalkInv'
  OBVIOUS
<1>0. Inv'
  BY StepInv
<1>1. ASSUME NEW place \in Places, NEW sender \in People, NEW keyLate \in BOOLEAN,
             NEW kind \in TopKinds \cup RelatedKinds, NEW mention \in BOOLEAN,
             PostByPerson(place, sender, kind, mention, keyLate)
      PROVE  TalkInv'
  <2>1. Grows /\ UNCHANGED handler
    BY <1>1, PersonPosts
  <2> QED BY <1>0, <2>1, TalkKept
<1>2. ASSUME NEW e \in Events, Redact(e) \/ KeyArrives(e)
      PROVE  TalkInv'
  BY <1>0, <1>2, Rereading, TalkKept DEF Inv
<1>3. ASSUME NEW e \in Events, NEW allowed \in {Users, People}, NEW required \in BOOLEAN,
             Receive(e, allowed, required)
      PROVE  TalkInv'
  BY <1>3, TalkReceives
<1>4. CASE Dispatch \/ GiveUp \/ Generate
  BY <1>4, TalkEnded DEF Dispatch, GiveUp, Generate
<1>5. CASE RouteUnthreaded
  <2>1. handler.pc = "context" /\ UNCHANGED <<room, cache>> /\ \E controller : Route(controller)
    BY <1>5 DEF RouteUnthreaded
  <2> QED BY <2>1, SameRoom, TalkRoutes
<1>6. CASE RouteThreaded
  <2>1. handler.pc = "context" /\ UNCHANGED room /\ \E controller : Route(controller)
    BY <1>6 DEF RouteThreaded
  <2>2. Grows
    BY <2>1 DEF Grows, Unreadable, room, Events
  <2> QED BY <2>1, <2>2, TalkRoutes
<1>7. CASE UNCHANGED vars
  <2>1. UNCHANGED <<room, cache>> /\ UNCHANGED handler
    BY <1>7 DEF vars, room
  <2> QED BY <1>0, <2>1, SameRoom, TalkKept
<1>8. HandlerStep => TalkInv'
  BY <1>0, <1>4, <1>5, <1>6, TalkTranscribes, TalkInThread, TalkFetchesChain DEF HandlerStep
<1>9. Next => TalkInv'
  BY <1>1, <1>2, <1>3, <1>8 DEF Next
<1> QED BY <1>7, <1>9

LEMMA TalkAlways == Spec => [](Inv /\ TalkInv)
<1>1. Init => TalkInv
  BY DEF Init, TalkInv, StageInv, ChainInv, GenerateInv, Done
<1> QED BY <1>1, InitInv, StepInv, TalkStep, PTL DEF Spec

\* What is put before the provider is of the thread or the chain of replies,
\* in its order and of allowed people, and has everything that was said there
\* and still stands, whatever is posted, redacted or decrypted late while it is
\* gathered (the conversation builders of src/conversation/matrix).
THEOREM ConversationsAreWhole == Spec => []ConversationIsWhole
<1>1. TalkInv => ConversationIsWhole
  <2> SUFFICES ASSUME TalkInv, handler.pc = "generate" PROVE ConversationIsWhole
    BY DEF ConversationIsWhole
  <2>1. Proper(handler.conversation) /\ Whole
    BY DEF TalkInv, GenerateInv
  <2> DEFINE said == handler.conversation
  <2>2. DOMAIN said = 1..Len(said)
    BY <2>1 DEF Proper
  <2>3. \A i, j \in DOMAIN said : i < j => said[i].of[1] < said[j].of[1]
    BY <2>1, <2>2 DEF Proper
  <2> QED BY <2>1, <2>3 DEF ConversationIsWhole, Whole, Heard, Standing, Asked, IsTranscript
<1> QED BY <1>1, TalkAlways, PTL

-----------------------------------------------------------------------------
(* Flattened sequences.                                                    *)

\* f joins the first k of ss.
Joins(f, ss, X) ==
  /\ f \in [0..Len(ss) -> Seq(X)] /\ f[0] = <<>>
  /\ \A k \in 1..Len(ss) : f[k] = f[k - 1] \o ss[k]

IsFlatten(f, ss) == f = [i \in 1..Len(ss) |-> IF i = 1 THEN ss[i] ELSE f[i - 1] \o ss[i]]

LEMMA JoinsExist ==
  ASSUME NEW X, NEW ss \in Seq(Seq(X))
  PROVE  \E f : Joins(f, ss, X)
<1>0. PICK n \in Nat : n = Len(ss)
  OBVIOUS
<1>1. PICK S, step : S = Seq(X) /\ step = [k \in 1..n |-> [s \in S |-> s \o ss[k]]]
  OBVIOUS
<1>2. <<>> \in S /\ \A k \in 1..n : ss[k] \in S
  BY <1>0, <1>1
<1>3. \A k \in 1..n, s \in S : step[k][s] = s \o ss[k] /\ s \o ss[k] \in S
  BY <1>1, <1>2
<1>4. step \in [1..n -> [S -> S]]
  BY <1>1, <1>3
<1>5. PICK f \in [0..n -> S] : f[0] = <<>> /\ \A k \in 1..n : f[k] = step[k][f[k - 1]]
  <2>1. PICK f \in [0..n -> S] : Recurs(f, <<>>, step, n)
    BY <1>2, <1>4, RecursionExists
  <2> QED BY <2>1 DEF Recurs
<1>6. \A k \in 1..n : f[k - 1] \in S
  <2>1. \A k \in 1..n : k - 1 \in 0..n
    BY <1>2
  <2> QED BY <1>5, <2>1, Zenon
<1>7. \A k \in 1..n : f[k] = f[k - 1] \o ss[k]
  BY <1>3, <1>5, <1>6
<1> QED BY <1>0, <1>1, <1>5, <1>7 DEF Joins

LEMMA FlattenIs ==
  ASSUME NEW X, NEW ss \in Seq(Seq(X))
  PROVE  \E f : Joins(f, ss, X) /\ FlattenSeq(ss) = f[Len(ss)]
<1>1. PICK g : Joins(g, ss, X)
  BY JoinsExist
<1>2. /\ Len(ss) \in Nat /\ \A k \in 1..Len(ss) : ss[k] \in Seq(X)
      /\ \A s \in Seq(X) : <<>> \o s = s
  BY ConcatEmptySeq
<1>3. CASE Len(ss) = 0
  <2>1. ss = <<>> /\ g[0] = <<>>
    BY <1>1, <1>3 DEF Joins
  <2> QED BY <1>1, <1>3, <2>1 DEF FlattenSeq
<1>4. CASE Len(ss) # 0
  <2> DEFINE F == CHOOSE f : IsFlatten(f, ss)
  <2>1. IsFlatten(F, ss)
    <3>1. PICK h : h = [i \in 1..Len(ss) |-> g[i]]
      OBVIOUS
    <3>2. ASSUME NEW i \in 1..Len(ss)
          PROVE  h[i] = IF i = 1 THEN ss[i] ELSE h[i - 1] \o ss[i]
      <4>1. h[i] = g[i] /\ g[i] = g[i - 1] \o ss[i]
        BY <1>1, <3>1 DEF Joins
      <4>2. CASE i = 1
        BY <1>1, <1>2, <4>1, <4>2 DEF Joins
      <4>3. CASE i # 1
        <5>1. i - 1 \in 1..Len(ss)
          BY <1>2, <4>3
        <5> QED BY <3>1, <4>1, <4>3, <5>1
      <4> QED BY <4>2, <4>3
    <3>3. IsFlatten(h, ss)
      BY <3>1, <3>2 DEF IsFlatten
    <3> QED BY <3>3
  <2>2. FlattenSeq(ss) = F[Len(ss)]
    BY <1>4 DEF FlattenSeq, IsFlatten
  <2> HIDE DEF F
  <2>3. \A i \in 1..Len(ss) : F[i] = IF i = 1 THEN ss[i] ELSE F[i - 1] \o ss[i]
    BY <2>1 DEF IsFlatten
  <2> DEFINE T == {k \in Nat : k \in 1..Len(ss) => F[k] = g[k]}
  <2>4. 0 \in T
    OBVIOUS
  <2>5. ASSUME NEW k \in Nat, k \in T
        PROVE  k + 1 \in T
    <3> SUFFICES ASSUME k + 1 \in 1..Len(ss) PROVE F[k + 1] = g[k + 1]
      BY DEF T
    <3>1. g[k + 1] = g[k] \o ss[k + 1]
      <4>1. (k + 1) - 1 = k
        OBVIOUS
      <4> QED BY <1>1, <4>1 DEF Joins
    <3>2. CASE k = 0
      BY <1>1, <1>2, <2>3, <3>1, <3>2 DEF Joins
    <3>3. CASE k # 0
      <4>1. k \in 1..Len(ss) /\ F[k] = g[k] /\ (k + 1) - 1 = k /\ k + 1 # 1
        BY <1>2, <2>5, <3>3 DEF T
      <4> QED BY <2>3, <3>1, <4>1
    <3> QED BY <3>2, <3>3
  <2> HIDE DEF T
  <2>6. Len(ss) \in T
    BY <1>2, <2>4, <2>5, SetInduction
  <2>7. F[Len(ss)] = g[Len(ss)]
    BY <1>2, <1>4, <2>6 DEF T
  <2> QED BY <1>1, <2>2, <2>7
<1> QED BY <1>3, <1>4

\* Sequences that begin alike are joined alike.
LEMMA JoinsAgree ==
  ASSUME NEW X, NEW ss \in Seq(Seq(X)), NEW tt \in Seq(Seq(X)), NEW f, NEW g,
         Joins(f, ss, X), Joins(g, tt, X), NEW n \in Nat, n <= Len(ss), n <= Len(tt),
         \A k \in 1..n : ss[k] = tt[k]
  PROVE  f[n] = g[n]
<1> DEFINE T == {k \in Nat : k <= n => f[k] = g[k]}
<1>1. 0 \in T
  BY DEF Joins
<1>2. ASSUME NEW k \in Nat, k \in T
      PROVE  k + 1 \in T
  <2> SUFFICES ASSUME k + 1 <= n PROVE f[k + 1] = g[k + 1]
    BY DEF T
  <2>1. k + 1 \in 1..n /\ k + 1 \in 1..Len(ss) /\ k + 1 \in 1..Len(tt) /\ (k + 1) - 1 = k /\ k <= n
    OBVIOUS
  <2>2. f[k] = g[k]
    BY <1>2, <2>1 DEF T
  <2> QED BY <2>1, <2>2 DEF Joins
<1> HIDE DEF T
<1>3. n \in T
  BY <1>1, <1>2, SetInduction
<1> QED BY <1>3 DEF T

LEMMA FlattenAppend ==
  ASSUME NEW X, NEW ss \in Seq(Seq(X)), NEW s \in Seq(X)
  PROVE  FlattenSeq(Append(ss, s)) = FlattenSeq(ss) \o s
<1>1. PICK tt : tt = Append(ss, s)
  OBVIOUS
<1>2. PICK n : n = Len(ss)
  OBVIOUS
<1>3. /\ tt \in Seq(Seq(X)) /\ Len(tt) = n + 1 /\ tt[n + 1] = s /\ n \in Nat
      /\ \A k \in 1..n : ss[k] = tt[k]
  BY <1>1, <1>2
<1>4. PICK f : Joins(f, ss, X) /\ FlattenSeq(ss) = f[n]
  BY <1>2, FlattenIs, Zenon
<1>5. PICK g : Joins(g, tt, X) /\ FlattenSeq(tt) = g[n + 1]
  BY <1>3, FlattenIs, Zenon
<1>6. f[n] = g[n]
  <2>1. n <= Len(ss) /\ n <= Len(tt)
    BY <1>2, <1>3
  <2> QED BY <1>3, <1>4, <1>5, <2>1, JoinsAgree
<1>7. g[n + 1] = g[n] \o s
  <2>1. n + 1 \in 1..Len(tt) /\ (n + 1) - 1 = n
    BY <1>3
  <2>2. \A k \in 1..Len(tt) : g[k] = g[k - 1] \o tt[k]
    BY <1>5 DEF Joins
  <2> QED BY <1>3, <2>1, <2>2
<1> QED BY <1>1, <1>4, <1>5, <1>6, <1>7, Zenon

LEMMA JoinedTwice ==
  ASSUME NEW X, NEW u \in Seq(X), NEW t \in Seq(X), NEW s \in Seq(X),
         NEW ut, ut = u \o t, NEW ts, ts = t \o s
  PROVE  ut \o s = u \o ts
<1>1. ut \in Seq(X) /\ ts \in Seq(X) /\ ut \o s \in Seq(X) /\ u \o ts \in Seq(X)
  OBVIOUS
<1>2. Len(ut \o s) = Len(u \o ts)
  BY <1>1, ConcatProperties
<1>3. \A i \in 1..Len(ut \o s) : (ut \o s)[i] = (u \o ts)[i]
  BY <1>1, ConcatProperties
<1> QED BY <1>1, <1>2, <1>3, SeqEqual

LEMMA FlattenLonger ==
  ASSUME NEW X, NEW ss \in Seq(Seq(X)), ss # <<>>, NEW s \in Seq(X)
  PROVE  FlattenSeq([ss EXCEPT ![Len(ss)] = ss[Len(ss)] \o s]) = FlattenSeq(ss) \o s
<1>1. PICK n : n = Len(ss)
  OBVIOUS
<1>2. /\ n \in Nat /\ n \in 1..n /\ n - 1 \in Nat /\ n - 1 <= n
      /\ DOMAIN ss = 1..n /\ \A k \in 1..n : ss[k] \in Seq(X)
  BY <1>1
<1>3. PICK tt : tt = [ss EXCEPT ![n] = ss[n] \o s]
  OBVIOUS
<1>4. /\ tt \in Seq(Seq(X)) /\ Len(tt) = n /\ tt[n] = ss[n] \o s
      /\ \A k \in 1..(n - 1) : ss[k] = tt[k]
  BY <1>1, <1>2, <1>3
<1>5. PICK f : Joins(f, ss, X) /\ FlattenSeq(ss) = f[n]
  BY <1>1, FlattenIs, Zenon
<1>6. PICK g : Joins(g, tt, X) /\ FlattenSeq(tt) = g[n]
  BY <1>4, FlattenIs, Zenon
<1>7. f[n - 1] = g[n - 1]
  <2>1. PICK p \in Nat : p = n - 1
    BY <1>2
  <2>2. p <= Len(ss) /\ p <= Len(tt) /\ \A k \in 1..p : ss[k] = tt[k]
    BY <1>1, <1>2, <1>4, <2>1
  <2>3. f[p] = g[p]
    BY <1>4, <1>5, <1>6, <2>2, JoinsAgree
  <2> QED BY <2>1, <2>3
<1>8. f[n] = f[n - 1] \o ss[n] /\ g[n] = g[n - 1] \o tt[n] /\ f[n - 1] \in Seq(X)
  <2>1. /\ f \in [0..n -> Seq(X)]
        /\ \A k \in 1..n : f[k] = f[k - 1] \o ss[k] /\ g[k] = g[k - 1] \o tt[k]
    BY <1>1, <1>4, <1>5, <1>6 DEF Joins
  <2>2. n - 1 \in 0..n
    BY <1>2
  <2> QED BY <1>2, <2>1, <2>2, Zenon
<1>9. g[n] = f[n] \o s
  <2>1. ss[n] \in Seq(X)
    BY <1>2
  <2>2. PICK u \in Seq(X), t \in Seq(X) : u = f[n - 1] /\ t = ss[n]
    BY <1>8, <2>1
  <2>n. PICK ut, ts : ut = f[n] /\ ts = tt[n]
    OBVIOUS
  <2>3. ut = u \o t /\ ts = t \o s /\ g[n] = u \o ts
    BY <1>4, <1>7, <1>8, <2>2, <2>n
  <2>4. ut \o s = u \o ts
    BY <2>3, JoinedTwice, SMTT(30)
  <2> QED BY <2>2, <2>n, <2>3, <2>4
<1> QED BY <1>1, <1>3, <1>5, <1>6, <1>9

-----------------------------------------------------------------------------
(* Combining consecutive texts.                                            *)

Turns == [author : {"user", "assistant"}, sender : {timeline[i].sender : i \in Events} \cup {None},
          of : Seq(Events), text : BOOLEAN]

LEMMA MessagesAreTurns ==
  ASSUME NEW m \in LlmRecords
  PROVE  m \in Turns /\ m.of[1] \in Events /\ m.of = <<m.of[1]>>
<1>1. PICK i \in Events : m = LlmMessage(i)
  BY DEF LlmRecords
<1>2. m = [author |-> IF timeline[i].kind = "answer" THEN "assistant" ELSE "user",
           sender |-> IF timeline[i].kind = "transcript" THEN None ELSE timeline[i].sender,
           of |-> <<i>>, text |-> timeline[i].kind # "image"]
  BY <1>1 DEF LlmMessage
<1>3. <<i>> \in Seq(Events) /\ <<i>>[1] = i
  OBVIOUS
<1> QED BY <1>2, <1>3 DEF Turns

\* turns are the first k messages of said: all of them, in order, each as what
\* its author said, and no two texts of one author left apart.
Combined(turns, said, k) ==
  /\ turns \in Seq(Turns)
  /\ FlattenSeq([i \in DOMAIN turns |-> turns[i].of]) = [i \in 1..k |-> said[i].of[1]]
  /\ \A i \in 1..Len(turns) : \A x \in Range(turns[i].of) : \E j \in 1..k :
       /\ said[j].of[1] = x /\ said[j].author = turns[i].author
       /\ turns[i].sender \in {said[j].sender, None}
  /\ \A i \in 2..Len(turns) :
       turns[i].author = turns[i - 1].author => ~turns[i].text \/ ~turns[i - 1].text

LEMMA OneMore ==
  ASSUME NEW k \in Nat, NEW a, \A i \in 1..(k + 1) : a[i] \in Events
  PROVE  [i \in 1..k |-> a[i]] \o <<a[k + 1]>> = [i \in 1..(k + 1) |-> a[i]]
<1>1. PICK s : s = [i \in 1..k |-> a[i]]
  OBVIOUS
<1>2. s \in Seq(Events) /\ Len(s) = k /\ <<a[k + 1]>> \in Seq(Events) /\ Len(<<a[k + 1]>>) = 1
  BY <1>1
<1>3. PICK t : t = s \o <<a[k + 1]>>
  OBVIOUS
<1>4. t \in Seq(Events) /\ Len(t) = k + 1 /\ DOMAIN t = 1..(k + 1) /\ t = [i \in 1..(k + 1) |-> t[i]]
  BY <1>2, <1>3
<1>5. \A i \in 1..(k + 1) : t[i] = a[i]
  BY <1>1, <1>2, <1>3
<1> QED BY <1>1, <1>3, <1>4, <1>5

LEMMA CombineStep ==
  ASSUME NEW said, said \in Seq(LlmRecords), NEW k \in Nat, k + 1 \in 1..Len(said),
         NEW turns, Combined(turns, said, k)
  PROVE  Combined(Combine(turns, said[k + 1]), said, k + 1)
<1>1. PICK m, x, n : m = said[k + 1] /\ x = m.of[1] /\ n = Len(turns)
  OBVIOUS
<1>2. /\ m \in Turns /\ m.of = <<x>> /\ x \in Events /\ turns \in Seq(Turns) /\ n \in Nat
      /\ DOMAIN turns = 1..n /\ \A i \in 1..n : turns[i] \in Turns
  <2>1. m \in LlmRecords /\ turns \in Seq(Turns)
    BY <1>1 DEF Combined
  <2> QED BY <1>1, <2>1, MessagesAreTurns
<1>3. PICK ofs : ofs = [i \in DOMAIN turns |-> turns[i].of]
  OBVIOUS
<1>4. ofs \in Seq(Seq(Events)) /\ Len(ofs) = n /\ DOMAIN ofs = 1..n
  <2>1. \A i \in 1..n : ofs[i] \in Seq(Events)
    BY <1>2, <1>3 DEF Turns
  <2>2. DOMAIN ofs = 1..n /\ ofs = [i \in 1..n |-> ofs[i]]
    BY <1>2, <1>3
  <2>3. PICK X : X = Seq(Events)
    OBVIOUS
  <2>4. ofs \in Seq(X) /\ Len(ofs) = n
    <3>1. ofs \in [1..n -> X]
      BY <2>1, <2>2, <2>3
    <3> QED BY <1>2, <3>1
  <2> QED BY <2>2, <2>3, <2>4
<1>5. FlattenSeq(ofs) \o <<x>> = [i \in 1..(k + 1) |-> said[i].of[1]]
  <2>1. PICK a : a = [i \in 1..(k + 1) |-> said[i].of[1]]
    OBVIOUS
  <2>2. \A i \in 1..(k + 1) : a[i] \in Events /\ a[i] = said[i].of[1]
    <3>1. \A i \in 1..(k + 1) : said[i] \in LlmRecords
      OBVIOUS
    <3> QED BY <2>1, <3>1, MessagesAreTurns
  <2>3. [i \in 1..k |-> a[i]] \o <<a[k + 1]>> = [i \in 1..(k + 1) |-> a[i]]
    BY <2>2, OneMore
  <2>4. FlattenSeq(ofs) = [i \in 1..k |-> a[i]]
    <3>1. \A i \in 1..k : a[i] = said[i].of[1]
      BY <2>2
    <3> QED BY <1>3, <3>1 DEF Combined
  <2>5. a[k + 1] = x /\ a = [i \in 1..(k + 1) |-> a[i]]
    BY <1>1, <2>1
  <2> QED BY <2>1, <2>3, <2>4, <2>5
<1>6. CASE turns # <<>> /\ turns[n].text /\ m.text /\ turns[n].author = m.author
  <2>1. PICK sender : sender = IF turns[n].sender = m.sender THEN turns[n].sender ELSE None
    OBVIOUS
  <2>2. PICK last : last = [turns[n] EXCEPT !.of = turns[n].of \o m.of, !.sender = sender]
    OBVIOUS
  <2>3. PICK longer : longer = [turns EXCEPT ![n] = last]
    OBVIOUS
  <2>4. Combine(turns, m) = longer
    BY <1>1, <1>6, <2>1, <2>2, <2>3 DEF Combine
  <2>5. n \in 1..n /\ turns[n] \in Turns /\ turns[n].of \in Seq(Events)
    BY <1>2, <1>6 DEF Turns
  <2>6. /\ last \in Turns /\ last.of = turns[n].of \o <<x>> /\ last.sender = sender
        /\ last.author = turns[n].author /\ last.text = turns[n].text
    <3>1. turns[n].of \o <<x>> \in Seq(Events)
      BY <1>2, <2>5
    <3>2. sender \in {timeline[i].sender : i \in Events} \cup {None}
      BY <2>1, <2>5 DEF Turns
    <3>3. last = [author |-> turns[n].author, sender |-> sender, of |-> turns[n].of \o <<x>>,
                  text |-> turns[n].text]
      BY <1>2, <2>2, <2>5 DEF Turns
    <3> QED BY <2>5, <3>1, <3>2, <3>3 DEF Turns
  <2>7. /\ longer \in Seq(Turns) /\ Len(longer) = n /\ DOMAIN longer = 1..n /\ longer[n] = last
        /\ \A i \in 1..n : i # n => longer[i] = turns[i]
    BY <1>2, <2>3, <2>5, <2>6
  <2>8. FlattenSeq([i \in DOMAIN longer |-> longer[i].of]) = [i \in 1..(k + 1) |-> said[i].of[1]]
    <3>1. [i \in DOMAIN longer |-> longer[i].of] = [ofs EXCEPT ![Len(ofs)] = ofs[Len(ofs)] \o <<x>>]
      BY <1>2, <1>3, <1>4, <2>5, <2>6, <2>7
    <3>2. ofs # <<>> /\ <<x>> \in Seq(Events)
      BY <1>2, <1>4, <2>5
    <3>3. FlattenSeq([ofs EXCEPT ![Len(ofs)] = ofs[Len(ofs)] \o <<x>>]) = FlattenSeq(ofs) \o <<x>>
      BY <1>4, <3>2, FlattenLonger, Zenon
    <3> QED BY <1>5, <3>1, <3>3, Zenon
  <2>9. ASSUME NEW i \in 1..Len(longer), NEW y \in Range(longer[i].of)
        PROVE  \E j \in 1..(k + 1) : /\ said[j].of[1] = y /\ said[j].author = longer[i].author
                                     /\ longer[i].sender \in {said[j].sender, None}
    <3>1. CASE i # n
      <4>1. i \in 1..Len(turns) /\ longer[i] = turns[i]
        BY <1>1, <2>7, <3>1
      <4>2. y \in Range(turns[i].of)
        BY <2>9, <4>1
      <4>3. PICK j \in 1..k : /\ said[j].of[1] = y /\ said[j].author = turns[i].author
                              /\ turns[i].sender \in {said[j].sender, None}
        BY <4>1, <4>2, Zenon DEF Combined
      <4> QED BY <4>1, <4>3
    <3>2. CASE i = n /\ y \in Range(turns[n].of)
      <4>1. PICK j \in 1..k : /\ said[j].of[1] = y /\ said[j].author = turns[n].author
                              /\ turns[n].sender \in {said[j].sender, None}
        <5>1. n \in 1..Len(turns) /\ y \in Range(turns[n].of)
          BY <1>1, <2>5, <3>2
        <5> QED BY <5>1 DEF Combined
      <4>2. sender \in {said[j].sender, None}
        BY <2>1, <4>1
      <4> QED BY <2>6, <2>7, <3>2, <4>1, <4>2
    <3>3. CASE i = n /\ y \notin Range(turns[n].of)
      <4>1. y = x
        <5>1. PICK p \in 1..Len(last.of) : last.of[p] = y
          <6>1. DOMAIN last.of = 1..Len(last.of)
            BY <2>6 DEF Turns
          <6>2. y \in Range(last.of)
            BY <2>7, <2>9, <3>3
          <6> QED BY <6>1, <6>2 DEF Range
        <5>2. PICK of, l : of = turns[n].of /\ l = Len(of)
          OBVIOUS
        <5>3. /\ of \in Seq(Events) /\ l \in Nat /\ <<x>> \in Seq(Events) /\ last.of = of \o <<x>>
              /\ Len(last.of) = l + 1 /\ last.of[l + 1] = x /\ \A q \in 1..l : last.of[q] = of[q]
          BY <1>2, <2>5, <2>6, <5>2
        <5>4. p \notin 1..l
          BY <3>3, <5>1, <5>2, <5>3 DEF Range
        <5> QED BY <5>1, <5>3, <5>4
      <4>2. k + 1 \in 1..(k + 1) /\ m.author = last.author /\ last.sender \in {m.sender, None}
        BY <1>6, <2>1, <2>6
      <4> QED BY <1>1, <2>7, <3>3, <4>1, <4>2
    <3> QED BY <3>1, <3>2, <3>3
  <2>10. ASSUME NEW i \in 2..Len(longer), longer[i].author = longer[i - 1].author
         PROVE  ~longer[i].text \/ ~longer[i - 1].text
    <3>1. i \in 2..Len(turns) /\ i \in 1..n /\ i - 1 \in 1..n
      BY <1>1, <1>2, <2>7
    <3>2. \A q \in 1..n : longer[q].author = turns[q].author /\ longer[q].text = turns[q].text
      BY <2>6, <2>7
    <3> QED BY <2>10, <3>1, <3>2 DEF Combined
  <2>11. Combined(longer, said, k + 1)
    BY <2>7, <2>8, <2>9, <2>10 DEF Combined
  <2> QED BY <1>1, <2>4, <2>11
<1>7. CASE ~(turns # <<>> /\ turns[n].text /\ m.text /\ turns[n].author = m.author)
  <2>1. PICK longer : longer = Append(turns, m)
    OBVIOUS
  <2>2. Combine(turns, m) = longer
    BY <1>1, <1>7, <2>1 DEF Combine
  <2>3. /\ longer \in Seq(Turns) /\ Len(longer) = n + 1 /\ DOMAIN longer = 1..(n + 1)
        /\ longer[n + 1] = m /\ \A i \in 1..n : longer[i] = turns[i]
    BY <1>1, <1>2, <2>1
  <2>4. FlattenSeq([i \in DOMAIN longer |-> longer[i].of]) = [i \in 1..(k + 1) |-> said[i].of[1]]
    <3>1. [i \in DOMAIN longer |-> longer[i].of] = Append(ofs, <<x>>)
      <4>1. PICK more : more = Append(ofs, <<x>>)
        OBVIOUS
      <4>2. /\ more \in Seq(Seq(Events)) /\ Len(more) = n + 1 /\ more[n + 1] = <<x>>
            /\ \A i \in 1..n : more[i] = ofs[i]
        BY <1>2, <1>4, <4>1
      <4>3. \A i \in 1..(n + 1) : longer[i].of = more[i]
        <5>1. \A i \in 1..n : ofs[i] = turns[i].of
          BY <1>2, <1>3
        <5>2. longer[n + 1].of = more[n + 1]
          BY <1>2, <2>3, <4>2
        <5>3. \A i \in 1..n : longer[i].of = more[i]
          BY <2>3, <4>2, <5>1
        <5> QED BY <1>2, <5>2, <5>3
      <4>4. more = [i \in 1..(n + 1) |-> more[i]]
        BY <4>2
      <4> QED BY <2>3, <4>1, <4>3, <4>4
    <3>2. <<x>> \in Seq(Events)
      BY <1>2
    <3> QED BY <1>4, <1>5, <3>1, <3>2, FlattenAppend
  <2>5. ASSUME NEW i \in 1..Len(longer), NEW y \in Range(longer[i].of)
        PROVE  \E j \in 1..(k + 1) : /\ said[j].of[1] = y /\ said[j].author = longer[i].author
                                     /\ longer[i].sender \in {said[j].sender, None}
    <3>1. CASE i # n + 1
      <4>1. i \in 1..Len(turns) /\ longer[i] = turns[i]
        BY <1>1, <1>2, <2>3, <3>1
      <4>2. y \in Range(turns[i].of)
        BY <2>5, <4>1
      <4>3. PICK j \in 1..k : /\ said[j].of[1] = y /\ said[j].author = turns[i].author
                              /\ turns[i].sender \in {said[j].sender, None}
        BY <4>1, <4>2, Zenon DEF Combined
      <4> QED BY <4>1, <4>3
    <3>2. CASE i = n + 1
      <4>1. y = x /\ longer[i] = m
        BY <1>2, <2>3, <2>5, <3>2 DEF Range
      <4> QED BY <1>1, <4>1
    <3> QED BY <3>1, <3>2
  <2>6. ASSUME NEW i \in 2..Len(longer), longer[i].author = longer[i - 1].author
        PROVE  ~longer[i].text \/ ~longer[i - 1].text
    <3>1. CASE i = n + 1
      <4>1. i - 1 = n /\ n \in 1..n /\ turns # <<>>
        BY <1>1, <1>2, <3>1
      <4> QED BY <1>7, <2>3, <2>6, <3>1, <4>1
    <3>2. CASE i # n + 1
      <4>1. i \in 2..Len(turns) /\ i \in 1..n /\ i - 1 \in 1..n
        BY <1>1, <1>2, <2>3, <3>2
      <4> QED BY <2>3, <2>6, <4>1 DEF Combined
    <3> QED BY <3>1, <3>2
  <2>7. Combined(longer, said, k + 1)
    BY <2>3, <2>4, <2>5, <2>6 DEF Combined
  <2> QED BY <1>1, <2>2, <2>7
<1> QED BY <1>6, <1>7

LEMMA CombineTyped ==
  ASSUME NEW turns \in Seq(Turns), NEW m \in Turns
  PROVE  Combine(turns, m) \in Seq(Turns)
<1>1. PICK n : n = Len(turns)
  OBVIOUS
<1>2. CASE turns # <<>> /\ turns[n].text /\ m.text /\ turns[n].author = m.author
  <2>1. PICK sender : sender = IF turns[n].sender = m.sender THEN turns[n].sender ELSE None
    OBVIOUS
  <2>2. PICK last : last = [turns[n] EXCEPT !.of = turns[n].of \o m.of, !.sender = sender]
    OBVIOUS
  <2>3. Combine(turns, m) = [turns EXCEPT ![n] = last]
    BY <1>1, <1>2, <2>1, <2>2 DEF Combine
  <2>4. n \in 1..n /\ n \in Nat /\ turns[n] \in Turns
    BY <1>1, <1>2
  <2>5. last = [author |-> turns[n].author, sender |-> sender, of |-> turns[n].of \o m.of, text |-> turns[n].text]
    BY <2>2, <2>4 DEF Turns
  <2>6. turns[n].of \o m.of \in Seq(Events)
    BY <2>4 DEF Turns
  <2>7. sender \in {timeline[i].sender : i \in Events} \cup {None}
    BY <2>1, <2>4 DEF Turns
  <2>8. last \in Turns
    BY <2>4, <2>5, <2>6, <2>7 DEF Turns
  <2> QED BY <1>1, <2>3, <2>4, <2>8
<1>3. CASE ~(turns # <<>> /\ turns[n].text /\ m.text /\ turns[n].author = m.author)
  BY <1>1, <1>3 DEF Combine
<1> QED BY <1>2, <1>3

IsCombined(f, messages) ==
  f = [k \in 0..Len(messages) |-> IF k = 0 THEN <<>> ELSE Combine(f[k - 1], messages[k])]

LEMMA CombinedExists ==
  ASSUME NEW messages \in Seq(Turns)
  PROVE  \E f : IsCombined(f, messages)
<1>1. PICK n \in Nat : n = Len(messages)
  OBVIOUS
<1>2. PICK S, step : S = Seq(Turns) /\ step = [k \in 1..n |-> [s \in S |-> Combine(s, messages[k])]]
  OBVIOUS
<1>3. \A k \in 1..n, s \in S : step[k][s] = Combine(s, messages[k]) /\ step[k][s] \in S
  <2>1. \A k \in 1..n : messages[k] \in Turns
    BY <1>1
  <2>2. \A k \in 1..n, s \in S : Combine(s, messages[k]) \in S
    BY <1>2, <2>1, CombineTyped
  <2> QED BY <1>2, <2>2
<1>4. step \in [1..n -> [S -> S]] /\ <<>> \in S
  BY <1>2, <1>3
<1>5. PICK f \in [0..n -> S] : Recurs(f, <<>>, step, n)
  BY <1>4, RecursionExists
<1>6. \A k \in 1..n : f[k] = Combine(f[k - 1], messages[k])
  <2>1. \A k \in 1..n : k - 1 \in 0..n
    OBVIOUS
  <2>2. \A k \in 1..n : f[k - 1] \in S /\ f[k] = step[k][f[k - 1]]
    BY <1>5, <2>1 DEF Recurs
  <2> QED BY <1>3, <2>2
<1>7. \A k \in 0..n : f[k] = IF k = 0 THEN <<>> ELSE Combine(f[k - 1], messages[k])
  <2>1. f[0] = <<>> /\ \A k \in 0..n : k # 0 => k \in 1..n
    BY <1>5 DEF Recurs
  <2> QED BY <1>6, <2>1
<1>8. IsCombined(f, messages)
  <2>1. f = [k \in 0..n |-> f[k]]
    BY <1>5
  <2> QED BY <1>1, <1>7, <2>1 DEF IsCombined
<1> QED BY <1>8

LEMMA CombinedIs ==
  ASSUME NEW said, said \in Seq(LlmRecords)
  PROVE  Combined(CombineConsecutiveMessages(said), said, Len(said))
<1> DEFINE F == CHOOSE f : IsCombined(f, said)
           n == Len(said)
<1>1. said \in Seq(Turns) /\ n \in Nat
  <2>1. LlmRecords \subseteq Turns
    BY MessagesAreTurns
  <2> QED BY <2>1, SeqMonotonic
<1>2. IsCombined(F, said)
  BY <1>1, CombinedExists
<1>3. CombineConsecutiveMessages(said) = F[n]
  BY DEF CombineConsecutiveMessages, IsCombined
<1> HIDE DEF F
<1>4. F[0] = <<>> /\ \A k \in Nat : k + 1 \in 1..n => F[k + 1] = Combine(F[k], said[k + 1])
  <2>1. \A k \in 0..n : F[k] = IF k = 0 THEN <<>> ELSE Combine(F[k - 1], said[k])
    BY <1>2 DEF IsCombined
  <2>2. 0 \in 0..n /\ \A k \in Nat : k + 1 \in 1..n => k + 1 \in 0..n /\ k + 1 # 0 /\ (k + 1) - 1 = k
    BY <1>1
  <2> QED BY <2>1, <2>2
<1> DEFINE T == {k \in Nat : k <= n => Combined(F[k], said, k)}
<1>5. 0 \in T
  <2>1. <<>> \in Seq(Turns) /\ DOMAIN <<>> = {} /\ Len(<<>>) = 0 /\ 1..0 = {} /\ 2..0 = {}
    OBVIOUS
  <2>2. [i \in DOMAIN <<>> |-> <<>>[i].of] = <<>> /\ [i \in 1..0 |-> said[i].of[1]] = <<>>
    BY <2>1
  <2>3. FlattenSeq(<<>>) = <<>>
    BY <2>1 DEF FlattenSeq
  <2>4. Combined(<<>>, said, 0)
    BY <2>1, <2>2, <2>3 DEF Combined
  <2> QED BY <1>4, <2>4 DEF T
<1>6. ASSUME NEW k \in Nat, k \in T
      PROVE  k + 1 \in T
  <2> SUFFICES ASSUME k + 1 <= n PROVE Combined(F[k + 1], said, k + 1)
    BY DEF T
  <2>1. k + 1 \in 1..n /\ k <= n
    BY <1>1
  <2>2. Combined(F[k], said, k)
    BY <1>6, <2>1 DEF T
  <2> QED BY <1>4, <2>1, <2>2, CombineStep
<1> HIDE DEF T
<1>7. n \in T
  BY <1>1, <1>5, <1>6, SetInduction
<1> QED BY <1>1, <1>3, <1>7 DEF T

-----------------------------------------------------------------------------
(* Keeping the most recent turns.                                          *)

LEMMA TokenSizeIs ==
  ASSUME NEW m \in Turns
  PROVE  TokenSize(m) \in Nat
<1>1. DOMAIN m.of = 1..Len(m.of) /\ Len(m.of) \in Nat
  BY DEF Turns
<1>2. IsFiniteSet(DOMAIN m.of)
  BY <1>1, FS_Interval
<1>3. Cardinality({i \in DOMAIN m.of : timeline[m.of[i]].kind = "answer"}) \in Nat
  BY <1>2, FS_Subset, FS_CardinalityType
<1> QED BY <1>1, <1>3 DEF TokenSize

\* size has the sizes of the last messages.
Sizes(size, messages) ==
  /\ size \in [0..Len(messages) -> Nat]
  /\ \A k \in 1..Len(messages) :
       size[k] = size[k - 1] + TokenSize(messages[Len(messages) + 1 - k])
  /\ size[0] = 0

IsSize(f, messages) ==
  f = [j \in 0..Len(messages) |->
         IF j = 0 THEN 0 ELSE f[j - 1] + TokenSize(messages[Len(messages) + 1 - j])]

LEMMA SizesExist ==
  ASSUME NEW messages \in Seq(Turns)
  PROVE  \E f : IsSize(f, messages)
<1>1. PICK n \in Nat : n = Len(messages)
  OBVIOUS
<1>2. PICK step : step = [k \in 1..n |-> [s \in Nat |-> s + TokenSize(messages[n + 1 - k])]]
  OBVIOUS
<1>3. \A k \in 1..n, s \in Nat : step[k][s] = s + TokenSize(messages[n + 1 - k]) /\ step[k][s] \in Nat
  <2>1. \A k \in 1..n : messages[n + 1 - k] \in Turns
    BY <1>1
  <2>2. \A k \in 1..n : TokenSize(messages[n + 1 - k]) \in Nat
    BY <2>1, TokenSizeIs
  <2> QED BY <1>2, <2>2
<1>4. step \in [1..n -> [Nat -> Nat]] /\ 0 \in Nat
  BY <1>2, <1>3
<1>5. PICK f \in [0..n -> Nat] : Recurs(f, 0, step, n)
  BY <1>4, RecursionExists
<1>6. \A k \in 1..n : f[k] = f[k - 1] + TokenSize(messages[n + 1 - k])
  <2>1. \A k \in 1..n : k - 1 \in 0..n
    OBVIOUS
  <2>2. \A k \in 1..n : f[k - 1] \in Nat /\ f[k] = step[k][f[k - 1]]
    BY <1>5, <2>1 DEF Recurs
  <2> QED BY <1>3, <2>2
<1>7. \A k \in 0..n : f[k] = IF k = 0 THEN 0 ELSE f[k - 1] + TokenSize(messages[n + 1 - k])
  <2>1. f[0] = 0 /\ \A k \in 0..n : k # 0 => k \in 1..n
    BY <1>5 DEF Recurs
  <2> QED BY <1>6, <2>1
<1>8. IsSize(f, messages)
  <2>1. f = [k \in 0..n |-> f[k]]
    BY <1>5
  <2> QED BY <1>1, <1>7, <2>1 DEF IsSize
<1> QED BY <1>8

LEMMA SizesAre ==
  ASSUME NEW messages \in Seq(Turns)
  PROVE  \E size : Sizes(size, messages) /\ \A k : SizeOfLast(messages, k) = size[k]
<1> DEFINE F == CHOOSE f : IsSize(f, messages)
<1>0. PICK n \in Nat : n = Len(messages)
  OBVIOUS
<1>1. IsSize(F, messages)
  BY SizesExist
<1>2. \A k : SizeOfLast(messages, k) = F[k]
  BY DEF SizeOfLast, IsSize
<1> HIDE DEF F
<1>3. \A k \in 0..n : F[k] = IF k = 0 THEN 0 ELSE F[k - 1] + TokenSize(messages[n + 1 - k])
  BY <1>0, <1>1 DEF IsSize
<1>4. F[0] = 0 /\ \A k \in 1..n : F[k] = F[k - 1] + TokenSize(messages[n + 1 - k])
  <2>1. 0 \in 0..n /\ \A k \in 1..n : k \in 0..n /\ k # 0
    OBVIOUS
  <2> QED BY <1>3, <2>1
<1> DEFINE T == {k \in Nat : k <= n => F[k] \in Nat}
<1>5. 0 \in T
  BY <1>4
<1>6. ASSUME NEW k \in Nat, k \in T
      PROVE  k + 1 \in T
  <2> SUFFICES ASSUME k + 1 <= n PROVE F[k + 1] \in Nat
    BY DEF T
  <2>1. k + 1 \in 1..n /\ k <= n /\ (k + 1) - 1 = k /\ n + 1 - (k + 1) \in 1..n
    OBVIOUS
  <2>2. F[k] \in Nat
    BY <1>6, <2>1 DEF T
  <2>3. messages[n + 1 - (k + 1)] \in Turns
    BY <1>0, <2>1
  <2>4. TokenSize(messages[n + 1 - (k + 1)]) \in Nat
    BY <2>3, TokenSizeIs
  <2>5. F[k + 1] = F[(k + 1) - 1] + TokenSize(messages[n + 1 - (k + 1)])
    BY <1>4, <2>1
  <2> QED BY <2>1, <2>2, <2>4, <2>5
<1> HIDE DEF T
<1>7. \A k \in Nat : k \in T
  BY <1>5, <1>6, SetInduction
<1>8. F \in [0..n -> Nat]
  <2>1. \A k \in 0..n : F[k] \in Nat
    BY <1>7 DEF T
  <2>2. DOMAIN F = 0..n /\ F = [k \in 0..n |-> F[k]]
    BY <1>0, <1>1 DEF IsSize
  <2> QED BY <2>1, <2>2
<1>9. Sizes(F, messages)
  BY <1>0, <1>4, <1>8 DEF Sizes
<1> QED BY <1>2, <1>9

LEMMA SizesGrow ==
  ASSUME NEW messages \in Seq(Turns), NEW size, Sizes(size, messages),
         NEW i \in 0..Len(messages), NEW j \in 0..Len(messages), i <= j
  PROVE  size[i] <= size[j]
<1>1. PICK n \in Nat : n = Len(messages)
  OBVIOUS
<1> DEFINE T == {k \in Nat : i <= k /\ k <= n => size[i] <= size[k]}
<1>2. size \in [0..n -> Nat]
  BY <1>1 DEF Sizes
<1>3. 0 \in T
  BY <1>1, <1>2
<1>4. ASSUME NEW k \in Nat, k \in T
      PROVE  k + 1 \in T
  <2> SUFFICES ASSUME i <= k + 1, k + 1 <= n PROVE size[i] <= size[k + 1]
    BY DEF T
  <2>1. CASE i = k + 1
    BY <1>1, <1>2, <2>1
  <2>2. CASE i # k + 1
    <3>1. k + 1 \in 1..n /\ (k + 1) - 1 = k /\ k \in 0..n /\ n + 1 - (k + 1) \in 1..n /\ i <= k
      BY <1>1, <2>2
    <3>2. size[i] <= size[k]
      BY <1>4, <3>1 DEF T
    <3>3. messages[n + 1 - (k + 1)] \in Turns
      BY <1>1, <3>1
    <3>4. size[k + 1] = size[k] + TokenSize(messages[n + 1 - (k + 1)])
      <4>1. \A q \in 1..n : size[q] = size[q - 1] + TokenSize(messages[n + 1 - q])
        BY <1>1 DEF Sizes
      <4> QED BY <3>1, <4>1
    <3>5. TokenSize(messages[n + 1 - (k + 1)]) \in Nat /\ size[k] \in Nat /\ size[i] \in Nat
      BY <1>1, <1>2, <3>1, <3>3, TokenSizeIs
    <3> QED BY <3>2, <3>4, <3>5
  <2> QED BY <2>1, <2>2
<1> HIDE DEF T
<1>5. j \in T
  BY <1>1, <1>3, <1>4, SetInduction
<1> QED BY <1>1, <1>5 DEF T

Keeps == [full : BOOLEAN, length : Nat, kept : Seq(Turns)]

\* After the last k messages: the j last of them are kept, which fit, and one
\* more would not, if there was one.
KeptLast(acc, messages, size, reserved, max, k) ==
  LET n == Len(messages)
  IN  /\ acc \in Keeps
      /\ \E j \in 0..k :
           /\ acc.kept = SubSeq(messages, n + 1 - j, n) /\ acc.length = reserved + size[j]
           /\ j # 0 => reserved + size[j] <= max
           /\ IF acc.full THEN j < k /\ reserved + size[j + 1] > max ELSE j = k

LEMMA KeepStep ==
  ASSUME NEW messages \in Seq(Turns), NEW size, Sizes(size, messages), NEW reserved \in Nat, NEW max \in Nat,
         NEW k \in Nat, k + 1 \in 1..Len(messages),
         NEW acc, KeptLast(acc, messages, size, reserved, max, k)
  PROVE  KeptLast(Keep(acc, messages[Len(messages) + 1 - (k + 1)], max),
                  messages, size, reserved, max, k + 1)
<1>1. PICK n \in Nat : n = Len(messages)
  OBVIOUS
<1>2. PICK m : m = messages[n + 1 - (k + 1)]
  OBVIOUS
<1>3. acc \in [full : BOOLEAN, length : Nat, kept : Seq(Turns)]
  BY DEF KeptLast, Keeps
<1>4. PICK j \in 0..k :
        /\ acc.kept = SubSeq(messages, n + 1 - j, n) /\ acc.length = reserved + size[j]
        /\ j # 0 => reserved + size[j] <= max
        /\ IF acc.full THEN j < k /\ reserved + size[j + 1] > max ELSE j = k
  BY <1>1 DEF KeptLast
<1>5. /\ m \in Turns /\ TokenSize(m) \in Nat /\ k + 1 \in 1..n
      /\ size[k + 1] = size[k] + TokenSize(m) /\ size[k] \in Nat /\ size[j] \in Nat
  <2>1. n + 1 - (k + 1) \in 1..n /\ (k + 1) - 1 = k /\ k \in 0..n /\ j \in 0..n
    BY <1>1
  <2>2. m \in Turns
    BY <1>1, <1>2, <2>1
  <2>3. \A q \in 1..n : size[q] = size[q - 1] + TokenSize(messages[n + 1 - q])
    BY <1>1 DEF Sizes
  <2>4. size \in [0..n -> Nat]
    BY <1>1 DEF Sizes
  <2> QED BY <1>1, <1>2, <2>1, <2>2, <2>3, <2>4, TokenSizeIs
<1>6. CASE acc.full
  <2>1. Keep(acc, m, max) = acc
    BY <1>3, <1>6 DEF Keep
  <2>2. j \in 0..(k + 1) /\ j < k + 1
    BY <1>4, <1>6
  <2> QED BY <1>1, <1>2, <1>3, <1>4, <1>6, <2>1, <2>2 DEF KeptLast, Keeps
<1>7. CASE ~acc.full /\ acc.length + TokenSize(m) > max
  <2>1. PICK full : full = [acc EXCEPT !.full = TRUE]
    OBVIOUS
  <2>2. Keep(acc, m, max) = full
    BY <1>7, <2>1 DEF Keep
  <2>3. full \in Keeps /\ full.full /\ full.length = acc.length /\ full.kept = acc.kept
    BY <1>3, <2>1 DEF Keeps
  <2>4. j = k /\ reserved + size[k + 1] > max /\ k \in 0..(k + 1) /\ k < k + 1
    BY <1>4, <1>5, <1>7
  <2>5. KeptLast(full, messages, size, reserved, max, k + 1)
    BY <1>1, <1>4, <2>3, <2>4 DEF KeptLast
  <2> QED BY <1>1, <1>2, <2>2, <2>5
<1>8. CASE ~acc.full /\ ~(acc.length + TokenSize(m) > max)
  <2>1. PICK more : more = [acc EXCEPT !.length = acc.length + TokenSize(m), !.kept = <<m>> \o acc.kept]
    OBVIOUS
  <2>2. Keep(acc, m, max) = more
    BY <1>8, <2>1 DEF Keep
  <2>3. j = k /\ acc.length \in Nat /\ acc.length = reserved + size[k]
    BY <1>3, <1>4, <1>8
  <2>4. /\ more.length = acc.length + TokenSize(m) /\ more.kept = <<m>> \o acc.kept /\ ~more.full
        /\ more \in Keeps
    <3>1. <<m>> \o acc.kept \in Seq(Turns)
      BY <1>3, <1>5
    <3>2. acc.length + TokenSize(m) \in Nat
      BY <1>5, <2>3
    <3>3. more.length = acc.length + TokenSize(m) /\ more.kept = <<m>> \o acc.kept /\ ~more.full
      BY <1>3, <1>8, <2>1
    <3>4. more \in Keeps
      BY <1>3, <2>1, <3>1, <3>2 DEF Keeps
    <3> QED BY <3>3, <3>4
  <2>5. more.length = reserved + size[k + 1] /\ reserved + size[k + 1] <= max
    BY <1>5, <1>8, <2>3, <2>4
  <2>6. more.kept = SubSeq(messages, n + 1 - (k + 1), n)
    <3>1. PICK p \in 1..n : p = n + 1 - (k + 1)
      BY <1>5
    <3>2. p + 1 = n + 1 - k /\ n \in p..n
      BY <1>5, <3>1
    <3>3. SubSeq(messages, p, n) = <<messages[p]>> \o SubSeq(messages, p + 1, n)
      BY <1>1, <3>2, SubSeqRecursiveFirst
    <3>4. acc.kept = SubSeq(messages, p + 1, n)
      BY <1>4, <2>3, <3>2
    <3> QED BY <1>2, <2>4, <3>1, <3>3, <3>4
  <2>7. k + 1 \in 0..(k + 1)
    OBVIOUS
  <2> QED BY <1>1, <1>2, <2>2, <2>4, <2>5, <2>6, <2>7 DEF KeptLast, Keeps
<1> QED BY <1>6, <1>7, <1>8

LEMMA KeepTyped ==
  ASSUME NEW acc \in Keeps, NEW m \in Turns, NEW max
  PROVE  Keep(acc, m, max) \in Keeps
<1>1. TokenSize(m) \in Nat
  BY TokenSizeIs
<1>2. [acc EXCEPT !.full = TRUE] \in Keeps
  BY DEF Keeps
<1>3. PICK length, kept : length = acc.length + TokenSize(m) /\ kept = <<m>> \o acc.kept
  OBVIOUS
<1>4. length \in Nat /\ kept \in Seq(Turns)
  BY <1>1, <1>3 DEF Keeps
<1>5. [acc EXCEPT !.length = length, !.kept = kept] \in Keeps
  BY <1>4 DEF Keeps
<1>6. Keep(acc, m, max) \in {[acc EXCEPT !.full = TRUE], [acc EXCEPT !.length = length, !.kept = kept]}
  BY <1>3 DEF Keep
<1> QED BY <1>2, <1>5, <1>6

IsKept(f, messages, reserved, max) ==
  f = [k \in 0..Len(messages) |->
         IF k = 0 THEN [full |-> FALSE, length |-> reserved, kept |-> <<>>]
         ELSE Keep(f[k - 1], messages[Len(messages) + 1 - k], max)]

LEMMA KeptExists ==
  ASSUME NEW messages \in Seq(Turns), NEW reserved \in Nat, NEW max
  PROVE  \E f : IsKept(f, messages, reserved, max)
<1>1. PICK n \in Nat : n = Len(messages)
  OBVIOUS
<1>2. PICK first : first = [full |-> FALSE, length |-> reserved, kept |-> <<>>]
  OBVIOUS
<1>3. PICK step : step = [k \in 1..n |-> [s \in Keeps |-> Keep(s, messages[n + 1 - k], max)]]
  OBVIOUS
<1>4. \A k \in 1..n, s \in Keeps : step[k][s] = Keep(s, messages[n + 1 - k], max) /\ step[k][s] \in Keeps
  <2>1. \A k \in 1..n : messages[n + 1 - k] \in Turns
    BY <1>1
  <2>2. \A k \in 1..n, s \in Keeps : Keep(s, messages[n + 1 - k], max) \in Keeps
    BY <2>1, KeepTyped
  <2> QED BY <1>3, <2>2
<1>5. step \in [1..n -> [Keeps -> Keeps]]
  BY <1>3, <1>4
<1>6. first \in Keeps
  BY <1>2 DEF Keeps
<1>7. PICK f \in [0..n -> Keeps] : Recurs(f, first, step, n)
  BY <1>5, <1>6, RecursionExists
<1>8. \A k \in 1..n : f[k] = Keep(f[k - 1], messages[n + 1 - k], max)
  <2>1. \A k \in 1..n : k - 1 \in 0..n
    OBVIOUS
  <2>2. \A k \in 1..n : f[k - 1] \in Keeps /\ f[k] = step[k][f[k - 1]]
    BY <1>7, <2>1 DEF Recurs
  <2> QED BY <1>4, <2>2
<1>9. \A k \in 0..n : f[k] = IF k = 0 THEN first ELSE Keep(f[k - 1], messages[n + 1 - k], max)
  <2>1. f[0] = first /\ \A k \in 0..n : k # 0 => k \in 1..n
    BY <1>7 DEF Recurs
  <2> QED BY <1>8, <2>1
<1>10. IsKept(f, messages, reserved, max)
  <2>1. f = [k \in 0..n |-> f[k]]
    BY <1>7
  <2> QED BY <1>1, <1>2, <1>9, <2>1 DEF IsKept
<1> QED BY <1>10

LEMMA LeastIs ==
  ASSUME NEW S, S \subseteq Nat, S # {}
  PROVE  Min(S) \in S /\ \A i \in S : Min(S) <= i
BY LeastNumber DEF Min

\* What is kept in the end, before the replies at its beginning are dropped.
LEMMA KeptIs ==
  ASSUME NEW messages \in Seq(Turns), NEW size, Sizes(size, messages), NEW reserved \in Nat, NEW max \in Nat
  PROVE  \E acc : /\ KeptLast(acc, messages, size, reserved, max, Len(messages))
                  /\ ShortenToContextSize(messages, reserved, max) = WithoutOrphanedReplies(acc.kept)
<1> DEFINE F == CHOOSE f : IsKept(f, messages, reserved, max)
<1>1. PICK n \in Nat : n = Len(messages)
  OBVIOUS
<1>2. IsKept(F, messages, reserved, max)
  BY KeptExists
<1>3. ShortenToContextSize(messages, reserved, max) = WithoutOrphanedReplies(F[Len(messages)].kept)
  BY DEF ShortenToContextSize, IsKept
<1> HIDE DEF F
<1>4. /\ F[0] = [full |-> FALSE, length |-> reserved, kept |-> <<>>]
      /\ \A k \in Nat : k + 1 \in 1..n => F[k + 1] = Keep(F[k], messages[n + 1 - (k + 1)], max)
  <2>1. \A k \in 0..n : F[k] = IF k = 0 THEN [full |-> FALSE, length |-> reserved, kept |-> <<>>]
                               ELSE Keep(F[k - 1], messages[n + 1 - k], max)
    BY <1>1, <1>2 DEF IsKept
  <2>2. 0 \in 0..n /\ \A k \in Nat : k + 1 \in 1..n => k + 1 \in 0..n /\ k + 1 # 0 /\ (k + 1) - 1 = k
    OBVIOUS
  <2> QED BY <2>1, <2>2
<1> DEFINE T == {k \in Nat : k <= n => KeptLast(F[k], messages, size, reserved, max, k)}
<1>5. 0 \in T
  <2>1. SubSeq(messages, n + 1 - 0, n) = <<>> /\ size[0] = 0 /\ 0 \in 0..0
    BY SubSeqEmpty DEF Sizes
  <2>2. F[0].kept = <<>> /\ F[0].length = reserved + size[0] /\ ~F[0].full /\ F[0] \in Keeps
    BY <1>4, <2>1 DEF Keeps
  <2> QED BY <1>1, <2>1, <2>2 DEF KeptLast, Keeps
<1>6. ASSUME NEW k \in Nat, k \in T
      PROVE  k + 1 \in T
  <2> SUFFICES ASSUME k + 1 <= n PROVE KeptLast(F[k + 1], messages, size, reserved, max, k + 1)
    BY DEF T
  <2>1. k + 1 \in 1..n /\ k <= n
    OBVIOUS
  <2>2. KeptLast(F[k], messages, size, reserved, max, k)
    BY <1>6, <2>1 DEF T
  <2> QED BY <1>1, <1>4, <2>1, <2>2, KeepStep
<1> HIDE DEF T
<1>7. n \in T
  BY <1>5, <1>6, SetInduction
<1> QED BY <1>1, <1>3, <1>7 DEF T

\* Where a part of messages that fits and begins with a user may begin.
Fitting(messages, size, reserved, max) ==
  {i \in 1..Len(messages) :
     messages[i].author = "user" /\ reserved + size[Len(messages) + 1 - i] <= max}

\* What is left is the longest such part that ends with the last message.
LEMMA ShortenedIs ==
  ASSUME NEW messages \in Seq(Turns), NEW size, Sizes(size, messages), NEW reserved \in Nat, NEW max \in Nat
  PROVE  ShortenToContextSize(messages, reserved, max) =
           IF Fitting(messages, size, reserved, max) = {} THEN <<>>
           ELSE SubSeq(messages, Min(Fitting(messages, size, reserved, max)), Len(messages))
<1>0. PICK n, fitting : n = Len(messages) /\ fitting = Fitting(messages, size, reserved, max)
  OBVIOUS
<1> SUFFICES ShortenToContextSize(messages, reserved, max) =
               IF fitting = {} THEN <<>> ELSE SubSeq(messages, Min(fitting), n)
  BY <1>0
<1>1. n \in Nat /\ DOMAIN messages = 1..n /\ \A i \in 1..n : messages[i] \in Turns
  BY <1>0
<1>2. PICK acc : /\ KeptLast(acc, messages, size, reserved, max, n)
                 /\ ShortenToContextSize(messages, reserved, max) = WithoutOrphanedReplies(acc.kept)
  BY <1>0, KeptIs
<1>3. PICK j \in 0..n :
        /\ acc.kept = SubSeq(messages, n + 1 - j, n)
        /\ j # 0 => reserved + size[j] <= max
        /\ IF acc.full THEN j < n /\ reserved + size[j + 1] > max ELSE j = n
  BY <1>0, <1>2 DEF KeptLast
<1>4. PICK kept, starts : kept = acc.kept /\ starts = {i \in DOMAIN kept : kept[i].author # "assistant"}
  OBVIOUS
<1>5. kept \in Seq(Turns) /\ Len(kept) = j /\ DOMAIN kept = 1..j /\ \A i \in 1..j : kept[i] = messages[n - j + i]
  <2>1. n + 1 - j \in Int /\ n \in Int /\ \A i \in (n + 1 - j)..n : messages[i] \in Turns
    BY <1>1
  <2>2. /\ SubSeq(messages, n + 1 - j, n) \in Seq(Turns)
        /\ Len(SubSeq(messages, n + 1 - j, n)) = IF n + 1 - j <= n THEN n - (n + 1 - j) + 1 ELSE 0
        /\ \A i \in 1..(n - (n + 1 - j) + 1) : SubSeq(messages, n + 1 - j, n)[i] = messages[(n + 1 - j) + i - 1]
    BY <2>1, SubSeqProperties
  <2>3. n - (n + 1 - j) + 1 = j /\ \A i \in 1..j : (n + 1 - j) + i - 1 = n - j + i
    BY <1>1
  <2>4. /\ kept \in Seq(Turns) /\ Len(kept) = IF n + 1 - j <= n THEN j ELSE 0
        /\ \A i \in 1..j : kept[i] = messages[(n + 1 - j) + i - 1]
    BY <1>3, <1>4, <2>2, <2>3
  <2>5. Len(kept) = j
    BY <1>1, <2>4
  <2> QED BY <2>3, <2>4, <2>5
<1>6. \A i \in 1..n : i \in fitting <=> messages[i].author = "user" /\ i > n - j
  <2> TAKE i \in 1..n
  <2>1. size \in [0..n -> Nat] /\ n + 1 - i \in 1..n /\ n + 1 - i \in 0..n
    BY <1>0, <1>1 DEF Sizes
  <2>2. CASE i > n - j
    <3>1. n + 1 - i <= j /\ j # 0
      BY <1>1, <2>2
    <3>2. size[n + 1 - i] <= size[j]
      BY <1>0, <2>1, <3>1, SizesGrow
    <3>3. size[n + 1 - i] \in Nat /\ size[j] \in Nat
      BY <2>1
    <3>4. reserved + size[n + 1 - i] <= max
      BY <1>3, <3>1, <3>2, <3>3
    <3> QED BY <1>0, <2>2, <3>4 DEF Fitting
  <2>3. CASE ~(i > n - j)
    <3>1. j + 1 <= n + 1 - i /\ j + 1 \in 0..n /\ j # n
      BY <1>1, <2>3
    <3>2. size[j + 1] <= size[n + 1 - i]
      BY <1>0, <2>1, <3>1, SizesGrow
    <3>3. size[n + 1 - i] \in Nat /\ size[j + 1] \in Nat
      BY <2>1, <3>1
    <3>4. ~(reserved + size[n + 1 - i] <= max)
      BY <1>3, <3>1, <3>2, <3>3
    <3> QED BY <1>0, <2>3, <3>4 DEF Fitting
  <2> QED BY <2>2, <2>3
<1>7. \A i \in 1..j : n - j + i \in 1..n /\ (i \in starts <=> n - j + i \in fitting)
  <2> TAKE i \in 1..j
  <2>1. n - j + i \in 1..n /\ n - j + i > n - j
    BY <1>1
  <2>2. messages[n - j + i].author \in {"user", "assistant"}
    BY <1>1, <2>1 DEF Turns
  <2>3. i \in starts <=> messages[n - j + i].author # "assistant"
    BY <1>4, <1>5
  <2> QED BY <1>6, <2>1, <2>2, <2>3
<1>8. starts \subseteq 1..j /\ fitting \subseteq 1..n
  BY <1>0, <1>4, <1>5 DEF Fitting
<1>9. \A i \in fitting : i - (n - j) \in 1..j /\ i - (n - j) \in starts
  <2> TAKE i \in fitting
  <2>1. PICK p : p = i - (n - j)
    OBVIOUS
  <2>2. i \in 1..n /\ i > n - j
    BY <1>6, <1>8
  <2>3. p \in 1..j /\ n - j + p = i
    BY <1>1, <2>1, <2>2
  <2> QED BY <1>7, <2>1, <2>3
<1>10. WithoutOrphanedReplies(kept) = IF starts = {} THEN <<>> ELSE SubSeq(kept, Min(starts), j)
  BY <1>4, <1>5 DEF WithoutOrphanedReplies
<1>11. CASE fitting = {}
  BY <1>2, <1>4, <1>7, <1>8, <1>10, <1>11
<1>12. CASE fitting # {}
  <2>1. starts # {}
    BY <1>9, <1>12
  <2>2. PICK p, q : p = Min(starts) /\ q = Min(fitting)
    OBVIOUS
  <2>0. starts \subseteq Nat /\ fitting \subseteq Nat
    BY <1>8
  <2>3. p \in starts /\ p \in 1..j /\ \A i \in starts : p <= i
    BY <1>8, <2>0, <2>1, <2>2, LeastIs
  <2>4. q \in fitting /\ q \in 1..n /\ \A i \in fitting : q <= i
    BY <1>8, <1>12, <2>0, <2>2, LeastIs
  <2>5. q = n - j + p
    <3>1. q <= n - j + p
      BY <1>7, <2>3, <2>4
    <3>2. p <= q - (n - j)
      BY <1>9, <2>3, <2>4
    <3> QED BY <1>1, <2>3, <2>4, <3>1, <3>2
  <2>6. SubSeq(kept, p, j) = SubSeq(messages, q, n)
    <3>1. PICK s, t : s = SubSeq(kept, p, j) /\ t = SubSeq(messages, q, n)
      OBVIOUS
    <3>2. \A i \in p..j : kept[i] \in Turns
      BY <1>5, <2>3
    <3>3. /\ s \in Seq(Turns) /\ Len(s) = j - p + 1
          /\ \A i \in 1..(j - p + 1) : s[i] = kept[p + i - 1]
      BY <2>3, <3>1, <3>2, SubSeqProperties
    <3>4. \A i \in q..n : messages[i] \in Turns
      BY <1>1, <2>4
    <3>5. /\ t \in Seq(Turns) /\ Len(t) = n - q + 1
          /\ \A i \in 1..(n - q + 1) : t[i] = messages[q + i - 1]
      BY <1>1, <2>4, <3>1, <3>4, SubSeqProperties
    <3>6. n - q + 1 = j - p + 1
      BY <1>1, <2>3, <2>5
    <3>7. \A i \in 1..(j - p + 1) : s[i] = t[i]
      <4> TAKE i \in 1..(j - p + 1)
      <4>1. p + i - 1 \in 1..j /\ n - j + (p + i - 1) = q + i - 1
        BY <1>1, <2>3, <2>5
      <4>2. kept[p + i - 1] = messages[q + i - 1]
        BY <1>5, <4>1
      <4> QED BY <3>3, <3>5, <3>6, <4>2
    <3>8. s = [i \in 1..(j - p + 1) |-> s[i]] /\ t = [i \in 1..(j - p + 1) |-> t[i]]
      BY <3>3, <3>5, <3>6
    <3> QED BY <3>1, <3>7, <3>8
  <2> QED BY <1>2, <1>4, <1>10, <1>12, <2>1, <2>2, <2>6
<1> QED BY <1>11, <1>12

LEMMA RequestIs ==
  ASSUME RoomInv, handler.pc = "generate", Proper(handler.conversation)
  PROVE  RequestIsRecentTurns
<1>1. PICK said, turns : said = handler.conversation /\ turns = CombineConsecutiveMessages(said)
  OBVIOUS
<1>2. said \in Seq(LlmRecords) /\ \A i, j \in 1..Len(said) : i < j => said[i].of[1] < said[j].of[1]
  BY <1>1 DEF Proper
<1>3. Combined(turns, said, Len(said))
  BY <1>1, <1>2, CombinedIs
<1>4. said \in Seq(Turns) /\ turns \in Seq(Turns)
  <2>1. LlmRecords \subseteq Turns
    BY MessagesAreTurns
  <2> QED BY <1>2, <1>3, <2>1, SeqMonotonic DEF Combined
<1>5. DOMAIN said = 1..Len(said) /\ Len(said) \in Nat /\ DOMAIN turns = 1..Len(turns)
  BY <1>4
<1>6. \A i, j \in 1..Len(said) : said[i].of[1] = said[j].of[1] => i = j
  <2> TAKE i, j \in 1..Len(said)
  <2> HAVE said[i].of[1] = said[j].of[1]
  <2>1. said[i].of[1] \in Nat
    <3>1. said[i] \in LlmRecords
      BY <1>2
    <3> QED BY <3>1, MessagesAreTurns, EventsAreNumbered
  <2>2. ~(i < j) /\ ~(j < i)
    BY <1>2, <2>1
  <2> QED BY <1>5, <2>2
<1>7. FlattenSeq([i \in DOMAIN turns |-> turns[i].of]) = [i \in DOMAIN said |-> said[i].of[1]]
  BY <1>3, <1>5 DEF Combined
<1>8. ASSUME NEW t \in Range(turns), NEW m \in Range(said), m.of[1] \in Range(t.of)
      PROVE  m.author = t.author /\ t.sender \in {m.sender, None}
  <2>1. PICK i \in 1..Len(turns), l \in 1..Len(said) : t = turns[i] /\ m = said[l]
    BY <1>5 DEF Range
  <2>2. PICK j \in 1..Len(said) : /\ said[j].of[1] = m.of[1] /\ said[j].author = turns[i].author
                                  /\ turns[i].sender \in {said[j].sender, None}
    BY <1>3, <1>8, <2>1 DEF Combined
  <2>3. j = l
    BY <1>6, <2>1, <2>2
  <2> QED BY <2>1, <2>2, <2>3
<1>9. \A i \in 2..Len(turns) :
        turns[i].author = turns[i-1].author => ~turns[i].text \/ ~turns[i-1].text
  BY <1>3 DEF Combined
<1>10. ASSUME NEW messages \in {said, turns}, NEW max \in 0..MaxContext, NEW fitting,
              fitting = {i \in {j \in DOMAIN messages : messages[j].author = "user"} :
                           Reserved + SizeOfLast(messages, Len(messages) + 1 - i) <= max}
       PROVE  ShortenToContextSize(messages, Reserved, max) =
                IF fitting = {} THEN <<>> ELSE SubSeq(messages, Min(fitting), Len(messages))
  <2>1. messages \in Seq(Turns) /\ DOMAIN messages = 1..Len(messages) /\ Reserved \in Nat /\ max \in Nat
    BY <1>4, BoundAssumption
  <2>2. PICK size : Sizes(size, messages) /\ \A k : SizeOfLast(messages, k) = size[k]
    BY <2>1, SizesAre
  <2>3. fitting = Fitting(messages, size, Reserved, max)
    BY <1>10, <2>1, <2>2 DEF Fitting
  <2> QED BY <2>1, <2>2, <2>3, ShortenedIs
<1>11. \A messages \in {said, turns}, max \in 0..MaxContext :
         LET fitting == {i \in {j \in DOMAIN messages : messages[j].author = "user"} :
                           Reserved + SizeOfLast(messages, Len(messages) + 1 - i) <= max}
         IN  ShortenToContextSize(messages, Reserved, max) =
               IF fitting = {} THEN <<>> ELSE SubSeq(messages, Min(fitting), Len(messages))
  BY <1>10
<1>12. \A t \in Range(turns) : \A m \in Range(said) :
         m.of[1] \in Range(t.of) => m.author = t.author /\ t.sender \in {m.sender, None}
  BY <1>8
<1> QED BY <1>1, <1>7, <1>9, <1>11, <1>12, Zenon DEF RequestIsRecentTurns

\* Context management drops whole turns from the beginning, and combining texts
\* neither loses one nor attributes it to somebody else, for every conversation
\* and every size of the context (shorten_messages_list_to_context_size and
\* Conversation::combine_consecutive_messages).
THEOREM RequestsAreRecentTurns == Spec => []RequestIsRecentTurns
<1>1. Inv /\ TalkInv => RequestIsRecentTurns
  <2>1. CASE handler.pc = "generate"
    BY <2>1, RequestIs DEF Inv, TalkInv, GenerateInv
  <2>2. CASE handler.pc # "generate"
    BY <2>2 DEF RequestIsRecentTurns
  <2> QED BY <2>1, <2>2
<1> QED BY <1>1, TalkAlways, PTL

-----------------------------------------------------------------------------
(* Types.                                                                  *)

\* What TypeOK says and the invariants above do not.
MessageInv ==
  \A e \in Events : /\ timeline[e].sender = Bot => timeline[e].kind \in BotKinds
                    /\ timeline[e].relation = "none" => timeline[e].to = None

FieldInv ==
  /\ encrypted \in BOOLEAN
  /\ handler.event \in 0..Len(timeline)
  /\ handler.pc \notin {"context", "done"} => handler.controller \in Controllers
  /\ handler.pc \in {"transcribe", "chain", "thread", "generate"} => handler.controller \in ChatCompletions
  /\ handler.pc \in {"generate", "done"} => handler.fetched = <<>>
  /\ handler.pc # "generate" => handler.conversation = <<>>

LEMMA MessagesTyped ==
  ASSUME Inv, MessageInv, [Next]_vars
  PROVE  MessageInv'
<1>1. RoomInv /\ Events = 1..Len(timeline) /\ Len(timeline) \in Nat
  BY DEF Inv, RoomInv, Events
<1>2. CASE UNCHANGED timeline
  BY <1>2 DEF MessageInv, Events
<1>3. ASSUME NEW message, NEW v, Post(message, v),
             message.sender = Bot => message.kind \in BotKinds,
             message.relation = "none" => message.to = None
      PROVE  MessageInv'
  <2>1. timeline' = Append(timeline, message) /\ Events' = 1..(Len(timeline) + 1)
    BY <1>1, <1>3 DEF Post, RoomInv, Events
  <2>2. /\ \A e \in 1..Len(timeline) : timeline'[e] = timeline[e]
        /\ timeline'[Len(timeline) + 1] = message
    BY <1>1, <2>1 DEF RoomInv
  <2> QED BY <1>1, <1>3, <2>1, <2>2 DEF MessageInv
<1>4. ASSUME NEW place \in Places, NEW sender \in People, NEW keyLate, NEW kind, NEW mention,
             PostByPerson(place, sender, kind, mention, keyLate)
      PROVE  MessageInv'
  <2>1. sender # Bot /\ (place.relation = "none" => place.to = None)
    BY SenderAssumption DEF Places
  <2> QED BY <1>3, <1>4, <2>1 DEF PostByPerson
<1>5. CASE Transcribe \/ Generate
  <2>1. \E kind \in BotKinds, relation \in {"thread", "reply"} : \E to : PostByBot(kind, relation, to)
    BY <1>5 DEF Transcribe, Generate, BotKinds
  <2> QED BY <1>3, <2>1 DEF PostByBot
<1>6. CASE RouteUnthreaded \/ RouteThreaded \/ Dispatch \/ CreateConversationForThread \/ FetchReplyChain \/ GiveUp
  BY <1>2, <1>6 DEF RouteUnthreaded, RouteThreaded, Dispatch, CreateConversationForThread,
                    FetchReplyChain, GiveUp, room
<1>7. ASSUME NEW e, NEW allowed, NEW required,
             Redact(e) \/ KeyArrives(e) \/ Receive(e, allowed, required)
      PROVE  MessageInv'
  BY <1>2, <1>7 DEF Redact, KeyArrives, Receive, room
<1> QED BY <1>2, <1>4, <1>5, <1>6, <1>7 DEF Next, HandlerStep, vars

LEMMA FieldsKept ==
  ASSUME FieldInv, UNCHANGED <<encrypted, handler>>, Len(timeline) \in Nat, Len(timeline') \in Nat,
         Len(timeline) <= Len(timeline')
  PROVE  FieldInv'
BY DEF FieldInv

LEMMA FieldsEnded ==
  ASSUME FieldInv, UNCHANGED encrypted, NEW e, handler' = Done(e), e \in 0..Len(timeline')
  PROVE  FieldInv'
BY DEF FieldInv, Done

\* The handler goes on, or ends.
LEMMA FieldsStep ==
  ASSUME Inv, FieldInv, UNCHANGED encrypted, Len(timeline) <= Len(timeline'), Len(timeline') \in Nat,
         HandlerStep
  PROVE  FieldInv'
<1>1. /\ DOMAIN handler = {"event", "pc", "allowed", "prefixRequired", "controller", "fetched", "conversation"}
      /\ RoomInv /\ ReadInv /\ Len(timeline) \in Nat
  BY DEF Inv, AnswerInv, RoomInv
<1>2. ASSUME NEW controller \in Controllers, handler.pc = "context", Route(controller) PROVE FieldInv'
  <2> DEFINE pc == IF controller \notin ChatCompletions THEN "dispatch"
                   ELSE IF timeline[handler.event].kind = "audio" THEN "transcribe" ELSE Stage(controller)
  <2>1. handler' = [handler EXCEPT !.controller = controller, !.pc = pc]
    BY <1>2 DEF Route
  <2>2. /\ pc \notin {"context", "generate", "done"}
        /\ pc \in {"transcribe", "chain", "thread"} => controller \in ChatCompletions
    BY DEF Stage
  <2> HIDE DEF pc
  <2> QED BY <1>1, <1>2, <2>1, <2>2 DEF FieldInv
<1>3. ASSUME NEW fetched, handler.pc \in {"chain", "thread"}, Converse(fetched) PROVE FieldInv'
  <2> DEFINE said == Conversation(fetched, AllowedUsers(handler))
  <2>1. handler' = [handler EXCEPT !.pc = "generate", !.fetched = <<>>, !.prefixRequired = FALSE,
                                   !.conversation = said]
    BY <1>3 DEF Converse
  <2> HIDE DEF said
  <2> QED BY <1>1, <1>3, <2>1 DEF FieldInv
<1>4. CASE RouteUnthreaded
  <2>1. /\ handler.pc = "context" /\ handler.event \in Events
        /\ {"ReplyMention", "Ignore"} \subseteq Controllers
    BY <1>4 DEF RouteUnthreaded, Inv, AnswerInv, Controllers, ChatCompletions, Involvements
  <2> DEFINE m == timeline[handler.event]
             c == DetermineController(m.kind, m.mention, handler.prefixRequired)
  <2>2. c \in Controllers
    BY <1>1, <2>1, MessageFields, RoutesWhoAsks DEF RoomInv
  <2> HIDE DEF c
  <2>3. \E controller \in Controllers : Route(controller)
    BY <1>4, <2>1, <2>2 DEF RouteUnthreaded, c
  <2> QED BY <1>2, <2>1, <2>3
<1>5. CASE RouteThreaded
  <2>1. /\ handler.pc = "context" /\ handler.event \in Events /\ "ThreadMention" \in Controllers
        /\ timeline[handler.event].relation = "thread"
    BY <1>5 DEF RouteThreaded, Inv, AnswerInv, Controllers, ChatCompletions, Involvements
  <2>2. timeline[handler.event].to \in Events
    BY <1>1, <2>1, MessageFields DEF Root
  <2>3. CASE timeline[handler.event].mention
    <3>1. Route("ThreadMention")
      BY <1>5, <2>3 DEF RouteThreaded
    <3> QED BY <1>2, <2>1, <3>1
  <2>4. CASE ~timeline[handler.event].mention
    <3> DEFINE root == timeline[handler.event].to
    <3>1. PICK v \in Views : /\ v = cache[root] \/ v = view[root]
                             /\ Route(RouteByRoot(root, v, handler.prefixRequired))
      BY <1>5, <2>4 DEF RouteThreaded, FetchEvent
    <3>2. RouteByRoot(root, v, handler.prefixRequired) \in Controllers
      BY <1>1, <2>2, <3>1, RoutesByRoot
    <3> QED BY <1>2, <2>1, <3>1, <3>2
  <2> QED BY <2>3, <2>4
<1>6. CASE Dispatch \/ GiveUp \/ Generate
  <2>1. handler' = Done(handler.event) /\ handler.event \in 0..Len(timeline')
    BY <1>1, <1>6 DEF Dispatch, GiveUp, Generate, FieldInv
  <2> QED BY <2>1, FieldsEnded
<1>7. CASE Transcribe
  <2> DEFINE pc == Stage(handler.controller)
  <2>1. handler.pc = "transcribe" /\ handler' = [handler EXCEPT !.pc = pc] /\ pc \in {"chain", "thread"}
    BY <1>7 DEF Transcribe, Stage
  <2> HIDE DEF pc
  <2> QED BY <1>1, <2>1 DEF FieldInv
<1>8. CASE CreateConversationForThread
  <2>1. handler.pc = "thread" /\ \E fetched : Converse(fetched)
    BY <1>8 DEF CreateConversationForThread
  <2> QED BY <1>3, <2>1
<1>9. CASE FetchReplyChain
  <2>1. /\ handler.pc = "chain"
        /\ \E chain : Converse(chain) \/ handler' = [handler EXCEPT !.fetched = chain]
    BY <1>9 DEF FetchReplyChain
  <2> QED BY <1>1, <1>3, <2>1 DEF FieldInv
<1> QED BY <1>4, <1>5, <1>6, <1>7, <1>8, <1>9 DEF HandlerStep

LEMMA FieldsTyped ==
  ASSUME Inv, FieldInv, [Next]_vars
  PROVE  FieldInv'
<1>1. Inv'
  BY StepInv
<1>2. Events = 1..Len(timeline) /\ Len(timeline) \in Nat /\ Len(timeline') \in Nat
  BY <1>1 DEF Inv, RoomInv, Events
<1>3. ASSUME NEW message, NEW v, Post(message, v)
      PROVE  Len(timeline) <= Len(timeline') /\ UNCHANGED encrypted
  BY <1>2, <1>3 DEF Post, Inv, RoomInv
<1>4. ASSUME NEW place, NEW sender, NEW keyLate, NEW kind, NEW mention,
             PostByPerson(place, sender, kind, mention, keyLate)
      PROVE  FieldInv'
  BY <1>2, <1>3, <1>4, FieldsKept DEF PostByPerson
<1>5. ASSUME NEW e \in Events, Redact(e) \/ KeyArrives(e)
      PROVE  FieldInv'
  BY <1>2, <1>5, FieldsKept DEF Redact, KeyArrives
<1>6. ASSUME NEW e \in Events, NEW allowed, NEW required, Receive(e, allowed, required)
      PROVE  FieldInv'
  <2>1. /\ UNCHANGED <<encrypted, timeline>> /\ e \in 0..Len(timeline')
        /\ \/ handler' = Done(e)
           \/ handler' = [Done(e) EXCEPT !.pc = "context", !.allowed = allowed, !.prefixRequired = required]
    BY <1>2, <1>6 DEF Receive, room
  <2>2. /\ handler'.event = e /\ handler'.pc \in {"context", "done"}
        /\ handler'.fetched = <<>> /\ handler'.conversation = <<>>
    <3>1. CASE handler' = Done(e)
      BY <3>1 DEF Done
    <3>2. CASE handler' = [Done(e) EXCEPT !.pc = "context", !.allowed = allowed, !.prefixRequired = required]
      <4>1. /\ handler'.event = Done(e).event /\ handler'.pc = "context"
            /\ handler'.fetched = Done(e).fetched /\ handler'.conversation = Done(e).conversation
        BY <3>2 DEF Done
      <4> QED BY <4>1 DEF Done
    <3> QED BY <2>1, <3>1, <3>2
  <2> QED BY <2>1, <2>2 DEF FieldInv
<1>7. CASE HandlerStep
  <2>1. Len(timeline) <= Len(timeline') /\ UNCHANGED encrypted
    <3>1. CASE Transcribe \/ Generate
      BY <1>3, <3>1 DEF Transcribe, Generate, PostByBot
    <3>2. CASE ~(Transcribe \/ Generate)
      <4>1. UNCHANGED room
        BY <1>7, <3>2 DEF HandlerStep, RouteUnthreaded, RouteThreaded, Dispatch,
                          CreateConversationForThread, FetchReplyChain, GiveUp, room
      <4> QED BY <1>2, <4>1 DEF room
    <3> QED BY <3>1, <3>2
  <2> QED BY <1>2, <1>7, <2>1, FieldsStep
<1>8. CASE UNCHANGED vars
  BY <1>2, <1>8, FieldsKept DEF vars
<1> QED BY <1>4, <1>5, <1>6, <1>7, <1>8 DEF Next

\* Every variable has its type, and a handler its controller exactly while it
\* is at work: the conversation it ends with is of messages of the room
\* (on_actionable_message and what it calls).
THEOREM ConversationTypes == Spec => []TypeOK
<1>1. Inv /\ TalkInv /\ MessageInv /\ FieldInv => TypeOK
  <2> SUFFICES ASSUME Inv, TalkInv, MessageInv, FieldInv PROVE TypeOK
    OBVIOUS
  <2>1. /\ RoomInv /\ ReadInv /\ AnswerInv /\ StageInv /\ GenerateInv
        /\ Events = 1..Len(timeline) /\ Len(timeline) \in Nat
    BY DEF Inv, TalkInv, RoomInv, Events
  <2>2. \A e \in Events :
          /\ timeline[e].sender \in IF timeline[e].kind \in BotKinds THEN {Bot} ELSE People
          /\ timeline[e].relation \in {"none", "thread", "reply"}
          /\ timeline[e].to \in IF timeline[e].relation = "none" THEN {None} ELSE 1..(e - 1)
    <3> TAKE e \in Events
    <3>1. timeline[e] \in Messages
      BY <2>1 DEF RoomInv
    <3> QED BY <2>1, <3>1 DEF Messages, RoomInv, MessageInv
  <2>3. /\ DOMAIN view = Events /\ \A e \in Events : view[e] \in Views
        /\ DOMAIN cache = Events /\ \A e \in Events : cache[e] \in Views \cup {None}
    BY <2>1 DEF ReadInv
  <2>4. handler.pc \in {"context", "dispatch", "transcribe", "chain", "thread", "generate", "done"}
    BY <2>1 DEF AnswerInv, Routed
  <2>5. /\ handler.controller \in Controllers \cup {None}
        /\ handler.pc \in {"context", "done"} <=> handler.controller = None
    BY <2>1, NoneAssumption DEF AnswerInv, FieldInv
  <2>6. handler.pc = "chain" \/ handler.fetched # <<>> => handler.controller = "ReplyMention"
    BY <2>1, <2>4 DEF StageInv, FieldInv
  <2>7. handler.conversation \in Seq(LlmMessages)
    <3>1. CASE handler.pc # "generate"
      BY <3>1, EmptySeq DEF FieldInv
    <3>2. CASE handler.pc = "generate"
      <4>1. handler.conversation \in Seq(LlmRecords)
        BY <2>1, <3>2 DEF GenerateInv, Proper
      <4>2. ASSUME NEW i \in Events PROVE LlmMessage(i) \in LlmMessages
        <5>1. <<i>> \in Seq(Events) /\ (timeline[i].kind # "image") \in BOOLEAN
          OBVIOUS
        <5>2. /\ timeline[i].kind = "answer" => timeline[i].sender = Bot
              /\ timeline[i].kind \notin BotKinds => timeline[i].sender \in People
          BY <2>2 DEF BotKinds
        <5> QED BY <5>1, <5>2 DEF LlmMessage, LlmMessages, BotKinds
      <4>3. LlmRecords \subseteq LlmMessages
        BY <4>2 DEF LlmRecords
      <4> QED BY <4>1, <4>3, SeqMonotonic
    <3> QED BY <3>1, <3>2
  <2> QED BY <2>2, <2>3, <2>4, <2>5, <2>6, <2>7 DEF TypeOK, FieldInv
<1>2. Init => MessageInv /\ FieldInv
  BY DEF Init, MessageInv, FieldInv, Events, Done
<1>3. Inv /\ TalkInv /\ MessageInv /\ FieldInv /\ [Next]_vars => MessageInv' /\ FieldInv'
  BY MessagesTyped, FieldsTyped
<1> QED BY <1>1, <1>2, <1>3, TalkAlways, PTL DEF Spec
=============================================================================
