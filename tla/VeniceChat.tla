----------------------------- MODULE VeniceChat -----------------------------
(***************************************************************************)
(* One text generation by an agent on Venice: the request, and its retries *)
(* without the fields that a model turns out not to support                *)
(* (src/agent/provider/venice: chat.rs, recovery.rs).                      *)
(*                                                                         *)
(* The rejections are remembered for the life of the process, by base URL  *)
(* and model, and shared by every generation of the process: those of the  *)
(* other handlers are OthersLearn.  Of a request only its optional fields  *)
(* matter; the prompt, the citations and the reasoning are left out.       *)
(***************************************************************************)
EXTENDS Naturals, FiniteSets

CONSTANTS
  VeniceAgents,  \* [base_url, model, fields]: fields are the ones configured
  Nil

VARIABLES
  agent,        \* whose generation runs, or Nil
  request,      \* the optional fields that are set in the request
  response,     \* what Venice answered to the last attempt, or Nil
  unsupported,  \* UnsupportedFieldsCache of each base URL
  refused       \* history: the fields Venice refused, by base URL and model

vvars == <<agent, request, response, unsupported, refused>>

\* "dropping them changes nothing about the answer".
DROPPABLE_FIELDS == {"prompt_cache_retention", "prompt_cache_key", "reasoning_effort"}
Fields == DROPPABLE_FIELDS \cup {"temperature"}

ASSUME AgentAssumption == \A a \in VeniceAgents : a.fields \subseteq Fields

\* A 400 names the first field it rejects, or none; every other failure, of
\* the request or of what a success carries, is an error.
Failure == [status |-> "error", field |-> Nil]
Responses == [status : {"text", "empty", "error"}, field : {Nil}]
               \cup [status : {"rejected"}, field : Fields \cup {Nil}]

VeniceInit ==
  /\ agent = Nil /\ request = {} /\ response = Nil
  /\ unsupported = {} /\ refused = {}

-----------------------------------------------------------------------------
(* recovery.rs: the cache, and what may be dropped.                        *)

\* Faulty variant: one cache for all deployments.
Record_ByModel(a, field) ==
  unsupported' = unsupported \cup
    {<<b.base_url, a.model, field>> : b \in VeniceAgents}

\* Faulty variant: a cache of the controller's own, gone with the message.
Record_Nothing(a, field) == UNCHANGED unsupported

Record(a, field) == unsupported' = unsupported \cup {<<a.base_url, a.model, field>>}

KnownFor(a) == {field \in Fields : <<a.base_url, a.model, field>> \in unsupported}

\* Faulty variant: every droppable field counts as stripped, set or not.
Strippable_Always(fields, field) == field \in DROPPABLE_FIELDS

\* strip_droppable_field: whether the field was removed.
Strippable(fields, field) == field \in DROPPABLE_FIELDS /\ field \in fields

-----------------------------------------------------------------------------
(* chat.rs: generate_text.                                                 *)

\* The cache key is in every request; a file beyond the limit ends the
\* generation before anything is sent.
Configured(a) == a.fields \cup {"temperature", "prompt_cache_key"}

Begin(a) ==
  /\ agent' = a
  /\ request' = {field \in Configured(a) :
                   ~(field \in KnownFor(a) /\ Strippable(Configured(a), field))}
  /\ response' \in {Nil, Failure}
  /\ UNCHANGED <<unsupported, refused>>

\* Venice answers, refuses, or the client's timeout elapses.
Respond ==
  /\ agent # Nil /\ response = Nil
  /\ response' \in Responses
  /\ UNCHANGED <<agent, request, unsupported, refused>>

\* The refusal names a field that can be dropped.
Recoverable == response.status = "rejected" /\ Strippable(request, response.field)

\* Once more without the field.
Retry ==
  /\ agent # Nil /\ response # Nil /\ Recoverable
  /\ request' = request \ {response.field}
  /\ Record(agent, response.field)
  /\ refused' = refused \cup {<<agent.base_url, agent.model, response.field>>}
  /\ response' = Nil
  /\ UNCHANGED agent

\* The generation is over.
End(result) ==
  /\ agent # Nil /\ response # Nil /\ ~Recoverable
  /\ result = IF response.status = "rejected" THEN "error" ELSE response.status
  /\ agent' = Nil /\ request' = {} /\ response' = Nil
  /\ UNCHANGED <<unsupported, refused>>

\* Another handler's generation retries without a field.
OthersLearn ==
  /\ \E a \in VeniceAgents : \E field \in Configured(a) \cap DROPPABLE_FIELDS :
       /\ Record(a, field)
       /\ refused' = refused \cup {<<a.base_url, a.model, field>>}
  /\ UNCHANGED <<agent, request, response>>

-----------------------------------------------------------------------------
(* What the recovery must not do.                                          *)

\* The fields that the agent's model has refused on its deployment.
RefusedTo(a) == {field \in Fields : <<a.base_url, a.model, field>> \in refused}

\* What a request lacks of its agent's configuration is optional, and this
\* model on this deployment has refused it: neither another model's refusals
\* nor another deployment's cost an agent its settings, and one that changes
\* the answer is never dropped.
OnlyRefusedFieldsAreDropped ==
  agent # Nil =>
    Configured(agent) \ request \subseteq DROPPABLE_FIELDS \cap RefusedTo(agent)

\* "a known mismatch costs zero wasted round-trips after the first discovery":
\* a generation never sends a field that was refused, to this handler or to
\* any other, before it began, whichever controller learned it.
RefusalIsLearnedOnce ==
  [][agent = Nil /\ agent' # Nil =>
       request' \cap RefusedTo(agent') = {}]_vvars
=============================================================================
