--------------------------- MODULE Capabilities ----------------------------
(***************************************************************************)
(* One call of a built-in capability, from the client method that builds   *)
(* its payload to the same method reading the answer: the proxy            *)
(* (clients/_proxy.py), the router's execute() with its validation of the  *)
(* input and of the output (runtime/capability_router.py), the handler.    *)
(*                                                                         *)
(* What a call carries is written down in four places of the source: the   *)
(* payload a client builds and the model it reads the answer with, the     *)
(* schemas, and the record the handler returns.  CapabilitySchemas,        *)
(* Clients and Answers hold them; the calls made here show where they      *)
(* disagree.                                                               *)
(***************************************************************************)
EXTENDS CapabilitySchemas, Clients, Answers

VARIABLES
  method,     \* the client method at work
  stage,      \* how far its call has come
  carried     \* the payload on its way in, the answer or the chunk on its way out

capabilityVars == <<method, stage, carried>>

Stages == {"idle", "sent", "running", "answered", "refused", "failed", "broken",
           "returned", "unread"}

TheCall == ClientCalls[method]
Schema == BuiltinSchemas[TheCall.capability]
Handler == HandlerAnswers[TheCall.capability]

CapabilitiesInit == method = "(none)" /\ stage = "idle" /\ carried = Null

\* _prepare_payload names the request a system.event.* call belongs to.
Prepared(capability, payload) ==
  IF capability \in DOMAIN EventSchemas
  THEN Fields(payload.fields @@ [_request_scope_id |-> Text(Free)])
  ELSE payload

\* CapabilityProxy.call and stream: the descriptors the host published are
\* those of the capabilities with a handler.
Ask(m) ==
  /\ stage = "idle"
  /\ method' = m
  /\ \E payload \in Values(ClientCalls[m].sends) :
       carried' = Prepared(ClientCalls[m].capability, payload)
  /\ stage' = IF /\ ClientCalls[m].capability \in DOMAIN HandlerAnswers
                 /\ ClientCalls[m].stream
                      => HandlerAnswers[ClientCalls[m].capability].stream
              THEN "sent" ELSE "refused"

\* execute() validates the payload and finds the handler of the call's mode.
Refuse ==
  /\ stage = "sent"
  /\ ~Accepts(Schema.input, carried) \/ TheCall.stream # Handler.stream
  /\ stage' = "refused"
  /\ UNCHANGED <<method, carried>>
Run ==
  /\ stage = "sent"
  /\ Accepts(Schema.input, carried)
  /\ TheCall.stream = Handler.stream
  /\ stage' = "running"
  /\ carried' = Null
  /\ UNCHANGED method

\* The handler raises: a record that is not there, a caller without the right.
Raise ==
  /\ stage = "running"
  /\ stage' = "failed"
  /\ UNCHANGED <<method, carried>>

\* The handler returns, or its stream ends; execute() and validated_finalize
\* validate what the caller is to receive.
Answer ==
  /\ stage = "running"
  /\ \E form \in Handler.forms : carried' \in Values(form)
  /\ stage' = IF Accepts(Schema.output, carried') THEN "answered" ELSE "broken"
  /\ UNCHANGED method

\* A chunk goes to the caller as it is, and the caller reads it.
Deliver ==
  /\ stage = "running"
  /\ Handler.stream
  /\ \E chunk \in Values(Handler.chunk) :
       IF Accepts(TheCall.reads, chunk)
       THEN UNCHANGED <<stage, carried>>
       ELSE stage' = "unread" /\ carried' = chunk
  /\ UNCHANGED method

\* The client method makes of the answer what it returns; stream() drops the
\* answer that ends a stream.
Read ==
  /\ stage = "answered"
  /\ stage' = IF TheCall.stream \/ Accepts(TheCall.reads, carried)
              THEN "returned" ELSE "unread"
  /\ UNCHANGED <<method, carried>>

Over ==
  /\ stage \in {"refused", "failed", "broken", "returned", "unread"}
  /\ stage' = "idle" /\ method' = "(none)" /\ carried' = Null

CapabilitiesNext ==
  \/ \E m \in DOMAIN ClientCalls : Ask(m)
  \/ Refuse \/ Run \/ Raise \/ Answer \/ Deliver \/ Read \/ Over

CapabilitiesSpec == CapabilitiesInit /\ [][CapabilitiesNext]_capabilityVars

-----------------------------------------------------------------------------
\* What is called and carried is known at every stage.
CapabilitiesTypeOK ==
  /\ method \in DOMAIN ClientCalls \cup {"(none)"}
  /\ stage \in Stages
  /\ carried.kind \in {"null", "string", "array", "object", "boolean", "integer", "float"}

\* Every payload a client method builds is one the router takes, except a
\* null given to db.set or db.set_many: "value" is required, and a required
\* field may be null only where its schema says so.
StoresNull ==
  \/ method = "DBClient.set" /\ carried.fields["value"] = Null
  \/ /\ method = "DBClient.set_many"
     /\ \E item \in carried.fields["items"].items : item.fields["value"] = Null
PayloadsAreTaken == stage = "refused" => StoresNull

\* Every answer of a handler has the form its schema promises, except the
\* record of the platform the router is built with, and that of a knowledge
\* base whose name or embedding provider an update has set to null, which the
\* client may send and the schema of the update admits.
SetToNull(kb) ==
  \E name \in {"kb_name", "embedding_provider_id"} : kb.fields[name] = Null
AnswersAreWellFormed ==
  stage = "broken" =>
    \/ /\ method = "PlatformCompatFacade.refresh"
       /\ "unified_webhook" \notin DOMAIN carried.fields["platform"].fields
    \/ /\ method \in {"KnowledgeBaseManagerClient.update_kb",
                     "KnowledgeBaseManagerClient.get_kb"}
       /\ SetToNull(carried.fields["kb"])
    \/ /\ method = "KnowledgeBaseManagerClient.list_kbs"
       /\ \E kb \in carried.fields["kbs"].items : SetToNull(kb)

\* Every answer and chunk that got past the router is one the client can
\* read, except where a record carries what the client's model refuses: the
\* plugin_id of a tool its worker published, a provider_type that was given
\* in capitals.
CarriesPluginId(items) == \E item \in items : "plugin_id" \in DOMAIN item.fields
KindInCapitals(item) == item.fields["provider_type"] = Text("CHAT_COMPLETION")
AnswersAreRead ==
  stage = "unread" =>
    \/ method = "LLMToolManager.list_registered"
         /\ CarriesPluginId(carried.fields["registered"].items)
    \/ method = "LLMToolManager.list_active"
         /\ CarriesPluginId(carried.fields["active"].items)
    \/ method = "ProviderManagerClient.watch_changes" /\ KindInCapitals(carried)
    \/ "provider" \in DOMAIN carried.fields /\ KindInCapitals(carried.fields["provider"])
    \/ "providers" \in DOMAIN carried.fields
         /\ \E item \in carried.fields["providers"].items : KindInCapitals(item)

\* A call fails only where the world refuses it: what the client builds, the
\* router checks, the handler answers and the client reads fits together.
CallsFit == CapabilitiesTypeOK /\ PayloadsAreTaken /\ AnswersAreWellFormed /\ AnswersAreRead
=============================================================================
