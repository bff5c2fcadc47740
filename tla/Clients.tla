------------------------------ MODULE Clients ------------------------------
(***************************************************************************)
(* What each method of the SDK's clients sends and what it can read from   *)
(* the answer (clients/*, llm/providers.py, llm/tools.py, context.py,      *)
(* events.py).                                                             *)
(*                                                                         *)
(* "sends" is the payload the method builds, for arguments of the types    *)
(* its signature names: exclude_none drops a None field, exclude_unset and *)
(* a plain dict keep it as an explicit null.  "reads" is what the method   *)
(* needs of the answer: a pydantic model, or a loop over a list it does    *)
(* not check.  Where it checks every step itself (isinstance, str(), a     *)
(* default for a missing field) it can read anything.                      *)
(***************************************************************************)
EXTENDS Schemas

Invoke(capability, sends, reads) ==
  [capability |-> capability, stream |-> FALSE, sends |-> sends, reads |-> reads]
Tell(capability, sends) == Invoke(capability, sends, Anything)
Listen(capability, sends, reads) ==
  [Invoke(capability, sends, reads) EXCEPT !.stream = TRUE]

NoPayload == Dict
ProviderKinds ==
  {"chat_completion", "speech_to_text", "text_to_speech", "embedding", "rerank"}

-----------------------------------------------------------------------------
(* db, http, skills, permissions, metadata, registry, sessions *)

DBClientCalls ==
  "DBClient.get" :> Tell("db.get", All([key |-> Str]))
    @@ "DBClient.set" :> Tell("db.set", All([key |-> Str, value |-> Anything]))
    @@ "DBClient.delete" :> Tell("db.delete", All([key |-> Str]))
    @@ "DBClient.list" :> Tell("db.list", All([prefix |-> MaybeText]))
    @@ "DBClient.get_many" :> Tell("db.get_many", All([keys |-> Texts]))
    @@ "DBClient.set_many" :>
         Tell("db.set_many", All([items |-> Array(All([key |-> Str, value |-> Anything]))]))
    @@ "DBClient.watch" :> Listen("db.watch", All([prefix |-> MaybeText]), Anything)

HTTPClientCalls ==
  "HTTPClient.register_api" :>
         Tell("http.register_api",
              All(Each({"route", "handler_capability", "description"}, Str)
                    @@ [methods |-> Texts]))
    @@ "HTTPClient.unregister_api" :>
         Tell("http.unregister_api", All([route |-> Str, methods |-> Texts]))
    @@ "HTTPClient.list_apis" :> Tell("http.list_apis", NoPayload)

SkillClientCalls ==
  "SkillClient.register" :>
         Tell("skill.register", All(Each({"name", "path", "description"}, Str)))
    @@ "SkillClient.unregister" :> Tell("skill.unregister", All([name |-> Str]))
    @@ "SkillClient.list" :>
         Invoke("skill.list", NoPayload, Optional([skills |-> Array(Anything)]))

PermissionClientCalls ==
  "PermissionClient.check" :>
         Invoke("permission.check", Object([user_id |-> Str], [session_id |-> Str]),
                Model([is_admin |-> Boolean, role |-> OneOf({"member", "admin"})],
                      NoFields))
    @@ "PermissionClient.get_admins" :> Tell("permission.get_admins", NoPayload)

AdminPayload == All([user_id |-> Str, _caller_is_admin |-> Boolean])
PermissionManagerCalls ==
  "PermissionManagerClient.add_admin" :> Tell("permission.manager.add_admin", AdminPayload)
    @@ "PermissionManagerClient.remove_admin" :>
         Tell("permission.manager.remove_admin", AdminPayload)

MetadataClientCalls ==
  "MetadataClient.get_plugin" :>
         Invoke("metadata.get_plugin", All([name |-> Str]),
                Optional([plugin |-> Nullable(Dict)]))
    @@ "MetadataClient.list_plugins" :>
         Invoke("metadata.list_plugins", NoPayload, Optional([plugins |-> Array(Anything)]))
    @@ "MetadataClient.get_plugin_config" :>
         Tell("metadata.get_plugin_config", All([name |-> Str]))
    @@ "MetadataClient.save_plugin_config" :>
         Tell("metadata.save_plugin_config", All([config |-> Dict]))

\* HandlerMetadata.from_dict loops over event_types and group_path.
HandlerMetadata == Optional(Each({"event_types", "group_path"}, Array(Anything)))
RegistryClientCalls ==
  "RegistryClient.get_handlers_by_event_type" :>
         Invoke("registry.get_handlers_by_event_type", All([event_type |-> Str]),
                Optional([handlers |-> Array(HandlerMetadata)]))
    @@ "RegistryClient.get_handler_by_full_name" :>
         Invoke("registry.get_handler_by_full_name", All([full_name |-> Str]),
                Optional([handler |-> Nullable(HandlerMetadata)]))
    @@ "RegistryClient.set_handler_whitelist" :>
         Tell("system.event.handler_whitelist.set", All([plugin_names |-> Nullable(Texts)]))
    @@ "RegistryClient.get_handler_whitelist" :>
         Tell("system.event.handler_whitelist.get", NoPayload)

\* _handler_to_payload: every field of HandlerMetadata except required_role.
HandlerPayload ==
  All(Each({"plugin_name", "handler_full_name", "trigger_type", "kind"}, Str)
        @@ Each({"event_types", "group_path"}, Texts)
        @@ Each({"enabled", "require_admin"}, Boolean)
        @@ [description |-> MaybeText, priority |-> Integer])
SessionPluginCalls ==
  "SessionPluginManager.is_plugin_enabled_for_session" :>
         Tell("session.plugin.is_enabled", All([session |-> Str, plugin_name |-> Str]))
    @@ "SessionPluginManager.filter_handlers_by_session" :>
         Invoke("session.plugin.filter_handlers",
                All([session |-> Str, handlers |-> Array(HandlerPayload)]),
                Optional([handlers |-> Array(HandlerMetadata)]))

SwitchPayload == All([session |-> Str, enabled |-> Boolean])
SessionServiceCalls ==
  "SessionServiceManager.is_llm_enabled_for_session" :>
         Tell("session.service.is_llm_enabled", All([session |-> Str]))
    @@ "SessionServiceManager.set_llm_status_for_session" :>
         Tell("session.service.set_llm_status", SwitchPayload)
    @@ "SessionServiceManager.is_tts_enabled_for_session" :>
         Tell("session.service.is_tts_enabled", All([session |-> Str]))
    @@ "SessionServiceManager.set_tts_status_for_session" :>
         Tell("session.service.set_tts_status", SwitchPayload)

-----------------------------------------------------------------------------
(* events, platform, context *)

\* SessionRef.to_payload; send(), send_image() and send_chain() add it only
\* for a SessionRef, the events always name it.
SessionTarget == Object([conversation_id |-> Str], [platform |-> Str, raw |-> Dict])
EventCalls ==
  "MessageEvent.react" :>
         Tell("system.event.react", All([target |-> Nullable(SessionTarget), emoji |-> Str]))
    @@ "MessageEvent.send_typing" :>
         Tell("system.event.send_typing", All([target |-> Nullable(SessionTarget)]))
    @@ "MessageEvent.get_group" :>
         Tell("platform.get_group", All([session |-> Str, target |-> Nullable(SessionTarget)]))

StreamingCalls ==
  "MessageEvent.send_streaming" :>
         Tell("system.event.send_streaming",
              All([target |-> Nullable(SessionTarget), use_fallback |-> Boolean]))
    @@ "MessageEvent.send_streaming/chunk" :>
         Tell("system.event.send_streaming_chunk",
              All([stream_id |-> Str, chain |-> Array(Dict)]))
    @@ "MessageEvent.send_streaming/close" :>
         Tell("system.event.send_streaming_close", All([stream_id |-> Str]))

To(content) == Object([session |-> Str] @@ content, [target |-> SessionTarget])
PlatformClientCalls ==
  "PlatformClient.send" :> Tell("platform.send", To([text |-> Str]))
    @@ "PlatformClient.send_image" :> Tell("platform.send_image", To([image_url |-> Str]))
    @@ "PlatformClient.send_chain" :> Tell("platform.send_chain", To([chain |-> Array(Dict)]))
    @@ "PlatformClient.send_by_session" :>
         Tell("platform.send_by_session", All([session |-> Str, chain |-> Array(Dict)]))
    @@ "PlatformClient.get_members" :> Tell("platform.get_members", To(NoFields))

PlatformError == Model([message |-> Str, timestamp |-> Str], [traceback |-> MaybeText])
PlatformStats ==
  Model(Each({"id", "type", "display_name", "status"}, Str),
        [error_count |-> Integer, unified_webhook |-> Boolean, started_at |-> MaybeText,
         last_error |-> Nullable(PlatformError), meta |-> Dict])
PlatformFacadeCalls ==
  "PlatformCompatFacade.refresh" :>
         Invoke("platform.manager.get_by_id", All([platform_id |-> Str]),
                Optional([platform |->
                  Nullable(Optional([errors |-> Array(PlatformError),
                                     last_error |-> Nullable(PlatformError)]))]))
    @@ "PlatformCompatFacade.clear_errors" :>
         Tell("platform.manager.clear_errors", All([platform_id |-> Str]))
    @@ "PlatformCompatFacade.get_stats" :>
         Invoke("platform.manager.get_stats", All([platform_id |-> Str]),
                Optional([stats |-> Nullable(PlatformStats)]))

LLMResponse ==
  Object([text |-> Str],
         Each({"finish_reason", "role", "reasoning_content", "reasoning_signature"}, MaybeText)
           @@ [usage |-> Nullable(Dict), tool_calls |-> Array(Dict)])
\* ProviderRequest.to_payload, and the target of the event at hand.
ProviderRequest ==
  Object(Each({"contexts", "tool_calls_result"}, Array(Dict)) @@ [image_urls |-> Texts],
         Each({"prompt", "system_prompt", "session_id", "provider_id", "model"}, Str)
           @@ [tool_names |-> Texts, temperature |-> Number, max_steps |-> Integer,
               tool_call_timeout |-> Integer, target |-> Dict])
ContextCalls ==
  "Context.get_data_dir" :> Tell("system.get_data_dir", NoPayload)
    @@ "Context.text_to_image" :>
         Tell("system.text_to_image", All([text |-> Str, return_url |-> Boolean]))
    @@ "Context.html_render" :>
         Tell("system.html_render",
              All([tmpl |-> Str, data |-> Dict, return_url |-> Boolean,
                   options |-> Nullable(Dict)]))
    @@ "Context.get_current_chat_provider_id" :>
         Tell("provider.get_current_chat_provider_id", All([umo |-> MaybeText]))
\* The calls further down in context.py.
ContextToolCalls ==
  "Context.tool_loop_agent" :> Invoke("agent.tool_loop.run", ProviderRequest, LLMResponse)
    @@ "Context.register_commands" :>
         Tell("registry.command.register",
              All(Each({"command_name", "handler_full_name", "source_event_type", "desc"}, Str)
                    @@ Each({"use_regex", "ignore_prefix"}, Boolean)
                    @@ [priority |-> Integer]))
    @@ "Context.list_platforms" :> Tell("platform.list_instances", NoPayload)

WaiterCalls ==
  "SessionWaiterManager.register" :>
         Tell("system.session_waiter.register", All([session_key |-> Str]))
    @@ "SessionWaiterManager.unregister" :>
         Tell("system.session_waiter.unregister", All([session_key |-> Str]))

-----------------------------------------------------------------------------
(* llm, memory *)

\* _build_chat_payload.
ChatPayload ==
  Object([prompt |-> Str],
         Each({"system", "provider_id", "model"}, Str)
           @@ Each({"contexts", "tool_calls_result"}, Array(Dict))
           @@ [temperature |-> Number])
LLMClientCalls ==
  "LLMClient.chat" :> Tell("llm.chat", ChatPayload)
    @@ "LLMClient.chat_raw" :> Invoke("llm.chat_raw", ChatPayload, LLMResponse)
    @@ "LLMClient.stream_chat" :> Listen("llm.stream_chat", ChatPayload, Anything)

\* One record, of the namespace the client resolves.
Exact(payload) == All([namespace |-> Str] @@ payload)
MemoryRecordCalls ==
  "MemoryClient.save" :> Tell("memory.save", Exact([key |-> Str, value |-> Dict]))
    @@ "MemoryClient.get" :> Tell("memory.get", Exact([key |-> Str]))
    @@ "MemoryClient.list_keys" :> Tell("memory.list_keys", Exact(NoFields))
    @@ "MemoryClient.exists" :> Tell("memory.exists", Exact([key |-> Str]))
    @@ "MemoryClient.delete" :> Tell("memory.delete", Exact([key |-> Str]))
    @@ "MemoryClient.save_with_ttl" :>
         Tell("memory.save_with_ttl",
              Exact([key |-> Str, value |-> Dict, ttl_seconds |-> Integer]))
MemorySearchCalls ==
  "MemoryClient.search" :>
         Tell("memory.search",
              Object([query |-> Str, mode |-> OneOf({"auto", "keyword", "vector", "hybrid"}),
                      include_descendants |-> Boolean],
                     [limit |-> Integer, min_score |-> Number, provider_id |-> Str,
                      namespace |-> Str]))
\* The calls over many records; a count goes through int().
MemoryBulkCalls ==
  "MemoryClient.get_many" :> Tell("memory.get_many", Exact([keys |-> Texts]))
    @@ "MemoryClient.delete_many" :>
         Invoke("memory.delete_many", Exact([keys |-> Texts]),
                Optional([deleted_count |-> Number]))
    @@ "MemoryClient.clear_namespace" :>
         Invoke("memory.clear_namespace", Exact([include_descendants |-> Boolean]),
                Optional([deleted_count |-> Number]))
    @@ "MemoryClient.count" :>
         Invoke("memory.count", Exact([include_descendants |-> Boolean]),
                Optional([count |-> Number]))
    @@ "MemoryClient.stats" :>
         Tell("memory.stats",
              Object([include_descendants |-> Boolean], [namespace |-> Str]))

-----------------------------------------------------------------------------
(* clients/managers.py: the records are models that forbid a field they do *)
(* not declare.                                                            *)

PersonaRecord ==
  Model([persona_id |-> Str, system_prompt |-> Str],
        Each({"tools", "skills"}, Nullable(Texts))
          @@ Each({"custom_error_message", "folder_id", "created_at", "updated_at"}, MaybeText)
          @@ [begin_dialogs |-> Texts, sort_order |-> Integer])
\* to_payload: what is None is left out.
PersonaCreateParams ==
  Object([persona_id |-> Str, system_prompt |-> Str, begin_dialogs |-> Texts,
          sort_order |-> Integer],
         [tools |-> Texts, skills |-> Texts, custom_error_message |-> Str,
          folder_id |-> Str])
\* to_update_payload: what the caller set, a None included.
PersonaUpdateParams ==
  Optional(Each({"begin_dialogs", "tools", "skills"}, Nullable(Texts))
             @@ Each({"system_prompt", "custom_error_message"}, MaybeText))
PersonaCalls ==
  "PersonaManagerClient.get_persona" :>
         Invoke("persona.get", All([persona_id |-> Str]), All([persona |-> PersonaRecord]))
    @@ "PersonaManagerClient.get_all_personas" :>
         Invoke("persona.list", NoPayload, Optional([personas |-> Array(PersonaRecord)]))
    @@ "PersonaManagerClient.create_persona" :>
         Invoke("persona.create", All([persona |-> PersonaCreateParams]),
                All([persona |-> PersonaRecord]))
    @@ "PersonaManagerClient.update_persona" :>
         Invoke("persona.update", All([persona_id |-> Str, persona |-> PersonaUpdateParams]),
                Optional([persona |-> Nullable(PersonaRecord)]))
    @@ "PersonaManagerClient.delete_persona" :>
         Tell("persona.delete", All([persona_id |-> Str]))

ConversationRecord ==
  Model(Each({"conversation_id", "session", "platform_id"}, Str),
        Each({"title", "persona_id", "created_at", "updated_at"}, MaybeText)
          @@ [history |-> Array(Dict), token_usage |-> MaybeInteger])
ConversationCreateParams ==
  Optional(Each({"platform_id", "title", "persona_id"}, Str) @@ [history |-> Array(Dict)])
ConversationUpdateParams ==
  Optional([history |-> Nullable(Array(Dict)), title |-> MaybeText,
            persona_id |-> MaybeText, token_usage |-> MaybeInteger])
MaybeConversation == Optional([conversation |-> Nullable(ConversationRecord)])
ConversationCalls ==
  "ConversationManagerClient.new_conversation" :>
         Tell("conversation.new",
              All([session |-> Str, conversation |-> ConversationCreateParams]))
    @@ "ConversationManagerClient.switch_conversation" :>
         Tell("conversation.switch", All([session |-> Str, conversation_id |-> Str]))
    @@ "ConversationManagerClient.delete_conversation" :>
         Tell("conversation.delete", All([session |-> Str, conversation_id |-> MaybeText]))
    @@ "ConversationManagerClient.get_conversation" :>
         Invoke("conversation.get",
                All([session |-> Str, conversation_id |-> Str,
                     create_if_not_exists |-> Boolean]), MaybeConversation)
    @@ "ConversationManagerClient.get_current_conversation" :>
         Invoke("conversation.get_current",
                All([session |-> Str, create_if_not_exists |-> Boolean]), MaybeConversation)
    @@ "ConversationManagerClient.get_conversations" :>
         Invoke("conversation.list", All([session |-> MaybeText, platform_id |-> MaybeText]),
                Optional([conversations |-> Array(ConversationRecord)]))
    @@ "ConversationManagerClient.update_conversation" :>
         Tell("conversation.update",
              All([session |-> Str, conversation_id |-> MaybeText,
                   conversation |-> ConversationUpdateParams]))
    @@ "ConversationManagerClient.unset_persona" :>
         Tell("conversation.unset_persona", All([session |-> Str, conversation_id |-> MaybeText]))

\* _require_message_history_session; a MessageSession lower-cases its type.
HistorySession ==
  All([platform_id |-> Str, session_id |-> Str,
       message_type |-> OneOf({"group", "private", "other"})])
\* MessageHistorySender.to_payload and what it reads.
HistorySender == Optional([sender_id |-> Str, sender_name |-> Str])
MessageHistorySender == Model(NoFields, Each({"sender_id", "sender_name"}, MaybeText))
\* _normalize_payload takes metadata that is no object as an empty one.
MessageHistoryRecord ==
  Model([id |-> Integer, session |-> Dict],
        Each({"created_at", "updated_at", "idempotency_key"}, MaybeText)
          @@ [sender |-> Nullable(MessageHistorySender), parts |-> Array(Anything),
              metadata |-> Anything])
MessageHistoryPage ==
  Model(NoFields, [records |-> Array(MessageHistoryRecord), next_cursor |-> MaybeText,
                   total |-> MaybeInteger])
MaybeHistoryRecord == Optional([record |-> Nullable(MessageHistoryRecord)])
DeletedCount == Optional([deleted_count |-> Nullable(Number)])
HistoryCalls ==
  "MessageHistoryManagerClient.list" :>
         Invoke("message_history.list",
                All([session |-> HistorySession, cursor |-> MaybeText, limit |-> Integer]),
                All([page |-> MessageHistoryPage]))
    @@ "MessageHistoryManagerClient.get_by_id" :>
         Invoke("message_history.get_by_id",
                All([session |-> HistorySession, record_id |-> Integer]), MaybeHistoryRecord)
    @@ "MessageHistoryManagerClient.append" :>
         Invoke("message_history.append",
                All([session |-> HistorySession, sender |-> HistorySender,
                     parts |-> Array(Dict), metadata |-> Dict,
                     idempotency_key |-> MaybeText]),
                All([record |-> MessageHistoryRecord]))
    @@ "MessageHistoryManagerClient.delete_before" :>
         Invoke("message_history.delete_before",
                All([session |-> HistorySession, before |-> Str]), DeletedCount)
    @@ "MessageHistoryManagerClient.delete_after" :>
         Invoke("message_history.delete_after",
                All([session |-> HistorySession, after |-> Str]), DeletedCount)
    @@ "MessageHistoryManagerClient.delete_all" :>
         Invoke("message_history.delete_all", All([session |-> HistorySession]), DeletedCount)
KbSizes == {"chunk_size", "chunk_overlap", "top_k_dense", "top_k_sparse", "top_m_final"}
KnowledgeBaseRecord ==
  Model(Each({"kb_id", "kb_name", "embedding_provider_id"}, Str),
        Each({"description", "emoji", "rerank_provider_id", "created_at", "updated_at"},
             MaybeText)
          @@ Each(KbSizes, MaybeInteger)
          @@ [doc_count |-> Integer, chunk_count |-> Integer])
KnowledgeBaseCreateParams ==
  Object([kb_name |-> Str, embedding_provider_id |-> Str],
         Each({"description", "emoji", "rerank_provider_id"}, Str) @@ Each(KbSizes, Integer))
KnowledgeBaseUpdateParams ==
  Optional(Each({"kb_name", "embedding_provider_id", "description", "emoji",
                 "rerank_provider_id"}, MaybeText)
             @@ Each(KbSizes, MaybeInteger))
MaybeKb == Optional([kb |-> Nullable(KnowledgeBaseRecord)])
\* KnowledgeBaseRetrieveResult.from_payload reads its items as models.
RetrieveResultItem ==
  Model(Each({"chunk_id", "doc_id", "kb_id", "kb_name", "doc_name", "content"}, Str)
          @@ [chunk_index |-> Integer, char_count |-> Integer, score |-> Number], NoFields)
KbCalls ==
  "KnowledgeBaseManagerClient.list_kbs" :>
         Invoke("kb.list", NoPayload, Optional([kbs |-> Array(KnowledgeBaseRecord)]))
    @@ "KnowledgeBaseManagerClient.get_kb" :> Invoke("kb.get", All([kb_id |-> Str]), MaybeKb)
    @@ "KnowledgeBaseManagerClient.create_kb" :>
         Invoke("kb.create", All([kb |-> KnowledgeBaseCreateParams]),
                All([kb |-> KnowledgeBaseRecord]))
    @@ "KnowledgeBaseManagerClient.update_kb" :>
         Invoke("kb.update", All([kb_id |-> Str, kb |-> KnowledgeBaseUpdateParams]), MaybeKb)
    @@ "KnowledgeBaseManagerClient.delete_kb" :> Tell("kb.delete", All([kb_id |-> Str]))
    @@ "KnowledgeBaseManagerClient.retrieve" :>
         Invoke("kb.retrieve",
                Object([query |-> Str, kb_ids |-> Texts, kb_names |-> Texts],
                       [top_k_fusion |-> Integer, top_m_final |-> Integer]),
                Optional([result |->
                  Nullable(Optional([results |-> Array(RetrieveResultItem)]))]))

KnowledgeBaseDocumentRecord ==
  Model(Each({"doc_id", "kb_id", "doc_name", "file_type"}, Str) @@ [file_size |-> Integer],
        Each({"chunk_count", "media_count"}, Integer)
          @@ Each({"created_at", "updated_at"}, MaybeText) @@ [file_path |-> Str])
KnowledgeBaseDocumentUploadParams ==
  Optional(Each({"file_token", "url", "text", "file_name", "file_type",
                 "cleaning_provider_id"}, Str)
             @@ Each({"chunk_size", "chunk_overlap", "batch_size", "tasks_limit",
                      "max_retries"}, Integer)
             @@ [enable_cleaning |-> Boolean])
MaybeDocument == Optional([document |-> Nullable(KnowledgeBaseDocumentRecord)])
DocumentPayload == All([kb_id |-> Str, doc_id |-> Str])
KbDocumentCalls ==
  "KnowledgeBaseManagerClient.upload_document" :>
         Invoke("kb.document.upload",
                All([kb_id |-> Str, document |-> KnowledgeBaseDocumentUploadParams]),
                All([document |-> KnowledgeBaseDocumentRecord]))
    @@ "KnowledgeBaseManagerClient.list_documents" :>
         Invoke("kb.document.list", All([kb_id |-> Str, offset |-> Integer, limit |-> Integer]),
                Optional([documents |-> Array(KnowledgeBaseDocumentRecord)]))
    @@ "KnowledgeBaseManagerClient.get_document" :>
         Invoke("kb.document.get", DocumentPayload, MaybeDocument)
    @@ "KnowledgeBaseManagerClient.delete_document" :>
         Tell("kb.document.delete", DocumentPayload)
    @@ "KnowledgeBaseManagerClient.refresh_document" :>
         Invoke("kb.document.refresh", DocumentPayload, MaybeDocument)

-----------------------------------------------------------------------------
(* clients/provider.py, llm/providers.py, llm/tools.py *)

ProviderMeta ==
  Model([id |-> Str, type |-> Str], [model |-> MaybeText, provider_type |-> OneOf(ProviderKinds)])
ProviderList == Optional([providers |-> Array(ProviderMeta)])
MaybeProvider == Optional([provider |-> Nullable(ProviderMeta)])
ProviderClientCalls ==
  "ProviderClient.list_all" :> Invoke("provider.list_all", NoPayload, ProviderList)
    @@ "ProviderClient.list_tts" :> Invoke("provider.list_all_tts", NoPayload, ProviderList)
    @@ "ProviderClient.list_stt" :> Invoke("provider.list_all_stt", NoPayload, ProviderList)
    @@ "ProviderClient.list_embedding" :>
         Invoke("provider.list_all_embedding", NoPayload, ProviderList)
    @@ "ProviderClient.list_rerank" :> Invoke("provider.list_all_rerank", NoPayload, ProviderList)
    @@ "ProviderClient.get/support_stream" :>
         Tell("provider.tts.support_stream", All([provider_id |-> Str]))
    @@ "ProviderClient.get" :>
         Invoke("provider.get_by_id", All([provider_id |-> Str]), MaybeProvider)
    @@ "ProviderClient.get_using_chat" :>
         Invoke("provider.get_using", All([umo |-> MaybeText]), MaybeProvider)
    @@ "ProviderClient.get_using_tts" :>
         Invoke("provider.get_using_tts", All([umo |-> MaybeText]), MaybeProvider)
    @@ "ProviderClient.get_using_stt" :>
         Invoke("provider.get_using_stt", All([umo |-> MaybeText]), MaybeProvider)

ManagedProviderRecord ==
  Model([id |-> Str, type |-> Str, provider_type |-> OneOf(ProviderKinds), loaded |-> Boolean,
         enabled |-> Boolean],
        Each({"model", "provider_source_id"}, MaybeText))
ProviderChangeEvent ==
  Model([provider_id |-> Str, provider_type |-> OneOf(ProviderKinds)], [umo |-> MaybeText])
MaybeManaged == Optional([provider |-> Nullable(ManagedProviderRecord)])
ProviderManagerCalls ==
  "ProviderManagerClient.set_provider" :>
         Tell("provider.manager.set",
              All([provider_id |-> Str, provider_type |-> Str, umo |-> MaybeText]))
    @@ "ProviderManagerClient.get_provider_by_id" :>
         Invoke("provider.manager.get_by_id", All([provider_id |-> Str]), MaybeManaged)
    @@ "ProviderManagerClient.get_merged_provider_config" :>
         Tell("provider.manager.get_merged_provider_config", All([provider_id |-> Str]))
    @@ "ProviderManagerClient.load_provider" :>
         Invoke("provider.manager.load", All([provider_config |-> Dict]), MaybeManaged)
    @@ "ProviderManagerClient.terminate_provider" :>
         Tell("provider.manager.terminate", All([provider_id |-> Str]))
    @@ "ProviderManagerClient.create_provider" :>
         Invoke("provider.manager.create", All([provider_config |-> Dict]), MaybeManaged)
    @@ "ProviderManagerClient.update_provider" :>
         Invoke("provider.manager.update",
                All([origin_provider_id |-> Str, new_config |-> Dict]), MaybeManaged)
    @@ "ProviderManagerClient.delete_provider" :>
         Tell("provider.manager.delete", All(Each({"provider_id", "provider_source_id"}, MaybeText)))
    @@ "ProviderManagerClient.get_insts" :>
         Invoke("provider.manager.get_insts", NoPayload,
                Optional([providers |-> Array(ManagedProviderRecord)]))
    @@ "ProviderManagerClient.watch_changes" :>
         Listen("provider.manager.watch_changes", NoPayload, ProviderChangeEvent)

SpeechCalls ==
  "STTProvider.get_text" :>
         Tell("provider.stt.get_text", All([provider_id |-> Str, audio_url |-> Str]))
    @@ "TTSProvider.get_audio" :>
         Tell("provider.tts.get_audio", All([provider_id |-> Str, text |-> Str]))
    @@ "TTSProvider.get_audio_stream" :>
         Listen("provider.tts.get_audio_stream", All([provider_id |-> Str, text |-> Str]), Anything)
    @@ "TTSProvider.get_audio_stream/chunks" :>
         Listen("provider.tts.get_audio_stream",
                All([provider_id |-> Str, text_chunks |-> Texts]), Anything)

RerankResult == Model([index |-> Integer, score |-> Number, document |-> Str], NoFields)
EmbeddingCalls ==
  "EmbeddingProvider.get_embedding" :>
         Invoke("provider.embedding.get_embedding", All([provider_id |-> Str, text |-> Str]),
                Optional([embedding |-> Array(Number)]))
    @@ "EmbeddingProvider.get_embeddings" :>
         Invoke("provider.embedding.get_embeddings", All([provider_id |-> Str, texts |-> Texts]),
                Optional([embeddings |-> Array(Array(Number))]))
    @@ "EmbeddingProvider.get_dim" :>
         Invoke("provider.embedding.get_dim", All([provider_id |-> Str]),
                Optional([dim |-> Number]))
    @@ "RerankProvider.rerank" :>
         Invoke("provider.rerank.rerank",
                All([provider_id |-> Str, query |-> Str, documents |-> Texts,
                     top_n |-> MaybeInteger]),
                Optional([results |-> Array(RerankResult)]))

LLMToolSpec ==
  Model([name |-> Str],
        [description |-> Str, parameters_schema |-> Dict, active |-> Boolean,
         handler_ref |-> MaybeText, handler_capability |-> MaybeText])
\* LLMToolSpec.to_payload.
LLMToolPayload ==
  Object([name |-> Str, description |-> Str, parameters_schema |-> Dict, active |-> Boolean],
         [handler_ref |-> Str, handler_capability |-> Str])
LLMToolCalls ==
  "LLMToolManager.list_registered" :>
         Invoke("llm_tool.manager.get", NoPayload, Optional([registered |-> Array(LLMToolSpec)]))
    @@ "LLMToolManager.list_active" :>
         Invoke("llm_tool.manager.get", NoPayload, Optional([active |-> Array(LLMToolSpec)]))
    @@ "LLMToolManager.activate" :> Tell("llm_tool.manager.activate", All([name |-> Str]))
    @@ "LLMToolManager.deactivate" :> Tell("llm_tool.manager.deactivate", All([name |-> Str]))
    @@ "LLMToolManager.add" :>
         Tell("llm_tool.manager.add", All([tools |-> Array(LLMToolPayload)]))
    @@ "LLMToolManager.remove" :> Tell("llm_tool.manager.remove", All([name |-> Str]))

-----------------------------------------------------------------------------
ClientCalls ==
  DBClientCalls @@ HTTPClientCalls @@ SkillClientCalls @@ PermissionClientCalls
    @@ PermissionManagerCalls @@ MetadataClientCalls @@ RegistryClientCalls
    @@ SessionPluginCalls @@ SessionServiceCalls @@ EventCalls @@ StreamingCalls
    @@ PlatformClientCalls @@ PlatformFacadeCalls @@ ContextCalls @@ ContextToolCalls
    @@ WaiterCalls @@ LLMClientCalls @@ MemoryRecordCalls @@ MemorySearchCalls
    @@ MemoryBulkCalls @@ PersonaCalls @@ ConversationCalls @@ HistoryCalls @@ KbCalls
    @@ KbDocumentCalls @@ ProviderClientCalls @@ ProviderManagerCalls @@ SpeechCalls
    @@ EmbeddingCalls @@ LLMToolCalls
=============================================================================
