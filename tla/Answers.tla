------------------------------ MODULE Answers ------------------------------
(***************************************************************************)
(* What the handler of each built-in capability answers                    *)
(* (in runtime/_capability_router_builtins/capabilities): the shape of the *)
(* records it keeps and of the object it returns.  A handler that only     *)
(* acknowledges answers with an empty object.  Whatever a plugin or a      *)
(* configuration put into a record unchecked is an object of any content.  *)
(***************************************************************************)
EXTENDS Schemas

\* One of several forms of answer to a call.
Replies(forms) == [stream |-> FALSE, forms |-> forms, chunk |-> Anything]
Reply(form) == Replies({form})
Done == Reply(All(NoFields))
\* The chunks of a stream and what finalize makes of them when it ends; a
\* subscription's iterator never ends by itself.
Streams(chunk, forms) == [stream |-> TRUE, forms |-> forms, chunk |-> chunk]
Subscription(chunk) == Streams(chunk, {})

LlmAnswers ==
  "llm.chat" :> Reply(All([text |-> Str]))
    @@ "llm.chat_raw" :>
         Reply(All([text |-> Str, usage |-> Dict, finish_reason |-> Str,
                    tool_calls |-> Array(Dict)]))
    @@ "llm.stream_chat" :> Streams(All([text |-> Str]), {All([text |-> Str])})

\* MemorySearchResult.to_payload: the root namespace is not shown.
SearchItem ==
  Object([key |-> Str, value |-> Dict, score |-> Number,
          match_type |-> OneOf({"keyword", "vector", "hybrid"})], [namespace |-> Str])
MemoryAnswers ==
  "memory.search" :> Reply(All([items |-> Array(SearchItem)]))
    @@ "memory.save" :> Done
    @@ "memory.get" :> Reply(All([value |-> Nullable(Dict)]))
    @@ "memory.list_keys" :> Reply(All([keys |-> Texts]))
    @@ "memory.exists" :> Reply(All([exists |-> Boolean]))
    @@ "memory.delete" :> Done
    @@ "memory.clear_namespace" :> Reply(All([deleted_count |-> Integer]))
    @@ "memory.save_with_ttl" :> Done
    @@ "memory.get_many" :>
         Reply(All([items |-> Array(All([key |-> Str, value |-> Nullable(Dict)]))]))
    @@ "memory.delete_many" :> Reply(All([deleted_count |-> Integer]))
    @@ "memory.count" :> Reply(All([count |-> Integer]))
    @@ "memory.stats" :>
         Reply(All(Each({"total_items", "total_bytes", "ttl_entries", "namespace_count",
                         "indexed_items", "embedded_items", "dirty_items"}, Integer)
                     @@ Each({"vector_backend", "plugin_id"}, Str)
                     @@ [namespace |-> MaybeText, fts_enabled |-> Boolean,
                         vector_indexes |-> Array(Dict)]))

\* What was stored under a key may be any JSON value but null.
DbAnswers ==
  "db.get" :> Reply(All([value |-> Nullable(Anything)]))
    @@ "db.set" :> Done
    @@ "db.delete" :> Done
    @@ "db.list" :> Reply(All([keys |-> Texts]))
    @@ "db.get_many" :>
         Reply(All([items |-> Array(All([key |-> Str, value |-> Nullable(Anything)]))]))
    @@ "db.set_many" :> Done
    @@ "db.watch" :>
         Subscription(All([op |-> OneOf({"set", "delete"}), key |-> Str,
                           value |-> Nullable(Anything)]))

SystemAnswers ==
  "system.get_data_dir" :> Reply(All([path |-> Str]))
    @@ "system.text_to_image" :> Reply(All([result |-> Str]))
    @@ "system.html_render" :> Reply(All([result |-> Str]))
    @@ "system.event.handler_whitelist.get" :> Reply(All([plugin_names |-> Nullable(Texts)]))
    @@ "system.event.handler_whitelist.set" :> Reply(All([plugin_names |-> Nullable(Texts)]))
\* A handler's record: as the plugin published it, or made of a dynamic route.
HandlerRecord ==
  Object(Each({"plugin_name", "handler_full_name", "trigger_type", "kind"}, Str)
           @@ Each({"event_types", "group_path"}, Texts)
           @@ Each({"enabled", "require_admin"}, Boolean)
           @@ [description |-> MaybeText, priority |-> Integer],
         [required_role |-> MaybeText])
RegistryAnswers ==
  "registry.get_handlers_by_event_type" :> Reply(All([handlers |-> Array(HandlerRecord)]))
    @@ "registry.get_handler_by_full_name" :>
         Reply(All([handler |-> Nullable(HandlerRecord)]))
    @@ "registry.command.register" :> Done
    @@ "system.session_waiter.register" :> Done
    @@ "system.session_waiter.unregister" :> Done
EventAnswers ==
  "system.event.react" :> Reply(All([supported |-> Boolean]))
    @@ "system.event.send_typing" :> Reply(All([supported |-> Boolean]))
    @@ "system.event.send_streaming" :>
         Reply(All([supported |-> Boolean, stream_id |-> Str]))
    @@ "system.event.send_streaming_chunk" :> Done
    @@ "system.event.send_streaming_close" :> Reply(All([supported |-> Boolean]))

\* _mock_group_payload; a private session has no group.
GroupPayload ==
  All(Each({"group_id", "group_name", "group_avatar", "group_owner"}, Str)
        @@ [group_admins |-> Texts, members |-> Array(Dict)])
PlatformAnswers ==
  [name \in {"platform.send", "platform.send_image", "platform.send_chain",
             "platform.send_by_session"} |-> Reply(All([message_id |-> Str]))]
    @@ "platform.get_group" :> Reply(All([group |-> Nullable(GroupPayload)]))
    @@ "platform.get_members" :> Reply(All([members |-> Array(Dict)]))
    @@ "platform.list_instances" :>
         Reply(All([platforms |-> Array(All(Each({"id", "name", "type", "status"}, Str)))]))

PermissionAnswers ==
  "permission.check" :>
       Reply(All([is_admin |-> Boolean, role |-> OneOf({"member", "admin"})]))
    @@ "permission.get_admins" :> Reply(All([admins |-> Texts]))
    @@ "permission.manager.add_admin" :> Reply(All([changed |-> Boolean]))
    @@ "permission.manager.remove_admin" :> Reply(All([changed |-> Boolean]))

SessionAnswers ==
  "session.plugin.is_enabled" :> Reply(All([enabled |-> Boolean]))
    @@ "session.plugin.filter_handlers" :> Reply(All([handlers |-> Array(HandlerRecord)]))
    @@ "session.service.is_llm_enabled" :> Reply(All([enabled |-> Boolean]))
    @@ "session.service.set_llm_status" :> Done
    @@ "session.service.is_tts_enabled" :> Reply(All([enabled |-> Boolean]))
    @@ "session.service.set_tts_status" :> Done

HttpAnswers ==
  "http.register_api" :> Done
    @@ "http.unregister_api" :> Done
    @@ "http.list_apis" :>
         Reply(All([apis |-> Array(All(Each({"route", "handler_capability", "description",
                                             "plugin_id"}, Str)
                                         @@ [methods |-> Texts]))]))

SkillRecord == All(Each({"name", "description", "path", "skill_dir"}, Str))
SkillAnswers ==
  "skill.register" :> Reply(SkillRecord)
    @@ "skill.unregister" :> Reply(All([removed |-> Boolean]))
    @@ "skill.list" :> Reply(All([skills |-> Array(SkillRecord)]))

MetadataAnswers ==
  "metadata.get_plugin" :> Reply(All([plugin |-> Nullable(Dict)]))
    @@ "metadata.list_plugins" :> Reply(All([plugins |-> Array(Dict)]))
    @@ "metadata.get_plugin_config" :> Reply(All([config |-> Nullable(Dict)]))
    @@ "metadata.save_plugin_config" :> Reply(All([config |-> Nullable(Dict)]))

-----------------------------------------------------------------------------
(* personas, conversations, message history, knowledge bases *)

StoredPersona ==
  All(Each({"persona_id", "system_prompt", "created_at", "updated_at"}, Str)
        @@ Each({"custom_error_message", "folder_id"}, MaybeText)
        @@ Each({"tools", "skills"}, Nullable(Texts))
        @@ [begin_dialogs |-> Texts, sort_order |-> Integer])
PersonaAnswers ==
  "persona.get" :> Reply(All([persona |-> StoredPersona]))
    @@ "persona.list" :> Reply(All([personas |-> Array(StoredPersona)]))
    @@ "persona.create" :> Reply(All([persona |-> StoredPersona]))
    @@ "persona.update" :> Reply(All([persona |-> Nullable(StoredPersona)]))
    @@ "persona.delete" :> Done

StoredConversation ==
  All(Each({"conversation_id", "session", "platform_id", "created_at", "updated_at"}, Str)
        @@ Each({"title", "persona_id"}, MaybeText)
        @@ [history |-> Array(Dict), token_usage |-> MaybeInteger])
ConversationAnswers ==
  "conversation.new" :> Reply(All([conversation_id |-> Str]))
    @@ [name \in {"conversation.switch", "conversation.delete", "conversation.update",
                  "conversation.unset_persona"} |-> Done]
    @@ [name \in {"conversation.get", "conversation.get_current"} |->
          Reply(All([conversation |-> Nullable(StoredConversation)]))]
    @@ "conversation.list" :> Reply(All([conversations |-> Array(StoredConversation)]))

\* _serialize_record.
StoredMessage ==
  All([id |-> Integer,
       session |-> All([platform_id |-> Str, session_id |-> Str,
                        message_type |-> OneOf({"group", "private", "other"})]),
       sender |-> All(Each({"sender_id", "sender_name"}, MaybeText)),
       parts |-> Array(Dict), metadata |-> Dict]
        @@ Each({"created_at", "updated_at"}, Str) @@ [idempotency_key |-> MaybeText])
HistoryAnswers ==
  "message_history.list" :>
       Reply(All([page |-> All([records |-> Array(StoredMessage), next_cursor |-> MaybeText,
                                total |-> Integer])]))
    @@ "message_history.get_by_id" :> Reply(All([record |-> Nullable(StoredMessage)]))
    @@ "message_history.append" :> Reply(All([record |-> StoredMessage]))
    @@ [name \in {"message_history.delete_before", "message_history.delete_after",
                  "message_history.delete_all"} |-> Reply(All([deleted_count |-> Integer]))]

\* create makes strings of the name and of the embedding provider; an update
\* stores a null that it is given.
KbRecord(name) ==
  All(Each({"kb_id", "created_at", "updated_at"}, Str)
        @@ Each({"kb_name", "embedding_provider_id"}, name)
        @@ Each({"description", "emoji", "rerank_provider_id"}, MaybeText)
        @@ Each({"chunk_size", "chunk_overlap", "top_k_dense", "top_k_sparse",
                 "top_m_final"}, MaybeInteger)
        @@ Each({"doc_count", "chunk_count"}, Integer))
CreatedKb == KbRecord(Str)
StoredKb == KbRecord(MaybeText)
RetrievedChunk ==
  All(Each({"chunk_id", "doc_id", "kb_id", "kb_name", "doc_name", "content"}, Str)
        @@ Each({"chunk_index", "char_count"}, Integer) @@ [score |-> Number])
KbAnswers ==
  "kb.list" :> Reply(All([kbs |-> Array(StoredKb)]))
    @@ "kb.get" :> Reply(All([kb |-> Nullable(StoredKb)]))
    @@ "kb.create" :> Reply(All([kb |-> CreatedKb]))
    @@ "kb.update" :> Reply(All([kb |-> Nullable(StoredKb)]))
    @@ "kb.delete" :> Reply(All([deleted |-> Boolean]))
    @@ "kb.retrieve" :>
         Reply(All([result |-> Nullable(All([context_text |-> Str,
                                             results |-> Array(RetrievedChunk)]))]))

StoredDocument ==
  All(Each({"doc_id", "kb_id", "doc_name", "file_type", "file_path", "created_at",
            "updated_at"}, Str)
        @@ Each({"file_size", "chunk_count", "media_count"}, Integer))
KbDocumentAnswers ==
  "kb.document.upload" :> Reply(All([document |-> StoredDocument]))
    @@ "kb.document.list" :> Reply(All([documents |-> Array(StoredDocument)]))
    @@ "kb.document.get" :> Reply(All([document |-> Nullable(StoredDocument)]))
    @@ "kb.document.delete" :> Reply(All([deleted |-> Boolean]))
    @@ "kb.document.refresh" :> Reply(All([document |-> Nullable(StoredDocument)]))
-----------------------------------------------------------------------------
(* providers, platform instances, LLM tools, agents *)

\* _provider_kind_from_type takes a provider_type in any case, and what was
\* given is what is stored.
KindAsGiven ==
  OneOf({"chat_completion", "speech_to_text", "text_to_speech", "embedding", "rerank",
         "CHAT_COMPLETION"})
CatalogItem ==
  All([id |-> Str, model |-> MaybeText, type |-> Str, provider_type |-> KindAsGiven])
ProviderQueryAnswers ==
  [name \in {"provider.get_using", "provider.get_by_id", "provider.get_using_tts",
             "provider.get_using_stt"} |-> Reply(All([provider |-> Nullable(CatalogItem)]))]
    @@ [name \in {"provider.list_all", "provider.list_all_tts", "provider.list_all_stt",
                  "provider.list_all_embedding", "provider.list_all_rerank"} |->
          Reply(All([providers |-> Array(CatalogItem)]))]
    @@ "provider.get_current_chat_provider_id" :> Reply(All([provider_id |-> MaybeText]))

SpeechChunk == All([audio_base64 |-> Str, text |-> MaybeText])
SpeechAnswers ==
  "provider.stt.get_text" :> Reply(All([text |-> Str]))
    @@ "provider.tts.get_audio" :> Reply(All([audio_path |-> Str]))
    @@ "provider.tts.support_stream" :> Reply(All([supported |-> Boolean]))
    @@ "provider.tts.get_audio_stream" :> Streams(SpeechChunk, {SpeechChunk})
    @@ "provider.embedding.get_embedding" :> Reply(All([embedding |-> Array(Number)]))
    @@ "provider.embedding.get_embeddings" :> Reply(All([embeddings |-> Array(Array(Number))]))
    @@ "provider.embedding.get_dim" :> Reply(All([dim |-> Integer]))
    @@ "provider.rerank.rerank" :>
         Reply(All([results |->
           Array(All([index |-> Integer, score |-> Number, document |-> Str]))]))

\* _managed_provider_record and _emit_provider_change.
ManagedItem ==
  All([id |-> Str, model |-> MaybeText, type |-> Str, provider_type |-> KindAsGiven,
       loaded |-> Boolean, enabled |-> Boolean, provider_source_id |-> MaybeText])
ProviderChange ==
  All([provider_id |-> Str, provider_type |-> KindAsGiven, umo |-> MaybeText])
ProviderManagerAnswers ==
  [name \in {"provider.manager.set", "provider.manager.terminate",
             "provider.manager.delete"} |-> Done]
    @@ [name \in {"provider.manager.get_by_id", "provider.manager.load",
                  "provider.manager.create", "provider.manager.update"} |->
          Reply(All([provider |-> Nullable(ManagedItem)]))]
    @@ "provider.manager.get_merged_provider_config" :>
         Reply(All([config |-> Nullable(Dict)]))
    @@ "provider.manager.get_insts" :> Reply(All([providers |-> Array(ManagedItem)]))
    @@ "provider.manager.watch_changes" :> Subscription(ProviderChange)

\* The platform the router is built with, before and after clear_errors.
\* (set_platform_instances, which nothing in src/ calls, is left out.)
SeededPlatform == Each({"id", "name", "type", "status"}, Str)
ClearedPlatform == SeededPlatform @@ [errors |-> Array(Dict), last_error |-> Nullable(Dict)]
PlatformManagerAnswers ==
  "platform.manager.get_by_id" :>
       Replies({All([platform |-> Nullable(All(SeededPlatform))]),
                All([platform |-> All(ClearedPlatform)])})
    @@ "platform.manager.clear_errors" :> Done
    @@ "platform.manager.get_stats" :>
         Reply(All([stats |->
           Nullable(All(Each({"id", "type", "display_name", "status"}, Str)
                          @@ [started_at |-> MaybeText, error_count |-> Integer,
                              last_error |-> Nullable(All([message |-> Str, timestamp |-> Str])),
                              unified_webhook |-> Boolean, meta |-> Dict]))]))

\* A tool the plugin added itself, and one its worker published.
AddedTool ==
  Object([name |-> Str, description |-> Str, parameters_schema |-> Dict, active |-> Boolean],
         [handler_ref |-> Str, handler_capability |-> Str])
PublishedTool == [AddedTool EXCEPT !.required = @ \cup {"plugin_id"},
                                   !.properties = @ @@ [plugin_id |-> Str]]
LlmToolAnswers ==
  "llm_tool.manager.get" :>
       Replies({All([registered |-> Array(tool), active |-> Array(tool)]) :
                  tool \in {AddedTool, PublishedTool}})
    @@ "llm_tool.manager.activate" :> Reply(All([activated |-> Boolean]))
    @@ "llm_tool.manager.deactivate" :> Reply(All([deactivated |-> Boolean]))
    @@ "llm_tool.manager.add" :> Reply(All([names |-> Texts]))
    @@ "llm_tool.manager.remove" :> Reply(All([removed |-> Boolean]))

PublishedAgent ==
  All(Each({"name", "description", "runner_class", "plugin_id"}, Str)
        @@ [tool_names |-> Texts])
AgentAnswers ==
  "agent.tool_loop.run" :>
       Reply(All(Each({"text", "finish_reason", "role"}, Str)
                   @@ Each({"reasoning_content", "reasoning_signature"}, MaybeText)
                   @@ [usage |-> Dict, tool_calls |-> Array(Dict)]))
    @@ "agent.registry.list" :> Reply(All([agents |-> Array(PublishedAgent)]))
    @@ "agent.registry.get" :> Reply(All([agent |-> Nullable(PublishedAgent)]))

-----------------------------------------------------------------------------
HandlerAnswers ==
  LlmAnswers @@ MemoryAnswers @@ DbAnswers @@ SystemAnswers @@ RegistryAnswers
    @@ EventAnswers @@ PlatformAnswers @@ PermissionAnswers @@ SessionAnswers @@ HttpAnswers
    @@ SkillAnswers @@ MetadataAnswers @@ PersonaAnswers @@ ConversationAnswers
    @@ HistoryAnswers @@ KbAnswers @@ KbDocumentAnswers @@ ProviderQueryAnswers
    @@ SpeechAnswers @@ ProviderManagerAnswers @@ PlatformManagerAnswers @@ LlmToolAnswers
    @@ AgentAnswers
=============================================================================
