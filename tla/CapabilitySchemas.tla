------------------------- MODULE CapabilitySchemas -------------------------
(***************************************************************************)
(* The input and output schema of every built-in capability that has a     *)
(* handler (protocol/_builtin_schemas.py).  Left out: the mcp.* and        *)
(* internal.mcp.* entries and the system.event.llm.* and                   *)
(* system.event.result.* constants, which no handler and no client of this *)
(* repository uses.  Limits on a value ("minimum", "pattern") are not      *)
(* modelled: the router's validator does not look at them.                 *)
(***************************************************************************)
EXTENDS Schemas

Cap(input, output) == [input |-> input, output |-> output]

\* _OPTIONAL_CHAT_PROPERTIES, with the prompt the three chat calls must have.
ChatSchema ==
  Object([prompt |-> Str],
         Each({"history", "contexts", "tool_calls_result"}, Array(Dict))
           @@ Each({"system", "provider_id", "model"}, Str)
           @@ [temperature |-> Number, image_urls |-> Texts, tools |-> Array(Anything),
               max_steps |-> Integer])
ChatAnswerSchema ==
  Object([text |-> Str],
         Each({"finish_reason", "role", "reasoning_content", "reasoning_signature"}, MaybeText)
           @@ [usage |-> Nullable(Dict), tool_calls |-> Array(Dict)])
LlmSchemas ==
  "llm.chat" :> Cap(ChatSchema, All([text |-> Str]))
    @@ "llm.chat_raw" :> Cap(ChatSchema, ChatAnswerSchema)
    @@ "llm.stream_chat" :> Cap(ChatSchema, All([text |-> Str]))

MemorySchemas ==
  "memory.search" :>
         Cap(Object([query |-> Str], [mode |-> OneOf({"auto", "keyword", "vector",
             "hybrid"}), limit |-> Integer, min_score |-> Number,
             provider_id |-> Str, namespace |-> Str,
             include_descendants |-> Boolean]),
             All([items |-> Array(Object([key |-> Str, value |-> Nullable(Dict),
             score |-> Number, match_type |-> OneOf({"keyword",
             "vector", "hybrid"})], [namespace |-> MaybeText]))]))
    @@ "memory.save" :>
         Cap(Object([key |-> Str, value |-> Dict], [namespace |-> Str]),
             Dict)
    @@ "memory.get" :>
         Cap(Object([key |-> Str], [namespace |-> Str]),
             All([value |-> Nullable(Dict)]))
    @@ "memory.list_keys" :>
         Cap(Optional([namespace |-> Str]),
             All([keys |-> Texts]))
    @@ "memory.exists" :>
         Cap(Object([key |-> Str], [namespace |-> Str]),
             All([exists |-> Boolean]))
    @@ "memory.delete" :> Cap(Object([key |-> Str], [namespace |-> Str]), Dict)
    @@ "memory.clear_namespace" :>
         Cap(Optional([namespace |-> Str, include_descendants |-> Boolean]),
             All([deleted_count |-> Integer]))
    @@ "memory.save_with_ttl" :>
         Cap(Object([key |-> Str, value |-> Dict, ttl_seconds |-> Integer],
             [namespace |-> Str]),
             Dict)
    @@ "memory.get_many" :>
         Cap(Object([keys |-> Texts], [namespace |-> Str]),
             All([items |-> Array(All([key |-> Str, value |-> Nullable(Dict)]))]))
    @@ "memory.delete_many" :>
         Cap(Object([keys |-> Texts], [namespace |-> Str]),
             All([deleted_count |-> Integer]))
    @@ "memory.count" :>
         Cap(Optional([namespace |-> Str, include_descendants |-> Boolean]),
             All([count |-> Integer]))
    @@ "memory.stats" :>
         Cap(Optional([namespace |-> Str, include_descendants |-> Boolean]),
             Optional(Each({"total_bytes", "ttl_entries", "namespace_count",
             "indexed_items", "embedded_items", "dirty_items"},
             MaybeInteger) @@ Each({"plugin_id", "namespace",
             "vector_backend"}, MaybeText) @@
             [total_items |-> Integer, fts_enabled |-> Boolean,
             vector_indexes |-> Array(Dict)]))

SystemSchemas ==
  "system.get_data_dir" :> Cap(Dict, All([path |-> Str]))
    @@ "system.text_to_image" :>
         Cap(Object([text |-> Str], [return_url |-> Boolean]),
             All([result |-> Str]))
    @@ "system.html_render" :>
         Cap(Object([tmpl |-> Str, data |-> Dict], [return_url |-> Boolean,
             options |-> Nullable(Dict)]),
             All([result |-> Str]))
    @@ "system.session_waiter.register" :> Cap(All([session_key |-> Str]), Dict)
    @@ "system.session_waiter.unregister" :> Cap(All([session_key |-> Str]), Dict)

DbSchemas ==
  "db.get" :> Cap(All([key |-> Str]), All([value |-> Nullable(Anything)]))
    @@ "db.set" :> Cap(All([key |-> Str, value |-> Anything]), Dict)
    @@ "db.delete" :> Cap(All([key |-> Str]), Dict)
    @@ "db.list" :> Cap(Optional([prefix |-> MaybeText]), All([keys |-> Texts]))
    @@ "db.get_many" :>
         Cap(All([keys |-> Texts]),
             All([items |-> Array(All([key |-> Str, value |-> Nullable(Anything)]))]))
    @@ "db.set_many" :>
         Cap(All([items |-> Array(All([key |-> Str, value |-> Anything]))]),
             Dict)
    @@ "db.watch" :> Cap(Optional([prefix |-> MaybeText]), Dict)

SessionRefSchema ==
  Object([conversation_id |-> Str], [platform |-> MaybeText,
    raw |-> Nullable(Dict)])
MaybeTarget == Nullable(SessionRefSchema)
EventSchemas ==
  "system.event.react" :>
         Cap(Object([emoji |-> Str], [target |-> MaybeTarget]),
             All([supported |-> Boolean]))
    @@ "system.event.send_typing" :>
         Cap(Optional([target |-> MaybeTarget]),
             All([supported |-> Boolean]))
    @@ "system.event.send_streaming" :>
         Cap(Optional([target |-> MaybeTarget, use_fallback |-> Boolean]),
             Object([supported |-> Boolean], [stream_id |-> MaybeText]))
    @@ "system.event.send_streaming_chunk" :>
         Cap(All([stream_id |-> Str, chain |-> Array(Dict)]),
             Dict)
    @@ "system.event.send_streaming_close" :>
         Cap(All([stream_id |-> Str]),
             All([supported |-> Boolean]))
    @@ "system.event.handler_whitelist.get" :>
         Cap(Optional([target |-> MaybeTarget]),
             All([plugin_names |-> Nullable(Texts)]))
    @@ "system.event.handler_whitelist.set" :>
         Cap(Optional([target |-> MaybeTarget, plugin_names |-> Nullable(Texts)]),
             All([plugin_names |-> Nullable(Texts)]))

PlatformInstanceSchema == All(Each({"id", "name", "type", "status"}, Str))
PlatformErrorSchema ==
  Object([message |-> Str, timestamp |-> Str], [traceback |-> MaybeText])
PlatformStateSchema ==
  Object(Each({"id", "name", "type", "status"}, Str) @@
    [errors |-> Array(PlatformErrorSchema), unified_webhook |-> Boolean],
    [last_error |-> Nullable(PlatformErrorSchema)])
PlatformStatsSchema ==
  Object(Each({"id", "type", "display_name", "status"}, Str) @@
    [error_count |-> Integer, unified_webhook |-> Boolean],
    [started_at |-> MaybeText, last_error |-> Nullable(PlatformErrorSchema),
    meta |-> Dict])
PlatformSchemas ==
  "platform.send" :>
         Cap(Object([session |-> Str, text |-> Str], [target |-> MaybeTarget]),
             All([message_id |-> Str]))
    @@ "platform.send_image" :>
         Cap(Object([session |-> Str, image_url |-> Str],
             [target |-> MaybeTarget]),
             All([message_id |-> Str]))
    @@ "platform.send_chain" :>
         Cap(Object([session |-> Str, chain |-> Array(Dict)],
             [target |-> MaybeTarget]),
             All([message_id |-> Str]))
    @@ "platform.send_by_session" :>
         Cap(All([session |-> Str, chain |-> Array(Dict)]),
             All([message_id |-> Str]))
    @@ "platform.get_group" :>
         Cap(Object([session |-> Str], [target |-> MaybeTarget]),
             All([group |-> Nullable(Dict)]))
    @@ "platform.get_members" :>
         Cap(Object([session |-> Str], [target |-> MaybeTarget]),
             All([members |-> Array(Dict)]))
    @@ "platform.list_instances" :>
         Cap(Dict,
             All([platforms |-> Array(PlatformInstanceSchema)]))
    @@ "platform.manager.get_by_id" :>
         Cap(All([platform_id |-> Str]),
             All([platform |-> Nullable(PlatformStateSchema)]))
    @@ "platform.manager.clear_errors" :> Cap(All([platform_id |-> Str]), Dict)
    @@ "platform.manager.get_stats" :>
         Cap(All([platform_id |-> Str]),
             All([stats |-> Nullable(PlatformStatsSchema)]))

PermissionRoleSchema == OneOf({"member", "admin"})
PermissionSchemas ==
  "permission.check" :>
         Cap(Object([user_id |-> Str], [session_id |-> MaybeText]),
             All([is_admin |-> Boolean, role |-> PermissionRoleSchema]))
    @@ "permission.get_admins" :> Cap(Dict, All([admins |-> Texts]))
    @@ "permission.manager.add_admin" :>
         Cap(All([user_id |-> Str]),
             All([changed |-> Boolean]))
    @@ "permission.manager.remove_admin" :>
         Cap(All([user_id |-> Str]),
             All([changed |-> Boolean]))

SessionSchemas ==
  "session.plugin.is_enabled" :>
         Cap(All([session |-> Str, plugin_name |-> Str]),
             All([enabled |-> Boolean]))
    @@ "session.plugin.filter_handlers" :>
         Cap(All([session |-> Str, handlers |-> Array(Dict)]),
             All([handlers |-> Array(Dict)]))
    @@ "session.service.is_llm_enabled" :>
         Cap(All([session |-> Str]),
             All([enabled |-> Boolean]))
    @@ "session.service.set_llm_status" :>
         Cap(All([session |-> Str, enabled |-> Boolean]),
             Dict)
    @@ "session.service.is_tts_enabled" :>
         Cap(All([session |-> Str]),
             All([enabled |-> Boolean]))
    @@ "session.service.set_tts_status" :>
         Cap(All([session |-> Str, enabled |-> Boolean]),
             Dict)

PersonaSchema ==
  Object([persona_id |-> Str, system_prompt |-> Str, begin_dialogs |-> Texts,
    sort_order |-> Integer], Each({"custom_error_message", "folder_id",
    "created_at", "updated_at"}, MaybeText) @@ [tools |-> Nullable(Texts),
    skills |-> Nullable(Texts)])
PersonaCreateSchema ==
  Object([persona_id |-> Str, system_prompt |-> Str], [begin_dialogs |-> Texts,
    tools |-> Nullable(Texts), skills |-> Nullable(Texts),
    custom_error_message |-> MaybeText, folder_id |-> MaybeText,
    sort_order |-> Integer])
PersonaUpdateSchema ==
  Optional(Each({"begin_dialogs", "tools", "skills"}, Nullable(Texts)) @@
    [system_prompt |-> MaybeText, custom_error_message |-> MaybeText])
PersonaSchemas ==
  "persona.get" :>
         Cap(All([persona_id |-> Str]),
             All([persona |-> PersonaSchema]))
    @@ "persona.list" :> Cap(Dict, All([personas |-> Array(PersonaSchema)]))
    @@ "persona.create" :>
         Cap(All([persona |-> PersonaCreateSchema]),
             All([persona |-> PersonaSchema]))
    @@ "persona.update" :>
         Cap(All([persona_id |-> Str, persona |-> PersonaUpdateSchema]),
             All([persona |-> Nullable(PersonaSchema)]))
    @@ "persona.delete" :> Cap(All([persona_id |-> Str]), Dict)

ConversationSchema ==
  Object(Each({"conversation_id", "session", "platform_id"}, Str) @@
    [history |-> Array(Dict)], Each({"title", "persona_id", "created_at",
    "updated_at"}, MaybeText) @@ [token_usage |-> MaybeInteger])
ConversationCreateSchema ==
  Optional(Each({"platform_id", "title", "persona_id"}, MaybeText) @@
    [history |-> Nullable(Array(Dict))])
ConversationUpdateSchema ==
  Optional([history |-> Nullable(Array(Dict)), title |-> MaybeText,
    persona_id |-> MaybeText, token_usage |-> MaybeInteger])
ConversationSchemas ==
  "conversation.new" :>
         Cap(Object([session |-> Str],
             [conversation |-> Nullable(ConversationCreateSchema)]),
             All([conversation_id |-> Str]))
    @@ "conversation.switch" :>
         Cap(All([session |-> Str, conversation_id |-> Str]),
             Dict)
    @@ "conversation.delete" :>
         Cap(Object([session |-> Str], [conversation_id |-> MaybeText]),
             Dict)
    @@ "conversation.get" :>
         Cap(Object([session |-> Str, conversation_id |-> Str],
             [create_if_not_exists |-> Boolean]),
             All([conversation |-> Nullable(ConversationSchema)]))
    @@ "conversation.get_current" :>
         Cap(Object([session |-> Str], [create_if_not_exists |-> Boolean]),
             All([conversation |-> Nullable(ConversationSchema)]))
    @@ "conversation.list" :>
         Cap(Optional([session |-> MaybeText, platform_id |-> MaybeText]),
             All([conversations |-> Array(ConversationSchema)]))
    @@ "conversation.update" :>
         Cap(Object([session |-> Str], [conversation_id |-> MaybeText,
             conversation |-> Nullable(ConversationUpdateSchema)]),
             Dict)
    @@ "conversation.unset_persona" :>
         Cap(Object([session |-> Str], [conversation_id |-> MaybeText]),
             Dict)

HistorySessionSchema ==
  All([platform_id |-> Str, session_id |-> Str, message_type |-> OneOf({"group",
    "private", "other"})])
HistorySenderSchema ==
  Optional([sender_id |-> MaybeText, sender_name |-> MaybeText])
HistoryRecordSchema ==
  Object([id |-> Integer, session |-> HistorySessionSchema,
    sender |-> HistorySenderSchema, parts |-> Array(Dict), metadata |-> Dict],
    Each({"created_at", "updated_at", "idempotency_key"}, MaybeText))
HistoryPageSchema ==
  Object([records |-> Array(HistoryRecordSchema)], [next_cursor |-> MaybeText,
    total |-> MaybeInteger])
HistorySchemas ==
  "message_history.list" :>
         Cap(Object([session |-> HistorySessionSchema], [cursor |-> MaybeText,
             limit |-> Integer]),
             All([page |-> HistoryPageSchema]))
    @@ "message_history.get_by_id" :>
         Cap(All([session |-> HistorySessionSchema, record_id |-> Integer]),
             All([record |-> Nullable(HistoryRecordSchema)]))
    @@ "message_history.append" :>
         Cap(Object([session |-> HistorySessionSchema,
             sender |-> HistorySenderSchema, parts |-> Array(Dict)],
             [metadata |-> Nullable(Dict),
             idempotency_key |-> MaybeText]),
             All([record |-> HistoryRecordSchema]))
    @@ "message_history.delete_before" :>
         Cap(All([session |-> HistorySessionSchema, before |-> Str]),
             All([deleted_count |-> Integer]))
    @@ "message_history.delete_after" :>
         Cap(All([session |-> HistorySessionSchema, after |-> Str]),
             All([deleted_count |-> Integer]))
    @@ "message_history.delete_all" :>
         Cap(All([session |-> HistorySessionSchema]),
             All([deleted_count |-> Integer]))

KbSchema ==
  Object(Each({"kb_id", "kb_name", "embedding_provider_id"}, Str) @@
    [doc_count |-> Integer, chunk_count |-> Integer], Each({"description",
    "emoji", "rerank_provider_id", "created_at", "updated_at"}, MaybeText) @@
    Each({"chunk_size", "chunk_overlap", "top_k_dense", "top_k_sparse",
    "top_m_final"}, MaybeInteger))
KbCreateSchema ==
  Object([kb_name |-> Str, embedding_provider_id |-> Str], Each({"description",
    "emoji", "rerank_provider_id"}, MaybeText) @@ Each({"chunk_size",
    "chunk_overlap", "top_k_dense", "top_k_sparse", "top_m_final"}, MaybeInteger))
\* Mutant: the schema forgets that an update may set a field to null.
KbUpdateSchemaNotNull ==
  Optional(Each({"kb_name", "description", "emoji", "embedding_provider_id",
    "rerank_provider_id"}, Str) @@ Each({"chunk_size", "chunk_overlap",
    "top_k_dense", "top_k_sparse", "top_m_final"}, MaybeInteger))

KbUpdateSchema ==
  Optional(Each({"kb_name", "description", "emoji", "embedding_provider_id",
    "rerank_provider_id"}, MaybeText) @@ Each({"chunk_size", "chunk_overlap",
    "top_k_dense", "top_k_sparse", "top_m_final"}, MaybeInteger))
KbDocumentSchema ==
  Object(Each({"doc_id", "kb_id", "doc_name", "file_type"}, Str) @@
    Each({"file_size", "chunk_count", "media_count"}, Integer),
    [file_path |-> Str, created_at |-> MaybeText, updated_at |-> MaybeText])
KbResultSchema ==
  All(Each({"chunk_id", "doc_id", "kb_id", "kb_name", "doc_name", "content"}, Str)
    @@ [chunk_index |-> Integer, char_count |-> Integer, score |-> Number])
KbUploadSchema ==
  Optional(Each({"file_token", "url", "text", "file_name", "file_type",
    "cleaning_provider_id"}, MaybeText) @@ Each({"chunk_size", "chunk_overlap",
    "batch_size", "tasks_limit", "max_retries"}, MaybeInteger) @@
    [enable_cleaning |-> Nullable(Boolean)])
KbSchemas ==
  "kb.list" :> Cap(Dict, All([kbs |-> Array(KbSchema)]))
    @@ "kb.get" :> Cap(All([kb_id |-> Str]), All([kb |-> Nullable(KbSchema)]))
    @@ "kb.create" :> Cap(All([kb |-> KbCreateSchema]), All([kb |-> KbSchema]))
    @@ "kb.update" :>
         Cap(All([kb_id |-> Str, kb |-> KbUpdateSchema]),
             All([kb |-> Nullable(KbSchema)]))
    @@ "kb.delete" :> Cap(All([kb_id |-> Str]), All([deleted |-> Boolean]))
    @@ "kb.retrieve" :>
         Cap(Object([query |-> Str], [kb_ids |-> Texts, kb_names |-> Texts,
             top_k_fusion |-> Integer, top_m_final |-> Integer]),
             All([result |-> Nullable(All([context_text |-> Str,
             results |-> Array(KbResultSchema)]))]))
    @@ "kb.document.upload" :>
         Cap(All([kb_id |-> Str, document |-> KbUploadSchema]),
             All([document |-> KbDocumentSchema]))
    @@ "kb.document.list" :>
         Cap(Object([kb_id |-> Str], [offset |-> Integer, limit |-> Integer]),
             All([documents |-> Array(KbDocumentSchema)]))
    @@ "kb.document.get" :>
         Cap(All([kb_id |-> Str, doc_id |-> Str]),
             All([document |-> Nullable(KbDocumentSchema)]))
    @@ "kb.document.delete" :>
         Cap(All([kb_id |-> Str, doc_id |-> Str]),
             All([deleted |-> Boolean]))
    @@ "kb.document.refresh" :>
         Cap(All([kb_id |-> Str, doc_id |-> Str]),
             All([document |-> Nullable(KbDocumentSchema)]))

CommandSchemas ==
  "registry.command.register" :>
         Cap(Object([command_name |-> Str, handler_full_name |-> Str],
             [source_event_type |-> Str, desc |-> Str,
             priority |-> Integer, use_regex |-> Boolean,
             ignore_prefix |-> Boolean]),
             Dict)

SkillSchemas ==
  "skill.register" :>
         Cap(Object([name |-> Str, path |-> Str], [description |-> Str]),
             All(Each({"name", "description", "path", "skill_dir"}, Str)))
    @@ "skill.unregister" :> Cap(All([name |-> Str]), All([removed |-> Boolean]))
    @@ "skill.list" :>
         Cap(Dict,
             All([skills |-> Array(All(Each({"name", "description", "path",
             "skill_dir"}, Str)))]))

HttpSchemas ==
  "http.register_api" :>
         Cap(Object([route |-> Str, handler_capability |-> Str, methods |-> Texts],
             [description |-> Str]),
             Dict)
    @@ "http.unregister_api" :> Cap(All([route |-> Str, methods |-> Texts]), Dict)
    @@ "http.list_apis" :> Cap(Dict, All([apis |-> Array(Dict)]))

MetadataSchemas ==
  "metadata.get_plugin" :>
         Cap(All([name |-> Str]),
             All([plugin |-> Nullable(Dict)]))
    @@ "metadata.list_plugins" :> Cap(Dict, All([plugins |-> Array(Dict)]))
    @@ "metadata.get_plugin_config" :>
         Cap(All([name |-> Str]),
             All([config |-> Nullable(Dict)]))
    @@ "metadata.save_plugin_config" :>
         Cap(All([config |-> Dict]),
             All([config |-> Nullable(Dict)]))

RegistrySchemas ==
  "registry.get_handlers_by_event_type" :>
         Cap(All([event_type |-> Str]),
             All([handlers |-> Array(Dict)]))
    @@ "registry.get_handler_by_full_name" :>
         Cap(All([full_name |-> Str]),
             All([handler |-> Nullable(Dict)]))

ProviderMetaSchema ==
  Object(Each({"id", "type", "provider_type"}, Str), [model |-> MaybeText])
ManagedProviderSchema ==
  Object(Each({"id", "type", "provider_type"}, Str) @@ [loaded |-> Boolean,
    enabled |-> Boolean], [model |-> MaybeText, provider_source_id |-> MaybeText])
ProviderChangeEventSchema ==
  Object([provider_id |-> Str, provider_type |-> Str], [umo |-> MaybeText])
ProviderQuerySchemas ==
  "provider.get_using" :>
         Cap(Optional([umo |-> MaybeText]),
             All([provider |-> Nullable(ProviderMetaSchema)]))
    @@ "provider.get_by_id" :>
         Cap(All([provider_id |-> Str]),
             All([provider |-> Nullable(ProviderMetaSchema)]))
    @@ "provider.get_current_chat_provider_id" :>
         Cap(Optional([umo |-> MaybeText]),
             All([provider_id |-> MaybeText]))
    @@ "provider.list_all" :>
         Cap(Dict,
             All([providers |-> Array(ProviderMetaSchema)]))
    @@ "provider.list_all_tts" :>
         Cap(Dict,
             All([providers |-> Array(ProviderMetaSchema)]))
    @@ "provider.list_all_stt" :>
         Cap(Dict,
             All([providers |-> Array(ProviderMetaSchema)]))
    @@ "provider.list_all_embedding" :>
         Cap(Dict,
             All([providers |-> Array(ProviderMetaSchema)]))
    @@ "provider.list_all_rerank" :>
         Cap(Dict,
             All([providers |-> Array(ProviderMetaSchema)]))
    @@ "provider.get_using_tts" :>
         Cap(Optional([umo |-> MaybeText]),
             All([provider |-> Nullable(ProviderMetaSchema)]))
    @@ "provider.get_using_stt" :>
         Cap(Optional([umo |-> MaybeText]),
             All([provider |-> Nullable(ProviderMetaSchema)]))

RerankResultSchema ==
  All([index |-> Integer, score |-> Number, document |-> Str])
SpeechSchemas ==
  "provider.stt.get_text" :>
         Cap(All([provider_id |-> Str, audio_url |-> Str]),
             All([text |-> Str]))
    @@ "provider.tts.get_audio" :>
         Cap(All([provider_id |-> Str, text |-> Str]),
             All([audio_path |-> Str]))
    @@ "provider.tts.support_stream" :>
         Cap(All([provider_id |-> Str]),
             All([supported |-> Boolean]))
    @@ "provider.tts.get_audio_stream" :>
         Cap(Object([provider_id |-> Str], [text |-> MaybeText,
             text_chunks |-> Texts]),
             Object([audio_base64 |-> Str], [text |-> MaybeText]))
    @@ "provider.embedding.get_embedding" :>
         Cap(All([provider_id |-> Str, text |-> Str]),
             All([embedding |-> Array(Number)]))
    @@ "provider.embedding.get_embeddings" :>
         Cap(All([provider_id |-> Str, texts |-> Texts]),
             All([embeddings |-> Array(Array(Number))]))
    @@ "provider.embedding.get_dim" :>
         Cap(All([provider_id |-> Str]),
             All([dim |-> Integer]))
    @@ "provider.rerank.rerank" :>
         Cap(Object([provider_id |-> Str, query |-> Str, documents |-> Texts],
             [top_n |-> MaybeInteger]),
             All([results |-> Array(RerankResultSchema)]))

ProviderManagerSchemas ==
  "provider.manager.set" :>
         Cap(Object([provider_id |-> Str, provider_type |-> Str],
             [umo |-> MaybeText]),
             Dict)
    @@ "provider.manager.get_by_id" :>
         Cap(All([provider_id |-> Str]),
             All([provider |-> Nullable(ManagedProviderSchema)]))
    @@ "provider.manager.get_merged_provider_config" :>
         Cap(All([provider_id |-> Str]),
             All([config |-> Nullable(Dict)]))
    @@ "provider.manager.load" :>
         Cap(All([provider_config |-> Dict]),
             All([provider |-> Nullable(ManagedProviderSchema)]))
    @@ "provider.manager.terminate" :> Cap(All([provider_id |-> Str]), Dict)
    @@ "provider.manager.create" :>
         Cap(All([provider_config |-> Dict]),
             All([provider |-> Nullable(ManagedProviderSchema)]))
    @@ "provider.manager.update" :>
         Cap(All([origin_provider_id |-> Str, new_config |-> Dict]),
             All([provider |-> Nullable(ManagedProviderSchema)]))
    @@ "provider.manager.delete" :>
         Cap(Optional([provider_id |-> MaybeText,
             provider_source_id |-> MaybeText]),
             Dict)
    @@ "provider.manager.get_insts" :>
         Cap(Dict,
             All([providers |-> Array(ManagedProviderSchema)]))
    @@ "provider.manager.watch_changes" :>
         Cap(Dict,
             Object([provider_id |-> Str, provider_type |-> Str],
             [umo |-> MaybeText]))

LlmToolSpecSchema ==
  Object([name |-> Str, description |-> Str, parameters_schema |-> Dict,
    active |-> Boolean], [handler_ref |-> MaybeText,
    handler_capability |-> MaybeText])
ToolSchemas ==
  "llm_tool.manager.get" :>
         Cap(Dict,
             All([registered |-> Array(LlmToolSpecSchema),
             active |-> Array(LlmToolSpecSchema)]))
    @@ "llm_tool.manager.activate" :>
         Cap(All([name |-> Str]),
             All([activated |-> Boolean]))
    @@ "llm_tool.manager.deactivate" :>
         Cap(All([name |-> Str]),
             All([deactivated |-> Boolean]))
    @@ "llm_tool.manager.add" :>
         Cap(All([tools |-> Array(LlmToolSpecSchema)]),
             All([names |-> Texts]))
    @@ "llm_tool.manager.remove" :>
         Cap(All([name |-> Str]),
             All([removed |-> Boolean]))

AgentSpecSchema ==
  All(Each({"name", "description", "runner_class"}, Str) @@ [tool_names |-> Texts])
AgentSchemas ==
  "agent.tool_loop.run" :>
         Cap(Optional(Each({"prompt", "system_prompt", "session_id", "provider_id",
             "model"}, MaybeText) @@ [contexts |-> Array(Dict),
             tool_calls_result |-> Array(Dict), image_urls |-> Texts,
             tool_names |-> Nullable(Texts), temperature |-> Number,
             max_steps |-> Integer, tool_call_timeout |-> Integer]),
             ChatAnswerSchema)
    @@ "agent.registry.list" :> Cap(Dict, All([agents |-> Array(AgentSpecSchema)]))
    @@ "agent.registry.get" :>
         Cap(All([name |-> Str]),
             All([agent |-> Nullable(AgentSpecSchema)]))

-----------------------------------------------------------------------------
\* BUILTIN_CAPABILITY_SCHEMAS: what _builtin_descriptor looks a name up in.
BuiltinSchemas ==
  LlmSchemas
    @@ MemorySchemas
    @@ SystemSchemas
    @@ DbSchemas
    @@ EventSchemas
    @@ PlatformSchemas
    @@ PermissionSchemas
    @@ SessionSchemas
    @@ PersonaSchemas
    @@ ConversationSchemas
    @@ HistorySchemas
    @@ KbSchemas
    @@ CommandSchemas
    @@ SkillSchemas
    @@ HttpSchemas
    @@ MetadataSchemas
    @@ RegistrySchemas
    @@ ProviderQuerySchemas
    @@ SpeechSchemas
    @@ ProviderManagerSchemas
    @@ ToolSchemas
    @@ AgentSchemas
=============================================================================
