------------------------------ MODULE WireTypes ------------------------------
(***************************************************************************)
(* The closed value types of the Runtime protocol: every generated enum    *)
(* and its declared members, every generated struct and which of its       *)
(* members a document must carry, and the five unions with the codec each  *)
(* of their variants has.  A type is a tree of descriptors; what decoding, *)
(* validation and revision qualification make of one is in WireCodec.      *)
(***************************************************************************)
EXTENDS Naturals, Sequences

\* Descriptors.  Flags, numbers and times are told apart by their JSON kind only.
Text == [is |-> "text"]
Number == [is |-> "number"]
Flag == [is |-> "flag"]
Moment == [is |-> "text"]
Enum(values) == [is |-> "enum", values |-> values]
ListOf(type) == [is |-> "list", of |-> type]
MapOf(type) == [is |-> "map", of |-> type]
Nullable(type) == [is |-> "nullable", of |-> type]
None == <<>>
\* required members, then the members that may be absent (the omitempty tags)
Struct(required, optional) == [is |-> "struct", req |-> required, opt |-> optional]
\* One alternative of a union; stamps: its From accessor writes the discriminator itself.
Variant(type, stamps) == [of |-> type, stamps |-> stamps]
\* A union read by its kind member, and the one union that has no discriminator.
Union(variants) == [is |-> "union", variants |-> variants]
Either(variants) == [is |-> "either", variants |-> variants]

\* Opaque JSON: an object whose members are never looked at, and the raw sections.
Open == [is |-> "open"]
JSONObject == Open
ToolMetadata == [is |-> "raw"]
CompactionSettings == [is |-> "section"]
JobsSettings == [is |-> "section"]
ToolsSettings == [is |-> "section"]
ModelRef == Text
PluginsSettings == MapOf(Text)

\* Enums: the values each Valid method admits.
AgentScopeKind == Enum({"agent"})
AssistantItemKind == Enum({"assistant"})
AssistantItemStatus == Enum({"completed", "errored", "interrupted"})
BackgroundMemberKind == Enum({"child", "job"})
CheckpointItemKind == Enum({"context_checkpoint"})
ConfigurationChangedEventKind == Enum({"configuration_changed"})
ErrorCode == Enum({"closed", "configuration", "conflict", "corrupt", "internal", "invalid",
  "not_found", "storage", "unauthorized"})
ExecutionEvidence == Enum({"not_started", "observed", "unknown"})
HealthProtocolVersion == Enum({"8"})
ImageURLPartKind == Enum({"image_url"})
InputItemKind == Enum({"input"})
InputModality == Enum({"audio", "document", "image", "text"})
InputOrigin == Enum({"plugin", "runtime", "user"})
JobScopeKind == Enum({"job"})
MessageRole == Enum({"assistant", "system", "tool", "user"})
ModelField == Enum({"context_window", "cost", "extra_body", "hidden", "input_modalities",
  "max_output_tokens", "name", "protocol_metadata", "system_role", "usage_in_stream"})
ModelSource == Enum({"bundled", "discovered", "user"})
OpaquePartKind == Enum({"opaque"})
OperationRequestKind == Enum({"compact", "message"})
OperationStatus == Enum({"failure", "interruption", "running", "success"})
OperationEndItemKind == Enum({"operation_end"})
OperationEndItemStatus == Enum({"failure", "interruption", "success"})
OperationScopeKind == Enum({"operation"})
ProviderKeySource == Enum({"external", "keyless", "managed", "none"})
ProviderField == Enum({"base_url", "discovery", "api_key_env", "extra_body", "headers", "hidden",
  "name", "protocol_metadata", "system_role", "usage_in_stream"})
RefusalDeltaEventKind == Enum({"refusal_delta"})
RuntimeScopeKind == Enum({"runtime"})
ScopeEventKind == Enum({"scope_closed", "scope_opened"})
SessionChangedEventKind == Enum({"session_changed"})
SessionLifecycle == Enum({"archived", "open"})
SessionScopeKind == Enum({"session"})
SignalItemKind == Enum({"signal"})
SignalItemSubtype == Enum({"background_completion", "interruption", "model_failure_continuation"})
SubmitRequestMode == Enum({"queued", "regular"})
SubmitResultDisposition == Enum({"admitted", "existing", "queued", "steering"})
SystemRole == Enum({"developer", "system", "user"})
TextDeltaEventKind == Enum({"text_delta"})
TextPartKind == Enum({"text"})
ToolCallStatus == Enum({"denied", "error", "interrupted", "success"})
ToolFinishedEventKind == Enum({"tool_finished"})
ToolStartedEventKind == Enum({"tool_started"})
WarningChangedEventKind == Enum({"warning_changed"})
WorkspaceScopeKind == Enum({"workspace"})

\* Structs and unions, each after the types it is built from.
Agent == Struct(
  [capabilities |-> ListOf(Text), description |-> Text, model |-> ModelRef, name |-> Text,
   readonly |-> Flag, subagent |-> Flag, tools |-> ListOf(Text), write_dir |-> Text],
  None)
ConfigurationRevision == Struct([generation |-> Text, instance_id |-> Text], None)
AgentMutation == Struct([configuration_revision |-> ConfigurationRevision, result |-> Agent], None)
AgentScope == Struct(
  [kind |-> AgentScopeKind, operation_id |-> Text, session_id |-> Text],
  [job_id |-> Text, workspace |-> Text])
ImageURLPart == Struct([kind |-> ImageURLPartKind, url |-> Text], [extra |-> JSONObject])
OpaquePart == Struct([kind |-> OpaquePartKind, opaque_wire_type |-> Text], [extra |-> JSONObject])
TextPart == Struct([kind |-> TextPartKind, text |-> Text], [extra |-> JSONObject])
ContentPartOfTextPart == Variant(TextPart, TRUE)
ContentPartOfImageURLPart == Variant(ImageURLPart, TRUE)
ContentPartOfOpaquePart == Variant(OpaquePart, TRUE)
ContentPart == Union([
  image_url |-> ContentPartOfImageURLPart, opaque |-> ContentPartOfOpaquePart,
  text |-> ContentPartOfTextPart])
ToolCallView == Struct(
  [arguments |-> Text, id |-> Text, name |-> Text],
  [content |-> Text, evidence |-> ExecutionEvidence, extra |-> JSONObject,
   metadata |-> ToolMetadata, normalized_arguments |-> JSONObject, original_content |-> Text,
   shaping_failure |-> Text, status |-> ToolCallStatus])
AssistantItem == Struct(
  [committed_at |-> Moment, content |-> ListOf(ContentPart), item_id |-> Text,
   kind |-> AssistantItemKind, source |-> ModelRef, status |-> AssistantItemStatus,
   tool_calls |-> ListOf(ToolCallView)],
  [extra |-> JSONObject, operation_id |-> Text, refusal |-> Text])
BackgroundMember == Struct([id |-> Text, kind |-> BackgroundMemberKind], None)
MessageToolCall == Struct(
  [arguments_base64 |-> Text, id |-> Text, name |-> Text],
  [extra |-> JSONObject])
Message == Struct(
  [role |-> MessageRole],
  [content |-> ListOf(ContentPart), extra |-> JSONObject, name |-> Text, refusal |-> Text,
   source |-> ModelRef, tool_call_id |-> Text, tool_calls |-> ListOf(MessageToolCall)])
CheckpointItem == Struct(
  [committed_at |-> Moment, item_id |-> Text, kind |-> CheckpointItemKind,
   messages |-> ListOf(Message), strategy |-> Text],
  [model |-> ModelRef, operation_id |-> Text])
Error == Struct([code |-> ErrorCode, message |-> Text], [session_id |-> Text])
SkippedFile == Struct([path |-> Text, reason |-> Text], None)
CodeRevertResult == Struct(
  [restored |-> ListOf(Text), skipped |-> ListOf(SkippedFile)],
  [error |-> Error])
CodeRevertErrorOfCodeRevertResult == Variant(CodeRevertResult, FALSE)
CodeRevertErrorOfError == Variant(Error, FALSE)
CodeRevertError == Either(<<CodeRevertErrorOfCodeRevertResult, CodeRevertErrorOfError>>)
SnapshotFile == Struct([existed |-> Flag, path |-> Text], None)
CodeSnapshotGroup == Struct(
  [files |-> ListOf(SnapshotFile), group_item_id |-> Text, operation_id |-> Text],
  None)
CompactRequest == Struct([operation_id |-> Text], None)
JobScope == Struct(
  [job_id |-> Text, kind |-> JobScopeKind, session_id |-> Text],
  [operation_id |-> Text, workspace |-> Text])
OperationScope == Struct(
  [kind |-> OperationScopeKind, operation_id |-> Text, session_id |-> Text],
  [job_id |-> Text, workspace |-> Text])
RuntimeScope == Struct(
  [kind |-> RuntimeScopeKind],
  [job_id |-> Text, operation_id |-> Text, session_id |-> Text, workspace |-> Text])
SessionScope == Struct(
  [kind |-> SessionScopeKind, session_id |-> Text],
  [job_id |-> Text, operation_id |-> Text, workspace |-> Text])
WorkspaceScope == Struct(
  [kind |-> WorkspaceScopeKind, workspace |-> Text],
  [job_id |-> Text, operation_id |-> Text, session_id |-> Text])
ScopeOfRuntimeScope == Variant(RuntimeScope, TRUE)
ScopeOfWorkspaceScope == Variant(WorkspaceScope, TRUE)
ScopeOfSessionScope == Variant(SessionScope, TRUE)
ScopeOfOperationScope == Variant(OperationScope, TRUE)
ScopeOfAgentScope == Variant(AgentScope, TRUE)
ScopeOfJobScope == Variant(JobScope, TRUE)
Scope == Union([
  agent |-> ScopeOfAgentScope, job |-> ScopeOfJobScope, operation |-> ScopeOfOperationScope,
  runtime |-> ScopeOfRuntimeScope, session |-> ScopeOfSessionScope,
  workspace |-> ScopeOfWorkspaceScope])
ConfigurationChangedEvent == Struct(
  [configuration_revision |-> ConfigurationRevision, kind |-> ConfigurationChangedEventKind,
   scope |-> Scope],
  None)
Cost == Struct(
  None,
  [cache_read |-> Number, cache_write |-> Number, input |-> Number, output |-> Number])
ProtocolMetadata == Struct(
  None,
  [drop |-> ListOf(Text), family |-> Text, must_preserve |-> ListOf(Text)])
ModelView == Struct(
  [context_window |-> Number, hidden |-> Flag, id |-> Text, incomplete |-> Flag,
   input_modalities |-> ListOf(InputModality), max_output_tokens |-> Number, name |-> Text,
   provider_hidden |-> Flag, source |-> ModelSource, system_role |-> SystemRole, usable |-> Flag,
   usage_in_stream |-> Flag],
  [cost |-> Cost, extra_body |-> Open, protocol_metadata |-> ProtocolMetadata])
Provider == Struct(
  [api_key_env |-> Text, base_url |-> Text, builtin |-> Flag, connected |-> Flag,
   discovery |-> Flag, headers |-> MapOf(Text), hidden |-> Flag, id |-> Text,
   key_source |-> ProviderKeySource, models |-> ListOf(ModelView), name |-> Text,
   system_role |-> SystemRole, usage_in_stream |-> Flag, user_headers |-> MapOf(Text)],
  [extra_body |-> Open, protocol_metadata |-> ProtocolMetadata])
SessionsSettings == Struct(
  [archive_after_days |-> Number, auto_archive |-> Flag, delete_after_archive_days |-> Number],
  None)
Settings == Struct(
  [compaction |-> CompactionSettings, jobs |-> JobsSettings, plugins |-> PluginsSettings,
   sessions |-> SessionsSettings, tools |-> ToolsSettings],
  None)
ConfigurationView == Struct(
  [agents |-> ListOf(Agent), configuration_revision |-> ConfigurationRevision,
   providers |-> ListOf(Provider), settings |-> Settings],
  None)
ConnectProviderParams == Struct([provider_id |-> Text], None)
ConnectRequest == Struct(None, [api_key |-> Text])
InputItem == Struct(
  [committed_at |-> Moment, content |-> ListOf(ContentPart), item_id |-> Text,
   kind |-> InputItemKind, origin |-> InputOrigin],
  [operation_id |-> Text])
OperationEndItem == Struct(
  [committed_at |-> Moment, detail |-> Text, item_id |-> Text, kind |-> OperationEndItemKind,
   status |-> OperationEndItemStatus],
  [operation_id |-> Text])
SignalItem == Struct(
  [committed_at |-> Moment, content |-> Text, item_id |-> Text, kind |-> SignalItemKind,
   subtype |-> SignalItemSubtype],
  [operation_id |-> Text, related_member |-> BackgroundMember])
ConversationItemOfInputItem == Variant(InputItem, TRUE)
ConversationItemOfAssistantItem == Variant(AssistantItem, TRUE)
ConversationItemOfSignalItem == Variant(SignalItem, TRUE)
ConversationItemOfCheckpointItem == Variant(CheckpointItem, TRUE)
ConversationItemOfOperationEndItem == Variant(OperationEndItem, TRUE)
ConversationItem == Union([
  assistant |-> ConversationItemOfAssistantItem,
  context_checkpoint |-> ConversationItemOfCheckpointItem, input |-> ConversationItemOfInputItem,
  operation_end |-> ConversationItemOfOperationEndItem, signal |-> ConversationItemOfSignalItem])
ConversationPage == Struct([items |-> ListOf(ConversationItem)], [older_cursor |-> Text])
ModelEdit == Struct(
  None,
  [context_window |-> Number, cost |-> Cost, extra_body |-> Open, hidden |-> Flag,
   input_modalities |-> ListOf(InputModality), max_output_tokens |-> Number, name |-> Text,
   protocol_metadata |-> ProtocolMetadata, system_role |-> SystemRole, usage_in_stream |-> Flag])
ProviderEdit == Struct(
  None,
  [api_key_env |-> Text, base_url |-> Text, discovery |-> Flag, extra_body |-> Open,
   headers |-> MapOf(Text), hidden |-> Flag, name |-> Text, protocol_metadata |-> ProtocolMetadata,
   system_role |-> SystemRole, usage_in_stream |-> Flag])
CreateProviderRequest == Struct(
  [id |-> Text, models |-> MapOf(ModelEdit), provider |-> ProviderEdit],
  [api_key |-> Text])
CreateSessionRequest == Struct([agent_type |-> Text, workspace |-> Text], None)
DeleteProviderDetailParams == Struct([provider_id |-> Text], None)
DeleteProviderModelParams == Struct([provider_id |-> Text, model_id |-> Text], None)
DisconnectProviderParams == Struct([provider_id |-> Text], None)
DiscoverProviderModelCandidatesParams == Struct([provider_id |-> Text], None)
DiscoveredModelCandidate == Struct(
  [context_window |-> Number, id |-> Text, max_output_tokens |-> Number, name |-> Text,
   usable |-> Flag],
  [cost |-> Cost])
DiscoveryRequest == Struct(
  [api_key_env |-> Text, base_url |-> Text],
  [api_key |-> Text, headers |-> MapOf(Text)])
RefusalDeltaEvent == Struct(
  [content |-> Text, kind |-> RefusalDeltaEventKind, scope |-> Scope],
  None)
ScopeEvent == Struct([kind |-> ScopeEventKind, scope |-> Scope], None)
SessionRevision == Struct(
  [durable_revision |-> Text, instance_id |-> Text, local_revision |-> Text],
  None)
SessionChangedEvent == Struct(
  [kind |-> SessionChangedEventKind, scope |-> Scope, session_revision |-> SessionRevision],
  None)
TextDeltaEvent == Struct(
  [content |-> Text, kind |-> TextDeltaEventKind, position |-> Number, scope |-> Scope],
  None)
ToolFinishedEvent == Struct(
  [call_id |-> Text, kind |-> ToolFinishedEventKind, scope |-> Scope, status |-> ToolCallStatus],
  [evidence |-> ExecutionEvidence])
ToolStartedEvent == Struct(
  [call_id |-> Text, kind |-> ToolStartedEventKind, name |-> Text, ordinal |-> Number,
   scope |-> Scope],
  None)
WarningsRevision == Struct([instance_id |-> Text, revision |-> Text], None)
WarningChangedEvent == Struct(
  [kind |-> WarningChangedEventKind, scope |-> Scope, warnings_revision |-> WarningsRevision],
  None)
EventOfConfigurationChangedEvent == Variant(ConfigurationChangedEvent, FALSE)
EventOfScopeEvent == Variant(ScopeEvent, FALSE)
EventOfSessionChangedEvent == Variant(SessionChangedEvent, FALSE)
EventOfWarningChangedEvent == Variant(WarningChangedEvent, FALSE)
EventOfTextDeltaEvent == Variant(TextDeltaEvent, FALSE)
EventOfRefusalDeltaEvent == Variant(RefusalDeltaEvent, FALSE)
EventOfToolStartedEvent == Variant(ToolStartedEvent, FALSE)
EventOfToolFinishedEvent == Variant(ToolFinishedEvent, FALSE)
Event == Union([
  configuration_changed |-> EventOfConfigurationChangedEvent,
  refusal_delta |-> EventOfRefusalDeltaEvent, scope_closed |-> EventOfScopeEvent,
  scope_opened |-> EventOfScopeEvent, session_changed |-> EventOfSessionChangedEvent,
  text_delta |-> EventOfTextDeltaEvent, tool_finished |-> EventOfToolFinishedEvent,
  tool_started |-> EventOfToolStartedEvent, warning_changed |-> EventOfWarningChangedEvent])
ForkRequest == Struct(
  [boundary_item_id |-> Text, content |-> ListOf(ContentPart), operation_id |-> Text],
  None)
UsageCount == Struct(
  [cached_input_tokens |-> Text, input_tokens |-> Text, output_tokens |-> Text],
  None)
ModelUsage == Struct([model |-> ModelRef, usage |-> UsageCount], None)
UsageTotals == Struct([by_model |-> ListOf(ModelUsage)], [estimated_cost_usd |-> Number])
Operation == Struct(
  [admitted_at |-> Moment, agent_type |-> Text, model |-> ModelRef, operation_id |-> Text,
   request_kind |-> OperationRequestKind, status |-> OperationStatus, usage |-> UsageTotals],
  [detail |-> Text, settled_at |-> Moment])
Session == Struct(
  [agent_type |-> Text, created_at |-> Moment, last_activity |-> Moment,
   lifecycle |-> SessionLifecycle, session_id |-> Text, session_revision |-> SessionRevision,
   workspace |-> Text],
  [archived_at |-> Moment, current_operation_id |-> Text, parent_session_id |-> Text,
   source_session_id |-> Text])
ForkResult == Struct([operation |-> Operation, session |-> Session], None)
GetProviderDetailParams == Struct([provider_id |-> Text], None)
GetSessionHistoryParams == Struct(None, [cursor |-> Text])
Health == Struct([instance_id |-> Text, protocol_version |-> HealthProtocolVersion], None)
HistoryPage == Struct(
  [items |-> ListOf(ConversationItem), session_revision |-> SessionRevision],
  [older_cursor |-> Text])
PendingInput == Struct(
  [content |-> ListOf(ContentPart), operation_id |-> Text, origin |-> InputOrigin],
  None)
PendingQueues == Struct([queued |-> ListOf(PendingInput), steering |-> ListOf(PendingInput)], None)
UsageContext == Struct([context_window |-> Number, used_tokens |-> Text], None)
UsageProjection == Struct([context |-> UsageContext, totals |-> UsageTotals], None)
Warning == Struct([kind |-> Text, message |-> Text, source |-> Text], [session_id |-> Text])
Hydration == Struct(
  [background |-> ListOf(BackgroundMember), configuration_revision |-> ConfigurationRevision,
   conversation |-> ConversationPage, operations |-> ListOf(Operation), pending |-> PendingQueues,
   selected_model |-> Nullable(ModelRef), session |-> Session,
   session_revision |-> SessionRevision, usage |-> UsageProjection, warnings |-> ListOf(Warning),
   warnings_revision |-> WarningsRevision],
  [active_operation |-> Operation])
ListModelsParams == Struct([all |-> Flag], None)
ListProviderModelsParams == Struct([provider_id |-> Text], None)
ListSessionsParams == Struct([workspace |-> Text, lifecycle |-> SessionLifecycle], None)
ModelListEntry == Struct(
  [context_window |-> Number, display_name |-> Text, hidden |-> Flag, incomplete |-> Flag,
   max_output_tokens |-> Number, model |-> Text, provider |-> Text, provider_hidden |-> Flag,
   provider_name |-> Text, ref |-> ModelRef, source |-> ModelSource],
  [cost |-> Cost])
ModelList == Struct(
  [configuration_revision |-> ConfigurationRevision, models |-> ListOf(ModelListEntry)],
  None)
ModelMutation == Struct(
  [configuration_revision |-> ConfigurationRevision, result |-> Nullable(ModelView)],
  None)
ProviderDetail == Struct(
  [configuration_revision |-> ConfigurationRevision, provider |-> Provider],
  None)
ProviderList == Struct(
  [configuration_revision |-> ConfigurationRevision, providers |-> ListOf(Provider)],
  None)
ProviderModelList == Struct(
  [configuration_revision |-> ConfigurationRevision, models |-> ListOf(ModelView)],
  None)
ProviderMutation == Struct(
  [configuration_revision |-> ConfigurationRevision, result |-> Nullable(Provider)],
  None)
ReadFileRequest == Struct([path |-> Text, workspace |-> Text], None)
ReadFileResult == Struct([canonical_path |-> Text, content |-> Text, truncated |-> Flag], None)
ResetProviderFieldParams == Struct([provider_id |-> Text], None)
ResetProviderModelFieldParams == Struct([provider_id |-> Text, model_id |-> Text], None)
RevertCodeRequest == Struct([boundary_operation_id |-> Text], None)
RevisionResponse == Struct([configuration_revision |-> ConfigurationRevision], None)
SetAgentTypeModelParams == Struct([agent_type |-> Text], None)
SetAgentTypeModelRequest == Struct([model |-> ModelRef], None)
SetSessionAgentTypeRequest == Struct([agent_type |-> Text], None)
SettingsMutation == Struct(
  [configuration_revision |-> ConfigurationRevision, result |-> Settings],
  None)
SubmitRequest == Struct(
  [content |-> ListOf(ContentPart), mode |-> SubmitRequestMode, operation_id |-> Text],
  None)
SubmitResult == Struct([disposition |-> SubmitResultDisposition], [operation |-> Operation])
UpdateProviderDetailParams == Struct([provider_id |-> Text], None)
UpdateProviderDetailRequest == Struct([provider |-> ProviderEdit], None)
UpdateProviderModelParams == Struct([provider_id |-> Text, model_id |-> Text], None)
UpdateProviderModelRequest == Struct([model |-> ModelEdit], None)
UpdateSettingsRequest == Struct([settings |-> Settings], None)
WarningsSnapshot == Struct(
  [warnings |-> ListOf(Warning), warnings_revision |-> WarningsRevision],
  None)
Workspace == Struct([display_name |-> Text, root |-> Text], None)
=============================================================================
