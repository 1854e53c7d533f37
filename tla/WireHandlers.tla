---------------------------- MODULE WireHandlers ----------------------------
(***************************************************************************)
(* The handlers behind the generated server: for every operation the body  *)
(* it decodes, the type it answers with, the status of success, and        *)
(* whether the call goes on to read after it has committed.                *)
(***************************************************************************)
EXTENDS WireTypes

Nothing == [is |-> "nothing"]
\* then: what follows the producer's own work - "done", "header" (a fresh read of the Session
\* whose failure fails the call) or "partial" (a failure may carry the result so far).
Handles(body, result, status, then) ==
  [body |-> body, result |-> result, status |-> status, then |-> then]

ArchiveSession == Handles(Nothing, Session, 200, "header")
CompactSession == Handles(CompactRequest, Operation, 200, "done")
ConnectProvider == Handles(ConnectRequest, ProviderMutation, 200, "done")
CreateProvider == Handles(CreateProviderRequest, ProviderMutation, 200, "done")
CreateSession == Handles(CreateSessionRequest, Session, 201, "header")
DeleteProviderDetail == Handles(Nothing, ProviderMutation, 200, "done")
DeleteProviderModel == Handles(Nothing, ModelMutation, 200, "done")
DeleteSession == Handles(Nothing, Nothing, 204, "done")
DisconnectProvider == Handles(Nothing, ProviderMutation, 200, "done")
DiscoverProviderCandidates ==
  Handles(DiscoveryRequest, ListOf(DiscoveredModelCandidate), 200, "done")
DiscoverProviderModelCandidates ==
  Handles(Nothing, ListOf(DiscoveredModelCandidate), 200, "done")
ForkSession == Handles(ForkRequest, ForkResult, 200, "header")
GetConfiguration == Handles(Nothing, ConfigurationView, 200, "done")
GetHealth == Handles(Nothing, Health, 200, "done")
GetProviderDetail == Handles(Nothing, ProviderDetail, 200, "done")
GetSessionCodeSnapshots == Handles(Nothing, ListOf(CodeSnapshotGroup), 200, "done")
GetSessionHistory == Handles(Nothing, HistoryPage, 200, "done")
GetSessionHydration == Handles(Nothing, Hydration, 200, "done")
GetWarnings == Handles(Nothing, WarningsSnapshot, 200, "done")
InterruptSession == Handles(Nothing, Nothing, 204, "done")
ListModels == Handles(Nothing, ModelList, 200, "done")
ListProviderModels == Handles(Nothing, ProviderModelList, 200, "done")
ListProviders == Handles(Nothing, ProviderList, 200, "done")
ListSessions == Handles(Nothing, ListOf(Session), 200, "done")
ListWorkspaces == Handles(Nothing, ListOf(Workspace), 200, "done")
ReadWorkspaceFile == Handles(ReadFileRequest, ReadFileResult, 200, "done")
ReloadConfiguration == Handles(Nothing, RevisionResponse, 200, "done")
ReopenSession == Handles(Nothing, Session, 200, "header")
ResetProviderField == Handles(Nothing, ProviderMutation, 200, "done")
ResetProviderModelField == Handles(Nothing, ModelMutation, 200, "done")
RevertSessionCode == Handles(RevertCodeRequest, CodeRevertResult, 200, "partial")
SetAgentTypeModel == Handles(SetAgentTypeModelRequest, AgentMutation, 200, "done")
SetSessionAgentType == Handles(SetSessionAgentTypeRequest, Session, 200, "header")
StopSession == Handles(Nothing, Nothing, 204, "done")
SubmitSession == Handles(SubmitRequest, SubmitResult, 200, "done")
UpdateConfigurationSettings == Handles(UpdateSettingsRequest, SettingsMutation, 200, "done")
UpdateProviderDetail == Handles(UpdateProviderDetailRequest, ProviderMutation, 200, "done")
UpdateProviderModel == Handles(UpdateProviderModelRequest, ModelMutation, 200, "done")

protocolHandlers == [
  ArchiveSession |-> ArchiveSession, CompactSession |-> CompactSession,
  ConnectProvider |-> ConnectProvider, CreateProvider |-> CreateProvider,
  CreateSession |-> CreateSession, DeleteProviderDetail |-> DeleteProviderDetail,
  DeleteProviderModel |-> DeleteProviderModel, DeleteSession |-> DeleteSession,
  DisconnectProvider |-> DisconnectProvider,
  DiscoverProviderCandidates |-> DiscoverProviderCandidates,
  DiscoverProviderModelCandidates |-> DiscoverProviderModelCandidates,
  ForkSession |-> ForkSession, GetConfiguration |-> GetConfiguration, GetHealth |-> GetHealth,
  GetProviderDetail |-> GetProviderDetail, GetSessionCodeSnapshots |-> GetSessionCodeSnapshots,
  GetSessionHistory |-> GetSessionHistory, GetSessionHydration |-> GetSessionHydration,
  GetWarnings |-> GetWarnings, InterruptSession |-> InterruptSession, ListModels |-> ListModels,
  ListProviderModels |-> ListProviderModels, ListProviders |-> ListProviders,
  ListSessions |-> ListSessions, ListWorkspaces |-> ListWorkspaces,
  ReadWorkspaceFile |-> ReadWorkspaceFile, ReloadConfiguration |-> ReloadConfiguration,
  ReopenSession |-> ReopenSession, ResetProviderField |-> ResetProviderField,
  ResetProviderModelField |-> ResetProviderModelField, RevertSessionCode |-> RevertSessionCode,
  SetAgentTypeModel |-> SetAgentTypeModel, SetSessionAgentType |-> SetSessionAgentType,
  StopSession |-> StopSession, SubmitSession |-> SubmitSession,
  UpdateConfigurationSettings |-> UpdateConfigurationSettings,
  UpdateProviderDetail |-> UpdateProviderDetail, UpdateProviderModel |-> UpdateProviderModel]
=============================================================================
