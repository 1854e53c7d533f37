----------------------------- MODULE WireReplies -----------------------------
(***************************************************************************)
(* The answers the generated client reads: for every operation the         *)
(* statuses its response type has a member for and the types of those      *)
(* members, the parser that fills them, and the method that sends a        *)
(* request and parses its answer.                                          *)
(***************************************************************************)
EXTENDS WireTypes

Request == INSTANCE WireRequests

\* A response type has a member for one success status, or none, and one for everything else.
Typed(status, result, other) == [status |-> status, result |-> result, other |-> other]
NoStatus == 0
\* What the parser decodes a JSON body into, by the answer's status.
Parses(response) ==
  [success |-> response.status, into |-> response.result, otherwise |-> response.other]
Exchange(send, parse) == [send |-> send, parse |-> parse]

\* The response types.
ArchiveSessionResponse == Typed(200, Session, Error)
CompactSessionResponse == Typed(200, Operation, Error)
ConnectProviderResponse == Typed(200, ProviderMutation, Error)
CreateProviderResponse == Typed(200, ProviderMutation, Error)
CreateSessionResponse == Typed(201, Session, Error)
DeleteProviderDetailResponse == Typed(200, ProviderMutation, Error)
DeleteProviderModelResponse == Typed(200, ModelMutation, Error)
DeleteSessionResponse == Typed(NoStatus, Request!Nothing, Error)
DisconnectProviderResponse == Typed(200, ProviderMutation, Error)
DiscoverProviderCandidatesResponse == Typed(200, ListOf(DiscoveredModelCandidate), Error)
DiscoverProviderModelCandidatesResponse == Typed(200, ListOf(DiscoveredModelCandidate), Error)
ForkSessionResponse == Typed(200, ForkResult, Error)
GetConfigurationResponse == Typed(200, ConfigurationView, Error)
GetEventsResponse == Typed(NoStatus, Request!Nothing, Error)
GetHealthResponse == Typed(200, Health, Error)
GetProviderDetailResponse == Typed(200, ProviderDetail, Error)
GetSessionCodeSnapshotsResponse == Typed(200, ListOf(CodeSnapshotGroup), Error)
GetSessionHistoryResponse == Typed(200, HistoryPage, Error)
GetSessionHydrationResponse == Typed(200, Hydration, Error)
GetWarningsResponse == Typed(200, WarningsSnapshot, Error)
InterruptSessionResponse == Typed(NoStatus, Request!Nothing, Error)
ListModelsResponse == Typed(200, ModelList, Error)
ListProviderModelsResponse == Typed(200, ProviderModelList, Error)
ListProvidersResponse == Typed(200, ProviderList, Error)
ListSessionsResponse == Typed(200, ListOf(Session), Error)
ListWorkspacesResponse == Typed(200, ListOf(Workspace), Error)
ReadWorkspaceFileResponse == Typed(200, ReadFileResult, Error)
ReloadConfigurationResponse == Typed(200, RevisionResponse, Error)
ReopenSessionResponse == Typed(200, Session, Error)
ResetProviderFieldResponse == Typed(200, ProviderMutation, Error)
ResetProviderModelFieldResponse == Typed(200, ModelMutation, Error)
RevertSessionCodeResponse == Typed(200, CodeRevertResult, CodeRevertError)
SetAgentTypeModelResponse == Typed(200, AgentMutation, Error)
SetSessionAgentTypeResponse == Typed(200, Session, Error)
StopSessionResponse == Typed(NoStatus, Request!Nothing, Error)
SubmitSessionResponse == Typed(200, SubmitResult, Error)
UpdateConfigurationSettingsResponse == Typed(200, SettingsMutation, Error)
UpdateProviderDetailResponse == Typed(200, ProviderMutation, Error)
UpdateProviderModelResponse == Typed(200, ModelMutation, Error)

\* The parsers.
ParseArchiveSessionResponse == Parses(ArchiveSessionResponse)
ParseCompactSessionResponse == Parses(CompactSessionResponse)
ParseConnectProviderResponse == Parses(ConnectProviderResponse)
ParseCreateProviderResponse == Parses(CreateProviderResponse)
ParseCreateSessionResponse == Parses(CreateSessionResponse)
ParseDeleteProviderDetailResponse == Parses(DeleteProviderDetailResponse)
ParseDeleteProviderModelResponse == Parses(DeleteProviderModelResponse)
ParseDeleteSessionResponse == Parses(DeleteSessionResponse)
ParseDisconnectProviderResponse == Parses(DisconnectProviderResponse)
ParseDiscoverProviderCandidatesResponse == Parses(DiscoverProviderCandidatesResponse)
ParseDiscoverProviderModelCandidatesResponse == Parses(DiscoverProviderModelCandidatesResponse)
ParseForkSessionResponse == Parses(ForkSessionResponse)
ParseGetConfigurationResponse == Parses(GetConfigurationResponse)
ParseGetEventsResponse == Parses(GetEventsResponse)
ParseGetHealthResponse == Parses(GetHealthResponse)
ParseGetProviderDetailResponse == Parses(GetProviderDetailResponse)
ParseGetSessionCodeSnapshotsResponse == Parses(GetSessionCodeSnapshotsResponse)
ParseGetSessionHistoryResponse == Parses(GetSessionHistoryResponse)
ParseGetSessionHydrationResponse == Parses(GetSessionHydrationResponse)
ParseGetWarningsResponse == Parses(GetWarningsResponse)
ParseInterruptSessionResponse == Parses(InterruptSessionResponse)
ParseListModelsResponse == Parses(ListModelsResponse)
ParseListProviderModelsResponse == Parses(ListProviderModelsResponse)
ParseListProvidersResponse == Parses(ListProvidersResponse)
ParseListSessionsResponse == Parses(ListSessionsResponse)
ParseListWorkspacesResponse == Parses(ListWorkspacesResponse)
ParseReadWorkspaceFileResponse == Parses(ReadWorkspaceFileResponse)
ParseReloadConfigurationResponse == Parses(ReloadConfigurationResponse)
ParseReopenSessionResponse == Parses(ReopenSessionResponse)
ParseResetProviderFieldResponse == Parses(ResetProviderFieldResponse)
ParseResetProviderModelFieldResponse == Parses(ResetProviderModelFieldResponse)
ParseRevertSessionCodeResponse == Parses(RevertSessionCodeResponse)
ParseSetAgentTypeModelResponse == Parses(SetAgentTypeModelResponse)
ParseSetSessionAgentTypeResponse == Parses(SetSessionAgentTypeResponse)
ParseStopSessionResponse == Parses(StopSessionResponse)
ParseSubmitSessionResponse == Parses(SubmitSessionResponse)
ParseUpdateConfigurationSettingsResponse == Parses(UpdateConfigurationSettingsResponse)
ParseUpdateProviderDetailResponse == Parses(UpdateProviderDetailResponse)
ParseUpdateProviderModelResponse == Parses(UpdateProviderModelResponse)

\* The exchanges.
ArchiveSessionWithResponse == Exchange(Request!ArchiveSession, ParseArchiveSessionResponse)
CompactSessionWithResponse == Exchange(Request!CompactSession, ParseCompactSessionResponse)
ConnectProviderWithResponse == Exchange(Request!ConnectProvider, ParseConnectProviderResponse)
CreateProviderWithResponse == Exchange(Request!CreateProvider, ParseCreateProviderResponse)
CreateSessionWithResponse == Exchange(Request!CreateSession, ParseCreateSessionResponse)
DeleteProviderDetailWithResponse ==
  Exchange(Request!DeleteProviderDetail, ParseDeleteProviderDetailResponse)
DeleteProviderModelWithResponse ==
  Exchange(Request!DeleteProviderModel, ParseDeleteProviderModelResponse)
DeleteSessionWithResponse == Exchange(Request!DeleteSession, ParseDeleteSessionResponse)
DisconnectProviderWithResponse ==
  Exchange(Request!DisconnectProvider, ParseDisconnectProviderResponse)
DiscoverProviderCandidatesWithResponse ==
  Exchange(Request!DiscoverProviderCandidates, ParseDiscoverProviderCandidatesResponse)
DiscoverProviderModelCandidatesWithResponse ==
  Exchange(Request!DiscoverProviderModelCandidates, ParseDiscoverProviderModelCandidatesResponse)
ForkSessionWithResponse == Exchange(Request!ForkSession, ParseForkSessionResponse)
GetConfigurationWithResponse == Exchange(Request!GetConfiguration, ParseGetConfigurationResponse)
GetEventsWithResponse == Exchange(Request!GetEvents, ParseGetEventsResponse)
GetHealthWithResponse == Exchange(Request!GetHealth, ParseGetHealthResponse)
GetProviderDetailWithResponse ==
  Exchange(Request!GetProviderDetail, ParseGetProviderDetailResponse)
GetSessionCodeSnapshotsWithResponse ==
  Exchange(Request!GetSessionCodeSnapshots, ParseGetSessionCodeSnapshotsResponse)
GetSessionHistoryWithResponse ==
  Exchange(Request!GetSessionHistory, ParseGetSessionHistoryResponse)
GetSessionHydrationWithResponse ==
  Exchange(Request!GetSessionHydration, ParseGetSessionHydrationResponse)
GetWarningsWithResponse == Exchange(Request!GetWarnings, ParseGetWarningsResponse)
InterruptSessionWithResponse == Exchange(Request!InterruptSession, ParseInterruptSessionResponse)
ListModelsWithResponse == Exchange(Request!ListModels, ParseListModelsResponse)
ListProviderModelsWithResponse ==
  Exchange(Request!ListProviderModels, ParseListProviderModelsResponse)
ListProvidersWithResponse == Exchange(Request!ListProviders, ParseListProvidersResponse)
ListSessionsWithResponse == Exchange(Request!ListSessions, ParseListSessionsResponse)
ListWorkspacesWithResponse == Exchange(Request!ListWorkspaces, ParseListWorkspacesResponse)
ReadWorkspaceFileWithResponse ==
  Exchange(Request!ReadWorkspaceFile, ParseReadWorkspaceFileResponse)
ReloadConfigurationWithResponse ==
  Exchange(Request!ReloadConfiguration, ParseReloadConfigurationResponse)
ReopenSessionWithResponse == Exchange(Request!ReopenSession, ParseReopenSessionResponse)
ResetProviderFieldWithResponse ==
  Exchange(Request!ResetProviderField, ParseResetProviderFieldResponse)
ResetProviderModelFieldWithResponse ==
  Exchange(Request!ResetProviderModelField, ParseResetProviderModelFieldResponse)
RevertSessionCodeWithResponse ==
  Exchange(Request!RevertSessionCode, ParseRevertSessionCodeResponse)
SetAgentTypeModelWithResponse ==
  Exchange(Request!SetAgentTypeModel, ParseSetAgentTypeModelResponse)
SetSessionAgentTypeWithResponse ==
  Exchange(Request!SetSessionAgentType, ParseSetSessionAgentTypeResponse)
StopSessionWithResponse == Exchange(Request!StopSession, ParseStopSessionResponse)
SubmitSessionWithResponse == Exchange(Request!SubmitSession, ParseSubmitSessionResponse)
UpdateConfigurationSettingsWithResponse ==
  Exchange(Request!UpdateConfigurationSettings, ParseUpdateConfigurationSettingsResponse)
UpdateProviderDetailWithResponse ==
  Exchange(Request!UpdateProviderDetail, ParseUpdateProviderDetailResponse)
UpdateProviderModelWithResponse ==
  Exchange(Request!UpdateProviderModel, ParseUpdateProviderModelResponse)

ClientWithResponses == [
  ArchiveSession |-> ArchiveSessionWithResponse, CompactSession |-> CompactSessionWithResponse,
  ConnectProvider |-> ConnectProviderWithResponse,
  CreateProvider |-> CreateProviderWithResponse, CreateSession |-> CreateSessionWithResponse,
  DeleteProviderDetail |-> DeleteProviderDetailWithResponse,
  DeleteProviderModel |-> DeleteProviderModelWithResponse,
  DeleteSession |-> DeleteSessionWithResponse,
  DisconnectProvider |-> DisconnectProviderWithResponse,
  DiscoverProviderCandidates |-> DiscoverProviderCandidatesWithResponse,
  DiscoverProviderModelCandidates |-> DiscoverProviderModelCandidatesWithResponse,
  ForkSession |-> ForkSessionWithResponse, GetConfiguration |-> GetConfigurationWithResponse,
  GetEvents |-> GetEventsWithResponse, GetHealth |-> GetHealthWithResponse,
  GetProviderDetail |-> GetProviderDetailWithResponse,
  GetSessionCodeSnapshots |-> GetSessionCodeSnapshotsWithResponse,
  GetSessionHistory |-> GetSessionHistoryWithResponse,
  GetSessionHydration |-> GetSessionHydrationWithResponse,
  GetWarnings |-> GetWarningsWithResponse, InterruptSession |-> InterruptSessionWithResponse,
  ListModels |-> ListModelsWithResponse, ListProviderModels |-> ListProviderModelsWithResponse,
  ListProviders |-> ListProvidersWithResponse, ListSessions |-> ListSessionsWithResponse,
  ListWorkspaces |-> ListWorkspacesWithResponse,
  ReadWorkspaceFile |-> ReadWorkspaceFileWithResponse,
  ReloadConfiguration |-> ReloadConfigurationWithResponse,
  ReopenSession |-> ReopenSessionWithResponse,
  ResetProviderField |-> ResetProviderFieldWithResponse,
  ResetProviderModelField |-> ResetProviderModelFieldWithResponse,
  RevertSessionCode |-> RevertSessionCodeWithResponse,
  SetAgentTypeModel |-> SetAgentTypeModelWithResponse,
  SetSessionAgentType |-> SetSessionAgentTypeWithResponse,
  StopSession |-> StopSessionWithResponse, SubmitSession |-> SubmitSessionWithResponse,
  UpdateConfigurationSettings |-> UpdateConfigurationSettingsWithResponse,
  UpdateProviderDetail |-> UpdateProviderDetailWithResponse,
  UpdateProviderModel |-> UpdateProviderModelWithResponse]
=============================================================================
