---------------------------- MODULE WireRequests ----------------------------
(***************************************************************************)
(* The requests the generated client builds: for every operation of the    *)
(* protocol its method, its path below the server address, the query       *)
(* parameters it always and sometimes carries and the type of its JSON     *)
(* body, and the client method that sends it.                              *)
(***************************************************************************)
EXTENDS WireTypes

\* An operation without a JSON body.
Nothing == [is |-> "nothing"]
Request(method, path, required, optional, body) ==
  [method |-> method, path |-> path, required |-> required, optional |-> optional, body |-> body]
\* A client method builds its request and lets the request editors, the credential's among
\* them, at it before it is sent.
Sends(request) == [request |-> request, edited |-> TRUE]

\* The request constructors.
NewArchiveSessionRequest ==
  Request("POST", <<"v1", "sessions", "{id}", "archive">>, {}, {}, Nothing)
NewCompactSessionRequest ==
  Request("POST", <<"v1", "sessions", "{id}", "compact">>, {}, {}, CompactRequest)
NewConnectProviderRequest ==
  Request("POST", <<"v1", "providers", "connect">>, {"provider_id"}, {}, ConnectRequest)
NewCreateProviderRequest == Request("POST", <<"v1", "providers">>, {}, {}, CreateProviderRequest)
NewCreateSessionRequest == Request("POST", <<"v1", "sessions">>, {}, {}, CreateSessionRequest)
NewDeleteProviderDetailRequest ==
  Request("DELETE", <<"v1", "providers", "detail">>, {"provider_id"}, {}, Nothing)
NewDeleteProviderModelRequest ==
  Request("DELETE", <<"v1", "providers", "models">>, {"provider_id", "model_id"}, {}, Nothing)
NewDeleteSessionRequest == Request("DELETE", <<"v1", "sessions", "{id}">>, {}, {}, Nothing)
NewDisconnectProviderRequest ==
  Request("POST", <<"v1", "providers", "disconnect">>, {"provider_id"}, {}, Nothing)
NewDiscoverProviderCandidatesRequest ==
  Request("POST", <<"v1", "providers", "discover">>, {}, {}, DiscoveryRequest)
NewDiscoverProviderModelCandidatesRequest ==
  Request("POST", <<"v1", "providers", "models", "discover">>, {"provider_id"}, {}, Nothing)
NewForkSessionRequest ==
  Request("POST", <<"v1", "sessions", "{id}", "fork">>, {}, {}, ForkRequest)
NewGetConfigurationRequest == Request("GET", <<"v1", "configuration">>, {}, {}, Nothing)
NewGetEventsRequest == Request("GET", <<"v1", "events">>, {}, {}, Nothing)
NewGetHealthRequest == Request("GET", <<"v1", "health">>, {}, {}, Nothing)
NewGetProviderDetailRequest ==
  Request("GET", <<"v1", "providers", "detail">>, {"provider_id"}, {}, Nothing)
NewGetSessionCodeSnapshotsRequest ==
  Request("GET", <<"v1", "sessions", "{id}", "code-snapshots">>, {}, {}, Nothing)
NewGetSessionHistoryRequest ==
  Request("GET", <<"v1", "sessions", "{id}", "history">>, {}, {"cursor"}, Nothing)
NewGetSessionHydrationRequest ==
  Request("GET", <<"v1", "sessions", "{id}", "hydration">>, {}, {}, Nothing)
NewGetWarningsRequest == Request("GET", <<"v1", "warnings">>, {}, {}, Nothing)
NewInterruptSessionRequest ==
  Request("POST", <<"v1", "sessions", "{id}", "interrupt">>, {}, {}, Nothing)
NewListModelsRequest == Request("GET", <<"v1", "models">>, {"all"}, {}, Nothing)
NewListProviderModelsRequest ==
  Request("GET", <<"v1", "providers", "models">>, {"provider_id"}, {}, Nothing)
NewListProvidersRequest == Request("GET", <<"v1", "providers">>, {}, {}, Nothing)
NewListSessionsRequest ==
  Request("GET", <<"v1", "sessions">>, {"workspace", "lifecycle"}, {}, Nothing)
NewListWorkspacesRequest == Request("GET", <<"v1", "workspaces">>, {}, {}, Nothing)
NewReadWorkspaceFileRequest ==
  Request("POST", <<"v1", "workspaces", "files", "read">>, {}, {}, ReadFileRequest)
NewReloadConfigurationRequest ==
  Request("POST", <<"v1", "configuration", "reload">>, {}, {}, Nothing)
NewReopenSessionRequest ==
  Request("POST", <<"v1", "sessions", "{id}", "reopen">>, {}, {}, Nothing)
NewResetProviderFieldRequest ==
  Request("DELETE", <<"v1", "providers", "fields", "{field}">>, {"provider_id"}, {}, Nothing)
NewResetProviderModelFieldRequest ==
  Request("DELETE", <<"v1", "providers", "models", "fields", "{field}">>, {"provider_id",
    "model_id"}, {}, Nothing)
NewRevertSessionCodeRequest ==
  Request("POST", <<"v1", "sessions", "{id}", "revert-code">>, {}, {}, RevertCodeRequest)
NewSetAgentTypeModelRequest ==
  Request("PUT", <<"v1", "agent-types", "model">>, {"agent_type"}, {}, SetAgentTypeModelRequest)
NewSetSessionAgentTypeRequest ==
  Request("PUT", <<"v1", "sessions", "{id}", "agent-type">>, {}, {}, SetSessionAgentTypeRequest)
NewStopSessionRequest == Request("POST", <<"v1", "sessions", "{id}", "stop">>, {}, {}, Nothing)
NewSubmitSessionRequest ==
  Request("POST", <<"v1", "sessions", "{id}", "submit">>, {}, {}, SubmitRequest)
NewUpdateConfigurationSettingsRequest ==
  Request("PUT", <<"v1", "configuration", "settings">>, {}, {}, UpdateSettingsRequest)
NewUpdateProviderDetailRequest ==
  Request("PUT", <<"v1", "providers", "detail">>, {"provider_id"}, {},
    UpdateProviderDetailRequest)
NewUpdateProviderModelRequest ==
  Request("PUT", <<"v1", "providers", "models">>, {"provider_id", "model_id"}, {},
    UpdateProviderModelRequest)

\* The client methods.
ArchiveSession == Sends(NewArchiveSessionRequest)
CompactSession == Sends(NewCompactSessionRequest)
ConnectProvider == Sends(NewConnectProviderRequest)
CreateProvider == Sends(NewCreateProviderRequest)
CreateSession == Sends(NewCreateSessionRequest)
DeleteProviderDetail == Sends(NewDeleteProviderDetailRequest)
DeleteProviderModel == Sends(NewDeleteProviderModelRequest)
DeleteSession == Sends(NewDeleteSessionRequest)
DisconnectProvider == Sends(NewDisconnectProviderRequest)
DiscoverProviderCandidates == Sends(NewDiscoverProviderCandidatesRequest)
DiscoverProviderModelCandidates == Sends(NewDiscoverProviderModelCandidatesRequest)
ForkSession == Sends(NewForkSessionRequest)
GetConfiguration == Sends(NewGetConfigurationRequest)
GetEvents == Sends(NewGetEventsRequest)
GetHealth == Sends(NewGetHealthRequest)
GetProviderDetail == Sends(NewGetProviderDetailRequest)
GetSessionCodeSnapshots == Sends(NewGetSessionCodeSnapshotsRequest)
GetSessionHistory == Sends(NewGetSessionHistoryRequest)
GetSessionHydration == Sends(NewGetSessionHydrationRequest)
GetWarnings == Sends(NewGetWarningsRequest)
InterruptSession == Sends(NewInterruptSessionRequest)
ListModels == Sends(NewListModelsRequest)
ListProviderModels == Sends(NewListProviderModelsRequest)
ListProviders == Sends(NewListProvidersRequest)
ListSessions == Sends(NewListSessionsRequest)
ListWorkspaces == Sends(NewListWorkspacesRequest)
ReadWorkspaceFile == Sends(NewReadWorkspaceFileRequest)
ReloadConfiguration == Sends(NewReloadConfigurationRequest)
ReopenSession == Sends(NewReopenSessionRequest)
ResetProviderField == Sends(NewResetProviderFieldRequest)
ResetProviderModelField == Sends(NewResetProviderModelFieldRequest)
RevertSessionCode == Sends(NewRevertSessionCodeRequest)
SetAgentTypeModel == Sends(NewSetAgentTypeModelRequest)
SetSessionAgentType == Sends(NewSetSessionAgentTypeRequest)
StopSession == Sends(NewStopSessionRequest)
SubmitSession == Sends(NewSubmitSessionRequest)
UpdateConfigurationSettings == Sends(NewUpdateConfigurationSettingsRequest)
UpdateProviderDetail == Sends(NewUpdateProviderDetailRequest)
UpdateProviderModel == Sends(NewUpdateProviderModelRequest)

ClientInterface == [
  ArchiveSession |-> ArchiveSession, CompactSession |-> CompactSession,
  ConnectProvider |-> ConnectProvider, CreateProvider |-> CreateProvider,
  CreateSession |-> CreateSession, DeleteProviderDetail |-> DeleteProviderDetail,
  DeleteProviderModel |-> DeleteProviderModel, DeleteSession |-> DeleteSession,
  DisconnectProvider |-> DisconnectProvider,
  DiscoverProviderCandidates |-> DiscoverProviderCandidates,
  DiscoverProviderModelCandidates |-> DiscoverProviderModelCandidates,
  ForkSession |-> ForkSession, GetConfiguration |-> GetConfiguration, GetEvents |-> GetEvents,
  GetHealth |-> GetHealth, GetProviderDetail |-> GetProviderDetail,
  GetSessionCodeSnapshots |-> GetSessionCodeSnapshots, GetSessionHistory |-> GetSessionHistory,
  GetSessionHydration |-> GetSessionHydration, GetWarnings |-> GetWarnings,
  InterruptSession |-> InterruptSession, ListModels |-> ListModels,
  ListProviderModels |-> ListProviderModels, ListProviders |-> ListProviders,
  ListSessions |-> ListSessions, ListWorkspaces |-> ListWorkspaces,
  ReadWorkspaceFile |-> ReadWorkspaceFile, ReloadConfiguration |-> ReloadConfiguration,
  ReopenSession |-> ReopenSession, ResetProviderField |-> ResetProviderField,
  ResetProviderModelField |-> ResetProviderModelField, RevertSessionCode |-> RevertSessionCode,
  SetAgentTypeModel |-> SetAgentTypeModel, SetSessionAgentType |-> SetSessionAgentType,
  StopSession |-> StopSession, SubmitSession |-> SubmitSession,
  UpdateConfigurationSettings |-> UpdateConfigurationSettings,
  UpdateProviderDetail |-> UpdateProviderDetail, UpdateProviderModel |-> UpdateProviderModel]
=============================================================================
