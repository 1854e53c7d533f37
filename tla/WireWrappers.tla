---------------------------- MODULE WireWrappers ----------------------------
(***************************************************************************)
(* The generated server side of every operation: the route it is mounted   *)
(* at and the wrapper that binds its query and path parameters before the  *)
(* handler is called.                                                      *)
(***************************************************************************)
EXTENDS WireTypes

\* A wrapper binds query parameters, required ones and optional ones, then the path parameter,
\* and passes what it bound on to the handler of one name.
Binds(handler, path, required, optional) ==
  [handler |-> handler, path |-> path, required |-> required, optional |-> optional]
Route(method, path, wrapper) == [method |-> method, path |-> path, wrapper |-> wrapper]

ArchiveSession == Binds("ArchiveSession", "id", None, None)
CompactSession == Binds("CompactSession", "id", None, None)
ConnectProvider == Binds("ConnectProvider", "", [provider_id |-> Text], None)
CreateProvider == Binds("CreateProvider", "", None, None)
CreateSession == Binds("CreateSession", "", None, None)
DeleteProviderDetail == Binds("DeleteProviderDetail", "", [provider_id |-> Text], None)
DeleteProviderModel ==
  Binds("DeleteProviderModel", "", [provider_id |-> Text, model_id |-> Text], None)
DeleteSession == Binds("DeleteSession", "id", None, None)
DisconnectProvider == Binds("DisconnectProvider", "", [provider_id |-> Text], None)
DiscoverProviderCandidates == Binds("DiscoverProviderCandidates", "", None, None)
DiscoverProviderModelCandidates ==
  Binds("DiscoverProviderModelCandidates", "", [provider_id |-> Text], None)
ForkSession == Binds("ForkSession", "id", None, None)
GetConfiguration == Binds("GetConfiguration", "", None, None)
GetEvents == Binds("GetEvents", "", None, None)
GetHealth == Binds("GetHealth", "", None, None)
GetProviderDetail == Binds("GetProviderDetail", "", [provider_id |-> Text], None)
GetSessionCodeSnapshots == Binds("GetSessionCodeSnapshots", "id", None, None)
\* Mutant: the cursor is not bound.
CursorDropped == Binds("GetSessionHistory", "id", None, None)
GetSessionHistory == Binds("GetSessionHistory", "id", None, [cursor |-> Text])
GetSessionHydration == Binds("GetSessionHydration", "id", None, None)
GetWarnings == Binds("GetWarnings", "", None, None)
InterruptSession == Binds("InterruptSession", "id", None, None)
ListModels == Binds("ListModels", "", [all |-> Flag], None)
ListProviderModels == Binds("ListProviderModels", "", [provider_id |-> Text], None)
ListProviders == Binds("ListProviders", "", None, None)
ListSessions == Binds("ListSessions", "", [workspace |-> Text, lifecycle |-> Text], None)
ListWorkspaces == Binds("ListWorkspaces", "", None, None)
ReadWorkspaceFile == Binds("ReadWorkspaceFile", "", None, None)
ReloadConfiguration == Binds("ReloadConfiguration", "", None, None)
ReopenSession == Binds("ReopenSession", "id", None, None)
ResetProviderField == Binds("ResetProviderField", "field", [provider_id |-> Text], None)
ResetProviderModelField ==
  Binds("ResetProviderModelField", "field", [provider_id |-> Text, model_id |-> Text], None)
RevertSessionCode == Binds("RevertSessionCode", "id", None, None)
SetAgentTypeModel == Binds("SetAgentTypeModel", "", [agent_type |-> Text], None)
SetSessionAgentType == Binds("SetSessionAgentType", "id", None, None)
StopSession == Binds("StopSession", "id", None, None)
SubmitSession == Binds("SubmitSession", "id", None, None)
UpdateConfigurationSettings == Binds("UpdateConfigurationSettings", "", None, None)
UpdateProviderDetail == Binds("UpdateProviderDetail", "", [provider_id |-> Text], None)
UpdateProviderModel ==
  Binds("UpdateProviderModel", "", [provider_id |-> Text, model_id |-> Text], None)

\* The routes, in registration order.
HandlerWithOptions == {
  Route("GET", <<"v1", "health">>, "GetHealth"),
  Route("GET", <<"v1", "events">>, "GetEvents"),
  Route("GET", <<"v1", "sessions">>, "ListSessions"),
  Route("POST", <<"v1", "sessions">>, "CreateSession"),
  Route("DELETE", <<"v1", "sessions", "{id}">>, "DeleteSession"),
  Route("POST", <<"v1", "sessions", "{id}", "archive">>, "ArchiveSession"),
  Route("POST", <<"v1", "sessions", "{id}", "reopen">>, "ReopenSession"),
  Route("POST", <<"v1", "sessions", "{id}", "submit">>, "SubmitSession"),
  Route("POST", <<"v1", "sessions", "{id}", "compact">>, "CompactSession"),
  Route("POST", <<"v1", "sessions", "{id}", "interrupt">>, "InterruptSession"),
  Route("POST", <<"v1", "sessions", "{id}", "stop">>, "StopSession"),
  Route("POST", <<"v1", "sessions", "{id}", "fork">>, "ForkSession"),
  Route("PUT", <<"v1", "sessions", "{id}", "agent-type">>, "SetSessionAgentType"),
  Route("GET", <<"v1", "sessions", "{id}", "hydration">>, "GetSessionHydration"),
  Route("GET", <<"v1", "sessions", "{id}", "history">>, "GetSessionHistory"),
  Route("GET", <<"v1", "sessions", "{id}", "code-snapshots">>, "GetSessionCodeSnapshots"),
  Route("POST", <<"v1", "sessions", "{id}", "revert-code">>, "RevertSessionCode"),
  Route("GET", <<"v1", "workspaces">>, "ListWorkspaces"),
  Route("POST", <<"v1", "workspaces", "files", "read">>, "ReadWorkspaceFile"),
  Route("GET", <<"v1", "configuration">>, "GetConfiguration"),
  Route("POST", <<"v1", "configuration", "reload">>, "ReloadConfiguration"),
  Route("PUT", <<"v1", "configuration", "settings">>, "UpdateConfigurationSettings"),
  Route("PUT", <<"v1", "agent-types", "model">>, "SetAgentTypeModel"),
  Route("GET", <<"v1", "models">>, "ListModels"),
  Route("GET", <<"v1", "providers">>, "ListProviders"),
  Route("POST", <<"v1", "providers">>, "CreateProvider"),
  Route("DELETE", <<"v1", "providers", "detail">>, "DeleteProviderDetail"),
  Route("GET", <<"v1", "providers", "detail">>, "GetProviderDetail"),
  Route("PUT", <<"v1", "providers", "detail">>, "UpdateProviderDetail"),
  Route("POST", <<"v1", "providers", "discover">>, "DiscoverProviderCandidates"),
  Route("POST", <<"v1", "providers", "connect">>, "ConnectProvider"),
  Route("POST", <<"v1", "providers", "disconnect">>, "DisconnectProvider"),
  Route("DELETE", <<"v1", "providers", "models">>, "DeleteProviderModel"),
  Route("GET", <<"v1", "providers", "models">>, "ListProviderModels"),
  Route("PUT", <<"v1", "providers", "models">>, "UpdateProviderModel"),
  Route("POST", <<"v1", "providers", "models", "discover">>, "DiscoverProviderModelCandidates"),
  Route("DELETE", <<"v1", "providers", "fields", "{field}">>, "ResetProviderField"),
  Route("DELETE", <<"v1", "providers", "models", "fields", "{field}">>, "ResetProviderModelField"),
  Route("GET", <<"v1", "warnings">>, "GetWarnings")}

ServerInterface == [
  ArchiveSession |-> ArchiveSession, CompactSession |-> CompactSession,
  ConnectProvider |-> ConnectProvider, CreateProvider |-> CreateProvider,
  CreateSession |-> CreateSession, DeleteProviderDetail |-> DeleteProviderDetail,
  DeleteProviderModel |-> DeleteProviderModel, DeleteSession |-> DeleteSession,
  DisconnectProvider |-> DisconnectProvider,
  DiscoverProviderCandidates |-> DiscoverProviderCandidates,
  DiscoverProviderModelCandidates |-> DiscoverProviderModelCandidates,
  ForkSession |-> ForkSession, GetConfiguration |-> GetConfiguration, GetEvents |-> GetEvents,
  GetHealth |-> GetHealth, GetProviderDetail |-> GetProviderDetail,
  GetSessionCodeSnapshots |-> GetSessionCodeSnapshots, GetSessionHistory |-> GetSessionHistory,
  GetSessionHydration |-> GetSessionHydration, GetWarnings |-> GetWarnings,
  InterruptSession |-> InterruptSession, ListModels |-> ListModels,
  ListProviderModels |-> ListProviderModels, ListProviders |-> ListProviders,
  ListSessions |-> ListSessions, ListWorkspaces |-> ListWorkspaces,
  ReadWorkspaceFile |-> ReadWorkspaceFile, ReloadConfiguration |-> ReloadConfiguration,
  ReopenSession |-> ReopenSession, ResetProviderField |-> ResetProviderField,
  ResetProviderModelField |-> ResetProviderModelField, RevertSessionCode |-> RevertSessionCode,
  SetAgentTypeModel |-> SetAgentTypeModel, SetSessionAgentType |-> SetSessionAgentType,
  StopSession |-> StopSession, SubmitSession |-> SubmitSession,
  UpdateConfigurationSettings |-> UpdateConfigurationSettings,
  UpdateProviderDetail |-> UpdateProviderDetail, UpdateProviderModel |-> UpdateProviderModel]
=============================================================================
