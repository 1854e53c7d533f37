----------------------------- MODULE WireInvoke -----------------------------
(***************************************************************************)
(* The native operation table the clients invoke by name: which members an *)
(* invocation envelope must, may or must not have, the query it binds, the *)
(* one status that means success and the client method it ends in.         *)
(***************************************************************************)
EXTENDS WireTypes

Request == INSTANCE WireRequests

\* The envelope members an operation declares: session and field are both the argument of a
\* path, so an operation declares one of them at most.
Bound(path, query, params, required, body, status, send) ==
  [session |-> IF path = "session" THEN "required" ELSE "forbidden",
   field |-> IF path = "field" THEN "required" ELSE "forbidden",
   query |-> query, params |-> params, required |-> required, body |-> body,
   status |-> status, send |-> send]
NoParams == Struct(None, None)

ArchiveSession ==
  Bound("session", "forbidden", NoParams, {}, "forbidden", 200, Request!ArchiveSession)
CompactSession ==
  Bound("session", "forbidden", NoParams, {}, "required", 200, Request!CompactSession)
ConnectProvider ==
  Bound("none", "required", ConnectProviderParams, {"provider_id"}, "required", 200,
    Request!ConnectProvider)
CreateProvider ==
  Bound("none", "forbidden", NoParams, {}, "required", 200, Request!CreateProvider)
CreateSession == Bound("none", "forbidden", NoParams, {}, "required", 201, Request!CreateSession)
DeleteProviderDetail ==
  Bound("none", "required", DeleteProviderDetailParams, {"provider_id"}, "forbidden", 200,
    Request!DeleteProviderDetail)
DeleteProviderModel ==
  Bound("none", "required", DeleteProviderModelParams, {"provider_id", "model_id"},
    "forbidden", 200, Request!DeleteProviderModel)
DeleteSession ==
  Bound("session", "forbidden", NoParams, {}, "forbidden", 204, Request!DeleteSession)
DisconnectProvider ==
  Bound("none", "required", DisconnectProviderParams, {"provider_id"}, "forbidden", 200,
    Request!DisconnectProvider)
DiscoverProviderCandidates ==
  Bound("none", "forbidden", NoParams, {}, "required", 200, Request!DiscoverProviderCandidates)
DiscoverProviderModelCandidates ==
  Bound("none", "required", DiscoverProviderModelCandidatesParams, {"provider_id"},
    "forbidden", 200, Request!DiscoverProviderModelCandidates)
ForkSession == Bound("session", "forbidden", NoParams, {}, "required", 200, Request!ForkSession)
GetConfiguration ==
  Bound("none", "forbidden", NoParams, {}, "forbidden", 200, Request!GetConfiguration)
GetHealth == Bound("none", "forbidden", NoParams, {}, "forbidden", 200, Request!GetHealth)
GetProviderDetail ==
  Bound("none", "required", GetProviderDetailParams, {"provider_id"}, "forbidden", 200,
    Request!GetProviderDetail)
GetSessionCodeSnapshots ==
  Bound("session", "forbidden", NoParams, {}, "forbidden", 200, Request!GetSessionCodeSnapshots)
GetSessionHistory ==
  Bound("session", "optional", GetSessionHistoryParams, {}, "forbidden", 200,
    Request!GetSessionHistory)
GetSessionHydration ==
  Bound("session", "forbidden", NoParams, {}, "forbidden", 200, Request!GetSessionHydration)
GetWarnings == Bound("none", "forbidden", NoParams, {}, "forbidden", 200, Request!GetWarnings)
InterruptSession ==
  Bound("session", "forbidden", NoParams, {}, "forbidden", 204, Request!InterruptSession)
ListModels ==
  Bound("none", "required", ListModelsParams, {"all"}, "forbidden", 200, Request!ListModels)
ListProviderModels ==
  Bound("none", "required", ListProviderModelsParams, {"provider_id"}, "forbidden", 200,
    Request!ListProviderModels)
ListProviders ==
  Bound("none", "forbidden", NoParams, {}, "forbidden", 200, Request!ListProviders)
ListSessions ==
  Bound("none", "required", ListSessionsParams, {"workspace", "lifecycle"}, "forbidden", 200,
    Request!ListSessions)
ListWorkspaces ==
  Bound("none", "forbidden", NoParams, {}, "forbidden", 200, Request!ListWorkspaces)
ReadWorkspaceFile ==
  Bound("none", "forbidden", NoParams, {}, "required", 200, Request!ReadWorkspaceFile)
ReloadConfiguration ==
  Bound("none", "forbidden", NoParams, {}, "forbidden", 200, Request!ReloadConfiguration)
ReopenSession ==
  Bound("session", "forbidden", NoParams, {}, "forbidden", 200, Request!ReopenSession)
ResetProviderField ==
  Bound("field", "required", ResetProviderFieldParams, {"provider_id"}, "forbidden", 200,
    Request!ResetProviderField)
ResetProviderModelField ==
  Bound("field", "required", ResetProviderModelFieldParams, {"provider_id", "model_id"},
    "forbidden", 200, Request!ResetProviderModelField)
RevertSessionCode ==
  Bound("session", "forbidden", NoParams, {}, "required", 200, Request!RevertSessionCode)
SetAgentTypeModel ==
  Bound("none", "required", SetAgentTypeModelParams, {"agent_type"}, "required", 200,
    Request!SetAgentTypeModel)
SetSessionAgentType ==
  Bound("session", "forbidden", NoParams, {}, "required", 200, Request!SetSessionAgentType)
StopSession == Bound("session", "forbidden", NoParams, {}, "forbidden", 204, Request!StopSession)
SubmitSession ==
  Bound("session", "forbidden", NoParams, {}, "required", 200, Request!SubmitSession)
UpdateConfigurationSettings ==
  Bound("none", "forbidden", NoParams, {}, "required", 200, Request!UpdateConfigurationSettings)
UpdateProviderDetail ==
  Bound("none", "required", UpdateProviderDetailParams, {"provider_id"}, "required", 200,
    Request!UpdateProviderDetail)
UpdateProviderModel ==
  Bound("none", "required", UpdateProviderModelParams, {"provider_id", "model_id"},
    "required", 200, Request!UpdateProviderModel)

operationDescriptors == [
  ArchiveSession |-> ArchiveSession, CompactSession |-> CompactSession,
  ConnectProvider |-> ConnectProvider, CreateProvider |-> CreateProvider,
  CreateSession |-> CreateSession, DeleteProviderDetail |-> DeleteProviderDetail,
  DeleteProviderModel |-> DeleteProviderModel, DeleteSession |-> DeleteSession,
  DisconnectProvider |-> DisconnectProvider,
  DiscoverProviderCandidates |-> DiscoverProviderCandidates,
  DiscoverProviderModelCandidates |-> DiscoverProviderModelCandidates,
  ForkSession |-> ForkSession, GetConfiguration |-> GetConfiguration, GetHealth |-> GetHealth,
  GetProviderDetail |-> GetProviderDetail, GetSessionCodeSnapshots |-> GetSessionCodeSnapshots,
  GetSessionHistory |-> GetSessionHistory, GetSessionHydration |-> GetSessionHydration,
  GetWarnings |-> GetWarnings, InterruptSession |-> InterruptSession, ListModels |-> ListModels,
  ListProviderModels |-> ListProviderModels, ListProviders |-> ListProviders,
  ListSessions |-> ListSessions, ListWorkspaces |-> ListWorkspaces,
  ReadWorkspaceFile |-> ReadWorkspaceFile, ReloadConfiguration |-> ReloadConfiguration,
  ReopenSession |-> ReopenSession, ResetProviderField |-> ResetProviderField,
  ResetProviderModelField |-> ResetProviderModelField, RevertSessionCode |-> RevertSessionCode,
  SetAgentTypeModel |-> SetAgentTypeModel, SetSessionAgentType |-> SetSessionAgentType,
  StopSession |-> StopSession, SubmitSession |-> SubmitSession,
  UpdateConfigurationSettings |-> UpdateConfigurationSettings,
  UpdateProviderDetail |-> UpdateProviderDetail, UpdateProviderModel |-> UpdateProviderModel]
=============================================================================
