--------------------------- MODULE PayloadRecords ---------------------------
(***************************************************************************)
(* The entries and registers of harness/payload.go: each payload's members *)
(* and the rule its validator states.                                      *)
(***************************************************************************)
EXTENDS PayloadTypes

\* What every entry repeats of its envelope; an independently copied entry
\* names no Operation.
Identity ==
  [session_id |-> Required({"s1", "s2", "bad"}), entry_id |-> Required({"e1", "e2", "bad"}),
   operation_id |-> NonEmpty({"o1", "o2"})]
IdentityRule(v) == IsHexId(v.session_id) /\ IsHexId(v.entry_id)
Executions == {"not_started", "observed", "unknown"}

InputEntry == Identity @@
  [origin |-> Required({"user", "runtime", "plugin", "other"}), content |-> Required(Contents)]
InputEntryRule(v) ==
  IdentityRule(v) /\ v.origin \in {"user", "runtime", "plugin"} /\ AllGood(v.content)

ToolCallRecord ==
  [id |-> Required({"c1", ""}), ordinal |-> Required({0, 1}), name |-> Required({"read", ""}),
   arguments_base64 |-> Required({"", "bytes", "bad"}), extra |-> Optional("none", {"json", "bad"}),
   normalized_arguments_base64 |-> NonEmpty({"object", "bad"}),
   normalization_failure |-> NonEmpty({"text", "bad"}), result_entry_id |-> Required({"e3", "bad"})]
ToolCallRecordRule(c) ==
  /\ IsOpId(c.id) /\ IsOpId(c.name) /\ IsHexId(c.result_entry_id)
  /\ Good(c.arguments_base64) /\ Good(c.extra)
  /\ Good(c.normalized_arguments_base64) /\ Good(c.normalization_failure)
  /\ c.normalized_arguments_base64 = "" \/ c.normalization_failure = ""

\* A published call as its assistant entry sees it: normalized, failed or neither.
Published(id, ordinal, name, outcome, result) ==
  [ok |-> TRUE, id |-> id, ordinal |-> ordinal, name |-> name, outcome |-> outcome, result |-> result]
CallLists ==
  {<< >>, <<Published("c1", 0, "read", "normalized", "e2")>>,
   <<Published("c1", 0, "read", "failed", "e2"), Published("c2", 1, "gone", "neither", "e3")>>,
   <<Published("c1", 0, "read", "neither", "e2")>>, <<Published("c1", 0, "gone", "failed", "e2")>>,
   <<Published("c1", 1, "read", "normalized", "e2")>>,
   <<Published("c1", 0, "read", "failed", "e2"), Published("c2", 1, "read", "failed", "e2")>>,
   <<Published("c1", 0, "read", "failed", "e2"), Published("c1", 1, "read", "failed", "e3")>>}

AssistantEntry == Identity @@
  [status |-> Required({"completed", "errored", "interrupted", "other"}),
   source |-> Required({"ref", "bad"}), content |-> Required(Contents),
   refusal |-> NonEmpty({"text"}), extra |-> Optional("none", {"json", "nulls", "bad"}),
   tool_calls |-> Required(CallLists), usage |-> Pointer({"counts"}),
   request_id |-> Required({"r1", ""}), evidence |-> Required(Evidences)]

\* assistantPayloadEligible: something of the output is visible to the model.
Eligible(v) ==
  \/ v.refusal # "" \/ v.extra = "json"
  \/ \E i \in 1..Len(v.content) : v.content[i].full
  \/ v.status = "completed" /\ v.tool_calls # << >>

AssistantEntryRule(v) ==
  /\ IdentityRule(v) /\ IsOpId(v.request_id) /\ EvidenceOK(v.evidence)
  /\ v.operation_id = "" => v.usage = Nil
  /\ v.status \in {"completed", "errored", "interrupted"}
  /\ Good(v.source) /\ AllGood(v.content) /\ Good(v.extra)
  /\ v.status # "completed" => v.tool_calls = << >>
  /\ LET calls == v.tool_calls IN
       /\ \A i \in 1..Len(calls) : calls[i].ok /\ calls[i].ordinal = i - 1
       /\ IsInjective([i \in 1..Len(calls) |-> calls[i].id])
       /\ IsInjective([i \in 1..Len(calls) |-> calls[i].result])
       /\ \A i \in 1..Len(calls) :
            (calls[i].outcome = "neither") = (calls[i].name \notin v.evidence.names)
  /\ Eligible(v)

ToolResultEntry == Identity @@
  [assistant_entry |-> Required({"ref", "bad"}), tool_call_id |-> Required({"c1", ""}),
   status |-> Required({"success", "error", "denied", "interrupted", "other"}),
   content |-> Required({"text", ""}), original_content |-> Required({"text", ""}),
   shaping_failure |-> NonEmpty({"text", "bad"}), evidence |-> Required(Executions \cup {"other"}),
   metadata_base64 |-> NonEmpty({"json", "bad"}),
   normalized_arguments_base64 |-> NonEmpty({"object", "bad"}),
   hook_ids |-> Optional(<< >>, HookIdLists)]
ToolResultEntryRule(v) ==
  /\ IdentityRule(v) /\ Good(v.assistant_entry) /\ IsOpId(v.tool_call_id)
  /\ v.status \in {"success", "error", "denied", "interrupted"}
  /\ v.status # "success" => v.content # "" /\ v.original_content # ""
  /\ Good(v.shaping_failure) /\ v.evidence \in Executions /\ Good(v.metadata_base64)
  /\ Good(v.normalized_arguments_base64) /\ HookIdsRule(v.hook_ids)
  /\ v.hook_ids # << >> => v.normalized_arguments_base64 # ""

\* Bound to one call or to one request; what it consumed and what it produced
\* belong to the binding.
HookResultEntry ==
  [session_id |-> Required({"s1", "s2", "bad"}), entry_id |-> Required({"e1", "e2", "bad"}),
   operation_id |-> Required({"o1", "o2", ""}), hook_id |-> Required({"h1", ""}),
   extension_id |-> Required({"x1", ""}), tool_call_id |-> NonEmpty({"c1"}),
   request_id |-> NonEmpty({"r1"}), status |-> Required({"success", "error", "interrupted", "other"}),
   evidence |-> Required(Executions \cup {"other"}), error |-> NonEmpty({"text"}),
   arguments_base64 |-> ByRule(NonEmpty({"object", "bad"})),
   input_arguments_base64 |-> Member("rule", "rule", "", {"", "bytes", "bad"}),
   input_evidence |-> ByRule(Pointer(Evidences)), consequence |-> ByRule(Pointer({"consequence", "bad"}))]
HookResultBound(v) ==
  IF v.tool_call_id # ""
  THEN /\ v.request_id = "" /\ v.input_evidence = Nil /\ v.consequence = Nil
       /\ Good(v.input_arguments_base64)
  ELSE /\ v.request_id # "" /\ v.input_arguments_base64 = "" /\ v.arguments_base64 = ""
       /\ EvidenceOK(v.input_evidence)
HookResultEntryRule(v) ==
  /\ IdentityRule(v) /\ IsOpId(v.operation_id) /\ v.hook_id # "" /\ v.extension_id # ""
  /\ HookResultBound(v)
  /\ \/ /\ v.status = "success" /\ v.evidence = "observed" /\ v.error = ""
        /\ IF v.tool_call_id # "" THEN v.arguments_base64 = "object"
                                  ELSE v.consequence = "consequence"
     \/ /\ v.status \in {"error", "interrupted"} /\ v.evidence \in Executions
        /\ v.error # "" /\ v.arguments_base64 = "" /\ v.consequence = Nil

Fixed == [interruption |-> "interrupted", model_failure_continuation |-> "continued"]
SignalEntry == Identity @@
  [signal |-> Required({"interruption", "model_failure_continuation", "background_completion", "other"}),
   related_operation |-> Pointer({"ref", "bad"}),
   related_member |-> Pointer({"child:s1", "child:j1", "job:j1", "job:s1", "bad"}),
   content |-> Required({"interrupted", "continued", "text", ""})]
SignalEntryRule(v) ==
  /\ IdentityRule(v)
  /\ \/ /\ v.signal \in DOMAIN Fixed
        /\ v.related_member = Nil /\ v.related_operation = "ref"
        /\ v.content = Fixed[v.signal]
     \/ /\ v.signal = "background_completion"
        /\ v.operation_id = "" /\ v.related_operation = Nil
        /\ v.related_member \in {"child:s1", "job:j1"} /\ v.content # ""

OperationSettlementEntry ==
  [session_id |-> Required({"s1", "s2", "bad"}), entry_id |-> Required({"e1", "e2", "bad"}),
   operation_id |-> Required({"o1", "o2", ""}),
   status |-> Required({"success", "failure", "interruption", "running"}),
   detail |-> NonEmpty({"text"}), model |-> Pointer({"ref", "bad"}), usage |-> Pointer({"counts"}),
   compaction_usage |-> Optional(FALSE, {TRUE}), request_id |-> NonEmpty({"r1"}),
   consumed_request_id |-> NonEmpty({"r2"}), evidence |-> Pointer(Evidences),
   facts |-> Optional(<< >>, FactLists)]
\* Mutant: a success may carry a failure detail.
SettlementDetailLoose(v) ==
  /\ IdentityRule(v) /\ IsOpId(v.operation_id)
  /\ v.status \in {"success", "failure", "interruption"}
  /\ v.status # "success" => v.detail # ""
  /\ v.model = Nil \/ Good(v.model)
  /\ v.usage # Nil => v.model # Nil
  /\ v.evidence # Nil => v.evidence.ok /\ v.request_id # ""
  /\ FactsRule(v.facts)
OperationSettlementEntryRule(v) ==
  /\ IdentityRule(v) /\ IsOpId(v.operation_id)
  /\ v.consumed_request_id # "" => v.evidence # Nil /\ v.compaction_usage
  /\ v.status \in {"success", "failure", "interruption"}
  /\ (v.status = "success") = (v.detail = "")
  /\ v.model = Nil \/ Good(v.model)
  /\ v.usage # Nil => v.model # Nil
  /\ v.evidence # Nil => v.evidence.ok /\ v.request_id # ""
  /\ v.facts # << >> /\ v.compaction_usage => v.request_id # ""
  /\ FactsRule(v.facts)

ContextCheckpointEntry == Identity @@
  [strategy_id |-> Required({"st", ""}), messages |-> Required(MessageLists),
   boundary_entry_id |-> Required({"e3", "bad"}), configuration_revision |-> Required({"rev", ""}),
   facts |-> Required(FactLists), consumed_request_id |-> NonEmpty({"r2"}),
   evidence |-> Required(Evidences)]
ContextCheckpointEntryRule(v) ==
  /\ IdentityRule(v)
  /\ v.operation_id = "" => \A i \in 1..Len(v.facts) : ~v.facts[i].usage
  /\ v.strategy_id # "" /\ v.configuration_revision # "" /\ IsHexId(v.boundary_entry_id)
  /\ v.messages # << >> /\ AllGood(v.messages) /\ ToolPairing(v.messages)
  /\ FactsRule(v.facts) /\ EvidenceOK(v.evidence)

(***************************************************************************)
(* Registers.                                                              *)
(***************************************************************************)
SessionIdentity ==
  [session_id |-> Required({"s1", "s2", "bad"}), workspace |-> Required({"/w", "w/.."}),
   created_at |-> Required(Times), source_session_id |-> NonEmpty({"s2", "bad"}),
   source_boundary_entry_id |-> NonEmpty({"e1", "bad"}), parent_session_id |-> NonEmpty({"s2", "bad"})]
\* A root names no source, a fork both members of it, a child its parent alone.
SessionIdentityRule(v) ==
  /\ IsHexId(v.session_id) /\ v.workspace = "/w" /\ v.created_at # "zero"
  /\ \/ v.source_session_id = "" /\ v.source_boundary_entry_id = ""
     \/ /\ IsHexId(v.source_session_id) /\ IsHexId(v.source_boundary_entry_id)
        /\ v.parent_session_id = ""
  /\ v.parent_session_id = "" \/ IsHexId(v.parent_session_id)

SessionState ==
  [lifecycle |-> Required({"open", "archived", "other"}), archived_at |-> Pointer(Times),
   current_agent_type |-> Required({"agent", ""}), current_operation_id |-> NonEmpty({"o1"}),
   checkpoint_entry_id |-> NonEmpty({"e2", "bad"}), usage |-> Required({"totals", "bad"}),
   last_activity |-> Required(Times)]
SessionStateRule(v) ==
  /\ v.lifecycle \in {"open", "archived"} /\ (v.lifecycle = "archived") = (v.archived_at # Nil)
  /\ v.current_agent_type # "" /\ v.last_activity # "zero" /\ Good(v.usage)
  /\ v.checkpoint_entry_id = "" \/ IsHexId(v.checkpoint_entry_id)

CompactCapture ==
  [model |-> Required({"ref", "bad"}), system_prompt |-> Required({"text", ""}),
   pricing |-> Pointer({"rates", "bad"})]
CompactCaptureRule(v) == Good(v.model) /\ v.system_prompt # "" /\ v.pricing # "bad"

StrategyCapture ==
  [id |-> Required({"st", ""}), settings_base64 |-> NonEmpty({"json", "bad"}),
   requires_context_window |-> Required({TRUE, FALSE})]
StrategyCaptureRule(v) == v.id # "" /\ Good(v.settings_base64)

Strategy(requires) == [ok |-> TRUE, requires |-> requires]
ExecutionCapture ==
  [configuration_revision |-> Required({"rev", ""}), model |-> Required({"ref", "bad"}),
   context_window |-> Required({-1, 0, 1}), output_reserve |-> Required({-1, 0, 1}),
   system_prompt |-> Required({"", "text"}), tools |-> Required(NameLists),
   capabilities |-> Optional(<< >>, NameLists), readonly |-> Required({TRUE, FALSE}),
   write_dir |-> Required({"", "/d"}), pricing |-> Pointer({"rates", "bad"}),
   compact |-> Required({"capture", "bad"}),
   strategy |-> Required({Strategy(TRUE), Strategy(FALSE), [Strategy(FALSE) EXCEPT !.ok = FALSE]})]
\* Zero is an unknown window, permitted only when the strategy needs none.
ExecutionCaptureRule(v) ==
  /\ v.configuration_revision # "" /\ Good(v.model) /\ Good(v.compact)
  /\ v.context_window >= (IF v.strategy.requires THEN 1 ELSE 0) /\ v.output_reserve > 0
  /\ v.pricing # "bad" /\ v.strategy.ok
  /\ NamesRule(v.tools) /\ NamesRule(v.capabilities)

OperationAdmission ==
  [session_id |-> Required({"s1", "s2", "bad"}), operation_id |-> Required({"o1", "o2", ""}),
   request_kind |-> Required({"message", "compact", "other"}),
   admitted_entry |-> Member("rule", "rule", "none", {"none", "ref", "bad"}),
   agent_type |-> Required({"agent", ""}), execution |-> Required({"capture", "bad"}),
   admitted_at |-> Required(Times)]
OperationAdmissionRule(v) ==
  /\ IsHexId(v.session_id) /\ IsOpId(v.operation_id)
  /\ v.request_kind \in {"message", "compact"}
  /\ v.admitted_entry = (IF v.request_kind = "message" THEN "ref" ELSE "none")
  /\ v.agent_type # "" /\ v.admitted_at # "zero" /\ Good(v.execution)

ActiveEffect ==
  [kind |-> Required({"model", "tool", "hook", "other"}), result_entry_id |-> Required({"e3", "bad"}),
   tool_call_id |-> NonEmpty({"c1"}), hook_id |-> NonEmpty({"h1"}), request_id |-> NonEmpty({"r1"}),
   model |-> Pointer({"ref", "bad"}), purpose |-> NonEmpty({"conversation", "maintenance", "other"}),
   evidence |-> Pointer(Evidences), hook_extension_id |-> NonEmpty({"x1"}),
   input_arguments_base64 |-> Member("rule", "rule", "", {"", "bytes", "bad"}),
   final_arguments_base64 |-> NonEmpty({"object", "bad"}), hook_ids |-> Optional(<< >>, HookIdLists)]

ModelEffect(v) ==
  /\ v.kind = "model"
  /\ v.tool_call_id = "" /\ v.hook_id = "" /\ v.hook_extension_id = ""
  /\ v.input_arguments_base64 = "" /\ v.final_arguments_base64 = "" /\ v.hook_ids = << >>
  /\ v.request_id # "" /\ v.model = "ref"
  /\ \/ v.purpose = "conversation" /\ EvidenceOK(v.evidence)
     \/ v.purpose = "maintenance" /\ v.evidence = Nil
ToolEffect(v) ==
  /\ v.kind = "tool"
  /\ v.hook_id = "" /\ v.hook_extension_id = "" /\ v.request_id = "" /\ v.purpose = ""
  /\ v.model = Nil /\ v.evidence = Nil /\ v.input_arguments_base64 = ""
  /\ v.tool_call_id # "" /\ v.final_arguments_base64 = "object" /\ HookIdsRule(v.hook_ids)
HookEffect(v) ==
  /\ v.kind = "hook" /\ v.hook_id # "" /\ v.hook_extension_id # ""
  /\ v.model = Nil /\ v.purpose = "" /\ v.final_arguments_base64 = "" /\ v.hook_ids = << >>
  /\ \/ /\ v.request_id # "" /\ v.tool_call_id = "" /\ EvidenceOK(v.evidence)
        /\ v.input_arguments_base64 = ""
     \/ /\ v.request_id = "" /\ v.tool_call_id # "" /\ v.evidence = Nil
        /\ Good(v.input_arguments_base64)
ActiveEffectRule(v) ==
  IsHexId(v.result_entry_id) /\ (ModelEffect(v) \/ ToolEffect(v) \/ HookEffect(v))

RunningRequest ==
  [request_id |-> Required({"r1", ""}), checkpoint_entry_id |-> NonEmpty({"e2", "bad"}),
   boundary_entry_id |-> Required({"e1", "bad"}),
   hook_results |-> Optional(<< >>, {<<"e1">>, <<"e1", "e2">>, <<"e1", "e1">>, <<"bad">>})]
RunningRequestRule(v) ==
  /\ IsOpId(v.request_id) /\ IsHexId(v.boundary_entry_id)
  /\ v.checkpoint_entry_id = "" \/ IsHexId(v.checkpoint_entry_id)
  /\ IsInjective(v.hook_results) /\ \A ref \in Range(v.hook_results) : IsHexId(ref)

PendingToolCall ==
  [assistant_entry |-> Required({"ref", "bad"}), call_id |-> Required({"c1", ""}),
   result_entry_id |-> Required({"e3", "bad"})]
PendingToolCallRule(v) == Good(v.assistant_entry) /\ IsOpId(v.call_id) /\ IsHexId(v.result_entry_id)

OperationTerminal ==
  [settlement_entry |-> Required({"ref", "bad"}), detail |-> NonEmpty({"text"})]
OperationTerminalRule(v) == Good(v.settlement_entry)

(***************************************************************************)
(* The state of an Operation.  Its active effect, running request, pending *)
(* calls and terminal section carry what its rule compares.                *)
(***************************************************************************)
Effect(kind, call, result, request, checkpoint) ==
  [ok |-> TRUE, kind |-> kind, call |-> call, result |-> result, request |-> request,
   checkpoint |-> checkpoint]
EffectsHeld ==
  {Effect("tool", "c1", "e3", "", ""), Effect("tool", "c1", "e2", "", ""),
   Effect("tool", "c2", "e2", "", ""), Effect("hook", "c1", "e1", "", ""),
   Effect("conversation", "", "e1", "r1", "e2"), Effect("hook", "", "e1", "r1", ""),
   Effect("maintenance", "", "e1", "r2", ""), [Effect("tool", "c1", "e3", "", "") EXCEPT !.ok = FALSE]}
Pending(call, result) == [ok |-> call # "", call |-> call, result |-> result]
PendingLists ==
  {<< >>, <<Pending("c1", "e3")>>, <<Pending("c1", "e3"), Pending("c2", "e2")>>,
   <<Pending("c1", "e3"), Pending("c1", "e2")>>, <<Pending("c1", "e3"), Pending("c2", "e3")>>,
   <<Pending("", "e3")>>}
Running(request, checkpoint) == [ok |-> TRUE, request |-> request, checkpoint |-> checkpoint]
Terminal(detail) == [ok |-> detail # "bad", detail |-> detail]

OperationState ==
  [status |-> Required({"running", "success", "failure", "interruption", "other"}),
   started_at |-> Required(Times), settled_at |-> Pointer(Times),
   active_effect |-> Pointer(EffectsHeld),
   running_request |-> Pointer({Running("r1", ""), Running("r1", "e2"), Running("r2", "")}),
   pending_tool_calls |-> Required(PendingLists), usage |-> Required({"totals", "bad"}),
   terminal |-> Pointer({Terminal(""), Terminal("text"), Terminal("bad")}),
   unreported_maintenance |-> Optional(FALSE, {TRUE})]

\* A call-bound effect works for the first pending call; a tool effect holds
\* that call's reserved result.  A request-bound one belongs to the published
\* running request; a maintenance effect is exempt.
EffectAgrees(v) ==
  LET e == v.active_effect IN
  /\ e.ok
  /\ e.call # "" => /\ v.pending_tool_calls # << >> /\ e.call = v.pending_tool_calls[1].call
                    /\ e.kind = "tool" => e.result = v.pending_tool_calls[1].result
  /\ e.kind = "conversation" \/ (e.kind = "hook" /\ e.request # "") =>
       /\ v.running_request # Nil
       /\ v.running_request.request = e.request /\ v.running_request.checkpoint = e.checkpoint

OperationStateRule(v) ==
  /\ v.started_at # "zero" /\ Good(v.usage)
  /\ \/ v.status = "running" /\ v.settled_at = Nil /\ v.terminal = Nil
     \/ /\ v.status \in {"success", "failure", "interruption"}
        /\ v.settled_at \notin {Nil, "zero"} /\ v.terminal # Nil
        /\ v.active_effect = Nil /\ v.pending_tool_calls = << >> /\ v.running_request = Nil
        /\ v.terminal.ok /\ (v.status = "success") = (v.terminal.detail = "")
  /\ v.active_effect # Nil => EffectAgrees(v)
  /\ AllGood(v.pending_tool_calls)
  /\ IsInjective([i \in 1..Len(v.pending_tool_calls) |-> v.pending_tool_calls[i].call])
  /\ IsInjective([i \in 1..Len(v.pending_tool_calls) |-> v.pending_tool_calls[i].result])
=============================================================================
