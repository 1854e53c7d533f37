----------------------------- MODULE MCPayload -----------------------------
\* Samples of every payload type, one for each form its rule knows, and how
\* far from them values may be.
EXTENDS Payload

Entry == [session_id |-> "s1", entry_id |-> "e1", operation_id |-> "o1"]
Copied == [Entry EXCEPT !.operation_id = ""]
Full == <<Part("full")>>
Seen == Evidence({"read"}, "e2", "e1")
Output(calls) == Entry @@ [status |-> "completed", source |-> "ref", content |-> Full,
                           tool_calls |-> calls, request_id |-> "r1", evidence |-> Seen]
Hook == Entry @@ [hook_id |-> "h1", extension_id |-> "x1", evidence |-> "observed"]
Checkpoint(facts) == [strategy_id |-> "st", messages |-> <<Say("hi")>>, boundary_entry_id |-> "e3",
                      configuration_revision |-> "rev", facts |-> facts, evidence |-> Seen]
Root == [session_id |-> "s1", workspace |-> "/w", created_at |-> "utc"]
Open == [lifecycle |-> "open", current_agent_type |-> "agent", usage |-> "totals", last_activity |-> "utc"]
Admitted(kind, entry) ==
  [session_id |-> "s1", operation_id |-> "o1", request_kind |-> kind, admitted_entry |-> entry,
   agent_type |-> "agent", execution |-> "capture", admitted_at |-> "utc"]
Operation(status, pending) ==
  [status |-> status, started_at |-> "utc", pending_tool_calls |-> pending, usage |-> "totals"]
Reserved(kind) == [kind |-> kind, result_entry_id |-> "e3"]

MCSamples ==
  [input |-> {Entry @@ [origin |-> "user", content |-> Full]},
   assistant |-> {Output(<< >>), Output(<<Published("c1", 0, "read", "normalized", "e2")>>)},
   tool_result |-> {Entry @@ [assistant_entry |-> "ref", tool_call_id |-> "c1", status |-> "error",
                              content |-> "text", original_content |-> "text", evidence |-> "observed"]},
   hook_result |->
     {Hook @@ [tool_call_id |-> "c1", status |-> "success", arguments_base64 |-> "object"],
      Hook @@ [tool_call_id |-> "c1", status |-> "error", error |-> "text"],
      Hook @@ [request_id |-> "r1", status |-> "success", input_evidence |-> Seen,
               consequence |-> "consequence"]},
   signal |-> {Entry @@ [signal |-> "interruption", related_operation |-> "ref", content |-> "interrupted"],
               Copied @@ [signal |-> "background_completion", related_member |-> "job:j1", content |-> "text"]},
   settlement |-> {Entry @@ [status |-> "failure", detail |-> "text"],
                   Entry @@ [status |-> "success", compaction_usage |-> TRUE, request_id |-> "r1",
                             evidence |-> Seen, facts |-> <<Fact("r1", FALSE)>>]},
   checkpoint |-> {Entry @@ Checkpoint(<<Fact("r1", FALSE)>>), Copied @@ Checkpoint(<< >>)},
   identity |-> {Root, Root @@ [parent_session_id |-> "s2"],
                 Root @@ [source_session_id |-> "s2", source_boundary_entry_id |-> "e1"]},
   state |-> {Open, [archived_at |-> "utc"] @@ [Open EXCEPT !.lifecycle = "archived"]},
   admission |-> {Admitted("message", "ref"), Admitted("compact", "none")},
   operation |->
     {Operation("running", << >>),
      Operation("running", <<Pending("c1", "e3")>>) @@ [active_effect |-> Effect("tool", "c1", "e3", "", "")],
      Operation("running", << >>) @@ [active_effect |-> Effect("conversation", "", "e1", "r1", "e2"),
                                      running_request |-> Running("r1", "e2")],
      Operation("failure", << >>) @@ [settled_at |-> "utc", terminal |-> Terminal("text")]},
   capture |-> {[configuration_revision |-> "rev", model |-> "ref", context_window |-> 1,
                 output_reserve |-> 1, system_prompt |-> "text", tools |-> <<"read">>, readonly |-> FALSE,
                 write_dir |-> "", compact |-> "capture", strategy |-> Strategy(TRUE)]},
   compact |-> {[model |-> "ref", system_prompt |-> "text"]},
   strategy |-> {[id |-> "st", requires_context_window |-> FALSE]},
   effect |->
     {Reserved("hook") @@ [hook_id |-> "h1", hook_extension_id |-> "x1", tool_call_id |-> "c1"],
      Reserved("hook") @@ [hook_id |-> "h1", hook_extension_id |-> "x1", request_id |-> "r1", evidence |-> Seen],
      Reserved("tool") @@ [tool_call_id |-> "c1", final_arguments_base64 |-> "object"],
      Reserved("model") @@ [request_id |-> "r1", model |-> "ref", purpose |-> "conversation", evidence |-> Seen],
      Reserved("model") @@ [request_id |-> "r1", model |-> "ref", purpose |-> "maintenance"]},
   request |-> {[request_id |-> "r1", boundary_entry_id |-> "e1"]},
   pending |-> {[assistant_entry |-> "ref", call_id |-> "c1", result_entry_id |-> "e3"]},
   terminal |-> {[settlement_entry |-> "ref"]},
   call |-> {[id |-> "c1", ordinal |-> 0, name |-> "read", arguments_base64 |-> "bytes", result_entry_id |-> "e3"]},
   model |-> {[provider |-> "p", model |-> "m"]},
   entry_ref |-> {[session_id |-> "s1", entry_id |-> "e1"]},
   operation_ref |-> {[session_id |-> "s1", operation_id |-> "o1"]},
   part |-> {[kind |-> "text", text |-> "t"], [kind |-> "image_url", url |-> "u"],
             [kind |-> "opaque", opaque_wire_type |-> "w"]},
   tool |-> {[name |-> "n", description |-> "d", parameters_base64 |-> "object"]},
   counts |-> {[input_tokens |-> 1, cached_input_tokens |-> 0, output_tokens |-> 1]},
   totals |-> {[by_model |-> <<1>>]}, pricing |-> {<< >>},
   message |-> {[role |-> "user", content |-> Full], [role |-> "tool", tool_call_id |-> "c1"],
                [role |-> "assistant", source |-> "ref", tool_calls |-> <<Call("c1")>>]},
   message_call |-> {[id |-> "c1", name |-> "n", arguments_base64 |-> "bytes"]},
   evidence |-> {[boundary_entry_id |-> "e1", prompt |-> "text", tool_names |-> <<"read">>]},
   consequence |-> {[prompt |-> "", tool_names |-> << >>]},
   fact |-> {[request_id |-> "r1", model |-> "ref", input |-> <<Say("hi")>>]}]

EntryTypes == {"input", "assistant", "tool_result", "hook_result", "signal", "settlement", "checkpoint"}
RegisterTypes == {"identity", "state", "admission", "operation", "capture", "compact", "strategy",
                  "effect", "request", "pending", "terminal"}
MCEdits == [t \in DOMAIN MCSamples |-> IF t \in EntryTypes THEN 2
                                       ELSE IF t \in RegisterTypes THEN 3 ELSE 4]
=============================================================================
