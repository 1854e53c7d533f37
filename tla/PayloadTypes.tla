---------------------------- MODULE PayloadTypes ----------------------------
(***************************************************************************)
(* The durable JSON shapes of harness/payload.go and harness/codec.go: for *)
(* every payload the members it is stored as, and the rule a value of the  *)
(* type obeys.  The two columns of a member are translated from the two    *)
(* halves of its codec, which the source writes independently:             *)
(*   write  "always" | "nonzero" (omitempty) | "rule" (the encoder decides)*)
(*   read   "required" | "nonempty" (optionalNonEmptyString, framedMember) *)
(*          | "any" (absence is the zero value) | "rule"                   *)
(* A value is a function from its members to tokens: "" and << >> are Go's *)
(* zero values, Nil a nil pointer, "bad" a text, frame or nested value its *)
(* own codec refuses.  The nested values that another member's rule looks  *)
(* into are records.                                                       *)
(***************************************************************************)
EXTENDS Integers, Sequences, Functions, SequencesExt, TLC

CONSTANTS Nil

(***************************************************************************)
(* Members.                                                                *)
(***************************************************************************)
Member(write, read, zero, vals) ==
  [write |-> write, read |-> read, zero |-> zero, vals |-> vals]

Required(vals)       == Member("always", "required", "", vals)
NonEmpty(vals)       == Member("nonzero", "nonempty", "", vals \cup {""})
Optional(zero, vals) == Member("nonzero", "any", zero, vals \cup {zero})
Pointer(vals)        == Optional(Nil, vals)
ByRule(member)       == [member EXCEPT !.write = "rule"]

Good(x)     == x # "bad"
AllGood(s)  == \A i \in 1..Len(s) : s[i].ok
Part(p)     == [ok |-> p # "bad", full |-> p = "full"]
Contents    == {<< >>, <<Part("full")>>, <<Part("empty")>>, <<Part("bad")>>}
Times       == {"utc", "zero", "beyond"}

\* validateHexID, validateJobID and validateOperationIdentity.
HexIds == {"s1", "s2", "e1", "e2", "e3"}
IsHexId(x) == x \in HexIds
IsOpId(x)  == x # ""

\* encodeTime and decodeTime: neither lets a zero time, a year beyond four
\* digits or another zone through.
IsDurable(t) == t = "utc"

(***************************************************************************)
(* The values payloads are made of.                                        *)
(***************************************************************************)
ModelRef == [provider |-> Required({"p", ""}), model |-> Required({"m", ""})]
ModelRefRule(v) == v.provider # "" /\ v.model # ""

EntryRef == [session_id |-> Required({"s1", "bad"}), entry_id |-> Required({"e1", "bad"})]
EntryRefRule(v) == IsHexId(v.session_id) /\ IsHexId(v.entry_id)

OperationRef == [session_id |-> Required({"s1", "bad"}), operation_id |-> Required({"o1", ""})]
OperationRefRule(v) == IsHexId(v.session_id) /\ IsOpId(v.operation_id)

\* A part owns the member of its kind and no other; Extra frames must be JSON.
ContentPart ==
  [kind  |-> Required({"text", "image_url", "opaque", "other"}),
   text  |-> Member("rule", "rule", "", {"", "t"}),
   url   |-> Member("rule", "rule", "", {"", "u"}),
   opaque_wire_type |-> Member("rule", "rule", "", {"", "w"}),
   extra |-> Optional("none", {"json", "bad"})]
PartMember == [text |-> "text", image_url |-> "url", opaque |-> "opaque_wire_type"]
PartMembers == {"text", "url", "opaque_wire_type"}
ContentPartRule(v) ==
  /\ v.kind \in DOMAIN PartMember
  /\ \A m \in PartMembers \ {PartMember[v.kind]} : v[m] = ""
  /\ v.kind = "opaque" => v.opaque_wire_type # ""
  /\ Good(v.extra)

ToolDefinition ==
  [name |-> Required({"n", ""}), description |-> Required({"d", ""}),
   parameters_base64 |-> Member("always", "required", "", {"object", "bad"})]
ToolDefinitionRule(v) == v.name # "" /\ Good(v.parameters_base64)

\* validateHookIdentities: named, and no pair twice.
HookIdLists == {<<"h1">>, <<"h1", "h2">>, <<"h1", "h1">>, <<"">>}
HookIdsRule(ids) == IsInjective(ids) /\ "" \notin Range(ids)

UsageCount == [input_tokens |-> Required({0, 1}), cached_input_tokens |-> Required({0, 1}),
               output_tokens |-> Required({0, 1})]

\* validateUsageTotals: complete models, each once, in lexicographic order.
UsageTotals == [by_model |-> Required({<< >>, <<1>>, <<1, 2>>, <<2, 1>>, <<1, 1>>, <<0>>})]
UsageTotalsRule(v) ==
  /\ 0 \notin Range(v.by_model)
  /\ \A i \in 1..Len(v.by_model) - 1 : v.by_model[i] < v.by_model[i + 1]

\* A rate that is not a finite number is no JSON number.
Rates == {"zero", "rate", "bad"}
ModelPricing == [input |-> Pointer(Rates), output |-> Pointer(Rates), cache_read |-> Pointer(Rates)]
ModelPricingRule(v) == \A m \in DOMAIN v : v[m] = Nil \/ Good(v[m])

(***************************************************************************)
(* Messages, and the evidence of a request.                                *)
(***************************************************************************)
MessageCall ==
  [id |-> Required({"c1", ""}), name |-> Required({"n", ""}),
   arguments_base64 |-> Required({"", "bytes", "bad"}), extra |-> Optional("none", {"json", "bad"})]
MessageCallRule(v) ==
  v.id # "" /\ v.name # "" /\ Good(v.arguments_base64) /\ Good(v.extra)

Call(name) == [ok |-> name # "", id |-> name]
Message ==
  [role |-> Required({"system", "user", "assistant", "tool", "other"}),
   source |-> Optional("none", {"ref", "bad"}),
   content |-> Optional(<< >>, Contents), refusal |-> NonEmpty({"text"}),
   name |-> Optional("", {"n"}), extra |-> Optional("none", {"json", "bad"}),
   tool_calls |-> Optional(<< >>, {<<Call("c1")>>, <<Call("")>>}),
   tool_call_id |-> NonEmpty({"c1"})]
MessageRule(v) ==
  /\ v.role \in {"system", "user", "assistant", "tool"}
  /\ v.source = (IF v.role = "assistant" THEN "ref" ELSE "none")
  /\ (v.refusal # "" \/ v.tool_calls # << >>) => v.role = "assistant"
  /\ (v.tool_call_id # "") = (v.role = "tool")
  /\ AllGood(v.content) /\ AllGood(v.tool_calls) /\ Good(v.extra)

\* What a list of messages is to the payloads that carry one: its calls and
\* results, in order, and whether every message is well formed.
Say(s)      == [ok |-> s # "bad", calls |-> {}, answers |-> ""]
Asks(call)  == [ok |-> TRUE, calls |-> {call}, answers |-> ""]
Tells(call) == [ok |-> TRUE, calls |-> {}, answers |-> call]
MessageLists == {<< >>, <<Say("hi")>>, <<Say("bad")>>, <<Asks("c1"), Tells("c1")>>,
                 <<Asks("c1")>>, <<Tells("c1"), Asks("c1")>>}

\* validateContributionMessage: no tool execution enters through a contribution.
Contribution(s) == AllGood(s) /\ \A i \in 1..Len(s) : s[i].calls = {} /\ s[i].answers = ""

\* validateToolPairing: the calls open after the first n messages; a call is
\* not asked twice while it is open, a result answers an open one, and none
\* is left open.
ToolPairing(s) ==
  LET open[n \in 0..Len(s)] ==
        IF n = 0 THEN {} ELSE (open[n - 1] \cup s[n].calls) \ {s[n].answers}
  IN  /\ \A n \in 1..Len(s) :
           /\ s[n].calls \cap open[n - 1] = {}
           /\ s[n].answers = "" \/ s[n].answers \in open[n - 1] \cup s[n].calls
      /\ open[Len(s)] = {}

NameLists == {<< >>, <<"read">>, <<"read", "write">>, <<"read", "read">>, <<"">>}
NamesRule(names) == IsInjective(names) /\ "" \notin Range(names)

RequestEvidence ==
  [checkpoint_entry_id |-> NonEmpty({"e2", "bad"}), boundary_entry_id |-> Required({"e1", "bad"}),
   prompt |-> Required({"", "text"}), messages |-> Optional(<< >>, MessageLists),
   tool_names |-> Required(NameLists), hook_ids |-> Optional(<< >>, HookIdLists)]
RequestEvidenceRule(v) ==
  /\ IsHexId(v.boundary_entry_id)
  /\ v.checkpoint_entry_id = "" \/ IsHexId(v.checkpoint_entry_id)
  /\ Contribution(v.messages) /\ NamesRule(v.tool_names) /\ HookIdsRule(v.hook_ids)

\* Presence of a prompt or of a selection is meaningful, whatever it holds.
RequestConsequence ==
  [prompt |-> Pointer({"", "text"}), messages |-> Optional(<< >>, MessageLists),
   tool_names |-> Optional(<<Nil>>, NameLists)]
RequestConsequenceRule(v) ==
  Contribution(v.messages) /\ (v.tool_names = <<Nil>> \/ NamesRule(v.tool_names))

\* Evidence as the payloads around it see it.
Evidence(names, checkpoint, boundary) ==
  [ok |-> TRUE, names |-> names, checkpoint |-> checkpoint, boundary |-> boundary]
BadEvidence == [Evidence({}, "", "e1") EXCEPT !.ok = FALSE]
Evidences   == {Evidence({"read"}, "e2", "e1"), Evidence({}, "", "e1"), BadEvidence}
EvidenceOK(e) == e # Nil /\ e.ok

\* Maintenance facts: each producer once, its model complete, its input valid.
MaintenanceFact ==
  [request_id |-> Required({"r1", ""}), model |-> Required({"ref", "bad"}),
   input |-> Required(MessageLists), usage |-> Pointer({"counts"})]
MaintenanceFactRule(v) == IsOpId(v.request_id) /\ Good(v.model) /\ AllGood(v.input)
Fact(r, usage) == [ok |-> r # "", request |-> r, usage |-> usage]
FactLists == {<< >>, <<Fact("r1", FALSE)>>, <<Fact("r1", TRUE), Fact("r2", FALSE)>>,
              <<Fact("r1", TRUE), Fact("r1", TRUE)>>, <<Fact("", FALSE)>>}
FactsRule(facts) == AllGood(facts) /\ IsInjective([i \in 1..Len(facts) |-> facts[i].request])
=============================================================================
