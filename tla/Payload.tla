------------------------------- MODULE Payload -------------------------------
(***************************************************************************)
(* A payload's life in the store: the program assembles a value, its codec *)
(* renders it under an envelope, the stored bytes may be damaged or end up *)
(* under another envelope, and a later process decodes what it finds.      *)
(***************************************************************************)
EXTENDS PayloadRecords, FiniteSets

CONSTANTS Edits,      \* how far from its samples a value of each type may be
          Samples,    \* values of every type, zero members left out
          MaxDamage,  \* how many members of the stored object may be damaged
          Null, Wrong, Unknown, \* JSON null, a value of another JSON type, a foreign member
          Refused     \* the codec reports an error

ASSUME Bounds == Edits \in [DOMAIN Edits -> Nat] /\ MaxDamage \in Nat

VARIABLES type, value, edits, stored, damage, envelope, loaded
vars == <<type, value, edits, stored, damage, envelope, loaded>>

Members ==
  [input |-> InputEntry, assistant |-> AssistantEntry, tool_result |-> ToolResultEntry,
   hook_result |-> HookResultEntry, signal |-> SignalEntry, settlement |-> OperationSettlementEntry,
   checkpoint |-> ContextCheckpointEntry, identity |-> SessionIdentity, state |-> SessionState,
   admission |-> OperationAdmission, operation |-> OperationState, capture |-> ExecutionCapture,
   compact |-> CompactCapture, strategy |-> StrategyCapture, effect |-> ActiveEffect,
   request |-> RunningRequest, pending |-> PendingToolCall, terminal |-> OperationTerminal,
   call |-> ToolCallRecord, model |-> ModelRef, entry_ref |-> EntryRef, operation_ref |-> OperationRef,
   part |-> ContentPart, tool |-> ToolDefinition, counts |-> UsageCount, totals |-> UsageTotals,
   pricing |-> ModelPricing, message |-> Message, message_call |-> MessageCall,
   evidence |-> RequestEvidence, consequence |-> RequestConsequence, fact |-> MaintenanceFact]

Rule(t, v) ==
  CASE t = "input" -> InputEntryRule(v)          [] t = "assistant" -> AssistantEntryRule(v)
    [] t = "tool_result" -> ToolResultEntryRule(v) [] t = "hook_result" -> HookResultEntryRule(v)
    [] t = "signal" -> SignalEntryRule(v)        [] t = "settlement" -> OperationSettlementEntryRule(v)
    [] t = "checkpoint" -> ContextCheckpointEntryRule(v) [] t = "identity" -> SessionIdentityRule(v)
    [] t = "state" -> SessionStateRule(v)        [] t = "admission" -> OperationAdmissionRule(v)
    [] t = "operation" -> OperationStateRule(v)  [] t = "capture" -> ExecutionCaptureRule(v)
    [] t = "compact" -> CompactCaptureRule(v)    [] t = "strategy" -> StrategyCaptureRule(v)
    [] t = "effect" -> ActiveEffectRule(v)       [] t = "request" -> RunningRequestRule(v)
    [] t = "pending" -> PendingToolCallRule(v)   [] t = "terminal" -> OperationTerminalRule(v)
    [] t = "call" -> ToolCallRecordRule(v)       [] t = "model" -> ModelRefRule(v)
    [] t = "entry_ref" -> EntryRefRule(v)        [] t = "operation_ref" -> OperationRefRule(v)
    [] t = "part" -> ContentPartRule(v)          [] t = "tool" -> ToolDefinitionRule(v)
    [] t = "counts" -> TRUE                      [] t = "totals" -> UsageTotalsRule(v)
    [] t = "pricing" -> ModelPricingRule(v)      [] t = "message" -> MessageRule(v)
    [] t = "message_call" -> MessageCallRule(v)  [] t = "evidence" -> RequestEvidenceRule(v)
    [] t = "consequence" -> RequestConsequenceRule(v) [] t = "fact" -> MaintenanceFactRule(v)

TimeMembers == {"created_at", "archived_at", "last_activity", "admitted_at", "started_at", "settled_at"}
TimesDurable(v) == \A m \in TimeMembers \cap DOMAIN v : v[m] = Nil \/ IsDurable(v[m])

(***************************************************************************)
(* Encoding.                                                               *)
(***************************************************************************)
\* Mutant: members rendered by a rule are left out when they are empty.
WrittenByRuleNonEmpty(t, v) ==
  {m \in DOMAIN v : Members[t][m].write = "rule" /\ v[m] # Members[t][m].zero}

\* The members an encoder renders by a rule of its own, beyond its omitempty ones.
WrittenByRule(t, v) ==
  CASE t = "part" -> {PartMember[v.kind]}
    [] t = "hook_result" ->
         IF v.tool_call_id # ""
         THEN {"input_arguments_base64"} \cup (IF v.status = "success" THEN {"arguments_base64"} ELSE {})
         ELSE {"input_evidence"} \cup (IF v.status = "success" THEN {"consequence"} ELSE {})
    [] t = "admission" -> IF v.request_kind = "message" THEN {"admitted_entry"} ELSE {}
    [] t = "effect" ->
         IF v.input_arguments_base64 # "" \/ (v.kind = "hook" /\ v.hook_id # "" /\ v.tool_call_id # "")
         THEN {"input_arguments_base64"} ELSE {}
    [] OTHER -> {}

Written(t, v) ==
  WrittenByRule(t, v) \cup
  {m \in DOMAIN Members[t] :
     \/ Members[t][m].write = "always"
     \/ Members[t][m].write = "nonzero" /\ v[m] # Members[t][m].zero}

Encodes(t, v) == Rule(t, v) /\ TimesDurable(v)
Encode(t, v) == Restrict(v, Written(t, v))

(***************************************************************************)
(* Decoding.                                                               *)
(***************************************************************************)
\* rejectUnknownMembers and the member readers: a closed object, nothing null
\* or of another type, required members there, present ones not empty.
Shaped(t, w) ==
  /\ DOMAIN w \subseteq DOMAIN Members[t]
  /\ \A m \in DOMAIN w : w[m] \notin {Null, Wrong}
  /\ \A m \in DOMAIN Members[t] :
       /\ Members[t][m].read = "required" => m \in DOMAIN w
       /\ Members[t][m].read = "nonempty" /\ m \in DOMAIN w => w[m] # ""

\* Mutant: a hook result's binding no longer forbids the other one's member.
PresenceLoose(t, w) ==
  CASE t = "part" -> w.kind \in DOMAIN PartMember /\ DOMAIN w \cap PartMembers = {PartMember[w.kind]}
    [] t = "admission" -> w.request_kind = "message" => "admitted_entry" \in DOMAIN w
    [] OTHER -> TRUE

\* The presence a decoder demands by a rule of its own.
PresenceOK(t, w) ==
  CASE t = "part" ->
         w.kind \in DOMAIN PartMember /\ DOMAIN w \cap PartMembers = {PartMember[w.kind]}
    [] t = "hook_result" ->
         /\ "input_arguments_base64" \in DOMAIN w => "tool_call_id" \in DOMAIN w
         /\ "tool_call_id" \in DOMAIN w /\ "request_id" \notin DOMAIN w =>
              "input_arguments_base64" \in DOMAIN w
    [] t = "admission" ->
         /\ w.request_kind = "message" => "admitted_entry" \in DOMAIN w
         /\ w.request_kind = "compact" => "admitted_entry" \notin DOMAIN w
    [] t = "effect" ->
         /\ "input_arguments_base64" \in DOMAIN w => w.kind = "hook" /\ "tool_call_id" \in DOMAIN w
         /\ w.kind = "hook" /\ {"hook_id", "tool_call_id"} \subseteq DOMAIN w
              /\ "request_id" \notin DOMAIN w => "input_arguments_base64" \in DOMAIN w
    [] OTHER -> TRUE

Read(t, w) == [m \in DOMAIN Members[t] |-> IF m \in DOMAIN w THEN w[m] ELSE Members[t][m].zero]

\* Every payload repeats the identity of the envelope or key it is stored under.
EnvelopeMembers(t) ==
  CASE t \in {"input", "assistant", "tool_result", "hook_result", "signal", "settlement", "checkpoint"} ->
         {"session_id", "entry_id", "operation_id"}
    [] t = "identity" -> {"session_id"}
    [] t = "admission" -> {"session_id", "operation_id"}
    [] OTHER -> {}
EnvelopeOf(t, v) == [m \in EnvelopeMembers(t) |-> v[m]]
EnvelopeOK(env) ==
  /\ "session_id" \in DOMAIN env => IsHexId(env.session_id)
  /\ "entry_id" \in DOMAIN env => IsHexId(env.entry_id)
Agrees(t, v, env) == EnvelopeOf(t, v) = env

Decode(t, w, env) ==
  IF /\ EnvelopeOK(env) /\ Shaped(t, w) /\ PresenceOK(t, w)
     /\ Agrees(t, Read(t, w), env) /\ Rule(t, Read(t, w)) /\ TimesDurable(Read(t, w))
  THEN Read(t, w) ELSE Refused

(***************************************************************************)
(* The life of one payload.                                                *)
(***************************************************************************)
\* A value to start from: the members a sample gives, every other one zero.
Complete(t, sample) == [m \in DOMAIN Members[t] |->
                          IF m \in DOMAIN sample THEN sample[m] ELSE Members[t][m].zero]

Init ==
  /\ type \in DOMAIN Edits
  /\ value \in {Complete(type, sample) : sample \in Samples[type]} /\ edits = 0
  /\ stored = Nil /\ damage = {} /\ envelope = Nil /\ loaded = Nil

\* The program assembles another value of the type.
Assemble(m, x) ==
  /\ stored = Nil /\ loaded = Nil /\ edits < Edits[type]
  /\ x # value[m]
  /\ value' = [value EXCEPT ![m] = x] /\ edits' = edits + 1
  /\ UNCHANGED <<type, stored, damage, envelope, loaded>>

\* The encoder accepts it, and the payload is stored under its own identity.
Store ==
  /\ stored = Nil /\ loaded = Nil /\ Encodes(type, value)
  /\ stored' = Encode(type, value) /\ envelope' = EnvelopeOf(type, value)
  /\ UNCHANGED <<type, value, edits, damage, loaded>>

\* The encoder refuses it (ErrInvalid): nothing is stored.
RefuseValue ==
  /\ stored = Nil /\ loaded = Nil /\ ~Encodes(type, value)
  /\ loaded' = Refused
  /\ UNCHANGED <<type, value, edits, stored, damage, envelope>>

\* A member of the stored object is lost, replaced, or joined by a foreign one.
Damage(m, w) ==
  /\ stored # Nil /\ loaded = Nil
  /\ m \notin damage /\ Cardinality(damage) < MaxDamage
  /\ stored' = w /\ damage' = damage \cup {m}
  /\ UNCHANGED <<type, value, edits, envelope, loaded>>

Lose(m) == m \in DOMAIN stored /\ Damage(m, Restrict(stored, DOMAIN stored \ {m}))
Replace(m, x) == Damage(m, (m :> x) @@ stored)

\* The payload is found under another identity than it was stored under.
Misplace(m, x) ==
  /\ stored # Nil /\ loaded = Nil
  /\ envelope = EnvelopeOf(type, value)
  /\ m \in DOMAIN envelope /\ x # envelope[m]
  /\ envelope' = [envelope EXCEPT ![m] = x]
  /\ UNCHANGED <<type, value, edits, stored, damage, loaded>>

Load ==
  /\ stored # Nil /\ loaded = Nil
  /\ loaded' = Decode(type, stored, envelope)
  /\ UNCHANGED <<type, value, edits, stored, damage, envelope>>

\* The object written and read: nothing more happens to it.
Done == loaded # Nil /\ UNCHANGED vars

Replacements(m) == (Members[type][m].vals \cup {Null, Wrong}) \ {Nil}
Next ==
  \/ \E m \in DOMAIN Members[type] :
       \/ \E x \in Members[type][m].vals : Assemble(m, x) \/ Misplace(m, x)
       \/ stored # Nil /\ Lose(m)
       \/ stored # Nil /\ \E x \in Replacements(m) : Replace(m, x)
  \/ stored # Nil /\ Replace(Unknown, Null)
  \/ Store \/ RefuseValue \/ Load \/ Done

Spec == Init /\ [][Next]_vars

(***************************************************************************)
(* Properties.                                                             *)
(***************************************************************************)
\* Values stay within the members and tokens of their type (schema.go).
TypeOK ==
  /\ type \in DOMAIN Members /\ DOMAIN value = DOMAIN Members[type]
  /\ \A m \in DOMAIN value : value[m] \in Members[type][m].vals
  /\ loaded \notin {Nil, Refused} => \A m \in DOMAIN loaded : loaded[m] \in Members[type][m].vals

Accepted == loaded \notin {Nil, Refused}

\* Encode and decode are written separately for every payload; what an
\* encoder stored, its decoder reads back, member by member, or the Session
\* is corrupt for good.
RoundTrip ==
  stored # Nil /\ damage = {} /\ loaded # Nil /\ envelope = EnvelopeOf(type, value) => loaded = value

\* What a decoder accepts is the rendering of what it returns, up to members
\* whose present zero means their absence: no null, unknown, forbidden or
\* half-present member is read over in silence.
ReadsCanonical ==
  TypeOK /\ (Accepted =>
    /\ Encodes(type, loaded)
    /\ Encode(type, loaded) =
         Restrict(stored, {m \in DOMAIN stored :
           ~(m \in DOMAIN Members[type] /\ Members[type][m].read = "any"
               /\ stored[m] = Members[type][m].zero)}))

\* A payload answers for no Session, entry or Operation but its own, unless
\* the damage rewrote its identity (the envelope checks of every decoder).
EnvelopeBinds ==
  Accepted /\ envelope # EnvelopeOf(type, value) => damage \cap EnvelopeMembers(type) # {}

\* What a record says happened.
Outcome(v) ==
  CASE type \in {"settlement", "operation"} ->
         IF v.status \in {"failure", "interruption"} THEN "unsuccessful" ELSE v.status
    [] type = "hook_result" -> <<v.status = "success", v.tool_call_id # "">>
    [] type = "state" -> v.lifecycle
    [] type = "signal" -> v.signal
    [] type = "effect" -> <<v.kind, v.purpose>>
    [] type = "admission" -> v.request_kind
    [] OTHER -> "none"

\* No single damaged member turns a failure into a success, a settled record
\* into a running one, or one kind of effect, signal or admission into another:
\* a second member of the record always tells.
OutcomeNotForged == Accepted /\ Cardinality(damage) <= 1 => Outcome(loaded) = Outcome(value)

\* Damage is noticed before it is acted on: neither whose record it is nor how
\* its work ended changes under a single damaged member.
DamageTells == EnvelopeBinds /\ OutcomeNotForged
=============================================================================
