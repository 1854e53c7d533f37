----------------------------- MODULE Maintenance -----------------------------
(***************************************************************************)
(* Context maintenance: the compaction procedure of one Session, run       *)
(* automatically before a conversation request or by a dedicated compact   *)
(* Operation, with the model work it pays for, the checkpoint it commits,  *)
(* and the accounting that must survive a failure at any point.            *)
(*                                                                         *)
(* The entry log and the registers are durable and written by              *)
(* transactions.  Entry identities are positions in the log (sequences     *)
(* grow and the log is append-only).  The strategy is a parameter: the     *)
(* included summary strategy, or any strategy (StrategyBinding is          *)
(* pluggable).  Conversation effects appear as far as maintenance depends  *)
(* on them; module Effects has them in detail.  A token report is absent,  *)
(* a known zero or one unit.                                               *)
(***************************************************************************)
EXTENDS Integers, Sequences, FiniteSets, SequencesExt

CONSTANTS
    NoCall,      \* the call identity of a message that answers none
    Scopes       \* what a Session may be bound to and go through, each with its bounds:
                 \*   strategy: "summary" or "any"; kinds: its Operations, of "message", "compact"
                 \*   batches: the tool call sequences an output may carry
                 \*   reports: the token reports a provider may give
                 \*   ops: Operations; rounds: requests of an Operation; plans: model plans of
                 \*   one procedure; retain: messages a proposal retains; cancels:
                 \*   interruptions; faults: failed transactions; crashes: process losses

Report == {"absent", "zero", "some"}
Calls  == UNION {UNION {ToSet(b) : b \in s.batches} : s \in Scopes}

ASSUME Strategies ==
    \A s \in Scopes : /\ s.strategy \in {"summary", "any"} /\ s.kinds \subseteq {"message", "compact"}
                      /\ s.reports \subseteq Report
(* An output's calls are distinct (requireUniqueCallIDs). *)
ASSUME OutputCalls ==
    /\ NoCall \notin Calls
    /\ \A s \in Scopes : \A b \in s.batches : b \in Seq(Calls) /\ IsInjective(b)
ASSUME MaintenanceBounds ==
    \A s \in Scopes :
        {s.ops, s.rounds, s.plans, s.retain, s.cancels, s.faults, s.crashes} \subseteq Nat

VARIABLES
    scope,       \* what this Session is bound to
    log,         \* the committed entries
    checkpoint,  \* the Session register's CheckpointEntryID, 0 for none
    usage,       \* the Session register's usage total
    ops,         \* the Operation registers, in admission order
    \* the executing goroutine
    at, canceled, round,
    frozen,      \* the PlanInput: its references and messages
    facts,       \* the procedure's maintenanceFacts
    pendingFacts,\* executionDriver.pendingFacts
    plan,        \* the plan being executed
    output,      \* an accepted model output not yet committed
    ids,         \* the next fresh producer identity
    faults, crashes, cancels,
    spent        \* history: units the providers reported, per Operation

durable == <<log, checkpoint, usage, ops>>
local   == <<at, canceled, round, frozen, facts, pendingFacts, plan, output>>
vars    == <<durable, local, ids, faults, crashes, cancels, spent, scope>>

NoRequest == [id |-> 0, cp |-> 0, boundary |-> 0]
NoEffect  == [kind |-> "none", id |-> 0]
NoFacts   == [list |-> <<>>, source |-> 0, consumed |-> "no"]
NoPlan    == [kind |-> "none", boundary |-> 0, retain |-> {}, context |-> "no"]
NoOutput  == [status |-> "none", calls |-> <<>>, report |-> "absent"]
NoInput   == [cp |-> 0, boundary |-> 0, messages |-> <<>>]
Text      == [calls |-> <<>>, result |-> NoCall, src |-> 0]

Op(kind) == [kind |-> kind, status |-> "running", effect |-> NoEffect, request |-> NoRequest,
             pending |-> <<>>, unreported |-> "no", usage |-> 0]
Current  == Len(ops)
Running  == ops # <<>> /\ ops[Current].status = "running"

Init ==
    /\ scope \in Scopes
    /\ log = <<>> /\ checkpoint = 0 /\ usage = 0 /\ ops = <<>>
    /\ at = "idle" /\ canceled = "no" /\ round = 0
    /\ frozen = NoInput /\ facts = NoFacts /\ pendingFacts = <<>>
    /\ plan = NoPlan /\ output = NoOutput
    /\ ids = 1 /\ faults = 0 /\ crashes = 0 /\ cancels = 0
    /\ spent = [o \in 1..scope.ops |-> 0]
-----------------------------------------------------------------------------
(* The projection of the log that a request consumes. *)

MessageBearing(e) == e.kind \in {"input", "assistant", "tool", "signal"}

(* projectEntry, for an entry that bears a message. *)
Message(l, i) == [calls  |-> IF l[i].kind = "assistant" THEN l[i].calls ELSE <<>>,
                  result |-> IF l[i].kind = "tool" THEN l[i].call ELSE NoCall,
                  src    |-> i]

(* findCompactionCutoff: the position the named checkpoint covers. *)
Cutoff(l, cp) == IF cp = 0 THEN 0 ELSE l[cp].boundary

(* The members of S up to n, in order. *)
Ascending(S, n) ==
    LET up[i \in 0..n] == IF i = 0 THEN <<>> ELSE IF i \in S THEN Append(up[i - 1], i) ELSE up[i - 1]
    IN  up[n]

(* The positions of the message-bearing entries in (lo, hi]. *)
Bearing(l, lo, hi) == Ascending({i \in (lo + 1)..hi : MessageBearing(l[i])}, hi)
MessagesAt(l, positions) == [k \in DOMAIN positions |-> Message(l, positions[k])]

(* projectContextRefs: the checkpoint's own messages, then the kept tail. *)
Covered(l, cp) == IF cp = 0 THEN <<>> ELSE l[cp].messages
Project(l, cp) ==
    LET tail == Bearing(l, Cutoff(l, cp), Len(l))
    IN  [cp       |-> cp,
         boundary |-> IF tail = <<>> THEN cp ELSE Last(tail),
         messages |-> Covered(l, cp) \o MessagesAt(l, tail)]

(* rebuiltBoundary: the canonical tail after a checkpoint at cut. *)
RebuiltBoundary(l, cut, id) ==
    LET tail == Bearing(l, cut, Len(l)) IN IF tail = <<>> THEN id ELSE Last(tail)

(* latestContextUsage: the newest conversation report after the checkpoint. *)
ReportsContext(e) == /\ \/ e.kind = "assistant"
                        \/ e.kind = "settlement" /\ e.compaction = "no"
                     /\ e.report # "absent"
LatestUsage(after) ==
    LET eligible == {i \in (after + 1)..Len(log) : ReportsContext(log[i])}
    IN  IF eligible = {} THEN "absent" ELSE log[Max(eligible)].report
MeasurementIgnoringCheckpoint == LatestUsage(0)   \* mutant: the scan runs past the checkpoint
ContextMeasurement == LatestUsage(checkpoint)
-----------------------------------------------------------------------------
(* Tool pairing. *)

CallAt(ms, c, i)   == c \in ToSet(ms[i].calls)
Quiet(ms, c, j, i) == \A k \in (j + 1)..(i - 1) : ~ CallAt(ms, c, k) /\ ms[k].result # c

(* validateToolPairing: a result finds its call outstanding, and a call is
   retired by its result before its identity is opened again or the view
   ends. *)
PairsComplete(ms) ==
    \A i \in DOMAIN ms :
        /\ ms[i].result # NoCall =>
               \E j \in 1..(i - 1) : CallAt(ms, ms[i].result, j) /\ Quiet(ms, ms[i].result, j, i)
        /\ \A c \in ToSet(ms[i].calls) :
               \E j \in (i + 1)..Len(ms) : ms[j].result = c /\ Quiet(ms, c, i, j)

(* The occurrence pairing of resolveCheckpointItems: the k-th result of an
   identity answers its k-th call. *)
Opened(ms, c, i)   == {j \in 1..i : CallAt(ms, c, j)}
Answered(ms, c, i) == {j \in 1..i : ms[j].result = c}
Owner(ms, i) ==
    LET c == ms[i].result
        k == Cardinality(Answered(ms, c, i))
    IN  {j \in Opened(ms, c, i) : Cardinality(Opened(ms, c, j)) = k}

(* A retained call keeps its own results and a retained result its call. *)
RetainsAnything(ms, kept) == TRUE   \* mutant: only the materialized pairing is checked
RetainsExchanges(ms, kept) ==
    \A i \in DOMAIN ms : ms[i].result # NoCall =>
        /\ \A j \in Owner(ms, i) : j \in kept <=> i \in kept
        /\ i \in kept => Owner(ms, i) # {}

(* resolveCheckpointItems: retained messages lie in the covered source. *)
ItemsResolve(ms, p, covered) ==
    /\ p.retain # {} \/ p.context = "yes"
    /\ \A i \in p.retain : i <= covered
    /\ RetainsExchanges(ms, p.retain)

(* The self-contained messages; the authored context comes first. *)
Materialized(ms, p) ==
    LET kept == Ascending(p.retain, Len(ms))
    IN  (IF p.context = "yes" THEN <<Text>> ELSE <<>>) \o [k \in DOMAIN kept |-> ms[kept[k]]]

(* buildCutSafety: a call published at or before the cut has no result
   there. *)
CutUnsafe(l, cut) ==
    \E i \in 1..cut : l[i].kind = "assistant" /\ \E c \in ToSet(l[i].calls) :
        ~ \E j \in 1..cut : l[j].kind = "tool" /\ l[j].of = i /\ l[j].call = c

(* validateCheckpointPlan: coverage of the proposed boundary. *)
BoundaryCovered(in, b) ==
    \/ b = in.cp /\ in.cp # 0
    \/ b \in DOMAIN log /\ MessageBearing(log[b]) /\ b > Cutoff(log, in.cp) /\ b <= in.boundary
CoveredSource(in, b) ==
    Len(Covered(log, in.cp)) + Len(Bearing(log, Cutoff(log, in.cp), b))
KeptTail(b) == MessagesAt(log, Bearing(log, b, Len(log)))

PlanValid(in, p) ==
    /\ BoundaryCovered(in, p.boundary)
    /\ ItemsResolve(in.messages, p, CoveredSource(in, p.boundary))
    /\ PairsComplete(Materialized(in.messages, p))
    /\ ~ CutUnsafe(log, p.boundary)
    /\ PairsComplete(Materialized(in.messages, p) \o KeptTail(p.boundary))
-----------------------------------------------------------------------------
(* Usage. *)

Known(reports) == {k \in DOMAIN reports : reports[k] = "some"}
Units(reports) == Cardinality(Known(reports))

(* factsUsageContribution: what a fact list adds to the totals. *)
FactReports(list) == [k \in DOMAIN list |-> list[k].report]

(* The reports of the producers one entry names (estimateGraphCosts); the
   settlement names a producer of its own or none. *)
EntryReports(e) ==
    IF e.kind = "assistant" THEN <<e.report>>
    ELSE IF e.kind = "settlement"
    THEN (IF e.model = "no" THEN <<>> ELSE <<e.report>>) \o FactReports(e.facts)
    ELSE IF e.kind = "checkpoint" THEN FactReports(e.facts) ELSE <<>>
EntriesOf(l, o) == {i \in DOMAIN l : l[i].op = o}
OpReports(l, o) == UNION {{i} \X Known(EntryReports(l[i])) : i \in EntriesOf(l, o)}

(* An estimate is known when every producer reported and no maintenance
   work is marked unreported. *)
EstimateKnown(o) == /\ \A i \in EntriesOf(log, o) : "absent" \notin ToSet(EntryReports(log[i]))
                    /\ ops[o].unreported = "no"

(* recordUsage, over the log: the totals a load recomputes. *)
LoggedUsage(l, o) == Cardinality(OpReports(l, o))
-----------------------------------------------------------------------------
(* The facts carried between stages. *)

RetainInput(f, id) == [f EXCEPT !.list = Append(@, [id |-> id, report |-> "absent"])]
RetainUsage(f, r)  == IF f.list = <<>> THEN f
                      ELSE [f EXCEPT !.list[Len(f.list)].report = r]
ConsumePending(f)  == [f EXCEPT !.list = pendingFacts \o @]
Witnesses(f, id)   == \E k \in DOMAIN f.list : f.list[k].id = id
-----------------------------------------------------------------------------
(* Terminal settlement. *)

ResultsFor(o, calls, of) == [k \in DOMAIN calls |->
    [kind |-> "tool", op |-> o, call |-> calls[k].call, of |-> IF calls[k].of = 0 THEN of ELSE calls[k].of]]
Pending(calls) == [k \in DOMAIN calls |-> [call |-> calls[k], of |-> 0]]

(* The producer that settles without an output, or whose report is lost:
   the live intent, unless a retained fact already witnesses it. *)
NamesModel(r, f, out) ==
    \/ out.report # "absent" /\ r.effect.kind = "conversation"
    \/ r.effect.kind # "none" /\ ~ Witnesses(f, r.effect.id)

SettlementEntry(o, st, f, comp, out, asst) ==
    [kind |-> "settlement", op |-> o, status |-> st,
     facts |-> f.list, compaction |-> comp,
     model |-> IF asst = <<>> /\ NamesModel(ops[o], f, out) THEN "yes" ELSE "no",
     report |-> IF asst = <<>> THEN out.report ELSE "absent"]

(* The terminal register. *)
Terminated(r, st, f, units) ==
    [r EXCEPT !.status = st, !.effect = NoEffect, !.request = NoRequest, !.pending = <<>>,
              !.usage = @ + units, !.unreported = IF f.list # <<>> THEN "no" ELSE @]

(* commitTerminalSettlement: a produced assistant entry, interrupted
   results under every unanswered call, an interruption signal, the
   settlement, the terminal register and the totals, in one transaction. *)
Terminate(st, asst, out, f, comp) ==
    LET o     == Current
        r     == ops[o]
        calls == r.pending \o (IF asst = <<>> THEN <<>> ELSE Pending(asst[1].calls))
        closing == ResultsFor(o, calls, Len(log) + 1)
                     \o (IF st = "interruption" THEN <<[kind |-> "signal", op |-> o]>> ELSE <<>>)
                     \o <<SettlementEntry(o, st, f, comp, out, asst)>>
        units == Units(FactReports(f.list) \o <<out.report>>)
    IN  /\ log' = log \o asst \o closing
        /\ ops' = [ops EXCEPT ![o] = Terminated(@, st, f, units)]
        /\ usage' = usage + units
        /\ UNCHANGED checkpoint

(* What an ended execution leaves of its memory. *)
EndExecution ==
    /\ at' = "idle" /\ canceled' = "no" /\ round' = 0 /\ frozen' = NoInput
    /\ facts' = NoFacts /\ pendingFacts' = <<>> /\ plan' = NoPlan /\ output' = NoOutput

(* A publication failure ends the execution; the durable state waits for
   recovery. *)
Lost ==
    /\ faults < scope.faults /\ faults' = faults + 1
    /\ at' = "dead"
    /\ UNCHANGED <<durable, canceled, round, frozen, facts, pendingFacts, plan, output, crashes, spent, cancels>>
Fault == Lost /\ UNCHANGED ids

(* commitEffectResult with a terminal result: every terminal kind accounts
   the accumulated facts in front of the effect's own. *)
Publish(st, asst, out, f, comp) ==
    \/ /\ Terminate(st, asst, out, ConsumePending(f), comp)
       /\ EndExecution
       /\ UNCHANGED <<faults, crashes, spent, cancels>>
    \/ Lost
EndWith(st, asst, out, f, comp) == Publish(st, asst, out, f, comp) /\ UNCHANGED ids

(* settleMaintenance. *)
SettleMaintenance(st) == EndWith(st, <<>>, NoOutput, facts, "yes")
-----------------------------------------------------------------------------
(* Operations and conversation rounds, as far as maintenance needs them. *)

(* Admission: a message Operation commits its input entry.  A compact one
   goes straight to its maintenance procedure (execute). *)
Admit(kind) ==
    /\ at = "idle" /\ Current < scope.ops /\ kind \in scope.kinds
    /\ ops' = Append(ops, Op(kind))
    /\ log' = IF kind = "message" THEN Append(log, [kind |-> "input", op |-> Current + 1]) ELSE log
    /\ IF kind = "message"
       THEN at' = "source" /\ UNCHANGED <<frozen, facts, ids>>
       ELSE /\ at' = "plan" /\ frozen' = Project(log, checkpoint)
            /\ facts' = [NoFacts EXCEPT !.consumed = "yes"] /\ ids' = ids + 1
    /\ UNCHANGED <<checkpoint, usage, canceled, round, pendingFacts, plan, output, faults, crashes, spent, cancels>>
    /\ UNCHANGED scope

(* requestSource: cancellation ends the run, waiting steering ends the
   Operation with success, otherwise the projection is frozen and
   automatic maintenance starts. *)
Source ==
    /\ at = "source"
    /\ \/ canceled = "yes" /\ EndWith("interruption", <<>>, NoOutput, NoFacts, "no")
       \/ round > 0 /\ EndWith(IF canceled = "yes" THEN "interruption" ELSE "success",
                               <<>>, NoOutput, NoFacts, "no")
       \/ /\ canceled = "no" /\ round < scope.rounds
          /\ at' = "plan" /\ round' = round + 1
          /\ frozen' = Project(log, checkpoint)
          /\ facts' = [NoFacts EXCEPT !.source = ids, !.consumed = "yes"]
          /\ ids' = ids + 1
          /\ UNCHANGED <<durable, canceled, pendingFacts, plan, output, faults, crashes, spent, cancels>>
    /\ UNCHANGED scope

(* beginModelEffect for the conversation: the request state names the
   projection this request consumes. *)
PublishConversation(r) ==
    [r EXCEPT !.effect = [kind |-> "conversation", id |-> facts.source],
              !.request = [id |-> IF @.id = 0 THEN facts.source ELSE @.id,
                           cp |-> frozen.cp, boundary |-> frozen.boundary]]
Dispatch ==
    /\ at = "dispatch" /\ frozen.cp = checkpoint
    /\ \/ canceled = "yes" /\ EndWith("interruption", <<>>, NoOutput, NoFacts, "no")
       \/ /\ canceled = "no" /\ at' = "answer"
          /\ ops' = [ops EXCEPT ![Current] = PublishConversation(@)]
          /\ UNCHANGED <<log, checkpoint, usage, canceled, round, frozen, facts, pendingFacts,
                         plan, output, ids, faults, crashes, spent, cancels>>
       \/ Fault
    /\ UNCHANGED scope

(* An accepted stream and what its provider reported. *)
Accept(next) ==
    \E st \in {"completed", "errored", "interrupted"}, report \in scope.reports, calls \in scope.batches :
        /\ st = "interrupted" => canceled = "yes"
        /\ calls # <<>> => at = "answer" /\ st # "errored"
        /\ output' = [status |-> st, calls |-> calls, report |-> report]
        /\ spent' = [spent EXCEPT ![Current] = @ + Units(<<report>>)]
        /\ at' = next
        /\ UNCHANGED <<durable, canceled, round, frozen, facts, pendingFacts, plan, ids, faults, crashes, cancels>>

(* The conversation attempt: interrupted, failed, or accepted. *)
Answer ==
    /\ at = "answer"
    /\ \/ canceled = "yes" /\ EndWith("interruption", <<>>, NoOutput, NoFacts, "no")
       \/ EndWith("failure", <<>>, NoOutput, NoFacts, "no")
       \/ Accept("answered")
    /\ UNCHANGED scope

AssistantEntry == [kind |-> "assistant", op |-> Current, calls |-> output.calls, report |-> output.report]
Repeats == \E i \in DOMAIN log : /\ log[i].kind = "assistant" /\ log[i].op = Current
                                 /\ ToSet(log[i].calls) \cap ToSet(output.calls) # {}

(* commitEffectResult with a running result: the assistant entry opens its
   calls, and a result without calls closes the request. *)
RunningResult(r, units) ==
    [r EXCEPT !.effect = NoEffect, !.usage = @ + units,
              !.pending = [k \in DOMAIN output.calls |-> [call |-> output.calls[k], of |-> Len(log) + 1]],
              !.request = IF output.calls = <<>> THEN NoRequest ELSE @]
CommitRunning(signal) ==
    LET units == Units(<<output.report>>)
    IN  /\ log' = Append(log, AssistantEntry) \o signal
        /\ usage' = usage + units
        /\ ops' = [ops EXCEPT ![Current] = RunningResult(@, units)]

(* modelEffect after assembly, by disposition. *)
AnswerSettles ==
    /\ at = "answered"
    /\ \/ Repeats /\ EndWith("failure", <<>>, NoOutput, NoFacts, "no")
       \/ /\ ~ Repeats /\ output.status = "interrupted"
          /\ \E asst \in {<<>>, <<AssistantEntry>>} :
                /\ asst = <<>> => output.calls = <<>>
                /\ EndWith("interruption", asst, output, NoFacts, "no")
       \/ output.status = "errored" /\ EndWith("failure", <<>>, output, NoFacts, "no")
       \/ /\ ~ Repeats /\ output.status # "interrupted"
          /\ \E signal \in {<<>>, <<[kind |-> "signal", op |-> Current]>>} :
                /\ signal # <<>> <=> output.status = "errored"
                /\ CommitRunning(signal)
                /\ at' = IF output.calls # <<>> THEN "tools"
                         ELSE IF signal # <<>> THEN "source" ELSE "over"
          /\ output' = NoOutput
          /\ UNCHANGED <<checkpoint, canceled, round, frozen, facts, pendingFacts, plan, ids, faults, crashes, spent, cancels>>
       \/ Fault
    /\ UNCHANGED scope

(* The calls are answered in order; the last answer closes the request. *)
Tool ==
    /\ at = "tools"
    /\ LET p == ops[Current].pending
       IN  /\ log' = Append(log, [kind |-> "tool", op |-> Current, call |-> Head(p).call, of |-> Head(p).of])
           /\ ops' = [ops EXCEPT ![Current].pending = Tail(p),
                                 ![Current].request = IF Len(p) = 1 THEN NoRequest ELSE @]
           /\ at' = IF Len(p) = 1 THEN "source" ELSE "tools"
    /\ UNCHANGED <<checkpoint, usage, canceled, round, frozen, facts, pendingFacts, plan, output,
                   ids, faults, crashes, spent, cancels>>
    /\ UNCHANGED scope

(* The Engine's success, under the shared success guard. *)
Over ==
    /\ at = "over"
    /\ EndWith(IF canceled = "yes" THEN "interruption" ELSE "success", <<>>, NoOutput, NoFacts, "no")
    /\ UNCHANGED scope
(* A canceled batch leaves its unanswered calls to the terminal. *)
StopBatch ==
    /\ at = "tools" /\ canceled = "yes"
    /\ EndWith("interruption", <<>>, NoOutput, NoFacts, "no")
    /\ UNCHANGED scope
-----------------------------------------------------------------------------
(* The maintenance procedure (completeMaintenance). *)

Manual == ops[Current].kind = "compact"

(* summaryStrategy.Plan: an automatic trigger needs a report over the
   threshold (here: any unit), a summary needs something to summarize. *)
SummaryPlans ==
    IF ~ Manual /\ ContextMeasurement # "some" THEN {NoPlan}
    ELSE IF frozen.messages = <<>> THEN {} ELSE {[NoPlan EXCEPT !.kind = "model"]}

(* summaryStrategy.Consume: one authored context up to the frozen boundary. *)
SummaryProposal == [NoPlan EXCEPT !.kind = "checkpoint", !.boundary = frozen.boundary, !.context = "yes"]

(* Any strategy: none, a model request, or any proposal at all. *)
Kept == UNION {kSubset(n, DOMAIN frozen.messages) : n \in 0..scope.retain}
Proposals == {[kind |-> "checkpoint", boundary |-> b, retain |-> kept, context |-> x] :
                 b \in 1..Len(log), kept \in Kept, x \in {"no", "yes"}}
AnyPlans == {NoPlan} \cup Proposals
            \cup (IF Len(facts.list) < scope.plans THEN {[NoPlan EXCEPT !.kind = "model"]} ELSE {})

(* The dispatch of a valid plan.  None hands the incurred facts to the
   execution owner (transferPending). *)
Take(p) ==
    /\ plan' = p
    /\ at' = IF p.kind = "model" THEN "open" ELSE IF p.kind = "checkpoint" \/ Manual THEN "commit" ELSE "dispatch"
    /\ IF p.kind = "none"
       THEN /\ pendingFacts' = pendingFacts \o facts.list
            /\ facts' = [facts EXCEPT !.list = <<>>]
       ELSE UNCHANGED <<pendingFacts, facts>>
    /\ UNCHANGED <<durable, canceled, round, frozen, output, ids, faults, crashes, spent, cancels>>

(* The planning stage: interruption, a strategy error or a malformed plan,
   or a plan. *)
Plan ==
    /\ at = "plan"
    /\ IF canceled = "yes" THEN SettleMaintenance("interruption")
       ELSE \/ SettleMaintenance("failure")
            \/ \E p \in IF scope.strategy = "summary" THEN SummaryPlans ELSE AnyPlans : Take(p)
    /\ UNCHANGED scope

(* runMaintenanceModel up to its intent: the opener, the run's own
   cancellation checks, and the input retained before beginModelEffect. *)
PublishMaintenance(r) ==
    [r EXCEPT !.effect = [kind |-> "maintenance", id |-> ids],
              !.request = IF @.id = 0 /\ facts.source # 0
                          THEN [id |-> facts.source, cp |-> frozen.cp, boundary |-> frozen.boundary] ELSE @]
OpenStage ==
    /\ at = "open"
    /\ \/ SettleMaintenance("failure")
       \/ canceled = "yes" /\ SettleMaintenance("interruption")
       \/ /\ canceled = "yes"
          /\ Publish("interruption", <<>>, NoOutput, RetainInput(facts, ids), "yes")
          /\ ids' = ids + 1
       \/ /\ canceled = "no" /\ at' = "summarize"
          /\ facts' = RetainInput(facts, ids) /\ ids' = ids + 1
          /\ ops' = [ops EXCEPT ![Current] = PublishMaintenance(@)]
          /\ UNCHANGED <<log, checkpoint, usage, canceled, round, frozen, pendingFacts, plan, output,
                         faults, crashes, spent, cancels>>
    /\ UNCHANGED scope

(* compactModelEffect: the attempt. *)
Summarize ==
    /\ at = "summarize"
    /\ \/ canceled = "yes" /\ SettleMaintenance("interruption")
       \/ SettleMaintenance("failure")
       \/ Accept("summarized")
    /\ UNCHANGED scope

(* compactModelEffect: the report lands on the newest fact, a completed
   output leaves the empty running result, which marks the gap until the
   facts are recorded. *)
UnmarkedResult(r) == [r EXCEPT !.effect = NoEffect]   \* mutant: the gap is not marked
MaintenanceResult(r) == [r EXCEPT !.effect = NoEffect, !.unreported = "yes"]
Summarized ==
    /\ at = "summarized"
    /\ \/ /\ output.status = "completed" /\ at' = "consume"
          /\ facts' = RetainUsage(facts, output.report)
          /\ ops' = [ops EXCEPT ![Current] = MaintenanceResult(@)]
          /\ UNCHANGED <<log, checkpoint, usage, canceled, round, frozen, pendingFacts, plan, output,
                         ids, faults, crashes, spent, cancels>>
       \/ /\ output.status # "completed"
          /\ EndWith(IF output.status = "errored" THEN "failure" ELSE "interruption",
                     <<>>, NoOutput, RetainUsage(facts, output.report), "yes")
       \/ Fault
    /\ UNCHANGED scope

(* The folding stage.  An empty summary is a strategy error. *)
Consume ==
    /\ at = "consume"
    /\ IF canceled = "yes" THEN SettleMaintenance("interruption")
       ELSE \/ SettleMaintenance("failure")
            \/ \E p \in IF scope.strategy = "summary" THEN {SummaryProposal} ELSE AnyPlans : Take(p)
    /\ UNCHANGED scope

(* commitCheckpoint: the entry with the merged facts, the register's
   checkpoint and the totals; a published or consumed conversation request
   advances to the rebuilt projection. *)
CheckpointEntry(f) == [kind |-> "checkpoint", op |-> Current, boundary |-> plan.boundary, facts |-> f.list,
                       messages |-> Materialized(frozen.messages, plan)]
CheckpointedUncounted(r, n) ==   \* mutant: the facts' usage misses the register
    LET id == Len(log) + 1
        request == IF r.request.id # 0 THEN r.request.id ELSE facts.source
    IN  [r EXCEPT !.unreported = "no",
                  !.request = IF request = 0 THEN @ ELSE [id |-> request, cp |-> id,
                                  boundary |-> RebuiltBoundary(log, plan.boundary, id)]]
Checkpointed(r, n) ==
    LET id == Len(log) + 1
        rebuilt == RebuiltBoundary(log, plan.boundary, id)
        request == IF r.request.id # 0 THEN r.request.id ELSE facts.source
    IN  [r EXCEPT !.usage = @ + n, !.unreported = "no",
                  !.request = IF request = 0 THEN @ ELSE [id |-> request, cp |-> id, boundary |-> rebuilt]]

CommitAutomatic ==
    LET f == ConsumePending(facts)
        n == Units(FactReports(f.list))
    IN  /\ log' = Append(log, CheckpointEntry(f))
        /\ checkpoint' = Len(log) + 1
        /\ ops' = [ops EXCEPT ![Current] = Checkpointed(@, n)]
        /\ usage' = usage + n
        /\ pendingFacts' = <<>> /\ facts' = [facts EXCEPT !.list = <<>>]
        /\ at' = "dispatch"
        /\ plan' = NoPlan
        /\ UNCHANGED <<canceled, round, frozen, output, ids, faults, crashes, spent, cancels>>

(* The manual shape settles the compact Operation in the same transaction;
   a procedure that planned none settles its facts on the settlement. *)
Compacted(r, made, f, units) ==
    [r EXCEPT !.status = "success", !.usage = @ + units,
              !.unreported = IF made \/ f.list # <<>> THEN "no" ELSE @]
CommitManual ==
    LET f == ConsumePending(facts)
        n == Units(FactReports(f.list))
        made == plan.kind = "checkpoint"
        done == [kind |-> "settlement", op |-> Current, status |-> "success",
                 facts |-> IF made THEN <<>> ELSE f.list, model |-> "no", report |-> "absent",
                 compaction |-> IF made \/ f.list = <<>> THEN "no" ELSE "yes"]
    IN  /\ log' = log \o (IF made THEN <<CheckpointEntry(f)>> ELSE <<>>) \o <<done>>
        /\ checkpoint' = IF made THEN Len(log) + 1 ELSE checkpoint
        /\ ops' = [ops EXCEPT ![Current] = Compacted(@, made, f, n)]
        /\ usage' = usage + n
        /\ EndExecution
        /\ UNCHANGED <<ids, faults, crashes, spent, cancels>>

(* commitMaintenance: an invalid proposal, or one for another request than
   the published one, is a strategy failure; the publication chooses
   interruption or success under one hold. *)
Rejected == /\ plan.kind = "checkpoint"
            /\ \/ ~ PlanValid(frozen, plan)
               \/ ~ Manual /\ ops[Current].request.id \notin {0, facts.source}
Commit ==
    /\ at = "commit"
    /\ IF Rejected THEN SettleMaintenance("failure")
       ELSE IF canceled = "yes"
       THEN EndWith("interruption", <<>>, NoOutput, facts, "yes")
       ELSE (IF Manual THEN CommitManual ELSE CommitAutomatic) \/ Fault
    /\ UNCHANGED scope

(* After a checkpoint the request source projects again. *)
Reproject ==
    /\ at = "dispatch" /\ frozen.cp # checkpoint
    /\ frozen' = Project(log, checkpoint)
    /\ UNCHANGED <<durable, at, canceled, round, facts, pendingFacts, plan, output, ids, faults, crashes, spent, cancels>>
    /\ UNCHANGED scope
-----------------------------------------------------------------------------
(* The environment: interruption, process loss, and the recovery that
   settles what it finds, with no process-local facts. *)
Cancel ==
    /\ at \notin {"idle", "dead", "down"} /\ canceled = "no"
    /\ cancels < scope.cancels /\ cancels' = cancels + 1 /\ canceled' = "yes"
    /\ UNCHANGED <<durable, at, round, frozen, facts, pendingFacts, plan, output, ids, faults, crashes, spent>>
    /\ UNCHANGED scope
Crash ==
    /\ at # "down" /\ (at = "dead" \/ crashes < scope.crashes)
    /\ crashes' = IF at = "dead" THEN crashes ELSE crashes + 1
    /\ at' = "down" /\ canceled' = "no" /\ round' = 0 /\ frozen' = NoInput
    /\ facts' = NoFacts /\ pendingFacts' = <<>> /\ plan' = NoPlan /\ output' = NoOutput
    /\ UNCHANGED <<durable, ids, faults, spent, cancels, scope>>
Recover ==
    /\ at = "down"
    /\ IF Running THEN Terminate("interruption", <<>>, NoOutput, NoFacts, "no")
       ELSE UNCHANGED durable
    /\ EndExecution
    /\ UNCHANGED <<ids, faults, crashes, spent, cancels, scope>>

Next ==
    \/ \E k \in scope.kinds : Admit(k)
    \/ Source \/ Dispatch \/ Answer \/ AnswerSettles \/ Tool \/ StopBatch \/ Over
    \/ Plan \/ OpenStage \/ Summarize \/ Summarized \/ Consume \/ Commit \/ Reproject
    \/ Cancel \/ Crash \/ Recover

Spec == Init /\ [][Next]_vars
-----------------------------------------------------------------------------
ViewMessage == [calls : Seq(Calls), result : Calls \cup {NoCall}, src : Nat]
Facts    == Seq([id : Nat, report : Report])
Statuses == {"success", "failure", "interruption"}
Entry ==
    [kind : {"input", "signal"}, op : Nat]
      \cup [kind : {"assistant"}, op : Nat, calls : Seq(Calls), report : Report]
      \cup [kind : {"tool"}, op : Nat, call : Calls, of : Nat]
      \cup [kind : {"checkpoint"}, op : Nat, boundary : Nat, facts : Facts, messages : Seq(ViewMessage)]
      \cup [kind : {"settlement"}, op : Nat, status : Statuses, facts : Facts, compaction : {"no", "yes"},
            model : {"no", "yes"}, report : Report]
Request  == [id : Nat, cp : Nat, boundary : Nat]
Register == [kind : {"message", "compact"}, status : {"running"} \cup Statuses,
             effect : [kind : {"none", "conversation", "maintenance"}, id : Nat],
             request : Request, pending : Seq([call : Calls, of : Nat]),
             unreported : {"no", "yes"}, usage : Nat]

(* The registers and the goroutine hold values of their kinds. *)
TypeOK ==
    /\ scope \in Scopes
    /\ log \in Seq(Entry) /\ checkpoint \in 0..Len(log) /\ usage \in Nat
    /\ checkpoint # 0 => log[checkpoint].kind = "checkpoint"
    /\ ops \in Seq(Register) /\ Len(ops) <= scope.ops
    /\ at \in {"idle", "source", "plan", "open", "summarize", "summarized", "consume", "commit",
              "dispatch", "answer", "answered", "tools", "over", "dead", "down"}
    /\ canceled \in {"no", "yes"} /\ round \in Nat
    /\ frozen \in [cp : Nat, boundary : Nat, messages : Seq(ViewMessage)]
    /\ facts \in [list : Facts, source : Nat, consumed : {"no", "yes"}] /\ pendingFacts \in Facts
    /\ plan \in [kind : {"none", "model", "checkpoint"}, boundary : Nat,
                 retain : SUBSET (DOMAIN frozen.messages), context : {"no", "yes"}]
    /\ output \in [status : {"none", "completed", "errored", "interrupted"}, calls : Seq(Calls), report : Report]
    /\ ids \in Nat \ {0} /\ faults \in Nat /\ crashes \in Nat /\ cancels \in Nat
    /\ spent \in [1..scope.ops -> Nat]

(* Maintenance work is recorded once: no producer's fact is committed
   twice, whether its procedure ended at none, at a checkpoint, in a
   failure or in an interruption (transferPending, consumePendingFacts,
   completePending). *)
Recorded == UNION {{i} \X DOMAIN log[i].facts : i \in {j \in DOMAIN log : log[j].kind \in {"checkpoint", "settlement"}}}
FactsOnce == \A a, b \in Recorded : log[a[1]].facts[a[2]].id = log[b[1]].facts[b[2]].id => a = b

(* A cost estimate that claims to be known is exact: unless a producer is
   named without a report or the Operation is marked unreported, the log
   accounts for every unit a provider reported, through crashes, failed
   commits and facts that live only in memory for a while
   (estimateGraphCosts, UnreportedMaintenance). *)
CostHonest ==
    \A o \in DOMAIN ops : ops[o].effect.kind = "none" /\ EstimateKnown(o) => LoggedUsage(log, o) = spent[o]

(* A producer's work is in the log once, or its absence is admitted. *)
WorkRecorded == FactsOnce /\ CostHonest

(* The totals on the registers are what a load recomputes from the log
   (validateUsage), or the Session is refused as corrupt. *)
TotalsMatch ==
    /\ \A o \in DOMAIN ops : ops[o].usage = LoggedUsage(log, o)
    /\ usage = Cardinality(UNION {OpReports(log, o) : o \in DOMAIN ops})

(* Every committed checkpoint passes the load's rule: its boundary lies
   before it and separates no call from its result
   (validateEntryReferences). *)
CheckpointsLoad ==
    \A i \in DOMAIN log : log[i].kind = "checkpoint" =>
        log[i].boundary < i /\ ~ CutUnsafe(log, log[i].boundary)

(* What is committed at any instant a load takes back: registers of their
   kinds, checkpoints that cut nothing apart, totals that add up. *)
LoadsBack == TypeOK /\ CheckpointsLoad /\ TotalsMatch

(* Whatever the strategies of all the checkpoints so far kept, the
   conversation a model is asked to continue pairs every call with its
   result. *)
ViewPairs == at \in {"dispatch", "answer"} => PairsComplete(Project(log, checkpoint).messages)

(* A checkpoint that retains a tool result retains the very call it
   answered, even when later exchanges reuse the call's identity
   (the occurrence pairing of resolveCheckpointItems). *)
ResultsKeepTheirCalls ==
    \A i \in DOMAIN log : log[i].kind = "checkpoint" =>
        \A m, n \in ToSet(log[i].messages) :
            n.result # NoCall /\ n.result \in ToSet(m.calls) /\ log[n.src].of # m.src =>
                \E own \in ToSet(log[i].messages) : own.src = log[n.src].of

(* The published request names the projection that is consumed: the
   checkpoint transaction's own reckoning agrees with a later projection. *)
RequestNamesView ==
    at \in {"dispatch", "answer"} /\ ops[Current].request.id # 0 =>
        LET view == Project(log, checkpoint)
        IN  ops[Current].request.cp = view.cp /\ ops[Current].request.boundary = view.boundary

(* However often a conversation is compacted, what the model continues is
   one a provider accepts and the log can account for. *)
ConversationPairs == ViewPairs /\ ResultsKeepTheirCalls /\ RequestNamesView

(* A new checkpoint never covers less than the one it replaces. *)
CoverageAdvances ==
    [][checkpoint' # checkpoint => Cutoff(log, checkpoint)' >= Cutoff(log, checkpoint)]_vars

(* The included strategy compacts automatically only on a conversation
   report that arrived after the current checkpoint: no report triggers
   two compactions (latestContextUsage). *)
CompactsOnNewReport ==
    [][scope.strategy = "summary" /\ checkpoint' # checkpoint /\ ~ Manual =>
         \E i \in (checkpoint + 1)..Len(log) : ReportsContext(log[i]) /\ log[i].report = "some"]_vars

(* Compaction makes progress: it covers no less than before and answers a
   report that no earlier one answered. *)
CompactionsAdvance == CoverageAdvances /\ CompactsOnNewReport
=============================================================================
