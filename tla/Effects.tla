------------------------------ MODULE Effects -------------------------------
(***************************************************************************)
(* One running message Operation: the Agent loop (agent.Run) over the      *)
(* request source, the model effect and the tool effect of its             *)
(* executionDriver, with the durable intent and result records that        *)
(* bracket every external effect.                                          *)
(*                                                                         *)
(* Durable state is the Operation register (status, effect, pending,       *)
(* request) and the Session's entry log.  A transaction writes all of it   *)
(* or nothing; a failed one is a publication failure, which ends the       *)
(* execution and leaves the durable state to recovery.  The resident view  *)
(* equals the durable state, because nothing but this execution writes it  *)
(* while the Operation runs (module Session models the exceptions).        *)
(*                                                                         *)
(* Identities that newHexID draws are consecutive naturals: never equal.   *)
(* Maintenance (compaction inside a round) is left to its own module.      *)
(***************************************************************************)
EXTENDS Graph, FiniteSets

CONSTANTS
    Call,            \* the tool call identities a model output may carry
    Scopes,          \* the invocations an Operation may be captured with, each with its bounds:
                     \*   argumentHooks, requestHooks: the modes of its hooks, in order
                     \*   rounds: requests of the Operation; calls, batch: the identities of one
                     \*   output's tool calls and their number
    MaxFaults        \* bound: failed transactions

ASSUME HookModes ==
    \A s \in Scopes : /\ s.argumentHooks \in Seq({"pure", "effectful"})
                      /\ s.requestHooks \in Seq({"pure", "effectful"})
ASSUME Bounds ==
    MaxFaults \in Nat /\ \A s \in Scopes : {s.rounds, s.batch} \subseteq Nat /\ s.calls \subseteq Call
ASSUME CallsAreIdentities == NoCall \notin Call

VARIABLES
    scope,           \* the captured invocation
    \* the Operation register and the entry log
    status, effect, pending, request, log,
    ids,             \* the next fresh identity
    \* the executing goroutine
    at, ctx, round,
    ask,             \* the round's in-memory request identity
    calls,           \* the Engine's calls still to dispatch
    hook, chain,     \* the next hook, and the hooks accepted so far
    failed,          \* the physical attempt number
    outcome,         \* the terminal proposed to the quiet gate, or a hook's consequence
    doubt,           \* the execution knowledge a failed hook declared
    faults,
    \* history: what the outside world saw
    runs,            \* executor starts of every call
    acted,           \* the calls whose executor acted
    asked            \* the requests whose model intent was committed

registerVars == <<status, effect, pending, request>>
durableVars  == <<status, effect, pending, request, log, ids>>
roundVars    == <<round, ask, failed>>
hookVars     == <<hook, chain>>
answerVars   == <<outcome, doubt>>
worldVars    == <<runs, acted, asked>>
vars == <<durableVars, at, ctx, roundVars, calls, hookVars, answerVars, faults, worldVars, scope>>

Terminals == {"success", "failure", "interruption"}
Evidence  == {"not_started", "observed", "unknown"}
Retries   == 3      \* standardRetryPolicy: retries 1..3

(* publishedCallIDs. *)
Published == {a.call : a \in PublishedCalls(log)}

Init ==
    /\ scope \in Scopes
    /\ status = "running" /\ effect = NoEffect /\ pending = <<>> /\ request = NoRequest
    /\ log = <<>> /\ ids = 1
    /\ at = "loop" /\ ctx = "live" /\ round = 0 /\ ask = 0 /\ failed = 0
    /\ calls = <<>> /\ hook = 0 /\ chain = <<>> /\ outcome = "none" /\ doubt = "none"
    /\ faults = 0
    /\ runs = [c \in Call |-> 0] /\ acted = {} /\ asked = {}
-----------------------------------------------------------------------------
(* commitTerminalSettlement: the produced assistant entry, the unfinished
   hook's interrupted result, an interrupted result under every remaining
   reservation, one interruption signal, the settlement and the terminal
   register, in one transaction. *)
UnknownHookActiveOnly(c) == effect.kind = "hook" /\ effect.call = c   \* mutant: committed results are not scanned
UnknownHook(c) ==
    \/ effect.kind = "hook" /\ effect.call = c
    \/ \E i \in DOMAIN log : /\ log[i].kind = "hook" /\ log[i].call = c
                             /\ log[i].evidence = "unknown"

UnfinishedHook ==
    IF effect.kind = "hook" THEN <<HookResult(effect, "interrupted", "unknown")>> ELSE <<>>

InterruptedUnstarted(p) ==           \* mutant: the active executor's call is settled as unstarted
    ToolResult(p, "interrupted", "not_started", UnknownHook(p.call), NoSelection)
InterruptedCall(p) ==
    IF effect.kind = "tool" /\ effect.call = p.call
    THEN ToolResult(p, "interrupted", "unknown", UnknownHook(p.call), Selected(effect.chain))
    ELSE ToolResult(p, "interrupted", "not_started", UnknownHook(p.call), NoSelection)

SettlementId(produced) ==
    IF produced = <<>> /\ effect.kind = "model" THEN effect.id ELSE ids + 1

Witness(produced) ==
    IF request # NoRequest THEN request.id
    ELSE IF produced = <<>> /\ effect.kind = "model" THEN effect.request ELSE 0

SettlementEvidence(produced) ==
    IF produced = <<>> /\ effect.kind = "model" THEN Selected(effect.chain) ELSE NoSelection

Signals(s) == IF s = "interruption" THEN <<Signal(ids, "interruption")>> ELSE <<>>

Terminate(s, produced) ==
    /\ log' = log \o produced \o UnfinishedHook
                  \o [i \in DOMAIN pending |-> InterruptedCall(pending[i])]
                  \o Signals(s)
                  \o <<Settlement(SettlementId(produced), s, Witness(produced),
                                  SettlementEvidence(produced))>>
    /\ ids' = ids + 2
    /\ status' = s /\ effect' = NoEffect /\ pending' = <<>> /\ request' = NoRequest

(* commitToolResult: the result under the call's reserved identity, the
   cleared effect, and the suspended request closed with its last call. *)
Index(c) == CHOOSE i \in DOMAIN pending : pending[i].call = c
CommitToolKeepingRequest(s, k, u, sel) ==   \* mutant: the last call does not close its request
    LET i    == Index(Head(calls))
        rest == SubSeq(pending, 1, i - 1) \o SubSeq(pending, i + 1, Len(pending))
    IN /\ log' = Append(log, ToolResult(pending[i], s, k, u,
                                IF effect.kind = "tool" THEN Selected(effect.chain) ELSE sel))
       /\ effect' = NoEffect /\ pending' = rest
       /\ UNCHANGED <<status, request, ids>>
CommitTool(s, k, u, sel) ==
    LET i    == Index(Head(calls))
        rest == SubSeq(pending, 1, i - 1) \o SubSeq(pending, i + 1, Len(pending))
    IN /\ log' = Append(log, ToolResult(pending[i], s, k, u,
                                IF effect.kind = "tool" THEN Selected(effect.chain) ELSE sel))
       /\ effect' = NoEffect /\ pending' = rest
       /\ request' = IF rest = <<>> THEN NoRequest ELSE request
       /\ UNCHANGED <<status, ids>>

(* commitHookResult: the result under the effect's reserved identity; a
   request-bound one also extends the published request. *)
CommitHook(s, k) ==
    /\ log' = Append(log, HookResult(effect, s, k))
    /\ effect' = NoEffect
    /\ request' = IF effect.request # 0 /\ request # NoRequest
                  THEN [id |-> request.id, results |-> Append(request.results, effect.id)]
                  ELSE request
    /\ UNCHANGED <<status, pending, ids>>

(* beginModelEffect, beginRequestHookEffect, beginPendingCallEffect. *)
BeginRequestEffect(kind, h) ==
    /\ effect' = [kind |-> kind, id |-> ids, call |-> NoCall, request |-> ask, hook |-> h, chain |-> chain]
    /\ request' = IF request = NoRequest THEN [id |-> ask, results |-> <<>>] ELSE request
    /\ ids' = ids + 1
    /\ UNCHANGED <<status, pending, log>>
BeginCallHook ==
    /\ effect' = [kind |-> "hook", id |-> ids, call |-> Head(pending).call, request |-> 0,
                  hook |-> hook, chain |-> <<>>]
    /\ ids' = ids + 1
    /\ UNCHANGED <<status, pending, request, log>>
BeginTool ==
    /\ effect' = [kind |-> "tool", id |-> Head(pending).id, call |-> Head(pending).call,
                  request |-> 0, hook |-> 0, chain |-> chain]
    /\ UNCHANGED <<status, pending, request, log, ids>>

Canceled == ctx = "canceled"
Goto(l)  == at' = l
Finish(s) == at' = "finish" /\ outcome' = s /\ UNCHANGED doubt

(* The Engine's reaction to one committed tool result: an interrupted one
   stops the batch, every other settles only its own call. *)
Answered(s) ==
    /\ calls' = Tail(calls)
    /\ IF s = "interrupted" THEN Finish("interruption")
       ELSE at' = "dispatch" /\ UNCHANGED answerVars
SettleCall(s, k, u, sel) == CommitTool(s, k, u, sel) /\ Answered(s)
-----------------------------------------------------------------------------
(* agent.Run, the loop head. *)
Loop ==
    /\ at = "loop"
    /\ IF Canceled THEN Finish("interruption") ELSE Goto("source") /\ UNCHANGED answerVars
    /\ UNCHANGED <<durableVars, ctx, roundVars, calls, hookVars, faults, worldVars, scope>>

(* requestSource: steering input waiting behind a later round ends the run
   at its boundary, before the cancellation check; a projection failure is
   an ordinary failure. *)
Source ==
    /\ at = "source"
    /\ \/ /\ round > 0 /\ Finish("success")
          /\ UNCHANGED <<ids, roundVars, hookVars>>
       \/ /\ Canceled /\ Finish("interruption")
          /\ UNCHANGED <<ids, roundVars, hookVars>>
       \/ /\ ~Canceled /\ Finish("failure")
          /\ UNCHANGED <<ids, roundVars, hookVars>>
       \/ /\ ~Canceled /\ round < scope.rounds
          /\ round' = round + 1 /\ ask' = ids /\ ids' = ids + 1
          /\ hook' = 1 /\ chain' = <<>>
          /\ Goto("requestHooks") /\ UNCHANGED <<failed, answerVars>>
    /\ UNCHANGED <<registerVars, log, ctx, calls, faults, worldVars, scope>>

(* runRequestHooks: cancellation stops the next hook; a pure hook writes
   nothing durable; an effectful one commits its intent before it runs. *)
NextRequestHook ==
    /\ at = "requestHooks"
    /\ \/ /\ hook > Len(scope.requestHooks)
          /\ Goto("round") /\ UNCHANGED <<durableVars, hookVars, answerVars>>
       \/ /\ hook <= Len(scope.requestHooks) /\ Canceled
          /\ Finish("interruption") /\ UNCHANGED <<durableVars, hookVars>>
       \/ /\ hook <= Len(scope.requestHooks) /\ ~Canceled /\ scope.requestHooks[hook] = "pure"
          /\ \/ /\ hook' = hook + 1 /\ chain' = Append(chain, hook)
                /\ UNCHANGED <<at, answerVars>>
             \/ (\E s \in {"failure", "interruption"} : Finish(s)) /\ UNCHANGED hookVars
          /\ UNCHANGED durableVars
       \/ /\ hook <= Len(scope.requestHooks) /\ ~Canceled /\ scope.requestHooks[hook] = "effectful"
          /\ BeginRequestEffect("hook", hook)
          /\ Goto("requestGate") /\ UNCHANGED <<hookVars, answerVars>>
    /\ UNCHANGED <<ctx, roundVars, calls, faults, worldVars, scope>>

(* runRequestHookEffect between the intent and Run, and after Run. *)
RequestHookGate ==
    /\ at = "requestGate"
    /\ IF Canceled
       THEN CommitHook("interrupted", "not_started") /\ Finish("interruption")
       ELSE Goto("requestRun") /\ UNCHANGED <<durableVars, answerVars>>
    /\ UNCHANGED <<ctx, roundVars, calls, hookVars, faults, worldVars, scope>>

RequestHookReturns ==
    /\ at = "requestRun"
    /\ \/ /\ CommitHook("succeeded", "observed")
          /\ hook' = hook + 1 /\ chain' = Append(chain, hook)
          /\ Goto("requestHooks") /\ UNCHANGED answerVars
       \/ \E k \in Evidence : /\ CommitHook("failed", k) /\ Finish("failure")
                              /\ UNCHANGED hookVars
       \/ \E k \in Evidence : /\ CommitHook("interrupted", k) /\ Finish("interruption")
                              /\ UNCHANGED hookVars
    /\ UNCHANGED <<ctx, roundVars, calls, faults, worldVars, scope>>

(* The Engine's checks before the model effect: an invalid request first,
   then cancellation. *)
Round ==
    /\ at = "round"
    /\ \/ Finish("failure")
       \/ Canceled /\ Finish("interruption")
       \/ ~Canceled /\ Goto("model") /\ UNCHANGED answerVars
    /\ UNCHANGED <<durableVars, ctx, roundVars, calls, hookVars, faults, worldVars, scope>>

(* modelEffect: a cancellation seen before the intent settles the Operation
   without one. *)
BeginModel ==
    /\ at = "model"
    /\ IF Canceled
       THEN Terminate("interruption", <<>>) /\ Finish("interruption") /\ UNCHANGED <<failed, asked>>
       ELSE /\ BeginRequestEffect("model", 0) /\ Goto("attempt") /\ failed' = 1
            /\ asked' = asked \cup {ask} /\ UNCHANGED answerVars
    /\ UNCHANGED <<ctx, round, ask, calls, hookVars, faults, runs, acted, scope>>

(* The check between the intent and the callback, and runModelAttempts'
   check before every physical attempt and during the backoff. *)
Attempt ==
    /\ at = "attempt"
    /\ IF Canceled
       THEN Terminate("interruption", <<>>) /\ Finish("interruption")
       ELSE Goto("calling") /\ UNCHANGED <<durableVars, answerVars>>
    /\ UNCHANGED <<ctx, roundVars, calls, hookVars, faults, worldVars, scope>>

(* A failed attempt: cancellation wins over classification, and the
   standard policy permits Retries retries. *)
MayRetry(n) == n <= Retries
AttemptFails ==
    /\ at = "calling"
    /\ \/ /\ Canceled
          /\ Terminate("interruption", <<>>) /\ Finish("interruption") /\ UNCHANGED failed
       \/ /\ ~Canceled /\ MayRetry(failed)
          /\ failed' = failed + 1 /\ Goto("attempt") /\ UNCHANGED <<durableVars, answerVars>>
       \/ /\ Terminate("failure", <<>>) /\ Finish("failure") /\ UNCHANGED failed
    /\ UNCHANGED <<ctx, round, ask, calls, hookVars, faults, worldVars, scope>>

(* An accepted stream, assembled once: derivedSettlement's dispositions. *)
Batches   == UNION {[1..n -> scope.calls] : n \in 0..scope.batch}
Unique(b) == \A i, j \in DOMAIN b : b[i] = b[j] => i = j
RepeatsWithin(b) == ~Unique(b)            \* mutant: earlier rounds are not consulted
Repeats(b) == ~Unique(b) \/ \E i \in DOMAIN b : b[i] \in Published

(* The completed calls with their reserved result identities, and the
   pending record of each. *)
Reserve(b) == [i \in DOMAIN b |-> [call |-> b[i], id |-> ids + i - 1]]
Pend(b)    == [i \in DOMAIN b |-> [call |-> b[i], id |-> ids + i - 1, publisher |-> effect.id]]

OutputCompleted(b) ==
    IF Repeats(b)
    THEN Terminate("failure", <<>>) /\ Finish("failure") /\ UNCHANGED calls
    ELSE /\ log' = Append(log, Assistant(effect.id, ask, Reserve(b), effect.chain))
         /\ pending' = pending \o Pend(b) /\ ids' = ids + Len(b)
         /\ effect' = NoEffect
         /\ request' = IF pending' = <<>> THEN NoRequest ELSE request
         /\ calls' = b /\ UNCHANGED status
         /\ IF b # <<>> THEN Goto("dispatch") /\ UNCHANGED answerVars
            ELSE Finish(IF Canceled THEN "interruption" ELSE "success")

OutputPartial ==      \* errored with a retained payload: the run continues
    /\ log' = log \o <<Assistant(effect.id, ask, <<>>, effect.chain), Signal(ids, "continuation")>>
    /\ ids' = ids + 1 /\ effect' = NoEffect
    /\ request' = IF pending = <<>> THEN NoRequest ELSE request
    /\ Goto("loop") /\ UNCHANGED <<status, pending, calls, answerVars>>

OutputTerminal(s) ==  \* errored without payload, or interrupted with or without one
    /\ \/ Terminate(s, <<>>)
       \/ s = "interruption" /\ Terminate(s, <<Assistant(effect.id, ask, <<>>, effect.chain)>>)
    /\ Finish(s) /\ UNCHANGED calls

ModelReturns ==
    /\ at = "calling"
    /\ \/ \E b \in Batches : OutputCompleted(b)
       \/ OutputPartial
       \/ OutputTerminal("failure")
       \/ Canceled /\ OutputTerminal("interruption")
    /\ UNCHANGED <<ctx, roundVars, hookVars, faults, worldVars, scope>>
-----------------------------------------------------------------------------
(* agent.Run, sequential dispatch of one batch. *)
Dispatch ==
    /\ at = "dispatch"
    /\ \/ calls = <<>> /\ Goto("loop") /\ UNCHANGED answerVars
       \/ calls # <<>> /\ Canceled /\ Finish("interruption")
       \/ calls # <<>> /\ ~Canceled /\ Goto("tool") /\ UNCHANGED answerVars
    /\ UNCHANGED <<durableVars, ctx, roundVars, calls, hookVars, faults, worldVars, scope>>

(* toolEffect, from the pending record to the argument hooks: a name the
   request did not advertise and an invalid original settle here. *)
ToolEntry ==
    /\ at = "tool"
    /\ \/ /\ Canceled /\ SettleCall("interrupted", "not_started", FALSE, NoSelection)
          /\ UNCHANGED hookVars
       \/ /\ ~Canceled /\ SettleCall("error", "not_started", FALSE, NoSelection)
          /\ UNCHANGED hookVars
       \/ /\ ~Canceled /\ hook' = 1 /\ chain' = <<>>
          /\ Goto("argumentHooks") /\ UNCHANGED <<durableVars, calls, answerVars>>
    /\ UNCHANGED <<ctx, roundVars, faults, worldVars, scope>>

(* runArgumentHooks: cancellation gates each next hook; a failed hook
   settles the call with what the chain accepted so far. *)
NextArgumentHook ==
    /\ at = "argumentHooks"
    /\ \/ /\ hook > Len(scope.argumentHooks)
          /\ Goto("prepare") /\ UNCHANGED <<durableVars, calls, hookVars, answerVars>>
       \/ /\ hook <= Len(scope.argumentHooks) /\ Canceled
          /\ SettleCall("interrupted", "not_started", FALSE, Selected(chain)) /\ UNCHANGED hookVars
       \/ /\ hook <= Len(scope.argumentHooks) /\ ~Canceled /\ scope.argumentHooks[hook] = "pure"
          /\ \/ /\ hook' = hook + 1 /\ chain' = Append(chain, hook)
                /\ UNCHANGED <<durableVars, at, calls, answerVars>>
             \/ /\ \E s \in {"error", "interrupted"} :
                      SettleCall(s, "not_started", FALSE, Selected(chain))
                /\ UNCHANGED hookVars
       \/ /\ hook <= Len(scope.argumentHooks) /\ ~Canceled /\ scope.argumentHooks[hook] = "effectful"
          /\ BeginCallHook
          /\ Goto("hookGate") /\ UNCHANGED <<calls, hookVars, answerVars>>
    /\ UNCHANGED <<ctx, roundVars, faults, worldVars, scope>>

(* runOneHook between the intent and Run, and after Run.  A failure settles
   the hook result first and the tool call in a second transaction. *)
HookFails(s, k) ==
    /\ CommitHook(IF s = "error" THEN "failed" ELSE "interrupted", k)
    /\ outcome' = s /\ doubt' = k /\ Goto("hookSettle") /\ UNCHANGED hookVars

HookGate ==
    /\ at = "hookGate"
    /\ \/ Canceled /\ HookFails("interrupted", "not_started")
       \/ ~Canceled /\ Goto("hookRun") /\ UNCHANGED <<durableVars, hookVars, answerVars>>
    /\ UNCHANGED <<ctx, roundVars, calls, faults, worldVars, scope>>

HookReturns ==
    /\ at = "hookRun"
    /\ \/ /\ CommitHook("succeeded", "observed")
          /\ hook' = hook + 1 /\ chain' = Append(chain, hook)
          /\ Goto("argumentHooks") /\ UNCHANGED answerVars
       \/ \E s \in {"error", "interrupted"}, k \in Evidence : HookFails(s, k)
    /\ UNCHANGED <<ctx, roundVars, calls, faults, worldVars, scope>>

(* settleHookError and settleHookInterruption, the second transaction. *)
HookNotice == doubt = "unknown"
HookSettle ==
    /\ at = "hookSettle"
    /\ SettleCall(outcome, "not_started", HookNotice, Selected(chain))
    /\ UNCHANGED <<ctx, roundVars, hookVars, faults, worldVars, scope>>

(* toolEffect, preparation and permission: an invalid plan, a denial and an
   immediate outcome settle without an intent. *)
Prepare ==
    /\ at = "prepare"
    /\ \/ Canceled /\ SettleCall("interrupted", "not_started", FALSE, Selected(chain))
       \/ /\ ~Canceled
          /\ \E s \in {"error", "denied", "interrupted"} :
                SettleCall(s, "not_started", FALSE, Selected(chain))
       \/ /\ ~Canceled
          /\ SettleCall("success", "observed", FALSE, Selected(chain))
       \/ ~Canceled /\ Goto("begin") /\ UNCHANGED <<durableVars, calls, answerVars>>
    /\ UNCHANGED <<ctx, roundVars, hookVars, faults, worldVars, scope>>

BeginCall ==
    /\ at = "begin"
    /\ IF Canceled THEN SettleCall("interrupted", "not_started", FALSE, Selected(chain))
       ELSE BeginTool /\ Goto("toolGate") /\ UNCHANGED <<calls, answerVars>>
    /\ UNCHANGED <<ctx, roundVars, hookVars, faults, worldVars, scope>>

(* The gate between the intent and Execute. *)
ToolGate ==
    /\ at = "toolGate"
    /\ \/ /\ Canceled /\ SettleCall("interrupted", "not_started", FALSE, NoSelection)
          /\ UNCHANGED runs
       \/ /\ ~Canceled /\ Goto("executing")
          /\ runs' = [runs EXCEPT ![Head(calls)] = @ + 1]
          /\ UNCHANGED <<durableVars, calls, answerVars>>
    /\ UNCHANGED <<ctx, roundVars, hookVars, faults, acted, asked, scope>>

(* The executor's external action (external). *)
Act ==
    /\ at = "executing" /\ acted' = acted \cup {Head(calls)}
    /\ UNCHANGED <<durableVars, at, ctx, roundVars, calls, hookVars, answerVars, faults, runs, asked>>
    /\ UNCHANGED scope

(* The executor returns: a real outcome wins a cancellation race, an
   invalid one becomes an unknown.  Executors tell the truth when they say
   that nothing started. *)
Declared(k) == k = "not_started" => Head(calls) \notin acted
ToolReturns ==
    /\ at = "executing"
    /\ \/ SettleCall("success", "observed", FALSE, NoSelection)
       \/ \E s \in {"error", "denied", "interrupted"}, k \in Evidence :
             Declared(k) /\ SettleCall(s, k, FALSE, NoSelection)
    /\ UNCHANGED <<ctx, roundVars, hookVars, faults, worldVars, scope>>
-----------------------------------------------------------------------------
(* complete, settleTerminal and publishQuiet: a settled Operation and an
   active effect are preserved, anything else publishes the proposed
   terminal; the shared guard turns a canceled success into interruption
   (module Session tells its marker, its context and a stop apart). *)
Guarded(s) == IF s = "success" /\ Canceled THEN "interruption" ELSE s
Quiet == status = "running" /\ effect = NoEffect
Complete ==
    /\ at = "finish"
    /\ IF Quiet THEN Terminate(Guarded(outcome), <<>>) ELSE UNCHANGED durableVars
    /\ Goto("done")
    /\ UNCHANGED <<ctx, roundVars, calls, hookVars, answerVars, faults, worldVars, scope>>

(* A transaction fails: the publication failure ends the execution, and the
   durable state stays as it is for recovery. *)
Publishing ==
    \/ at \in {"requestRun", "model", "calling", "tool", "hookRun", "hookSettle",
               "prepare", "begin", "executing"}
    \/ at \in {"requestGate", "attempt", "hookGate", "toolGate"} /\ Canceled
    \/ at = "requestHooks" /\ hook <= Len(scope.requestHooks) /\ scope.requestHooks[hook] = "effectful" /\ ~Canceled
    \/ at = "argumentHooks" /\ hook <= Len(scope.argumentHooks)
    \/ at = "finish" /\ Quiet

PublicationFails ==
    /\ Publishing /\ faults < MaxFaults
    /\ faults' = faults + 1 /\ Goto("done")
    /\ UNCHANGED <<durableVars, ctx, roundVars, calls, hookVars, answerVars, worldVars, scope>>

(* Interrupt, a root stop, or the Harness context. *)
Cancel ==
    /\ ctx = "live" /\ at \notin {"done", "down"} /\ ctx' = "canceled"
    /\ UNCHANGED <<durableVars, at, roundVars, calls, hookVars, answerVars, faults, worldVars>>
    /\ UNCHANGED scope

(* The process is lost with everything it held in memory. *)
Crash ==
    /\ at # "down" /\ at' = "down"
    /\ ctx' = "live" /\ round' = 0 /\ ask' = 0 /\ failed' = 0 /\ calls' = <<>>
    /\ hook' = 0 /\ chain' = <<>> /\ outcome' = "none" /\ doubt' = "none"
    /\ UNCHANGED <<durableVars, faults, worldVars, scope>>

(* recoverRunningOperation: the terminal interruption, from the durable
   records alone; nothing is replayed. *)
RecoverQuiet ==                      \* mutant: only a quiet Operation is recovered
    /\ at = "down" /\ status = "running" /\ effect = NoEffect
    /\ Terminate("interruption", <<>>)
    /\ UNCHANGED <<at, ctx, roundVars, calls, hookVars, answerVars, faults, worldVars, scope>>
Recover ==
    /\ at = "down" /\ status = "running"
    /\ Terminate("interruption", <<>>)
    /\ UNCHANGED <<at, ctx, roundVars, calls, hookVars, answerVars, faults, worldVars, scope>>

EngineStep == Loop \/ Source \/ Round \/ Dispatch \/ Complete
RequestHookStep == NextRequestHook \/ RequestHookGate \/ RequestHookReturns
ModelStep == BeginModel \/ Attempt \/ AttemptFails \/ ModelReturns
ToolStep ==
    \/ ToolEntry \/ NextArgumentHook \/ HookGate \/ HookReturns \/ HookSettle
    \/ Prepare \/ BeginCall \/ ToolGate \/ ToolReturns

Step == EngineStep \/ RequestHookStep \/ ModelStep \/ ToolStep
Next == Step \/ Act \/ PublicationFails \/ Cancel \/ Crash \/ Recover

Spec == Init /\ [][Next]_vars

(* The goroutine runs, callbacks and executors return, and the next process
   recovers before it serves.  Nothing forces a cancellation, a loss or a
   failed transaction. *)
Fairness == WF_vars(Step) /\ WF_vars(Recover)
FairSpec == Spec /\ Fairness
-----------------------------------------------------------------------------
Register == [status |-> status, effect |-> effect, pending |-> pending, request |-> request]

Kinds == {"assistant", "hook", "tool", "signal", "settlement"}
Places == {"loop", "source", "requestHooks", "requestGate", "requestRun", "round", "model",
           "attempt", "calling", "dispatch", "tool", "argumentHooks", "hookGate", "hookRun",
           "hookSettle", "prepare", "begin", "toolGate", "executing", "finish", "done", "down"}

(* The register, the log and the goroutine's locals keep their types. *)
TypeOK ==
    /\ status \in Terminals \cup {"running"}
    /\ effect \in [kind : {"none", "model", "hook", "tool"}, id : Nat, call : Call \cup {NoCall},
                   request : Nat, hook : Nat, chain : Seq(Nat)]
    /\ pending \in Seq([call : Call, id : Nat, publisher : Nat])
    /\ request \in [id : Nat, results : Seq(Nat)]
    /\ \A i \in DOMAIN log : log[i].kind \in Kinds /\ log[i].id \in 1..(ids - 1)
    /\ at \in Places /\ ctx \in {"live", "canceled"} /\ calls \in Seq(Call)
    /\ round \in 0..scope.rounds /\ faults \in 0..MaxFaults /\ failed \in 0..(Retries + 1)
    /\ outcome \in Terminals \cup {"none", "error", "interrupted"}
    /\ doubt \in Evidence \cup {"none"}
    /\ runs \in [Call -> Nat] /\ acted \subseteq Call

(* Whatever the process leaves behind, at whatever instant it is lost, is
   a graph that a load accepts: otherwise the Session is corrupt, and
   recovery, which skips corrupt Sessions, would never settle it. *)
LoadAccepts == TypeOK /\ Accepts(Register, log)

(* One published call reaches its executor at most once, over all rounds,
   retries of the model and recoveries: beginPendingCallEffect's intent and
   publishedCallIDs' refusal of a repeated identity. *)
ExecutesOnce == \A c \in Call : runs[c] <= 1

(* A pre-tool hook that may have acted is never forgotten: the call's
   result carries the uncertainty notice exactly when a hook result of the
   call has unknown evidence, also when the process was lost between the
   hook's transaction and the call's. *)
HookDoubtKept ==
    \A i \in At(log, "tool") :
        log[i].notice <=> \E j \in At(log, "hook") : log[j].call = log[i].call
                                                   /\ log[j].evidence = "unknown"

(* Every request that reached the model intent is owned once: by the
   assistant entry that answers it or by the evidence of the no-output
   settlement, and by one of them as soon as the Operation is terminal. *)
Owners(q) ==
    {i \in At(log, "assistant") : log[i].request = q}
      \cup {i \in At(log, "settlement") : log[i].evidence.accepted = "yes" /\ log[i].request = q}
RequestsOwnedOnce ==
    \A q \in asked :
        IF effect.kind = "model" /\ effect.request = q THEN Owners(q) = {}
        ELSE Cardinality(Owners(q)) = 1
(* Neither work nor its cost is duplicated, whatever is repeated after a
   failure: no call executes twice and no request is owned twice. *)
NothingTwice == ExecutesOnce /\ RequestsOwnedOnce

(* An execution that ends leaves its Operation terminal, unless one of its
   transactions failed. *)
EndsSettled == (at = "done" /\ faults = 0) => status # "running"

(* Once the context is canceled no model attempt, hook or executor starts,
   whichever gate the goroutine is at. *)
Running == {"calling", "requestRun", "hookRun", "executing"}
StartsNothing == (Canceled /\ at' \in Running) => at' = at
CanceledStartsNothing == [][StartsNothing]_vars

(* The tool calls keep the promise of module Ledger: answers are truthful,
   final and given in publication order, through cancellation, failed
   transactions, loss and recovery. *)
VerdictOf(c) ==
    IF \E i \in At(log, "tool") : log[i].call = c
    THEN log[CHOOSE i \in At(log, "tool") : log[i].call = c].evidence ELSE "none"
Abstract == INSTANCE Ledger WITH
    phase   <- IF status = "running" THEN "open" ELSE "closed",
    waiting <- [i \in DOMAIN pending |-> pending[i].call],
    verdict <- [c \in Call |-> VerdictOf(c)]
KeepsLedger == Abstract!Spec

(* An interrupted Operation, and one whose process was lost, is settled,
   unless the execution lost a transaction and the process lives on. *)
InterruptionSettles ==
    (Canceled \/ at = "down") ~> (status # "running" \/ (at = "done" /\ faults > 0))
(* A cancellation is honored at whichever gate, effect or retry it strikes:
   nothing more starts, the execution ends and the Operation is settled. *)
CancellationEnds == CanceledStartsNothing /\ []EndsSettled /\ InterruptionSettles
=============================================================================
