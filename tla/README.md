# A TLA+ verification of lightcode's Harness

lightcode is a coding agent written in Go. Its core is the *Harness* (`harness/`): a durable
store of Sessions, each a log of entries plus a few registers, over which an Agent loop
(`agent/`) talks to a model, runs tools through hooks and permissions, and survives
cancellation, failed storage and the loss of its process. A *Runtime* (`runtime/`) composes the
Harness with configuration, tools, jobs and providers and serves it to clients over a protocol.

This directory holds a model of that core, the TLC runs that check it on small instances, and
the TLAPS proofs of what holds on every instance. It is built in stages: the inventory below
covers the whole system, the modules cover what the plan has reached.

Contents: [inventory](#1-inventory) · [plan](#2-plan) · [modules](#3-the-modules-and-the-code) ·
[runs](#4-runs-bounds-and-what-they-show) · [fairness](#5-fairness) · [proofs](#6-proofs) ·
[only model-checked](#7-what-is-only-model-checked) · [not modelled](#8-what-is-not-modelled).

## 1. Inventory

| Component | State | Operations | Hard behaviours | What makes it correct |
|---|---|---|---|---|
| **Session coordinator** `harness.go`, `execution.go`, `context.go` (Interrupt), `recover.go` | Session and Operation registers (durable); the resident graph, reservation, steering and queued FIFOs, run slot, interrupt marker, background members (under `c.mu`) | Submit, Compact, Interrupt, Archive, Reopen, Delete, ChangeAgentType, sweep, Wait, drain, retire, recover | a commit and its adoption in different holds; a slot handed from an execution to its successor; a cancel after an unlock; loss anywhere | one live execution; the register names the running Operation; no accepted input is stranded; Interrupt hits its target; Wait joins everything |
| **Background members and child Sessions** `background.go` | per-root member table, claims, child tree, stop state | launch, deliver completion, stop, stop all, child handoff | a completion racing a stop; idle admission racing Submit; a child ending before its launch returns | a completion reaches its parent once; nothing is launched under a stopped root |
| **Effects** `effect.go`, `attempt.go` | active effect, pending calls, suspended request (durable); the round's in-memory view | model effect with retries, request hooks, argument hooks, tool effect, terminal settlement | loss between an intent, the act and its result; one step of two transactions failing | what is left always loads; calls run once; answers are truthful |
| **Graph validator** `graph.go` | none (a predicate on a loaded Session) | load, validate | a shape the driver can write and the validator refuses loses the Session | the driver only writes what a load accepts |
| **Agent engine** `agent/` | the round's output and calls | run loop, stream assembly, finalisation, tool correlation | a cancellation between any two checks; partial streams | an interrupted run is never reported as success; a delta belongs to one call |
| **Compaction** `compact.go`, `estimate.go`, `strategy.go` | checkpoint entry, maintenance facts, unreported marker | manual compact, automatic maintenance, checkpoint commit | maintenance inside a suspended request; loss of process-local facts | no cut separates a call from its result; facts are recorded once |
| **Storage** `storage.go`, `internal/storage/` | registers with revisions, entries with sequences | Transact, read, replace, insert, delete | conditional replacement under concurrency; rollback; commit outcome unknown | a transaction is whole or absent; revisions only grow |
| **Residency, creation, fork** `harness.go`, `fork.go` | cells, uses, corrupt marks | claim, load, release, retain, delete, fork | a delete under a load; two loaders of one Session | one resident graph per Session; a fork publishes a valid prefix |
| **Observation** `snapshot.go`, `observe.go`, `runtime/observation.go`, `client/` | event sequence numbers, subscriber queues, reader baseline | publish, subscribe, resync | a slow subscriber; a gap between baseline and stream | a reader that keeps up or resyncs sees the latest state |
| **Jobs** `internal/jobs/`, `internal/cmdoutput/` | process table, bounded output window | start, read, wait, kill, exit | exit racing kill; output at its bound | one exit report per job; retained output is a head and a tail |
| **Payload codec** `payload.go`, `codec.go`, `schema.go` | the JSON of entries and registers | encode, decode, validate, for each payload type | two hand-written halves; a damaged member read as another outcome | a decoder inverts its encoder and accepts nothing else |
| **Protocol** `runtime/protocol*.go`, `protocol/`, `internal/clientops/` | requests in flight, the closing phase | invoke, bind, route, authenticate, decode, admit, execute, encode, read | one operation declared seven times; presence and case lost in native decoding; a close under requests | a call runs as asked or is refused, and its answer is understood |
| **Terminal client** `internal/cliclient/` | connection, accepted clocks, displayed reader, event queue | connect, hydrate, page, read globals, navigate | events during a read; late answers; a lost stream | what is shown is unbroken and never silently stale |
| **Runtime** `runtime/` | generations of configuration, preparation reservations, server connections | compose, prepare, reconfigure, serve, shut down | a reconfiguration under open executions; shutdown order | a generation is closed after its last user |
| **Code snapshots** `internal/snapshot/` | captured file versions | capture, revert | a failure in the middle of a revert | a revert restores what was captured |
| **Configuration files** `internal/config/`, `internal/atomicfs/` | files on disk with revisions | load, mutate, replace | loss between write and rename | a file is the old or the new one |
| **Permission policy, usage, catalog** | rules; totals; cached discovery | decide, add, refresh | precedence, overflow, stale refresh | deny outranks allow; totals match entries |

How they interact: a client command reaches `Runtime`, which calls the `Harness`. `Submit`
takes the coordinator's *admission reservation*, prepares resources through the Runtime outside
every lock, commits the Operation and Session registers in one transaction, adopts the committed
record in a second hold of `c.mu`, installs the run slot and starts a goroutine. That goroutine
is the *execution*: it runs `agent.Run` over the callbacks of `effect.go`, each of which brackets
one external effect by an intent transaction and a result transaction, then settles the
Operation, drains the FIFOs and retires. Background jobs and child Sessions report their
endings through `DeliverBackgroundCompletion`, which may admit, buffer or record a signal.
`Interrupt`, a stop, a Harness loss or a process loss may strike between any two steps; after a
process loss `Recover` settles what is still running before anything is served.

The hazards this code is exposed to are listed in `PROJECT.json`, each at the line where it
bites, with the properties that would catch it.

## 2. Plan

Order: the behaviour everything else rests on first.

| Stage | Modules | Abstract specification | Checked | Proved, or to prove |
|---|---|---|---|---|
| 1 (done) | `Session`, `SessionProofs`, `CoordinatorProofs`; `Graph`, `Effects`, `EffectsProofs`, `GraphProofs`, `Ledger` | `Ledger`: what the log promises about tool calls | `session_*`, `effects` | proved: registers agree, executions exclusive, terminal is final; preparations and joins, input delivered, archive quiet, run slot owned; calls at most once, doubt survives, executions end settled, `Effects` implements `Ledger`, every graph it leaves loads |
| 2 (done) | `Background`, `BackgroundProofs`; its jobs in detail in `Jobs`, `JobsProofs` | | `background*`, `jobs` | proved: jobs accounted, stops are final; obligations held, told once, reports at rest, stopped children rest, a root's stop ends with an empty group |
| 3 (done) | `Maintenance`, `MaintenanceProofs`: compaction, checkpoints, accounts | | `maintenance` | proved: what is committed loads back, work is recorded once, the conversation pairs, compactions advance |
| 4 (done) | `PayloadTypes`, `PayloadRecords`, `Payload` | the decoder is the encoder's inverse | `payload` | |
| 5 (done) | `Wire*`: one protocol call end to end, and shutdown | the schema (`Conforms`) | `wire` | |
| 6 (done) | `Reader`, `ReaderProofs`: a client's view kept current by reads and events | what the Runtime holds | `reader` | proved: shown is unbroken, nothing is silently stale, clocks advance, only losses repair |
| 7 | `Residency` (cells, load, release, delete, create, fork); `Storage` with a linearizable register as its abstraction | one resident graph per Session | two Sessions, two callers, one loader fault | the residency invariant |
| 8 | `Runtime` (generations of configuration, preparation reservations), `CodeStore`, `AtomicFile` | a generation outlives its users | two generations, two executions | reservation counting |

Modules to be proved about use no `RECURSIVE` operator; invariants are conjunctions of named
parts and every action is one operation. The codec and protocol modules recurse over nested
types and are for TLC only.

## 3. The modules and the code

`PROJECT.json` maps every definition that models code to its lines. Definitions marked
`mutant` in a comment are deliberate errors, used to show that the properties notice them.

### Session: one Session's coordinator

One action is one hold of `c.mu`, one transaction, or one step outside both; a goroutine may be
preempted between any two. Threads are the callers of the public API and the executions, the
latter named by their Operation.

| State | Code |
|---|---|
| `lifecycle`, `current`, `rev` | the Session register: lifecycle, `CurrentOperationID`, revision |
| `status`, `signals` | the Operation registers; committed background-completion signals |
| `graph` | `c.graph`, the resident view, which may lag behind the register between a commit and its adoption |
| `reserved` | the one admission reservation (`c.reserved`) |
| `steering`, `queued` | the FIFOs |
| `run`, `interruptOp` | `c.run`, `c.interruptOp` |
| `members`, `claimed`, `bgState` | the background member table |
| `pc`, `item`, `seen`, `prep` | where each goroutine is, what it admits, the revision it compares, and whether it owns an unreleased preparation |
| `canceled`, `outcome` | each execution's context and the terminal it proposes |
| `ctx`, `waiter` | the Harness context and `Wait`'s join |
| `started`, `interrupted` | history, read by properties only |

Submit, Compact, the drain and an idle completion share the admission
`admit -> prepare -> publish -> adopt -> install -> release` (`admitReserved`,
`prepareExecution`, `publishAdmission`, `startExecution`). An execution goes
`spawned -> running -> complete -> settle -> drain ... retire -> done`. Failed transactions
(`Fault`), revision races and rematerialisation, refusals and a caller that gives up are
alternatives of the step at which the code takes them. `Crash` forgets everything in memory;
`Recover` and `Restart` are `recover.go`.

Merged: a call's entry and its acquisition of the reservation; the settlement and the disposal
after it. An execution's non-terminal commits move the register's revision and the resident view
together under `c.mu`; they are abstracted here and detailed in Effects. A rematerialisation
that itself fails is not told apart from the race that caused it.

### Graph: what a load accepts

Pure operators over one Operation's register and its log, named after the passes of
`graphValidation` and the codecs: `EntriesUnique`, `ReservationsUnique`, `ReservationsKept`,
`ResultsAnswer`, `HookResultsValid`, `RequestDomain`, `StateShape`, `PendingExact`,
`EffectFresh`, `EffectContinuesCall`, `EffectContinuesRequest`, `RequestStateExact`,
`TerminalValid`, combined by `Accepts`. The code walks maps and slices; the operators quantify
over positions in the log and say what each walk accepts. Of the committed results that the
identities of a chain name, `validateEvidenceHookOrder` counts off one after the other: none may
come at or after the chain's owner, none out of order, and none before the owner may be missing;
these are the three conjuncts of `HookOrder`. `PendingExact` and `RequestStateExact` say of two
lists compared index by index that they have the same members in the same order. References into checkpoints, the usage totals and a fork's
copied prefix are not part of the shape.

### Effects: one running message Operation

The Agent loop over the driver's callbacks. Durable state is the Operation register (`status`,
`effect`, `pending`, `request`) and the `log`; `ids` supplies the fresh identities of
`newHexID`. `at` is where the goroutine is, `ask`, `hook`, `chain`, `calls`, `failed` and
`doubt` are its locals. `runs`, `acted` and `asked` are history: how often each executor was
started, which ones acted on the world, which requests reached a committed model intent.

| Actions | Code |
|---|---|
| `Loop`, `Round`, `Dispatch`, `Answered` | `agent.Run` |
| `Source` | `requestSource` |
| `NextRequestHook`, `RequestHookGate`, `RequestHookReturns` | `runRequestHooks`, `runRequestHookEffect` |
| `BeginModel`, `Attempt`, `AttemptFails`, `ModelReturns` | `modelEffect`, `beginModelEffect`, `runModelAttempts`, `commitEffectResult` |
| `ToolEntry`, `Prepare`, `BeginCall`, `ToolGate`, `ToolReturns` | `toolEffect`, `beginPendingCallEffect`, `commitToolResult` |
| `NextArgumentHook`, `HookGate`, `HookReturns`, `HookSettle` | `runArgumentHooks`, `runOneHook`, `settleHookError`, `settleHookInterruption` |
| `Terminate` (in several actions) | `commitTerminalSettlement` |
| `Complete` | `settleTerminal`, `publishQuiet` |
| `PublicationFails` | a transaction that fails: the execution ends and durable state is left to recovery |
| `Cancel`, `Crash`, `Recover` | Interrupt or stop, process loss, `recoverRunningOperation` |
| `Act` (external) | what an executor does outside the process |

Abstractions and merges. Contents (messages, arguments, details, usage) are dropped; a call is
its identity, a hook its place in the configured order. Consecutive cancellation checks with
the same outcome are one. The backoff is merged into the check that follows it. A callback's return
and its commit are one step, because the settlement context is not cancelable and nothing
between them can change the outcome. Interrupted outputs occur only under a canceled context.
Preparation, permission and output shaping choose nondeterministically among the outcomes the
code can give. A failure to build an assistant entry leaves the intent as a failed transaction
does. One external assumption: an executor that declares `not_started` did not act (`Declared`).

### Ledger: the promise about tool calls

The abstract specification that `Effects` implements (`KeepsLedger`). Calls wait in publication
order; only the oldest may act; each is answered once and for all; an answer says "not started"
only if nothing happened; closing the Operation answers the rest. The refinement mapping reads
`waiting` off the pending list and `verdict` off the tool results' evidence.

### Maintenance: compaction and its accounts

Operations of one Session, each a round of requests that maintenance may precede, or one
compact command. Durable are the log, the current checkpoint, the usage totals and the
Operation registers; `facts`, `pendingFacts` and `plan` are the procedure's locals, which a
loss forgets and a fact records. `spent` is history: what providers really reported.

| Actions | Code |
|---|---|
| `Admit`, `Source`, `Dispatch`, `Answer`, `AnswerSettles`, `Tool`, `StopBatch`, `Over` | the conversation as far as maintenance depends on it (`requestSource`, `commitEffectResult`, `settleTerminal`) |
| `Plan`, `OpenStage`, `Consume`, `Commit`, `Reproject` | `completeMaintenance`, `runMaintenanceModel`, `commitMaintenance`, the projection of `requestSource` after it |
| `Summarize`, `Summarized` | `compactModelEffect` over `runModelAttempts` |
| `Cancel`, `Crash`, `Recover` | Interrupt or stop, process loss, recovery with `UnreportedMaintenance` |

Helpers carry the code's names: `Project` (`projectContextRefs`), `CutUnsafe`
(`buildCutSafety`), `PairsComplete` (`validateToolPairing`), `RetainsExchanges`
(`resolveCheckpointItems`), `PlanValid` (`validateCheckpointPlan`), `RebuiltBoundary`,
`ContextMeasurement`, `EstimateKnown` (`costEstimate`). A loop over the log that keeps some of its
positions is `Ascending`, the list of a set of positions in order (`EntriesOf`, `MessagesAt` and
`Covered` are instances); a committed transaction and a lost one are `Publish` and `Lost`, the
settlements of an Operation `Terminated`, `RunningResult` and `Compacted`. A report is absent, a known zero
or one unit; message texts, prompts and byte estimates are dropped; a plan of a strategy other
than the included one is any plan, because `StrategyBinding` accepts plugins.

### Jobs: the background-jobs service

One action is one hold of the capability's or the record's mutex, or one system call outside
both: `Reserve`, `StartFails`, `StartSucceeds`, the abort, the exit goroutine (`reap`,
callbacks, cleanup), the timeout goroutine with its escalation, `Kill`, `StopJob`, `Close`. A
process may end by itself, on SIGTERM, or only on SIGKILL; timers may fire at any time.

The exit goroutine waits with `cmd.Wait`, which also waits for the copies of stdout and stderr.
`process` therefore says who may still hold the output pipe: the process, its group after it
(`lingering`, which SIGKILL to the group still reaches), or a descendant that has left the group
(`escaped`, which nothing reaches); only when all are gone (`dead`) can the record be reaped
(`Reaped`).

### Background: the group of a root and its children

Members of each Session (`member`), the claimed member's delivery and finish (`ending`), the
child launch from admission through handoff or rejection (`launch`), a child's Operation, run
slot, buffer and admission hold, its executions to the tail, its completion obligation
(`pending`, `settle`) and the stop interval of each Session (`stop`).

| Actions | Code |
|---|---|
| `AdmitChild`, `Launcher` | `admitBackgroundMember`, the launch, handoff, and `settleRejectedChildLaunch` |
| `ReserveJob`, `JobStarter`, `JobExits` | a job's start and exit callback (detail in Jobs) |
| `Claim`, `Finish`, `FinishChecks` | `claimBackgroundMember`, `finishBackgroundMember` |
| `DeliverToRoot`, `DeliverRoutes` | `deliverBackgroundCompletion`: the acquisition of the parent and `backgroundDeliveryPriority` |
| `DeliverReserves`, `DeliverReroutes`, `DeliverAdmits`, `DeliverInstalls`, `DeliverReleases` | `deliverIdleCompletion` into a child: the reservation, the same decision under it, the admission, its execution |
| `SettleClaims` | the obligation's two triggers (`childCompletionSettled`), its abandonment |
| `SubmitReserves`, `Submits` | a caller's Submit to a child |
| `Execution`, `EndRun` | the child's Engine, settlement, drain and retirement |
| `Stop`, `Stopping`, `Lose` | `Stop` over a lineage with its captured set, joins and admission hold; Harness loss |

A delivery is one attempt (`Told`, `Refused`, or a failed transaction), and whatever comes of it
the member finishes. It may be refused for good with no storage failure, and is then reported
nowhere: the preparation or the admission is refused, the parent is unavailable, or the closed
record loses its revision. `refused` is the history of that. The root's own execution is left
open here, so a delivery into the root is one step with any of these outcomes; `Session` has its
routing. A delivery into a child holds the child's reservation, under its own token, over three
holds of the mutex and may install an execution, against the child's Submits, drains and stop.
`StopAll` is `Stop` on every established Session.

### Payload*: the durable records

`PayloadTypes` and `PayloadRecords` state, payload by payload, the members and, from the two
halves of the codec separately, how each is written ("always", when nonzero, by a rule of the
encoder) and read ("required", nonempty, absent means zero), and the validator's rule. Nested
values that another member's rule looks into are records, all others tokens. `Payload` is the
life of one value: assembled from a sample, stored under an envelope, damaged in one member or
found under another envelope, decoded. JSON syntax and number formatting are left out.

### Wire*: one protocol call

The same operation is declared seven times in the code, and each declaration has its module:
`WireInvoke` (the native operation table), `WireRequests` (the request constructors),
`WireWrappers` (the server's parameter wrappers and routes), `WireHandlers` (body, result,
status), `WireReplies` (the response types and parsers), over `WireTypes` (every enum, struct
and union with the members a document must carry). `WireCodec` is what the boundary does with
a document: the native decode, which matches names in any letter case, the raw presence walk,
which matches exactly, the union accessors, and the stamping of revisions; `WireDocs` is what a
writer may get wrong and what the schema (`Conforms`) says.

`Wire` composes them: `Invoke`, `WithResponse` and `RawRequest` build a request, `Draft` and
`Damage` let another client write one wrong; `Serve` routes, authenticates, binds and decodes;
`Enter` is `Runtime.enter`, after content parts were read a second time; `Execute` is the
producer and the answer; `Receive` reads it; `Lose`, `beginShutdown`, `closeNetwork` and
`joinShutdown` are a broken connection and `Runtime.Close`.

### Reader: a client that keeps up

The Runtime's side is a Session's revision pair and conversation, the configuration and warning
clocks, and the subscription of the client's event stream with its bounded queue. The client's
side is `internal/cliclient`: the connection with `openConnection` and its repairs, the read
chain of the displayed Session (dirty, hydrating, paging), the task that reads the globals,
navigation and exit. A call is an action at which it reads the server and an action at which
its answer lands, with any events in between; a frame is an action at the bus and one at the
client's queue. `AcceptHydration`, `Newer` and `Incomparable` are the acceptance rule.

## 4. Runs, bounds and what they show

A property named in a run is a conjunction of parts, each stated and commented where the module
defines it. Several runs quantify over *scopes* (`MC*.tla`): initial values of a constant
record that say which inputs, failures and bounds a behaviour explores, so that one run covers
several instances. Every property has a mutant of the code it was seen to reject.

| Run | Instance | Shows |
|---|---|---|
| `session_admission` | 2 callers, 2 Operations, 1 failed transaction, any number of process losses; compact and interrupt | registers agree, executions never overlap, preparations are released and Wait joins (`JoinsAndReleases`), an Operation starts once, the slot passes only to the drained successor, Interrupt hits just its target (`RunSlotOwned`) |
| `session_background` | 2 callers, 1 Operation, 1 completion, stop, interrupt, archive, reopen, Agent-type change, delete and sweep, 1 failed transaction, the register's revision up to 3 | accepted input is neither stranded nor delivered twice (`InputDelivered`); no transition crosses busy state, a settled Operation whose execution has not retired and a buffer behind it included |
| `session_progress` | fair scheduling, interrupts, a completion, a loss | every accepted item resolves (`InputResolves`); Wait returns |
| `session_closed_race` | two completions of a stopped child | **violation** of `ReleasedAfterSettlement`, see below |
| `effects` | two scopes: 2 calls, 2 rounds, batches of up to 2, a pure and an effectful argument hook; 3 rounds, 1 call, request hooks effectful-pure-effectful. One failed transaction, one cancellation and one loss at any step | what is left always loads; hook uncertainty is kept; nothing happens twice (`NothingTwice`); the Ledger is kept; a cancellation starts nothing more and ends settled, a lost Operation is recovered (`CancellationEnds`) |
| `maintenance` | four scopes: accounts under up to 2 plans, failures and losses; the summary strategy; any boundaries and retained messages over 3 rounds; one call identity used by 3 Operations | what is committed loads back; each producer's work is recorded once or its absence admitted (`WorkRecorded`); the view a model continues pairs every call (`ConversationPairs`); compaction makes progress |
| `jobs` | 2 jobs of one Session, limit 1, one timed, 2 goroutines that kill, stop and close; descendants in and outside the group | reports once and the limit (`Accounted`); stops hold (`StopsHold`); Kill returns, StopJob and Close unless a descendant outside the group keeps what they wait for (`StopsReturn`) |
| `background` | casts: a child with a job, and a caller and one stop or a fault and two; two children of one root, with two stops or with a fault; fair, with two stops on a Harness that may be lost: a child with a job, and a child with a caller and a fault | the obligation to report is never dropped; one attempt is made to tell a parent and no second (`ToldOnce`), and only at rest; a stopped child rests; a stop empties its group and returns (`StopsComplete`) |
| `background_rejected` | a child whose launch is rejected, with a caller | **violation** of `NoStrandedChildInput`, see below |
| `payload` | every payload type, values up to 2 (entries), 3 (registers) or 4 (nested values) members away from a sample, one damaged member or one foreign identity | what was encoded is read back; what is read is canonical; damage does not change whose record it is or how its work ended (`DamageTells`) |
| `wire` | scopes: every operation by both client paths, at most one member wrong; every operation by another client; every body drafted with up to 2 flaws; two calls, breaking connections and a close | a call runs as asked, only when its document conforms (`BoundaryAgrees`), its answer is understood (`AnswersReadBack`), the close holds and everything ends |
| `reader` | scopes: growth while paging; clocks moving under a read; a lost stream, Runtime replacement and a failed read; navigation; one fair. Pages of 1, a stream of 2, a queue of 1 | what is shown is unbroken, never silently stale, never goes back (`ClocksAdvance`); an honest Runtime is never taken for a breach; the view settles |

Bounds. Two callers and two Operations give every pair of racing admissions, a buffered
successor and a duplicate identity; a third party adds no new kind of interleaving because every
interaction goes through the one reservation and the one run slot. `MaxBuffer` 2 fills both
FIFOs or one twice. One failed transaction at a time is what the code handles; the second
follows a restart. `MaxRev` bounds only the caller-driven register rewrites. An admission and its
settlement bring the revision to 2; in `session_background` `MaxRev` is 3, so that an Archive, a
sweep or an Agent-type change still meets what follows a settlement: the execution that has not
retired, and the buffer behind it. Two calls in one
batch are the smallest in which one is settled while its sibling waits; two rounds are the
smallest in which a model repeats an identity; three hooks are the smallest chain with a pure
hook between two committed ones. `Retries` is the code's own 3. Three plans' worth of messages
and three rounds are the smallest in which a checkpoint on a checkpoint separates an exchange.
Two jobs under a limit of one make every start race the other's exit; two stopping goroutines
make a kill, a stop and a close race. Operation numbers of a child: 1 is the launch's, 2 a
drained or submitted successor, 3 a job's completion admitted after it. The casts
of `background` share out what one instance would multiply (a caller, a job, a fault, a loss, a
second stop): each pair of these meets in some cast, and liveness is checked on the two fair ones.
Capacities of 1 and 2 in Reader are the smallest that fill both in one step. The
modelled system may stop for good (an idle Session, a recovered Operation), so deadlock is not
an error. Symmetry: callers and call identities are interchangeable; the runs with liveness do
not use it.

Finding 1. `publishAdmission` commits under the reservation and adopts the committed Session
record in a later hold of `c.mu`, unconditionally (`c.graph.Session = newSession`). When the
child is stopped in between, `deliverClosedCompletion` may move the register twice in that
window; the adoption then brings an older revision back, the execution's terminal commit loses
its revision check, and the run slot is cleared with the Operation still running - while the
comment at `harness/harness.go:394-396` says an execution is released only after its terminal
settlement has converged. The run `session_closed_race` finds this sequence.

Finding 2. A child launch that is rejected settles the child's Operation through
`recoverRunningOperation` (`settleRejectedChildLaunch`), with no execution and so no drain. A
Submit that met the child while that Operation was current was buffered and acknowledged; on a
live Harness, with the child open and idle, nothing delivers it until some later admission runs
there, while `Submit` says that a buffered item is discarded on a Harness loss only. The run
`background_rejected` finds this sequence.

Remarks met while modelling, and left as they are. A job whose descendant has left the process
group and holds its output keeps `StopJob`, `Close` and whoever waits on them for as long as it
lives: `reapGroup`'s last wait has no timeout and the command no `WaitDelay`, which
`internal/selfupdate/selfupdate.go:247-249` sets for this very reason; `Kill` gives up after five
seconds. `StopsReturn` says that nothing else keeps them. The revision an event carries is the
resident view's (`observe.go:104-107`), which Finding 1 shows may go back in a stopped child; in
Reader, whose displayed Session is a root, it is the register's. An optional enum member of a request that is
spelled in another letter case is decoded natively and skipped by the raw walk
(`protocol_transport.go:86-94`); `BoundaryAgrees` therefore states the exactly spelled
documents. A read that failed leaves the reader on the older view until the next event; the
failure is reported to the user, and `NoSilentStaleness` excepts what was reported. The deletion
of a Session by another client publishes no event of that Session.

## 5. Fairness

`Session`: started goroutines run and the callbacks they wait for return (WF on the steps of
executions, of admissions in progress and of deliveries in progress); the completing execution
and a delivery eventually win the reservation (SF on `CompleteReserve` and `DeliverReserve`:
closing the reservation channel wakes every waiter, and `reserve` is a loop without a queue, so
weak fairness would not do, and a fair Go scheduler gives no more); `Wait` rescans; a lost
process is restarted and recovers before it serves. Callers, stops, interrupts, completions and
losses are not fair.

`Effects`: the execution goroutine runs and its callbacks return (WF on `Step`), and recovery
runs when the process is back (WF on `Recover`). Nothing forces a cancellation, a loss, or a
restart of a process that lives on after a failed publication: such an Operation stays running
until the next start, and `InterruptionSettles` says so.

`Jobs`: the service's goroutines and callers run (WF per goroutine) and what was sent SIGKILL
dies. Nothing makes a process or a descendant outside its group end, or a timer fire.

`Background` (cast with `fair`): as long as a launcher, a delivery, a settlement, a Submit, an
execution or a stop can move, one of them does (WF on `Moves`, in no particular turn); a canceled
execution's return from its Engine is such a move. A cast has finitely many launches, Submits,
Operations and stops, so this leaves nobody behind who stays able to move, the waiters of a
reservation included, which the code wakes all. Executions and jobs may otherwise go on for
ever, and callers may never come. Nothing makes a killed job's exit be reaped (see Jobs), so
`StopsConverge` excepts a behaviour in which one never is.

`Wire` (scope with `faults`): the goroutine that serves a request runs and a caller whose
answer or break has arrived reads it; a shutdown that was begun goes on. `http.Server` runs
every request in its own goroutine; nothing makes a Runtime close.

`Reader` (scope with `fair`): the client's tasks, the server's calls and the frames on their
way make progress, in no particular turn. Nobody has to change anything, fail or navigate.

Fairness of a scope is guarded by the scope, so the other scopes of a run assume none.

## 6. Proofs

Every theorem is a theorem of a component's `Spec`, without fairness, and holds for every value
of the constants that its module's named assumption admits. Each proof follows one argument: an
inductive invariant, made of named parts; a lemma per action that the action keeps every part;
and the property read off the invariant. TLC checked each invariant on the component's instances
before it was proved.

### SessionProofs: registers and executions

`SessionProofs` proves, for any sets of callers and Operations, any number of completions, any
buffers and any failures (from `SessionAssumption`, which only says that the identities are
distinct and the bounds are natural numbers):

- `TypeCorrect`: `Spec => []TypeOK`;
- `RegistersAgree`: `Spec => []CurrentIsRunning`;
- `ExecutionsExclusive`: `Spec => []SingleExecution`;
- `TerminalStaysFinal`: `Spec => TerminalIsFinal`;
- `Invariance`: the inductive invariant behind them.

`CurrentIsRunning` is not inductive. An admission compares the register's revision with the
one it saw and then writes; that the write meets a quiet register follows only from what the
resident view and the pending admission may believe. The invariant therefore adds: the
resident view at the register's revision agrees with it (`ResidentView`); an admission that has
seen the register's revision saw no current Operation, and one past its commit owns the current
Operation, whose execution does not exist yet (`AdmissionView`); at most one admission is between
its commit and its installation (`OneAdmitted`); an Operation that has an execution has a register
(`FreshOps`); while the process is down nothing runs (`DownInv`). Types come first (`TypeInv`:
`TypeOK` with `ItemOK`, what a goroutine carries at each place and that a settling Operation has
an outcome).
The step lemma has one step per action; actions that leave the registers alone are handled
together by a frame lemma. The action property follows from the invariant: only `Publish` takes
a status from absent, and only the settlements take it from running.

### CoordinatorProofs: what the coordinator owes its callers

From the same assumption, over `SessionProofs`: `CoordinatorInvariance`, and from it

- `PreparationsJoined`: `Spec => []JoinsAndReleases`, no preparation outlives its join and no
  hold is left behind by a caller that is gone;
- `AcceptedInputDelivered`: `Spec => []InputDelivered`, input accepted into a FIFO always has a
  drain ahead of it, and a completion reaches the parent as a signal or as an Operation, once;
- `ArchivesQuietSessions`: `Spec => []ArchivedIsQuiet`;
- `RunSlotStaysOwned`: `Spec => RunSlotOwned`, an action property.

None of them is inductive: each is true because of what goroutines that are between two holds
of the mutex still believe. The invariant says who holds the admission reservation (`HoldInv`),
what a preparation in progress stands on (`PrepInv`), that the run slot belongs to the execution
whose drain is ahead and that no caller admits meanwhile (`RunInv`), what resident views may be
believed (`ViewInv`), who waits for whom (`WaitInv`), where an input is (`InputInv`), that a
background completion is in one place, unclaimed, in one delivery, queued or admitted, or in a
signal (`MemberInv`), and what a start, a marker and a cancellation cause may still find
(`StartInv`, `MarkerInv`, `CauseInv`).

### EffectsProofs: tool calls happen once, and the ledger

From `HookModes`, `Bounds` and `CallsAreIdentities`: `EffectsInvariance`, and from it

- `EffectsTyped`: `Spec => []TypeOK`;
- `HookDoubtSurvives`: `Spec => []HookDoubtKept`, a hook whose outcome is in doubt leaves its
  trace until the call's own result;
- `NothingHappensTwice`: `Spec => []NothingTwice`, through crashes, failed transactions and
  cancellation;
- `ExecutionsEndSettled` and `CancellationStartsNothing`: the action properties `EndsSettled`
  and `CanceledStartsNothing`;
- `CallsKeepTheLedger`: `Spec => KeepsLedger`, the refinement: under its mapping the initial
  states are `Ledger`'s, and every step is one of its steps or a stutter.

The parts: where the goroutine is determines which effect is open and what is pending
(`PlaceInv`); a pending call is published, unanswered and pending once (`CallInv`); a call that
started or acted is answered or still owns the effect (`StartInv`), which is what makes a second
start impossible after a crash; doubt is owed until the result (`DoubtInv`); every asked request
has one owner (`RequestInv`).

### GraphProofs: whatever is left behind loads

From the same three assumptions, for any captured invocation: `GraphInvariance`, and from it
`OperationLoads`, `Spec => []LoadAccepts`. Recovery reads the graph before it settles anything
and skips a Session whose graph it refuses, so this is what makes an interrupted Operation
recoverable at all. `Accepts` is not inductive. It looks at what is committed, while what the
next transaction writes also depends on what the goroutine holds; and the terminal transaction
of recovery has to answer, from the register alone, what every earlier one left open. The parts
of the invariant, beside those of `Accepts` itself (`ShapeInv`, `IdentityInv`, `HookInv`,
`DomainInv`, `StateInv`, `RegisterInv`):

- *What was drawn* (`DrawnInv`). Every reserved result, request and effect identity is below the
  next fresh one, so a fresh identity never meets a reserved one.
- *What the chain stands for* (`ChainInv`). While a request or a call is prepared, the in-memory
  chain is the hooks `1 .. hook-1`, and the results they committed are in the log, succeeded and
  in that order; no hook has run for a call whose turn has not come; after a failed hook, the
  outcome about to be settled is one the failure permits. A pure hook is in the chain and leaves
  no entry, an effectful one leaves both, and the chain that an effect, an output or a tool
  result records accounts for either.
- *Which is ahead* (`AheadInv`). A request hook's number is above everything it consumed and
  above every result of its request, and its request has no model intent yet: so none runs
  twice, none names itself, and no output precedes it.

The proof has one lemma per transaction, not per place of the goroutine. `Appends` says what any
of them may add to the log (the result of a pending call, the active hook's result, the active
model effect's output, a signal, the settlement); that such an addition keeps the validator's
passes over the log is proved once per pass (`GrownShapes`, `GrownIdentities`, `GrownHooks`,
`GrownDomain`), and each transaction is shown to be one (`AnswerAppends`, `CompletedAppends`,
`TerminateAppends`, ...). What is left per action is the chain.

### JobsProofs: jobs are accounted for and stops are final

From `JobsAssumption`, for any number of jobs, callers and any limit: `JobsInvariance`,
`JobsAccounted` (`Spec => []Accounted`) and `StopsAreFinal` (`Spec => []StopsHold`). Per job,
`JobInv` relates the record's phase, the process and the three goroutines that may act on it
(start, exit, timeout); `CallInv` is what a caller of Kill, StopJob or Close may rely on at each
of its places, in particular that every job it captured is ending or gone. A process that is not dead keeps its record
unreaped, wherever its pipe is held. Neither property is inductive without them: a stop is decided under the mutex and acts outside it, while the
process may exit, be escalated or fail to start.

### BackgroundProofs: a root, its children and their jobs

From `BackgroundAssumption`, for any children, jobs, Operations, callers, failures and losses:
`GroupInvariance`, and from it

- `ObligationIsHeld`: `Spec => []ObligationHeld`;
- `ParentsAreTold`: `Spec => []ToldOnce`, one attempt and no second: it does not promise that the
  attempt succeeds, which the code does not either;
- `CompletionsReportAtRest`: `Spec => []ReportsAtRest`, from the taking of the obligation to the
  parent's receipt;
- `StoppedChildrenRest`: `Spec => []StoppedChildRests`;
- `RootStopsEmpty`: `Spec => RootStopEmpties`, the safety half of `StopsComplete`: the step by
  which a root's stop ends leaves its group empty.

`StoppedChildRests` is the hard one. When a child's stop takes the group's mutex, an admission, a
launch or a drain of that child may already be between two of its holds, and will write after
the stop captured what it joins. The invariant therefore says what the stop captured
(`CapturedInv`, `SeenInv`): its jobs, its run, an admission under the captured reservation, or a
launch that has not yet published (`WindowInv`); that nothing new enters while it is closed
(`ClosedInv`); and that what was captured ends before the join returns (`RestInv`). The other
parts: a member is claimed once and told once (`LifeInv`), a launch and its child agree
(`LaunchInv`), the run slot and the executions (`RunInv`, `HoldInv`), a job and its owner
(`JobInv`), deliveries and reports (`TellInv`, `ReportInv`), who holds an obligation
(`OwedInv`), and the root's own interval (`RootInv`). A completion delivered into a child is one
more party to its reservation: it holds it under its own token (`IntoInv`), and what it admits
under a stop was captured by that stop (`LateInv`). That a completion reports a child whose own
jobs' completions have all been read needs that a settlement on a live Harness drains
(`DrainInv`) and that a buffer has that drain ahead of it (`BufferInv`).

### ReaderProofs: a client shows the conversation, and catches up

From `ReaderAssumption` (the opening conversation is a sequence, the page size and both
capacities are positive, scopes name Sessions) and `NilAssumption` (the value for "none" is not
a record of the model), for any conversation, page size, capacities and number of Sessions:
`ReaderInvariance` and `ReaderTypes`, and from them

- `ShowsAStretch`: `Spec => []ShownIsUnbroken`;
- `NothingIsSilentlyStale`: `Spec => []NoSilentStaleness`;
- `ClocksGoOn`: `Spec => ClocksAdvance`;
- `OnlyLossRepairs`: `Spec => RepairsOnlyLosses`.

The parts of the invariant, each needed because the client reads over several calls while the
Runtime changes and events arrive:

- *What is shown* (`ViewInv`). Every range the client holds (displayed, walked back by `bridge`,
  or about to be adopted) is a stretch without gaps that ends with the newest item of its
  hydration, and its cursor addresses the stretch's edge. The lemmas on the operators carry the
  weight: a page is such a stretch (`PageShows`), merging two overlapping or adjacent stretches
  gives their union in order (`OlderJoins` and the lemmas before it), and a conversation only
  grows and gets its results (`Precedes`), so what was read stays true.
- *Which connection* (`LinkInv`). Frames, answers and navigations of a former connection are
  told apart by its number.
- *One order* (`OrderInv`, `BreachInv`). On a standing connection every pair the client or a
  frame carries was this process's at some time, and one process's pairs are linearly ordered.
  Two of them are therefore never incomparable, which is what `CompareSessionRevision` takes for
  a breach of continuity.
- *Never ahead* (`ClockInv`). No clock the client holds is ahead of the Runtime it is connected
  to, so an answer can be stale but not impossible.
- *Who will read again* (`GlobalsOwed`, `DirtyRuns`, `PairOwed`, `ConfigOwed`, `WarningsOwed`,
  `SelInv`). While nothing was reported, whatever is behind is marked, being read at its present
  clock, or announced by a frame on its way. A mark never waits without a read, and a superseded
  read has a navigation ahead that replaces or resumes it. `NoSilentStaleness` is the case where
  none of these is left.

### MaintenanceProofs: compaction loses nothing

From `Strategies` (a strategy is the included one, another, or none), `OutputCalls` (a model's
output asks for distinct calls, as the Agent demands of a settlement: `requireUniqueCallIDs` in
`src/agent/settlement.go`) and `MaintenanceBounds`
(the bounds are natural numbers, the identity of "no call" is no call), for any strategy, any
plan one may propose and any number of failures, losses and interruptions:
`MaintenanceInvariance`, and from it

- `CommittedLoads`: `Spec => []LoadsBack`, what a transaction committed a load accepts;
- `WorkIsRecorded`: `Spec => []WorkRecorded`, what providers reported is in the log once, or its
  absence is marked;
- `ConversationContinues`: `Spec => []ConversationPairs`, whichever checkpoint the conversation
  goes on from, every call has its result and every result its call, but for what is open;
- `CompactionsProgress`: `Spec => CompactionsAdvance`, an action property.

None is inductive: a checkpoint is planned from a view frozen several calls before it is
committed, and a fact travels through an execution's memory. The parts of the invariant:

- *Where the procedure is* (`RunInv`, `KindInv`, `EffectInv`): one Operation runs, the last, and
  each place says which effect is open and what the locals may hold.
- *Whose results* (`OwnInv`, `PendingInv`): a result belongs to the latest output before it, once
  for each of its calls, and so does what is pending. A cut that separates a call from its result
  is therefore visible to `CutUnsafe`.
- *What a checkpoint is* (`CheckpointInv`): its boundary is a safe cut before it, and its messages
  are entries up to there, in order, each result with the entry of its call.
- *What the conversation is* (`PairInv`): the projection from the current checkpoint pairs, with
  the open calls at its end. `LoadsBack` and `ConversationPairs` are read off these two.
- *What was frozen* (`FrozenInv`, `RequestInv`, `SummaryInv`): until the commit the log does not
  change under the procedure, so its plan is still about the conversation it was made from.
- *Where a fact is* (`FactInv`): in the log, in the procedure or in the execution, in one of them
  and once.
- *What was spent* (`CostInv`, with `CostHonest` and `TotalsMatch`): what the running Operation
  spent is in the log or carried in memory, and the register marks what only memory holds, so
  that a loss leaves the mark behind.

The weight is in three groups of lemmas: what a growing log keeps (`Held`), what a terminal
settlement does (`Terminates`), and what a committed checkpoint leaves (`Checkpoints`). `Ascending`
is recursive; that it lists its set in order is proved by induction over a set of naturals
(`Induct`, from the well-foundedness of `<`; `AscendingLists`), and everything else uses only
that. That a fact is counted once rests on counting positions (`Counting`, `OwnerFound`).

## 7. What is only model-checked

Every liveness property (fairness and `ENABLED` are out of the prover's reach here):
`StopsComplete`'s liveness half, `Settles` and the others listed in section 4. Every invariant
that the runs of Session, Effects, Jobs, Background, Reader and Maintenance check is proved.
Payload and Wire are finite tables and recursive decoders (`RECURSIVE` operators, without which
nested types cannot be told apart): what they compute for every input is beyond the prover, and
TLC enumerates every type and operation with bounded distance from good inputs instead.

## 8. What is not modelled

Planned: stages 7 and 8, that is, the residency of several Sessions, Create, Delete and Fork,
the storage backends, configuration generations and code snapshots. Left out of modules that
cover their component: a fork's copied prefix (Graph), prices and overflow (Maintenance), what
a job writes (Jobs), projections of answers beyond their shape (Wire), progress text, list
generations and the reader of an inspected child (Reader); the instance identifier of a
Runtime is the number of its process, and a workspace filter of a scope event is dropped.

Outside the project: JSON syntax and number formatting, HTTP and SSE decoding of model
providers and their stream assembly, permission precedence, the shell parser and the output
window (sequential, without state across calls), presentation in the command line, desktop and
terminal clients, self-update and doctor, the code generators. `PROJECT.json` gives the reason
for each.
