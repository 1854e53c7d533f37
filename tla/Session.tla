------------------------------ MODULE Session ------------------------------
(***************************************************************************)
(* One Session's coordinator (harness/harness.go, harness/execution.go and  *)
(* the delivery half of harness/background.go): the admission reservation,  *)
(* the steering and queued FIFOs, the single execution slot, the lifecycle  *)
(* gate, interruption, background-completion delivery, Harness loss, and    *)
(* process loss with quiescent recovery.                                    *)
(*                                                                         *)
(* Granularity.  One action is one hold of the coordinator mutex c.mu, one  *)
(* storage transaction, or one step outside both; a goroutine may be        *)
(* preempted between any two actions.  An execution is named by the         *)
(* Operation it runs, and an Operation by its caller-supplied identity.     *)
(* What an execution does between its entry and its outcome is abstracted   *)
(* to the outcome here; module Effects refines it.                          *)
(***************************************************************************)
EXTENDS Naturals, Sequences, FiniteSets, Functions

CONSTANTS
    Caller,      \* goroutines that call the public Harness API
    Op,          \* Operation identities
    Completion,  \* the identities in Op reserved for background completions
    NoOp,        \* the empty identity
    NoThread,    \* no reservation holder
    Events,      \* the environment events a run enables, a subset of Event
    MaxBuffer,   \* bound on the buffered items (model checking)
    MaxRev,      \* bound on caller-driven register rewrites (model checking)
    MaxFaults    \* bound on failed storage transactions (model checking)

Thread == Caller \cup Op
Event  == {"compact", "interrupt", "stop", "lifecycle", "background", "loss", "crash"}

ASSUME SessionAssumption ==
    /\ Completion \subseteq Op
    /\ Caller \cap Op = {}
    /\ NoOp \notin Thread
    /\ NoThread \notin Thread
    /\ Events \subseteq Event
    /\ MaxBuffer \in Nat
    /\ MaxRev \in Nat
    /\ MaxFaults \in Nat

VARIABLES
    \* durable registers and entries
    lifecycle,   \* Session register: lifecycle
    current,     \* Session register: current Operation
    rev,         \* Session register: revision
    status,      \* Operation registers
    signals,     \* committed background_completion signal entries
    \* coordinator, under c.mu
    graph,       \* the resident view of the registers
    reserved,    \* holder of the one admission reservation
    steering, queued,
    run,         \* the installed execution
    interruptOp, \* the interrupt marker
    members,     \* live background members, by completion identity
    claimed,     \* the members whose ending has been claimed
    bgState,     \* "closed" by a child stop
    \* goroutines
    pc, item, seen,
    prep,        \* threads that own an unreleased preparation reservation
    canceled,    \* executions whose own context has been canceled
    outcome,     \* what each execution proposes to settle
    \* process
    ctx,         \* the Harness context; "down" from a process loss to the end of recovery
    waiter,      \* what Wait is joining
    faults,      \* failed transactions so far
    \* history, read by properties only
    started,     \* Operations whose execution has ever started
    interrupted  \* Operations an Interrupt found current

durableVars == <<lifecycle, current, rev, status, signals>>
fifoVars    == <<steering, queued>>
bgVars      == <<members, claimed, bgState>>
threadVars  == <<pc, item, seen, prep>>
processVars == <<ctx, waiter, faults>>
historyVars == <<started, interrupted>>
vars == <<durableVars, graph, reserved, fifoVars, run, interruptOp, bgVars,
          threadVars, canceled, outcome, processVars, historyVars>>

Terminal == {"success", "failure", "interruption"}
Status   == {"absent", "running"} \cup Terminal
-----------------------------------------------------------------------------
(* The resident graph: the Session record it holds and the Operations it
   knows. *)
View(l, c, r, k) == [lifecycle |-> l, current |-> c, rev |-> r, known |-> k]

(* The graph a validated load publishes. *)
Loaded == View(lifecycle, current, rev, {o \in Op : status[o] # "absent"})

Init ==
    /\ lifecycle = "open" /\ current = NoOp /\ rev = 0
    /\ status = [o \in Op |-> "absent"] /\ signals = {}
    /\ graph = View("open", NoOp, 0, {})
    /\ reserved = NoThread /\ steering = <<>> /\ queued = <<>>
    /\ run = NoOp /\ interruptOp = NoOp
    /\ members = {} /\ claimed = {} /\ bgState = "open"
    /\ pc = [t \in Thread |-> IF t \in Caller THEN "idle" ELSE "none"]
    /\ item = [t \in Thread |-> NoOp] /\ seen = [t \in Thread |-> 0]
    /\ prep = {} /\ canceled = {} /\ outcome = [o \in Op |-> "none"]
    /\ ctx = "live" /\ waiter = [at |-> "idle", on |-> NoThread, run |-> NoOp]
    /\ faults = 0 /\ started = {} /\ interrupted = {}

Gone          == lifecycle = "deleted"   \* c.gone is set in the hold of the deletion's commit
Closed        == bgState = "closed"
Goto(t, l)    == pc' = [pc EXCEPT ![t] = l]
Empty         == steering = <<>> /\ queued = <<>>
Active        == graph.current # NoOp \/ run # NoOp
QuiescentByRegister == graph.current = NoOp /\ Empty /\ members = {}   \* mutant: an unretired run is forgotten
Quiescent     == ~Active /\ Empty /\ members = {}
ExecDone(o)   == o \in canceled \/ ctx = "canceled"   \* execCtx is a child of the Harness context
Fault         == faults < MaxFaults /\ faults' = faults + 1
HeadIs(f, o)  == f # <<>> /\ Head(f) = o

(* dropBufferedLocked: remove the selected head from whichever FIFO still
   holds it. *)
DropBuffered(o) ==
    /\ steering' = IF HeadIs(steering, o) THEN Tail(steering) ELSE steering
    /\ queued'   = IF ~HeadIs(steering, o) /\ HeadIs(queued, o) THEN Tail(queued) ELSE queued

Buffered       == Range(steering) \cup Range(queued)
BufferRoom     == Len(steering) + Len(queued) < MaxBuffer
DiscardBuffers == steering' = <<>> /\ queued' = <<>>
-----------------------------------------------------------------------------
(* The reservation. *)

(* reserve: a waiter proceeds when the slot is free; it never queues in a
   defined order. *)
Reserve(t, from, to) ==
    /\ pc[t] = from /\ reserved = NoThread
    /\ reserved' = t
    /\ Goto(t, to)

(* A caller whose own context ended before the routing gate publishes
   nothing. *)
CallerGivesUp(t) ==
    /\ pc[t] = "route"
    /\ Goto(t, "release")
    /\ UNCHANGED <<durableVars, graph, reserved, fifoVars, run, interruptOp, bgVars,
                   item, seen, prep, canceled, outcome, processVars, historyVars>>

AfterRelease(t) == IF t \in Op THEN "retire"
                   ELSE IF item[t] \in Completion THEN "finish" ELSE "idle"

(* releaseReservation, the deferred release of every reservation holder. *)
Release(t) ==
    /\ pc[t] = "release" /\ reserved = t
    /\ reserved' = NoThread
    /\ Goto(t, AfterRelease(t))
    /\ item' = [item EXCEPT ![t] = IF AfterRelease(t) = "finish" THEN @ ELSE NoOp]
    /\ UNCHANGED <<durableVars, graph, fifoVars, run, interruptOp, bgVars,
                   seen, prep, canceled, outcome, processVars, historyVars>>
-----------------------------------------------------------------------------
(* Submit. *)
SubmitReserve(t, o) ==
    /\ o \in Op \ Completion /\ ctx = "live"
    /\ Reserve(t, "idle", "route")
    /\ item' = [item EXCEPT ![t] = o]
    /\ UNCHANGED <<durableVars, graph, fifoVars, run, interruptOp, bgVars,
                   seen, prep, canceled, outcome, processVars, historyVars>>

SubmitRefused(o) == \/ Gone \/ o \in graph.known \/ graph.lifecycle # "open"
                    \/ Closed \/ ctx = "canceled"

(* The routing decision, taken under the reservation: an existing or
   refused submission publishes nothing, an active Session buffers by mode,
   an idle one admits through the held reservation. *)
SubmitRoute(t, mode) ==
    /\ pc[t] = "route"
    /\ \/ /\ SubmitRefused(item[t])
          /\ Goto(t, "release") /\ UNCHANGED fifoVars
       \/ /\ ~SubmitRefused(item[t]) /\ Active /\ BufferRoom
          /\ \/ mode = "regular" /\ steering' = Append(steering, item[t]) /\ UNCHANGED queued
             \/ mode = "queued"  /\ queued' = Append(queued, item[t]) /\ UNCHANGED steering
          /\ Goto(t, "release")
       \/ /\ ~SubmitRefused(item[t]) /\ ~Active
          /\ Goto(t, "admit") /\ UNCHANGED fifoVars
    /\ UNCHANGED <<durableVars, graph, reserved, run, interruptOp, bgVars,
                   item, seen, prep, canceled, outcome, processVars, historyVars>>
-----------------------------------------------------------------------------
(* Compact: the idle guard runs before the reservation and again under it. *)
CompactIdle(o) == ~Gone /\ o \notin graph.known /\ ~Active /\ Empty

CompactReserve(t, o) ==
    /\ "compact" \in Events
    /\ o \in Op \ Completion /\ CompactIdle(o)
    /\ Reserve(t, "idle", "compactRoute")
    /\ item' = [item EXCEPT ![t] = o]
    /\ UNCHANGED <<durableVars, graph, fifoVars, run, interruptOp, bgVars,
                   seen, prep, canceled, outcome, processVars, historyVars>>

CompactRoute(t) ==
    /\ pc[t] = "compactRoute"
    /\ Goto(t, IF CompactIdle(item[t]) THEN "admit" ELSE "release")
    /\ UNCHANGED <<durableVars, graph, reserved, fifoVars, run, interruptOp, bgVars,
                   item, seen, prep, canceled, outcome, processVars, historyVars>>
-----------------------------------------------------------------------------
(* admitReserved, shared by Submit, Compact, the idle completion delivery
   and the drain.  A failed admission of a drain leaves its item to Drop. *)
AdmitRefused(t) == \/ Gone \/ item[t] \in graph.known \/ graph.lifecycle # "open"
                   \/ Closed \/ graph.current # NoOp

Refusal(t) == IF t \in Op THEN "drop" ELSE "release"

AdmitNext(t) == IF AdmitRefused(t) THEN Refusal(t) ELSE "prepare"

AdmitGuard(t) ==
    /\ pc[t] = "admit"
    /\ Goto(t, AdmitNext(t))
    /\ seen' = [seen EXCEPT ![t] = graph.rev]
    /\ UNCHANGED <<durableVars, graph, reserved, fifoVars, run, interruptOp, bgVars,
                   item, prep, canceled, outcome, processVars, historyVars>>

(* prepareExecution runs outside every lock.  It may fail, and a
   cancellation seen before or after it discards what it reserved. *)
Prepare(t) ==
    /\ pc[t] = "prepare"
    /\ \/ ctx = "live" /\ prep' = prep \cup {t} /\ Goto(t, "publish")
       \/ UNCHANGED prep /\ Goto(t, Refusal(t))
    /\ UNCHANGED <<durableVars, graph, reserved, fifoVars, run, interruptOp, bgVars,
                   item, seen, canceled, outcome, processVars, historyVars>>

(* releasePrepared, for a publication that adopts nothing. *)
ReleasePrepared(t) == prep' = prep \ {t}

(* produceAdmission: the running Operation and the Session's current
   Operation commit in one transaction. *)
ProduceAdmission(o) ==
    /\ status' = [status EXCEPT ![o] = "running"]
    /\ current' = o /\ rev' = rev + 1

(* publishAdmission's transaction: commit, a concurrent change of the
   register (the stale view is reloaded), or an aborted transaction. *)
Publish(t) ==
    /\ pc[t] = "publish"
    /\ \/ /\ ctx = "live" /\ rev = seen[t] /\ status[item[t]] = "absent"
          /\ ProduceAdmission(item[t])
          /\ seen' = [seen EXCEPT ![t] = rev + 1]
          /\ Goto(t, "adopt")
          /\ UNCHANGED <<graph, prep, faults>>
       \/ /\ rev # seen[t] \/ status[item[t]] # "absent"
          /\ graph' = IF Gone THEN graph ELSE Loaded
          /\ ReleasePrepared(t) /\ Goto(t, Refusal(t))
          /\ UNCHANGED <<status, current, rev, seen, faults>>
       \/ /\ IF ctx = "live" THEN Fault ELSE UNCHANGED faults
          /\ ReleasePrepared(t) /\ Goto(t, Refusal(t))
          /\ UNCHANGED <<status, current, rev, seen, graph>>
    /\ UNCHANGED <<lifecycle, signals, reserved, fifoVars, run, interruptOp, bgVars,
                   item, canceled, outcome, ctx, waiter, historyVars>>

(* The committed admission is adopted by a later hold of c.mu, which also
   removes a drain's selected head. *)
Adopt(t) ==
    /\ pc[t] = "adopt"
    /\ graph' = View("open", item[t], seen[t], graph.known \cup {item[t]})
    /\ IF t \in Op THEN DropBuffered(item[t]) ELSE UNCHANGED fifoVars
    /\ Goto(t, "install")
    /\ UNCHANGED <<durableVars, reserved, run, interruptOp, bgVars,
                   item, seen, prep, canceled, outcome, processVars, historyVars>>

(* startExecution: the run slot and the preparation reservation pass to the
   new execution before the admission reservation is released. *)
Install(t) ==
    /\ pc[t] = "install"
    /\ run' = item[t]
    /\ pc' = [x \in Thread |-> IF x = t THEN "release" ELSE IF x = item[t] THEN "spawned" ELSE pc[x]]
    /\ prep' = (prep \ {t}) \cup {item[t]}
    /\ started' = started \cup {item[t]}
    /\ seen' = [seen EXCEPT ![t] = 0]
    /\ UNCHANGED <<durableVars, graph, reserved, fifoVars, interruptOp, bgVars,
                   item, canceled, outcome, processVars, interrupted>>
-----------------------------------------------------------------------------
(* The execution goroutine, runExecution. *)

(* execute's entry guard consumes a marker that names this execution. *)
Enter(o) ==
    /\ pc[o] = "spawned"
    /\ IF Closed \/ interruptOp = o \/ ctx = "canceled"
       THEN Goto(o, "complete") /\ outcome' = [outcome EXCEPT ![o] = "interruption"]
       ELSE Goto(o, "running") /\ UNCHANGED outcome
    /\ interruptOp' = IF interruptOp = o THEN NoOp ELSE interruptOp
    /\ UNCHANGED <<durableVars, graph, reserved, fifoVars, run, bgVars,
                   item, seen, prep, canceled, processVars, historyVars>>

(* The Engine returns: a success (the steering boundary included), a
   failure, an interruption seen at a cancellation checkpoint, or a failed
   publication whose durable running state is left for recovery. *)
PublicationFails ==
    \/ Fault /\ UNCHANGED graph
    \/ graph.rev # rev /\ graph' = Loaded /\ UNCHANGED faults

Work(o) ==
    /\ pc[o] = "running"
    /\ \E r \in {"success", "failure", "interruption", "unpublished"} :
          /\ r = "interruption" => ExecDone(o)
          /\ IF r = "unpublished" THEN PublicationFails ELSE UNCHANGED <<graph, faults>>
          /\ outcome' = [outcome EXCEPT ![o] = r]
    /\ Goto(o, "complete")
    /\ UNCHANGED <<durableVars, reserved, fifoVars, run, interruptOp, bgVars,
                   item, seen, prep, canceled, ctx, waiter, historyVars>>

(* The shared success guard of commitEffectResult and commitCheckpoint: a
   prospective success becomes an interruption when an Interrupt, a closure
   or a cancellation won the hold. *)

Guarded(o, r) == IF r = "success" /\ (ExecDone(o) \/ interruptOp = o \/ Closed)
                 THEN "interruption" ELSE r

(* commitTerminalSettlement: the terminal Operation and the cleared current
   Operation commit in one transaction, adopted in the same hold. *)
CommitTerminalKeepingCurrent(o, r) ==   \* mutant: the current Operation is not cleared
    /\ status' = [status EXCEPT ![o] = r]
    /\ UNCHANGED current /\ rev' = rev + 1
    /\ graph' = View(graph.lifecycle, graph.current, rev + 1, graph.known)

CommitTerminal(o, r) ==
    /\ status' = [status EXCEPT ![o] = r]
    /\ current' = NoOp /\ rev' = rev + 1
    /\ graph' = View(graph.lifecycle, NoOp, rev + 1, graph.known)

(* An effect of the running execution settles the Operation itself: a model
   failure or interruption, or a manual compaction's checkpoint. *)
EffectTerminal(o) ==
    /\ pc[o] = "running" /\ graph.rev = rev
    /\ \E r \in Terminal :
          /\ r = "interruption" => ExecDone(o)
          /\ CommitTerminal(o, Guarded(o, r))
          /\ outcome' = [outcome EXCEPT ![o] = r]
    /\ Goto(o, "complete")
    /\ UNCHANGED <<lifecycle, signals, reserved, fifoVars, run, interruptOp, bgVars,
                   item, seen, prep, canceled, processVars, historyVars>>

(* complete acquires the reservation; only a contended acquisition under
   Harness loss proceeds without it. *)
CompleteReserve(o) ==
    /\ \/ Reserve(o, "complete", "settle")
       \/ /\ pc[o] = "complete" /\ reserved # NoThread /\ ctx = "canceled"
          /\ Goto(o, "settle") /\ UNCHANGED reserved
    /\ UNCHANGED <<durableVars, graph, fifoVars, run, interruptOp, bgVars,
                   item, seen, prep, canceled, outcome, processVars, historyVars>>

(* settleTerminal through publishQuiet: an already settled Operation and a
   failed publication are preserved; otherwise the outcome publishes at
   most once.  A revision race reloads the view and leaves the Operation to
   recovery, like any failed publication.  The opened execution then closes
   and its preparation reservation is released, before the drain. *)
PreservedAlways(o) == outcome[o] # "failure"           \* mutant: only failures publish here
Preserved(o) == outcome[o] = "unpublished" \/ status[o] # "running"

Settle(o) ==
    /\ pc[o] = "settle"
    /\ \/ Preserved(o) /\ UNCHANGED <<status, current, rev, graph, faults>>
       \/ /\ ~Preserved(o) /\ graph.rev = rev
          /\ CommitTerminal(o, Guarded(o, outcome[o])) /\ UNCHANGED faults
       \/ /\ ~Preserved(o) /\ graph.rev # rev
          /\ graph' = Loaded /\ UNCHANGED <<status, current, rev, faults>>
       \/ /\ ~Preserved(o) /\ Fault
          /\ UNCHANGED <<status, current, rev, graph>>
    /\ prep' = prep \ {o}
    /\ Goto(o, IF reserved = o THEN "drain" ELSE "retire")
    /\ UNCHANGED <<lifecycle, signals, reserved, fifoVars, run, interruptOp, bgVars,
                   item, seen, canceled, outcome, ctx, waiter, historyVars>>

(* An empty scan retires this run's slot in the scan's own hold. *)
EmptyScanRetiresLater(o) == UNCHANGED run   \* mutant: retirement is left to the tail
EmptyScan(o) == run' = IF run = o THEN NoOp ELSE run

(* drainBuffers, one scan: Harness loss discards, an unsettled Operation
   ends the drain, an empty scan retires this run in the same hold, and
   otherwise the steering head, then the queued head, is selected. *)
Drain(o) ==
    /\ pc[o] = "drain"
    /\ \/ /\ ctx = "canceled"
          /\ DiscardBuffers /\ Goto(o, "release") /\ UNCHANGED <<run, item>>
       \/ /\ ctx = "live" /\ graph.current # NoOp
          /\ Goto(o, "release") /\ UNCHANGED <<fifoVars, run, item>>
       \/ /\ ctx = "live" /\ graph.current = NoOp /\ Empty
          /\ EmptyScan(o)
          /\ Goto(o, "release") /\ UNCHANGED <<fifoVars, item>>
       \/ /\ ctx = "live" /\ graph.current = NoOp /\ ~Empty
          /\ item' = [item EXCEPT ![o] = Head(IF steering # <<>> THEN steering ELSE queued)]
          /\ Goto(o, "admit") /\ UNCHANGED <<fifoVars, run>>
    /\ UNCHANGED <<durableVars, graph, reserved, interruptOp, bgVars,
                   seen, prep, canceled, outcome, processVars, historyVars>>

(* One failed delivery attempt is final for the selected item. *)
Drop(o) ==
    /\ pc[o] = "drop"
    /\ DropBuffered(item[o])
    /\ Goto(o, "drain")
    /\ UNCHANGED <<durableVars, graph, reserved, run, interruptOp, bgVars,
                   item, seen, prep, canceled, outcome, processVars, historyVars>>

(* Retirement clears only this execution's own slot. *)
RetirementByDrain(o) == UNCHANGED run   \* mutant: the tail trusts the drain to have retired it
Retirement(o) == run' = IF run = o THEN NoOp ELSE run

Retire(o) ==
    /\ pc[o] = "retire"
    /\ Retirement(o)
    /\ canceled' = canceled \cup {o}   \* the context dies only after the drain
    /\ Goto(o, "done")
    /\ UNCHANGED <<durableVars, graph, reserved, fifoVars, interruptOp, bgVars,
                   item, seen, prep, outcome, processVars, historyVars>>
-----------------------------------------------------------------------------
(* Interrupt: the marker and the captured run under c.mu, the cancel after. *)
InterruptCall(t) ==
    /\ "interrupt" \in Events
    /\ pc[t] = "idle" /\ ~Gone /\ graph.current # NoOp
    /\ interruptOp' = graph.current
    /\ interrupted' = interrupted \cup {graph.current}
    /\ item' = [item EXCEPT ![t] = run]
    /\ Goto(t, "cancel")
    /\ UNCHANGED <<durableVars, graph, reserved, fifoVars, run, bgVars,
                   seen, prep, canceled, outcome, processVars, started>>

CancelLatestRun(t) == {run} \ {NoOp}      \* mutant: the slot is read again, after the unlock
CancelAnyRun(t)    == {item[t]}            \* mutant: an empty slot is canceled too
CanceledRun(t)     == {item[t]} \ {NoOp}

Cancel(t) ==
    /\ pc[t] = "cancel"
    /\ canceled' = canceled \cup CanceledRun(t)
    /\ item' = [item EXCEPT ![t] = NoOp]
    /\ Goto(t, "idle")
    /\ UNCHANGED <<durableVars, graph, reserved, fifoVars, run, interruptOp, bgVars,
                   seen, prep, outcome, processVars, historyVars>>

(* stopCoordinator on a child: the permanent closure discards the buffers
   and captures the run to cancel.  The waits of a stop are in module
   Background. *)
StopCall(t) ==
    /\ "stop" \in Events
    /\ pc[t] = "idle" /\ ~Gone
    /\ bgState' = "closed"
    /\ DiscardBuffers
    /\ item' = [item EXCEPT ![t] = run]
    /\ Goto(t, "cancel")
    /\ UNCHANGED <<durableVars, graph, reserved, run, interruptOp, members, claimed,
                   seen, prep, canceled, outcome, processVars, historyVars>>
-----------------------------------------------------------------------------
(* Session lifecycle.  Every transition waits for a free reservation and
   holds c.mu across its transaction and adoption. *)
LifecycleIdle == "lifecycle" \in Events /\ ctx # "down" /\ reserved = NoThread /\ ~Gone

(* Only a view that is still the durable one commits; a stale one reloads. *)
Rewrite(l) ==
    /\ rev < MaxRev
    /\ IF graph.rev = rev
       THEN /\ lifecycle' = l /\ rev' = rev + 1
            /\ graph' = View(l, graph.current, rev + 1, graph.known)
       ELSE graph' = Loaded /\ UNCHANGED <<lifecycle, rev>>
    /\ UNCHANGED <<current, status, signals, reserved, fifoVars, run, interruptOp, bgVars,
                   threadVars, canceled, outcome, processVars, historyVars>>

ChangeAgentType == LifecycleIdle /\ graph.lifecycle = "open" /\ Rewrite("open")

ReopenSession == LifecycleIdle /\ graph.lifecycle = "archived" /\ Rewrite("open")

ArchiveSession == LifecycleIdle /\ Quiescent /\ graph.lifecycle = "open" /\ Rewrite("archived")

(* The committed deletion and the invalidation of the cell. *)
Invalidate ==
    /\ lifecycle' = "deleted"
    /\ DiscardBuffers
    /\ UNCHANGED <<current, rev, status, signals, graph, reserved, run, interruptOp, bgVars,
                   threadVars, canceled, outcome, processVars, historyVars>>

DeleteSession == LifecycleIdle /\ graph.lifecycle = "archived" /\ graph.rev = rev /\ Invalidate

(* sweepOne never waits, decides on the durable register, and applies at
   most one transition past its threshold. *)
SweepSession ==
    /\ LifecycleIdle /\ Quiescent
    /\ \/ /\ lifecycle = "open" /\ current = NoOp /\ rev < MaxRev
          /\ lifecycle' = "archived" /\ rev' = rev + 1
          /\ graph' = View("archived", NoOp, rev + 1, graph.known)
          /\ UNCHANGED <<current, status, signals, reserved, fifoVars, run, interruptOp, bgVars,
                         threadVars, canceled, outcome, processVars, historyVars>>
       \/ lifecycle = "archived" /\ Invalidate
-----------------------------------------------------------------------------
(* Background members and the delivery of their completions. *)

(* admitBackgroundMember through StartJob. *)
StartMember(m) ==
    /\ "background" \in Events
    /\ ctx # "down" /\ ~Gone /\ graph.lifecycle = "open" /\ ctx = "live" /\ ~Closed
    /\ m \notin members /\ m \notin graph.known /\ m \notin signals
    /\ \A t \in Thread : item[t] # m
    /\ m \notin claimed
    /\ members' = members \cup {m}
    /\ UNCHANGED <<durableVars, graph, reserved, fifoVars, run, interruptOp, claimed, bgState,
                   threadVars, canceled, outcome, processVars, historyVars>>

Claimable(m) == m \in members \ claimed

(* DeliverBackgroundCompletion's first-writer claim. *)
DeliverClaim(t, m) ==
    /\ pc[t] = "idle" /\ Claimable(m)
    /\ claimed' = claimed \cup {m}
    /\ item' = [item EXCEPT ![t] = m]
    /\ Goto(t, "deliver")
    /\ UNCHANGED <<durableVars, graph, reserved, fifoVars, run, interruptOp, members, bgState,
                   seen, prep, canceled, outcome, processVars, historyVars>>

(* backgroundDeliveryPriority: receivability outranks activity, and an
   active Session's steering item is enqueued under the same hold, with no
   reservation. *)
Unreceivable == ctx = "canceled" \/ graph.lifecycle # "open" \/ Closed

DeliveryPriority(t, steered, idle) ==
    \/ Unreceivable /\ Goto(t, "signal") /\ UNCHANGED fifoVars
    \/ /\ ~Unreceivable /\ Active
       /\ steering' = Append(steering, item[t]) /\ UNCHANGED queued
       /\ Goto(t, steered)
    \/ ~Unreceivable /\ ~Active /\ Goto(t, idle) /\ UNCHANGED fifoVars

DeliverRoute(t) ==
    /\ pc[t] = "deliver"
    /\ IF Gone THEN Goto(t, "finish") /\ UNCHANGED fifoVars
               ELSE DeliveryPriority(t, "finish", "deliverWait")
    /\ UNCHANGED <<durableVars, graph, reserved, run, interruptOp, bgVars,
                   item, seen, prep, canceled, outcome, processVars, historyVars>>

(* deliverIdleCompletion: a failed reservation takes the closed path. *)
DeliverReserve(t) ==
    /\ \/ Reserve(t, "deliverWait", "deliverRoute")
       \/ /\ pc[t] = "deliverWait" /\ reserved # NoThread /\ ctx = "canceled"
          /\ Goto(t, "signal") /\ UNCHANGED reserved
    /\ UNCHANGED <<durableVars, graph, fifoVars, run, interruptOp, bgVars,
                   item, seen, prep, canceled, outcome, processVars, historyVars>>

DeliverReroute(t) ==
    /\ pc[t] = "deliverRoute"
    /\ DeliveryPriority(t, "release", "admit")
    /\ UNCHANGED <<durableVars, graph, reserved, run, interruptOp, bgVars,
                   item, seen, prep, canceled, outcome, processVars, historyVars>>

(* deliverClosedCompletion: one transaction under c.mu.  A stale view is
   reloaded and the delivery is not retried. *)
DeliverSignal(t) ==
    /\ pc[t] = "signal"
    /\ \/ /\ graph.rev = rev
          /\ signals' = signals \cup {item[t]}
          /\ rev' = rev + 1 /\ graph' = View(lifecycle, current, rev + 1, graph.known)
          /\ UNCHANGED faults
       \/ graph.rev # rev /\ graph' = Loaded /\ UNCHANGED <<signals, rev, faults>>
       \/ Fault /\ UNCHANGED <<signals, rev, graph>>
    /\ Goto(t, IF reserved = t THEN "release" ELSE "finish")
    /\ UNCHANGED <<lifecycle, current, status, reserved, fifoVars, run, interruptOp, bgVars,
                   item, seen, prep, canceled, outcome, ctx, waiter, historyVars>>

(* finishBackgroundMember, after the delivery attempt and its release. *)
DeliverFinish(t) ==
    /\ pc[t] = "finish"
    /\ members' = members \ {item[t]}
    /\ item' = [item EXCEPT ![t] = NoOp]
    /\ Goto(t, "idle")
    /\ UNCHANGED <<durableVars, graph, reserved, fifoVars, run, interruptOp, claimed, bgState,
                   seen, prep, canceled, outcome, processVars, historyVars>>
-----------------------------------------------------------------------------
(* Harness loss and Wait. *)
CancelHarness ==
    /\ "loss" \in Events
    /\ ctx = "live" /\ ctx' = "canceled"
    /\ UNCHANGED <<durableVars, graph, reserved, fifoVars, run, interruptOp, bgVars,
                   threadVars, canceled, outcome, waiter, faults, historyVars>>

(* Wait's first scan captures the reservation and the run it will join. *)
WaitScan ==
    /\ ctx = "canceled" /\ waiter.at = "idle"
    /\ waiter' = [at |-> "joining", on |-> reserved, run |-> run]
    /\ UNCHANGED <<durableVars, graph, reserved, fifoVars, run, interruptOp, bgVars,
                   threadVars, canceled, outcome, ctx, faults, historyVars>>

WaitBusyOnAdmission == reserved # NoThread     \* mutant: a run the join published is missed
WaitBusy == reserved # NoThread \/ run # NoOp

(* Its second scan, after the joins, discards the buffers and converges
   only when nothing is busy. *)
WaitRescan ==
    /\ waiter.at = "joining"
    /\ waiter.on # NoThread => reserved # waiter.on
    /\ waiter.run # NoOp => pc[waiter.run] = "done"
    /\ DiscardBuffers
    /\ waiter' = [at |-> IF WaitBusy THEN "idle" ELSE "converged",
                  on |-> NoThread, run |-> NoOp]
    /\ UNCHANGED <<durableVars, graph, reserved, run, interruptOp, bgVars,
                   threadVars, canceled, outcome, ctx, faults, historyVars>>

(* Process loss drops everything but the durable registers and entries. *)
Crash ==
    /\ "crash" \in Events
    /\ ctx # "down" /\ ctx' = "down"
    /\ reserved' = NoThread /\ DiscardBuffers /\ run' = NoOp /\ interruptOp' = NoOp
    /\ members' = {} /\ claimed' = {} /\ bgState' = "open"
    /\ pc' = [t \in Thread |-> IF t \in Caller THEN "down" ELSE "none"]
    /\ item' = [t \in Thread |-> NoOp] /\ seen' = [t \in Thread |-> 0]
    /\ prep' = {} /\ canceled' = {} /\ outcome' = [o \in Op |-> "none"]
    /\ waiter' = [at |-> "idle", on |-> NoThread, run |-> NoOp]
    /\ UNCHANGED <<durableVars, graph, faults, historyVars>>

RecoverableLive(o)  == status[o] = "running"        \* mutant: recovery beside a live Harness
Recoverable(o)      == ctx = "down" /\ status[o] = "running"

(* recoverRunningOperation, before the new Harness exists. *)
Recover(o) ==
    /\ lifecycle # "deleted" /\ Recoverable(o)
    /\ CommitTerminal(o, "interruption")
    /\ UNCHANGED <<lifecycle, signals, reserved, fifoVars, run, interruptOp, bgVars,
                   threadVars, canceled, outcome, processVars, historyVars>>

Restart ==
    /\ ctx = "down" /\ (\A o \in Op : status[o] # "running" \/ lifecycle = "deleted")
    /\ ctx' = "live" /\ graph' = Loaded
    /\ pc' = [t \in Thread |-> IF t \in Caller THEN "idle" ELSE "none"]
    /\ UNCHANGED <<durableVars, reserved, fifoVars, run, interruptOp, bgVars,
                   item, seen, prep, canceled, outcome, waiter, faults, historyVars>>
-----------------------------------------------------------------------------
CallerCall(t) ==
    \/ \E o \in Op : SubmitReserve(t, o) \/ CompactReserve(t, o) \/ DeliverClaim(t, o)
    \/ InterruptCall(t) \/ StopCall(t)

CallerProgress(t) ==
    \/ CallerGivesUp(t) \/ (\E mode \in {"regular", "queued"} : SubmitRoute(t, mode))
    \/ CompactRoute(t) \/ Cancel(t)
    \/ DeliverRoute(t) \/ DeliverReserve(t) \/ DeliverReroute(t)
    \/ DeliverSignal(t) \/ DeliverFinish(t)

AdmissionStep(t) ==
    AdmitGuard(t) \/ Prepare(t) \/ Publish(t) \/ Adopt(t) \/ Install(t) \/ Release(t)

ExecutionStep(o) ==
    \/ Enter(o) \/ Work(o) \/ EffectTerminal(o) \/ CompleteReserve(o) \/ Settle(o)
    \/ Drain(o) \/ Drop(o) \/ Retire(o)

LifecycleStep ==
    ChangeAgentType \/ ReopenSession \/ ArchiveSession \/ DeleteSession \/ SweepSession

ProcessStep ==
    CancelHarness \/ WaitScan \/ WaitRescan \/ Crash \/ Restart \/ \E o \in Op : Recover(o)

Next ==
    \/ \E t \in Caller : CallerCall(t) \/ CallerProgress(t)
    \/ \E t \in Thread : AdmissionStep(t)
    \/ \E o \in Op : ExecutionStep(o)
    \/ \E m \in Completion : StartMember(m)
    \/ LifecycleStep
    \/ ProcessStep

Spec == Init /\ [][Next]_vars

(* A started goroutine keeps being scheduled and its callbacks return (WF).
   A released reservation wakes every waiter, so one that is free again and
   again is eventually won (SF).  Nobody has to call, stop or crash. *)
Fairness ==
    /\ \A o \in Op : WF_vars(ExecutionStep(o)) /\ SF_vars(CompleteReserve(o))
    /\ \A t \in Thread : WF_vars(AdmissionStep(t))
    /\ \A t \in Caller : WF_vars(CallerProgress(t)) /\ SF_vars(DeliverReserve(t))
    /\ WF_vars(WaitScan) /\ WF_vars(WaitRescan)
    /\ WF_vars(Restart) /\ WF_vars(\E o \in Op : Recover(o))

FairSpec == Spec /\ Fairness
-----------------------------------------------------------------------------
Pc == {"idle", "down", "route", "compactRoute", "cancel", "deliver", "deliverWait",
       "deliverRoute", "signal", "finish", "admit", "prepare", "publish", "adopt", "install",
       "release", "none", "spawned", "running", "complete", "settle", "drain", "drop",
       "retire", "done"}

DurableType ==
    /\ lifecycle \in {"open", "archived", "deleted"}
    /\ current \in Op \cup {NoOp} /\ rev \in Nat
    /\ status \in [Op -> Status] /\ signals \subseteq Completion

CoordinatorType ==
    /\ graph \in [lifecycle : {"open", "archived", "deleted"}, current : Op \cup {NoOp},
                   rev : Nat, known : SUBSET Op]
    /\ reserved \in Thread \cup {NoThread}
    /\ steering \in Seq(Op) /\ queued \in Seq(Op)
    /\ run \in Op \cup {NoOp} /\ interruptOp \in Op \cup {NoOp}
    /\ members \subseteq Completion /\ claimed \subseteq Completion
    /\ bgState \in {"open", "closed"}

ThreadType ==
    /\ pc \in [Thread -> Pc]
    /\ item \in [Thread -> Op \cup {NoOp}] /\ seen \in [Thread -> Nat]
    /\ prep \subseteq Thread /\ canceled \subseteq Op
    /\ outcome \in [Op -> {"none", "unpublished"} \cup Terminal]

ProcessType ==
    /\ ctx \in {"live", "canceled", "down"}
    /\ waiter \in [at : {"idle", "joining", "converged"}, on : Thread \cup {NoThread},
                    run : Op \cup {NoOp}]
    /\ faults \in Nat
    /\ started \subseteq Op /\ interrupted \subseteq Op

(* Every register, coordinator field and goroutine state of harness.go's
   coordinator has its type. *)
TypeOK == DurableType /\ CoordinatorType /\ ThreadType /\ ProcessType

(* The Session register names exactly the Operations whose own register is
   running: publishAdmission and commitTerminalSettlement move the two
   registers together, through races, failed transactions and process loss,
   so recovery can find every Operation it has to settle. *)
CurrentIsRunning == \A o \in Op : status[o] = "running" <=> current = o

(* An execution that may still run effects owns the register's current
   Operation, so no two ever do: neither a drain, nor a caller, nor
   recovery admits or settles beneath a live one. *)
Live(o) == pc[o] \in {"spawned", "running"}
SingleExecution == \A o \in Op : Live(o) => current = o

(* Input accepted into a FIFO by Submit or by a background completion never
   waits for a drain that is already over: an execution that still has its
   drainBuffers scan ahead of it exists, or an unsettled Operation stays
   behind a failed publication. *)
DrainAhead ==
    \/ \E o \in Op : pc[o] \in {"spawned", "running", "complete", "settle", "drain", "drop",
                                "admit", "prepare", "publish"}
    \/ \E t \in Thread : pc[t] \in {"adopt", "install"}
NoStrandedInput == (ctx = "live" /\ ~Empty) => DrainAhead \/ current # NoOp

(* No lifecycle transition crosses busy state: an archived or deleted
   Session has no current Operation, no execution or admission that could
   still publish, no buffered input and no live background member. *)
ArchivedIsQuiet ==
    lifecycle # "open" =>
        /\ current = NoOp /\ Empty /\ members = {} /\ run = NoOp
        /\ \A o \in Op : ~Live(o)
        /\ \A t \in Thread : pc[t] \notin {"prepare", "publish", "adopt", "install"}

(* A preparation reservation is always owned by an admission that is still
   in progress or by an execution that has yet to dispose of it: no discard
   path of admitReserved leaks one. *)
PreparationsReleased ==
    \A t \in prep : \/ pc[t] \in {"publish", "adopt", "install"} /\ reserved = t
                    \/ t \in Op /\ pc[t] \in {"spawned", "running", "complete", "settle"}

(* A background completion reaches the parent once: never both as a signal
   entry (deliverClosedCompletion) and as an admitted Operation. *)
CompletionOnce == \A m \in signals : status[m] = "absent" /\ m \notin Buffered
(* What the coordinator accepted, from a caller or from a member that has
   ended, it delivers: it is neither left in a FIFO nor delivered twice. *)
InputDelivered == NoStrandedInput /\ CompletionOnce

(* Once Wait has returned, no execution can still publish, nothing that was
   prepared is unreleased, and no input stays buffered. *)
WaitJoinsAll ==
    waiter.at = "converged" => prep = {} /\ Empty /\ \A o \in Op : ~Live(o)
(* What an admission prepared is released on every path, and a Wait that
   has returned found it so: neither a discard nor the join leaves work. *)
JoinsAndReleases == PreparationsReleased /\ WaitJoinsAll

(* An Operation's register only ever goes from absent to running to one
   terminal status, recovery after process loss included. *)
StatusStep ==
    \A o \in Op : status'[o] # status[o] =>
        \/ status[o] = "absent"  /\ status'[o] = "running"
        \/ status[o] = "running" /\ status'[o] \in Terminal
TerminalIsFinal == [][StatusStep]_vars

(* startExecution runs an Operation's effects at most once, even across
   duplicate submissions, buffered duplicates and a restart. *)
StartedOnce ==
    [][\A t \in Thread : (pc[t] = "install" /\ pc'[t] = "release") => item[t] \notin started]_vars

(* The run slot passes from an execution only to the successor its own
   drain admitted; every other installation finds it free. *)
RunSlotHandoff ==
    [][run' \notin {run, NoOp} => run = NoOp \/ (reserved = run /\ pc[run] = "install")]_vars

(* The run slot is released only after the terminal settlement of its
   Operation (harness.go:394), as long as no storage transaction fails. *)
ReleasedAfterSettlement ==
    [][(run # NoOp /\ run' # run /\ ctx' # "down") => status[run] \in Terminal \/ faults > 0]_vars

(* An Operation that was current when Interrupt set its marker never
   commits a success afterwards, wherever its execution was. *)
InterruptWins ==
    [][\A o \in interrupted : status[o] = "running" => status'[o] # "success"]_vars

(* An Interrupt ends only the Operation it found current: an interruption
   of any other needs a closure, a Harness loss or a process loss, so the
   late cancel of a captured run never reaches its successor. *)
InterruptHitsItsTarget ==
    [][\A o \in Op : (status[o] = "running" /\ status'[o] = "interruption") =>
          o \in interrupted \/ Closed \/ ctx # "live"]_vars
(* The run slot, the marker and the captured cancel are three pieces of
   state read at different moments; together they let an Operation run
   once, hand the slot on only to its successor, and let an Interrupt end
   just what it found. *)
RunSlotOwned == StartedOnce /\ RunSlotHandoff /\ InterruptWins /\ InterruptHitsItsTarget

(* Every admitted Operation is eventually settled when no publication
   fails. *)
EveryOperationSettles == \A o \in Op : status[o] = "running" ~> status[o] # "running"

(* Every buffered input eventually leaves the FIFOs: admitted, refused as
   final, or discarded by a closure or a loss. *)
BufferedInputResolves == \A o \in Op : o \in Buffered ~> o \notin Buffered
(* Whatever was accepted comes to an end, wherever it waits. *)
InputResolves == EveryOperationSettles /\ BufferedInputResolves

(* After a Harness loss Wait eventually returns. *)
WaitReturns == ctx = "canceled" ~> (waiter.at = "converged" \/ ctx = "down")
=============================================================================
