----------------------------- MODULE Background -----------------------------
(***************************************************************************)
(* The background ownership group of a root Session and of the child       *)
(* Sessions it launches (harness/background.go): member admission, claim   *)
(* and finish, the child launch with its handoff, the job start, the       *)
(* settlement of a child's completion, and Stop over a lineage.            *)
(*                                                                         *)
(* One action is one hold of a coordinator mutex, one transaction, or one  *)
(* step outside both.  The root's own execution, which the launches and    *)
(* starts are tool calls of, is left open, so a delivery into the root is  *)
(* one step (module Session has its routing); a delivery into a child is   *)
(* its steps.  A job is its coarse life (module Jobs has the service).     *)
(***************************************************************************)
EXTENDS Integers, FiniteSets

CONSTANTS
    Root,        \* the root Session
    Child,       \* the child Sessions it may launch
    Job,         \* background jobs
    Owner,       \* the Session that starts each job
    Casts,       \* instances: the members that may start, the children with a caller, whether
                 \* fairness is assumed and the Harness context may be canceled, and bounds:
                 \* direct Submits to a child, public Stop calls, failed transactions and loads
    Cap,         \* the parent's child concurrency cap
    Ops          \* Operation numbers of a child; 1 is the launch's own

Session == {Root} \cup Child
Member  == Child \cup Job

ASSUME BackgroundAssumption ==
    /\ Root \notin Child /\ Member \cap {Root} = {} /\ Child \cap Job = {}
    /\ Owner \in [Job -> Session] /\ Cap \in Nat /\ 1 \in Ops /\ Ops \subseteq Nat \ {0} /\ Job \cap Int = {}
    /\ Casts \subseteq [members : SUBSET Member, callers : SUBSET Child, fair : BOOLEAN, loses : BOOLEAN,
                       submits : Nat, stops : Nat, faults : Nat]

VARIABLES
    bg,        \* the group state of each Session
    member,    \* each member's place in its group
    ending,    \* the step of the claimed member's delivery and finish
    launch,    \* the launcher of each child
    job,       \* each job's start, process and exit callback
    current,   \* each child's durable current Operation, 0 for none
    run,       \* each child's installed execution, 0 for none
    exec,      \* the execution goroutine of each Operation of a child
    canceled,  \* the canceled executions
    buffer,    \* buffered input of a child
    reserved,  \* the holder of a child's admission reservation
    submit,    \* a caller's Submit to a child
    pending,   \* the children with a pending completion
    corrupt,   \* the children whose next load was refused, for good
    settle,    \* the taken obligation of a child
    stop,      \* the stop interval of each Session
    cast,      \* the instance
    ctx, faults, submits, stops,
    delivered, \* history: completions handed to the parent
    refused,   \* history: members whose delivery failed for good without a storage failure
    quieted    \* history: children whose stop has returned

cells == <<bg, member, ending, current, run, buffer, reserved, pending, corrupt>>
procs == <<launch, job, exec, canceled, submit, settle, stop>>
env   == <<ctx, cast, faults, submits, stops, delivered, refused, quieted>>
vars  == <<cells, procs, env>>

NoStop == [at |-> "none", todo |-> {}, joins |-> {}, runs |-> {}, hold |-> 0, on |-> Root]

Init ==
    /\ bg = [s \in Session |-> "open"]
    /\ member = [m \in Member |-> "none"] /\ ending = [m \in Member |-> "none"]
    /\ cast \in Casts
    /\ launch = [c \in Child |-> IF c \in cast.members THEN "none" ELSE "absent"]
    /\ job = [j \in Job |-> IF j \in cast.members THEN "none" ELSE "absent"]
    /\ submit = [c \in Child |-> IF c \in cast.callers THEN "idle" ELSE "absent"]
    /\ current = [c \in Child |-> 0] /\ run = [c \in Child |-> 0]
    /\ exec = [c \in Child |-> [o \in Ops |-> "none"]] /\ canceled = {}
    /\ buffer = [c \in Child |-> 0] /\ reserved = [c \in Child |-> 0]
    /\ pending = {} /\ corrupt = {} /\ settle = [c \in Child |-> "none"]
    /\ stop = [s \in Session |-> NoStop]
    /\ ctx = "live" /\ faults = 0 /\ submits = 0 /\ stops = 0
    /\ delivered = [m \in Member |-> 0] /\ refused = {} /\ quieted = {}

Parent(m)  == IF m \in Child THEN Root ELSE Owner[m]
Group(s)   == {m \in Member : Parent(m) = s /\ member[m] \in {"live", "claimed"}}
Fault      == faults < cast.faults /\ faults' = faults + 1
Free(c, o) == exec[c][o] = "none" /\ current[c] # o
NextOp(c)  == {o \in Ops \ {1} : Free(c, o) /\ \A p \in Ops \ {1} : p < o => ~Free(c, p)}
Goto(c, o, l) == exec' = [exec EXCEPT ![c][o] = l]

(* The child Sessions that exist durably. *)
Published(c) == launch[c] \notin {"absent", "none", "admitted", "failed"} \/ exec[c][1] # "none" \/ current[c] # 0
-----------------------------------------------------------------------------
(* Membership: admission, first-writer claim, finish. *)

Admits(m, cap) ==
    /\ bg[Parent(m)] = "open" /\ ctx = "live" /\ member[m] = "none"
    /\ cap > 0 => Cardinality(Group(Parent(m)) \cap Child) < cap

(* claimBackgroundMember, and what the winner does next. *)
ClaimSilent(m, next) ==   \* mutant: the winner finishes without the delivery
    IF member[m] = "live"
    THEN member' = [member EXCEPT ![m] = "claimed"] /\ ending' = [ending EXCEPT ![m] = "finish"]
    ELSE UNCHANGED <<member, ending>>
Claim(m, next) ==
    IF member[m] = "live"
    THEN member' = [member EXCEPT ![m] = "claimed"] /\ ending' = [ending EXCEPT ![m] = next]
    ELSE UNCHANGED <<member, ending>>

(* finishBackgroundMember, up to its recursive completion check. *)
FinishForgets(m) ==   \* mutant: the member is not removed from its group
    /\ ending[m] = "finish" /\ ending' = [ending EXCEPT ![m] = "ended"]
    /\ UNCHANGED <<bg, member, current, run, buffer, reserved, pending, procs, env, corrupt>>
Finish(m) ==
    /\ ending[m] = "finish"
    /\ member' = [member EXCEPT ![m] = "done"]
    /\ ending' = [ending EXCEPT ![m] = IF Parent(m) = Root THEN "ended" ELSE "check"]
    /\ UNCHANGED <<bg, current, run, buffer, reserved, pending, procs, env, corrupt>>
-----------------------------------------------------------------------------
(* deliverBackgroundCompletion: one attempt, under the claim; every failure
   of it is final, and only a storage failure is reported. *)

Delivering == {"idle", "reroute", "admit", "install", "release"}   \* in a child, whose graph it holds
Then(m, next) == ending' = [ending EXCEPT ![m] = next]
Told(m)       == delivered' = [delivered EXCEPT ![m] = @ + 1] /\ UNCHANGED <<refused, faults>>
Refused(m)    == refused' = refused \cup {m} /\ UNCHANGED <<delivered, faults>>
Fails(m)      == Refused(m) \/ (Fault /\ UNCHANGED <<delivered, refused>>)
NoAnswer      == UNCHANGED <<delivered, refused, faults>>

(* Into the root: the FIFO, the admission or the closed record, or a refused
   preparation or admission, or a closed record that lost its revision. *)
DeliverToRoot(m) ==
    /\ Parent(m) = Root /\ ending[m] = "deliver" /\ Then(m, "finish")
    /\ Told(m) \/ Fails(m)
    /\ UNCHANGED <<bg, member, current, run, buffer, reserved, pending, corrupt, procs, ctx, cast, submits, stops, quieted>>

(* A graph without residency is loaded again, and may be refused. *)
Loadable(c) ==
    /\ launch[c] = "started" /\ run[c] = 0 /\ submit[c] \in {"idle", "absent"} /\ c \notin corrupt
    /\ \A o \in Ops : exec[c][o] \in {"none", "done"}
    /\ \A j \in Job : Owner[j] = c => ending[j] \notin Delivering

(* backgroundDeliveryPriority: receivability outranks activity; an active
   child buffers, one that receives nothing more gets the closed record. *)
Receives(c) == ctx = "live" /\ bg[c] # "closed"
Active(c)   == current[c] # 0 \/ run[c] # 0
Routes(m, c, next) ==
    \/ ~Receives(c) /\ Then(m, next) /\ (Told(m) \/ Fails(m)) /\ UNCHANGED buffer
    \/ Receives(c) /\ Active(c) /\ Then(m, next) /\ Told(m) /\ buffer' = [buffer EXCEPT ![c] = @ + 1]
RoutesIdle(m, c, next) == Receives(c) /\ ~Active(c) /\ Then(m, next) /\ NoAnswer /\ UNCHANGED buffer

DeliverRoutes(m, c) ==
    /\ Parent(m) = c /\ ending[m] = "deliver"
    /\ \/ Then(m, "finish") /\ UNCHANGED buffer                       \* the child is unavailable
          /\ \/ c \in corrupt /\ Refused(m)
             \/ Loadable(c) /\ Fault /\ UNCHANGED <<delivered, refused>>
       \/ c \notin corrupt /\ (Routes(m, c, "finish") \/ RoutesIdle(m, c, "idle"))
    /\ UNCHANGED <<bg, member, current, run, reserved, pending, corrupt, procs, ctx, cast, submits, stops, quieted>>
(* deliverIdleCompletion: the reservation, the same decision under it, the
   admission through it. *)
DeliverReserves(m, c) ==
    /\ Parent(m) = c /\ ending[m] = "idle"
    /\ \/ reserved[c] = 0 /\ reserved' = [reserved EXCEPT ![c] = m] /\ Then(m, "reroute") /\ NoAnswer
       \/ reserved[c] # 0 /\ ctx # "live" /\ Then(m, "finish") /\ (Told(m) \/ Fails(m)) /\ UNCHANGED reserved
    /\ UNCHANGED <<bg, member, current, run, buffer, pending, corrupt, procs, ctx, cast, submits, stops, quieted>>
DeliverReroutes(m, c) ==
    /\ Parent(m) = c /\ ending[m] = "reroute"
    /\ Routes(m, c, "release") \/ RoutesIdle(m, c, "admit")
    /\ UNCHANGED <<bg, member, current, run, reserved, pending, corrupt, procs, ctx, cast, submits, stops, quieted>>
DeliverAdmits(m, c) ==
    /\ Parent(m) = c /\ ending[m] = "admit"
    /\ \/ ctx = "live" /\ \E n \in NextOp(c) : current' = [current EXCEPT ![c] = n]
          /\ Then(m, "install") /\ Told(m)
       \/ Then(m, "release") /\ Fails(m) /\ UNCHANGED current
    /\ UNCHANGED <<bg, member, run, buffer, reserved, pending, corrupt, procs, ctx, cast, submits, stops, quieted>>
DeliverInstalls(m, c) ==
    /\ Parent(m) = c /\ ending[m] = "install" /\ Then(m, "release")
    /\ run' = [run EXCEPT ![c] = current[c]] /\ Goto(c, current[c], "entry")
    /\ UNCHANGED <<bg, member, current, buffer, reserved, pending, corrupt, launch, job, canceled, submit, settle, stop, env>>
DeliverReleases(m, c) ==
    /\ Parent(m) = c /\ ending[m] = "release" /\ Then(m, "finish")
    /\ reserved' = [reserved EXCEPT ![c] = 0]
    /\ UNCHANGED <<bg, member, current, run, buffer, pending, corrupt, procs, env>>
-----------------------------------------------------------------------------
(* childCompletionSettled. *)

QuietWithoutMembers(c) == current[c] = 0 /\ run[c] = 0   \* mutant: live descendants are forgotten
Quiet(c) == current[c] = 0 /\ run[c] = 0 /\ Group(c) = {}

(* The decision over a pending obligation; op is the execution that ended,
   0 for a member finish. *)
Decide(c, op) ==
    \/ /\ c \notin pending /\ UNCHANGED <<pending, settle, faults>>
    \/ /\ c \in pending /\ ((c \in corrupt /\ UNCHANGED faults) \/ Fault)   \* the acquisition failed
       /\ pending' = pending \ {c} /\ settle' = [settle EXCEPT ![c] = "abandon"]
    \/ /\ c \in pending /\ op # 0 /\ op = current[c] /\ UNCHANGED faults   \* the terminal commit failed
       /\ pending' = pending \ {c} /\ settle' = [settle EXCEPT ![c] = "abandon"]
    \/ /\ c \in pending /\ c \notin corrupt /\ (op = 0 \/ op # current[c]) /\ UNCHANGED faults
       /\ IF Quiet(c) THEN pending' = pending \ {c} /\ settle' = [settle EXCEPT ![c] = "deliver"]
          ELSE UNCHANGED <<pending, settle>>

(* The check behind a member finish. *)
CheckMissing(m) == ending[m] = "check" /\ ending' = [ending EXCEPT ![m] = "ended"]
                   /\ UNCHANGED <<pending, settle, faults>>   \* mutant: only an execution settles
CheckSettles(m) == ending[m] = "check" /\ ending' = [ending EXCEPT ![m] = "ended"] /\ Decide(Parent(m), 0)
FinishChecks(m) ==
    /\ CheckSettles(m)
    /\ UNCHANGED <<bg, member, current, run, buffer, reserved, launch, job, exec, canceled, submit,
                   stop, ctx, cast, submits, stops, delivered, refused, quieted, corrupt>>

(* DeliverBackgroundCompletion's or the abandonment's claim. *)
SettleClaims(c) ==
    /\ settle[c] \in {"deliver", "abandon"}
    /\ Claim(c, IF settle[c] = "deliver" THEN "deliver" ELSE "finish")
    /\ settle' = [settle EXCEPT ![c] = "claimed"]
    /\ UNCHANGED <<bg, current, run, buffer, reserved, pending, launch, job, exec, canceled, submit, stop, env, corrupt>>
-----------------------------------------------------------------------------
(* LaunchChildSession. *)

AdmitChild(c) ==
    /\ launch[c] = "none" /\ Admits(c, Cap)
    /\ member' = [member EXCEPT ![c] = "live"] /\ launch' = [launch EXCEPT ![c] = "admitted"]
    /\ UNCHANGED <<bg, ending, current, run, buffer, reserved, pending, job, exec, canceled, submit, settle, stop, env, corrupt>>

(* The launch transaction, under the combined preparation context. *)
CommitChild(c) ==
    /\ launch[c] = "admitted"
    /\ \/ /\ ctx = "live" /\ current' = [current EXCEPT ![c] = 1]
          /\ launch' = [launch EXCEPT ![c] = "committed"] /\ UNCHANGED <<member, ending, faults>>
       \/ /\ (ctx # "live" /\ UNCHANGED faults) \/ Fault
          /\ Claim(c, "finish") /\ launch' = [launch EXCEPT ![c] = "failed"] /\ UNCHANGED current
    /\ UNCHANGED <<bg, run, buffer, reserved, pending, job, exec, canceled, submit, settle, stop,
                   ctx, cast, submits, stops, delivered, refused, quieted, corrupt>>

(* backgroundHandoffFailure. *)
HandoffHolds(m) == member[m] \in {"live", "claimed"} /\ bg[Parent(m)] = "open" /\ ctx = "live"
HandChild(c) ==
    /\ launch[c] = "committed"
    /\ launch' = [launch EXCEPT ![c] = IF HandoffHolds(c) THEN "handed" ELSE "rejected"]
    /\ UNCHANGED <<cells, job, exec, canceled, submit, settle, stop, env>>

(* The committed child is loaded and carries the completion. *)
AdoptChild(c) ==
    /\ launch[c] = "handed"
    /\ \/ pending' = pending \cup {c} /\ launch' = [launch EXCEPT ![c] = "adopted"] /\ UNCHANGED <<member, ending, faults>>
       \/ Fault /\ Claim(c, "finish") /\ launch' = [launch EXCEPT ![c] = "failed"] /\ UNCHANGED pending
    /\ UNCHANGED <<bg, current, run, buffer, reserved, job, exec, canceled, submit, settle, stop,
                   ctx, cast, submits, stops, delivered, refused, quieted, corrupt>>
StartChild(c) ==
    /\ launch[c] = "adopted"
    /\ launch' = [launch EXCEPT ![c] = "started"]
    /\ run' = [run EXCEPT ![c] = 1] /\ Goto(c, 1, "entry")
    /\ UNCHANGED <<bg, member, ending, current, buffer, reserved, pending, job, canceled, submit, settle, stop, env, corrupt>>

(* settleRejectedChildLaunch: the terminal interruption, then the member. *)
SettleRejected(c) ==
    /\ launch[c] = "rejected" /\ launch' = [launch EXCEPT ![c] = "settled"]
    /\ \/ current' = [current EXCEPT ![c] = 0] /\ UNCHANGED faults
       \/ Fault /\ UNCHANGED current
    /\ UNCHANGED <<bg, member, ending, run, buffer, reserved, pending, job, exec, canceled, submit, settle, stop,
                   ctx, cast, submits, stops, delivered, refused, quieted, corrupt>>
FinishRejected(c) ==
    /\ launch[c] = "settled" /\ launch' = [launch EXCEPT ![c] = "over"]
    /\ Claim(c, "finish")
    /\ UNCHANGED <<bg, current, run, buffer, reserved, pending, job, exec, canceled, submit, settle, stop, env, corrupt>>
-----------------------------------------------------------------------------
(* StartJob, from the tool's reservation to the exit callback. *)

Executing(s) == s = Root \/ \E o \in Ops : exec[s][o] = "running"
ReserveJob(j) ==
    /\ job[j] = "none" /\ Executing(Owner[j])
    /\ job' = [job EXCEPT ![j] = "reserved"]
    /\ UNCHANGED <<cells, launch, exec, canceled, submit, settle, stop, env>>
AdmitJob(j) ==
    /\ job[j] = "reserved"
    /\ IF Admits(j, 0)
       THEN member' = [member EXCEPT ![j] = "live"] /\ job' = [job EXCEPT ![j] = "admitted"]
       ELSE job' = [job EXCEPT ![j] = "over"] /\ UNCHANGED member
    /\ UNCHANGED <<bg, ending, current, run, buffer, reserved, pending, launch, exec, canceled, submit, settle, stop, env, corrupt>>
HandJob(j) ==
    /\ job[j] = "admitted"
    /\ IF HandoffHolds(j) THEN job' = [job EXCEPT ![j] = "handed"] /\ UNCHANGED <<member, ending>>
       ELSE Claim(j, "finish") /\ job' = [job EXCEPT ![j] = "over"]
    /\ UNCHANGED <<bg, current, run, buffer, reserved, pending, launch, exec, canceled, submit, settle, stop, env, corrupt>>

(* The spawn: a reservation a stop removed does not start. *)
Spawn(j) ==
    /\ job[j] \in {"handed", "unreserved"}
    /\ \/ job[j] = "handed" /\ job' = [job EXCEPT ![j] = "running"] /\ UNCHANGED <<member, ending>>
       \/ job' = [job EXCEPT ![j] = "over"] /\ Claim(j, "finish")
    /\ UNCHANGED <<bg, current, run, buffer, reserved, pending, launch, exec, canceled, submit, settle, stop, env, corrupt>>
JobExits(j) ==
    /\ job[j] \in {"running", "killed"} /\ job' = [job EXCEPT ![j] = "exited"]
    /\ UNCHANGED <<cells, launch, exec, canceled, submit, settle, stop, env>>
JobReports(j) ==
    /\ job[j] = "exited" /\ job' = [job EXCEPT ![j] = "over"] /\ Claim(j, "deliver")
    /\ UNCHANGED <<bg, current, run, buffer, reserved, pending, launch, exec, canceled, submit, settle, stop, env, corrupt>>
-----------------------------------------------------------------------------
(* A child's execution (execution.go), as far as the group depends on it. *)

Enter(c, o) ==
    /\ exec[c][o] = "entry"
    /\ Goto(c, o, IF bg[c] = "closed" \/ ctx # "live" THEN "over" ELSE "running")
    /\ UNCHANGED <<cells, launch, job, canceled, submit, settle, stop, env>>
(* The Engine returns; the tool call that is starting a job returns first. *)
EndRun(c, o) ==
    /\ exec[c][o] = "running"
    /\ \A j \in Job : Owner[j] = c => job[j] \notin {"reserved", "admitted", "handed", "unreserved"}
    /\ Goto(c, o, "over")
    /\ UNCHANGED <<cells, launch, job, canceled, submit, settle, stop, env>>
(* complete: a canceled contended reservation skips only the drain. *)
Reserve(c, o) ==
    /\ exec[c][o] = "over"
    /\ \/ reserved[c] = 0 /\ reserved' = [reserved EXCEPT ![c] = o]
       \/ reserved[c] # 0 /\ ctx # "live" /\ UNCHANGED reserved
    /\ Goto(c, o, "settling")
    /\ UNCHANGED <<bg, member, ending, current, run, buffer, pending, launch, job, canceled, submit, settle, stop, env, corrupt>>
CommitTerminal(c, o) ==
    /\ exec[c][o] = "settling" /\ Goto(c, o, IF reserved[c] = o THEN "drain" ELSE "retire")
    /\ \/ current' = [current EXCEPT ![c] = 0] /\ UNCHANGED faults
       \/ Fault /\ UNCHANGED current
    /\ UNCHANGED <<bg, member, ending, run, buffer, reserved, pending, launch, job, canceled, submit, settle, stop,
                   ctx, cast, submits, stops, delivered, refused, quieted, corrupt>>

(* drainBuffers: the head is admitted or dropped; an empty scan retires. *)
Drain(c, o) ==
    /\ exec[c][o] = "drain"
    /\ \/ /\ ctx # "live" \/ current[c] # 0
          /\ buffer' = [buffer EXCEPT ![c] = IF ctx # "live" THEN 0 ELSE @]
          /\ Goto(c, o, "release") /\ UNCHANGED <<run, current>>
       \/ /\ ctx = "live" /\ current[c] = 0 /\ buffer[c] = 0
          /\ run' = [run EXCEPT ![c] = IF @ = o THEN 0 ELSE @]
          /\ Goto(c, o, "release") /\ UNCHANGED <<buffer, current>>
       \/ /\ ctx = "live" /\ current[c] = 0 /\ buffer[c] > 0      \* the head's attempt fails
          /\ buffer' = [buffer EXCEPT ![c] = @ - 1] /\ UNCHANGED <<run, current, exec>>
       \/ /\ ctx = "live" /\ current[c] = 0 /\ buffer[c] > 0 /\ bg[c] # "closed"
          /\ \E n \in NextOp(c) : current' = [current EXCEPT ![c] = n]
          /\ buffer' = [buffer EXCEPT ![c] = @ - 1]
          /\ Goto(c, o, "install") /\ UNCHANGED run
    /\ UNCHANGED <<bg, member, ending, reserved, pending, launch, job, canceled, submit, settle, stop, env, corrupt>>
Install(c, o) ==
    /\ exec[c][o] = "install"
    /\ run' = [run EXCEPT ![c] = current[c]]
    /\ exec' = [exec EXCEPT ![c] = [p \in Ops |-> IF p = current[c] THEN "entry"
                                                 ELSE IF p = o THEN "release" ELSE @[p]]]
    /\ UNCHANGED <<bg, member, ending, current, buffer, reserved, pending, launch, job, canceled, submit, settle, stop, env, corrupt>>
Release(c, o) ==
    /\ exec[c][o] = "release" /\ reserved' = [reserved EXCEPT ![c] = 0] /\ Goto(c, o, "retire")
    /\ UNCHANGED <<bg, member, ending, current, run, buffer, pending, launch, job, canceled, submit, settle, stop, env, corrupt>>
Retire(c, o) ==
    /\ exec[c][o] = "retire" /\ run' = [run EXCEPT ![c] = IF @ = o THEN 0 ELSE @] /\ Goto(c, o, "tail")
    /\ UNCHANGED <<bg, member, ending, current, buffer, reserved, pending, launch, job, canceled, submit, settle, stop, env, corrupt>>
Tail(c, o) ==
    /\ exec[c][o] = "tail" /\ Goto(c, o, "close") /\ Decide(c, o)
    /\ UNCHANGED <<bg, member, ending, current, run, buffer, reserved, launch, job, canceled, submit, stop,
                   ctx, cast, submits, stops, delivered, refused, quieted, corrupt>>
(* done closes after the delivery this execution took has ended. *)
CloseDone(c, o) ==
    /\ exec[c][o] = "close"
    /\ settle[c] \notin {"deliver", "abandon"} /\ ending[c] \notin {"deliver", "finish"}
    /\ Goto(c, o, "done")
    /\ UNCHANGED <<cells, launch, job, canceled, submit, settle, stop, env>>
-----------------------------------------------------------------------------
(* A direct Submit to a child, under its admission reservation. *)
SubmitReserves(c) ==
    /\ submit[c] = "idle" /\ submits < cast.submits /\ Published(c) /\ c \notin corrupt /\ reserved[c] = 0 /\ ctx = "live"
    /\ submits' = submits + 1 /\ submit' = [submit EXCEPT ![c] = "route"]
    /\ reserved' = [reserved EXCEPT ![c] = 0 - (submits + 1)]
    /\ UNCHANGED <<bg, member, ending, current, run, buffer, pending, launch, job, exec, canceled, settle, stop,
                   ctx, cast, faults, stops, delivered, refused, quieted, corrupt>>
SubmitRoutes(c) ==
    /\ submit[c] = "route"
    /\ \/ bg[c] = "closed" /\ submit' = [submit EXCEPT ![c] = "release"] /\ UNCHANGED buffer
       \/ /\ bg[c] # "closed" /\ (current[c] # 0 \/ run[c] # 0)
          /\ buffer' = [buffer EXCEPT ![c] = @ + 1] /\ submit' = [submit EXCEPT ![c] = "release"]
       \/ /\ bg[c] # "closed" /\ current[c] = 0 /\ run[c] = 0
          /\ submit' = [submit EXCEPT ![c] = "admit"] /\ UNCHANGED buffer
    /\ UNCHANGED <<bg, member, ending, current, run, reserved, pending, launch, job, exec, canceled, settle, stop, env, corrupt>>
(* admitReserved checks the group before the preparation, not after it. *)
SubmitAdmits(c) ==
    /\ submit[c] = "admit"
    /\ \/ ctx = "live" /\ \E n \in NextOp(c) : current' = [current EXCEPT ![c] = n]
          /\ submit' = [submit EXCEPT ![c] = "install"]
       \/ submit' = [submit EXCEPT ![c] = "release"] /\ UNCHANGED current
    /\ UNCHANGED <<bg, member, ending, run, buffer, reserved, pending, launch, job, exec, canceled, settle, stop, env, corrupt>>
SubmitInstalls(c) ==
    /\ submit[c] = "install" /\ submit' = [submit EXCEPT ![c] = "release"]
    /\ run' = [run EXCEPT ![c] = current[c]] /\ Goto(c, current[c], "entry")
    /\ UNCHANGED <<bg, member, ending, current, buffer, reserved, pending, launch, job, canceled, settle, stop, env, corrupt>>
SubmitReleases(c) ==
    /\ submit[c] = "release" /\ submit' = [submit EXCEPT ![c] = "idle"]
    /\ reserved' = [reserved EXCEPT ![c] = 0]
    /\ UNCHANGED <<bg, member, ending, current, run, buffer, pending, launch, job, exec, canceled, settle, stop, env, corrupt>>
-----------------------------------------------------------------------------
(* Stop. *)

(* The first hold: a child's lineage closes for good and its buffers go; a
   root stops only over live members.  A concurrent stop joins. *)
RootStop == [at |-> "members", todo |-> Group(Root), joins |-> Group(Root), runs |-> {}, hold |-> 0, on |-> Root]
Lineage(c) == [at |-> "lineage", todo |-> Group(c), joins |-> Group(c), runs |-> {run[c]} \ {0},
               hold |-> reserved[c], on |-> Root]
Begin(s) ==
    /\ stop[s].at = "none"
    /\ IF s = Root
       THEN /\ bg' = [bg EXCEPT ![s] = "stopping"] /\ UNCHANGED buffer
            /\ stop' = [stop EXCEPT ![s] = RootStop]
       ELSE /\ bg' = [bg EXCEPT ![s] = "closed"] /\ buffer' = [buffer EXCEPT ![s] = 0]
            /\ stop' = [stop EXCEPT ![s] = Lineage(s)]
Stop(s) ==
    /\ stops < cast.stops /\ stops' = stops + 1
    /\ IF s = Root THEN Group(s) # {} ELSE Published(s) /\ s \notin corrupt
    /\ Begin(s)
    /\ UNCHANGED <<member, ending, current, run, reserved, pending, launch, job, exec, canceled, submit, settle,
                   ctx, cast, faults, submits, delivered, refused, quieted, corrupt>>

(* The parent membership covers the launch window. *)
Membership(c) == IF member[c] \in {"live", "claimed"} THEN {c} ELSE {}
StopLineage(c) ==
    /\ stop[c].at = "lineage"
    /\ stop' = [stop EXCEPT ![c] = [at |-> "hold", todo |-> @.todo, joins |-> @.joins \cup Membership(c),
                                     runs |-> @.runs, hold |-> @.hold, on |-> @.on]]
    /\ canceled' = canceled \cup ({c} \X stop[c].runs)
    /\ UNCHANGED <<cells, launch, job, exec, submit, settle, env>>

(* A captured reservation is awaited; it may have installed another run. *)
HoldIgnored(c) == TRUE   \* mutant: the captured reservation is not awaited
HoldReleased(c) == stop[c].hold = 0 \/ reserved[c] # stop[c].hold
StopHold(c) ==
    /\ stop[c].at = "hold" /\ HoldReleased(c)
    /\ LET more == IF stop[c].hold # 0 THEN {run[c]} \ {0} ELSE {}
       IN  /\ stop' = [stop EXCEPT ![c] = [at |-> "members", todo |-> @.todo, joins |-> @.joins,
                                            runs |-> @.runs \cup more, hold |-> @.hold, on |-> @.on]]
           /\ canceled' = canceled \cup ({c} \X more)
    /\ UNCHANGED <<cells, launch, job, exec, submit, settle, env>>

(* The snapshot's members, in any order.  A child not published yet has
   nothing to stop; an unavailable one cannot deliver by itself. *)
JoinChild(c) == [at |-> "child", todo |-> stop[Root].todo \ {c}, joins |-> stop[Root].joins, runs |-> {},
                 hold |-> 0, on |-> c]
StopChild(c) ==
    /\ stop[Root].at = "members" /\ c \in stop[Root].todo
    /\ \/ /\ ~Published(c)
          /\ stop' = [stop EXCEPT ![Root].todo = @ \ {c}] /\ UNCHANGED <<bg, buffer, member, ending, faults, corrupt>>
       \/ /\ Published(c) /\ c \notin corrupt /\ stop[c].at = "none" /\ UNCHANGED <<member, ending, faults, corrupt>>
          /\ bg' = [bg EXCEPT ![c] = "closed"] /\ buffer' = [buffer EXCEPT ![c] = 0]
          /\ stop' = [stop EXCEPT ![c] = Lineage(c), ![Root] = JoinChild(c)]
       \/ /\ Published(c) /\ c \notin corrupt /\ stop[c].at # "none"
          /\ stop' = [stop EXCEPT ![Root] = JoinChild(c)]
          /\ UNCHANGED <<bg, buffer, member, ending, faults, corrupt>>
       \/ /\ Published(c) /\ Claim(c, "finish")
          /\ \/ c \in corrupt /\ UNCHANGED <<corrupt, faults>>
             \/ Loadable(c) /\ Fault /\ corrupt' = corrupt \cup {c}
          /\ stop' = [stop EXCEPT ![Root].todo = @ \ {c}] /\ UNCHANGED <<bg, buffer>>
    /\ UNCHANGED <<current, run, reserved, pending, launch, job, exec, canceled, submit, settle,
                   ctx, cast, submits, stops, delivered, refused, quieted>>
ChildStopped ==
    /\ stop[Root].at = "child" /\ stop[stop[Root].on].at = "none"
    /\ stop' = [stop EXCEPT ![Root].at = "members"]
    /\ UNCHANGED <<cells, launch, job, exec, canceled, submit, settle, env>>

(* The job service's total stop: a reservation goes, a process is reaped. *)
StopJob(s, j) ==
    /\ stop[s].at = "members" /\ j \in stop[s].todo
    /\ \/ /\ job[j] \in {"admitted", "handed"} /\ job' = [job EXCEPT ![j] = IF @ = "handed" THEN "unreserved" ELSE @]
          /\ stop' = [stop EXCEPT ![s].todo = @ \ {j}]
       \/ job[j] = "running" /\ job' = [job EXCEPT ![j] = "killed"] /\ UNCHANGED stop
       \/ job[j] \in {"unreserved", "exited", "over"} /\ stop' = [stop EXCEPT ![s].todo = @ \ {j}] /\ UNCHANGED job
    /\ UNCHANGED <<cells, launch, exec, canceled, submit, settle, env>>

(* Convergence, and the end of the interval: a root reopens. *)
Converged(s) ==
    /\ \A m \in stop[s].joins : member[m] = "done"
    /\ \A o \in stop[s].runs : exec[s][o] = "done"
StopEnds(s) ==
    /\ stop[s].at = "members" /\ stop[s].todo = {} /\ Converged(s)
    /\ stop' = [stop EXCEPT ![s] = NoStop]
    /\ bg' = [bg EXCEPT ![s] = IF @ = "stopping" THEN "open" ELSE @]
    /\ quieted' = IF s = Root THEN quieted ELSE quieted \cup {s}
    /\ UNCHANGED <<member, ending, current, run, buffer, reserved, pending, launch, job, exec, canceled, submit,
                   settle, ctx, cast, faults, submits, stops, delivered, refused, corrupt>>

Lose ==
    /\ cast.loses /\ ctx = "live" /\ ctx' = "canceled"
    /\ UNCHANGED <<cells, procs, cast, faults, submits, stops, delivered, refused, quieted>>
-----------------------------------------------------------------------------
Launcher(c) == \/ CommitChild(c) \/ HandChild(c) \/ AdoptChild(c) \/ StartChild(c)
               \/ SettleRejected(c) \/ FinishRejected(c)
JobStarter(j) == AdmitJob(j) \/ HandJob(j) \/ Spawn(j) \/ JobReports(j)
DeliversInto(m, c) == \/ DeliverRoutes(m, c) \/ DeliverReserves(m, c) \/ DeliverReroutes(m, c)
                      \/ DeliverAdmits(m, c) \/ DeliverInstalls(m, c) \/ DeliverReleases(m, c)
Ending(m) == DeliverToRoot(m) \/ Finish(m) \/ FinishChecks(m) \/ \E c \in Child : DeliversInto(m, c)
Execution(c, o) ==
    \/ Enter(c, o) \/ Reserve(c, o) \/ CommitTerminal(c, o) \/ Drain(c, o) \/ Install(c, o)
    \/ Release(c, o) \/ Retire(c, o) \/ Tail(c, o) \/ CloseDone(c, o)
Submits(c) == SubmitRoutes(c) \/ SubmitAdmits(c) \/ SubmitInstalls(c) \/ SubmitReleases(c)
Stopping(s) ==
    \/ s \in Child /\ (StopLineage(s) \/ StopHold(s))
    \/ s = Root /\ (ChildStopped \/ \E c \in Child : StopChild(c))
    \/ \E j \in Job : StopJob(s, j)
    \/ StopEnds(s)

Next ==
    \/ \E c \in Child : AdmitChild(c) \/ Launcher(c) \/ SettleClaims(c) \/ SubmitReserves(c) \/ Submits(c)
    \/ \E j \in Job : ReserveJob(j) \/ JobStarter(j) \/ JobExits(j)
    \/ \E m \in Member : Ending(m)
    \/ \E c \in Child, o \in Ops : Execution(c, o) \/ EndRun(c, o)
    \/ \E s \in Session : Stop(s) \/ Stopping(s)
    \/ Lose

Spec == Init /\ [][Next]_vars

(* Some goroutine that can move does.  The work here is finite (launches,
   Submits, stops and Operations are bounded), so whoever stays able to
   move does, reserve's waiters among them, which it wakes.  A canceled
   execution returns from its Engine; any other, or a job, may go on
   forever, and so may a killed job whose exit is not reaped (module Jobs).
   (cast.fair says which instances assume it.) *)
Moves ==
    \/ \E c \in Child : Launcher(c) \/ SettleClaims(c) \/ Submits(c)
    \/ \E j \in Job : JobStarter(j)
    \/ \E m \in Member : Ending(m)
    \/ \E c \in Child, o \in Ops : Execution(c, o) \/ ((<<c, o>> \in canceled \/ ctx # "live") /\ EndRun(c, o))
    \/ \E s \in Session : Stopping(s)
FairSpec == Spec /\ WF_vars(cast.fair /\ Moves)
-----------------------------------------------------------------------------
(* Every state variable has its kind; a claimed member is being ended and
   a pending completion has a member. *)
TypeOK ==
    /\ bg \in [Session -> {"open", "stopping", "closed"}]
    /\ member \in [Member -> {"none", "live", "claimed", "done"}]
    /\ current \in [Child -> Ops \cup {0}] /\ run \in [Child -> Ops \cup {0}]
    /\ pending \subseteq Child
    /\ \A m \in Member : member[m] = "claimed" <=> ending[m] \in {"deliver", "finish"} \cup Delivering

(* The obligation is never dropped: while a launched child is terminal,
   retired and quiet with its completion still pending, an execution tail
   or a member's finish is about to settle it (childCompletionSettled's
   two triggers). *)
ObligationHeld ==
    TypeOK /\ \A c \in pending : Quiet(c) =>
        \/ launch[c] = "adopted"
        \/ \E o \in Ops : exec[c][o] \in {"retire", "release", "drain", "tail"}
        \/ \E j \in Job : Owner[j] = c /\ ending[j] = "check"

(* Whichever of a completion, a failed start, an abandonment and a stop
   wins, one attempt is made to tell the parent of a member and no second
   one: nobody is told twice, or told of what was refused; and for a child
   that ran to its end without a storage failure the attempt is never left
   out.  It may be refused for good (deliverBackgroundCompletion). *)
ToldOnce ==
    \A m \in Member :
        /\ delivered[m] <= 1 /\ (m \in refused => delivered[m] = 0)
        /\ faults = 0 /\ m \in Child /\ member[m] = "done" /\ launch[m] = "started" =>
               delivered[m] = 1 \/ m \in refused

(* A completion text describes the whole delegated work: unless somebody
   else gave the child input, from the moment the obligation is taken to
   the parent's receipt nothing of the child is left running, no job and
   no execution, in any order of their endings, and, while the Harness
   lives, none of the completions the child buffered waits to be read. *)
Reporting(c) == settle[c] = "deliver" \/ ending[c] = "deliver"
ReportsAtRest ==
    submits = 0 => \A c \in Child : Reporting(c) =>
        current[c] = 0 /\ run[c] = 0 /\ Group(c) = {} /\ (ctx = "live" => buffer[c] = 0)

(* A child whose stop has returned is at rest for good: nothing runs,
   nothing is buffered and nothing can start, whatever launch, Submit or
   drain was under way when the stop began. *)
StoppedChildRests ==
    \A c \in quieted : run[c] = 0 /\ buffer[c] = 0 /\ Group(c) = {} /\ \A o \in Ops : exec[c][o] # "running"

(* A root's stop returns only when its group is empty. *)
RootStopEmpties == [][stop[Root].at # "none" /\ stop'[Root].at = "none" => Group(Root)' = {}]_vars

(* Stop over any lineage converges: again and again no stop is under way,
   unless a job was killed and its exit is never reaped. *)
AllStopped == \A s \in Session : stop[s].at = "none"
StopsConverge == cast.fair => []<>(AllStopped \/ \E j \in Job : job[j] = "killed")
(* A stop is complete when it returns, and it returns. *)
StopsComplete == RootStopEmpties /\ StopsConverge

(* Input accepted into a child's buffers is delivered after the terminal
   commit of the Operation it waits for (Submit, drainBuffers): once the
   launch, the Submits and the stops are over, an idle open child of a
   live Harness holds none. *)
NoStrandedChildInput ==
    \A c \in Child :
        AllStopped /\ ctx = "live" /\ faults = 0 /\ submit[c] = "idle"
            /\ bg[c] = "open" /\ launch[c] = "over" /\ Quiet(c) => buffer[c] = 0
=============================================================================
