-------------------------------- MODULE Jobs --------------------------------
(***************************************************************************)
(* The background-jobs service (internal/jobs): reservations, the start    *)
(* under the capability mutex, the exit and timeout goroutines of every    *)
(* process, the user's Kill, the Harness's StopJob and the service's       *)
(* Close.  One action is one hold of the capability or the record mutex,   *)
(* or one system call or channel operation outside both.                   *)
(*                                                                         *)
(* A process may exit by itself, on SIGTERM or never; after SIGKILL to its *)
(* group it dies.  It is reaped only when nobody holds its output pipe any *)
(* more: the writers are no files and no WaitDelay is set, so cmd.Wait     *)
(* also waits for their copying goroutines.  A descendant keeps the pipe,  *)
(* and one that has left the group outlives every signal.                  *)
(* Time is abstract: a timer may fire at any moment.                       *)
(***************************************************************************)
EXTENDS Naturals, FiniteSets

CONSTANTS
    Job,      \* identities Reserve mints, each once
    Thread,   \* goroutines that call Kill, StopJob and Close
    NoJob,    \* the job of a thread that has none
    Owner,    \* the Session each job is started for
    Timed,    \* the jobs started with a timeout
    Limit     \* max_background_processes

ASSUME JobsAssumption == Timed \subseteq Job /\ Limit \in Nat \ {0} /\ NoJob \notin Job

VARIABLES
    state,    \* the record's lifecycle: absent, reserved, running, exited
    listed,   \* the identities in the job map
    closed,
    reason,   \* the first-wins exit reason
    done,     \* the reaped notification has been closed
    process,  \* the operating system's process: alive; exited, with its output pipe held in
              \* its group (lingering) or outside it (escaped); dying from SIGKILL; or dead,
              \* with the pipe closed
    exit,     \* the exit goroutine
    timer,    \* the timeout goroutine
    starter,  \* the tool call that owns the reservation
    thread,   \* the callers of Kill, StopJob and Close
    callbacks,\* history: completion callbacks invoked
    stopped   \* history: the jobs a StopJob has answered

vars == <<state, listed, closed, reason, done, process, exit, timer, starter, thread, callbacks, stopped>>

Idle == [op |-> "none", job |-> NoJob, at |-> "idle", todo |-> {}]

Init ==
    /\ state = [j \in Job |-> "absent"] /\ listed = {} /\ closed = FALSE
    /\ reason = [j \in Job |-> "none"] /\ done = {} /\ process = [j \in Job |-> "none"]
    /\ exit = [j \in Job |-> "none"] /\ timer = [j \in Job |-> "none"]
    /\ starter = [j \in Job |-> "none"] /\ thread = [t \in Thread |-> Idle]
    /\ callbacks = [j \in Job |-> 0] /\ stopped = {}

Remove(j) == listed' = listed \ {j}
Step(t, l) == thread' = [thread EXCEPT ![t].at = l]
-----------------------------------------------------------------------------
(* The tool call: reserve, start, and abort when the start failed. *)

Reserve(j) ==
    /\ starter[j] = "none"
    /\ IF closed THEN starter' = [starter EXCEPT ![j] = "failed"] /\ UNCHANGED <<state, listed>>
       ELSE /\ starter' = [starter EXCEPT ![j] = "reserved"]
            /\ state' = [state EXCEPT ![j] = "reserved"] /\ listed' = listed \cup {j}
    /\ UNCHANGED <<closed, reason, done, process, exit, timer, thread, callbacks, stopped>>

RunningOf(s) == {k \in listed : state[k] = "running" /\ Owner[k] = s}

(* Start: every check, the spawn and the running registration in one hold. *)
Startable(j) == ~closed /\ j \in listed /\ state[j] = "reserved"
StartFails(j) ==
    /\ starter[j] = "reserved"
    /\ starter' = [starter EXCEPT ![j] = "abort"]
    /\ IF Startable(j) THEN Remove(j)      \* settings, limit or spawn
       ELSE UNCHANGED listed               \* closed, or not a reservation
    /\ UNCHANGED <<state, closed, reason, done, process, exit, timer, thread, callbacks, stopped>>
AdmitsReserved(j) == starter[j] = "reserved" /\ ~closed   \* mutant: the record is not looked up
Admits(j) == starter[j] = "reserved" /\ Startable(j)
Full(s) == Cardinality(RunningOf(s)) >= Limit
StartSucceeds(j) ==
    /\ Admits(j) /\ ~Full(Owner[j])
    /\ starter' = [starter EXCEPT ![j] = "started"]
    /\ state' = [state EXCEPT ![j] = "running"] /\ process' = [process EXCEPT ![j] = "alive"]
    /\ exit' = [exit EXCEPT ![j] = "waiting"]
    /\ timer' = [timer EXCEPT ![j] = IF j \in Timed THEN "armed" ELSE "none"]
    /\ UNCHANGED <<listed, closed, reason, done, thread, callbacks, stopped>>
Abort(j) ==
    /\ starter[j] = "abort"
    /\ starter' = [starter EXCEPT ![j] = "failed"]
    /\ IF j \in listed /\ state[j] = "reserved" THEN Remove(j) ELSE UNCHANGED listed
    /\ UNCHANGED <<state, closed, reason, done, process, exit, timer, thread, callbacks, stopped>>
-----------------------------------------------------------------------------
(* The operating system. *)

(* The leader ends, or the last holder of its output pipe does: what is
   left, the group or somebody outside it, may keep the pipe open.  Who
   was killed with the group is not left. *)
Left(p) == CASE p = "alive" -> {"dead", "lingering", "escaped"} [] p = "lingering" -> {"dead", "escaped"}
             [] p = "dying" -> {"dead", "escaped"}              [] OTHER -> {"dead"}
Exits(j) ==
    /\ process[j] \in {"alive", "lingering", "dying", "escaped"}
    /\ \E p \in Left(process[j]) : process' = [process EXCEPT ![j] = p]
    /\ UNCHANGED <<state, listed, closed, reason, done, exit, timer, starter, thread, callbacks, stopped>>
Sigkill(j) == process' = [process EXCEPT ![j] = IF @ \in {"alive", "lingering"} THEN "dying" ELSE @]
-----------------------------------------------------------------------------
(* exitLoop. *)

(* The process and its output are waited for (cmd.Wait); the record is
   exited, with the first reason. *)
Reaped(j) ==
    /\ exit[j] = "waiting" /\ process[j] = "dead"
    /\ exit' = [exit EXCEPT ![j] = "reaped"]
    /\ state' = [state EXCEPT ![j] = "exited"]
    /\ \E r \in {"completed", "error"} : reason' = [reason EXCEPT ![j] = IF @ = "none" THEN r ELSE @]
    /\ UNCHANGED <<listed, closed, done, process, timer, starter, thread, callbacks, stopped>>
CloseDone(j) ==
    /\ exit[j] = "reaped"
    /\ exit' = [exit EXCEPT ![j] = "admit"] /\ done' = done \cup {j}
    /\ UNCHANGED <<state, listed, closed, reason, process, timer, starter, thread, callbacks, stopped>>
(* The callback is admitted only while the service is open. *)
CallsBackUnlessKilled(j) == ~closed /\ reason[j] # "killed"   \* mutant: a stopped job is silent
CallsBack(j) == ~closed
AdmitCallback(j) ==
    /\ exit[j] = "admit"
    /\ exit' = [exit EXCEPT ![j] = IF CallsBack(j) THEN "callback" ELSE "cleanup"]
    /\ UNCHANGED <<state, listed, closed, reason, done, process, timer, starter, thread, callbacks, stopped>>
Callback(j) ==
    /\ exit[j] = "callback"
    /\ exit' = [exit EXCEPT ![j] = "cleanup"] /\ callbacks' = [callbacks EXCEPT ![j] = @ + 1]
    /\ UNCHANGED <<state, listed, closed, reason, done, process, timer, starter, thread, stopped>>
Cleanup(j) ==
    /\ exit[j] = "cleanup"
    /\ exit' = [exit EXCEPT ![j] = "ended"] /\ Remove(j)
    /\ UNCHANGED <<state, closed, reason, done, process, timer, starter, thread, callbacks, stopped>>
-----------------------------------------------------------------------------
(* timeoutLoop. *)

(* markReason: the first reason of a record that has not exited. *)
Markable(j) == state[j] # "exited" /\ reason[j] = "none"
TimerEnds(j) ==
    /\ timer[j] \in {"armed", "grace"} /\ j \in done
    /\ timer' = [timer EXCEPT ![j] = "ended"]
    /\ UNCHANGED <<state, listed, closed, reason, done, process, exit, starter, thread, callbacks, stopped>>
TimerFires(j) ==
    /\ timer[j] = "armed"
    /\ IF Markable(j)
       THEN timer' = [timer EXCEPT ![j] = "grace"] /\ reason' = [reason EXCEPT ![j] = "timeout"]
       ELSE timer' = [timer EXCEPT ![j] = "ended"] /\ UNCHANGED reason
    /\ UNCHANGED <<state, listed, closed, done, process, exit, starter, thread, callbacks, stopped>>
TimerKills(j) ==
    /\ timer[j] = "grace"
    /\ timer' = [timer EXCEPT ![j] = "ended"] /\ Sigkill(j)
    /\ UNCHANGED <<state, listed, closed, reason, done, exit, starter, thread, callbacks, stopped>>
-----------------------------------------------------------------------------
(* Kill: an owned job that is listed and not a reservation. *)
Kill(t, j) ==
    /\ thread[t] = Idle /\ j \in listed /\ state[j] = "running"
    /\ thread' = [thread EXCEPT ![t] = [op |-> "kill", job |-> j, at |-> "mark", todo |-> {}]]
    /\ UNCHANGED <<state, listed, closed, reason, done, process, exit, timer, starter, callbacks, stopped>>
KillMarks(t) ==
    LET j == thread[t].job IN
    /\ thread[t].op = "kill" /\ thread[t].at = "mark"
    /\ reason' = [reason EXCEPT ![j] = IF Markable(j) THEN "killed" ELSE @]
    /\ Step(t, "grace")
    /\ UNCHANGED <<state, listed, closed, done, process, exit, timer, starter, callbacks, stopped>>
(* The grace ends with the reap or with SIGKILL; after that Kill waits five
   seconds and gives up. *)
KillEnds(t) ==
    LET j == thread[t].job IN
    /\ thread[t].op = "kill"
    /\ \/ thread[t].at = "grace" /\ j \in done /\ UNCHANGED process /\ thread' = [thread EXCEPT ![t] = Idle]
       \/ thread[t].at = "grace" /\ Sigkill(j) /\ Step(t, "wait")
       \/ thread[t].at = "wait" /\ UNCHANGED process /\ thread' = [thread EXCEPT ![t] = Idle]
    /\ UNCHANGED <<state, listed, closed, reason, done, exit, timer, starter, callbacks, stopped>>
-----------------------------------------------------------------------------
(* StopJob and Close converge through reapGroup: SIGTERM, a grace, SIGKILL,
   and the reap, with no second timeout. *)

(* claimKilledLocked, under the mutex that the reap needs. *)
ClaimKilled(running) ==
    reason' = [j \in Job |-> IF j \in running /\ Markable(j) THEN "killed" ELSE reason[j]]

StopJob(t, j) ==
    /\ thread[t] = Idle /\ j \in listed
    /\ IF state[j] = "running"
       THEN /\ ClaimKilled({j}) /\ UNCHANGED <<listed, stopped>>
            /\ thread' = [thread EXCEPT ![t] = [op |-> "stop", job |-> j, at |-> "grace", todo |-> {}]]
       ELSE /\ IF state[j] = "reserved" THEN Remove(j) ELSE UNCHANGED listed
            /\ stopped' = stopped \cup {j} /\ UNCHANGED <<reason, thread>>
    /\ UNCHANGED <<state, closed, done, process, exit, timer, starter, callbacks>>

Close(t) ==
    /\ thread[t] = Idle /\ ~closed
    /\ closed' = TRUE
    /\ LET running == {j \in listed : state[j] = "running"}
       IN  /\ ClaimKilled(running)
           /\ thread' = [thread EXCEPT ![t] = [op |-> "close", job |-> NoJob, at |-> "next", todo |-> running]]
    /\ UNCHANGED <<state, listed, done, process, exit, timer, starter, callbacks, stopped>>
CloseNext(t) ==
    /\ thread[t].op = "close" /\ thread[t].at = "next" /\ thread[t].todo # {}
    /\ \E j \in thread[t].todo :
           thread' = [thread EXCEPT ![t] =
               [op |-> "close", job |-> j, at |-> "grace", todo |-> @.todo \ {j}]]
    /\ UNCHANGED <<state, listed, closed, reason, done, process, exit, timer, starter, callbacks, stopped>>

NoSigkill(j) == UNCHANGED process   \* mutant: the grace is the only escalation
Escalate(j)  == Sigkill(j)
Grace(t) ==
    /\ thread[t].op \in {"stop", "close"} /\ thread[t].at = "grace"
    /\ IF thread[t].job \in done THEN UNCHANGED process ELSE Escalate(thread[t].job)
    /\ Step(t, "join")
    /\ UNCHANGED <<state, listed, closed, reason, done, exit, timer, starter, callbacks, stopped>>
Join(t) ==
    LET j == thread[t].job IN
    /\ thread[t].at = "join" /\ j \in done
    /\ IF thread[t].op = "stop"
       THEN thread' = [thread EXCEPT ![t] = Idle] /\ stopped' = stopped \cup {j}
       ELSE Step(t, "next") /\ UNCHANGED stopped
    /\ UNCHANGED <<state, listed, closed, reason, done, process, exit, timer, starter, callbacks>>

(* The work group covers every exit and timeout goroutine. *)
WorkDone == \A j \in Job : exit[j] \in {"none", "ended"} /\ timer[j] \in {"none", "ended"}
CloseWaits(t) ==
    /\ thread[t].op = "close" /\ thread[t].at = "next" /\ thread[t].todo = {} /\ WorkDone
    /\ Step(t, "sweep")
    /\ UNCHANGED <<state, listed, closed, reason, done, process, exit, timer, starter, callbacks, stopped>>
CloseSweeps(t) ==
    /\ thread[t].at = "sweep"
    /\ listed' = {j \in listed : state[j] # "reserved"} /\ Step(t, "closed")
    /\ UNCHANGED <<state, closed, reason, done, process, exit, timer, starter, callbacks, stopped>>
-----------------------------------------------------------------------------
Goroutine(j) ==
    \/ Reaped(j) \/ CloseDone(j) \/ AdmitCallback(j) \/ Callback(j) \/ Cleanup(j)
    \/ TimerEnds(j) \/ TimerFires(j) \/ TimerKills(j) \/ StartFails(j) \/ StartSucceeds(j) \/ Abort(j)
Calls(t) ==
    KillMarks(t) \/ KillEnds(t) \/ CloseNext(t) \/ Grace(t) \/ Join(t) \/ CloseWaits(t) \/ CloseSweeps(t)
Next ==
    \/ \E j \in Job : Reserve(j) \/ Exits(j) \/ Goroutine(j)
    \/ \E t \in Thread : Calls(t) \/ Close(t) \/ \E j \in Job : Kill(t, j) \/ StopJob(t, j)

Spec == Init /\ [][Next]_vars

(* Goroutines run; a killed process dies.  Nothing makes a process or an
   escaped descendant exit, and nobody has to call Kill, StopJob or Close. *)
FairSpec ==
    /\ Spec
    /\ \A j \in Job : WF_vars(Goroutine(j)) /\ WF_vars(process[j] = "dying" /\ Exits(j))
    /\ \A t \in Thread : WF_vars(Calls(t))
-----------------------------------------------------------------------------
(* The records, processes and goroutines agree: an exited record's process
   is dead, a live record has its exit goroutine. *)
TypeOK ==
    /\ state \in [Job -> {"absent", "reserved", "running", "exited"}]
    /\ reason \in [Job -> {"none", "completed", "error", "timeout", "killed"}]
    /\ process \in [Job -> {"none", "alive", "lingering", "dying", "escaped", "dead"}]
    /\ listed \subseteq Job /\ done \subseteq Job
    /\ \A j \in Job : state[j] = "running" => j \in listed /\ exit[j] = "waiting"
    /\ \A j \in Job : state[j] = "exited" => process[j] = "dead"

(* A Session never has more live processes than its limit, although starts
   of several tool calls race (Start's one hold). *)
LimitHeld == \A s \in {Owner[j] : j \in Job} :
    Cardinality({j \in Job : Owner[j] = s /\ state[j] = "running"}) <= Limit

(* A closed service is quiet: every process is dead, every goroutine has
   ended, nothing is registered and no later start can succeed. *)
QuietAfterClose ==
    (\E t \in Thread : thread[t].at = "closed") =>
        /\ listed = {}
        /\ \A j \in Job : process[j] \in {"none", "dead"} /\ exit[j] \in {"none", "ended"}

(* Every started job that has been cleaned up has reported its completion
   exactly once, unless the service closed first: the Session's background
   member is finished by nothing else. *)
ReportsOnce ==
    \A j \in Job : /\ callbacks[j] <= 1
                   /\ exit[j] = "ended" /\ ~closed => callbacks[j] = 1

(* Records, processes, limit and completion reports stay in step through
   every race of starts, exits, timers and stops. *)
Accounted == TypeOK /\ LimitHeld /\ ReportsOnce

(* A stop that answered is final: the job's process does not live on and
   does not start later, whatever the start, the exit and the timer do. *)
StopIsFinal == \A j \in stopped : process[j] \in {"none", "dead"}

(* A job a stop found running is reported as killed, or as timed out if
   that came first, never as completed, although its process may end by
   itself at the same moment. *)
StopReported ==
    \A t \in Thread : thread[t].op = "stop" => reason[thread[t].job] \in {"killed", "timeout"}

(* Stopping holds, for one job and for the service: nothing survives it,
   starts after it or is reported as something else. *)
StopsHold == StopIsFinal /\ StopReported /\ QuietAfterClose

(* Kill always returns, over any process: it abandons what it cannot reap.
   StopJob and Close wait without a bound (reapGroup), so they return, in
   any race, unless a descendant outside the group of a job they wait for
   keeps its output pipe; when that goes, they return too. *)
Calling(t) == thread[t].at \notin {"idle", "closed"}
Awaits(t, j) == thread[t].op = "close" \/ (thread[t].op = "stop" /\ thread[t].job = j)
Blocked(t) == \E j \in Job : Awaits(t, j) /\ process[j] = "escaped"
StopsReturn == \A t \in Thread : Calling(t) ~> ~Calling(t) \/ Blocked(t)
=============================================================================
