----------------------------- MODULE JobsProofs -----------------------------
(***************************************************************************)
(* Proofs about the background-jobs service of module Jobs, for any jobs,  *)
(* owners, limits and callers.  JobInv ties the record of one job to its   *)
(* process and its goroutines; CallInv says what a caller in the middle of *)
(* Kill, StopJob or Close may rely on; Bounded is the admission limit over *)
(* the running records.                                                    *)
(***************************************************************************)
EXTENDS Jobs, FiniteSetTheorems, TLAPS

JobTypes ==
    /\ state \in [Job -> {"absent", "reserved", "running", "exited"}]
    /\ reason \in [Job -> {"none", "completed", "error", "timeout", "killed"}]
    /\ process \in [Job -> {"none", "alive", "lingering", "dying", "escaped", "dead"}]
    /\ exit \in [Job -> {"none", "waiting", "reaped", "admit", "callback", "cleanup", "ended"}]
    /\ timer \in [Job -> {"none", "armed", "grace", "ended"}]
    /\ starter \in [Job -> {"none", "reserved", "started", "abort", "failed"}]
    /\ callbacks \in [Job -> Nat]
    /\ listed \subseteq Job /\ done \subseteq Job /\ stopped \subseteq Job
    /\ closed \in BOOLEAN
Call == [op : {"none", "kill", "stop", "close"}, job : Job \cup {NoJob},
         at : {"idle", "mark", "grace", "wait", "join", "next", "sweep", "closed"}, todo : SUBSET Job]
CallTypes == thread \in [Thread -> Call]

(* A record before its start: no process, no goroutine, no reason. *)
Unstarted(j) ==
    /\ process[j] = "none" /\ exit[j] = "none" /\ timer[j] = "none"
    /\ reason[j] = "none" /\ callbacks[j] = 0 /\ j \notin done
(* A running record: its exit goroutine waits, no reap has been announced. *)
Running(j) ==
    /\ starter[j] = "started" /\ j \in listed /\ exit[j] = "waiting" /\ process[j] # "none"
    /\ reason[j] \in {"none", "timeout", "killed"} /\ callbacks[j] = 0
    /\ j \notin done /\ j \notin stopped
(* An exited record: reaped, and on its way through the exit goroutine. *)
Exited(j) ==
    /\ starter[j] = "started" /\ process[j] = "dead" /\ exit[j] \notin {"none", "waiting"}
    /\ reason[j] # "none" /\ (j \in listed <=> exit[j] # "ended") /\ (j \in done <=> exit[j] # "reaped")
    /\ exit[j] \in {"reaped", "admit", "callback"} => callbacks[j] = 0
    /\ exit[j] \in {"cleanup", "ended"} => callbacks[j] = 1 \/ (callbacks[j] = 0 /\ closed)
JobInv(j) ==
    /\ starter[j] = "none" => state[j] = "absent"
    /\ starter[j] = "reserved" => state[j] = "reserved"
    /\ state[j] = "absent" => Unstarted(j) /\ j \notin listed /\ j \notin stopped
    /\ state[j] = "reserved" => Unstarted(j) /\ (j \in stopped => j \notin listed)
    /\ state[j] = "running" => Running(j)
    /\ state[j] = "exited" => Exited(j)

(* A job some call is stopping has been started and stays so. *)
Started(j) == j \in Job /\ state[j] \in {"running", "exited"}
Finished == closed /\ WorkDone
CallInv(t) ==
    /\ thread[t].op = "none" => thread[t].at = "idle"
    /\ thread[t].op = "kill" => Started(thread[t].job) /\ thread[t].at \in {"mark", "grace", "wait"}
    /\ thread[t].op = "stop" => /\ Started(thread[t].job) /\ thread[t].at \in {"grace", "join"}
                                /\ reason[thread[t].job] \in {"killed", "timeout"}
    /\ thread[t].op = "close" => closed /\ thread[t].at \in {"next", "grace", "join", "sweep", "closed"}
    /\ thread[t].at \in {"grace", "join"} => thread[t].job \in Job
    /\ thread[t].at \in {"sweep", "closed"} => Finished
    /\ thread[t].at = "closed" => listed = {}

RunningJobs(s) == {j \in Job : Owner[j] = s /\ state[j] = "running"}
Bounded == \A s \in {Owner[j] : j \in Job} : IsFiniteSet(RunningJobs(s)) /\ Cardinality(RunningJobs(s)) <= Limit

Types == JobTypes /\ CallTypes
JobsInv == Types /\ (\A j \in Job : JobInv(j)) /\ (\A t \in Thread : CallInv(t)) /\ Bounded

(* Every step of a tool call, a goroutine, a caller or the operating system
   keeps the types; a Kill marks the reason of a job that has been started. *)
LEMMA JobTypesStep == JobsInv /\ [Next]_vars => Types'
<1>. SUFFICES ASSUME JobsInv, [Next]_vars PROVE Types' OBVIOUS
<1>. USE JobsAssumption DEF JobsInv, Types, JobTypes, CallTypes, Call
<1>1. ASSUME NEW j \in Job, Reserve(j) PROVE Types'
  BY <1>1 DEF Reserve
<1>2. ASSUME NEW j \in Job, Exits(j) PROVE Types'
  BY <1>2 DEF Exits, Left
<1>3. ASSUME NEW j \in Job, Reaped(j) PROVE Types'
  BY <1>3 DEF Reaped
<1>4. ASSUME NEW j \in Job, CloseDone(j) PROVE Types'
  BY <1>4 DEF CloseDone
<1>5. ASSUME NEW j \in Job, AdmitCallback(j) PROVE Types'
  BY <1>5 DEF AdmitCallback, CallsBack
<1>6. ASSUME NEW j \in Job, Callback(j) PROVE Types'
  BY <1>6 DEF Callback
<1>7. ASSUME NEW j \in Job, Cleanup(j) PROVE Types'
  BY <1>7 DEF Cleanup, Remove
<1>8. ASSUME NEW j \in Job, TimerEnds(j) PROVE Types'
  BY <1>8 DEF TimerEnds
<1>9. ASSUME NEW j \in Job, TimerFires(j) PROVE Types'
  BY <1>9 DEF TimerFires, Markable
<1>10. ASSUME NEW j \in Job, TimerKills(j) PROVE Types'
  BY <1>10 DEF TimerKills, Sigkill
<1>11. ASSUME NEW j \in Job, StartFails(j) PROVE Types'
  BY <1>11 DEF StartFails, Startable, Remove
<1>12. ASSUME NEW j \in Job, StartSucceeds(j) PROVE Types'
  BY <1>12 DEF StartSucceeds, Admits, Startable
<1>13. ASSUME NEW j \in Job, Abort(j) PROVE Types'
  BY <1>13 DEF Abort, Remove
<1>14. ASSUME NEW t \in Thread, KillMarks(t) PROVE Types'
  <2>1. thread[t].job \in Job BY <1>14 DEF KillMarks, CallInv, Started
  <2>2. JobTypes' BY <1>14, <2>1 DEF KillMarks, Markable
  <2>3. CallTypes' BY <1>14 DEF KillMarks, Step
  <2>4. QED BY <2>2, <2>3
<1>15. ASSUME NEW t \in Thread, KillEnds(t) PROVE Types'
  BY <1>15 DEF KillEnds, Sigkill, Step, Idle
<1>16. ASSUME NEW t \in Thread, CloseNext(t) PROVE Types'
  BY <1>16 DEF CloseNext
<1>17. ASSUME NEW t \in Thread, Grace(t) PROVE Types'
  BY <1>17 DEF Grace, Escalate, Sigkill, Step
<1>18. ASSUME NEW t \in Thread, Join(t) PROVE Types'
  BY <1>18 DEF Join, Step, Idle
<1>19. ASSUME NEW t \in Thread, CloseWaits(t) PROVE Types'
  BY <1>19 DEF CloseWaits, Step, WorkDone
<1>20. ASSUME NEW t \in Thread, CloseSweeps(t) PROVE Types'
  BY <1>20 DEF CloseSweeps, Step
<1>21. ASSUME NEW t \in Thread, Close(t) PROVE Types'
  BY <1>21 DEF Close, ClaimKilled, Markable
<1>22. ASSUME NEW t \in Thread, NEW j \in Job, Kill(t, j) PROVE Types'
  BY <1>22 DEF Kill
<1>23. ASSUME NEW t \in Thread, NEW j \in Job, StopJob(t, j) PROVE Types'
  BY <1>23 DEF StopJob, ClaimKilled, Markable, Remove
<1>24. CASE UNCHANGED vars BY <1>24 DEF vars
<1>25. QED BY <1>1, <1>2, <1>3, <1>4, <1>5, <1>6, <1>7, <1>8, <1>9, <1>10, <1>11, <1>12, <1>13, <1>14, <1>15, <1>16, <1>17, <1>18, <1>19, <1>20, <1>21, <1>22, <1>23, <1>24 DEF Next, Goroutine, Calls

(* Every step keeps each record in step with its process and goroutines: a
   start, a reap and a stop move them together under the record's mutex. *)
LEMMA JobRecordsStep == JobsInv /\ [Next]_vars => \A j \in Job : JobInv(j)'
<1>. SUFFICES ASSUME JobsInv, [Next]_vars, NEW i \in Job PROVE JobInv(i)' OBVIOUS
<1>. USE JobsAssumption DEF JobsInv, Types, JobTypes, JobInv, Unstarted, Running, Exited
<1>1. ASSUME NEW j \in Job, Reserve(j) PROVE JobInv(i)'
  BY <1>1 DEF Reserve
<1>2. ASSUME NEW j \in Job, Exits(j) PROVE JobInv(i)'
  BY <1>2 DEF Exits, Left
<1>3. ASSUME NEW j \in Job, Reaped(j) PROVE JobInv(i)'
  BY <1>3 DEF Reaped
<1>4. ASSUME NEW j \in Job, CloseDone(j) PROVE JobInv(i)'
  BY <1>4 DEF CloseDone
<1>5. ASSUME NEW j \in Job, AdmitCallback(j) PROVE JobInv(i)'
  BY <1>5 DEF AdmitCallback, CallsBack
<1>6. ASSUME NEW j \in Job, Callback(j) PROVE JobInv(i)'
  BY <1>6 DEF Callback
<1>7. ASSUME NEW j \in Job, Cleanup(j) PROVE JobInv(i)'
  BY <1>7 DEF Cleanup, Remove
<1>8. ASSUME NEW j \in Job, TimerEnds(j) PROVE JobInv(i)'
  BY <1>8 DEF TimerEnds
<1>9. ASSUME NEW j \in Job, TimerFires(j) PROVE JobInv(i)'
  BY <1>9 DEF TimerFires, Markable
<1>10. ASSUME NEW j \in Job, TimerKills(j) PROVE JobInv(i)'
  BY <1>10 DEF TimerKills, Sigkill
<1>11. ASSUME NEW j \in Job, StartFails(j) PROVE JobInv(i)'
  BY <1>11 DEF StartFails, Startable, Remove
<1>12. ASSUME NEW j \in Job, StartSucceeds(j) PROVE JobInv(i)'
  BY <1>12 DEF StartSucceeds, Admits, Startable
<1>13. ASSUME NEW j \in Job, Abort(j) PROVE JobInv(i)'
  BY <1>13 DEF Abort, Remove
<1>14. ASSUME NEW t \in Thread, KillMarks(t) PROVE JobInv(i)'
  <2>1. Started(thread[t].job) BY <1>14 DEF KillMarks, CallInv
  <2>2. QED BY <1>14, <2>1 DEF KillMarks, Markable, Started
<1>15. ASSUME NEW t \in Thread, KillEnds(t) PROVE JobInv(i)'
  BY <1>15 DEF KillEnds, Sigkill, Step, Idle
<1>16. ASSUME NEW t \in Thread, CloseNext(t) PROVE JobInv(i)'
  BY <1>16 DEF CloseNext
<1>17. ASSUME NEW t \in Thread, Grace(t) PROVE JobInv(i)'
  BY <1>17 DEF Grace, Escalate, Sigkill, Step
<1>18. ASSUME NEW t \in Thread, Join(t) PROVE JobInv(i)'
  BY <1>18 DEF Join, Step, Idle
<1>19. ASSUME NEW t \in Thread, CloseWaits(t) PROVE JobInv(i)'
  BY <1>19 DEF CloseWaits, Step, WorkDone
<1>20. ASSUME NEW t \in Thread, CloseSweeps(t) PROVE JobInv(i)'
  BY <1>20 DEF CloseSweeps, Step
<1>21. ASSUME NEW t \in Thread, Close(t) PROVE JobInv(i)'
  BY <1>21 DEF Close, ClaimKilled, Markable
<1>22. ASSUME NEW t \in Thread, NEW j \in Job, Kill(t, j) PROVE JobInv(i)'
  BY <1>22 DEF Kill
<1>23. ASSUME NEW t \in Thread, NEW j \in Job, StopJob(t, j) PROVE JobInv(i)'
  BY <1>23 DEF StopJob, ClaimKilled, Markable, Remove
<1>24. CASE UNCHANGED vars BY <1>24 DEF vars
<1>25. QED BY <1>1, <1>2, <1>3, <1>4, <1>5, <1>6, <1>7, <1>8, <1>9, <1>10, <1>11, <1>12, <1>13, <1>14, <1>15, <1>16, <1>17, <1>18, <1>19, <1>20, <1>21, <1>22, <1>23, <1>24 DEF Next, Goroutine, Calls

(* Every step keeps what a Kill, a StopJob or a Close in progress relies on:
   the first reason is never replaced, and a closed service admits nothing. *)
LEMMA JobCallsStep == JobsInv /\ [Next]_vars => \A t \in Thread : CallInv(t)'
<1>. SUFFICES ASSUME JobsInv, [Next]_vars, NEW u \in Thread PROVE CallInv(u)' OBVIOUS
<1>. USE JobsAssumption DEF JobsInv, Types, JobTypes, CallTypes, Call, JobInv, Unstarted, Running,
       Exited, CallInv, Started, Finished, WorkDone
<1>1. ASSUME NEW j \in Job, Reserve(j) PROVE CallInv(u)'
  BY <1>1 DEF Reserve
<1>2. ASSUME NEW j \in Job, Exits(j) PROVE CallInv(u)'
  BY <1>2 DEF Exits, Left
<1>3. ASSUME NEW j \in Job, Reaped(j) PROVE CallInv(u)'
  BY <1>3 DEF Reaped
<1>4. ASSUME NEW j \in Job, CloseDone(j) PROVE CallInv(u)'
  BY <1>4 DEF CloseDone
<1>5. ASSUME NEW j \in Job, AdmitCallback(j) PROVE CallInv(u)'
  BY <1>5 DEF AdmitCallback, CallsBack
<1>6. ASSUME NEW j \in Job, Callback(j) PROVE CallInv(u)'
  BY <1>6 DEF Callback
<1>7. ASSUME NEW j \in Job, Cleanup(j) PROVE CallInv(u)'
  BY <1>7 DEF Cleanup, Remove
<1>8. ASSUME NEW j \in Job, TimerEnds(j) PROVE CallInv(u)'
  BY <1>8 DEF TimerEnds
<1>9. ASSUME NEW j \in Job, TimerFires(j) PROVE CallInv(u)'
  BY <1>9 DEF TimerFires, Markable
<1>10. ASSUME NEW j \in Job, TimerKills(j) PROVE CallInv(u)'
  BY <1>10 DEF TimerKills, Sigkill
<1>11. ASSUME NEW j \in Job, StartFails(j) PROVE CallInv(u)'
  BY <1>11 DEF StartFails, Startable, Remove
<1>12. ASSUME NEW j \in Job, StartSucceeds(j) PROVE CallInv(u)'
  BY <1>12 DEF StartSucceeds, Admits, Startable
<1>13. ASSUME NEW j \in Job, Abort(j) PROVE CallInv(u)'
  BY <1>13 DEF Abort, Remove
<1>14. ASSUME NEW t \in Thread, KillMarks(t) PROVE CallInv(u)'
  BY <1>14 DEF KillMarks, Markable, Step
<1>15. ASSUME NEW t \in Thread, KillEnds(t) PROVE CallInv(u)'
  BY <1>15 DEF KillEnds, Sigkill, Step, Idle
<1>16. ASSUME NEW t \in Thread, CloseNext(t) PROVE CallInv(u)'
  BY <1>16 DEF CloseNext
<1>17. ASSUME NEW t \in Thread, Grace(t) PROVE CallInv(u)'
  BY <1>17 DEF Grace, Escalate, Sigkill, Step
<1>18. ASSUME NEW t \in Thread, Join(t) PROVE CallInv(u)'
  BY <1>18 DEF Join, Step, Idle
<1>19. ASSUME NEW t \in Thread, CloseWaits(t) PROVE CallInv(u)'
  BY <1>19 DEF CloseWaits, Step, WorkDone
<1>20. ASSUME NEW t \in Thread, CloseSweeps(t) PROVE CallInv(u)'
  BY <1>20 DEF CloseSweeps, Step
<1>21. ASSUME NEW t \in Thread, Close(t) PROVE CallInv(u)'
  BY <1>21 DEF Close, ClaimKilled, Markable
<1>22. ASSUME NEW t \in Thread, NEW j \in Job, Kill(t, j) PROVE CallInv(u)'
  BY <1>22 DEF Kill
<1>23. ASSUME NEW t \in Thread, NEW j \in Job, StopJob(t, j) PROVE CallInv(u)'
  BY <1>23 DEF StopJob, ClaimKilled, Markable, Remove
<1>24. CASE UNCHANGED vars BY <1>24 DEF vars
<1>25. QED BY <1>1, <1>2, <1>3, <1>4, <1>5, <1>6, <1>7, <1>8, <1>9, <1>10, <1>11, <1>12, <1>13, <1>14, <1>15, <1>16, <1>17, <1>18, <1>19, <1>20, <1>21, <1>22, <1>23, <1>24 DEF Next, Goroutine, Calls

(* The records that StartSucceeds counts are all the running ones. *)
LEMMA RunningIsListed == JobsInv => \A s : RunningJobs(s) = RunningOf(s)
BY DEF JobsInv, JobInv, Running, Types, JobTypes, RunningJobs, RunningOf

(* Fewer running records of an owner keep its limit. *)
LEMMA RunningShrinks ==
  ASSUME JobsInv, NEW s \in {Owner[j] : j \in Job}, RunningJobs(s)' \subseteq RunningJobs(s)
  PROVE  IsFiniteSet(RunningJobs(s)') /\ Cardinality(RunningJobs(s)') <= Limit
<1>1. IsFiniteSet(RunningJobs(s)) /\ Cardinality(RunningJobs(s)) <= Limit BY DEF JobsInv, Bounded
<1>2. IsFiniteSet(RunningJobs(s)') /\ Cardinality(RunningJobs(s)') <= Cardinality(RunningJobs(s))
  BY <1>1, FS_Subset
<1>3. Cardinality(RunningJobs(s)) \in Nat /\ Cardinality(RunningJobs(s)') \in Nat
  BY <1>1, <1>2, FS_CardinalityType
<1>4. QED BY <1>1, <1>2, <1>3, JobsAssumption

(* Start's one hold: the count it checks is the count it raises. *)
LEMMA BoundedStep == JobsInv /\ [Next]_vars => Bounded'
<1>. SUFFICES ASSUME JobsInv, [Next]_vars, NEW s \in {Owner[j] : j \in Job}
             PROVE  IsFiniteSet(RunningJobs(s)') /\ Cardinality(RunningJobs(s)') <= Limit
  BY DEF Bounded
<1>1. ASSUME NEW j \in Job, StartSucceeds(j), Owner[j] = s
      PROVE  IsFiniteSet(RunningJobs(s)') /\ Cardinality(RunningJobs(s)') <= Limit
  <2>1. RunningJobs(s)' = RunningJobs(s) \cup {j} /\ j \notin RunningJobs(s)
    BY <1>1 DEF StartSucceeds, Admits, Startable, RunningJobs, JobsInv, Types, JobTypes
  <2>2. ~ (Cardinality(RunningJobs(s)) >= Limit)
    BY <1>1, RunningIsListed DEF StartSucceeds, Full
  <2>3. IsFiniteSet(RunningJobs(s)) BY DEF JobsInv, Bounded
  <2>4. /\ IsFiniteSet(RunningJobs(s)')
        /\ Cardinality(RunningJobs(s)') = Cardinality(RunningJobs(s)) + 1
    BY <2>1, <2>3, FS_AddElement
  <2>5. Cardinality(RunningJobs(s)) \in Nat BY <2>3, FS_CardinalityType
  <2>6. QED BY <2>2, <2>4, <2>5, JobsAssumption
<1>2. CASE \E j \in Job : StartSucceeds(j) /\ Owner[j] = s BY <1>1, <1>2
<1>3. CASE ~ \E j \in Job : StartSucceeds(j) /\ Owner[j] = s
  <2>1. RunningJobs(s)' \subseteq RunningJobs(s)
    <3>. SUFFICES ASSUME NEW i \in Job, Owner[i] = s, state'[i] = "running", state[i] # "running"
                 PROVE  FALSE
      BY DEF RunningJobs
    <3>. USE DEF JobsInv, Types, JobTypes
    <3>1. ASSUME NEW j \in Job, Reserve(j) PROVE FALSE BY <3>1 DEF Reserve
    <3>2. ASSUME NEW j \in Job, Reaped(j) PROVE FALSE BY <3>2 DEF Reaped
    <3>3. ASSUME NEW j \in Job, StartSucceeds(j) PROVE FALSE BY <1>3, <3>3 DEF StartSucceeds
    <3>4. CASE UNCHANGED state BY <3>4
    <3>5. QED
      BY <3>1, <3>2, <3>3, <3>4 DEF Next, Goroutine, Calls, Exits, CloseDone, AdmitCallback, Callback,
           Cleanup, TimerEnds, TimerFires, TimerKills, StartFails, Abort, KillMarks, KillEnds,
           CloseNext, Grace, Join, CloseWaits, CloseSweeps, Close, Kill, StopJob, vars
  <2>2. QED BY <2>1, RunningShrinks
<1>4. QED BY <1>2, <1>3

(* An empty service. *)
LEMMA JobsInit == Init => JobsInv
<1>. SUFFICES ASSUME Init PROVE JobsInv OBVIOUS
<1>. USE JobsAssumption DEF Init
<1>1. Types BY DEF Types, JobTypes, CallTypes, Call, Idle
<1>2. \A j \in Job : JobInv(j) BY DEF JobInv, Unstarted
<1>3. \A t \in Thread : CallInv(t) BY DEF CallInv, Idle
<1>4. Bounded
  <2>1. \A s : RunningJobs(s) = {} BY DEF RunningJobs
  <2>2. QED BY <2>1, FS_EmptySet DEF Bounded
<1>5. QED BY <1>1, <1>2, <1>3, <1>4 DEF JobsInv

(* The inductive invariant holds in every reachable state. *)
THEOREM JobsInvariance == Spec => []JobsInv
<1>1. Init => JobsInv BY JobsInit
<1>2. JobsInv /\ [Next]_vars => JobsInv'
  BY JobTypesStep, JobRecordsStep, JobCallsStep, BoundedStep DEF JobsInv
<1>3. QED BY <1>1, <1>2, PTL DEF Spec

(* Records, processes, the limit of every Session and the completion
   reports stay in step through every race of starts, exits, timers and
   stops, for any number of jobs. *)
THEOREM JobsAccounted == Spec => []Accounted
<1>1. JobsInv => Accounted
  <2>. SUFFICES ASSUME JobsInv PROVE Accounted OBVIOUS
  <2>. USE DEF JobsInv, Types, JobTypes, JobInv, Running, Exited, Unstarted
  <2>1. TypeOK BY DEF TypeOK
  <2>2. LimitHeld BY DEF LimitHeld, Bounded, RunningJobs
  <2>3. ReportsOnce BY DEF ReportsOnce
  <2>4. QED BY <2>1, <2>2, <2>3 DEF Accounted
<1>2. QED BY <1>1, JobsInvariance, PTL

(* A stop that answered is final, a stopped job is reported as stopped, and
   a closed service is quiet, for any number of concurrent callers. *)
THEOREM StopsAreFinal == Spec => []StopsHold
<1>1. JobsInv => StopsHold
  <2>. SUFFICES ASSUME JobsInv PROVE StopsHold OBVIOUS
  <2>. USE DEF JobsInv, Types, JobTypes, JobInv, Running, Exited, Unstarted
  <2>1. StopIsFinal BY DEF StopIsFinal
  <2>2. StopReported BY DEF StopReported, CallInv
  <2>3. QuietAfterClose BY DEF QuietAfterClose, CallInv, Finished, WorkDone
  <2>4. QED BY <2>1, <2>2, <2>3 DEF StopsHold
<1>2. QED BY <1>1, JobsInvariance, PTL
=============================================================================
