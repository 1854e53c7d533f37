-------------------------- MODULE CoordinatorProofs --------------------------
(***************************************************************************)
(* More proofs about the coordinator of module Session: who holds the       *)
(* reservation and the run slot, what an admission prepared, where an input *)
(* waits, what a background completion has become, and which Operation an   *)
(* interruption may end.  They rest on the registers' invariant of          *)
(* SessionProofs; CoordinatorInv is the conjunction of the parts below.     *)
(***************************************************************************)
EXTENDS SessionProofs

(* The places at which a goroutine holds the one reservation. *)
HolderPc == {"route", "compactRoute", "deliverRoute", "admit", "prepare", "publish", "adopt",
             "install", "release", "drain", "drop"}
AdmissionPc == {"admit", "prepare", "publish", "adopt", "install"}
(* The places at which an execution owns the run slot before its drain ends. *)
SlotPc == {"spawned", "running", "complete", "settle", "drain", "drop"} \cup AdmissionPc

(* Only the contended settlement of a lost Harness goes on without it. *)
HoldInv ==
    /\ \A t \in Thread : pc[t] \in HolderPc => reserved = t
    /\ \A o \in Op : pc[o] = "settle" /\ reserved # o => ctx = "canceled"

(* An admission past prepareExecution owns what it prepared. *)
PrepInv ==
    /\ PreparationsReleased
    /\ \A t \in Thread : pc[t] \in {"publish", "adopt", "install"} => t \in prep

(* The slot belongs to the execution that still has its drain ahead, and no
   caller admits while it is taken; an execution that leaves the drain with
   the slot has left its own Operation current. *)
RunInv ==
    /\ \A o \in Op : pc[o] \in SlotPc => run = o
    /\ \A t \in Caller : pc[t] \in AdmissionPc => run = NoOp
    /\ run # NoOp => /\ pc[run] \in SlotPc \cup {"release", "retire"}
                     /\ current \in {run, NoOp} \/ pc[run] \in {"adopt", "install"}
                     /\ pc[run] \in {"release", "retire"} /\ ctx = "live" => current = run

(* What the resident view may be wrong about: it may miss an admission that
   is not adopted yet, and a deletion, which invalidates the cell instead. *)
ViewInv ==
    /\ graph.current # NoOp => current = graph.current
    /\ graph.lifecycle = lifecycle \/ (lifecycle = "deleted" /\ graph.lifecycle = "archived")
    /\ ctx # "down" => \A o \in Op : status[o] # "absent" =>
           o \in graph.known \/ \E t \in Thread : pc[t] = "adopt" /\ item[t] = o

WaitInv == (waiter.at # "idle" => ctx = "canceled") /\ WaitJoinsAll
InputInv == NoStrandedInput /\ (ctx = "down" => Empty)

(* A background completion is in one place: unclaimed, in the hands of one
   delivery, in a FIFO or admitted, or a signal. *)
DeliverPc == {"deliver", "deliverWait", "deliverRoute", "signal"}
CarryPc   == DeliverPc \cup {"admit", "prepare", "publish"}
Undelivered(m) == status[m] = "absent" /\ m \notin Buffered /\ m \notin signals
MemberInv ==
    /\ \A m \in members \ claimed : Undelivered(m)
    /\ \A t \in Thread :
          /\ pc[t] \in {"route", "compactRoute"} => item[t] \notin Completion
          /\ pc[t] \in CarryPc /\ item[t] \in Completion => item[t] \in claimed /\ item[t] \notin signals
          /\ pc[t] \in DeliverPc => Undelivered(item[t])
    /\ \A s, t \in Thread : pc[t] \in DeliverPc /\ pc[s] \in CarryPc /\ item[s] = item[t] => s = t
    /\ \A m \in Buffered \cap Completion : m \in claimed
    /\ CompletionOnce

StartInv ==
    /\ \A o \in started : status[o] # "absent"
    /\ \A t \in Thread : pc[t] \in {"adopt", "install"} => item[t] \notin started

(* An Operation an Interrupt found current and that is still running has
   its marker set, or its outcome is an interruption already. *)
MarkerInv ==
    /\ interruptOp # NoOp => interruptOp \in interrupted
    /\ \A o \in interrupted : status[o] # "absent"
    /\ \A o \in interrupted : status[o] = "running" =>
          \/ ctx = "down" \/ interruptOp = o
          \/ outcome[o] = "interruption" /\ pc[o] \notin {"none", "spawned", "running"}

(* Every cancellation, pending or done, and every proposed interruption has
   a cause. *)
Caused(o) == o \in interrupted \/ Closed \/ ctx # "live" \/ status[o] \in Terminal
CauseInv ==
    /\ \A t \in Thread : pc[t] = "cancel" /\ item[t] # NoOp => Caused(item[t])
    /\ \A o \in canceled : Caused(o) \/ pc[o] = "done"
    /\ \A o \in Op : outcome[o] = "interruption" => Caused(o)
    /\ ctx = "down" => canceled = {} /\ \A o \in Op : outcome[o] = "none"

CoordinatorInv == /\ HoldInv /\ PrepInv /\ RunInv /\ ViewInv /\ WaitInv /\ InputInv
                  /\ MemberInv /\ ArchivedIsQuiet /\ StartInv /\ MarkerInv /\ CauseInv
-----------------------------------------------------------------------------
(* Every step keeps the reservation's holder: reserve gives it out when it
   is free and the deferred release takes it back. *)
LEMMA HoldStep == TypeInv /\ RegisterInv /\ CoordinatorInv /\ [Next]_vars => HoldInv'
<1>. SUFFICES ASSUME TypeInv /\ RegisterInv /\ CoordinatorInv, [Next]_vars PROVE HoldInv'
  OBVIOUS
<1>. USE SessionAssumption DEF TypeInv, TypeOK, durableVars, fifoVars, bgVars, threadVars,
       processVars, historyVars, CoordinatorInv, Thread, ThreadType
<1>1. ASSUME NEW t \in Caller, NEW o \in Op, SubmitReserve(t, o) PROVE HoldInv'
  BY <1>1 DEF SubmitReserve, Reserve, Goto, HoldInv
<1>2. ASSUME NEW t \in Caller, NEW o \in Op, CompactReserve(t, o) PROVE HoldInv'
  BY <1>2 DEF CompactReserve, Reserve, Goto, HoldInv
<1>3. ASSUME NEW t \in Caller, NEW o \in Op, DeliverClaim(t, o) PROVE HoldInv'
  BY <1>3 DEF DeliverClaim, Goto, HoldInv, HolderPc
<1>4. ASSUME NEW t \in Caller, InterruptCall(t) PROVE HoldInv'
  BY <1>4 DEF InterruptCall, Goto, HoldInv, HolderPc
<1>5. ASSUME NEW t \in Caller, StopCall(t) PROVE HoldInv'
  BY <1>5 DEF StopCall, Goto, HoldInv, HolderPc
<1>6. ASSUME NEW t \in Caller, CallerGivesUp(t) PROVE HoldInv'
  BY <1>6 DEF CallerGivesUp, Goto, HoldInv, HolderPc
<1>7. ASSUME NEW t \in Caller, NEW mode \in {"regular", "queued"}, SubmitRoute(t, mode)
      PROVE  HoldInv'
  BY <1>7 DEF SubmitRoute, Goto, HoldInv, HolderPc
<1>8. ASSUME NEW t \in Caller, CompactRoute(t) PROVE HoldInv'
  BY <1>8 DEF CompactRoute, Goto, HoldInv, HolderPc
<1>9. ASSUME NEW t \in Caller, Cancel(t) PROVE HoldInv'
  BY <1>9 DEF Cancel, Goto, HoldInv, HolderPc
<1>10. ASSUME NEW t \in Caller, DeliverRoute(t) PROVE HoldInv'
  BY <1>10 DEF DeliverRoute, Goto, DeliveryPriority, HoldInv, HolderPc
<1>11. ASSUME NEW t \in Caller, DeliverReserve(t) PROVE HoldInv'
  BY <1>11 DEF DeliverReserve, Reserve, Goto, HoldInv, HolderPc
<1>12. ASSUME NEW t \in Caller, DeliverReroute(t) PROVE HoldInv'
  BY <1>12 DEF DeliverReroute, Goto, DeliveryPriority, HoldInv, HolderPc
<1>13. ASSUME NEW t \in Caller, DeliverSignal(t) PROVE HoldInv'
  BY <1>13 DEF DeliverSignal, Goto, HoldInv, HolderPc
<1>14. ASSUME NEW t \in Caller, DeliverFinish(t) PROVE HoldInv'
  BY <1>14 DEF DeliverFinish, Goto, HoldInv, HolderPc
<1>15. ASSUME NEW t \in Thread, AdmitGuard(t) PROVE HoldInv'
  BY <1>15 DEF AdmitGuard, Goto, HoldInv, HolderPc
<1>16. ASSUME NEW t \in Thread, Prepare(t) PROVE HoldInv'
  BY <1>16 DEF Prepare, Goto, HoldInv, HolderPc
<1>17. ASSUME NEW t \in Thread, Publish(t) PROVE HoldInv'
  BY <1>17 DEF Publish, Goto, HoldInv, HolderPc
<1>18. ASSUME NEW t \in Thread, Adopt(t) PROVE HoldInv'
  BY <1>18 DEF Adopt, Goto, HoldInv, HolderPc
<1>19. ASSUME NEW t \in Thread, Install(t) PROVE HoldInv'
  BY <1>19 DEF Install, HoldInv, HolderPc
<1>20. ASSUME NEW t \in Thread, Release(t) PROVE HoldInv'
  BY <1>20 DEF Release, Goto, AfterRelease, HoldInv, HolderPc
<1>21. ASSUME NEW o \in Op, Enter(o) PROVE HoldInv'
  BY <1>21 DEF Enter, Goto, HoldInv, HolderPc
<1>22. ASSUME NEW o \in Op, Work(o) PROVE HoldInv'
  BY <1>22 DEF Work, Goto, HoldInv, HolderPc
<1>23. ASSUME NEW o \in Op, EffectTerminal(o) PROVE HoldInv'
  BY <1>23 DEF EffectTerminal, Goto, HoldInv, HolderPc
<1>24. ASSUME NEW o \in Op, CompleteReserve(o) PROVE HoldInv'
  BY <1>24 DEF CompleteReserve, Reserve, Goto, HoldInv, HolderPc
<1>25. ASSUME NEW o \in Op, Settle(o) PROVE HoldInv'
  BY <1>25 DEF Settle, Goto, HoldInv, HolderPc
<1>26. ASSUME NEW o \in Op, Drain(o) PROVE HoldInv'
  BY <1>26 DEF Drain, Goto, HoldInv, HolderPc
<1>27. ASSUME NEW o \in Op, Drop(o) PROVE HoldInv'
  BY <1>27 DEF Drop, Goto, HoldInv, HolderPc
<1>28. ASSUME NEW o \in Op, Retire(o) PROVE HoldInv'
  BY <1>28 DEF Retire, Goto, HoldInv, HolderPc
<1>29. ASSUME NEW m \in Completion, StartMember(m) PROVE HoldInv'
  BY <1>29 DEF StartMember, HoldInv
<1>30. ASSUME ChangeAgentType PROVE HoldInv'
  BY <1>30 DEF ChangeAgentType, Rewrite, HoldInv
<1>31. ASSUME ReopenSession PROVE HoldInv'
  BY <1>31 DEF ReopenSession, Rewrite, HoldInv
<1>32. ASSUME ArchiveSession PROVE HoldInv'
  BY <1>32 DEF ArchiveSession, Rewrite, HoldInv
<1>33. ASSUME DeleteSession PROVE HoldInv'
  BY <1>33 DEF DeleteSession, Invalidate, HoldInv
<1>34. ASSUME SweepSession PROVE HoldInv'
  BY <1>34 DEF SweepSession, Invalidate, HoldInv
<1>35. ASSUME CancelHarness PROVE HoldInv'
  BY <1>35 DEF CancelHarness, HoldInv
<1>36. ASSUME WaitScan PROVE HoldInv'
  BY <1>36 DEF WaitScan, HoldInv
<1>37. ASSUME WaitRescan PROVE HoldInv'
  BY <1>37 DEF WaitRescan, HoldInv
<1>38. ASSUME Crash PROVE HoldInv'
  BY <1>38 DEF Crash, HoldInv, HolderPc
<1>39. ASSUME Restart PROVE HoldInv'
  BY <1>39 DEF Restart, HoldInv, HolderPc
<1>40. ASSUME NEW o \in Op, Recover(o) PROVE HoldInv'
  BY <1>40 DEF Recover, HoldInv
<1>41. CASE UNCHANGED vars
  BY <1>41 DEF vars, HoldInv
<1>42. QED
  BY <1>1, <1>2, <1>3, <1>4, <1>5, <1>6, <1>7, <1>8, <1>9, <1>10, <1>11, <1>12,
       <1>13, <1>14, <1>15, <1>16, <1>17, <1>18, <1>19, <1>20, <1>21, <1>22, <1>23, <1>24,
       <1>25, <1>26, <1>27, <1>28, <1>29, <1>30, <1>31, <1>32, <1>33, <1>34, <1>35, <1>36,
       <1>37, <1>38, <1>39, <1>40, <1>41
     DEF Next, CallerCall, CallerProgress, AdmissionStep, ExecutionStep, LifecycleStep, ProcessStep

(* Every step keeps what an admission prepared with its owner, from
   prepareExecution to startExecution and to the settlement. *)
LEMMA PrepStep == TypeInv /\ RegisterInv /\ CoordinatorInv /\ [Next]_vars => PrepInv'
<1>. SUFFICES ASSUME TypeInv /\ RegisterInv /\ CoordinatorInv, [Next]_vars PROVE PrepInv'
  OBVIOUS
<1>. USE SessionAssumption DEF TypeInv, TypeOK, durableVars, fifoVars, bgVars, threadVars,
       processVars, historyVars, CoordinatorInv, Thread, ThreadType
<1>1. ASSUME NEW t \in Caller, NEW o \in Op, SubmitReserve(t, o) PROVE PrepInv'
  BY <1>1 DEF SubmitReserve, Reserve, Goto, PrepInv, PreparationsReleased
<1>2. ASSUME NEW t \in Caller, NEW o \in Op, CompactReserve(t, o) PROVE PrepInv'
  BY <1>2 DEF CompactReserve, Reserve, Goto, PrepInv, PreparationsReleased
<1>3. ASSUME NEW t \in Caller, NEW o \in Op, DeliverClaim(t, o) PROVE PrepInv'
  BY <1>3 DEF DeliverClaim, Goto, PrepInv, PreparationsReleased
<1>4. ASSUME NEW t \in Caller, InterruptCall(t) PROVE PrepInv'
  BY <1>4 DEF InterruptCall, Goto, PrepInv, PreparationsReleased
<1>5. ASSUME NEW t \in Caller, StopCall(t) PROVE PrepInv'
  BY <1>5 DEF StopCall, Goto, PrepInv, PreparationsReleased
<1>6. ASSUME NEW t \in Caller, CallerGivesUp(t) PROVE PrepInv'
  BY <1>6 DEF CallerGivesUp, Goto, PrepInv, PreparationsReleased
<1>7. ASSUME NEW t \in Caller, NEW mode \in {"regular", "queued"}, SubmitRoute(t, mode)
      PROVE  PrepInv'
  BY <1>7 DEF SubmitRoute, Goto, PrepInv, PreparationsReleased
<1>8. ASSUME NEW t \in Caller, CompactRoute(t) PROVE PrepInv'
  BY <1>8 DEF CompactRoute, Goto, PrepInv, PreparationsReleased
<1>9. ASSUME NEW t \in Caller, Cancel(t) PROVE PrepInv'
  BY <1>9 DEF Cancel, Goto, PrepInv, PreparationsReleased
<1>10. ASSUME NEW t \in Caller, DeliverRoute(t) PROVE PrepInv'
  BY <1>10 DEF DeliverRoute, Goto, DeliveryPriority, PrepInv, PreparationsReleased
<1>11. ASSUME NEW t \in Caller, DeliverReserve(t) PROVE PrepInv'
  BY <1>11 DEF DeliverReserve, Reserve, Goto, PrepInv, PreparationsReleased
<1>12. ASSUME NEW t \in Caller, DeliverReroute(t) PROVE PrepInv'
  BY <1>12 DEF DeliverReroute, Goto, DeliveryPriority, PrepInv, PreparationsReleased
<1>13. ASSUME NEW t \in Caller, DeliverSignal(t) PROVE PrepInv'
  <2>1. prep' = prep /\ reserved' = reserved /\ pc[t] = "signal" /\ \A x \in Thread \ {t} : pc'[x] = pc[x]
    BY <1>13 DEF DeliverSignal, Goto
  <2>2. pc'[t] \in {"release", "finish"} BY <1>13 DEF DeliverSignal, Goto
  <2>3. QED BY <2>1, <2>2 DEF PrepInv, PreparationsReleased, HoldInv, HolderPc
<1>14. ASSUME NEW t \in Caller, DeliverFinish(t) PROVE PrepInv'
  BY <1>14 DEF DeliverFinish, Goto, PrepInv, PreparationsReleased
<1>15. ASSUME NEW t \in Thread, AdmitGuard(t) PROVE PrepInv'
  BY <1>15 DEF AdmitGuard, Goto, AdmitNext, Refusal, PrepInv, PreparationsReleased
<1>16. ASSUME NEW t \in Thread, Prepare(t) PROVE PrepInv'
  BY <1>16 DEF Prepare, Goto, Refusal, PrepInv, PreparationsReleased, HoldInv, HolderPc
<1>17. ASSUME NEW t \in Thread, Publish(t) PROVE PrepInv'
  BY <1>17 DEF Publish, Goto, Refusal, ReleasePrepared, PrepInv, PreparationsReleased
<1>18. ASSUME NEW t \in Thread, Adopt(t) PROVE PrepInv'
  BY <1>18 DEF Adopt, Goto, PrepInv, PreparationsReleased
<1>19. ASSUME NEW t \in Thread, Install(t) PROVE PrepInv'
  <2>1. pc[item[t]] = "none" /\ reserved = t
    BY <1>19 DEF Install, RegisterInv, AdmissionView, HoldInv, HolderPc
  <2>2. item[t] \in Op /\ item[t] # t BY <1>19, <2>1 DEF Install, ItemOK, ItemPc
  <2>3. /\ pc'[t] = "release" /\ pc'[item[t]] = "spawned" /\ prep' = (prep \ {t}) \cup {item[t]}
        /\ \A x \in Thread \ {t, item[t]} : pc'[x] = pc[x]
    BY <1>19, <2>2 DEF Install
  <2>4. reserved' = reserved BY <1>19 DEF Install
  <2>5. QED BY <2>1, <2>2, <2>3, <2>4 DEF PrepInv, PreparationsReleased, HoldInv, HolderPc
<1>20. ASSUME NEW t \in Thread, Release(t) PROVE PrepInv'
  BY <1>20 DEF Release, Goto, AfterRelease, PrepInv, PreparationsReleased
<1>21. ASSUME NEW o \in Op, Enter(o) PROVE PrepInv'
  BY <1>21 DEF Enter, Goto, PrepInv, PreparationsReleased
<1>22. ASSUME NEW o \in Op, Work(o) PROVE PrepInv'
  BY <1>22 DEF Work, Goto, PrepInv, PreparationsReleased
<1>23. ASSUME NEW o \in Op, EffectTerminal(o) PROVE PrepInv'
  BY <1>23 DEF EffectTerminal, Goto, PrepInv, PreparationsReleased
<1>24. ASSUME NEW o \in Op, CompleteReserve(o) PROVE PrepInv'
  BY <1>24 DEF CompleteReserve, Reserve, Goto, PrepInv, PreparationsReleased
<1>25. ASSUME NEW o \in Op, Settle(o) PROVE PrepInv'
  BY <1>25 DEF Settle, Goto, PrepInv, PreparationsReleased
<1>26. ASSUME NEW o \in Op, Drain(o) PROVE PrepInv'
  BY <1>26 DEF Drain, Goto, PrepInv, PreparationsReleased
<1>27. ASSUME NEW o \in Op, Drop(o) PROVE PrepInv'
  BY <1>27 DEF Drop, Goto, PrepInv, PreparationsReleased
<1>28. ASSUME NEW o \in Op, Retire(o) PROVE PrepInv'
  BY <1>28 DEF Retire, Goto, PrepInv, PreparationsReleased
<1>29. ASSUME NEW m \in Completion, StartMember(m) PROVE PrepInv'
  BY <1>29 DEF StartMember, PrepInv, PreparationsReleased
<1>30. ASSUME ChangeAgentType PROVE PrepInv'
  BY <1>30 DEF ChangeAgentType, Rewrite, PrepInv, PreparationsReleased
<1>31. ASSUME ReopenSession PROVE PrepInv'
  BY <1>31 DEF ReopenSession, Rewrite, PrepInv, PreparationsReleased
<1>32. ASSUME ArchiveSession PROVE PrepInv'
  BY <1>32 DEF ArchiveSession, Rewrite, PrepInv, PreparationsReleased
<1>33. ASSUME DeleteSession PROVE PrepInv'
  BY <1>33 DEF DeleteSession, Invalidate, PrepInv, PreparationsReleased
<1>34. ASSUME SweepSession PROVE PrepInv'
  BY <1>34 DEF SweepSession, Invalidate, PrepInv, PreparationsReleased
<1>35. ASSUME CancelHarness PROVE PrepInv'
  BY <1>35 DEF CancelHarness, PrepInv, PreparationsReleased
<1>36. ASSUME WaitScan PROVE PrepInv'
  BY <1>36 DEF WaitScan, PrepInv, PreparationsReleased
<1>37. ASSUME WaitRescan PROVE PrepInv'
  BY <1>37 DEF WaitRescan, PrepInv, PreparationsReleased
<1>38. ASSUME Crash PROVE PrepInv'
  BY <1>38 DEF Crash, PrepInv, PreparationsReleased
<1>39. ASSUME Restart PROVE PrepInv'
  <2>1. prep = {} BY <1>39 DEF Restart, RegisterInv, DownInv, PrepInv, PreparationsReleased
  <2>2. prep' = {} /\ \A x \in Thread : pc'[x] \in {"idle", "none"} BY <1>39, <2>1 DEF Restart
  <2>3. QED BY <2>2 DEF PrepInv, PreparationsReleased
<1>40. ASSUME NEW o \in Op, Recover(o) PROVE PrepInv'
  BY <1>40 DEF Recover, PrepInv, PreparationsReleased
<1>41. CASE UNCHANGED vars
  BY <1>41 DEF vars, PrepInv, PreparationsReleased
<1>42. QED
  BY <1>1, <1>2, <1>3, <1>4, <1>5, <1>6, <1>7, <1>8, <1>9, <1>10, <1>11, <1>12,
       <1>13, <1>14, <1>15, <1>16, <1>17, <1>18, <1>19, <1>20, <1>21, <1>22, <1>23, <1>24,
       <1>25, <1>26, <1>27, <1>28, <1>29, <1>30, <1>31, <1>32, <1>33, <1>34, <1>35, <1>36,
       <1>37, <1>38, <1>39, <1>40, <1>41
     DEF Next, CallerCall, CallerProgress, AdmissionStep, ExecutionStep, LifecycleStep, ProcessStep

(* Every step keeps the run slot with the execution whose drain is ahead. *)
LEMMA RunStep == TypeInv /\ RegisterInv /\ CoordinatorInv /\ [Next]_vars => RunInv'
<1>. SUFFICES ASSUME TypeInv /\ RegisterInv /\ CoordinatorInv, [Next]_vars PROVE RunInv'
  OBVIOUS
<1>. USE SessionAssumption DEF TypeInv, TypeOK, durableVars, fifoVars, bgVars, threadVars,
       processVars, historyVars, CoordinatorInv, Thread, ThreadType
<1>1. ASSUME NEW t \in Caller, NEW o \in Op, SubmitReserve(t, o) PROVE RunInv'
  BY <1>1 DEF SubmitReserve, Reserve, Goto, RunInv, SlotPc, AdmissionPc
<1>2. ASSUME NEW t \in Caller, NEW o \in Op, CompactReserve(t, o) PROVE RunInv'
  BY <1>2 DEF CompactReserve, Reserve, Goto, RunInv, SlotPc, AdmissionPc
<1>3. ASSUME NEW t \in Caller, NEW o \in Op, DeliverClaim(t, o) PROVE RunInv'
  BY <1>3 DEF DeliverClaim, Goto, RunInv, SlotPc, AdmissionPc
<1>4. ASSUME NEW t \in Caller, InterruptCall(t) PROVE RunInv'
  BY <1>4 DEF InterruptCall, Goto, RunInv, SlotPc, AdmissionPc
<1>5. ASSUME NEW t \in Caller, StopCall(t) PROVE RunInv'
  BY <1>5 DEF StopCall, Goto, RunInv, SlotPc, AdmissionPc
<1>6. ASSUME NEW t \in Caller, CallerGivesUp(t) PROVE RunInv'
  BY <1>6 DEF CallerGivesUp, Goto, RunInv, SlotPc, AdmissionPc
<1>7. ASSUME NEW t \in Caller, NEW mode \in {"regular", "queued"}, SubmitRoute(t, mode)
      PROVE  RunInv'
  BY <1>7 DEF SubmitRoute, Goto, Active, RunInv, SlotPc, AdmissionPc, CoordinatorType
<1>8. ASSUME NEW t \in Caller, CompactRoute(t) PROVE RunInv'
  BY <1>8 DEF CompactRoute, Goto, CompactIdle, Active, RunInv, SlotPc, AdmissionPc
<1>9. ASSUME NEW t \in Caller, Cancel(t) PROVE RunInv'
  BY <1>9 DEF Cancel, Goto, RunInv, SlotPc, AdmissionPc
<1>10. ASSUME NEW t \in Caller, DeliverRoute(t) PROVE RunInv'
  BY <1>10 DEF DeliverRoute, Goto, DeliveryPriority, RunInv, SlotPc, AdmissionPc,
       CoordinatorType
<1>11. ASSUME NEW t \in Caller, DeliverReserve(t) PROVE RunInv'
  BY <1>11 DEF DeliverReserve, Reserve, Goto, RunInv, SlotPc, AdmissionPc, CoordinatorType
<1>12. ASSUME NEW t \in Caller, DeliverReroute(t) PROVE RunInv'
  BY <1>12 DEF DeliverReroute, Goto, DeliveryPriority, Active, RunInv, SlotPc, AdmissionPc,
       CoordinatorType
<1>13. ASSUME NEW t \in Caller, DeliverSignal(t) PROVE RunInv'
  BY <1>13 DEF DeliverSignal, Goto, RunInv, SlotPc, AdmissionPc
<1>14. ASSUME NEW t \in Caller, DeliverFinish(t) PROVE RunInv'
  BY <1>14 DEF DeliverFinish, Goto, RunInv, SlotPc, AdmissionPc
<1>15. ASSUME NEW t \in Thread, AdmitGuard(t) PROVE RunInv'
  BY <1>15 DEF AdmitGuard, Goto, AdmitNext, Refusal, RunInv, SlotPc, AdmissionPc
<1>16. ASSUME NEW t \in Thread, Prepare(t) PROVE RunInv'
  BY <1>16 DEF Prepare, Goto, Refusal, RunInv, SlotPc, AdmissionPc
<1>17. ASSUME NEW t \in Thread, Publish(t) PROVE RunInv'
  BY <1>17 DEF Publish, Goto, Refusal, RunInv, SlotPc, AdmissionPc
<1>18. ASSUME NEW t \in Thread, Adopt(t) PROVE RunInv'
  BY <1>18 DEF Adopt, Goto, RunInv, SlotPc, AdmissionPc
<1>19. ASSUME NEW t \in Thread, Install(t) PROVE RunInv'
  BY <1>19 DEF Install, RunInv, SlotPc, AdmissionPc, HoldInv, HolderPc, RegisterInv,
       AdmissionView
<1>20. ASSUME NEW t \in Thread, Release(t) PROVE RunInv'
  BY <1>20 DEF Release, Goto, AfterRelease, RunInv, SlotPc, AdmissionPc, CoordinatorType
<1>21. ASSUME NEW o \in Op, Enter(o) PROVE RunInv'
  BY <1>21 DEF Enter, Goto, RunInv, SlotPc
<1>22. ASSUME NEW o \in Op, Work(o) PROVE RunInv'
  BY <1>22 DEF Work, Goto, RunInv, SlotPc
<1>23. ASSUME NEW o \in Op, EffectTerminal(o) PROVE RunInv'
  BY <1>23 DEF EffectTerminal, Goto, CommitTerminal, RunInv, SlotPc
<1>24. ASSUME NEW o \in Op, CompleteReserve(o) PROVE RunInv'
  BY <1>24 DEF CompleteReserve, Reserve, Goto, RunInv, SlotPc
<1>25. ASSUME NEW o \in Op, Settle(o) PROVE RunInv'
  BY <1>25 DEF Settle, Goto, CommitTerminal, RunInv, SlotPc, HoldInv
<1>26. ASSUME NEW o \in Op, Drain(o) PROVE RunInv'
  <2>1. /\ run = o /\ o # NoOp /\ pc[o] = "drain" /\ current \in {o, NoOp}
        /\ \A x \in Op \ {o} : pc[x] \notin SlotPc
        /\ \A t \in Caller : pc[t] \notin AdmissionPc
    BY <1>26 DEF Drain, RunInv, SlotPc
  <2>2. /\ UNCHANGED <<current, ctx>> /\ \A x \in Thread \ {o} : pc'[x] = pc[x]
        /\ \/ pc'[o] = "release" /\ run' = run /\ (ctx = "canceled" \/ graph.current # NoOp)
           \/ pc'[o] = "release" /\ run' = NoOp
           \/ pc'[o] = "admit" /\ run' = run
    BY <1>26, <2>1 DEF Drain, Goto, EmptyScan
  <2>3. graph.current # NoOp => current = o BY <2>1 DEF ViewInv
  <2>4. (\A x \in Op : pc'[x] \in SlotPc => run' = x) /\ \A t \in Caller : pc'[t] \notin AdmissionPc
    BY <2>1, <2>2 DEF SlotPc, AdmissionPc
  <2>5. QED BY <2>1, <2>2, <2>3, <2>4 DEF RunInv, SlotPc, AdmissionPc
<1>27. ASSUME NEW o \in Op, Drop(o) PROVE RunInv'
  BY <1>27 DEF Drop, Goto, RunInv, SlotPc
<1>28. ASSUME NEW o \in Op, Retire(o) PROVE RunInv'
  BY <1>28 DEF Retire, Goto, Retirement, RunInv, SlotPc, AdmissionPc
<1>29. ASSUME NEW m \in Completion, StartMember(m) PROVE RunInv'
  BY <1>29 DEF StartMember, RunInv
<1>30. ASSUME ChangeAgentType PROVE RunInv'
  BY <1>30 DEF ChangeAgentType, Rewrite, RunInv
<1>31. ASSUME ReopenSession PROVE RunInv'
  BY <1>31 DEF ReopenSession, Rewrite, RunInv
<1>32. ASSUME ArchiveSession PROVE RunInv'
  BY <1>32 DEF ArchiveSession, Rewrite, RunInv
<1>33. ASSUME DeleteSession PROVE RunInv'
  BY <1>33 DEF DeleteSession, Invalidate, RunInv
<1>34. ASSUME SweepSession PROVE RunInv'
  BY <1>34 DEF SweepSession, Invalidate, RunInv
<1>35. ASSUME CancelHarness PROVE RunInv'
  BY <1>35 DEF CancelHarness, RunInv
<1>36. ASSUME WaitScan PROVE RunInv'
  BY <1>36 DEF WaitScan, RunInv
<1>37. ASSUME WaitRescan PROVE RunInv'
  BY <1>37 DEF WaitRescan, RunInv
<1>38. ASSUME Crash PROVE RunInv'
  BY <1>38 DEF Crash, RunInv, SlotPc, AdmissionPc
<1>39. ASSUME Restart PROVE RunInv'
  BY <1>39 DEF Restart, RunInv, SlotPc, AdmissionPc, CoordinatorType, RegisterInv, DownInv
<1>40. ASSUME NEW o \in Op, Recover(o) PROVE RunInv'
  BY <1>40 DEF Recover, Recoverable, CommitTerminal, RunInv
<1>41. CASE UNCHANGED vars
  BY <1>41 DEF vars, RunInv
<1>42. QED
  BY <1>1, <1>2, <1>3, <1>4, <1>5, <1>6, <1>7, <1>8, <1>9, <1>10, <1>11, <1>12,
       <1>13, <1>14, <1>15, <1>16, <1>17, <1>18, <1>19, <1>20, <1>21, <1>22, <1>23, <1>24,
       <1>25, <1>26, <1>27, <1>28, <1>29, <1>30, <1>31, <1>32, <1>33, <1>34, <1>35, <1>36,
       <1>37, <1>38, <1>39, <1>40, <1>41
     DEF Next, CallerCall, CallerProgress, AdmissionStep, ExecutionStep, LifecycleStep, ProcessStep

(* Every step keeps how far the resident view may lag behind the registers. *)
LEMMA ViewStep == TypeInv /\ RegisterInv /\ CoordinatorInv /\ [Next]_vars => ViewInv'
<1>. SUFFICES ASSUME TypeInv /\ RegisterInv /\ CoordinatorInv, [Next]_vars PROVE ViewInv'
  OBVIOUS
<1>. USE SessionAssumption DEF TypeInv, TypeOK, durableVars, fifoVars, bgVars, threadVars,
       processVars, historyVars, CoordinatorInv, Thread, ThreadType
<1>1. ASSUME NEW t \in Caller, NEW o \in Op, SubmitReserve(t, o) PROVE ViewInv'
  BY <1>1 DEF SubmitReserve, Reserve, Goto, ViewInv
<1>2. ASSUME NEW t \in Caller, NEW o \in Op, CompactReserve(t, o) PROVE ViewInv'
  BY <1>2 DEF CompactReserve, Reserve, Goto, ViewInv
<1>3. ASSUME NEW t \in Caller, NEW o \in Op, DeliverClaim(t, o) PROVE ViewInv'
  BY <1>3 DEF DeliverClaim, Goto, ViewInv
<1>4. ASSUME NEW t \in Caller, InterruptCall(t) PROVE ViewInv'
  BY <1>4 DEF InterruptCall, Goto, ViewInv
<1>5. ASSUME NEW t \in Caller, StopCall(t) PROVE ViewInv'
  BY <1>5 DEF StopCall, Goto, ViewInv
<1>6. ASSUME NEW t \in Caller, CallerGivesUp(t) PROVE ViewInv'
  BY <1>6 DEF CallerGivesUp, Goto, ViewInv
<1>7. ASSUME NEW t \in Caller, NEW mode \in {"regular", "queued"}, SubmitRoute(t, mode)
      PROVE  ViewInv'
  BY <1>7 DEF SubmitRoute, Goto, ViewInv
<1>8. ASSUME NEW t \in Caller, CompactRoute(t) PROVE ViewInv'
  BY <1>8 DEF CompactRoute, Goto, ViewInv
<1>9. ASSUME NEW t \in Caller, Cancel(t) PROVE ViewInv'
  BY <1>9 DEF Cancel, Goto, ViewInv
<1>10. ASSUME NEW t \in Caller, DeliverRoute(t) PROVE ViewInv'
  BY <1>10 DEF DeliverRoute, Goto, DeliveryPriority, ViewInv
<1>11. ASSUME NEW t \in Caller, DeliverReserve(t) PROVE ViewInv'
  BY <1>11 DEF DeliverReserve, Reserve, Goto, ViewInv
<1>12. ASSUME NEW t \in Caller, DeliverReroute(t) PROVE ViewInv'
  BY <1>12 DEF DeliverReroute, Goto, DeliveryPriority, ViewInv
<1>13. ASSUME NEW t \in Caller, DeliverSignal(t) PROVE ViewInv'
  BY <1>13 DEF DeliverSignal, Goto, Loaded, View, ViewInv
<1>14. ASSUME NEW t \in Caller, DeliverFinish(t) PROVE ViewInv'
  BY <1>14 DEF DeliverFinish, Goto, ViewInv
<1>15. ASSUME NEW t \in Thread, AdmitGuard(t) PROVE ViewInv'
  BY <1>15 DEF AdmitGuard, Goto, ViewInv
<1>16. ASSUME NEW t \in Thread, Prepare(t) PROVE ViewInv'
  BY <1>16 DEF Prepare, Goto, ViewInv
<1>17. ASSUME NEW t \in Thread, Publish(t) PROVE ViewInv'
  BY <1>17 DEF Publish, Goto, ProduceAdmission, Loaded, View, ViewInv, RegisterInv,
       AdmissionView, DurableType
<1>18. ASSUME NEW t \in Thread, Adopt(t) PROVE ViewInv'
  BY <1>18 DEF Adopt, View, ViewInv, RegisterInv, AdmissionView, ArchivedIsQuiet
<1>19. ASSUME NEW t \in Thread, Install(t) PROVE ViewInv'
  BY <1>19 DEF Install, ViewInv, RegisterInv, AdmissionView
<1>20. ASSUME NEW t \in Thread, Release(t) PROVE ViewInv'
  BY <1>20 DEF Release, Goto, ViewInv
<1>21. ASSUME NEW o \in Op, Enter(o) PROVE ViewInv'
  BY <1>21 DEF Enter, Goto, ViewInv
<1>22. ASSUME NEW o \in Op, Work(o) PROVE ViewInv'
  BY <1>22 DEF Work, Goto, PublicationFails, Loaded, View, ViewInv
<1>23. ASSUME NEW o \in Op, EffectTerminal(o) PROVE ViewInv'
  <2>1. status[o] # "absent" BY <1>23 DEF EffectTerminal, RegisterInv, FreshOps
  <2>2. current' = NoOp /\ graph' = View(graph.lifecycle, NoOp, rev + 1, graph.known)
        /\ lifecycle' = lifecycle /\ ctx' = ctx /\ item' = item
        /\ (\A x \in Op \ {o} : status'[x] = status[x])
        /\ (\A x \in Thread : pc[x] = "adopt" => pc'[x] = "adopt")
    BY <1>23 DEF EffectTerminal, CommitTerminal, Goto, DurableType
  <2>3. QED BY <2>1, <2>2 DEF ViewInv, View
<1>24. ASSUME NEW o \in Op, CompleteReserve(o) PROVE ViewInv'
  BY <1>24 DEF CompleteReserve, Reserve, Goto, ViewInv
<1>25. ASSUME NEW o \in Op, Settle(o) PROVE ViewInv'
  <2>1. status[o] # "absent" BY <1>25 DEF Settle, RegisterInv, FreshOps
  <2>2. /\ lifecycle' = lifecycle /\ ctx' = ctx /\ item' = item
        /\ (\A x \in Op \ {o} : status'[x] = status[x])
        /\ (\A x \in Thread : pc[x] = "adopt" => pc'[x] = "adopt")
    BY <1>25 DEF Settle, CommitTerminal, Goto, DurableType
  <2>3. CASE UNCHANGED <<status, current, graph>> BY <2>2, <2>3 DEF ViewInv
  <2>4. CASE current' = NoOp /\ graph' = View(graph.lifecycle, NoOp, rev + 1, graph.known)
    BY <2>1, <2>2, <2>4 DEF ViewInv, View
  <2>5. CASE UNCHANGED <<status, current>> /\ graph' = Loaded
    BY <2>2, <2>5 DEF ViewInv, Loaded, View
  <2>6. QED BY <1>25, <2>3, <2>4, <2>5 DEF Settle, CommitTerminal
<1>26. ASSUME NEW o \in Op, Drain(o) PROVE ViewInv'
  <2>1. UNCHANGED <<lifecycle, current, status, graph, ctx>> BY <1>26 DEF Drain
  <2>2. \A x \in Thread : pc[x] = "adopt" => pc'[x] = "adopt" /\ item'[x] = item[x]
    BY <1>26 DEF Drain, Goto
  <2>3. QED BY <2>1, <2>2 DEF ViewInv
<1>27. ASSUME NEW o \in Op, Drop(o) PROVE ViewInv'
  BY <1>27 DEF Drop, Goto, ViewInv
<1>28. ASSUME NEW o \in Op, Retire(o) PROVE ViewInv'
  BY <1>28 DEF Retire, Goto, ViewInv
<1>29. ASSUME NEW m \in Completion, StartMember(m) PROVE ViewInv'
  BY <1>29 DEF StartMember, ViewInv
<1>30. ASSUME ChangeAgentType PROVE ViewInv'
  BY <1>30 DEF ChangeAgentType, Rewrite, Loaded, View, ViewInv
<1>31. ASSUME ReopenSession PROVE ViewInv'
  BY <1>31 DEF ReopenSession, Rewrite, Loaded, View, ViewInv
<1>32. ASSUME ArchiveSession PROVE ViewInv'
  BY <1>32 DEF ArchiveSession, Rewrite, Loaded, View, ViewInv
<1>33. ASSUME DeleteSession PROVE ViewInv'
  BY <1>33 DEF DeleteSession, Invalidate, ViewInv
<1>34. ASSUME SweepSession PROVE ViewInv'
  BY <1>34 DEF SweepSession, Invalidate, View, ViewInv
<1>35. ASSUME CancelHarness PROVE ViewInv'
  BY <1>35 DEF CancelHarness, ViewInv
<1>36. ASSUME WaitScan PROVE ViewInv'
  BY <1>36 DEF WaitScan, ViewInv
<1>37. ASSUME WaitRescan PROVE ViewInv'
  BY <1>37 DEF WaitRescan, ViewInv
<1>38. ASSUME Crash PROVE ViewInv'
  BY <1>38 DEF Crash, ViewInv
<1>39. ASSUME Restart PROVE ViewInv'
  BY <1>39 DEF Restart, Loaded, View, ViewInv
<1>40. ASSUME NEW o \in Op, Recover(o) PROVE ViewInv'
  BY <1>40 DEF Recover, Recoverable, CommitTerminal, View, ViewInv
<1>41. CASE UNCHANGED vars
  BY <1>41 DEF vars, ViewInv
<1>42. QED
  BY <1>1, <1>2, <1>3, <1>4, <1>5, <1>6, <1>7, <1>8, <1>9, <1>10, <1>11, <1>12,
       <1>13, <1>14, <1>15, <1>16, <1>17, <1>18, <1>19, <1>20, <1>21, <1>22, <1>23, <1>24,
       <1>25, <1>26, <1>27, <1>28, <1>29, <1>30, <1>31, <1>32, <1>33, <1>34, <1>35, <1>36,
       <1>37, <1>38, <1>39, <1>40, <1>41
     DEF Next, CallerCall, CallerProgress, AdmissionStep, ExecutionStep, LifecycleStep, ProcessStep

(* The waiter's second scan sees every holder and every run that is left. *)
LEMMA WaitStep == TypeInv /\ RegisterInv /\ CoordinatorInv /\ [Next]_vars => WaitInv'
<1>. SUFFICES ASSUME TypeInv /\ RegisterInv /\ CoordinatorInv, [Next]_vars PROVE WaitInv'
  OBVIOUS
<1>. USE SessionAssumption DEF TypeInv, TypeOK, durableVars, fifoVars, bgVars, threadVars,
       processVars, historyVars, CoordinatorInv, Thread, ThreadType
<1>1. ASSUME NEW t \in Caller, NEW o \in Op, SubmitReserve(t, o) PROVE WaitInv'
  BY <1>1 DEF SubmitReserve, WaitInv, WaitJoinsAll
<1>2. ASSUME NEW t \in Caller, NEW o \in Op, CompactReserve(t, o) PROVE WaitInv'
  BY <1>2 DEF CompactReserve, Reserve, Goto, WaitInv, WaitJoinsAll, Empty, Live
<1>3. ASSUME NEW t \in Caller, NEW o \in Op, DeliverClaim(t, o) PROVE WaitInv'
  BY <1>3 DEF DeliverClaim, Goto, WaitInv, WaitJoinsAll, Empty, Live
<1>4. ASSUME NEW t \in Caller, InterruptCall(t) PROVE WaitInv'
  BY <1>4 DEF InterruptCall, Goto, WaitInv, WaitJoinsAll, Empty, Live
<1>5. ASSUME NEW t \in Caller, StopCall(t) PROVE WaitInv'
  BY <1>5 DEF StopCall, Goto, DiscardBuffers, WaitInv, WaitJoinsAll, Empty, Live
<1>6. ASSUME NEW t \in Caller, CallerGivesUp(t) PROVE WaitInv'
  BY <1>6 DEF CallerGivesUp, Goto, WaitInv, WaitJoinsAll, Empty, Live
<1>7. ASSUME NEW t \in Caller, NEW mode \in {"regular", "queued"}, SubmitRoute(t, mode)
      PROVE  WaitInv'
  BY <1>7 DEF SubmitRoute, Goto, SubmitRefused, WaitInv, WaitJoinsAll, Empty, Live
<1>8. ASSUME NEW t \in Caller, CompactRoute(t) PROVE WaitInv'
  BY <1>8 DEF CompactRoute, Goto, WaitInv, WaitJoinsAll, Empty, Live
<1>9. ASSUME NEW t \in Caller, Cancel(t) PROVE WaitInv'
  BY <1>9 DEF Cancel, Goto, WaitInv, WaitJoinsAll, Empty, Live
<1>10. ASSUME NEW t \in Caller, DeliverRoute(t) PROVE WaitInv'
  BY <1>10 DEF DeliverRoute, Goto, DeliveryPriority, Unreceivable, WaitInv, WaitJoinsAll,
       Empty, Live
<1>11. ASSUME NEW t \in Caller, DeliverReserve(t) PROVE WaitInv'
  BY <1>11 DEF DeliverReserve, Reserve, Goto, WaitInv, WaitJoinsAll, Empty, Live
<1>12. ASSUME NEW t \in Caller, DeliverReroute(t) PROVE WaitInv'
  BY <1>12 DEF DeliverReroute, Goto, DeliveryPriority, Unreceivable, WaitInv, WaitJoinsAll,
       Empty, Live
<1>13. ASSUME NEW t \in Caller, DeliverSignal(t) PROVE WaitInv'
  BY <1>13 DEF DeliverSignal, Goto, WaitInv, WaitJoinsAll, Empty, Live
<1>14. ASSUME NEW t \in Caller, DeliverFinish(t) PROVE WaitInv'
  BY <1>14 DEF DeliverFinish, Goto, WaitInv, WaitJoinsAll, Empty, Live
<1>15. ASSUME NEW t \in Thread, AdmitGuard(t) PROVE WaitInv'
  BY <1>15 DEF AdmitGuard, Goto, AdmitNext, Refusal, WaitInv, WaitJoinsAll, Empty, Live
<1>16. ASSUME NEW t \in Thread, Prepare(t) PROVE WaitInv'
  BY <1>16 DEF Prepare, Goto, Refusal, WaitInv, WaitJoinsAll, Empty, Live
<1>17. ASSUME NEW t \in Thread, Publish(t) PROVE WaitInv'
  BY <1>17 DEF Publish, WaitInv, WaitJoinsAll, PrepInv
<1>18. ASSUME NEW t \in Thread, Adopt(t) PROVE WaitInv'
  BY <1>18 DEF Adopt, WaitInv, WaitJoinsAll, PrepInv
<1>19. ASSUME NEW t \in Thread, Install(t) PROVE WaitInv'
  BY <1>19 DEF Install, WaitInv, WaitJoinsAll, PrepInv
<1>20. ASSUME NEW t \in Thread, Release(t) PROVE WaitInv'
  BY <1>20 DEF Release, Goto, AfterRelease, WaitInv, WaitJoinsAll, Empty, Live
<1>21. ASSUME NEW o \in Op, Enter(o) PROVE WaitInv'
  BY <1>21 DEF Enter, WaitInv, WaitJoinsAll, Live
<1>22. ASSUME NEW o \in Op, Work(o) PROVE WaitInv'
  BY <1>22 DEF Work, WaitInv, WaitJoinsAll, Live
<1>23. ASSUME NEW o \in Op, EffectTerminal(o) PROVE WaitInv'
  BY <1>23 DEF EffectTerminal, WaitInv, WaitJoinsAll, Live
<1>24. ASSUME NEW o \in Op, CompleteReserve(o) PROVE WaitInv'
  BY <1>24 DEF CompleteReserve, Reserve, Goto, WaitInv, WaitJoinsAll, Empty, Live
<1>25. ASSUME NEW o \in Op, Settle(o) PROVE WaitInv'
  BY <1>25 DEF Settle, Goto, WaitInv, WaitJoinsAll, Empty, Live
<1>26. ASSUME NEW o \in Op, Drain(o) PROVE WaitInv'
  BY <1>26 DEF Drain, Goto, DiscardBuffers, WaitInv, WaitJoinsAll, Empty, Live
<1>27. ASSUME NEW o \in Op, Drop(o) PROVE WaitInv'
  BY <1>27 DEF Drop, Goto, DropBuffered, WaitInv, WaitJoinsAll, Empty, Live
<1>28. ASSUME NEW o \in Op, Retire(o) PROVE WaitInv'
  BY <1>28 DEF Retire, Goto, WaitInv, WaitJoinsAll, Empty, Live
<1>29. ASSUME NEW m \in Completion, StartMember(m) PROVE WaitInv'
  BY <1>29 DEF StartMember, WaitInv, WaitJoinsAll
<1>30. ASSUME ChangeAgentType PROVE WaitInv'
  BY <1>30 DEF ChangeAgentType, Rewrite, WaitInv, WaitJoinsAll, Empty, Live
<1>31. ASSUME ReopenSession PROVE WaitInv'
  BY <1>31 DEF ReopenSession, Rewrite, WaitInv, WaitJoinsAll, Empty, Live
<1>32. ASSUME ArchiveSession PROVE WaitInv'
  BY <1>32 DEF ArchiveSession, Rewrite, WaitInv, WaitJoinsAll, Empty, Live
<1>33. ASSUME DeleteSession PROVE WaitInv'
  BY <1>33 DEF DeleteSession, Invalidate, DiscardBuffers, WaitInv, WaitJoinsAll, Empty, Live
<1>34. ASSUME SweepSession PROVE WaitInv'
  BY <1>34 DEF SweepSession, Invalidate, DiscardBuffers, WaitInv, WaitJoinsAll, Empty, Live
<1>35. ASSUME CancelHarness PROVE WaitInv'
  BY <1>35 DEF CancelHarness, WaitInv, WaitJoinsAll
<1>36. ASSUME WaitScan PROVE WaitInv'
  BY <1>36 DEF WaitScan, WaitInv, WaitJoinsAll
<1>37. ASSUME WaitRescan PROVE WaitInv'
  <2>1. WaitInv' \/ ~WaitBusy BY <1>37 DEF WaitRescan, WaitInv, WaitJoinsAll, ProcessType
  <2>2. CASE ~WaitBusy
    <3>1. \A o \in Op : pc[o] \notin SlotPc
      BY <2>2 DEF WaitBusy, RunInv
    <3>2. \A x \in Thread : pc[x] \notin HolderPc BY <2>2 DEF WaitBusy, HoldInv
    <3>3. prep = {} BY <3>1, <3>2 DEF PrepInv, PreparationsReleased, SlotPc, HolderPc
    <3>4. \A o \in Op : ~Live(o) BY <3>1 DEF Live, SlotPc
    <3>5. UNCHANGED <<prep, pc, ctx>> /\ Empty' BY <1>37 DEF WaitRescan, DiscardBuffers, Empty
    <3>6. QED BY <1>37, <3>3, <3>4, <3>5 DEF WaitRescan, WaitInv, WaitJoinsAll, Live
  <2>3. QED BY <2>1, <2>2
<1>38. ASSUME Crash PROVE WaitInv'
  BY <1>38 DEF Crash, WaitInv, WaitJoinsAll
<1>39. ASSUME Restart PROVE WaitInv'
  BY <1>39 DEF Restart, WaitInv, WaitJoinsAll
<1>40. ASSUME NEW o \in Op, Recover(o) PROVE WaitInv'
  BY <1>40 DEF Recover, Recoverable, WaitInv, WaitJoinsAll
<1>41. CASE UNCHANGED vars
  BY <1>41 DEF vars, WaitInv, WaitJoinsAll, Empty, Live
<1>42. QED
  BY <1>1, <1>2, <1>3, <1>4, <1>5, <1>6, <1>7, <1>8, <1>9, <1>10, <1>11, <1>12,
       <1>13, <1>14, <1>15, <1>16, <1>17, <1>18, <1>19, <1>20, <1>21, <1>22, <1>23, <1>24,
       <1>25, <1>26, <1>27, <1>28, <1>29, <1>30, <1>31, <1>32, <1>33, <1>34, <1>35, <1>36,
       <1>37, <1>38, <1>39, <1>40, <1>41
     DEF Next, CallerCall, CallerProgress, AdmissionStep, ExecutionStep, LifecycleStep, ProcessStep

(* What makes a Session active is an execution that will drain, or an
   unsettled Operation. *)
LEMMA ActiveDrains ==
  ASSUME TypeInv, RegisterInv, CoordinatorInv, Active, ctx = "live"
  PROVE  DrainAhead \/ current # NoOp
<1>1. CASE graph.current # NoOp BY <1>1 DEF CoordinatorInv, ViewInv
<1>2. CASE run # NoOp
  <2>1. run \in Op /\ run \in Thread
    BY <1>2 DEF TypeInv, TypeOK, CoordinatorType, Thread
  <2>2. CASE pc[run] \in SlotPc BY <2>1, <2>2 DEF SlotPc, AdmissionPc, DrainAhead
  <2>3. CASE pc[run] \in {"release", "retire"}
    BY <1>2, <2>3 DEF CoordinatorInv, RunInv
  <2>4. QED BY <1>2, <2>2, <2>3 DEF CoordinatorInv, RunInv
<1>3. QED BY <1>1, <1>2 DEF Active

(* Accepted input keeps a drain ahead of it, or an unsettled Operation. *)
LEMMA InputStep == TypeInv /\ RegisterInv /\ CoordinatorInv /\ [Next]_vars => InputInv'
<1>. SUFFICES ASSUME TypeInv /\ RegisterInv /\ CoordinatorInv, [Next]_vars PROVE InputInv'
  OBVIOUS
<1>. USE SessionAssumption DEF TypeInv, TypeOK, durableVars, fifoVars, bgVars, threadVars,
       processVars, historyVars, CoordinatorInv, Thread, ThreadType
<1>1. ASSUME NEW t \in Caller, NEW o \in Op, SubmitReserve(t, o) PROVE InputInv'
  BY <1>1 DEF SubmitReserve, Reserve, Goto, InputInv, NoStrandedInput, DrainAhead, Empty
<1>2. ASSUME NEW t \in Caller, NEW o \in Op, CompactReserve(t, o) PROVE InputInv'
  BY <1>2 DEF CompactReserve, Reserve, Goto, CompactIdle, InputInv, NoStrandedInput,
       DrainAhead, Empty
<1>3. ASSUME NEW t \in Caller, NEW o \in Op, DeliverClaim(t, o) PROVE InputInv'
  BY <1>3 DEF DeliverClaim, Goto, Claimable, InputInv, NoStrandedInput, DrainAhead, Empty
<1>4. ASSUME NEW t \in Caller, InterruptCall(t) PROVE InputInv'
  BY <1>4 DEF InterruptCall, Goto, InputInv, NoStrandedInput, DrainAhead, Empty
<1>5. ASSUME NEW t \in Caller, StopCall(t) PROVE InputInv'
  BY <1>5 DEF StopCall, Goto, DiscardBuffers, InputInv, NoStrandedInput, DrainAhead, Empty
<1>6. ASSUME NEW t \in Caller, CallerGivesUp(t) PROVE InputInv'
  BY <1>6 DEF CallerGivesUp, Goto, InputInv, NoStrandedInput, DrainAhead, Empty
<1>7. ASSUME NEW t \in Caller, NEW mode \in {"regular", "queued"}, SubmitRoute(t, mode)
      PROVE  InputInv'
  BY <1>7, ActiveDrains DEF SubmitRoute, Goto, InputInv, NoStrandedInput, DrainAhead, Empty,
       RegisterInv, DownInv
<1>8. ASSUME NEW t \in Caller, CompactRoute(t) PROVE InputInv'
  BY <1>8 DEF CompactRoute, Goto, CompactIdle, Active, InputInv, NoStrandedInput,
       DrainAhead, Empty
<1>9. ASSUME NEW t \in Caller, Cancel(t) PROVE InputInv'
  BY <1>9 DEF Cancel, Goto, CanceledRun, InputInv, NoStrandedInput, DrainAhead, Empty
<1>10. ASSUME NEW t \in Caller, DeliverRoute(t) PROVE InputInv'
  BY <1>10, ActiveDrains DEF DeliverRoute, Goto, DeliveryPriority, Unreceivable, InputInv,
       NoStrandedInput, DrainAhead, Empty, RegisterInv, DownInv
<1>11. ASSUME NEW t \in Caller, DeliverReserve(t) PROVE InputInv'
  BY <1>11 DEF DeliverReserve, Reserve, Goto, InputInv, NoStrandedInput, DrainAhead, Empty
<1>12. ASSUME NEW t \in Caller, DeliverReroute(t) PROVE InputInv'
  BY <1>12, ActiveDrains DEF DeliverReroute, Goto, DeliveryPriority, InputInv,
       NoStrandedInput, DrainAhead, Empty, RegisterInv, DownInv
<1>13. ASSUME NEW t \in Caller, DeliverSignal(t) PROVE InputInv'
  BY <1>13 DEF DeliverSignal, Goto, Loaded, View, Fault, InputInv, NoStrandedInput,
       DrainAhead, Empty
<1>14. ASSUME NEW t \in Caller, DeliverFinish(t) PROVE InputInv'
  BY <1>14 DEF DeliverFinish, Goto, InputInv, NoStrandedInput, DrainAhead, Empty
<1>15. ASSUME NEW t \in Thread, AdmitGuard(t) PROVE InputInv'
  BY <1>15 DEF AdmitGuard, Goto, AdmitNext, AdmitRefused, Refusal, InputInv,
       NoStrandedInput, DrainAhead, Empty
<1>16. ASSUME NEW t \in Thread, Prepare(t) PROVE InputInv'
  BY <1>16 DEF Prepare, Goto, Refusal, InputInv, NoStrandedInput, DrainAhead, Empty
<1>17. ASSUME NEW t \in Thread, Publish(t) PROVE InputInv'
  BY <1>17 DEF Publish, Goto, Refusal, ReleasePrepared, ProduceAdmission, Loaded, View,
       Fault, InputInv, NoStrandedInput, DrainAhead, Empty
<1>18. ASSUME NEW t \in Thread, Adopt(t) PROVE InputInv'
  BY <1>18 DEF Adopt, Goto, InputInv, NoStrandedInput, DrainAhead, RegisterInv, DownInv
<1>19. ASSUME NEW t \in Thread, Install(t) PROVE InputInv'
  <2>1. item[t] \in Op /\ pc'[item[t]] = "spawned"
    BY <1>19 DEF Install, ItemOK, ItemPc, RegisterInv, AdmissionView
  <2>2. DrainAhead' BY <2>1 DEF DrainAhead
  <2>3. ctx # "down" BY <1>19 DEF Install, RegisterInv, DownInv
  <2>4. QED BY <1>19, <2>2, <2>3 DEF Install, InputInv, NoStrandedInput
<1>20. ASSUME NEW t \in Thread, Release(t) PROVE InputInv'
  BY <1>20 DEF Release, Goto, AfterRelease, InputInv, NoStrandedInput, DrainAhead, Empty
<1>21. ASSUME NEW o \in Op, Enter(o) PROVE InputInv'
  BY <1>21 DEF Enter, Goto, InputInv, NoStrandedInput, DrainAhead, Empty
<1>22. ASSUME NEW o \in Op, Work(o) PROVE InputInv'
  BY <1>22 DEF Work, Goto, PublicationFails, Fault, Loaded, View, InputInv, NoStrandedInput,
       DrainAhead, Empty
<1>23. ASSUME NEW o \in Op, EffectTerminal(o) PROVE InputInv'
  BY <1>23 DEF EffectTerminal, Goto, CommitTerminal, Guarded, View, InputInv,
       NoStrandedInput, DrainAhead, Empty
<1>24. ASSUME NEW o \in Op, CompleteReserve(o) PROVE InputInv'
  BY <1>24 DEF CompleteReserve, Reserve, Goto, InputInv, NoStrandedInput, DrainAhead, Empty
<1>25. ASSUME NEW o \in Op, Settle(o) PROVE InputInv'
  <2>1. ctx' = ctx /\ UNCHANGED fifoVars /\ pc[o] = "settle" BY <1>25 DEF Settle
  <2>2. reserved # o => ctx = "canceled" BY <2>1 DEF HoldInv
  <2>3. reserved = o => DrainAhead' BY <1>25 DEF Settle, Goto, DrainAhead
  <2>4. ctx # "down" BY <2>1 DEF RegisterInv, DownInv
  <2>5. QED BY <2>1, <2>2, <2>3, <2>4 DEF InputInv, NoStrandedInput
<1>26. ASSUME NEW o \in Op, Drain(o) PROVE InputInv'
  <2>1. ctx' = ctx /\ current' = current /\ graph' = graph BY <1>26 DEF Drain
  <2>2. ctx # "down" BY <1>26 DEF Drain, RegisterInv, DownInv
  <2>3. CASE ctx = "live" /\ graph.current # NoOp
    BY <2>1, <2>3 DEF InputInv, NoStrandedInput, ViewInv
  <2>4. CASE Empty /\ UNCHANGED fifoVars
    BY <2>2, <2>1, <2>4 DEF InputInv, NoStrandedInput, Empty
  <2>5. CASE Goto(o, "admit")
    <3>1. DrainAhead' BY <2>5 DEF DrainAhead, Goto
    <3>2. QED BY <2>1, <2>2, <3>1 DEF InputInv, NoStrandedInput
  <2>6. CASE ctx = "canceled" BY <2>1, <2>6 DEF InputInv, NoStrandedInput
  <2>7. QED BY <1>26, <2>3, <2>4, <2>5, <2>6 DEF Drain
<1>27. ASSUME NEW o \in Op, Drop(o) PROVE InputInv'
  BY <1>27 DEF Drop, Goto, DropBuffered, InputInv, NoStrandedInput, DrainAhead, Empty
<1>28. ASSUME NEW o \in Op, Retire(o) PROVE InputInv'
  BY <1>28 DEF Retire, Goto, Retirement, InputInv, NoStrandedInput, DrainAhead, Empty
<1>29. ASSUME NEW m \in Completion, StartMember(m) PROVE InputInv'
  BY <1>29 DEF StartMember, InputInv, NoStrandedInput, DrainAhead, Empty
<1>30. ASSUME ChangeAgentType PROVE InputInv'
  BY <1>30 DEF ChangeAgentType, LifecycleIdle, Rewrite, Loaded, View, InputInv,
       NoStrandedInput, DrainAhead, Empty
<1>31. ASSUME ReopenSession PROVE InputInv'
  BY <1>31 DEF ReopenSession, LifecycleIdle, Rewrite, Loaded, View, InputInv,
       NoStrandedInput, DrainAhead, Empty
<1>32. ASSUME ArchiveSession PROVE InputInv'
  BY <1>32 DEF ArchiveSession, LifecycleIdle, Quiescent, Active, Rewrite, Loaded, View,
       InputInv, NoStrandedInput, DrainAhead, Empty
<1>33. ASSUME DeleteSession PROVE InputInv'
  BY <1>33 DEF DeleteSession, LifecycleIdle, Invalidate, DiscardBuffers, InputInv,
       NoStrandedInput, DrainAhead, Empty
<1>34. ASSUME SweepSession PROVE InputInv'
  BY <1>34 DEF SweepSession, LifecycleIdle, Quiescent, Active, Invalidate, DiscardBuffers,
       View, InputInv, NoStrandedInput, DrainAhead, Empty
<1>35. ASSUME CancelHarness PROVE InputInv'
  BY <1>35 DEF CancelHarness, InputInv, NoStrandedInput, DrainAhead, Empty
<1>36. ASSUME WaitScan PROVE InputInv'
  BY <1>36 DEF WaitScan, InputInv, NoStrandedInput, DrainAhead, Empty
<1>37. ASSUME WaitRescan PROVE InputInv'
  BY <1>37 DEF WaitRescan, WaitBusy, DiscardBuffers, InputInv, NoStrandedInput, DrainAhead,
       Empty
<1>38. ASSUME Crash PROVE InputInv'
  BY <1>38 DEF Crash, DiscardBuffers, InputInv, NoStrandedInput, DrainAhead, Empty
<1>39. ASSUME Restart PROVE InputInv'
  BY <1>39 DEF Restart, Loaded, View, InputInv, NoStrandedInput, DrainAhead, Empty
<1>40. ASSUME NEW o \in Op, Recover(o) PROVE InputInv'
  BY <1>40 DEF Recover, Recoverable, CommitTerminal, View, InputInv, NoStrandedInput,
       DrainAhead, Empty
<1>41. CASE UNCHANGED vars
  BY <1>41 DEF vars, InputInv, NoStrandedInput, DrainAhead, Empty
<1>42. QED
  BY <1>1, <1>2, <1>3, <1>4, <1>5, <1>6, <1>7, <1>8, <1>9, <1>10, <1>11, <1>12,
       <1>13, <1>14, <1>15, <1>16, <1>17, <1>18, <1>19, <1>20, <1>21, <1>22, <1>23, <1>24,
       <1>25, <1>26, <1>27, <1>28, <1>29, <1>30, <1>31, <1>32, <1>33, <1>34, <1>35, <1>36,
       <1>37, <1>38, <1>39, <1>40, <1>41
     DEF Next, CallerCall, CallerProgress, AdmissionStep, ExecutionStep, LifecycleStep, ProcessStep

(* What the FIFOs hold after an append and after a head's removal. *)
LEMMA FifoRanges ==
  ASSUME NEW s \in Seq(Op)
  PROVE  /\ \A e \in Op : Range(Append(s, e)) = Range(s) \cup {e}
         /\ s # <<>> => Range(Tail(s)) \subseteq Range(s) /\ Head(s) \in Range(s)
         /\ Range(<<>>) = {}
<1>1. ASSUME NEW e \in Op PROVE Range(Append(s, e)) = Range(s) \cup {e}
  <2>1. /\ DOMAIN Append(s, e) = 1 .. Len(s) + 1
        /\ Append(s, e)[Len(s) + 1] = e
        /\ \A i \in 1 .. Len(s) : Append(s, e)[i] = s[i]
    OBVIOUS
  <2>2. DOMAIN s = 1 .. Len(s) /\ Len(s) \in Nat OBVIOUS
  <2>3. ASSUME NEW i \in DOMAIN Append(s, e) PROVE Append(s, e)[i] \in Range(s) \cup {e}
    <3>1. i = Len(s) + 1 \/ i \in 1 .. Len(s) BY <2>1, <2>2
    <3>2. QED BY <2>1, <2>2, <3>1 DEF Range
  <2>4. \A x \in Range(s) \cup {e} : \E i \in DOMAIN Append(s, e) : x = Append(s, e)[i]
    BY <2>1, <2>2 DEF Range
  <2>5. QED BY <2>3, <2>4 DEF Range
<1>2. ASSUME s # <<>> PROVE Range(Tail(s)) \subseteq Range(s) /\ Head(s) \in Range(s)
  BY <1>2 DEF Range
<1>3. Range(<<>>) = {} BY DEF Range
<1>4. QED BY <1>1, <1>2, <1>3

(* A step that hands no completion to anyone: nothing is claimed, buffered
   or signalled, and whoever carries one afterwards carried it before. *)
Carries ==
    /\ members' \subseteq members /\ claimed' = claimed /\ signals' = signals
    /\ Buffered' \cap Completion \subseteq Buffered
    /\ \A m \in Completion : status[m] = "absent" => status'[m] = "absent"
    /\ \A t \in Thread :
          /\ pc'[t] \in {"route", "compactRoute"} => item'[t] \notin Completion
          /\ pc'[t] \in DeliverPc => pc[t] \in DeliverPc /\ item'[t] = item[t]
          /\ pc'[t] \in CarryPc => \/ pc[t] \in CarryPc /\ item'[t] = item[t]
                                   \/ item'[t] \notin Completion

(* A step that only carries completions on keeps the member table's
   promises. *)
LEMMA MemberFrame ==
  ASSUME TypeInv, MemberInv, Carries
  PROVE  MemberInv'
<1>. USE DEF TypeInv, TypeOK, ThreadType, DurableType, CoordinatorType, MemberInv, Carries
<1>0. \A t \in Thread : pc[t] \in DeliverPc => item[t] \in Completion
  BY DEF ItemOK, CompletionPc, DeliverPc
<1>1. \A m \in Completion : Undelivered(m) => Undelivered(m)' BY DEF Undelivered
<1>2. CompletionOnce' BY DEF CompletionOnce
<1>3. \A m \in members' \ claimed' : Undelivered(m)' BY <1>1
<1>4. \A t \in Thread : pc'[t] \in DeliverPc => item'[t] \in Completion /\ Undelivered(item[t])'
  <2>. SUFFICES ASSUME NEW t \in Thread, pc'[t] \in DeliverPc
               PROVE  item'[t] \in Completion /\ Undelivered(item[t])'
    OBVIOUS
  <2>1. item[t] \in Completion /\ Undelivered(item[t]) /\ item'[t] = item[t] BY <1>0
  <2>2. QED BY <2>1 DEF Undelivered
<1>5. \A t \in Thread : pc'[t] \in CarryPc /\ item'[t] \in Completion => item'[t] \in claimed' /\ item'[t] \notin signals'
  OBVIOUS
<1>6. \A s, t \in Thread : pc'[t] \in DeliverPc /\ pc'[s] \in CarryPc /\ item'[s] = item'[t] => s = t
  <2>. SUFFICES ASSUME NEW s \in Thread, NEW t \in Thread, pc'[t] \in DeliverPc, pc'[s] \in CarryPc,
                      item'[s] = item'[t]
               PROVE  s = t
    OBVIOUS
  <2>1. item'[t] \in Completion BY <1>4
  <2>2. QED BY <2>1
<1>7. QED BY <1>2, <1>3, <1>4, <1>5, <1>6

(* A discard or a dropped head adds nothing to the FIFOs. *)
LEMMA BuffersShrink ==
  ASSUME CoordinatorType, UNCHANGED fifoVars \/ DiscardBuffers \/ \E o \in Op : DropBuffered(o)
  PROVE  Buffered' \subseteq Buffered
<1>1. CASE UNCHANGED fifoVars BY <1>1 DEF fifoVars, Buffered
<1>2. CASE DiscardBuffers
  <2>1. Range(steering') = {} /\ Range(queued') = {}
    BY <1>2, FifoRanges DEF DiscardBuffers, CoordinatorType
  <2>2. QED BY <2>1 DEF Buffered
<1>3. CASE \E o \in Op : DropBuffered(o)
  <2>1. Range(steering') \subseteq Range(steering) /\ Range(queued') \subseteq Range(queued)
    BY <1>3, FifoRanges DEF DropBuffered, HeadIs, CoordinatorType
  <2>2. QED BY <2>1 DEF Buffered
<1>4. QED BY <1>1, <1>2, <1>3

(* A delivery's routing buffers no completion but its own. *)
LEMMA DeliverBuffers ==
  ASSUME TypeInv, MemberInv, NEW t \in Thread, pc[t] \in DeliverPc, Buffered' = Buffered \cup {item[t]},
         pc'[t] \notin CarryPc \cup {"route", "compactRoute"},
         \A s \in Thread \ {t} : pc'[s] = pc[s],
         UNCHANGED <<members, claimed, signals, status, item>>
  PROVE  MemberInv'
<1>. USE DEF TypeInv, TypeOK, ThreadType, DurableType, CoordinatorType, MemberInv
<1>1. item[t] \in Completion /\ item[t] \in claimed /\ Undelivered(item[t])
  BY DEF ItemOK, CompletionPc, DeliverPc, CarryPc
<1>2. \A m \in Completion : Undelivered(m) /\ m # item[t] => Undelivered(m)' BY DEF Undelivered
<1>3. CompletionOnce' BY <1>1 DEF CompletionOnce, Undelivered
<1>4. \A s \in Thread : pc'[s] \in DeliverPc => s # t /\ item[s] # item[t] /\ item[s] \in Completion
  BY DEF CarryPc, ItemOK, CompletionPc, DeliverPc
<1>5. \A s \in Thread : pc'[s] \in DeliverPc => Undelivered(item[s])'
  <2>. SUFFICES ASSUME NEW s \in Thread, pc'[s] \in DeliverPc PROVE Undelivered(item[s])' OBVIOUS
  <2>1. Undelivered(item[s]) /\ item[s] # item[t] BY <1>4
  <2>2. QED BY <2>1 DEF Undelivered
<1>6. \A m \in members' \ claimed' : Undelivered(m)' BY <1>1, <1>2
<1>7. QED BY <1>1, <1>3, <1>5, <1>6

(* A background completion stays in one place at a time. *)
LEMMA MemberStep == TypeInv /\ RegisterInv /\ CoordinatorInv /\ [Next]_vars => MemberInv'
<1>. SUFFICES ASSUME TypeInv /\ RegisterInv /\ CoordinatorInv, [Next]_vars PROVE MemberInv'
  OBVIOUS
<1>. USE SessionAssumption DEF TypeInv, TypeOK, durableVars, fifoVars, bgVars, threadVars,
       processVars, historyVars, CoordinatorInv, Thread, ThreadType
<1>0. ASSUME UNCHANGED fifoVars \/ DiscardBuffers \/ \E o \in Op : DropBuffered(o)
      PROVE  Buffered' \subseteq Buffered
  BY <1>0, BuffersShrink
<1>1. ASSUME NEW t \in Caller, NEW o \in Op, SubmitReserve(t, o) PROVE MemberInv'
  <2>1. Carries BY <1>1, <1>0 DEF SubmitReserve, Reserve, Goto, Carries, CarryPc, DeliverPc,
         MemberInv
  <2>2. QED BY <2>1, MemberFrame
<1>2. ASSUME NEW t \in Caller, NEW o \in Op, CompactReserve(t, o) PROVE MemberInv'
  <2>1. Carries BY <1>2, <1>0 DEF CompactReserve, Reserve, Goto, CompactIdle, Carries, CarryPc,
         DeliverPc, MemberInv
  <2>2. QED BY <2>1, MemberFrame
<1>3. ASSUME NEW t \in Caller, NEW o \in Op, DeliverClaim(t, o) PROVE MemberInv'
  BY <1>3 DEF DeliverClaim, Goto, Claimable, MemberInv, CompletionOnce, DeliverPc, CarryPc,
       Undelivered, Buffered, RegisterInv, DownInv, ProcessType, CoordinatorType,
       DurableType
<1>4. ASSUME NEW t \in Caller, InterruptCall(t) PROVE MemberInv'
  <2>1. Carries BY <1>4, <1>0 DEF InterruptCall, Goto, Carries, CarryPc, DeliverPc, MemberInv
  <2>2. QED BY <2>1, MemberFrame
<1>5. ASSUME NEW t \in Caller, StopCall(t) PROVE MemberInv'
  <2>1. Carries BY <1>5, <1>0 DEF StopCall, Goto, Carries, CarryPc, DeliverPc, MemberInv
  <2>2. QED BY <2>1, MemberFrame
<1>6. ASSUME NEW t \in Caller, CallerGivesUp(t) PROVE MemberInv'
  <2>1. Carries BY <1>6, <1>0 DEF CallerGivesUp, Goto, Carries, CarryPc, DeliverPc, MemberInv
  <2>2. QED BY <2>1, MemberFrame
<1>7. ASSUME NEW t \in Caller, NEW mode \in {"regular", "queued"}, SubmitRoute(t, mode)
      PROVE  MemberInv'
  <2>1. item[t] \in Op /\ item[t] \notin Completion
    BY <1>7 DEF SubmitRoute, MemberInv, ItemOK, ItemPc
  <2>2. Buffered' \cap Completion \subseteq Buffered
    <3>1. CASE UNCHANGED fifoVars BY <1>0, <3>1
    <3>2. CASE steering' = Append(steering, item[t]) /\ UNCHANGED queued
      BY <2>1, <3>2, FifoRanges DEF Buffered, CoordinatorType
    <3>3. CASE queued' = Append(queued, item[t]) /\ UNCHANGED steering
      BY <2>1, <3>3, FifoRanges DEF Buffered, CoordinatorType
    <3>4. QED BY <1>7, <3>1, <3>2, <3>3 DEF SubmitRoute
  <2>3. Carries
    BY <1>7, <2>1, <2>2 DEF SubmitRoute, Goto, Carries, CarryPc, DeliverPc, MemberInv
  <2>4. QED BY <2>3, MemberFrame
<1>8. ASSUME NEW t \in Caller, CompactRoute(t) PROVE MemberInv'
  <2>1. Carries BY <1>8, <1>0 DEF CompactRoute, Goto, CompactIdle, Active, Carries, CarryPc,
         DeliverPc, MemberInv
  <2>2. QED BY <2>1, MemberFrame
<1>9. ASSUME NEW t \in Caller, Cancel(t) PROVE MemberInv'
  <2>1. Carries BY <1>9, <1>0 DEF Cancel, Goto, CanceledRun, Carries, CarryPc, DeliverPc,
         MemberInv
  <2>2. QED BY <2>1, MemberFrame
<1>10. ASSUME NEW t \in Caller, DeliverRoute(t) PROVE MemberInv'
  <2>1. CASE UNCHANGED fifoVars
    <3>1. Carries
     
        BY <1>10, <1>0, <2>1 DEF DeliverRoute, DeliveryPriority, Goto, Carries, CarryPc, DeliverPc, MemberInv
    <3>2. QED BY <3>1, MemberFrame
  <2>2. CASE /\ steering' = Append(steering, item[t]) /\ UNCHANGED queued
             /\ pc' = [pc EXCEPT ![t] = "finish"]
    <3>1. Buffered' = Buffered \cup {item[t]} /\ pc[t] \in DeliverPc
     
        BY <1>10, <2>2, FifoRanges DEF DeliverRoute, Buffered, CoordinatorType, ItemOK, CompletionPc, DeliverPc
    <3>2. UNCHANGED <<members, claimed, signals, status, item>> BY <1>10 DEF DeliverRoute
    <3>3. QED BY <2>2, <3>1, <3>2, DeliverBuffers DEF CarryPc, DeliverPc
  <2>3. QED BY <1>10, <2>1, <2>2 DEF DeliverRoute, DeliveryPriority, Goto
<1>11. ASSUME NEW t \in Caller, DeliverReserve(t) PROVE MemberInv'
  <2>1. Carries BY <1>11, <1>0 DEF DeliverReserve, Reserve, Goto, Carries, CarryPc, DeliverPc,
         MemberInv
  <2>2. QED BY <2>1, MemberFrame
<1>12. ASSUME NEW t \in Caller, DeliverReroute(t) PROVE MemberInv'
  <2>1. CASE UNCHANGED fifoVars
    <3>1. Carries
     
        BY <1>12, <1>0, <2>1 DEF DeliverReroute, DeliveryPriority, Goto, Carries, CarryPc, DeliverPc, MemberInv
    <3>2. QED BY <3>1, MemberFrame
  <2>2. CASE /\ steering' = Append(steering, item[t]) /\ UNCHANGED queued
             /\ pc' = [pc EXCEPT ![t] = "release"]
    <3>1. Buffered' = Buffered \cup {item[t]} /\ pc[t] \in DeliverPc
     
        BY <1>12, <2>2, FifoRanges DEF DeliverReroute, Buffered, CoordinatorType, ItemOK, CompletionPc, DeliverPc
    <3>2. UNCHANGED <<members, claimed, signals, status, item>> BY <1>12 DEF DeliverReroute
    <3>3. QED BY <2>2, <3>1, <3>2, DeliverBuffers DEF CarryPc, DeliverPc
  <2>3. QED BY <1>12, <2>1, <2>2 DEF DeliverReroute, DeliveryPriority, Goto
<1>13. ASSUME NEW t \in Caller, DeliverSignal(t) PROVE MemberInv'
  BY <1>13 DEF DeliverSignal, Goto, Loaded, View, Fault, MemberInv, CompletionOnce,
       DeliverPc, CarryPc, Undelivered, Buffered, RegisterInv, DownInv, ProcessType,
       CoordinatorType, DurableType
<1>14. ASSUME NEW t \in Caller, DeliverFinish(t) PROVE MemberInv'
  <2>1. Carries BY <1>14, <1>0 DEF DeliverFinish, Goto, Carries, CarryPc, DeliverPc, MemberInv
  <2>2. QED BY <2>1, MemberFrame
<1>15. ASSUME NEW t \in Thread, AdmitGuard(t) PROVE MemberInv'
  <2>1. Carries BY <1>15, <1>0 DEF AdmitGuard, Goto, AdmitNext, AdmitRefused, Refusal, Carries,
         CarryPc, DeliverPc, MemberInv
  <2>2. QED BY <2>1, MemberFrame
<1>16. ASSUME NEW t \in Thread, Prepare(t) PROVE MemberInv'
  <2>1. Carries BY <1>16, <1>0 DEF Prepare, Goto, Refusal, Carries, CarryPc, DeliverPc,
         MemberInv
  <2>2. QED BY <2>1, MemberFrame
<1>17. ASSUME NEW t \in Thread, Publish(t) PROVE MemberInv'
  <2>1. CASE UNCHANGED status
    <3>1. Carries
      BY <1>17, <1>0, <2>1 DEF Publish, Goto, Refusal, Carries, CarryPc, DeliverPc, MemberInv
    <3>2. QED BY <3>1, MemberFrame
  <2>2. CASE ProduceAdmission(item[t]) /\ pc' = [pc EXCEPT ![t] = "adopt"]
    <3>1. /\ UNCHANGED <<members, claimed, signals, fifoVars, item>>
          /\ status' = [status EXCEPT ![item[t]] = "running"] /\ pc[t] \in CarryPc
      BY <1>17, <2>2 DEF Publish, ProduceAdmission, CarryPc
    <3>2. Buffered' = Buffered BY <3>1 DEF Buffered
    <3>3. item[t] \in Completion => item[t] \in claimed /\ item[t] \notin signals
      BY <3>1 DEF MemberInv
    <3>4. \A m \in Completion : Undelivered(m) /\ m # item[t] => Undelivered(m)'
      BY <3>1, <3>2 DEF Undelivered, DurableType
    <3>5. \A m \in members' \ claimed' : Undelivered(m)'
      BY <3>1, <3>3, <3>4 DEF MemberInv, CoordinatorType
    <3>6. CompletionOnce' BY <3>1, <3>2, <3>3 DEF MemberInv, CompletionOnce, DurableType
    <3>7. \A s \in Thread : pc'[s] \in DeliverPc =>
             s # t /\ item[s] # item[t] /\ item[s] \in Completion /\ Undelivered(item[s])
      BY <2>2, <3>1 DEF MemberInv, DeliverPc, ItemOK, CompletionPc
    <3>8. \A s \in Thread : pc'[s] \in DeliverPc => Undelivered(item[s])'
      <4>. SUFFICES ASSUME NEW s \in Thread, pc'[s] \in DeliverPc PROVE Undelivered(item[s])' OBVIOUS
      <4>1. item'[s] = item[s] /\ item[s] # item[t] /\ item[s] \in Op /\ Undelivered(item[s])
        BY <3>1, <3>7
      <4>2. QED BY <3>1, <3>2, <4>1 DEF Undelivered, DurableType
    <3>9. QED BY <2>2, <3>1, <3>2, <3>5, <3>6, <3>8 DEF MemberInv, CarryPc, DeliverPc
  <2>3. QED BY <1>17, <2>1, <2>2 DEF Publish, Goto
<1>18. ASSUME NEW t \in Thread, Adopt(t) PROVE MemberInv'
  <2>1. Carries BY <1>18, <1>0 DEF Adopt, Goto, View, ItemOK, ItemPc, Carries, CarryPc,
         DeliverPc, MemberInv
  <2>2. QED BY <2>1, MemberFrame
<1>19. ASSUME NEW t \in Thread, Install(t) PROVE MemberInv'
  <2>1. Carries BY <1>19, <1>0 DEF Install, RegisterInv, AdmissionView, ItemOK, ItemPc, Carries,
         CarryPc, DeliverPc, MemberInv
  <2>2. QED BY <2>1, MemberFrame
<1>20. ASSUME NEW t \in Thread, Release(t) PROVE MemberInv'
  <2>1. Carries BY <1>20, <1>0 DEF Release, Goto, AfterRelease, Carries, CarryPc, DeliverPc,
         MemberInv
  <2>2. QED BY <2>1, MemberFrame
<1>21. ASSUME NEW o \in Op, Enter(o) PROVE MemberInv'
  <2>1. Carries BY <1>21, <1>0 DEF Enter, Goto, Carries, CarryPc, DeliverPc, MemberInv
  <2>2. QED BY <2>1, MemberFrame
<1>22. ASSUME NEW o \in Op, Work(o) PROVE MemberInv'
  <2>1. Carries BY <1>22, <1>0 DEF Work, Goto, PublicationFails, Fault, Loaded, View, Carries,
         CarryPc, DeliverPc, MemberInv
  <2>2. QED BY <2>1, MemberFrame
<1>23. ASSUME NEW o \in Op, EffectTerminal(o) PROVE MemberInv'
  <2>1. Carries BY <1>23, <1>0 DEF EffectTerminal, Goto, CommitTerminal, Guarded, View,
         RegisterInv, FreshOps, Carries, CarryPc, DeliverPc, MemberInv
  <2>2. QED BY <2>1, MemberFrame
<1>24. ASSUME NEW o \in Op, CompleteReserve(o) PROVE MemberInv'
  <2>1. Carries BY <1>24, <1>0 DEF CompleteReserve, Reserve, Goto, Carries, CarryPc, DeliverPc,
         MemberInv
  <2>2. QED BY <2>1, MemberFrame
<1>25. ASSUME NEW o \in Op, Settle(o) PROVE MemberInv'
  <2>1. \A x \in Op : status[x] = "absent" => status'[x] = "absent"
    BY <1>25 DEF Settle, Preserved, CommitTerminal, DurableType
  <2>2. Carries BY <1>25, <1>0, <2>1 DEF Settle, Goto, Carries, CarryPc, DeliverPc, MemberInv
  <2>3. QED BY <2>2, MemberFrame
<1>26. ASSUME NEW o \in Op, Drain(o) PROVE MemberInv'
  <2>1. CASE pc' = [pc EXCEPT ![o] = "release"] /\ item' = item
    <3>1. Carries BY <1>26, <1>0, <2>1 DEF Drain, Carries, CarryPc, DeliverPc, MemberInv
    <3>2. QED BY <3>1, MemberFrame
  <2>2. ASSUME NEW h \in Buffered, pc' = [pc EXCEPT ![o] = "admit"], item' = [item EXCEPT ![o] = h],
               UNCHANGED fifoVars
        PROVE  MemberInv'
    <3>1. UNCHANGED <<members, claimed, signals, status>> BY <1>26 DEF Drain
    <3>2. Buffered' = Buffered BY <2>2 DEF Buffered
    <3>3. h \in Completion => h \in claimed /\ h \notin signals BY DEF MemberInv, CompletionOnce
    <3>4. \A s \in Thread : pc'[s] \in DeliverPc =>
             s # o /\ pc[s] \in DeliverPc /\ item[s] # h /\ item'[s] = item[s]
      BY <2>2 DEF MemberInv, Undelivered, DeliverPc
    <3>5. \A s \in Thread \ {o} : pc'[s] = pc[s] /\ item'[s] = item[s] BY <2>2
    <3>6. pc'[o] = "admit" /\ item'[o] = h BY <2>2
    <3>7. \A x : Undelivered(x)' <=> Undelivered(x) BY <3>1, <3>2 DEF Undelivered
    <3>8. \A s \in Thread : pc'[s] \in DeliverPc => Undelivered(item[s]) BY <3>4 DEF MemberInv
    <3>9. QED BY <3>1, <3>2, <3>3, <3>4, <3>5, <3>6, <3>7, <3>8
              DEF MemberInv, CompletionOnce, CarryPc, DeliverPc, Undelivered
  <2>3. ~Empty => Head(IF steering # <<>> THEN steering ELSE queued) \in Buffered
    BY FifoRanges DEF Empty, Buffered, CoordinatorType
  <2>4. QED BY <1>26, <2>1, <2>2, <2>3 DEF Drain, Goto
<1>27. ASSUME NEW o \in Op, Drop(o) PROVE MemberInv'
  <2>1. Carries BY <1>27, <1>0 DEF Drop, Goto, ItemOK, ItemPc, Carries, CarryPc, DeliverPc,
         MemberInv
  <2>2. QED BY <2>1, MemberFrame
<1>28. ASSUME NEW o \in Op, Retire(o) PROVE MemberInv'
  <2>1. Carries BY <1>28, <1>0 DEF Retire, Goto, Retirement, Carries, CarryPc, DeliverPc,
         MemberInv
  <2>2. QED BY <2>1, MemberFrame
<1>29. ASSUME NEW m \in Completion, StartMember(m) PROVE MemberInv'
  <2>1. Undelivered(m)
    <3>1. m \notin Buffered /\ m \notin signals BY <1>29 DEF StartMember, MemberInv
    <3>2. status[m] = "absent" BY <1>29 DEF StartMember, ViewInv
    <3>3. QED BY <3>1, <3>2 DEF Undelivered
  <2>2. UNCHANGED <<pc, item, claimed, signals, status, fifoVars>> /\ members' = members \cup {m}
    BY <1>29 DEF StartMember
  <2>3. Buffered' = Buffered BY <2>2 DEF Buffered
  <2>4. \A x : Undelivered(x)' <=> Undelivered(x) BY <2>2, <2>3 DEF Undelivered
  <2>5. QED BY <2>1, <2>2, <2>3, <2>4 DEF MemberInv, CompletionOnce, Undelivered
<1>30. ASSUME ChangeAgentType PROVE MemberInv'
  <2>1. Carries BY <1>30, <1>0 DEF ChangeAgentType, LifecycleIdle, Rewrite, Loaded, View,
         Carries, CarryPc, DeliverPc, MemberInv
  <2>2. QED BY <2>1, MemberFrame
<1>31. ASSUME ReopenSession PROVE MemberInv'
  <2>1. Carries BY <1>31, <1>0 DEF ReopenSession, LifecycleIdle, Rewrite, Loaded, View, Carries,
         CarryPc, DeliverPc, MemberInv
  <2>2. QED BY <2>1, MemberFrame
<1>32. ASSUME ArchiveSession PROVE MemberInv'
  <2>1. Carries BY <1>32, <1>0 DEF ArchiveSession, LifecycleIdle, Quiescent, Active, Rewrite,
         Loaded, View, Carries, CarryPc, DeliverPc, MemberInv
  <2>2. QED BY <2>1, MemberFrame
<1>33. ASSUME DeleteSession PROVE MemberInv'
  <2>1. Carries BY <1>33, <1>0 DEF DeleteSession, LifecycleIdle, Invalidate, Carries, CarryPc,
         DeliverPc, MemberInv
  <2>2. QED BY <2>1, MemberFrame
<1>34. ASSUME SweepSession PROVE MemberInv'
  <2>1. Carries BY <1>34, <1>0 DEF SweepSession, LifecycleIdle, Quiescent, Active, Invalidate,
         View, Carries, CarryPc, DeliverPc, MemberInv
  <2>2. QED BY <2>1, MemberFrame
<1>35. ASSUME CancelHarness PROVE MemberInv'
  <2>1. Carries BY <1>35, <1>0 DEF CancelHarness, Carries, CarryPc, DeliverPc, MemberInv
  <2>2. QED BY <2>1, MemberFrame
<1>36. ASSUME WaitScan PROVE MemberInv'
  <2>1. Carries BY <1>36, <1>0 DEF WaitScan, Carries, CarryPc, DeliverPc, MemberInv
  <2>2. QED BY <2>1, MemberFrame
<1>37. ASSUME WaitRescan PROVE MemberInv'
  <2>1. Carries BY <1>37, <1>0 DEF WaitRescan, WaitBusy, Carries, CarryPc, DeliverPc, MemberInv
  <2>2. QED BY <2>1, MemberFrame
<1>38. ASSUME Crash PROVE MemberInv'
  <2>1. Buffered' = {}
    <3>1. steering' = <<>> /\ queued' = <<>> BY <1>38 DEF Crash, DiscardBuffers
    <3>2. <<>> \in Seq(Op) OBVIOUS
    <3>3. QED BY <3>1, <3>2, FifoRanges DEF Buffered
  <2>2. UNCHANGED <<status, signals>> /\ members' = {} /\ \A s \in Thread : pc'[s] \in {"down", "none"}
    BY <1>38 DEF Crash
  <2>3. QED BY <2>1, <2>2 DEF MemberInv, CompletionOnce, CarryPc, DeliverPc
<1>39. ASSUME Restart PROVE MemberInv'
  <2>1. Carries BY <1>39, <1>0 DEF Restart, Loaded, View, Carries, CarryPc, DeliverPc, MemberInv
  <2>2. QED BY <2>1, MemberFrame
<1>40. ASSUME NEW o \in Op, Recover(o) PROVE MemberInv'
  <2>1. Carries BY <1>40, <1>0 DEF Recover, Recoverable, CommitTerminal, View, Carries, CarryPc,
         DeliverPc, MemberInv
  <2>2. QED BY <2>1, MemberFrame
<1>41. CASE UNCHANGED vars
  <2>1. Carries BY <1>41, <1>0 DEF vars, Carries, CarryPc, DeliverPc, MemberInv
  <2>2. QED BY <2>1, MemberFrame
<1>42. QED
  BY <1>1, <1>2, <1>3, <1>4, <1>5, <1>6, <1>7, <1>8, <1>9, <1>10, <1>11, <1>12,
       <1>13, <1>14, <1>15, <1>16, <1>17, <1>18, <1>19, <1>20, <1>21, <1>22, <1>23, <1>24,
       <1>25, <1>26, <1>27, <1>28, <1>29, <1>30, <1>31, <1>32, <1>33, <1>34, <1>35, <1>36,
       <1>37, <1>38, <1>39, <1>40, <1>41
     DEF Next, CallerCall, CallerProgress, AdmissionStep, ExecutionStep, LifecycleStep, ProcessStep

(* The lifecycle gate, held with the reservation, keeps busy state out of
   an archived or deleted Session. *)
LEMMA ArchivedStep == TypeInv /\ RegisterInv /\ CoordinatorInv /\ [Next]_vars => ArchivedIsQuiet'
<1>. SUFFICES ASSUME TypeInv /\ RegisterInv /\ CoordinatorInv, [Next]_vars PROVE ArchivedIsQuiet'
  OBVIOUS
<1>. USE SessionAssumption DEF TypeInv, TypeOK, durableVars, fifoVars, bgVars, threadVars,
       processVars, historyVars, CoordinatorInv, Thread, ThreadType
<1>1. ASSUME NEW t \in Caller, NEW o \in Op, SubmitReserve(t, o) PROVE ArchivedIsQuiet'
  BY <1>1 DEF SubmitReserve, Reserve, Goto, ArchivedIsQuiet, Empty, Live
<1>2. ASSUME NEW t \in Caller, NEW o \in Op, CompactReserve(t, o) PROVE ArchivedIsQuiet'
  BY <1>2 DEF CompactReserve, Reserve, Goto, ArchivedIsQuiet, Empty, Live
<1>3. ASSUME NEW t \in Caller, NEW o \in Op, DeliverClaim(t, o) PROVE ArchivedIsQuiet'
  BY <1>3 DEF DeliverClaim, Claimable, ArchivedIsQuiet
<1>4. ASSUME NEW t \in Caller, InterruptCall(t) PROVE ArchivedIsQuiet'
  BY <1>4 DEF InterruptCall, Goto, ArchivedIsQuiet, Empty, Live
<1>5. ASSUME NEW t \in Caller, StopCall(t) PROVE ArchivedIsQuiet'
  BY <1>5 DEF StopCall, Goto, DiscardBuffers, ArchivedIsQuiet, Empty, Live
<1>6. ASSUME NEW t \in Caller, CallerGivesUp(t) PROVE ArchivedIsQuiet'
  BY <1>6 DEF CallerGivesUp, Goto, ArchivedIsQuiet, Empty, Live
<1>7. ASSUME NEW t \in Caller, NEW mode \in {"regular", "queued"}, SubmitRoute(t, mode)
      PROVE  ArchivedIsQuiet'
  BY <1>7 DEF SubmitRoute, Goto, Active, ArchivedIsQuiet, ViewInv, Empty, Live
<1>8. ASSUME NEW t \in Caller, CompactRoute(t) PROVE ArchivedIsQuiet'
  BY <1>8 DEF CompactRoute, Goto, CompactIdle, Active, ArchivedIsQuiet, Live, Empty
<1>9. ASSUME NEW t \in Caller, Cancel(t) PROVE ArchivedIsQuiet'
  BY <1>9 DEF Cancel, Goto, CanceledRun, ArchivedIsQuiet, Live, Empty
<1>10. ASSUME NEW t \in Caller, DeliverRoute(t) PROVE ArchivedIsQuiet'
  BY <1>10 DEF DeliverRoute, Goto, DeliveryPriority, Active, ArchivedIsQuiet, ViewInv,
       Empty, Live
<1>11. ASSUME NEW t \in Caller, DeliverReserve(t) PROVE ArchivedIsQuiet'
  BY <1>11 DEF DeliverReserve, Reserve, Goto, ArchivedIsQuiet, Live, Empty
<1>12. ASSUME NEW t \in Caller, DeliverReroute(t) PROVE ArchivedIsQuiet'
  BY <1>12 DEF DeliverReroute, Goto, DeliveryPriority, Active, ArchivedIsQuiet, ViewInv,
       Empty, Live
<1>13. ASSUME NEW t \in Caller, DeliverSignal(t) PROVE ArchivedIsQuiet'
  BY <1>13 DEF DeliverSignal, Goto, Loaded, View, Fault, ArchivedIsQuiet, Live, Empty
<1>14. ASSUME NEW t \in Caller, DeliverFinish(t) PROVE ArchivedIsQuiet'
  BY <1>14 DEF DeliverFinish, Goto, ArchivedIsQuiet, Live, Empty
<1>15. ASSUME NEW t \in Thread, AdmitGuard(t) PROVE ArchivedIsQuiet'
  BY <1>15 DEF AdmitGuard, Goto, AdmitNext, AdmitRefused, Refusal, ArchivedIsQuiet, ViewInv,
       Empty, Live
<1>16. ASSUME NEW t \in Thread, Prepare(t) PROVE ArchivedIsQuiet'
  BY <1>16 DEF Prepare, Goto, Refusal, ArchivedIsQuiet
<1>17. ASSUME NEW t \in Thread, Publish(t) PROVE ArchivedIsQuiet'
  BY <1>17 DEF Publish, Goto, Refusal, ReleasePrepared, ProduceAdmission, Loaded, View,
       Fault, ArchivedIsQuiet
<1>18. ASSUME NEW t \in Thread, Adopt(t) PROVE ArchivedIsQuiet'
  BY <1>18 DEF Adopt, Goto, DropBuffered, View, ArchivedIsQuiet
<1>19. ASSUME NEW t \in Thread, Install(t) PROVE ArchivedIsQuiet'
  BY <1>19 DEF Install, ArchivedIsQuiet
<1>20. ASSUME NEW t \in Thread, Release(t) PROVE ArchivedIsQuiet'
  BY <1>20 DEF Release, Goto, AfterRelease, ArchivedIsQuiet, Live, Empty
<1>21. ASSUME NEW o \in Op, Enter(o) PROVE ArchivedIsQuiet'
  BY <1>21 DEF Enter, Goto, ArchivedIsQuiet, Live
<1>22. ASSUME NEW o \in Op, Work(o) PROVE ArchivedIsQuiet'
  BY <1>22 DEF Work, Goto, PublicationFails, Fault, Loaded, View, ArchivedIsQuiet, Live
<1>23. ASSUME NEW o \in Op, EffectTerminal(o) PROVE ArchivedIsQuiet'
  BY <1>23 DEF EffectTerminal, Goto, CommitTerminal, Guarded, View, ArchivedIsQuiet, Live
<1>24. ASSUME NEW o \in Op, CompleteReserve(o) PROVE ArchivedIsQuiet'
  BY <1>24 DEF CompleteReserve, Reserve, Goto, ArchivedIsQuiet, Live, Empty
<1>25. ASSUME NEW o \in Op, Settle(o) PROVE ArchivedIsQuiet'
  BY <1>25 DEF Settle, Goto, CommitTerminal, Guarded, Preserved, Fault, Loaded, View,
       ArchivedIsQuiet, Live, Empty
<1>26. ASSUME NEW o \in Op, Drain(o) PROVE ArchivedIsQuiet'
  BY <1>26 DEF Drain, Goto, DiscardBuffers, EmptyScan, ArchivedIsQuiet, Live, Empty
<1>27. ASSUME NEW o \in Op, Drop(o) PROVE ArchivedIsQuiet'
  BY <1>27 DEF Drop, Goto, DropBuffered, ArchivedIsQuiet, Live, Empty
<1>28. ASSUME NEW o \in Op, Retire(o) PROVE ArchivedIsQuiet'
  BY <1>28 DEF Retire, Goto, Retirement, ArchivedIsQuiet, Live, Empty
<1>29. ASSUME NEW m \in Completion, StartMember(m) PROVE ArchivedIsQuiet'
  BY <1>29 DEF StartMember, ArchivedIsQuiet, ViewInv
<1>30. ASSUME ChangeAgentType PROVE ArchivedIsQuiet'
  BY <1>30 DEF ChangeAgentType, LifecycleIdle, Rewrite, Loaded, View, ArchivedIsQuiet, Live,
       Empty
<1>31. ASSUME ReopenSession PROVE ArchivedIsQuiet'
  BY <1>31 DEF ReopenSession, LifecycleIdle, Rewrite, Loaded, View, ArchivedIsQuiet, Live,
       Empty
<1>32. ASSUME ArchiveSession PROVE ArchivedIsQuiet'
  BY <1>32 DEF ArchiveSession, LifecycleIdle, Quiescent, Active, Rewrite, ArchivedIsQuiet,
       HoldInv, HolderPc, RunInv, SlotPc, ResidentView, Empty, Live, RegisterInv
<1>33. ASSUME DeleteSession PROVE ArchivedIsQuiet'
  BY <1>33 DEF DeleteSession, Invalidate, DiscardBuffers, ArchivedIsQuiet, ViewInv, Empty,
       Live
<1>34. ASSUME SweepSession PROVE ArchivedIsQuiet'
  BY <1>34 DEF SweepSession, LifecycleIdle, Quiescent, Active, Invalidate, DiscardBuffers,
       ArchivedIsQuiet, HoldInv, HolderPc, RunInv, SlotPc, Empty, Live
<1>35. ASSUME CancelHarness PROVE ArchivedIsQuiet'
  BY <1>35 DEF CancelHarness, ArchivedIsQuiet, Live, Empty
<1>36. ASSUME WaitScan PROVE ArchivedIsQuiet'
  BY <1>36 DEF WaitScan, ArchivedIsQuiet, Live, Empty
<1>37. ASSUME WaitRescan PROVE ArchivedIsQuiet'
  BY <1>37 DEF WaitRescan, WaitBusy, DiscardBuffers, ArchivedIsQuiet, Live, Empty
<1>38. ASSUME Crash PROVE ArchivedIsQuiet'
  BY <1>38 DEF Crash, DiscardBuffers, ArchivedIsQuiet, Live, Empty
<1>39. ASSUME Restart PROVE ArchivedIsQuiet'
  BY <1>39 DEF Restart, Loaded, View, ArchivedIsQuiet, Live, Empty
<1>40. ASSUME NEW o \in Op, Recover(o) PROVE ArchivedIsQuiet'
  BY <1>40 DEF Recover, Recoverable, CommitTerminal, View, ArchivedIsQuiet, Live, Empty
<1>41. CASE UNCHANGED vars
  BY <1>41 DEF vars, ArchivedIsQuiet, Live, Empty
<1>42. QED
  BY <1>1, <1>2, <1>3, <1>4, <1>5, <1>6, <1>7, <1>8, <1>9, <1>10, <1>11, <1>12,
       <1>13, <1>14, <1>15, <1>16, <1>17, <1>18, <1>19, <1>20, <1>21, <1>22, <1>23, <1>24,
       <1>25, <1>26, <1>27, <1>28, <1>29, <1>30, <1>31, <1>32, <1>33, <1>34, <1>35, <1>36,
       <1>37, <1>38, <1>39, <1>40, <1>41
     DEF Next, CallerCall, CallerProgress, AdmissionStep, ExecutionStep, LifecycleStep, ProcessStep

(* An Operation whose execution started is published, and nobody is about
   to start it again: startExecution follows its own admission's commit. *)
LEMMA StartStep == TypeInv /\ RegisterInv /\ CoordinatorInv /\ [Next]_vars => StartInv'
<1>. SUFFICES ASSUME TypeInv /\ RegisterInv /\ CoordinatorInv, [Next]_vars PROVE StartInv'
  OBVIOUS
<1>. USE SessionAssumption DEF TypeInv, TypeOK, durableVars, fifoVars, bgVars, threadVars,
       processVars, historyVars, CoordinatorInv, Thread, ThreadType
<1>1. ASSUME NEW t \in Caller, NEW o \in Op, SubmitReserve(t, o) PROVE StartInv'
  BY <1>1 DEF SubmitReserve, Reserve, Goto, StartInv
<1>2. ASSUME NEW t \in Caller, NEW o \in Op, CompactReserve(t, o) PROVE StartInv'
  BY <1>2 DEF CompactReserve, Reserve, Goto, StartInv
<1>3. ASSUME NEW t \in Caller, NEW o \in Op, DeliverClaim(t, o) PROVE StartInv'
  BY <1>3 DEF DeliverClaim, Goto, StartInv
<1>4. ASSUME NEW t \in Caller, InterruptCall(t) PROVE StartInv'
  BY <1>4 DEF InterruptCall, Goto, StartInv
<1>5. ASSUME NEW t \in Caller, StopCall(t) PROVE StartInv'
  BY <1>5 DEF StopCall, Goto, StartInv
<1>6. ASSUME NEW t \in Caller, CallerGivesUp(t) PROVE StartInv'
  BY <1>6 DEF CallerGivesUp, Goto, StartInv
<1>7. ASSUME NEW t \in Caller, NEW mode \in {"regular", "queued"}, SubmitRoute(t, mode)
      PROVE  StartInv'
  BY <1>7 DEF SubmitRoute, Goto, StartInv
<1>8. ASSUME NEW t \in Caller, CompactRoute(t) PROVE StartInv'
  BY <1>8 DEF CompactRoute, Goto, StartInv
<1>9. ASSUME NEW t \in Caller, Cancel(t) PROVE StartInv'
  BY <1>9 DEF Cancel, Goto, StartInv
<1>10. ASSUME NEW t \in Caller, DeliverRoute(t) PROVE StartInv'
  BY <1>10 DEF DeliverRoute, Goto, DeliveryPriority, StartInv
<1>11. ASSUME NEW t \in Caller, DeliverReserve(t) PROVE StartInv'
  BY <1>11 DEF DeliverReserve, Reserve, Goto, StartInv
<1>12. ASSUME NEW t \in Caller, DeliverReroute(t) PROVE StartInv'
  BY <1>12 DEF DeliverReroute, Goto, DeliveryPriority, StartInv
<1>13. ASSUME NEW t \in Caller, DeliverSignal(t) PROVE StartInv'
  BY <1>13 DEF DeliverSignal, Goto, StartInv
<1>14. ASSUME NEW t \in Caller, DeliverFinish(t) PROVE StartInv'
  BY <1>14 DEF DeliverFinish, Goto, StartInv
<1>15. ASSUME NEW t \in Thread, AdmitGuard(t) PROVE StartInv'
  BY <1>15 DEF AdmitGuard, Goto, AdmitNext, Refusal, StartInv
<1>16. ASSUME NEW t \in Thread, Prepare(t) PROVE StartInv'
  BY <1>16 DEF Prepare, Goto, Refusal, StartInv
<1>17. ASSUME NEW t \in Thread, Publish(t) PROVE StartInv'
  <2>1. started' = started /\ \A x \in Op : status'[x] = status[x] \/ status'[x] = "running"
    BY <1>17 DEF Publish, ProduceAdmission, DurableType
  <2>2. \A x \in Thread \ {t} : pc'[x] = pc[x] /\ item'[x] = item[x] BY <1>17 DEF Publish, Goto
  <2>3. pc'[t] \in {"adopt", "install"} => item'[t] = item[t] /\ status[item[t]] = "absent"
    BY <1>17 DEF Publish, Goto, Refusal
  <2>4. QED BY <2>1, <2>2, <2>3 DEF StartInv, ProcessType
<1>18. ASSUME NEW t \in Thread, Adopt(t) PROVE StartInv'
  BY <1>18 DEF Adopt, Goto, StartInv
<1>19. ASSUME NEW t \in Thread, Install(t) PROVE StartInv'
  BY <1>19 DEF Install, StartInv, RegisterInv, AdmissionView, OneAdmitted, CurrentIsRunning,
       ItemOK, ItemPc
<1>20. ASSUME NEW t \in Thread, Release(t) PROVE StartInv'
  BY <1>20 DEF Release, Goto, AfterRelease, StartInv
<1>21. ASSUME NEW o \in Op, Enter(o) PROVE StartInv'
  BY <1>21 DEF Enter, Goto, StartInv
<1>22. ASSUME NEW o \in Op, Work(o) PROVE StartInv'
  BY <1>22 DEF Work, Goto, StartInv
<1>23. ASSUME NEW o \in Op, EffectTerminal(o) PROVE StartInv'
  BY <1>23 DEF EffectTerminal, Goto, CommitTerminal, Guarded, StartInv, Terminal
<1>24. ASSUME NEW o \in Op, CompleteReserve(o) PROVE StartInv'
  BY <1>24 DEF CompleteReserve, Reserve, Goto, StartInv
<1>25. ASSUME NEW o \in Op, Settle(o) PROVE StartInv'
  BY <1>25 DEF Settle, Goto, CommitTerminal, Guarded, Preserved, StartInv, DurableType,
       Terminal, ProcessType
<1>26. ASSUME NEW o \in Op, Drain(o) PROVE StartInv'
  <2>1. UNCHANGED <<status, started>> BY <1>26 DEF Drain
  <2>2. \A x \in Thread : pc'[x] \in {"adopt", "install"} => pc[x] = pc'[x] /\ item'[x] = item[x]
    BY <1>26 DEF Drain, Goto
  <2>3. QED BY <2>1, <2>2 DEF StartInv
<1>27. ASSUME NEW o \in Op, Drop(o) PROVE StartInv'
  BY <1>27 DEF Drop, Goto, StartInv
<1>28. ASSUME NEW o \in Op, Retire(o) PROVE StartInv'
  BY <1>28 DEF Retire, Goto, StartInv
<1>29. ASSUME NEW m \in Completion, StartMember(m) PROVE StartInv'
  BY <1>29 DEF StartMember, StartInv
<1>30. ASSUME ChangeAgentType PROVE StartInv'
  BY <1>30 DEF ChangeAgentType, Rewrite, StartInv
<1>31. ASSUME ReopenSession PROVE StartInv'
  BY <1>31 DEF ReopenSession, Rewrite, StartInv
<1>32. ASSUME ArchiveSession PROVE StartInv'
  BY <1>32 DEF ArchiveSession, Rewrite, StartInv
<1>33. ASSUME DeleteSession PROVE StartInv'
  BY <1>33 DEF DeleteSession, Invalidate, StartInv
<1>34. ASSUME SweepSession PROVE StartInv'
  BY <1>34 DEF SweepSession, Invalidate, StartInv
<1>35. ASSUME CancelHarness PROVE StartInv'
  BY <1>35 DEF CancelHarness, StartInv
<1>36. ASSUME WaitScan PROVE StartInv'
  BY <1>36 DEF WaitScan, StartInv
<1>37. ASSUME WaitRescan PROVE StartInv'
  BY <1>37 DEF WaitRescan, StartInv
<1>38. ASSUME Crash PROVE StartInv'
  BY <1>38 DEF Crash, StartInv
<1>39. ASSUME Restart PROVE StartInv'
  BY <1>39 DEF Restart, StartInv
<1>40. ASSUME NEW o \in Op, Recover(o) PROVE StartInv'
  BY <1>40 DEF Recover, CommitTerminal, StartInv
<1>41. CASE UNCHANGED vars
  BY <1>41 DEF vars, StartInv
<1>42. QED
  BY <1>1, <1>2, <1>3, <1>4, <1>5, <1>6, <1>7, <1>8, <1>9, <1>10, <1>11, <1>12,
       <1>13, <1>14, <1>15, <1>16, <1>17, <1>18, <1>19, <1>20, <1>21, <1>22, <1>23, <1>24,
       <1>25, <1>26, <1>27, <1>28, <1>29, <1>30, <1>31, <1>32, <1>33, <1>34, <1>35, <1>36,
       <1>37, <1>38, <1>39, <1>40, <1>41
     DEF Next, CallerCall, CallerProgress, AdmissionStep, ExecutionStep, LifecycleStep, ProcessStep

(* An interrupt marker lasts until the entry guard of the Operation it
   names consumes it, or until the Operation is settled. *)
LEMMA MarkerStep == TypeInv /\ RegisterInv /\ CoordinatorInv /\ [Next]_vars => MarkerInv'
<1>. SUFFICES ASSUME TypeInv /\ RegisterInv /\ CoordinatorInv, [Next]_vars PROVE MarkerInv'
  OBVIOUS
<1>. USE SessionAssumption DEF TypeInv, TypeOK, durableVars, fifoVars, bgVars, threadVars,
       processVars, historyVars, CoordinatorInv, Thread, ThreadType
<1>1. ASSUME NEW t \in Caller, NEW o \in Op, SubmitReserve(t, o) PROVE MarkerInv'
  BY <1>1 DEF SubmitReserve, Reserve, Goto, MarkerInv, ProcessType
<1>2. ASSUME NEW t \in Caller, NEW o \in Op, CompactReserve(t, o) PROVE MarkerInv'
  BY <1>2 DEF CompactReserve, Reserve, Goto, CompactIdle, MarkerInv, ProcessType
<1>3. ASSUME NEW t \in Caller, NEW o \in Op, DeliverClaim(t, o) PROVE MarkerInv'
  BY <1>3 DEF DeliverClaim, Goto, Claimable, MarkerInv, ProcessType
<1>4. ASSUME NEW t \in Caller, InterruptCall(t) PROVE MarkerInv'
  BY <1>4 DEF InterruptCall, MarkerInv, RegisterInv, CurrentIsRunning, ViewInv, DurableType,
       ProcessType
<1>5. ASSUME NEW t \in Caller, StopCall(t) PROVE MarkerInv'
  BY <1>5 DEF StopCall, Goto, DiscardBuffers, MarkerInv, ProcessType
<1>6. ASSUME NEW t \in Caller, CallerGivesUp(t) PROVE MarkerInv'
  BY <1>6 DEF CallerGivesUp, Goto, MarkerInv, ProcessType
<1>7. ASSUME NEW t \in Caller, NEW mode \in {"regular", "queued"}, SubmitRoute(t, mode)
      PROVE  MarkerInv'
  BY <1>7 DEF SubmitRoute, Goto, SubmitRefused, Active, MarkerInv, ProcessType
<1>8. ASSUME NEW t \in Caller, CompactRoute(t) PROVE MarkerInv'
  BY <1>8 DEF CompactRoute, Goto, CompactIdle, Active, MarkerInv, ProcessType
<1>9. ASSUME NEW t \in Caller, Cancel(t) PROVE MarkerInv'
  BY <1>9 DEF Cancel, Goto, CanceledRun, MarkerInv, ProcessType
<1>10. ASSUME NEW t \in Caller, DeliverRoute(t) PROVE MarkerInv'
  BY <1>10 DEF DeliverRoute, Goto, DeliveryPriority, Unreceivable, Active, MarkerInv,
       ProcessType
<1>11. ASSUME NEW t \in Caller, DeliverReserve(t) PROVE MarkerInv'
  BY <1>11 DEF DeliverReserve, Reserve, Goto, MarkerInv, ProcessType
<1>12. ASSUME NEW t \in Caller, DeliverReroute(t) PROVE MarkerInv'
  BY <1>12 DEF DeliverReroute, Goto, DeliveryPriority, Unreceivable, Active, MarkerInv,
       ProcessType
<1>13. ASSUME NEW t \in Caller, DeliverSignal(t) PROVE MarkerInv'
  BY <1>13 DEF DeliverSignal, Goto, Loaded, View, Fault, MarkerInv, ProcessType
<1>14. ASSUME NEW t \in Caller, DeliverFinish(t) PROVE MarkerInv'
  BY <1>14 DEF DeliverFinish, Goto, MarkerInv, ProcessType
<1>15. ASSUME NEW t \in Thread, AdmitGuard(t) PROVE MarkerInv'
  BY <1>15 DEF AdmitGuard, Goto, AdmitNext, AdmitRefused, Refusal, MarkerInv, ProcessType
<1>16. ASSUME NEW t \in Thread, Prepare(t) PROVE MarkerInv'
  BY <1>16 DEF Prepare, Goto, Refusal, MarkerInv, ProcessType
<1>17. ASSUME NEW t \in Thread, Publish(t) PROVE MarkerInv'
  <2>1. UNCHANGED <<interruptOp, interrupted, outcome, ctx>> BY <1>17 DEF Publish, Fault
  <2>2. \A o \in interrupted : status'[o] = status[o]
    BY <1>17 DEF Publish, ProduceAdmission, DurableType, ProcessType, MarkerInv
  <2>3. \A o \in Op : pc'[o] \in {"none", "spawned", "running"} => pc[o] = pc'[o]
    BY <1>17 DEF Publish, Goto, Refusal
  <2>4. QED BY <2>1, <2>2, <2>3 DEF MarkerInv, ProcessType
<1>18. ASSUME NEW t \in Thread, Adopt(t) PROVE MarkerInv'
  BY <1>18 DEF Adopt, Goto, DropBuffered, View, MarkerInv, ProcessType
<1>19. ASSUME NEW t \in Thread, Install(t) PROVE MarkerInv'
  <2>1. UNCHANGED <<status, interruptOp, interrupted, outcome, ctx>> BY <1>19 DEF Install
  <2>2. pc[item[t]] = "none" BY <1>19 DEF Install, RegisterInv, AdmissionView
  <2>3. \A o \in Op : pc'[o] \in {"none", "spawned", "running"} => pc[o] = pc'[o] \/ o = item[t]
    BY <1>19 DEF Install
  <2>4. QED BY <2>1, <2>2, <2>3 DEF MarkerInv, ProcessType
<1>20. ASSUME NEW t \in Thread, Release(t) PROVE MarkerInv'
  BY <1>20 DEF Release, Goto, AfterRelease, MarkerInv, ProcessType
<1>21. ASSUME NEW o \in Op, Enter(o) PROVE MarkerInv'
  BY <1>21 DEF Enter, Goto, MarkerInv, ProcessType
<1>22. ASSUME NEW o \in Op, Work(o) PROVE MarkerInv'
  BY <1>22 DEF Work, Goto, PublicationFails, Fault, Loaded, View, MarkerInv, ProcessType
<1>23. ASSUME NEW o \in Op, EffectTerminal(o) PROVE MarkerInv'
  BY <1>23 DEF EffectTerminal, Goto, CommitTerminal, Guarded, MarkerInv, Terminal
<1>24. ASSUME NEW o \in Op, CompleteReserve(o) PROVE MarkerInv'
  BY <1>24 DEF CompleteReserve, Reserve, Goto, MarkerInv, ProcessType
<1>25. ASSUME NEW o \in Op, Settle(o) PROVE MarkerInv'
  <2>1. UNCHANGED <<interruptOp, interrupted, outcome, ctx>> /\ pc[o] = "settle"
    BY <1>25 DEF Settle
  <2>2. \A x \in Op : status'[x] = status[x] \/ (status[x] = "running" /\ status'[x] \in Terminal)
    BY <1>25 DEF Settle, Preserved, CommitTerminal, Guarded, DurableType, ItemOK, Terminal
  <2>3. pc'[o] \in {"drain", "retire"} /\ \A x \in Op \ {o} : pc'[x] = pc[x]
    BY <1>25 DEF Settle, Goto
  <2>4. QED BY <2>1, <2>2, <2>3 DEF MarkerInv, ProcessType, Terminal
<1>26. ASSUME NEW o \in Op, Drain(o) PROVE MarkerInv'
  BY <1>26 DEF Drain, Goto, DiscardBuffers, EmptyScan, MarkerInv, ProcessType
<1>27. ASSUME NEW o \in Op, Drop(o) PROVE MarkerInv'
  BY <1>27 DEF Drop, Goto, DropBuffered, MarkerInv, ProcessType
<1>28. ASSUME NEW o \in Op, Retire(o) PROVE MarkerInv'
  BY <1>28 DEF Retire, Goto, Retirement, MarkerInv, ProcessType
<1>29. ASSUME NEW m \in Completion, StartMember(m) PROVE MarkerInv'
  BY <1>29 DEF StartMember, MarkerInv, ProcessType
<1>30. ASSUME ChangeAgentType PROVE MarkerInv'
  BY <1>30 DEF ChangeAgentType, LifecycleIdle, Rewrite, Loaded, View, MarkerInv, ProcessType
<1>31. ASSUME ReopenSession PROVE MarkerInv'
  BY <1>31 DEF ReopenSession, LifecycleIdle, Rewrite, Loaded, View, MarkerInv, ProcessType
<1>32. ASSUME ArchiveSession PROVE MarkerInv'
  BY <1>32 DEF ArchiveSession, LifecycleIdle, Quiescent, Active, Rewrite, Loaded, View,
       MarkerInv, ProcessType
<1>33. ASSUME DeleteSession PROVE MarkerInv'
  BY <1>33 DEF DeleteSession, LifecycleIdle, Invalidate, DiscardBuffers, MarkerInv,
       ProcessType
<1>34. ASSUME SweepSession PROVE MarkerInv'
  BY <1>34 DEF SweepSession, LifecycleIdle, Quiescent, Active, Invalidate, DiscardBuffers,
       View, MarkerInv, ProcessType
<1>35. ASSUME CancelHarness PROVE MarkerInv'
  BY <1>35 DEF CancelHarness, MarkerInv, ProcessType
<1>36. ASSUME WaitScan PROVE MarkerInv'
  BY <1>36 DEF WaitScan, MarkerInv, ProcessType
<1>37. ASSUME WaitRescan PROVE MarkerInv'
  BY <1>37 DEF WaitRescan, WaitBusy, DiscardBuffers, MarkerInv, ProcessType
<1>38. ASSUME Crash PROVE MarkerInv'
  BY <1>38 DEF Crash, DiscardBuffers, MarkerInv, ProcessType
<1>39. ASSUME Restart PROVE MarkerInv'
  <2>1. \A o \in Op : status[o] # "running"
    BY <1>39 DEF Restart, ArchivedIsQuiet, RegisterInv, CurrentIsRunning
  <2>2. QED BY <1>39, <2>1 DEF Restart, MarkerInv, ProcessType
<1>40. ASSUME NEW o \in Op, Recover(o) PROVE MarkerInv'
  BY <1>40 DEF Recover, Recoverable, CommitTerminal, View, MarkerInv, ProcessType
<1>41. CASE UNCHANGED vars
  BY <1>41 DEF vars, MarkerInv, ProcessType
<1>42. QED
  BY <1>1, <1>2, <1>3, <1>4, <1>5, <1>6, <1>7, <1>8, <1>9, <1>10, <1>11, <1>12,
       <1>13, <1>14, <1>15, <1>16, <1>17, <1>18, <1>19, <1>20, <1>21, <1>22, <1>23, <1>24,
       <1>25, <1>26, <1>27, <1>28, <1>29, <1>30, <1>31, <1>32, <1>33, <1>34, <1>35, <1>36,
       <1>37, <1>38, <1>39, <1>40, <1>41
     DEF Next, CallerCall, CallerProgress, AdmissionStep, ExecutionStep, LifecycleStep, ProcessStep

(* A cause, once given, lasts as long as the process. *)
LEMMA CauseStays ==
  ASSUME TypeInv, RegisterInv, [Next]_vars, ctx # "down", NEW o \in Op, Caused(o)
  PROVE  Caused(o)'
<1>. USE SessionAssumption DEF durableVars, fifoVars, bgVars, threadVars, processVars, historyVars
<1>1. status[o] \in Terminal => status'[o] \in Terminal
  <2>1. StatusStep BY StatusMoves
  <2>2. QED BY <2>1 DEF StatusStep, Terminal
<1>2. /\ interrupted \subseteq interrupted'
      /\ Closed => Closed' \/ ctx' = "down"
      /\ ctx # "live" => ctx' # "live"
  <2>1. CASE UNCHANGED <<interrupted, bgState, ctx>> BY <2>1 DEF Closed
  <2>2. ASSUME NEW t \in Caller, CallerCall(t) PROVE <1>2
   
      BY <2>2 DEF CallerCall, SubmitReserve, CompactReserve, DeliverClaim, InterruptCall, StopCall, Closed
  <2>3. ASSUME NEW t \in Caller, CallerProgress(t) PROVE UNCHANGED <<interrupted, bgState, ctx>>
    BY <2>3 DEF CallerProgress, CallerGivesUp, SubmitRoute, CompactRoute, Cancel, DeliverRoute,
         DeliverReserve, DeliverReroute, DeliverSignal, DeliverFinish, Fault
  <2>4. ASSUME NEW t \in Thread, AdmissionStep(t) PROVE UNCHANGED <<interrupted, bgState, ctx>>
    BY <2>4 DEF AdmissionStep, AdmitGuard, Prepare, Publish, Adopt, Install, Release
  <2>5. ASSUME NEW x \in Op, ExecutionStep(x) PROVE UNCHANGED <<interrupted, bgState, ctx>>
   
      BY <2>5 DEF ExecutionStep, Enter, Work, EffectTerminal, CompleteReserve, Settle, Drain, Drop, Retire
  <2>6. ASSUME NEW m \in Completion, StartMember(m) PROVE UNCHANGED <<interrupted, bgState, ctx>>
    BY <2>6 DEF StartMember
  <2>7. ASSUME LifecycleStep PROVE UNCHANGED <<interrupted, bgState, ctx>>
    BY <2>7 DEF LifecycleStep, ChangeAgentType, ReopenSession, ArchiveSession, DeleteSession,
         SweepSession, Rewrite, Invalidate
  <2>8. ASSUME ProcessStep PROVE <1>2
   
      BY <2>8 DEF ProcessStep, CancelHarness, WaitScan, WaitRescan, Crash, Restart, Recover, Closed
  <2>9. CASE UNCHANGED vars BY <2>9, <2>1 DEF vars
  <2>10. QED BY <2>1, <2>2, <2>3, <2>4, <2>5, <2>6, <2>7, <2>8, <2>9 DEF Next
<1>3. QED BY <1>1, <1>2 DEF Caused

(* No step cancels an execution, or proposes an interruption, without cause. *)
LEMMA CauseStep == TypeInv /\ RegisterInv /\ CoordinatorInv /\ [Next]_vars => CauseInv'
<1>. SUFFICES ASSUME TypeInv /\ RegisterInv /\ CoordinatorInv, [Next]_vars PROVE CauseInv'
  OBVIOUS
<1>. USE SessionAssumption DEF TypeInv, TypeOK, durableVars, fifoVars, bgVars, threadVars,
       processVars, historyVars, CoordinatorInv, Thread, ThreadType
<1>0. \A o \in Op : Caused(o) /\ ctx # "down" => Caused(o)'
  BY CauseStays
<1>1. ASSUME NEW t \in Caller, NEW o \in Op, SubmitReserve(t, o) PROVE CauseInv'
  BY <1>1, <1>0 DEF SubmitReserve, Reserve, Goto, CauseInv
<1>2. ASSUME NEW t \in Caller, NEW o \in Op, CompactReserve(t, o) PROVE CauseInv'
  BY <1>2, <1>0 DEF CompactReserve, Reserve, Goto, CompactIdle, CauseInv, RegisterInv,
       DownInv
<1>3. ASSUME NEW t \in Caller, NEW o \in Op, DeliverClaim(t, o) PROVE CauseInv'
  BY <1>3, <1>0 DEF DeliverClaim, Goto, Claimable, CauseInv, RegisterInv, DownInv
<1>4. ASSUME NEW t \in Caller, InterruptCall(t) PROVE CauseInv'
  <2>1. run # NoOp => \/ run \in interrupted' \/ status[run] \in Terminal
    <3>. SUFFICES ASSUME run # NoOp, run # graph.current PROVE status[run] \in Terminal
      BY <1>4 DEF InterruptCall, Caused, CoordinatorType
    <3>1. current = graph.current /\ current # NoOp BY <1>4 DEF InterruptCall, ViewInv
    <3>2. pc[run] \in {"adopt", "install"} BY <3>1 DEF RunInv
    <3>3. run \in Op BY DEF CoordinatorType
    <3>4. status[run] # "absent" /\ status[run] # "running"
      BY <3>1, <3>2, <3>3 DEF RegisterInv, FreshOps, CurrentIsRunning
    <3>5. QED BY <3>3, <3>4 DEF DurableType, Status
  <2>2. pc' = [pc EXCEPT ![t] = "cancel"] /\ item' = [item EXCEPT ![t] = run]
    BY <1>4 DEF InterruptCall, Goto
  <2>3. UNCHANGED <<canceled, outcome, ctx, status, bgState, run>> /\ pc[t] = "idle"
    BY <1>4 DEF InterruptCall
  <2>4. ctx # "down" BY <2>3 DEF RegisterInv, DownInv
  <2>5. run # NoOp => Caused(run)' BY <2>1, <2>3 DEF Caused
  <2>6. QED BY <1>0, <2>2, <2>3, <2>4, <2>5 DEF CauseInv, Caused
<1>5. ASSUME NEW t \in Caller, StopCall(t) PROVE CauseInv'
  <2>1. \A o : Caused(o)' BY <1>5 DEF StopCall, Caused, Closed
  <2>2. UNCHANGED <<canceled, outcome, ctx>> /\ pc[t] = "idle" BY <1>5 DEF StopCall
  <2>3. QED BY <2>1, <2>2 DEF CauseInv, RegisterInv, DownInv
<1>6. ASSUME NEW t \in Caller, CallerGivesUp(t) PROVE CauseInv'
  BY <1>6, <1>0 DEF CallerGivesUp, Goto, CauseInv, RegisterInv, DownInv
<1>7. ASSUME NEW t \in Caller, NEW mode \in {"regular", "queued"}, SubmitRoute(t, mode)
      PROVE  CauseInv'
  BY <1>7, <1>0 DEF SubmitRoute, Goto, SubmitRefused, Active, CauseInv, RegisterInv, DownInv
<1>8. ASSUME NEW t \in Caller, CompactRoute(t) PROVE CauseInv'
  BY <1>8, <1>0 DEF CompactRoute, Goto, CompactIdle, Active, CauseInv, RegisterInv, DownInv
<1>9. ASSUME NEW t \in Caller, Cancel(t) PROVE CauseInv'
  BY <1>9, <1>0 DEF Cancel, Goto, CanceledRun, CauseInv, RegisterInv, DownInv
<1>10. ASSUME NEW t \in Caller, DeliverRoute(t) PROVE CauseInv'
  BY <1>10, <1>0 DEF DeliverRoute, Goto, DeliveryPriority, Unreceivable, Active, CauseInv,
       RegisterInv, DownInv
<1>11. ASSUME NEW t \in Caller, DeliverReserve(t) PROVE CauseInv'
  BY <1>11, <1>0 DEF DeliverReserve, Reserve, Goto, CauseInv, RegisterInv, DownInv
<1>12. ASSUME NEW t \in Caller, DeliverReroute(t) PROVE CauseInv'
  BY <1>12, <1>0 DEF DeliverReroute, Goto, DeliveryPriority, Unreceivable, Active, CauseInv,
       RegisterInv, DownInv
<1>13. ASSUME NEW t \in Caller, DeliverSignal(t) PROVE CauseInv'
  BY <1>13, <1>0 DEF DeliverSignal, Goto, Loaded, View, Fault, CauseInv, RegisterInv,
       DownInv
<1>14. ASSUME NEW t \in Caller, DeliverFinish(t) PROVE CauseInv'
  BY <1>14, <1>0 DEF DeliverFinish, Goto, CauseInv, RegisterInv, DownInv
<1>15. ASSUME NEW t \in Thread, AdmitGuard(t) PROVE CauseInv'
  BY <1>15, <1>0 DEF AdmitGuard, Goto, AdmitNext, AdmitRefused, Refusal, CauseInv,
       RegisterInv, DownInv
<1>16. ASSUME NEW t \in Thread, Prepare(t) PROVE CauseInv'
  BY <1>16, <1>0 DEF Prepare, Goto, Refusal, CauseInv, RegisterInv, DownInv
<1>17. ASSUME NEW t \in Thread, Publish(t) PROVE CauseInv'
  BY <1>17, <1>0 DEF Publish, Goto, Refusal, ReleasePrepared, ProduceAdmission, Loaded,
       View, Fault, CauseInv, RegisterInv, DownInv
<1>18. ASSUME NEW t \in Thread, Adopt(t) PROVE CauseInv'
  BY <1>18, <1>0 DEF Adopt, Goto, DropBuffered, View, CauseInv, RegisterInv, DownInv
<1>19. ASSUME NEW t \in Thread, Install(t) PROVE CauseInv'
  <2>1. UNCHANGED <<item, canceled, outcome, ctx, status, bgState, interrupted>>
    BY <1>19 DEF Install
  <2>2. pc[item[t]] = "none" /\ ctx # "down"
    BY <1>19 DEF Install, RegisterInv, AdmissionView, DownInv
  <2>3. \A x \in Thread : (pc'[x] = "cancel" => pc[x] = "cancel") /\ (pc[x] = "done" => pc'[x] = "done")
    BY <1>19, <2>2 DEF Install
  <2>4. \A x : Caused(x)' <=> Caused(x) BY <2>1 DEF Caused, Closed
  <2>5. \A x \in Thread : pc'[x] = "cancel" /\ item[x] # NoOp => Caused(item[x])
    BY <2>3 DEF CauseInv
  <2>6. \A x \in canceled : Caused(x) \/ pc'[x] = "done" BY <2>3 DEF CauseInv
  <2>7. \A x \in Op : outcome[x] = "interruption" => Caused(x) BY DEF CauseInv
  <2>8. QED BY <2>1, <2>2, <2>4, <2>5, <2>6, <2>7 DEF CauseInv, Caused
<1>20. ASSUME NEW t \in Thread, Release(t) PROVE CauseInv'
  BY <1>20, <1>0 DEF Release, Goto, AfterRelease, CauseInv, RegisterInv, DownInv
<1>21. ASSUME NEW o \in Op, Enter(o) PROVE CauseInv'
  <2>1. UNCHANGED <<item, canceled, ctx, bgState, interrupted>> /\ pc[o] = "spawned"
    BY <1>21 DEF Enter
  <2>2. ctx # "down" BY <2>1 DEF RegisterInv, DownInv
  <2>3. outcome'[o] = "interruption" => Caused(o)'
    <3>1. CASE Closed \/ interruptOp = o \/ ctx = "canceled"
      BY <2>1, <3>1 DEF Caused, Closed, MarkerInv
    <3>2. CASE UNCHANGED outcome BY <1>0, <2>2, <3>2 DEF CauseInv
    <3>3. QED BY <1>21, <3>1, <3>2 DEF Enter
  <2>4. /\ \A x \in Op \ {o} : outcome'[x] = outcome[x]
        /\ \A x \in Thread \ {o} : pc'[x] = pc[x]
        /\ pc'[o] \in {"complete", "running"}
    BY <1>21 DEF Enter, Goto
  <2>5. QED BY <1>0, <2>1, <2>2, <2>3, <2>4 DEF CauseInv
<1>22. ASSUME NEW o \in Op, Work(o) PROVE CauseInv'
  <2>1. UNCHANGED <<item, canceled, ctx, bgState, interrupted>> /\ pc[o] = "running"
    BY <1>22 DEF Work
  <2>2. ctx # "down" BY <2>1 DEF RegisterInv, DownInv
  <2>3. ExecDone(o) => Caused(o)
    BY <2>1 DEF ExecDone, Caused, CauseInv
  <2>4. /\ \A x \in Op \ {o} : outcome'[x] = outcome[x]
        /\ outcome'[o] = "interruption" => ExecDone(o)
        /\ pc' = [pc EXCEPT ![o] = "complete"]
    BY <1>22 DEF Work, Goto
  <2>5. QED BY <1>0, <2>1, <2>2, <2>3, <2>4 DEF CauseInv
<1>23. ASSUME NEW o \in Op, EffectTerminal(o) PROVE CauseInv'
  <2>1. UNCHANGED <<item, canceled, ctx, bgState, interrupted>> /\ pc[o] = "running"
    BY <1>23 DEF EffectTerminal
  <2>2. ctx # "down" BY <2>1 DEF RegisterInv, DownInv
  <2>3. Caused(o)'
    BY <1>23 DEF EffectTerminal, CommitTerminal, Guarded, Caused, Terminal, DurableType
  <2>4. /\ \A x \in Op \ {o} : outcome'[x] = outcome[x]
        /\ pc' = [pc EXCEPT ![o] = "complete"]
    BY <1>23 DEF EffectTerminal, Goto
  <2>5. QED BY <1>0, <2>1, <2>2, <2>3, <2>4 DEF CauseInv
<1>24. ASSUME NEW o \in Op, CompleteReserve(o) PROVE CauseInv'
  BY <1>24, <1>0 DEF CompleteReserve, Reserve, Goto, CauseInv, RegisterInv, DownInv
<1>25. ASSUME NEW o \in Op, Settle(o) PROVE CauseInv'
  BY <1>25, <1>0 DEF Settle, Goto, CommitTerminal, Guarded, Preserved, Fault, Loaded, View,
       CauseInv, RegisterInv, DownInv
<1>26. ASSUME NEW o \in Op, Drain(o) PROVE CauseInv'
  BY <1>26, <1>0 DEF Drain, Goto, DiscardBuffers, EmptyScan, CauseInv
<1>27. ASSUME NEW o \in Op, Drop(o) PROVE CauseInv'
  BY <1>27, <1>0 DEF Drop, Goto, DropBuffered, CauseInv, RegisterInv, DownInv
<1>28. ASSUME NEW o \in Op, Retire(o) PROVE CauseInv'
  BY <1>28, <1>0 DEF Retire, Goto, Retirement, CauseInv, RegisterInv, DownInv
<1>29. ASSUME NEW m \in Completion, StartMember(m) PROVE CauseInv'
  BY <1>29, <1>0 DEF StartMember, CauseInv
<1>30. ASSUME ChangeAgentType PROVE CauseInv'
  BY <1>30, <1>0 DEF ChangeAgentType, LifecycleIdle, Rewrite, Loaded, View, CauseInv
<1>31. ASSUME ReopenSession PROVE CauseInv'
  BY <1>31, <1>0 DEF ReopenSession, LifecycleIdle, Rewrite, Loaded, View, CauseInv
<1>32. ASSUME ArchiveSession PROVE CauseInv'
  BY <1>32, <1>0 DEF ArchiveSession, LifecycleIdle, Quiescent, Active, Rewrite, Loaded,
       View, CauseInv
<1>33. ASSUME DeleteSession PROVE CauseInv'
  BY <1>33, <1>0 DEF DeleteSession, LifecycleIdle, Invalidate, DiscardBuffers, CauseInv
<1>34. ASSUME SweepSession PROVE CauseInv'
  BY <1>34, <1>0 DEF SweepSession, LifecycleIdle, Quiescent, Active, Invalidate,
       DiscardBuffers, View, CauseInv
<1>35. ASSUME CancelHarness PROVE CauseInv'
  BY <1>35, <1>0 DEF CancelHarness, CauseInv
<1>36. ASSUME WaitScan PROVE CauseInv'
  BY <1>36, <1>0 DEF WaitScan, CauseInv
<1>37. ASSUME WaitRescan PROVE CauseInv'
  BY <1>37, <1>0 DEF WaitRescan, WaitBusy, DiscardBuffers, CauseInv, RegisterInv, DownInv
<1>38. ASSUME Crash PROVE CauseInv'
  BY <1>38, <1>0 DEF Crash, DiscardBuffers, CauseInv
<1>39. ASSUME Restart PROVE CauseInv'
  BY <1>39, <1>0 DEF Restart, Loaded, View, CauseInv
<1>40. ASSUME NEW o \in Op, Recover(o) PROVE CauseInv'
  BY <1>40, <1>0 DEF Recover, Recoverable, CommitTerminal, View, CauseInv, RegisterInv,
       DownInv
<1>41. CASE UNCHANGED vars
  BY <1>41, <1>0 DEF vars, CauseInv, RegisterInv, DownInv
<1>42. QED
  BY <1>1, <1>2, <1>3, <1>4, <1>5, <1>6, <1>7, <1>8, <1>9, <1>10, <1>11, <1>12,
       <1>13, <1>14, <1>15, <1>16, <1>17, <1>18, <1>19, <1>20, <1>21, <1>22, <1>23, <1>24,
       <1>25, <1>26, <1>27, <1>28, <1>29, <1>30, <1>31, <1>32, <1>33, <1>34, <1>35, <1>36,
       <1>37, <1>38, <1>39, <1>40, <1>41
     DEF Next, CallerCall, CallerProgress, AdmissionStep, ExecutionStep, LifecycleStep, ProcessStep
-----------------------------------------------------------------------------
(* A created Session satisfies every part. *)
LEMMA CoordinatorInit == Init => CoordinatorInv
<1>. SUFFICES ASSUME Init PROVE CoordinatorInv OBVIOUS
<1>1. /\ \A t \in Thread : pc[t] \in {"idle", "none"} /\ item[t] = NoOp
      /\ \A o \in Op : status[o] = "absent" /\ outcome[o] = "none"
      /\ run = NoOp /\ interruptOp = NoOp /\ prep = {} /\ started = {} /\ interrupted = {}
      /\ members = {} /\ signals = {} /\ canceled = {} /\ ctx = "live" /\ waiter.at = "idle"
      /\ lifecycle = "open" /\ graph = View("open", NoOp, 0, {})
      /\ steering = <<>> /\ queued = <<>>
  BY DEF Init, Thread
<1>2. HoldInv /\ PrepInv /\ RunInv
 
    BY <1>1 DEF HoldInv, PrepInv, PreparationsReleased, RunInv, HolderPc, SlotPc, AdmissionPc, Thread
<1>3. ViewInv /\ WaitInv /\ InputInv
  BY <1>1 DEF ViewInv, View, WaitInv, WaitJoinsAll, InputInv, NoStrandedInput, Empty
<1>4. MemberInv
  <2>1. Buffered = {} BY <1>1 DEF Buffered, Range
  <2>2. QED BY <1>1, <2>1 DEF MemberInv, DeliverPc, CarryPc, CompletionOnce
<1>5. ArchivedIsQuiet /\ StartInv /\ MarkerInv BY <1>1 DEF ArchivedIsQuiet, StartInv, MarkerInv
<1>6. CauseInv BY <1>1 DEF CauseInv
<1>7. QED BY <1>2, <1>3, <1>4, <1>5, <1>6 DEF CoordinatorInv

(* Every step of a caller, an execution or the process keeps every part. *)
LEMMA CoordinatorStep == TypeInv /\ RegisterInv /\ CoordinatorInv /\ [Next]_vars => CoordinatorInv'
  BY HoldStep, PrepStep, RunStep, ViewStep, WaitStep, InputStep, MemberStep, ArchivedStep,
     StartStep, MarkerStep, CauseStep DEF CoordinatorInv

(* The inductive invariant of the whole coordinator holds in every
   reachable state. *)
THEOREM CoordinatorInvariance == Spec => [](TypeInv /\ RegisterInv /\ CoordinatorInv)
<1>1. Init => TypeInv /\ RegisterInv /\ CoordinatorInv
  BY TypeInit, RegisterInit, CoordinatorInit
<1>2. TypeInv /\ RegisterInv /\ CoordinatorInv /\ [Next]_vars
        => (TypeInv /\ RegisterInv /\ CoordinatorInv)'
  BY TypeStep, RegisterStep, CoordinatorStep
<1>3. QED BY <1>1, <1>2, PTL DEF Spec

(* admitReserved and runExecution release what prepareExecution reserved on
   every path, and a Wait that has returned left no work, whatever the
   order of the loss, the joins and the drains. *)
THEOREM PreparationsJoined == Spec => []JoinsAndReleases
<1>1. CoordinatorInv => JoinsAndReleases
  BY DEF CoordinatorInv, PrepInv, WaitInv, JoinsAndReleases
<1>2. QED BY <1>1, CoordinatorInvariance, PTL

(* Input accepted into a FIFO always has a drain ahead of it, and a
   background completion reaches the parent once, as a signal or as an
   Operation: Submit, the delivery paths and drainBuffers together. *)
THEOREM AcceptedInputDelivered == Spec => []InputDelivered
<1>1. CoordinatorInv => InputDelivered
  BY DEF CoordinatorInv, InputInv, MemberInv, InputDelivered
<1>2. QED BY <1>1, CoordinatorInvariance, PTL

(* archiveSession, deleteSession and the retention sweep never cross an
   admission, an execution, a buffered input or a live member. *)
THEOREM ArchivesQuietSessions == Spec => []ArchivedIsQuiet
<1>1. CoordinatorInv => ArchivedIsQuiet BY DEF CoordinatorInv
<1>2. QED BY <1>1, CoordinatorInvariance, PTL
-----------------------------------------------------------------------------
(* Only three steps end a running Operation: its execution's effect, its
   execution's settlement, and recovery. *)
LEMMA WhoSettles ==
  ASSUME TypeInv, RegisterInv, [Next]_vars, NEW o \in Op, status[o] = "running", status'[o] # "running"
  PROVE  \/ EffectTerminal(o)
         \/ Settle(o) /\ ~Preserved(o) /\ CommitTerminal(o, Guarded(o, outcome[o]))
         \/ Recover(o)
<1>. DEFINE Ends == \/ EffectTerminal(o)
                    \/ Settle(o) /\ ~Preserved(o) /\ CommitTerminal(o, Guarded(o, outcome[o]))
                    \/ Recover(o)
<1>. USE DEF TypeInv, TypeOK, DurableType, durableVars
<1>1. ASSUME NEW t \in Caller, CallerCall(t) \/ CallerProgress(t) PROVE FALSE
  BY <1>1 DEF CallerCall, CallerProgress, SubmitReserve, CompactReserve, DeliverClaim,
       InterruptCall, StopCall, CallerGivesUp, SubmitRoute, CompactRoute, Cancel, DeliverRoute,
       DeliverReserve, DeliverReroute, DeliverSignal, DeliverFinish
<1>2. ASSUME NEW t \in Thread, AdmissionStep(t) PROVE FALSE
 
    BY <1>2 DEF AdmissionStep, AdmitGuard, Prepare, Publish, ProduceAdmission, Adopt, Install, Release
<1>3. ASSUME NEW x \in Op, ExecutionStep(x) PROVE Ends
  <2>1. CASE EffectTerminal(x) BY <2>1 DEF EffectTerminal, CommitTerminal
  <2>2. CASE Settle(x) BY <2>2 DEF Settle, CommitTerminal
  <2>3. CASE Enter(x) \/ Work(x) \/ CompleteReserve(x) \/ Drain(x) \/ Drop(x) \/ Retire(x)
    BY <2>3 DEF Enter, Work, CompleteReserve, Drain, Drop, Retire
  <2>4. QED BY <1>3, <2>1, <2>2, <2>3 DEF ExecutionStep
<1>4. ASSUME NEW m \in Completion, StartMember(m) PROVE FALSE
  BY <1>4 DEF StartMember
<1>5. ASSUME LifecycleStep PROVE FALSE
  BY <1>5 DEF LifecycleStep, ChangeAgentType, ReopenSession, ArchiveSession, DeleteSession,
       SweepSession, Rewrite, Invalidate
<1>6. ASSUME ProcessStep PROVE Ends
  <2>1. ASSUME NEW x \in Op, Recover(x) PROVE Ends BY <2>1 DEF Recover, CommitTerminal
  <2>2. CASE CancelHarness \/ WaitScan \/ WaitRescan \/ Crash \/ Restart
    BY <2>2 DEF CancelHarness, WaitScan, WaitRescan, Crash, Restart
  <2>3. QED BY <1>6, <2>1, <2>2 DEF ProcessStep
<1>7. CASE UNCHANGED vars BY <1>7 DEF vars
<1>8. QED BY <1>1, <1>2, <1>3, <1>4, <1>5, <1>6, <1>7 DEF Next

(* Only startExecution fills the run slot. *)
LEMMA WhoInstalls ==
  ASSUME [Next]_vars, run' \notin {run, NoOp}
  PROVE  \E t \in Thread : Install(t)
<1>1. ASSUME NEW t \in Caller, CallerCall(t) \/ CallerProgress(t) PROVE FALSE
  BY <1>1 DEF CallerCall, CallerProgress, SubmitReserve, CompactReserve, DeliverClaim,
       InterruptCall, StopCall, CallerGivesUp, SubmitRoute, CompactRoute, Cancel, DeliverRoute,
       DeliverReserve, DeliverReroute, DeliverSignal, DeliverFinish
<1>2. ASSUME NEW t \in Thread, AdmissionStep(t) PROVE Install(t)
  BY <1>2 DEF AdmissionStep, AdmitGuard, Prepare, Publish, Adopt, Release
<1>3. ASSUME NEW o \in Op, ExecutionStep(o) PROVE FALSE
  BY <1>3 DEF ExecutionStep, Enter, Work, EffectTerminal, CompleteReserve, Settle, Drain,
       EmptyScan, Drop, Retire, Retirement
<1>4. ASSUME NEW m \in Completion, StartMember(m) PROVE FALSE
  BY <1>4 DEF StartMember
<1>5. ASSUME LifecycleStep PROVE FALSE
  BY <1>5 DEF LifecycleStep, ChangeAgentType, ReopenSession, ArchiveSession, DeleteSession,
       SweepSession, Rewrite, Invalidate
<1>6. ASSUME ProcessStep PROVE FALSE
  BY <1>6 DEF ProcessStep, CancelHarness, WaitScan, WaitRescan, Crash, Restart, Recover
<1>7. CASE UNCHANGED vars BY <1>7 DEF vars
<1>8. QED BY <1>1, <1>2, <1>3, <1>4, <1>5, <1>6, <1>7 DEF Next

(* What an installation finds: a caller's admission a free slot, a drain's
   its own. *)
LEMMA SlotHandedOn ==
  ASSUME TypeInv, CoordinatorInv, NEW t \in Thread, Install(t)
  PROVE  run = NoOp \/ (reserved = run /\ pc[run] = "install")
<1>1. pc[t] = "install" BY DEF Install
<1>2. CASE t \in Caller BY <1>1, <1>2 DEF CoordinatorInv, RunInv, AdmissionPc
<1>3. CASE t \in Op
  <2>1. run = t BY <1>1, <1>3 DEF CoordinatorInv, RunInv, SlotPc, AdmissionPc
  <2>2. reserved = t BY <1>1 DEF CoordinatorInv, HoldInv, HolderPc
  <2>3. QED BY <1>1, <2>1, <2>2
<1>4. QED BY <1>2, <1>3 DEF Thread

(* A settlement beside a set marker, or of a proposed interruption, is no
   success. *)
LEMMA MarkedEndsInterrupted ==
  ASSUME TypeInv, RegisterInv, CoordinatorInv, [Next]_vars,
         NEW o \in interrupted, status[o] = "running"
  PROVE  status'[o] # "success"
<1>. SUFFICES ASSUME status'[o] = "success" PROVE FALSE OBVIOUS
<1>1. o \in Op /\ status \in [Op -> Status] BY DEF TypeInv, TypeOK, DurableType, ProcessType
<1>2. \/ ctx = "down" \/ interruptOp = o
      \/ outcome[o] = "interruption" /\ pc[o] \notin {"none", "spawned", "running"}
  BY DEF CoordinatorInv, MarkerInv
<1>3. CASE EffectTerminal(o)
  <2>1. pc[o] = "running" BY <1>3 DEF EffectTerminal
  <2>2. ctx # "down" BY <1>1, <2>1, SessionAssumption DEF RegisterInv, DownInv, Thread
  <2>3. interruptOp = o BY <1>2, <2>1, <2>2
  <2>4. QED BY <1>1, <1>3, <2>3 DEF EffectTerminal, CommitTerminal, Guarded
<1>4. CASE Settle(o) /\ ~Preserved(o) /\ CommitTerminal(o, Guarded(o, outcome[o]))
  <2>1. pc[o] = "settle" BY <1>4 DEF Settle
  <2>2. ctx # "down" BY <1>1, <2>1, SessionAssumption DEF RegisterInv, DownInv, Thread
  <2>3. interruptOp = o \/ outcome[o] = "interruption" BY <1>2, <2>2
  <2>4. QED BY <1>1, <1>4, <2>3 DEF CommitTerminal, Guarded
<1>5. CASE Recover(o) BY <1>1, <1>5 DEF Recover, CommitTerminal
<1>6. QED BY <1>1, <1>3, <1>4, <1>5, WhoSettles

(* A settlement as an interruption has a cause in the state it commits from. *)
LEMMA InterruptionHasCause ==
  ASSUME TypeInv, RegisterInv, CoordinatorInv, [Next]_vars,
         NEW o \in Op, status[o] = "running", status'[o] = "interruption"
  PROVE  o \in interrupted \/ Closed \/ ctx # "live"
<1>1. status \in [Op -> Status] BY DEF TypeInv, TypeOK, DurableType
<1>2. SUFFICES Caused(o) BY DEF Caused, Terminal
<1>3. ASSUME ExecDone(o), pc[o] # "done" PROVE Caused(o)
  BY <1>3 DEF ExecDone, Caused, CoordinatorInv, CauseInv
<1>4. interruptOp = o => Caused(o)
  BY SessionAssumption DEF Caused, CoordinatorInv, MarkerInv, Thread
<1>5. CASE EffectTerminal(o)
  BY <1>1, <1>3, <1>4, <1>5 DEF EffectTerminal, CommitTerminal, Guarded, Caused
<1>6. CASE Settle(o) /\ ~Preserved(o) /\ CommitTerminal(o, Guarded(o, outcome[o]))
  <2>1. pc[o] = "settle" BY <1>6 DEF Settle
  <2>2. outcome[o] = "interruption" => Caused(o) BY DEF CoordinatorInv, CauseInv
  <2>3. Guarded(o, outcome[o]) = "interruption" BY <1>1, <1>6 DEF CommitTerminal
  <2>4. QED BY <1>3, <1>4, <2>1, <2>2, <2>3 DEF Guarded, Caused
<1>7. CASE Recover(o) BY <1>7 DEF Recover, Recoverable, Caused
<1>8. QED BY <1>5, <1>6, <1>7, WhoSettles

(* The run slot, the interrupt marker and the captured cancel, read at
   different moments by Interrupt, startExecution and the settlements: an
   Operation runs once, its slot passes only to its own successor, and an
   Interrupt ends what it found, and only that. *)
THEOREM RunSlotStaysOwned == Spec => RunSlotOwned
<1>. DEFINE I == TypeInv /\ RegisterInv /\ CoordinatorInv
            OnceStep == \A t \in Thread : (pc[t] = "install" /\ pc'[t] = "release") => item[t] \notin started
            HandStep == run' \notin {run, NoOp} => run = NoOp \/ (reserved = run /\ pc[run] = "install")
            WinStep  == \A o \in interrupted : status[o] = "running" => status'[o] # "success"
            HitStep  == \A o \in Op : (status[o] = "running" /\ status'[o] = "interruption") =>
                           o \in interrupted \/ Closed \/ ctx # "live"
<1>1. I => OnceStep BY DEF CoordinatorInv, StartInv
<1>2. I /\ [Next]_vars => HandStep BY WhoInstalls, SlotHandedOn
<1>3. I /\ [Next]_vars => WinStep BY MarkedEndsInterrupted
<1>4. I /\ [Next]_vars => HitStep BY InterruptionHasCause
<1>5. Spec => [][OnceStep /\ HandStep /\ WinStep /\ HitStep]_vars
  <2>. HIDE DEF I, OnceStep, HandStep, WinStep, HitStep
  <2>1. Spec => []I BY CoordinatorInvariance DEF I
  <2>2. QED BY <1>1, <1>2, <1>3, <1>4, <2>1, PTL DEF Spec
<1>6. QED BY <1>5, PTL DEF RunSlotOwned, StartedOnce, RunSlotHandoff, InterruptWins,
          InterruptHitsItsTarget
=============================================================================
