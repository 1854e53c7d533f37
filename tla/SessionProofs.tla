--------------------------- MODULE SessionProofs ---------------------------
(***************************************************************************)
(* Proofs about the coordinator of module Session, for any callers, any     *)
(* Operations and any bounds.  TypeInv is the inductive form of the type    *)
(* invariant; RegisterInv adds what makes the register invariants           *)
(* inductive: how far the resident view and a pending admission may lag     *)
(* behind the durable Session register.                                     *)
(***************************************************************************)
EXTENDS Session, TLAPS

(* The places at which a goroutine carries an item, and an execution an
   outcome. *)
CompletionPc == {"deliver", "deliverWait", "deliverRoute", "signal", "finish"}
ItemPc == {"route", "compactRoute", "admit", "prepare", "publish", "adopt", "install", "drop"}
ItemOK == \A t \in Thread :
            /\ pc[t] \in ItemPc => item[t] \in Op
            /\ pc[t] \in CompletionPc => item[t] \in Completion
            /\ t \in Op /\ pc[t] = "settle" => outcome[t] # "none"
            /\ t \in Op /\ pc[t] = "complete" => outcome[t] # "none"
TypeInv == TypeOK /\ ItemOK

(* Sequences of Operations are closed under what the FIFOs do with them. *)
LEMMA FifoOps ==
  ASSUME NEW s \in Seq(Op)
  PROVE  /\ \A e \in Op : Append(s, e) \in Seq(Op)
         /\ s # <<>> => Head(s) \in Op /\ Tail(s) \in Seq(Op)
  OBVIOUS

(* A created Session is well typed. *)
LEMMA TypeInit == Init => TypeInv
<1>. SUFFICES ASSUME Init PROVE TypeInv OBVIOUS
<1>. USE SessionAssumption
<1>1. DurableType
  <2>1. status \in [Op -> Status] BY DEF Init, Status
  <2>2. signals \subseteq Completion BY DEF Init
  <2>3. QED BY <2>1, <2>2 DEF Init, DurableType
<1>2. CoordinatorType BY DEF Init, CoordinatorType, View, Thread
<1>3. ThreadType BY DEF Init, ThreadType, Thread, Pc
<1>4. ProcessType BY DEF Init, ProcessType, Thread
<1>5. ItemOK BY DEF Init, ItemOK, ItemPc, CompletionPc, Thread
<1>6. QED BY <1>1, <1>2, <1>3, <1>4, <1>5 DEF TypeInv, TypeOK

(* Every step of a caller, an execution or the process keeps the types. *)
LEMMA TypeStep == TypeInv /\ [Next]_vars => TypeInv'
<1>. SUFFICES ASSUME TypeInv, [Next]_vars PROVE TypeInv' OBVIOUS
<1>. USE SessionAssumption DEF TypeInv, TypeOK, durableVars, fifoVars, bgVars, threadVars,
       processVars, historyVars
<1>1. ASSUME NEW t \in Caller, \E o \in Op : SubmitReserve(t, o) PROVE TypeInv'
  BY <1>1 DEF SubmitReserve, Reserve, Goto, View, Thread, Status, Terminal, Pc, ItemPc, CompletionPc,
       DurableType, CoordinatorType, ThreadType, ProcessType, ItemOK
<1>2. ASSUME NEW t \in Caller, \E o \in Op : CompactReserve(t, o) PROVE TypeInv'
  BY <1>2 DEF CompactReserve, Reserve, Goto, View, Thread, Status, Terminal, Pc, ItemPc, CompletionPc,
       DurableType, CoordinatorType, ThreadType, ProcessType, ItemOK
<1>3. ASSUME NEW t \in Caller, \E o \in Op : DeliverClaim(t, o) PROVE TypeInv'
  BY <1>3 DEF DeliverClaim, Goto, Claimable, View, Thread, Status, Terminal, Pc, ItemPc, CompletionPc,
       DurableType, CoordinatorType, ThreadType, ProcessType, ItemOK
<1>4. ASSUME NEW t \in Caller, InterruptCall(t) PROVE TypeInv'
  BY <1>4 DEF InterruptCall, Goto, View, Thread, Status, Terminal, Pc, ItemPc, CompletionPc,
       DurableType, CoordinatorType, ThreadType, ProcessType, ItemOK
<1>5. ASSUME NEW t \in Caller, StopCall(t) PROVE TypeInv'
  BY <1>5 DEF StopCall, Goto, DiscardBuffers, View, Thread, Status, Terminal, Pc, ItemPc, CompletionPc,
       DurableType, CoordinatorType, ThreadType, ProcessType, ItemOK
<1>6. ASSUME NEW t \in Caller, CallerGivesUp(t) PROVE TypeInv'
  BY <1>6 DEF CallerGivesUp, Goto, View, Thread, Status, Terminal, Pc, ItemPc, CompletionPc,
       DurableType, CoordinatorType, ThreadType, ProcessType, ItemOK
<1>7. ASSUME NEW t \in Caller, \E mode \in {"regular", "queued"} : SubmitRoute(t, mode)
      PROVE  TypeInv'
  <2>1. DurableType'
    BY <1>7 DEF SubmitRoute, Goto, Status, Terminal, DurableType, ThreadType, CoordinatorType,
         ItemOK, ItemPc, CompletionPc, Thread
  <2>2. CoordinatorType'
    <3>1. item[t] \in Op BY <1>7 DEF SubmitRoute, ThreadType, ItemOK, ItemPc, Thread
    <3>2. steering' \in Seq(Op) /\ queued' \in Seq(Op)
      <4>1. CASE UNCHANGED fifoVars BY <4>1 DEF fifoVars, CoordinatorType
      <4>2. CASE steering' = Append(steering, item[t]) /\ UNCHANGED queued
        BY <3>1, <4>2, FifoOps DEF CoordinatorType
      <4>3. CASE queued' = Append(queued, item[t]) /\ UNCHANGED steering
        BY <3>1, <4>3, FifoOps DEF CoordinatorType
      <4>4. QED BY <1>7, <4>1, <4>2, <4>3 DEF SubmitRoute
    <3>3. QED BY <1>7, <3>2 DEF SubmitRoute, CoordinatorType
  <2>3. ThreadType'
    <3>1. pc' \in [Thread -> Pc] BY <1>7 DEF SubmitRoute, Goto, ThreadType, Pc, Thread
    <3>2. QED BY <1>7, <3>1 DEF SubmitRoute, ThreadType
  <2>4. ProcessType'
    BY <1>7 DEF SubmitRoute, Goto, Thread, ProcessType, ThreadType, CoordinatorType,
       DurableType, ItemOK
  <2>5. ItemOK'
    BY <1>7 DEF SubmitRoute, Goto, Pc, Thread, ItemPc, CompletionPc, ItemOK, ThreadType,
         CoordinatorType, DurableType
  <2>6. QED BY <2>1, <2>2, <2>3, <2>4, <2>5
<1>8. ASSUME NEW t \in Caller, CompactRoute(t) PROVE TypeInv'
  BY <1>8 DEF CompactRoute, Goto, View, Thread, Status, Terminal, Pc, ItemPc, CompletionPc,
       DurableType, CoordinatorType, ThreadType, ProcessType, ItemOK
<1>9. ASSUME NEW t \in Caller, Cancel(t) PROVE TypeInv'
  BY <1>9 DEF Cancel, Goto, CanceledRun, View, Thread, Status, Terminal, Pc, ItemPc, CompletionPc,
       DurableType, CoordinatorType, ThreadType, ProcessType, ItemOK
<1>10. ASSUME NEW t \in Caller, DeliverRoute(t) PROVE TypeInv'
  <2>1. DurableType'
    BY <1>10 DEF DeliverRoute, Goto, DeliveryPriority, Status, Terminal, DurableType,
         ThreadType, CoordinatorType, ItemOK, ItemPc, CompletionPc, Thread
  <2>2. CoordinatorType'
    <3>1. item[t] \in Op BY <1>10 DEF DeliverRoute, ThreadType, ItemOK, CompletionPc, Thread
    <3>2. steering' \in Seq(Op) /\ queued' \in Seq(Op)
      <4>1. CASE UNCHANGED fifoVars BY <4>1 DEF fifoVars, CoordinatorType
      <4>2. CASE steering' = Append(steering, item[t]) /\ UNCHANGED queued
        BY <3>1, <4>2, FifoOps DEF CoordinatorType
      <4>3. QED BY <1>10, <4>1, <4>2 DEF DeliverRoute, DeliveryPriority
    <3>3. QED BY <1>10, <3>2 DEF DeliverRoute, CoordinatorType
  <2>3. ThreadType'
    BY <1>10 DEF DeliverRoute, Goto, DeliveryPriority, Pc, Thread, Terminal, ThreadType,
         CoordinatorType, DurableType, ItemOK
  <2>4. ProcessType'
    BY <1>10 DEF DeliverRoute, Goto, DeliveryPriority, Thread, ProcessType, ThreadType,
         CoordinatorType, DurableType, ItemOK
  <2>5. ItemOK'
    BY <1>10 DEF DeliverRoute, Goto, DeliveryPriority, Pc, Thread, ItemPc, CompletionPc,
         ItemOK, ThreadType, CoordinatorType, DurableType
  <2>6. QED BY <2>1, <2>2, <2>3, <2>4, <2>5
<1>11. ASSUME NEW t \in Caller, DeliverReserve(t) PROVE TypeInv'
  <2>1. DurableType'
    BY <1>11 DEF DeliverReserve, Reserve, Goto, Status, Terminal, DurableType, ThreadType,
         CoordinatorType, ItemOK, ItemPc, CompletionPc, Thread
  <2>2. CoordinatorType'
    BY <1>11 DEF DeliverReserve, Reserve, Goto, View, Thread, CoordinatorType, ThreadType,
       DurableType, ItemOK, ItemPc, CompletionPc
  <2>3. ThreadType'
    BY <1>11 DEF DeliverReserve, Reserve, Goto, Pc, Thread, Terminal, ThreadType,
         CoordinatorType, DurableType, ItemOK
  <2>4. ProcessType'
    BY <1>11 DEF DeliverReserve, Reserve, Goto, Thread, ProcessType, ThreadType,
         CoordinatorType, DurableType, ItemOK
  <2>5. ItemOK'
    BY <1>11 DEF DeliverReserve, Reserve, Goto, Pc, Thread, ItemPc, CompletionPc, ItemOK,
         ThreadType, CoordinatorType, DurableType
  <2>6. QED BY <2>1, <2>2, <2>3, <2>4, <2>5
<1>12. ASSUME NEW t \in Caller, DeliverReroute(t) PROVE TypeInv'
  <2>1. DurableType'
    BY <1>12 DEF DeliverReroute, Goto, DeliveryPriority, Status, Terminal, DurableType,
         ThreadType, CoordinatorType, ItemOK, ItemPc, CompletionPc, Thread
  <2>2. CoordinatorType'
    <3>1. item[t] \in Op BY <1>12 DEF DeliverReroute, ThreadType, ItemOK, CompletionPc, Thread
    <3>2. steering' \in Seq(Op) /\ queued' \in Seq(Op)
      <4>1. CASE UNCHANGED fifoVars BY <4>1 DEF fifoVars, CoordinatorType
      <4>2. CASE steering' = Append(steering, item[t]) /\ UNCHANGED queued
        BY <3>1, <4>2, FifoOps DEF CoordinatorType
      <4>3. QED BY <1>12, <4>1, <4>2 DEF DeliverReroute, DeliveryPriority
    <3>3. QED BY <1>12, <3>2 DEF DeliverReroute, CoordinatorType
  <2>3. ThreadType'
    BY <1>12 DEF DeliverReroute, Goto, DeliveryPriority, Pc, Thread, Terminal, ThreadType,
         CoordinatorType, DurableType, ItemOK
  <2>4. ProcessType'
    BY <1>12 DEF DeliverReroute, Goto, DeliveryPriority, Thread, ProcessType, ThreadType,
         CoordinatorType, DurableType, ItemOK
  <2>5. ItemOK'
    BY <1>12 DEF DeliverReroute, Goto, DeliveryPriority, Pc, Thread, ItemPc, CompletionPc,
         ItemOK, ThreadType, CoordinatorType, DurableType
  <2>6. QED BY <2>1, <2>2, <2>3, <2>4, <2>5
<1>13. ASSUME NEW t \in Caller, DeliverSignal(t) PROVE TypeInv'
  <2>1. DurableType'
    BY <1>13 DEF DeliverSignal, Goto, Loaded, Fault, Status, Terminal, DurableType, ThreadType,
         CoordinatorType, ItemOK, ItemPc, CompletionPc, Thread
  <2>2. CoordinatorType'
    BY <1>13 DEF DeliverSignal, Goto, Loaded, Fault, View, Thread, CoordinatorType, ThreadType,
       DurableType, ItemOK, ItemPc, CompletionPc
  <2>3. ThreadType'
    BY <1>13 DEF DeliverSignal, Goto, Loaded, Fault, Pc, Thread, Terminal, ThreadType,
         CoordinatorType, DurableType, ItemOK
  <2>4. ProcessType'
    BY <1>13 DEF DeliverSignal, Goto, Loaded, Fault, Thread, ProcessType, ThreadType,
         CoordinatorType, DurableType, ItemOK
  <2>5. ItemOK'
    BY <1>13 DEF DeliverSignal, Goto, Loaded, Fault, Pc, Thread, ItemPc, CompletionPc, ItemOK,
         ThreadType, CoordinatorType, DurableType
  <2>6. QED BY <2>1, <2>2, <2>3, <2>4, <2>5
<1>14. ASSUME NEW t \in Caller, DeliverFinish(t) PROVE TypeInv'
  BY <1>14 DEF DeliverFinish, Goto, View, Thread, Status, Terminal, Pc, ItemPc, CompletionPc,
       DurableType, CoordinatorType, ThreadType, ProcessType, ItemOK
<1>15. ASSUME NEW t \in Thread, AdmitGuard(t) PROVE TypeInv'
  BY <1>15 DEF AdmitGuard, Goto, AdmitNext, Refusal, View, Thread, Status, Terminal, Pc, ItemPc, CompletionPc,
       DurableType, CoordinatorType, ThreadType, ProcessType, ItemOK
<1>16. ASSUME NEW t \in Thread, Prepare(t) PROVE TypeInv'
  <2>1. DurableType'
    BY <1>16 DEF Prepare, Goto, Refusal, Status, Terminal, DurableType, ThreadType,
         CoordinatorType, ItemOK, ItemPc, CompletionPc, Thread
  <2>2. CoordinatorType'
    BY <1>16 DEF Prepare, Goto, Refusal, View, Thread, CoordinatorType, ThreadType,
       DurableType, ItemOK, ItemPc, CompletionPc
  <2>3. ThreadType'
    <3>1. pc' \in [Thread -> Pc] BY <1>16 DEF Prepare, Goto, Refusal, ThreadType, Pc
    <3>2. prep' \subseteq Thread BY <1>16 DEF Prepare, ThreadType
    <3>3. QED BY <1>16, <3>1, <3>2 DEF Prepare, ThreadType
  <2>4. ProcessType'
    BY <1>16 DEF Prepare, Goto, Refusal, Thread, ProcessType, ThreadType, CoordinatorType,
       DurableType, ItemOK
  <2>5. ItemOK'
    BY <1>16 DEF Prepare, Goto, Refusal, Pc, Thread, ItemPc, CompletionPc, ItemOK, ThreadType,
         CoordinatorType, DurableType
  <2>6. QED BY <2>1, <2>2, <2>3, <2>4, <2>5
<1>17. ASSUME NEW t \in Thread, Publish(t) PROVE TypeInv'
  <2>1. DurableType'
    <3>1. item[t] \in Op BY <1>17 DEF Publish, ThreadType, ItemOK, ItemPc
    <3>2. CASE ProduceAdmission(item[t])
      BY <1>17, <3>1, <3>2 DEF Publish, ProduceAdmission, DurableType, Status
    <3>3. CASE UNCHANGED <<status, current, rev>>
      BY <1>17, <3>3 DEF Publish, DurableType
    <3>4. QED BY <1>17, <3>2, <3>3 DEF Publish
  <2>2. CoordinatorType'
    BY <1>17 DEF Publish, Goto, Refusal, ReleasePrepared, ProduceAdmission, Loaded, Fault,
         View, Thread, CoordinatorType, ThreadType, DurableType, ItemOK, ItemPc, CompletionPc
  <2>3. ThreadType'
    <3>1. pc' \in [Thread -> Pc] BY <1>17 DEF Publish, Goto, Refusal, ThreadType, Pc
    <3>2. seen' \in [Thread -> Nat] BY <1>17 DEF Publish, ThreadType, DurableType
    <3>3. prep' \subseteq Thread BY <1>17 DEF Publish, ReleasePrepared, ThreadType
    <3>4. QED BY <1>17, <3>1, <3>2, <3>3 DEF Publish, ThreadType
  <2>4. ProcessType'
    BY <1>17 DEF Publish, Goto, Refusal, ReleasePrepared, ProduceAdmission, Loaded, Fault,
         Thread, ProcessType, ThreadType, CoordinatorType, DurableType, ItemOK
  <2>5. ItemOK'
    BY <1>17 DEF Publish, Goto, Refusal, ReleasePrepared, ProduceAdmission, Loaded, Fault, Pc,
         Thread, ItemPc, CompletionPc, ItemOK, ThreadType, CoordinatorType, DurableType
  <2>6. QED BY <2>1, <2>2, <2>3, <2>4, <2>5
<1>18. ASSUME NEW t \in Thread, Adopt(t) PROVE TypeInv'
  <2>1. DurableType'
    BY <1>18 DEF Adopt, Goto, DropBuffered, HeadIs, Status, Terminal, DurableType, ThreadType,
         CoordinatorType, ItemOK, ItemPc, CompletionPc, Thread
  <2>2. CoordinatorType'
    <3>1. item[t] \in Op BY <1>18 DEF Adopt, ThreadType, ItemOK, ItemPc
    <3>2. steering' \in Seq(Op) /\ queued' \in Seq(Op)
      BY <1>18, FifoOps DEF Adopt, DropBuffered, HeadIs, CoordinatorType, fifoVars
    <3>3. QED BY <1>18, <3>1, <3>2 DEF Adopt, View, CoordinatorType, ThreadType
  <2>3. ThreadType'
    BY <1>18 DEF Adopt, Goto, DropBuffered, HeadIs, Pc, Thread, Terminal, ThreadType,
         CoordinatorType, DurableType, ItemOK
  <2>4. ProcessType'
    BY <1>18 DEF Adopt, Goto, DropBuffered, HeadIs, Thread, ProcessType, ThreadType,
         CoordinatorType, DurableType, ItemOK
  <2>5. ItemOK'
    BY <1>18 DEF Adopt, Goto, DropBuffered, HeadIs, Pc, Thread, ItemPc, CompletionPc, ItemOK,
         ThreadType, CoordinatorType, DurableType
  <2>6. QED BY <2>1, <2>2, <2>3, <2>4, <2>5
<1>19. ASSUME NEW t \in Thread, Install(t) PROVE TypeInv'
  <2>1. DurableType'
    BY <1>19 DEF Install, Status, Terminal, DurableType, ThreadType, CoordinatorType, ItemOK,
         ItemPc, CompletionPc, Thread
  <2>2. CoordinatorType'
    BY <1>19 DEF Install, View, Thread, CoordinatorType, ThreadType, DurableType, ItemOK,
         ItemPc, CompletionPc
  <2>3. ThreadType'
    <3>1. pc' \in [Thread -> Pc] BY <1>19 DEF Install, ThreadType, Pc
    <3>2. item[t] \in Op BY <1>19 DEF Install, ThreadType, ItemOK, ItemPc
    <3>3. prep' \subseteq Thread BY <1>19, <3>2 DEF Install, ThreadType, Thread
    <3>4. QED BY <1>19, <3>1, <3>3 DEF Install, ThreadType
  <2>4. ProcessType'
    <3>1. item[t] \in Op BY <1>19 DEF Install, ThreadType, ItemOK, ItemPc
    <3>2. QED BY <1>19, <3>1 DEF Install, ProcessType, processVars
  <2>5. ItemOK'
    BY <1>19 DEF Install, Pc, Thread, ItemPc, CompletionPc, ItemOK, ThreadType,
         CoordinatorType, DurableType
  <2>6. QED BY <2>1, <2>2, <2>3, <2>4, <2>5
<1>20. ASSUME NEW t \in Thread, Release(t) PROVE TypeInv'
  <2>1. DurableType'
    BY <1>20 DEF Release, Goto, AfterRelease, Status, Terminal, DurableType, ThreadType,
         CoordinatorType, ItemOK, ItemPc, CompletionPc, Thread
  <2>2. CoordinatorType'
    BY <1>20 DEF Release, Goto, AfterRelease, View, Thread, CoordinatorType, ThreadType,
       DurableType, ItemOK, ItemPc, CompletionPc
  <2>3. ThreadType'
    BY <1>20 DEF Release, Goto, AfterRelease, Pc, Thread, Terminal, ThreadType,
         CoordinatorType, DurableType, ItemOK
  <2>4. ProcessType'
    BY <1>20 DEF Release, Goto, AfterRelease, Thread, ProcessType, ThreadType, CoordinatorType,
       DurableType, ItemOK
  <2>5. ItemOK'
    BY <1>20 DEF Release, Goto, AfterRelease, Pc, Thread, ItemPc, CompletionPc, ItemOK,
         ThreadType, CoordinatorType, DurableType
  <2>6. QED BY <2>1, <2>2, <2>3, <2>4, <2>5
<1>21. ASSUME NEW o \in Op, Enter(o) PROVE TypeInv'
  <2>1. DurableType'
    BY <1>21 DEF Enter, Goto, Status, Terminal, DurableType, ThreadType, CoordinatorType,
         ItemOK, ItemPc, CompletionPc, Thread
  <2>2. CoordinatorType'
    BY <1>21 DEF Enter, Goto, View, Thread, CoordinatorType, ThreadType, DurableType, ItemOK,
         ItemPc, CompletionPc
  <2>3. ThreadType'
    BY <1>21 DEF Enter, Goto, Pc, Thread, Terminal, ThreadType, CoordinatorType, DurableType,
         ItemOK
  <2>4. ProcessType'
    BY <1>21 DEF Enter, Goto, Thread, ProcessType, ThreadType, CoordinatorType, DurableType,
         ItemOK
  <2>5. ItemOK'
    BY <1>21 DEF Enter, Goto, Pc, Thread, ItemPc, CompletionPc, ItemOK, ThreadType,
         CoordinatorType, DurableType
  <2>6. QED BY <2>1, <2>2, <2>3, <2>4, <2>5
<1>22. ASSUME NEW o \in Op, Work(o) PROVE TypeInv'
  BY <1>22 DEF Work, Goto, Fault, PublicationFails, Loaded, View, Thread, Status, Terminal, Pc, ItemPc, CompletionPc,
       DurableType, CoordinatorType, ThreadType, ProcessType, ItemOK
<1>23. ASSUME NEW o \in Op, EffectTerminal(o) PROVE TypeInv'
  BY <1>23 DEF EffectTerminal, Goto, CommitTerminal, Guarded, View, Thread, Status, Terminal,
       Pc, ItemPc, CompletionPc,
       DurableType, CoordinatorType, ThreadType, ProcessType, ItemOK
<1>24. ASSUME NEW o \in Op, CompleteReserve(o) PROVE TypeInv'
  <2>1. DurableType'
    BY <1>24 DEF CompleteReserve, Reserve, Goto, Status, Terminal, DurableType, ThreadType,
         CoordinatorType, ItemOK, ItemPc, CompletionPc, Thread
  <2>2. CoordinatorType'
    BY <1>24 DEF CompleteReserve, Reserve, Goto, View, Thread, CoordinatorType, ThreadType,
       DurableType, ItemOK, ItemPc, CompletionPc
  <2>3. ThreadType'
    BY <1>24 DEF CompleteReserve, Reserve, Goto, Pc, Thread, Terminal, ThreadType,
         CoordinatorType, DurableType, ItemOK
  <2>4. ProcessType'
    BY <1>24 DEF CompleteReserve, Reserve, Goto, Thread, ProcessType, ThreadType,
         CoordinatorType, DurableType, ItemOK
  <2>5. ItemOK'
    BY <1>24 DEF CompleteReserve, Reserve, Goto, Pc, Thread, ItemPc, CompletionPc, ItemOK,
         ThreadType, CoordinatorType, DurableType
  <2>6. QED BY <2>1, <2>2, <2>3, <2>4, <2>5
<1>25. ASSUME NEW o \in Op, Settle(o) PROVE TypeInv'
  <2>1. DurableType'
    <3>1. CASE \E r \in Terminal : CommitTerminal(o, r)
      BY <1>25, <3>1 DEF Settle, CommitTerminal, DurableType, Status
    <3>2. CASE UNCHANGED <<status, current, rev>>
      BY <1>25, <3>2 DEF Settle, DurableType
    <3>3. outcome[o] \in Terminal \/ Preserved(o)
      BY <1>25 DEF Settle, ThreadType, Preserved, ItemOK, Thread
    <3>4. QED BY <1>25, <3>1, <3>2, <3>3 DEF Settle, Guarded, Terminal
  <2>2. CoordinatorType'
    BY <1>25 DEF Settle, Goto, CommitTerminal, Guarded, Loaded, Fault, Preserved, View, Thread,
         CoordinatorType, ThreadType, DurableType, ItemOK, ItemPc, CompletionPc
  <2>3. ThreadType'
    BY <1>25 DEF Settle, Goto, CommitTerminal, Guarded, Loaded, Fault, Preserved, Pc, Thread,
         Terminal, ThreadType, CoordinatorType, DurableType, ItemOK
  <2>4. ProcessType'
    BY <1>25 DEF Settle, Goto, CommitTerminal, Guarded, Loaded, Fault, Preserved, Thread,
         ProcessType, ThreadType, CoordinatorType, DurableType, ItemOK
  <2>5. ItemOK'
    BY <1>25 DEF Settle, Goto, CommitTerminal, Guarded, Loaded, Fault, Preserved, Pc, Thread,
         ItemPc, CompletionPc, ItemOK, ThreadType, CoordinatorType, DurableType
  <2>6. QED BY <2>1, <2>2, <2>3, <2>4, <2>5
<1>26. ASSUME NEW o \in Op, Drain(o) PROVE TypeInv'
  <2>1. DurableType'
    BY <1>26 DEF Drain, Goto, DiscardBuffers, EmptyScan, Empty, Status, Terminal, DurableType,
         ThreadType, CoordinatorType, ItemOK, ItemPc, CompletionPc, Thread
  <2>2. CoordinatorType'
    <3>1. steering' \in Seq(Op) /\ queued' \in Seq(Op)
      <4>1. CASE UNCHANGED fifoVars BY <4>1 DEF fifoVars, CoordinatorType
      <4>2. CASE DiscardBuffers BY <4>2 DEF DiscardBuffers
      <4>3. QED BY <1>26, <4>1, <4>2 DEF Drain
    <3>2. run' \in Op \cup {NoOp} BY <1>26 DEF Drain, EmptyScan, CoordinatorType
    <3>3. QED BY <1>26, <3>1, <3>2 DEF Drain, CoordinatorType
  <2>3. ThreadType'
    <3>1. pc' \in [Thread -> Pc] BY <1>26 DEF Drain, Goto, ThreadType, Pc, Thread
    <3>2. ~Empty => Head(IF steering # <<>> THEN steering ELSE queued) \in Op
      BY FifoOps DEF CoordinatorType, Empty
    <3>3. item' \in [Thread -> Op \cup {NoOp}] BY <1>26, <3>2 DEF Drain, ThreadType, Thread
    <3>4. QED BY <1>26, <3>1, <3>3 DEF Drain, ThreadType
  <2>4. ProcessType'
    BY <1>26 DEF Drain, Goto, DiscardBuffers, EmptyScan, Empty, Thread, ProcessType,
         ThreadType, CoordinatorType, DurableType, ItemOK
  <2>5. ItemOK'
    <3>1. ~Empty => Head(IF steering # <<>> THEN steering ELSE queued) \in Op
      BY FifoOps DEF CoordinatorType, Empty
    <3>5. outcome' = outcome BY <1>26 DEF Drain
    <3>2. CASE pc' = [pc EXCEPT ![o] = "release"] /\ item' = item
      BY <3>2, <3>5 DEF ItemOK, ItemPc, CompletionPc, ThreadType
    <3>3. CASE ~Empty /\ pc' = [pc EXCEPT ![o] = "admit"]
               /\ item' = [item EXCEPT ![o] = Head(IF steering # <<>> THEN steering ELSE queued)]
      BY <3>1, <3>3, <3>5 DEF ItemOK, ItemPc, CompletionPc, ThreadType, Thread
    <3>4. QED BY <1>26, <3>2, <3>3 DEF Drain, Goto
  <2>6. QED BY <2>1, <2>2, <2>3, <2>4, <2>5
<1>27. ASSUME NEW o \in Op, Drop(o) PROVE TypeInv'
  <2>1. DurableType'
    BY <1>27 DEF Drop, Goto, DropBuffered, HeadIs, Status, Terminal, DurableType, ThreadType,
         CoordinatorType, ItemOK, ItemPc, CompletionPc, Thread
  <2>2. CoordinatorType'
    BY <1>27 DEF Drop, Goto, DropBuffered, HeadIs, View, Thread, CoordinatorType, ThreadType,
       DurableType, ItemOK, ItemPc, CompletionPc
  <2>3. ThreadType'
    BY <1>27 DEF Drop, Goto, DropBuffered, HeadIs, Pc, Thread, Terminal, ThreadType,
         CoordinatorType, DurableType, ItemOK
  <2>4. ProcessType'
    BY <1>27 DEF Drop, Goto, DropBuffered, HeadIs, Thread, ProcessType, ThreadType,
         CoordinatorType, DurableType, ItemOK
  <2>5. ItemOK'
    BY <1>27 DEF Drop, Goto, DropBuffered, HeadIs, Pc, Thread, ItemPc, CompletionPc, ItemOK,
         ThreadType, CoordinatorType, DurableType
  <2>6. QED BY <2>1, <2>2, <2>3, <2>4, <2>5
<1>28. ASSUME NEW o \in Op, Retire(o) PROVE TypeInv'
  BY <1>28 DEF Retire, Goto, Retirement, View, Thread, Status, Terminal, Pc, ItemPc, CompletionPc,
       DurableType, CoordinatorType, ThreadType, ProcessType, ItemOK
<1>29. ASSUME NEW m \in Completion, StartMember(m) PROVE TypeInv'
  BY <1>29 DEF StartMember, View, Thread, Status, Terminal, Pc, ItemPc, CompletionPc,
       DurableType, CoordinatorType, ThreadType, ProcessType, ItemOK
<1>30. ASSUME ChangeAgentType PROVE TypeInv'
  <2>1. DurableType' BY <1>30 DEF ChangeAgentType, Rewrite, View, Loaded, DurableType, CoordinatorType
  <2>2. CoordinatorType' BY <1>30 DEF ChangeAgentType, Rewrite, View, Loaded, DurableType, CoordinatorType
  <2>3. ThreadType' /\ ProcessType' /\ ItemOK'
    BY <1>30 DEF ChangeAgentType, Rewrite, ThreadType, ProcessType, ItemOK
  <2>4. QED BY <2>1, <2>2, <2>3
<1>31. ASSUME ReopenSession PROVE TypeInv'
  <2>1. DurableType' BY <1>31 DEF ReopenSession, Rewrite, View, Loaded, DurableType, CoordinatorType
  <2>2. CoordinatorType' BY <1>31 DEF ReopenSession, Rewrite, View, Loaded, DurableType, CoordinatorType
  <2>3. ThreadType' /\ ProcessType' /\ ItemOK'
    BY <1>31 DEF ReopenSession, Rewrite, ThreadType, ProcessType, ItemOK
  <2>4. QED BY <2>1, <2>2, <2>3
<1>32. ASSUME ArchiveSession PROVE TypeInv'
  <2>1. DurableType' BY <1>32 DEF ArchiveSession, Rewrite, View, Loaded, DurableType, CoordinatorType
  <2>2. CoordinatorType' BY <1>32 DEF ArchiveSession, Rewrite, View, Loaded, DurableType, CoordinatorType
  <2>3. ThreadType' /\ ProcessType' /\ ItemOK'
    BY <1>32 DEF ArchiveSession, Rewrite, ThreadType, ProcessType, ItemOK
  <2>4. QED BY <2>1, <2>2, <2>3
<1>33. ASSUME DeleteSession PROVE TypeInv'
  BY <1>33 DEF DeleteSession, Invalidate, DiscardBuffers, View, Thread, Status, Terminal, Pc, ItemPc, CompletionPc,
       DurableType, CoordinatorType, ThreadType, ProcessType, ItemOK
<1>34. ASSUME SweepSession PROVE TypeInv'
  <2>1. DurableType'
    BY <1>34 DEF SweepSession, Invalidate, DiscardBuffers, Status, Terminal, DurableType,
         ThreadType, CoordinatorType, ItemOK, ItemPc, CompletionPc, Thread
  <2>2. CoordinatorType'
    <3>1. CASE Invalidate BY <1>34, <3>1 DEF Invalidate, DiscardBuffers, CoordinatorType
    <3>2. CASE graph' = View("archived", NoOp, rev + 1, graph.known)
               /\ UNCHANGED <<reserved, fifoVars, run, interruptOp, bgVars>>
      BY <3>2 DEF View, CoordinatorType, DurableType, fifoVars
    <3>3. QED BY <1>34, <3>1, <3>2 DEF SweepSession
  <2>3. ThreadType'
    BY <1>34 DEF SweepSession, Invalidate, DiscardBuffers, Pc, Thread, Terminal, ThreadType,
         CoordinatorType, DurableType, ItemOK
  <2>4. ProcessType'
    BY <1>34 DEF SweepSession, Invalidate, DiscardBuffers, Thread, ProcessType, ThreadType,
         CoordinatorType, DurableType, ItemOK
  <2>5. ItemOK'
    BY <1>34 DEF SweepSession, Invalidate, DiscardBuffers, Pc, Thread, ItemPc, CompletionPc,
         ItemOK, ThreadType, CoordinatorType, DurableType
  <2>6. QED BY <2>1, <2>2, <2>3, <2>4, <2>5
<1>35. ASSUME CancelHarness PROVE TypeInv'
  BY <1>35 DEF CancelHarness, View, Thread, Status, Terminal, Pc, ItemPc, CompletionPc,
       DurableType, CoordinatorType, ThreadType, ProcessType, ItemOK
<1>36. ASSUME WaitScan PROVE TypeInv'
  BY <1>36 DEF WaitScan, View, Thread, Status, Terminal, Pc, ItemPc, CompletionPc,
       DurableType, CoordinatorType, ThreadType, ProcessType, ItemOK
<1>37. ASSUME WaitRescan PROVE TypeInv'
  BY <1>37 DEF WaitRescan, WaitBusy, DiscardBuffers, View, Thread, Status, Terminal, Pc, ItemPc, CompletionPc,
       DurableType, CoordinatorType, ThreadType, ProcessType, ItemOK
<1>38. ASSUME Crash PROVE TypeInv'
  <2>1. DurableType'
    BY <1>38 DEF Crash, DiscardBuffers, Status, Terminal, DurableType, ThreadType,
         CoordinatorType, ItemOK, ItemPc, CompletionPc, Thread
  <2>2. CoordinatorType'
    BY <1>38 DEF Crash, DiscardBuffers, View, Thread, CoordinatorType, ThreadType, DurableType,
         ItemOK, ItemPc, CompletionPc
  <2>3. ThreadType'
    BY <1>38 DEF Crash, DiscardBuffers, Pc, Thread, Terminal, ThreadType, CoordinatorType,
       DurableType, ItemOK
  <2>4. ProcessType'
    BY <1>38 DEF Crash, DiscardBuffers, Thread, ProcessType, ThreadType, CoordinatorType,
       DurableType, ItemOK
  <2>5. ItemOK'
    BY <1>38 DEF Crash, DiscardBuffers, Pc, Thread, ItemPc, CompletionPc, ItemOK, ThreadType,
         CoordinatorType, DurableType
  <2>6. QED BY <2>1, <2>2, <2>3, <2>4, <2>5
<1>39. ASSUME Restart PROVE TypeInv'
  BY <1>39 DEF Restart, Loaded, View, Thread, Status, Terminal, Pc, ItemPc, CompletionPc,
       DurableType, CoordinatorType, ThreadType, ProcessType, ItemOK
<1>40. ASSUME NEW o \in Op, Recover(o) PROVE TypeInv'
  BY <1>40 DEF Recover, CommitTerminal, View, Thread, Status, Terminal, Pc, ItemPc, CompletionPc,
       DurableType, CoordinatorType, ThreadType, ProcessType, ItemOK
<1>41. ASSUME UNCHANGED vars PROVE TypeInv'
  BY <1>41 DEF DurableType, CoordinatorType, ThreadType, ProcessType, ItemOK, vars
<1>42. QED
  BY <1>1, <1>2, <1>3, <1>4, <1>5, <1>6, <1>7, <1>8, <1>9, <1>10, <1>11, <1>12, <1>13, <1>14,
       <1>15, <1>16, <1>17, <1>18, <1>19, <1>20, <1>21, <1>22, <1>23, <1>24, <1>25, <1>26,
       <1>27, <1>28, <1>29, <1>30, <1>31, <1>32, <1>33, <1>34, <1>35, <1>36, <1>37, <1>38,
       <1>39, <1>40, <1>41 DEF Next, CallerCall, CallerProgress, AdmissionStep, ExecutionStep,
       LifecycleStep, ProcessStep

-----------------------------------------------------------------------------
(* The registers and the executions. *)

(* The resident view is never ahead of the durable Session register, and at
   the same revision it names the same current Operation. *)
ResidentView == graph.rev <= rev /\ (graph.rev = rev => graph.current = current)

(* An admission that has passed its guard remembers a revision at which the
   Session was idle; one whose commit is done owns the current Operation,
   whose execution does not exist yet. *)
AdmissionView ==
    \A t \in Thread :
        /\ pc[t] \in {"prepare",
             "publish"} => seen[t] <= rev /\ (seen[t] = rev => current = NoOp)
        /\ pc[t] = "adopt" => seen[t] <= rev
        /\ pc[t] \in {"adopt", "install"} => current = item[t] /\ pc[item[t]] = "none"

(* At most one admission is between its commit and its installation. *)
OneAdmitted ==
    \A s, t \in Thread : (pc[s] \in {"adopt", "install"} /\ pc[t] \in {"adopt",
         "install"}) => s = t

(* An Operation that has an execution has a register. *)
FreshOps == \A o \in Op : pc[o] # "none" => status[o] # "absent"

(* No goroutine of the lost process survives into recovery. *)
DownInv == ctx = "down" => \A t \in Thread : pc[t] \in {"down", "none"}

RegisterInv == /\ CurrentIsRunning /\ SingleExecution /\ ResidentView /\ AdmissionView
               /\ OneAdmitted /\ FreshOps /\ DownInv

RegisterPc == {"prepare", "publish", "adopt", "install", "spawned", "running"}

Quiet(t) ==
    /\ pc[t] \notin {"down", "none"}
    /\ \E l \in Pc \ (RegisterPc \cup {"none"}) : pc' = [pc EXCEPT ![t] = l]
    /\ \A s \in Thread \ {t} : item'[s] = item[s]
    /\ UNCHANGED <<current, rev, status, graph, seen, ctx>>

(* A created Session has no admission, no execution and a current view. *)
LEMMA RegisterInit == Init => RegisterInv
  BY SessionAssumption DEF Init, View, Thread, Live, RegisterInv, CurrentIsRunning,
       SingleExecution,
       ResidentView, AdmissionView, OneAdmitted, FreshOps, DownInv

(* A step that moves one live goroutine between places that neither commit
   an admission nor run effects, and leaves registers and view alone, keeps
   the invariant. *)
LEMMA QuietStep ==
  ASSUME TypeInv, RegisterInv, NEW t \in Thread, Quiet(t)
  PROVE  RegisterInv'
<1>. USE DEF TypeInv, TypeOK, ThreadType, RegisterInv, RegisterPc, Quiet
<1>1. CurrentIsRunning' BY DEF CurrentIsRunning
<1>2. SingleExecution' BY DEF SingleExecution, Live, Thread
<1>3. ResidentView' BY DEF ResidentView
<1>4. AdmissionView' BY DEF AdmissionView, ItemOK, ItemPc, Thread
<1>5. OneAdmitted' BY DEF OneAdmitted
<1>6. FreshOps' BY DEF FreshOps, Thread
<1>7. DownInv' BY DEF DownInv
<1>8. QED BY <1>1, <1>2, <1>3, <1>4, <1>5, <1>6, <1>7

(* commitTerminalSettlement moves both registers. *)
LEMMA TerminalRegisters ==
  ASSUME DurableType, CurrentIsRunning, NEW o \in Op, NEW r \in Terminal,
         status[o] = "running", CommitTerminal(o, r)
  PROVE  CurrentIsRunning'
<1>1. current = o BY DEF CurrentIsRunning
<1>2. \A x \in Op : status'[x] # "running"
  BY <1>1 DEF CurrentIsRunning, CommitTerminal, DurableType, Terminal
<1>3. current' = NoOp BY DEF CommitTerminal
<1>4. QED BY <1>2, <1>3, SessionAssumption DEF CurrentIsRunning, Thread

(* Every step keeps the registers, the view and the executions in agreement. *)
LEMMA RegisterStep == TypeInv /\ RegisterInv /\ [Next]_vars => RegisterInv'
<1>. SUFFICES ASSUME TypeInv, RegisterInv, [Next]_vars PROVE RegisterInv' OBVIOUS
<1>. USE SessionAssumption DEF TypeInv, TypeOK, durableVars, fifoVars, bgVars, threadVars,
     processVars, historyVars
<1>1. ASSUME NEW t \in Caller, \E o \in Op : SubmitReserve(t, o) PROVE RegisterInv'
  <2>1. t \in Thread BY <1>1 DEF Thread
  <2>2. Quiet(t)
    BY <1>1, <2>1 DEF SubmitReserve, Reserve, Goto, Quiet, RegisterPc, Pc, ThreadType
  <2>3. QED BY <2>1, <2>2, QuietStep
<1>2. ASSUME NEW t \in Caller, \E o \in Op : CompactReserve(t, o) PROVE RegisterInv'
  <2>. PICK o \in Op : CompactReserve(t, o) BY <1>2
  <2>1. t \in Thread BY <1>2 DEF Thread
  <2>2. Quiet(t)
    BY <1>2, <2>1 DEF CompactReserve, Reserve, Goto, Quiet, RegisterPc, Pc, ThreadType
  <2>3. QED BY <2>1, <2>2, QuietStep
<1>3. ASSUME NEW t \in Caller, \E o \in Op : DeliverClaim(t, o) PROVE RegisterInv'
  <2>1. t \in Thread BY <1>3 DEF Thread
  <2>2. Quiet(t)
    BY <1>3, <2>1 DEF DeliverClaim, Goto, Claimable, Quiet, RegisterPc, Pc, ThreadType
  <2>3. QED BY <2>1, <2>2, QuietStep
<1>4. ASSUME NEW t \in Caller, InterruptCall(t) PROVE RegisterInv'
  <2>1. t \in Thread BY <1>4 DEF Thread
  <2>2. Quiet(t) BY <1>4, <2>1 DEF InterruptCall, Goto, Quiet, RegisterPc, Pc, ThreadType
  <2>3. QED BY <2>1, <2>2, QuietStep
<1>5. ASSUME NEW t \in Caller, StopCall(t) PROVE RegisterInv'
  <2>1. t \in Thread BY <1>5 DEF Thread
  <2>2. Quiet(t)
    BY <1>5, <2>1 DEF StopCall, Goto, DiscardBuffers, Quiet, RegisterPc, Pc, ThreadType
  <2>3. QED BY <2>1, <2>2, QuietStep
<1>6. ASSUME NEW t \in Caller, CallerGivesUp(t) PROVE RegisterInv'
  <2>1. t \in Thread BY <1>6 DEF Thread
  <2>2. Quiet(t) BY <1>6, <2>1 DEF CallerGivesUp, Goto, Quiet, RegisterPc, Pc, ThreadType
  <2>3. QED BY <2>1, <2>2, QuietStep
<1>7. ASSUME NEW t \in Caller, \E mode \in {"regular", "queued"} : SubmitRoute(t, mode)
      PROVE  RegisterInv'
  <2>1. t \in Thread BY <1>7 DEF Thread
  <2>2. Quiet(t) BY <1>7, <2>1 DEF SubmitRoute, Goto, Quiet, RegisterPc, Pc, ThreadType
  <2>3. QED BY <2>1, <2>2, QuietStep
<1>8. ASSUME NEW t \in Caller, CompactRoute(t) PROVE RegisterInv'
  <2>1. t \in Thread BY <1>8 DEF Thread
  <2>2. Quiet(t) BY <1>8, <2>1 DEF CompactRoute, Goto, Quiet, RegisterPc, Pc, ThreadType
  <2>3. QED BY <2>1, <2>2, QuietStep
<1>9. ASSUME NEW t \in Caller, Cancel(t) PROVE RegisterInv'
  <2>1. t \in Thread BY <1>9 DEF Thread
  <2>2. Quiet(t) BY <1>9, <2>1 DEF Cancel, Goto, CanceledRun, Quiet, RegisterPc, Pc, ThreadType
  <2>3. QED BY <2>1, <2>2, QuietStep
<1>10. ASSUME NEW t \in Caller, DeliverRoute(t) PROVE RegisterInv'
  <2>1. t \in Thread BY <1>10 DEF Thread
  <2>2. Quiet(t)
    BY <1>10, <2>1 DEF DeliverRoute, Goto, DeliveryPriority, Quiet, RegisterPc, Pc, ThreadType
  <2>3. QED BY <2>1, <2>2, QuietStep
<1>11. ASSUME NEW t \in Caller, DeliverReserve(t) PROVE RegisterInv'
  <2>1. t \in Thread BY <1>11 DEF Thread
  <2>2. Quiet(t)
    BY <1>11, <2>1 DEF DeliverReserve, Reserve, Goto, Quiet, RegisterPc, Pc, ThreadType
  <2>3. QED BY <2>1, <2>2, QuietStep
<1>12. ASSUME NEW t \in Caller, DeliverReroute(t) PROVE RegisterInv'
  <2>1. t \in Thread BY <1>12 DEF Thread
  <2>2. Quiet(t)
    BY <1>12, <2>1 DEF DeliverReroute, Goto, DeliveryPriority, Quiet, RegisterPc, Pc, ThreadType
  <2>3. QED BY <2>1, <2>2, QuietStep
<1>13. ASSUME NEW t \in Caller, DeliverSignal(t) PROVE RegisterInv'
  BY <1>13 DEF DeliverSignal, Goto, Loaded, Fault, View, Live, Thread, RegisterInv,
       CurrentIsRunning, SingleExecution,
         ResidentView, AdmissionView, OneAdmitted, FreshOps, DownInv, ThreadType, DurableType
<1>14. ASSUME NEW t \in Caller, DeliverFinish(t) PROVE RegisterInv'
  <2>1. t \in Thread BY <1>14 DEF Thread
  <2>2. Quiet(t) BY <1>14, <2>1 DEF DeliverFinish, Goto, Quiet, RegisterPc, Pc, ThreadType
  <2>3. QED BY <2>1, <2>2, QuietStep
<1>15. ASSUME NEW t \in Thread, AdmitGuard(t) PROVE RegisterInv'
  <2>1. CurrentIsRunning'
    BY <1>15 DEF AdmitGuard, Goto, AdmitNext, Refusal, CurrentIsRunning, RegisterInv,
         AdmissionView, SingleExecution, DurableType, Terminal, ThreadType, ItemOK, ItemPc
  <2>2. SingleExecution'
    BY <1>15 DEF AdmitGuard, Goto, AdmitNext, Refusal, SingleExecution, RegisterInv, Live,
         AdmissionView, CurrentIsRunning, DownInv, ThreadType, Thread, DurableType
  <2>3. ResidentView'
    BY <1>15 DEF AdmitGuard, Goto, AdmitNext, Refusal, ResidentView, RegisterInv, View,
       DurableType, CoordinatorType
  <2>4. AdmissionView'
    BY <1>15 DEF AdmitGuard, Goto, AdmitNext, Refusal, AdmissionView, RegisterInv,
         ResidentView, SingleExecution, Live, CurrentIsRunning, AdmitRefused, FreshOps,
         DownInv, ThreadType, ItemOK, ItemPc, Thread, DurableType, CoordinatorType
  <2>5. OneAdmitted'
    BY <1>15 DEF AdmitGuard, Goto, AdmitNext, Refusal, OneAdmitted, RegisterInv, AdmissionView,
         ThreadType, ItemOK, ItemPc, DownInv
  <2>6. FreshOps'
    BY <1>15 DEF AdmitGuard, Goto, AdmitNext, Refusal, FreshOps, RegisterInv, ThreadType,
         Thread, DurableType, Terminal
  <2>7. DownInv'
    BY <1>15 DEF AdmitGuard, Goto, AdmitNext, Refusal, DownInv, RegisterInv, ThreadType
  <2>8. QED BY <2>1, <2>2, <2>3, <2>4, <2>5, <2>6, <2>7 DEF RegisterInv
<1>16. ASSUME NEW t \in Thread, Prepare(t) PROVE RegisterInv'
  <2>1. CurrentIsRunning'
    BY <1>16 DEF Prepare, Goto, Refusal, CurrentIsRunning, RegisterInv, AdmissionView,
         SingleExecution, DurableType, Terminal, ThreadType, ItemOK, ItemPc
  <2>2. SingleExecution'
    BY <1>16 DEF Prepare, Goto, Refusal, SingleExecution, RegisterInv, Live, AdmissionView,
         CurrentIsRunning, DownInv, ThreadType, Thread, DurableType
  <2>3. ResidentView'
    BY <1>16 DEF Prepare, Goto, Refusal, ResidentView, RegisterInv, View, DurableType,
         CoordinatorType
  <2>4. AdmissionView'
    BY <1>16 DEF Prepare, Goto, Refusal, AdmissionView, RegisterInv, ResidentView,
         SingleExecution, Live, CurrentIsRunning, AdmitRefused, FreshOps, DownInv, ThreadType,
         ItemOK, ItemPc, Thread, DurableType, CoordinatorType
  <2>5. OneAdmitted'
    BY <1>16 DEF Prepare, Goto, Refusal, OneAdmitted, RegisterInv, AdmissionView, ThreadType,
         ItemOK, ItemPc, DownInv
  <2>6. FreshOps'
    BY <1>16 DEF Prepare, Goto, Refusal, FreshOps, RegisterInv, ThreadType, Thread,
       DurableType, Terminal
  <2>7. DownInv' BY <1>16 DEF Prepare, Goto, Refusal, DownInv, RegisterInv, ThreadType
  <2>8. QED BY <2>1, <2>2, <2>3, <2>4, <2>5, <2>6, <2>7 DEF RegisterInv
<1>17. ASSUME NEW t \in Thread, Publish(t) PROVE RegisterInv'
  <2>1. CurrentIsRunning'
    <3>1. item[t] \in Op BY <1>17 DEF Publish, ThreadType, ItemOK, ItemPc
    <3>2. CASE UNCHANGED <<status, current>> BY <3>2 DEF RegisterInv, CurrentIsRunning
    <3>3. CASE rev = seen[t] /\ ProduceAdmission(item[t])
      <4>1. current = NoOp BY <1>17, <3>3 DEF Publish, RegisterInv, AdmissionView
      <4>2. \A o \in Op : status[o] # "running"
        BY <4>1 DEF RegisterInv, CurrentIsRunning, Thread
      <4>3. QED BY <3>1, <3>3, <4>2 DEF ProduceAdmission, CurrentIsRunning, DurableType
    <3>4. QED BY <1>17, <3>2, <3>3 DEF Publish
  <2>2. SingleExecution'
    BY <1>17 DEF Publish, Goto, Refusal, ReleasePrepared, ProduceAdmission, Loaded, Fault,
         SingleExecution, RegisterInv, Live, AdmissionView, CurrentIsRunning, DownInv,
         ThreadType, Thread, DurableType
  <2>3. ResidentView'
    <3>1. CASE graph' = graph /\ UNCHANGED <<rev, current>>
      BY <3>1 DEF RegisterInv, ResidentView
    <3>2. CASE graph' = Loaded /\ UNCHANGED <<rev, current>>
      BY <3>2 DEF Loaded, View, ResidentView, DurableType
    <3>3. CASE graph' = graph /\ ProduceAdmission(item[t])
      BY <3>3 DEF ProduceAdmission, RegisterInv, ResidentView, DurableType, CoordinatorType
    <3>4. QED BY <1>17, <3>1, <3>2, <3>3 DEF Publish
  <2>4. AdmissionView'
    <3>1. item[t] \in Op BY <1>17 DEF Publish, ThreadType, ItemOK, ItemPc
    <3>2. CASE rev = seen[t] /\ status[item[t]] = "absent" /\ ProduceAdmission(item[t]) /\ Goto(t, "adopt")
               /\ seen' = [seen EXCEPT ![t] = rev + 1]
      <4>1. current = NoOp BY <1>17, <3>2 DEF Publish, RegisterInv, AdmissionView
      <4>2. pc[item[t]] = "none" BY <3>1, <3>2 DEF RegisterInv, FreshOps
      <4>3. item[t] # t BY <1>17, <4>2 DEF Publish
      <4>4. \A s \in Thread : pc[s] \notin {"adopt", "install"}
        BY <4>1 DEF RegisterInv, AdmissionView, ItemOK, ItemPc, Thread
      <4>5. QED BY <1>17, <3>1, <3>2, <4>2, <4>3, <4>4
                DEF Publish, ProduceAdmission, Goto, RegisterInv, AdmissionView, ThreadType,
                     DurableType, Thread
    <3>3. CASE UNCHANGED <<rev, current, seen>> /\ Goto(t, Refusal(t))
      BY <1>17, <3>3 DEF Publish, Goto, Refusal, RegisterInv, AdmissionView, ThreadType,
           ItemOK, ItemPc, Thread
    <3>4. QED BY <1>17, <3>2, <3>3 DEF Publish
  <2>5. OneAdmitted'
    <3>1. CASE pc' = [pc EXCEPT ![t] = Refusal(t)]
      BY <3>1 DEF Refusal, RegisterInv, OneAdmitted, ThreadType
    <3>2. CASE rev = seen[t] /\ pc' = [pc EXCEPT ![t] = "adopt"]
      <4>1. current = NoOp BY <1>17, <3>2 DEF Publish, RegisterInv, AdmissionView
      <4>2. \A s \in Thread : pc[s] \notin {"adopt", "install"}
        BY <4>1 DEF RegisterInv, AdmissionView, ItemOK, ItemPc, Thread
      <4>3. QED BY <3>2, <4>2 DEF OneAdmitted, ThreadType
    <3>3. QED BY <1>17, <3>1, <3>2 DEF Publish, Goto
  <2>6. FreshOps'
    BY <1>17 DEF Publish, Goto, Refusal, ReleasePrepared, ProduceAdmission, Loaded, Fault,
         FreshOps, RegisterInv, ThreadType, Thread, DurableType, Terminal
  <2>7. DownInv'
    BY <1>17 DEF Publish, Goto, Refusal, ReleasePrepared, ProduceAdmission, Loaded, Fault,
         DownInv, RegisterInv, ThreadType
  <2>8. QED BY <2>1, <2>2, <2>3, <2>4, <2>5, <2>6, <2>7 DEF RegisterInv
<1>18. ASSUME NEW t \in Thread, Adopt(t) PROVE RegisterInv'
  BY <1>18 DEF Adopt, Goto, DropBuffered, HeadIs, View, Live, Thread, RegisterInv,
       CurrentIsRunning, SingleExecution,
         ResidentView, AdmissionView, OneAdmitted, FreshOps, DownInv, ThreadType, DurableType
<1>19. ASSUME NEW t \in Thread, Install(t) PROVE RegisterInv'
  BY <1>19 DEF Install, View, Live, Thread, RegisterInv, CurrentIsRunning, SingleExecution,
         ResidentView, AdmissionView, OneAdmitted, FreshOps, DownInv, ThreadType, DurableType
<1>20. ASSUME NEW t \in Thread, Release(t) PROVE RegisterInv'
  <2>1. t \in Thread BY <1>20 DEF Thread
  <2>2. Quiet(t)
    BY <1>20, <2>1 DEF Release, Goto, AfterRelease, Quiet, RegisterPc, Pc, ThreadType
  <2>3. QED BY <2>1, <2>2, QuietStep
<1>21. ASSUME NEW o \in Op, Enter(o) PROVE RegisterInv'
  BY <1>21 DEF Enter, Goto, View, Live, Thread, RegisterInv, CurrentIsRunning, SingleExecution,
         ResidentView, AdmissionView, OneAdmitted, FreshOps, DownInv, ThreadType, DurableType
<1>22. ASSUME NEW o \in Op, Work(o) PROVE RegisterInv'
  BY <1>22 DEF Work, Goto, Fault, PublicationFails, Loaded, View, Live, Thread, RegisterInv,
       CurrentIsRunning, SingleExecution,
         ResidentView, AdmissionView, OneAdmitted, FreshOps, DownInv, ThreadType, DurableType
<1>23. ASSUME NEW o \in Op, EffectTerminal(o) PROVE RegisterInv'
  <2>1. CurrentIsRunning'
    <3>1. status[o] = "running"
      BY <1>23 DEF EffectTerminal, RegisterInv, CurrentIsRunning, SingleExecution, Live
    <3>2. PICK r \in Terminal : CommitTerminal(o, r)
      BY <1>23 DEF EffectTerminal, Guarded, Terminal
    <3>3. QED BY <3>1, <3>2, TerminalRegisters DEF RegisterInv
  <2>2. SingleExecution'
    BY <1>23 DEF EffectTerminal, Goto, CommitTerminal, Guarded, SingleExecution, RegisterInv,
         Live, AdmissionView, CurrentIsRunning, DownInv, ThreadType, Thread, DurableType
  <2>3. ResidentView'
    BY <1>23 DEF EffectTerminal, Goto, CommitTerminal, Guarded, ResidentView, RegisterInv,
         View, DurableType, CoordinatorType
  <2>4. AdmissionView'
    BY <1>23 DEF EffectTerminal, Goto, CommitTerminal, Guarded, AdmissionView, RegisterInv,
         ResidentView, SingleExecution, Live, CurrentIsRunning, AdmitRefused, FreshOps,
         DownInv, ThreadType, ItemOK, ItemPc, Thread, DurableType, CoordinatorType
  <2>5. OneAdmitted'
    BY <1>23 DEF EffectTerminal, Goto, CommitTerminal, Guarded, OneAdmitted, RegisterInv,
         AdmissionView, ThreadType, ItemOK, ItemPc, DownInv
  <2>6. FreshOps'
    BY <1>23 DEF EffectTerminal, Goto, CommitTerminal, Guarded, FreshOps, RegisterInv,
         ThreadType, Thread, DurableType, Terminal
  <2>7. DownInv'
    BY <1>23 DEF EffectTerminal, Goto, CommitTerminal, Guarded, DownInv, RegisterInv, ThreadType
  <2>8. QED BY <2>1, <2>2, <2>3, <2>4, <2>5, <2>6, <2>7 DEF RegisterInv
<1>24. ASSUME NEW o \in Op, CompleteReserve(o) PROVE RegisterInv'
  <2>1. o \in Thread BY <1>24 DEF Thread
  <2>2. Quiet(o)
    BY <1>24, <2>1 DEF CompleteReserve, Reserve, Goto, Quiet, RegisterPc, Pc, ThreadType
  <2>3. QED BY <2>1, <2>2, QuietStep
<1>25. ASSUME NEW o \in Op, Settle(o) PROVE RegisterInv'
  <2>1. CurrentIsRunning'
    <3>1. CASE UNCHANGED <<status, current>> BY <3>1 DEF RegisterInv, CurrentIsRunning
    <3>2. CASE ~Preserved(o) /\ CommitTerminal(o, Guarded(o, outcome[o]))
      <4>1. outcome[o] \in Terminal /\ status[o] = "running"
        BY <1>25, <3>2 DEF Settle, ThreadType, Preserved, ItemOK, Thread
      <4>2. Guarded(o, outcome[o]) \in Terminal BY <4>1 DEF Guarded, Terminal
      <4>3. QED BY <3>2, <4>1, <4>2, TerminalRegisters DEF RegisterInv
    <3>3. QED BY <1>25, <3>1, <3>2 DEF Settle
  <2>2. SingleExecution'
    BY <1>25 DEF Settle, Goto, CommitTerminal, Guarded, Loaded, Fault, Preserved,
         SingleExecution, RegisterInv, Live, AdmissionView, CurrentIsRunning, DownInv,
         ThreadType, Thread, DurableType
  <2>3. ResidentView'
    BY <1>25 DEF Settle, Goto, CommitTerminal, Guarded, Loaded, Fault, Preserved, ResidentView,
         RegisterInv, View, DurableType, CoordinatorType
  <2>4. AdmissionView'
    BY <1>25 DEF Settle, Goto, CommitTerminal, Guarded, Loaded, Fault, Preserved,
         AdmissionView, RegisterInv, ResidentView, SingleExecution, Live, CurrentIsRunning,
         AdmitRefused, FreshOps, DownInv, ThreadType, ItemOK, ItemPc, Thread, DurableType,
         CoordinatorType
  <2>5. OneAdmitted'
    BY <1>25 DEF Settle, Goto, CommitTerminal, Guarded, Loaded, Fault, Preserved, OneAdmitted,
         RegisterInv, AdmissionView, ThreadType, ItemOK, ItemPc, DownInv
  <2>6. FreshOps'
    BY <1>25 DEF Settle, Goto, CommitTerminal, Guarded, Loaded, Fault, Preserved, FreshOps,
         RegisterInv, ThreadType, Thread, DurableType, Terminal
  <2>7. DownInv'
    BY <1>25 DEF Settle, Goto, CommitTerminal, Guarded, Loaded, Fault, Preserved, DownInv,
         RegisterInv, ThreadType
  <2>8. QED BY <2>1, <2>2, <2>3, <2>4, <2>5, <2>6, <2>7 DEF RegisterInv
<1>26. ASSUME NEW o \in Op, Drain(o) PROVE RegisterInv'
  <2>1. o \in Thread BY <1>26 DEF Thread
  <2>2. Quiet(o)
    BY <1>26, <2>1 DEF Drain, Goto, DiscardBuffers, EmptyScan, Empty, Quiet, RegisterPc, Pc,
         ThreadType
  <2>3. QED BY <2>1, <2>2, QuietStep
<1>27. ASSUME NEW o \in Op, Drop(o) PROVE RegisterInv'
  <2>1. o \in Thread BY <1>27 DEF Thread
  <2>2. Quiet(o)
    BY <1>27, <2>1 DEF Drop, Goto, DropBuffered, HeadIs, Quiet, RegisterPc, Pc, ThreadType
  <2>3. QED BY <2>1, <2>2, QuietStep
<1>28. ASSUME NEW o \in Op, Retire(o) PROVE RegisterInv'
  <2>1. o \in Thread BY <1>28 DEF Thread
  <2>2. Quiet(o) BY <1>28, <2>1 DEF Retire, Goto, Retirement, Quiet, RegisterPc, Pc, ThreadType
  <2>3. QED BY <2>1, <2>2, QuietStep
<1>29. ASSUME NEW m \in Completion, StartMember(m) PROVE RegisterInv'
  BY <1>29 DEF StartMember, View, Live, Thread, RegisterInv, CurrentIsRunning, SingleExecution,
         ResidentView, AdmissionView, OneAdmitted, FreshOps, DownInv, ThreadType, DurableType
<1>30. ASSUME ChangeAgentType PROVE RegisterInv'
  BY <1>30 DEF ChangeAgentType, Rewrite, Loaded, View, Live, Thread, RegisterInv,
       CurrentIsRunning, SingleExecution,
         ResidentView, AdmissionView, OneAdmitted, FreshOps, DownInv, ThreadType, DurableType
<1>31. ASSUME ReopenSession PROVE RegisterInv'
  BY <1>31 DEF ReopenSession, Rewrite, Loaded, View, Live, Thread, RegisterInv,
       CurrentIsRunning, SingleExecution,
         ResidentView, AdmissionView, OneAdmitted, FreshOps, DownInv, ThreadType, DurableType
<1>32. ASSUME ArchiveSession PROVE RegisterInv'
  BY <1>32 DEF ArchiveSession, Rewrite, Loaded, View, Live, Thread, RegisterInv,
       CurrentIsRunning, SingleExecution,
         ResidentView, AdmissionView, OneAdmitted, FreshOps, DownInv, ThreadType, DurableType
<1>33. ASSUME DeleteSession PROVE RegisterInv'
  BY <1>33 DEF DeleteSession, Invalidate, DiscardBuffers, View, Live, Thread, RegisterInv,
       CurrentIsRunning, SingleExecution,
         ResidentView, AdmissionView, OneAdmitted, FreshOps, DownInv, ThreadType, DurableType
<1>34. ASSUME SweepSession PROVE RegisterInv'
  BY <1>34 DEF SweepSession, Invalidate, DiscardBuffers, View, Live, Thread, RegisterInv,
       CurrentIsRunning, SingleExecution,
         ResidentView, AdmissionView, OneAdmitted, FreshOps, DownInv, ThreadType, DurableType
<1>35. ASSUME CancelHarness PROVE RegisterInv'
  BY <1>35 DEF CancelHarness, View, Live, Thread, RegisterInv, CurrentIsRunning,
       SingleExecution,
         ResidentView, AdmissionView, OneAdmitted, FreshOps, DownInv, ThreadType, DurableType
<1>36. ASSUME WaitScan PROVE RegisterInv'
  BY <1>36 DEF WaitScan, View, Live, Thread, RegisterInv, CurrentIsRunning, SingleExecution,
         ResidentView, AdmissionView, OneAdmitted, FreshOps, DownInv, ThreadType, DurableType
<1>37. ASSUME WaitRescan PROVE RegisterInv'
  BY <1>37 DEF WaitRescan, WaitBusy, DiscardBuffers, View, Live, Thread, RegisterInv,
       CurrentIsRunning, SingleExecution,
         ResidentView, AdmissionView, OneAdmitted, FreshOps, DownInv, ThreadType, DurableType
<1>38. ASSUME Crash PROVE RegisterInv'
  BY <1>38 DEF Crash, DiscardBuffers, View, Live, Thread, RegisterInv, CurrentIsRunning,
       SingleExecution,
         ResidentView, AdmissionView, OneAdmitted, FreshOps, DownInv, ThreadType, DurableType
<1>39. ASSUME Restart PROVE RegisterInv'
  BY <1>39 DEF Restart, Loaded, View, Live, Thread, RegisterInv, CurrentIsRunning,
       SingleExecution,
         ResidentView, AdmissionView, OneAdmitted, FreshOps, DownInv, ThreadType, DurableType
<1>40. ASSUME NEW o \in Op, Recover(o) PROVE RegisterInv'
  <2>1. CurrentIsRunning'
    <3>1. QED BY <1>40, TerminalRegisters DEF Recover, Recoverable, RegisterInv, Terminal
  <2>2. SingleExecution'
    BY <1>40 DEF Recover, CommitTerminal, Recoverable, SingleExecution, RegisterInv, Live,
         AdmissionView, CurrentIsRunning, DownInv, ThreadType, Thread, DurableType
  <2>3. ResidentView'
    <3>1. QED BY <1>40 DEF Recover, CommitTerminal, View, ResidentView, DurableType
  <2>4. AdmissionView'
    BY <1>40 DEF Recover, CommitTerminal, Recoverable, AdmissionView, RegisterInv,
         ResidentView, SingleExecution, Live, CurrentIsRunning, AdmitRefused, FreshOps,
         DownInv, ThreadType, ItemOK, ItemPc, Thread, DurableType, CoordinatorType
  <2>5. OneAdmitted'
    BY <1>40 DEF Recover, CommitTerminal, Recoverable, OneAdmitted, RegisterInv, AdmissionView,
         ThreadType, ItemOK, ItemPc, DownInv
  <2>6. FreshOps'
    BY <1>40 DEF Recover, CommitTerminal, Recoverable, FreshOps, RegisterInv, ThreadType,
         Thread, DurableType, Terminal
  <2>7. DownInv'
    BY <1>40 DEF Recover, CommitTerminal, Recoverable, DownInv, RegisterInv, ThreadType
  <2>8. QED BY <2>1, <2>2, <2>3, <2>4, <2>5, <2>6, <2>7 DEF RegisterInv
<1>41. ASSUME UNCHANGED vars PROVE RegisterInv'
  BY <1>41 DEF vars, Live, RegisterInv, CurrentIsRunning, SingleExecution, ResidentView,
       AdmissionView, OneAdmitted, FreshOps, DownInv
<1>42. QED
  BY <1>1, <1>2, <1>3, <1>4, <1>5, <1>6, <1>7, <1>8, <1>9, <1>10, <1>11, <1>12, <1>13, <1>14,
       <1>15, <1>16, <1>17, <1>18, <1>19, <1>20, <1>21, <1>22, <1>23, <1>24, <1>25, <1>26,
       <1>27, <1>28, <1>29, <1>30, <1>31, <1>32, <1>33, <1>34, <1>35, <1>36, <1>37, <1>38,
       <1>39, <1>40, <1>41
     DEF Next, CallerCall, CallerProgress, AdmissionStep, ExecutionStep, LifecycleStep,
          ProcessStep

(* commitTerminalSettlement is the only way out of running, and
   produceAdmission the only way in. *)
LEMMA StatusMoves == TypeInv /\ RegisterInv /\ [Next]_vars => StatusStep
<1>. SUFFICES ASSUME TypeInv, RegisterInv, [Next]_vars PROVE StatusStep OBVIOUS
<1>. USE DEF TypeInv, TypeOK, durableVars
<1>1. CASE UNCHANGED status BY <1>1 DEF StatusStep
<1>2. ASSUME NEW o \in Op, NEW r \in Terminal, status[o] = "running", CommitTerminal(o, r)
      PROVE  StatusStep
  BY <1>2 DEF StatusStep, CommitTerminal, DurableType
<1>3. ASSUME NEW t \in Thread, Publish(t) PROVE StatusStep
  <2>1. item[t] \in Op BY <1>3 DEF Publish, ThreadType, ItemOK, ItemPc
  <2>2. CASE status[item[t]] = "absent" /\ ProduceAdmission(item[t])
    BY <2>1, <2>2 DEF ProduceAdmission, StatusStep, DurableType
  <2>3. QED BY <1>1, <1>3, <2>2 DEF Publish
<1>4. ASSUME NEW o \in Op, EffectTerminal(o) PROVE StatusStep
  <2>1. status[o] = "running"
    BY <1>4 DEF EffectTerminal, RegisterInv, CurrentIsRunning, SingleExecution, Live
  <2>2. PICK r \in Terminal : CommitTerminal(o, r) BY <1>4 DEF EffectTerminal, Guarded, Terminal
  <2>3. QED BY <1>2, <2>1, <2>2
<1>5. ASSUME NEW o \in Op, Settle(o) PROVE StatusStep
  <2>1. CASE ~Preserved(o) /\ CommitTerminal(o, Guarded(o, outcome[o]))
    <3>1. outcome[o] \in Terminal /\ status[o] = "running"
      BY <1>5, <2>1 DEF Settle, ThreadType, Preserved, ItemOK, Thread
    <3>2. Guarded(o, outcome[o]) \in Terminal BY <3>1 DEF Guarded, Terminal
    <3>3. QED BY <1>2, <2>1, <3>1, <3>2
  <2>2. QED BY <1>1, <1>5, <2>1 DEF Settle
<1>6. ASSUME NEW o \in Op, Recover(o) PROVE StatusStep
  BY <1>2, <1>6 DEF Recover, Recoverable, Terminal
<1>7. ASSUME NEW t \in Caller, CallerCall(t) \/ CallerProgress(t) PROVE UNCHANGED status
  BY <1>7 DEF CallerCall, CallerProgress, SubmitReserve, CompactReserve, DeliverClaim,
       InterruptCall,
       StopCall, CallerGivesUp, SubmitRoute, CompactRoute, Cancel, DeliverRoute, DeliverReserve,
       DeliverReroute, DeliverSignal, DeliverFinish
<1>8. ASSUME NEW t \in Thread, AdmissionStep(t) PROVE StatusStep
  BY <1>1, <1>3, <1>8 DEF AdmissionStep, AdmitGuard, Prepare, Adopt, Install, Release
<1>9. ASSUME NEW o \in Op, ExecutionStep(o) PROVE StatusStep
  BY <1>1, <1>4, <1>5, <1>9 DEF ExecutionStep, Enter, Work, CompleteReserve, Drain, Drop, Retire
<1>10. ASSUME NEW m \in Completion, StartMember(m) PROVE UNCHANGED status
  BY <1>10 DEF StartMember
<1>11. ASSUME LifecycleStep PROVE UNCHANGED status
  BY <1>11 DEF LifecycleStep, ChangeAgentType, ReopenSession, ArchiveSession, DeleteSession,
       SweepSession, Rewrite, Invalidate
<1>12. ASSUME ProcessStep PROVE StatusStep
  BY <1>1, <1>6, <1>12 DEF ProcessStep, CancelHarness, WaitScan, WaitRescan, Crash, Restart
<1>13. CASE UNCHANGED vars BY <1>1, <1>13 DEF vars
<1>14. QED BY <1>1, <1>7, <1>8, <1>9, <1>10, <1>11, <1>12, <1>13 DEF Next
-----------------------------------------------------------------------------
(* The inductive invariant holds in every reachable state. *)
THEOREM Invariance == Spec => [](TypeInv /\ RegisterInv)
<1>1. Init => TypeInv /\ RegisterInv BY TypeInit, RegisterInit
<1>2. TypeInv /\ RegisterInv /\ [Next]_vars => (TypeInv /\ RegisterInv)'
  BY TypeStep, RegisterStep
<1>3. QED BY <1>1, <1>2, PTL DEF Spec

(* Every reachable state of the coordinator is well typed, for any number
   of callers and Operations, any storage failures and any process losses. *)
THEOREM TypeCorrect == Spec => []TypeOK
<1>1. TypeInv => TypeOK BY DEF TypeInv
<1>2. QED BY <1>1, Invariance, PTL

(* The Session register names exactly the running Operation, whatever
   publishAdmission, commitTerminalSettlement and recovery race with. *)
THEOREM RegistersAgree == Spec => []CurrentIsRunning
<1>1. RegisterInv => CurrentIsRunning BY DEF RegisterInv
<1>2. QED BY <1>1, Invariance, PTL

(* An execution that may still run effects owns the current Operation:
   runExecution's goroutines never overlap before their settlement. *)
THEOREM ExecutionsExclusive == Spec => []SingleExecution
<1>1. RegisterInv => SingleExecution BY DEF RegisterInv
<1>2. QED BY <1>1, Invariance, PTL

(* An Operation register is written absent to running to one terminal
   status and never again, by executions, effects and recovery together. *)
THEOREM TerminalStaysFinal == Spec => TerminalIsFinal
<1>1. TypeInv /\ RegisterInv /\ [Next]_vars => StatusStep BY StatusMoves
<1>2. QED BY <1>1, Invariance, PTL DEF Spec, TerminalIsFinal
=============================================================================
