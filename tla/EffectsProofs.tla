---------------------------- MODULE EffectsProofs ----------------------------
(***************************************************************************)
(* Proofs about the effects of one Operation, for every set of calls and    *)
(* every captured invocation.                                               *)
(***************************************************************************)
EXTENDS Effects, FiniteSetTheorems, TLAPS

(* A call with its result in the log. *)
Settled == {log[i].call : i \in At(log, "tool")}
Contents(s) == {s[i] : i \in DOMAIN s}
IsSeq(s) == s \in Seq(Contents(s))
(* r is s with t behind it. *)
Joined(r, s, t) ==
    /\ IsSeq(r) /\ {Len(s), Len(t), Len(r)} \subseteq Nat /\ Len(r) = Len(s) + Len(t)
    /\ DOMAIN s = 1..Len(s) /\ DOMAIN t = 1..Len(t) /\ DOMAIN r = 1..Len(r)
    /\ \A i \in 1..Len(s) : i \in 1..Len(r) /\ r[i] = s[i]
    /\ \A i \in 1..Len(t) : Len(s) + i \in 1..Len(r) /\ r[Len(s) + i] = t[i]

(* The log keeps what it has; New is where it grew. *)
New   == DOMAIN log' \ DOMAIN log
Grown == IsSeq(log') /\ \A i \in DOMAIN log : i \in DOMAIN log' /\ log'[i] = log[i]

BeforeOutput == {"loop", "source", "requestHooks", "requestGate", "requestRun", "round", "model",
                 "attempt", "calling"}
InBatch == {"dispatch", "tool", "argumentHooks", "hookGate", "hookRun", "hookSettle", "prepare",
            "begin", "toolGate", "executing"}
Lost == {"done", "down"}
Kept == 1..(ids - 1)      \* the identities drawn so far

TypeInv ==
    /\ TypeOK
    /\ scope \in Scopes /\ ids \in Nat \ {0} /\ IsSeq(log)
    /\ ask \in Nat /\ hook \in Nat /\ chain \in Seq(Nat)
    /\ \A k \in DOMAIN pending : pending[k].id \in Kept
    /\ at = "finish" => outcome \in Terminals
    /\ effect # NoEffect => effect.id \in Kept

(* Its parts: the register, the log, and the goroutine's locals. *)
RegisterType ==
    /\ status \in Terminals \cup {"running"} /\ ids \in Nat \ {0}
    /\ effect \in [kind : {"none", "model", "hook", "tool"}, id : Nat, call : Call \cup {NoCall},
                   request : Nat, hook : Nat, chain : Seq(Nat)]
    /\ effect # NoEffect => effect.id \in Kept
    /\ pending \in Seq([call : Call, id : Nat, publisher : Nat])
    /\ \A k \in DOMAIN pending : pending[k].id \in Kept
    /\ request \in [id : Nat, results : Seq(Nat)]
LogType == IsSeq(log) /\ \A i \in DOMAIN log : log[i].kind \in Kinds /\ log[i].id \in Kept
LocalType ==
    /\ scope \in Scopes /\ ask \in Nat /\ hook \in Nat /\ chain \in Seq(Nat)
    /\ at \in Places /\ ctx \in {"live", "canceled"} /\ calls \in Seq(Call)
    /\ round \in 0..scope.rounds /\ faults \in 0..MaxFaults /\ failed \in 0..(Retries + 1)
    /\ outcome \in Terminals \cup {"none", "error", "interrupted"}
    /\ at = "finish" => outcome \in Terminals
    /\ doubt \in Evidence \cup {"none"}
    /\ runs \in [Call -> Nat] /\ acted \subseteq Call

(* Where the goroutine is tells which effect is open and what is pending. *)
EffectPlaced ==
    /\ at \in {"requestGate", "requestRun"} => effect.kind = "hook" /\ effect.call = NoCall
    /\ at \in {"attempt", "calling"} => effect.kind = "model"
    /\ at \in {"hookGate", "hookRun"} => effect.kind = "hook" /\ effect.call # NoCall
    /\ at \in {"toolGate", "executing"} => effect.kind = "tool"
    /\ at \in {"loop", "source", "requestHooks", "round", "model", "dispatch", "tool", "argumentHooks",
               "hookSettle", "prepare", "begin", "finish"} => effect = NoEffect
    /\ effect.kind = "none" => effect = NoEffect
    /\ effect.kind \in {"none", "model"} => effect.call = NoCall
    /\ effect.kind = "tool" => effect.call # NoCall
    /\ effect.call # NoCall => pending # <<>> /\ effect.call = pending[1].call
PlaceInv ==
    /\ at \notin {"finish", "done", "down"} => status = "running"
    /\ status # "running" => effect = NoEffect /\ pending = <<>> /\ request = NoRequest
    /\ at \in BeforeOutput => pending = <<>>
    /\ at \in InBatch => Len(calls) = Len(pending) /\ \A k \in DOMAIN pending : calls[k] = pending[k].call
    /\ at \in InBatch \ {"dispatch"} => pending # <<>>
    /\ EffectPlaced

(* A pending call is published, unanswered and pending once; an answered
   one is published and answered once. *)
CallInv ==
    /\ \A k \in DOMAIN pending : pending[k].call \in Published /\ pending[k].call \notin Settled
    /\ \A k, n \in DOMAIN pending : pending[k].call = pending[n].call => k = n
    /\ \A i \in At(log, "tool") : /\ log[i].call \in Published \cap Call
                                  /\ log[i].evidence \in Evidence /\ log[i].notice \in BOOLEAN
    /\ \A i, j \in At(log, "tool") : log[i].call = log[j].call => i = j

(* A call that started, or acted, is answered or still owns the effect. *)
StartInv ==
    \A c \in Call :
        /\ runs[c] <= 1
        /\ runs[c] > 0 \/ c \in acted =>
              c \in Settled \/ (effect.kind = "tool" /\ effect.call = c /\ at \in {"executing"} \cup Lost)

(* The doubt a failed hook left and the call's result does not carry yet. *)
Owed(i) == /\ effect = NoEffect /\ pending # <<>> /\ log[i].call = pending[1].call
           /\ at \in Lost \/ (at = "hookSettle" /\ doubt = "unknown")
DoubtInv ==
    /\ HookDoubtKept
    /\ \A i \in At(log, "hook") :
          log[i].call # NoCall /\ log[i].evidence = "unknown" => log[i].call \in Settled \/ Owed(i)
    /\ at = "hookSettle" /\ doubt = "unknown" => \E i \in At(log, "hook") : Owed(i) /\ log[i].evidence = "unknown"
    /\ at = "hookSettle" => outcome \in {"error", "interrupted"}

OwnedOnce ==
    \A q \in asked : IF effect.kind = "model" /\ effect.request = q THEN Owners(q) = {}
                     ELSE \E i \in DOMAIN log : Owners(q) = {i}
RequestPlaced ==
    /\ at \in {"loop", "source"} => request = NoRequest
    /\ at \in {"requestHooks", "round", "model"} => request = NoRequest \/ request.id = ask
    /\ at \in {"requestGate", "requestRun"} => request.id = ask /\ effect.request = ask
    /\ at \in BeforeOutput \ {"loop", "source", "attempt", "calling"} => ask \in Kept \ asked
    /\ at \in {"attempt", "calling"} => effect.request = ask
    /\ at = "dispatch" /\ pending = <<>> => request = NoRequest
    /\ effect.kind = "model" => effect.request \in asked /\ request.id = effect.request
OwnersInv ==
    /\ asked \subseteq Kept
    /\ \A q : Owners(q) # {} => q \in asked
    /\ OwnedOnce
RequestInv == RequestPlaced /\ OwnersInv

Partial == Assistant(effect.id, ask, <<>>, effect.chain)
Closing(s, produced) ==
    Settlement(SettlementId(produced), s, Witness(produced), SettlementEvidence(produced))
(* What the terminal transaction appends. *)
Closes(s, produced) ==
    /\ Grown
    /\ \A i \in New : log'[i].kind = "hook" => log'[i] = HookResult(effect, "interrupted", "unknown")
    /\ effect.kind = "hook" <=> \E i \in New : log'[i].kind = "hook"
    /\ \E n \in Nat :
          /\ \A i \in New : log'[i].kind = "tool" => \E k \in DOMAIN pending : i = n + k
          /\ \A k \in DOMAIN pending : n + k \in New /\ log'[n + k] = InterruptedCall(pending[k])
    /\ \E n \in New : /\ log'[n] = Closing(s, produced)
                      /\ \A i \in New : log'[i].kind = "settlement" => i = n
    /\ \A i, j \in New : log'[i].kind = "assistant" /\ log'[j].kind = "assistant" => i = j
    /\ \A i \in New : log'[i].kind = "assistant" => produced # <<>> /\ log'[i] = Partial
    /\ produced # <<>> => \E i \in New : log'[i].kind = "assistant"
(* And nothing else. *)
Adds(s, produced) ==
    \A i \in New : \/ produced # <<>> /\ log'[i] = Partial
                   \/ effect.kind = "hook" /\ log'[i] = HookResult(effect, "interrupted", "unknown")
                   \/ \E k \in DOMAIN pending : log'[i] = InterruptedCall(pending[k])
                   \/ log'[i] \in {Signal(ids, "interruption"), Closing(s, produced)}

EffectsInv == PlaceInv /\ CallInv /\ StartInv /\ DoubtInv /\ RequestInv

(* A sequence over any set is one over its own contents. *)
LEMMA SeqIs ==
  ASSUME NEW S, NEW s \in Seq(S)
  PROVE  IsSeq(s) /\ Len(s) \in Nat /\ DOMAIN s = 1..Len(s)
<1>1. Len(s) \in Nat /\ s \in [1..Len(s) -> S] OBVIOUS
<1>2. s \in [1..Len(s) -> Contents(s)] BY <1>1 DEF Contents
<1>3. QED BY <1>1, <1>2 DEF IsSeq

(* A function on 1..n is a sequence of length n. *)
LEMMA FunctionIsSeq ==
  ASSUME NEW S, NEW n \in Nat, NEW f \in [1..n -> S]
  PROVE  f \in Seq(S) /\ Len(f) = n
OBVIOUS

(* Concatenation, as the terminal transaction and a partial output use it:
   the left part keeps its places and the right part follows. *)
LEMMA Glued ==
  ASSUME NEW s, IsSeq(s), NEW t, IsSeq(t)
  PROVE  Joined(s \o t, s, t)
<1>. DEFINE S == Contents(s) \cup Contents(t)
<1>1. s \in Seq(S) /\ t \in Seq(S)
  BY DEF Contents, IsSeq
<1>2. s \o t \in Seq(S) /\ Len(s) \in Nat /\ Len(t) \in Nat /\ Len(s \o t) = Len(s) + Len(t)
      /\ DOMAIN s = 1..Len(s) /\ DOMAIN t = 1..Len(t)
  BY <1>1
<1>3. /\ DOMAIN (s \o t) = 1..(Len(s) + Len(t))
      /\ \A i \in 1..Len(s) : (s \o t)[i] = s[i]
      /\ \A i \in 1..Len(t) : (s \o t)[Len(s) + i] = t[i]
  BY <1>1, <1>2
<1>4. IsSeq(s \o t)
  BY <1>2, SeqIs
<1>5. QED BY <1>2, <1>3, <1>4 DEF Joined

(* Append, as every other transaction uses it: the log keeps its places and
   the entry comes last. *)
LEMMA AppendIs ==
  ASSUME NEW s, IsSeq(s), NEW e
  PROVE  Joined(Append(s, e), s, <<e>>)
<1>. DEFINE S == Contents(s) \cup {e}
<1>1. s \in Seq(S) /\ e \in S
  BY DEF Contents, IsSeq
<1>2. Append(s, e) \in Seq(S) /\ Len(s) \in Nat /\ DOMAIN s = 1..Len(s)
      /\ Len(Append(s, e)) = Len(s) + 1
  BY <1>1
<1>3. /\ DOMAIN Append(s, e) = 1..(Len(s) + 1)
      /\ \A i \in 1..Len(s) : Append(s, e)[i] = s[i]
      /\ Append(s, e)[Len(s) + 1] = e
  BY <1>1, <1>2
<1>4. IsSeq(Append(s, e))
  BY <1>2, SeqIs
<1>5. QED BY <1>2, <1>3, <1>4 DEF Joined

(* A sequence of one entry. *)
LEMMA SingleIs ==
  ASSUME NEW e
  PROVE  IsSeq(<<e>>) /\ Len(<<e>>) = 1 /\ <<e>>[1] = e /\ DOMAIN <<e>> = 1..1
BY DEF Contents, IsSeq

(* The empty sequence, which a transaction with nothing to add appends. *)
LEMMA EmptyIs == IsSeq(<<>>) /\ Len(<<>>) = 0 /\ DOMAIN <<>> = {}
BY DEF Contents, IsSeq

(* What the register's types say of pending and of the Engine's calls:
   their positions, members and heads. *)
LEMMA PendingIs ==
  ASSUME TypeInv
  PROVE  /\ DOMAIN pending = 1..Len(pending) /\ Len(pending) \in Nat
         /\ \A k \in DOMAIN pending : pending[k].call \in Call /\ pending[k].id \in Nat
         /\ Len(pending) = 0 <=> pending = <<>>
         /\ pending # <<>> => Head(pending) = pending[1]
         /\ Len(calls) = 0 <=> calls = <<>>
         /\ calls # <<>> => Head(calls) = calls[1]
<1>0. calls \in Seq(Call) BY DEF TypeInv, TypeOK
<1>1. pending \in Seq([call : Call, id : Nat, publisher : Nat]) BY DEF TypeInv, TypeOK
<1>2. \A S : pending \in Seq(S) => \A k \in DOMAIN pending : pending[k] \in S
  OBVIOUS
<1>3. \A k \in DOMAIN pending : pending[k] \in [call : Call, id : Nat, publisher : Nat] BY <1>1, <1>2
<1>4. QED BY <1>0, <1>1, <1>3

(* Identities already drawn stay drawn when newHexID draws more. *)
LEMMA UpToGrows ==
  ASSUME NEW m \in Nat, NEW n \in Nat, m <= n
  PROVE  1..(m - 1) \subseteq 1..(n - 1)
OBVIOUS

(* The terminal transaction, position by position. *)
LEMMA TerminatePositions ==
  ASSUME TypeInv, NEW s \in Terminals, NEW produced, IsSeq(produced),
         NEW n1, NEW n2, NEW n3, NEW n4,
         n1 = Len(log) + Len(produced), n2 = n1 + Len(UnfinishedHook),
         n3 = n2 + Len(pending), n4 = n3 + Len(Signals(s)),
         Terminate(s, produced)
  PROVE  /\ IsSeq(log') /\ DOMAIN log' = 1..(n4 + 1) /\ DOMAIN log = 1..Len(log)
         /\ \A i \in 1..Len(log) : log'[i] = log[i]
         /\ \A i \in 1..Len(produced) : log'[Len(log) + i] = produced[i]
         /\ \A i \in 1..Len(UnfinishedHook) : log'[n1 + i] = UnfinishedHook[i]
         /\ \A k \in 1..Len(pending) : log'[n2 + k] = InterruptedCall(pending[k])
         /\ \A i \in 1..Len(Signals(s)) : log'[n3 + i] = Signals(s)[i]
         /\ log'[n4 + 1] = Settlement(SettlementId(produced), s, Witness(produced),
                                      SettlementEvidence(produced))
         /\ {Len(log), Len(produced), Len(UnfinishedHook), Len(pending), Len(Signals(s))} \subseteq Nat
<1>. DEFINE U == UnfinishedHook
            P == [k \in DOMAIN pending |-> InterruptedCall(pending[k])]
            G == Signals(s)
            T == <<Settlement(SettlementId(produced), s, Witness(produced), SettlementEvidence(produced))>>
            L1 == log \o produced
            L2 == L1 \o U
            L3 == L2 \o P
            L4 == L3 \o G
<1>1. log' = L4 \o T
  BY DEF Terminate
<1>2. IsSeq(U)
  BY SingleIs, EmptyIs DEF UnfinishedHook
<1>3. Len(pending) \in Nat /\ DOMAIN pending = 1..Len(pending)
  BY DEF TypeInv, TypeOK
<1>4. IsSeq(P) /\ Len(P) = Len(pending) /\ \A k \in 1..Len(pending) : P[k] = InterruptedCall(pending[k])
  <2>1. P \in [1..Len(pending) -> Contents(P)]
    BY <1>3 DEF Contents
  <2>2. IsSeq(P)
    BY <1>3, <2>1 DEF IsSeq
  <2>3. QED BY <1>3, <2>2
<1>5. IsSeq(G)
  BY SingleIs, EmptyIs DEF Signals
<1>6. IsSeq(T) /\ Len(T) = 1
      /\ T[1] = Settlement(SettlementId(produced), s, Witness(produced), SettlementEvidence(produced))
  BY SingleIs
<1>7. IsSeq(log)
  BY DEF TypeInv
<1>. HIDE DEF U, P, G, T
<1>8. Joined(L1, log, produced)
  BY <1>7, Glued
<1>9. Joined(L2, L1, U)
  <2>1. IsSeq(L1) BY <1>8 DEF Joined
  <2>2. QED BY <1>2, <2>1, Glued
<1>10. Joined(L3, L2, P)
  <2>1. IsSeq(L2) BY <1>9 DEF Joined
  <2>2. QED BY <1>4, <2>1, Glued
<1>11. Joined(L4, L3, G)
  <2>1. IsSeq(L3) BY <1>10 DEF Joined
  <2>2. QED BY <1>5, <2>1, Glued
<1>12. Joined(log', L4, T)
  <2>1. IsSeq(L4) BY <1>11 DEF Joined
  <2>2. QED BY <1>1, <1>6, <2>1, Glued
<1>. HIDE DEF L1, L2, L3, L4
<1>13. /\ Len(L1) = n1 /\ Len(L2) = n2 /\ Len(L3) = n3 /\ Len(L4) = n4
       /\ {Len(log), Len(produced), Len(U), Len(pending), Len(G)} \subseteq Nat
       /\ IsSeq(log') /\ DOMAIN log' = 1..(n4 + 1) /\ DOMAIN log = 1..Len(log)
  BY <1>4, <1>6, <1>8, <1>9, <1>10, <1>11, <1>12 DEF Joined, U, G
<1>14. \A i \in 1..n4 : log'[i] = L4[i]
  BY <1>12, <1>13 DEF Joined
<1>15. \A i \in 1..n3 : log'[i] = L3[i]
  BY <1>11, <1>13, <1>14 DEF Joined
<1>16. \A i \in 1..n2 : log'[i] = L2[i]
  BY <1>10, <1>13, <1>15 DEF Joined
<1>17. \A i \in 1..n1 : log'[i] = L1[i]
  BY <1>9, <1>13, <1>16 DEF Joined
<1>18. \A i \in 1..Len(log) : log'[i] = log[i]
  BY <1>8, <1>13, <1>17 DEF Joined
<1>19. \A i \in 1..Len(produced) : log'[Len(log) + i] = produced[i]
  BY <1>8, <1>13, <1>17 DEF Joined
<1>20. \A i \in 1..Len(U) : log'[n1 + i] = U[i]
  BY <1>9, <1>13, <1>16 DEF Joined
<1>21. \A k \in 1..Len(pending) : log'[n2 + k] = InterruptedCall(pending[k])
  BY <1>4, <1>10, <1>13, <1>15 DEF Joined
<1>22. \A i \in 1..Len(G) : log'[n3 + i] = G[i]
  BY <1>11, <1>13, <1>14 DEF Joined
<1>23. log'[n4 + 1] = T[1]
  BY <1>6, <1>12, <1>13 DEF Joined
<1>24. QED
  BY <1>6, <1>13, <1>18, <1>19, <1>20, <1>21, <1>22, <1>23 DEF U, G

(* commitTerminalSettlement appends an interrupted result for every
   reservation, the unfinished hook's result, the produced output and one
   settlement, and nothing else. *)
LEMMA TerminateDoes ==
  ASSUME TypeInv, NEW s \in Terminals, NEW produced, produced \in {<<>>, <<Partial>>},
         Terminate(s, produced)
  PROVE  Closes(s, produced) /\ Adds(s, produced)
<1>1. /\ IsSeq(produced) /\ DOMAIN produced = 1..Len(produced)
      /\ \/ produced = <<>> /\ Len(produced) = 0
         \/ produced # <<>> /\ Len(produced) = 1 /\ produced[1] = Partial
  BY SingleIs, EmptyIs
<1>. DEFINE n0 == Len(log)
            n1 == n0 + Len(produced)
            n2 == n1 + Len(UnfinishedHook)
            n3 == n2 + Len(pending)
            n4 == n3 + Len(Signals(s))
<1>2. /\ IsSeq(log') /\ DOMAIN log' = 1..(n4 + 1) /\ DOMAIN log = 1..n0
      /\ \A i \in 1..n0 : log'[i] = log[i]
      /\ \A i \in 1..Len(produced) : log'[n0 + i] = produced[i]
      /\ \A i \in 1..Len(UnfinishedHook) : log'[n1 + i] = UnfinishedHook[i]
      /\ \A k \in 1..Len(pending) : log'[n2 + k] = InterruptedCall(pending[k])
      /\ \A i \in 1..Len(Signals(s)) : log'[n3 + i] = Signals(s)[i]
      /\ log'[n4 + 1] = Closing(s, produced)
      /\ {n0, Len(produced), Len(UnfinishedHook), Len(pending), Len(Signals(s))} \subseteq Nat
  BY <1>1, TerminatePositions DEF Closing
<1>3. DOMAIN pending = 1..Len(pending)
  BY DEF TypeInv, TypeOK
<1>4. \/ effect.kind = "hook" /\ Len(UnfinishedHook) = 1
            /\ UnfinishedHook[1] = HookResult(effect, "interrupted", "unknown")
      \/ effect.kind # "hook" /\ Len(UnfinishedHook) = 0
  BY SingleIs, EmptyIs DEF UnfinishedHook
<1>5. \A i \in 1..Len(Signals(s)) : Signals(s)[i] = Signal(ids, "interruption")
  BY SingleIs, EmptyIs DEF Signals
<1>6. \A x : Partial.kind = "assistant" /\ HookResult(effect, "interrupted", "unknown").kind = "hook"
             /\ InterruptedCall(pending[x]).kind = "tool" /\ Signal(ids, "interruption").kind = "signal"
             /\ Closing(s, produced).kind = "settlement"
  BY DEF Partial, Assistant, HookResult, InterruptedCall, ToolResult, Signal, Closing, Settlement
<1>. HIDE DEF n0, n1, n2, n3, n4
<1>7. /\ n1 = n0 + Len(produced) /\ n2 = n1 + Len(UnfinishedHook) /\ n3 = n2 + Len(pending)
      /\ n4 = n3 + Len(Signals(s))
      /\ n0 \in Nat /\ n1 \in Nat /\ n2 \in Nat /\ n3 \in Nat /\ n4 \in Nat
      /\ Len(produced) \in Nat /\ Len(UnfinishedHook) \in Nat /\ Len(pending) \in Nat /\ Len(Signals(s)) \in Nat
  BY <1>2 DEF n1, n2, n3, n4
<1>8. Grown
  BY <1>2, <1>7 DEF Grown
<1>9. New = (n0 + 1)..(n4 + 1)
  BY <1>2, <1>7 DEF New
<1>10. \A i \in New : \/ i = n0 + 1 /\ Len(produced) = 1 /\ log'[i] = Partial
                      \/ i = n1 + 1 /\ effect.kind = "hook" /\ log'[i] = HookResult(effect, "interrupted", "unknown")
                      \/ \E k \in 1..Len(pending) : i = n2 + k /\ log'[i] = InterruptedCall(pending[k])
                      \/ log'[i] = Signal(ids, "interruption")
                      \/ i = n4 + 1 /\ log'[i] = Closing(s, produced)
  <2>. SUFFICES ASSUME NEW i \in (n0 + 1)..(n4 + 1) PROVE <1>10!(i) BY <1>9
  <2>0. i \in Int /\ n0 < i /\ i <= n4 + 1 BY <1>7
  <2>1. CASE i <= n1
    <3>1. i = n0 + 1 /\ Len(produced) = 1 BY <1>1, <1>7, <2>0, <2>1
    <3>2. log'[n0 + 1] = Partial BY <1>1, <1>2, <3>1
    <3>3. QED BY <3>1, <3>2
  <2>2. CASE n1 < i /\ i <= n2
    <3>0. n2 # n1 BY <1>7, <2>0, <2>2
    <3>1. Len(UnfinishedHook) # 0 BY <1>7, <3>0
    <3>2. effect.kind = "hook" /\ Len(UnfinishedHook) = 1 BY <1>4, <3>1
    <3>3. i = n1 + 1 BY <1>7, <2>0, <2>2, <3>2
    <3>4. log'[n1 + 1] = HookResult(effect, "interrupted", "unknown") BY <1>2, <1>4, <3>2
    <3>5. QED BY <3>2, <3>3, <3>4
  <2>3. CASE n2 < i /\ i <= n3
    <3>1. i - n2 \in 1..Len(pending) /\ i = n2 + (i - n2) BY <1>7, <2>0, <2>3
    <3>2. QED BY <1>2, <3>1
  <2>4. CASE n3 < i /\ i <= n4
    <3>1. i - n3 \in 1..Len(Signals(s)) /\ i = n3 + (i - n3) BY <1>7, <2>0, <2>4
    <3>2. QED BY <1>2, <1>5, <3>1
  <2>5. CASE i = n4 + 1
    BY <1>2, <2>5
  <2>6. i <= n1 \/ (n1 < i /\ i <= n2) \/ (n2 < i /\ i <= n3) \/ (n3 < i /\ i <= n4) \/ i = n4 + 1
    BY <1>7, <2>0
  <2>7. QED BY <2>1, <2>2, <2>3, <2>4, <2>5, <2>6
<1>11. \A i \in New : log'[i].kind = "hook" => log'[i] = HookResult(effect, "interrupted", "unknown")
                                               /\ effect.kind = "hook"
  BY <1>6, <1>10
<1>12. effect.kind = "hook" => \E i \in New : log'[i].kind = "hook"
  <2>. SUFFICES ASSUME effect.kind = "hook" PROVE \E i \in New : log'[i].kind = "hook" OBVIOUS
  <2>1. Len(UnfinishedHook) = 1 /\ UnfinishedHook[1].kind = "hook" BY <1>4, <1>6
  <2>2. n1 + 1 \in New BY <1>7, <1>9, <2>1
  <2>3. log'[n1 + 1] = UnfinishedHook[1] BY <1>2, <2>1
  <2>4. QED BY <2>1, <2>2, <2>3
<1>13. /\ n2 \in Nat
       /\ \A i \in New : log'[i].kind = "tool" => \E k \in DOMAIN pending : i = n2 + k
       /\ \A k \in DOMAIN pending : n2 + k \in New /\ log'[n2 + k] = InterruptedCall(pending[k])
  <2>1. \A i \in New : log'[i].kind = "tool" => \E k \in DOMAIN pending : i = n2 + k BY <1>3, <1>6, <1>10
  <2>2. \A k \in DOMAIN pending : n2 + k \in New BY <1>2, <1>3, <1>7, <1>9
  <2>3. QED BY <1>2, <1>3, <1>7, <2>1, <2>2
<1>14. /\ n4 + 1 \in New /\ log'[n4 + 1] = Closing(s, produced)
       /\ \A i \in New : log'[i].kind = "settlement" => i = n4 + 1
  <2>1. n4 + 1 \in New BY <1>7, <1>9
  <2>2. QED BY <1>2, <1>6, <1>10, <2>1
<1>15. \A i \in New : log'[i].kind = "assistant" => i = n0 + 1 /\ Len(produced) = 1 /\ log'[i] = Partial
  BY <1>6, <1>10
<1>16. produced # <<>> => n0 + 1 \in New /\ log'[n0 + 1].kind = "assistant"
  BY <1>1, <1>2, <1>6, <1>7, <1>9
<1>17. Adds(s, produced)
  BY <1>1, <1>3, <1>10 DEF Adds
<1>18. QED
  BY <1>17, <1>1, <1>8, <1>11, <1>12, <1>13, <1>14, <1>15, <1>16 DEF Closes

(* A transaction of one entry grows the log by that entry alone. *)
LEMMA AppendDoes ==
  ASSUME TypeInv, NEW e, log' = Append(log, e)
  PROVE  Grown /\ \E n : New = {n} /\ log'[n] = e
<1>1. Joined(log', log, <<e>>) /\ Len(<<e>>) = 1 /\ <<e>>[1] = e
  BY AppendIs, SingleIs DEF TypeInv
<1>2. Grown
  BY <1>1 DEF Joined, Grown
<1>3. New = {Len(log) + 1} /\ log'[Len(log) + 1] = e
  BY <1>1 DEF Joined, New
<1>4. QED BY <1>2, <1>3

(* A grown log holds what it held and what is new. *)
Owner(e, q) == \/ e.kind = "assistant" /\ e.request = q
               \/ e.kind = "settlement" /\ e.evidence.accepted = "yes" /\ e.request = q
Publishes(e, c) == e.kind = "assistant" /\ \E n \in DOMAIN e.calls : e.calls[n].call = c

(* A call is published exactly by the assistant entries that carry it
   (publishedCallIDs). *)
LEMMA PublishedBy ==
  ASSUME NEW l, NEW c
  PROVE  c \in {a.call : a \in PublishedCalls(l)} <=> \E i \in DOMAIN l : Publishes(l[i], c)
<1>. DEFINE Rec(i, n) == [at |-> i, nth |-> n, call |-> l[i].calls[n].call, id |-> l[i].calls[n].id,
                          publisher |-> l[i].id]
<1>1. ASSUME NEW a \in PublishedCalls(l), a.call = c
      PROVE  \E i \in DOMAIN l : Publishes(l[i], c)
  <2>1. PICK i \in At(l, "assistant") : \E n \in DOMAIN l[i].calls : a = Rec(i, n)
    BY DEF PublishedCalls
  <2>2. QED BY <1>1, <2>1 DEF Publishes, At
<1>2. ASSUME NEW i \in DOMAIN l, Publishes(l[i], c)
      PROVE  \E a \in PublishedCalls(l) : a.call = c
  <2>1. PICK n \in DOMAIN l[i].calls : l[i].calls[n].call = c BY <1>2 DEF Publishes
  <2>2. i \in At(l, "assistant") BY <1>2 DEF Publishes, At
  <2>3. Rec(i, n) \in PublishedCalls(l) BY <2>2 DEF PublishedCalls
  <2>4. Rec(i, n).call = c BY <2>1
  <2>5. QED BY <2>3, <2>4
<1>3. QED BY <1>1, <1>2

(* The same of the Session's log. *)
LEMMA PublishedIs ==
  ASSUME NEW c
  PROVE  c \in Published <=> \E i \in DOMAIN log : Publishes(log[i], c)
BY PublishedBy DEF Published

(* The entries that own a request, one entry at a time. *)
LEMMA OwnersAre ==
  ASSUME NEW q
  PROVE  Owners(q) = {i \in DOMAIN log : Owner(log[i], q)}
BY DEF Owners, Owner, At

(* What a grown log answers, owns, publishes and holds is what it did
   before and what its new entries do. *)
LEMMA GrownDoes ==
  ASSUME Grown
  PROVE  /\ New \subseteq DOMAIN log' /\ DOMAIN log' = DOMAIN log \cup New
         /\ \A c : c \in Settled' <=> c \in Settled \/ \E i \in New : log'[i].kind = "tool" /\ log'[i].call = c
         /\ \A q : Owners(q)' = Owners(q) \cup {i \in New : Owner(log'[i], q)}
         /\ \A c : c \in Published' <=> c \in Published \/ \E i \in New : Publishes(log'[i], c)
         /\ \A k : At(log', k) = At(log, k) \cup {i \in New : log'[i].kind = k}
<1>1. New \subseteq DOMAIN log' /\ DOMAIN log' = DOMAIN log \cup New
  BY DEF Grown, New
<1>2. \A k : At(log', k) = At(log, k) \cup {i \in New : log'[i].kind = k}
  BY <1>1 DEF At, Grown, New
<1>3. \A c : c \in Settled' <=> c \in Settled \/ \E i \in New : log'[i].kind = "tool" /\ log'[i].call = c
  BY <1>1, <1>2 DEF Settled, Grown, At
<1>4. ASSUME NEW q PROVE Owners(q)' = Owners(q) \cup {i \in New : Owner(log'[i], q)}
  <2>1. Owners(q)' = {i \in DOMAIN log' : Owner(log'[i], q)}
    BY DEF Owners, Owner, At
  <2>2. QED BY <1>1, <2>1, OwnersAre DEF Grown
<1>5. ASSUME NEW c PROVE c \in Published' <=> c \in Published \/ \E i \in New : Publishes(log'[i], c)
  <2>1. c \in Published' <=> \E i \in DOMAIN log' : Publishes(log'[i], c)
    BY PublishedBy DEF Published
  <2>2. QED BY <1>1, <2>1, PublishedIs DEF Grown
<1>6. QED BY <1>1, <1>2, <1>3, <1>4, <1>5

(* The call whose turn it is heads both lists. *)
LEMMA TurnIs ==
  ASSUME TypeInv, PlaceInv, at \in InBatch \ {"dispatch"}
  PROVE  Head(calls) = pending[1].call /\ 1 \in DOMAIN pending /\ Head(calls) \in Call
<1>1. pending # <<>> /\ Len(calls) = Len(pending) /\ \A k \in DOMAIN pending : calls[k] = pending[k].call
  BY DEF PlaceInv, InBatch
<1>2. QED BY <1>1, PendingIs

(* commitToolResult answers the call whose turn it is, drops its
   reservation, clears the effect and closes the request with the last
   call. *)
LEMMA CommitToolDoes ==
  ASSUME TypeInv, PlaceInv, CallInv, at \in InBatch \ {"dispatch"},
         NEW s, NEW k, NEW u, NEW sel, CommitTool(s, k, u, sel)
  PROVE  /\ Head(calls) = pending[1].call /\ 1 \in DOMAIN pending
         /\ \E x : log' = Append(log, ToolResult(pending[1], s, k, u, x))
         /\ pending' = Tail(pending) /\ effect' = NoEffect
         /\ request' = IF pending' = <<>> THEN NoRequest ELSE request
         /\ UNCHANGED <<status, ids>>
<1>1. pending \in Seq([call : Call, id : Nat, publisher : Nat]) /\ pending # <<>> /\ calls \in Seq(Call)
  BY DEF TypeInv, TypeOK, PlaceInv
<1>2. Head(calls) = pending[1].call /\ 1 \in DOMAIN pending
  BY <1>1 DEF PlaceInv
<1>3. Index(Head(calls)) = 1
  BY <1>2 DEF Index, CallInv
<1>4. SubSeq(pending, 1, 1 - 1) \o SubSeq(pending, 1 + 1, Len(pending)) = Tail(pending)
  <2>1. SubSeq(pending, 1, 1 - 1) = <<>> /\ SubSeq(pending, 1 + 1, Len(pending)) = Tail(pending)
    BY <1>1
  <2>2. Tail(pending) \in Seq([call : Call, id : Nat, publisher : Nat])
    BY <1>1
  <2>3. QED BY <2>1, <2>2
<1>5. QED BY <1>2, <1>3, <1>4 DEF CommitTool

(* One new result or hook entry: it answers at most its own call, and owns
   and publishes nothing. *)
LEMMA OneMore ==
  ASSUME Grown, NEW n, New = {n}, log'[n].kind \in {"tool", "hook"}
  PROVE  /\ DOMAIN log' = DOMAIN log \cup {n} /\ n \notin DOMAIN log
         /\ \A i \in DOMAIN log : log'[i] = log[i]
         /\ \A c : c \in Settled' <=> c \in Settled \/ (log'[n].kind = "tool" /\ c = log'[n].call)
         /\ \A q : Owners(q)' = Owners(q)
         /\ \A c : c \in Published' <=> c \in Published
         /\ \A x : x # log'[n].kind => At(log', x) = At(log, x)
         /\ At(log', log'[n].kind) = At(log, log'[n].kind) \cup {n}
<1>1. DOMAIN log' = DOMAIN log \cup {n} /\ n \notin DOMAIN log
  BY GrownDoes DEF New
<1>2. \A i \in DOMAIN log : log'[i] = log[i]
  BY DEF Grown
<1>3. \A c : c \in Settled' <=> c \in Settled \/ (log'[n].kind = "tool" /\ c = log'[n].call)
  BY GrownDoes
<1>4. \A q : Owners(q)' = Owners(q)
  <2>1. \A q : Owners(q)' = Owners(q) \cup {i \in New : Owner(log'[i], q)} BY GrownDoes
  <2>2. \A q : ~Owner(log'[n], q) BY DEF Owner
  <2>3. QED BY <2>1, <2>2
<1>5. \A c : c \in Published' <=> c \in Published
  <2>1. \A c : c \in Published' <=> c \in Published \/ \E i \in New : Publishes(log'[i], c) BY GrownDoes
  <2>2. \A c : ~Publishes(log'[n], c) BY DEF Publishes
  <2>3. QED BY <2>1, <2>2
<1>6. /\ \A x : x # log'[n].kind => At(log', x) = At(log, x)
      /\ At(log', log'[n].kind) = At(log, log'[n].kind) \cup {n}
  <2>1. \A k : At(log', k) = At(log, k) \cup {i \in New : log'[i].kind = k} BY GrownDoes
  <2>2. QED BY <2>1
<1>7. QED BY <1>1, <1>2, <1>3, <1>4, <1>5, <1>6

(* The terminal transaction keeps the invariant. *)
LEMMA TerminateKeeps ==
  ASSUME TypeInv, EffectsInv, NEW s \in Terminals, NEW produced, produced \in {<<>>, <<Partial>>},
         produced # <<>> => at = "calling", Terminate(s, produced),
         at' \in {"finish"} \cup Lost, UNCHANGED <<runs, acted, asked>>
  PROVE  EffectsInv'
<1>. USE DEF EffectsInv
<1>1. Closes(s, produced)
  BY TerminateDoes
<1>2. /\ effect' = NoEffect /\ pending' = <<>> /\ request' = NoRequest /\ status' = s /\ ids' = ids + 2
      /\ DOMAIN pending' = {} /\ NoEffect.kind = "none" /\ NoEffect.call = NoCall
  BY DEF Terminate, NoEffect
<1>3. /\ New \subseteq DOMAIN log' /\ DOMAIN log' = DOMAIN log \cup New /\ Grown
      /\ \A c : c \in Settled' <=> c \in Settled \/ \E i \in New : log'[i].kind = "tool" /\ log'[i].call = c
      /\ \A q : Owners(q)' = Owners(q) \cup {i \in New : Owner(log'[i], q)}
      /\ \A c : c \in Published' <=> c \in Published \/ \E i \in New : Publishes(log'[i], c)
      /\ \A k : At(log', k) = At(log, k) \cup {i \in New : log'[i].kind = k}
  BY <1>1, GrownDoes DEF Closes
<1>4. PlaceInv'
  BY <1>2 DEF PlaceInv, EffectPlaced, BeforeOutput, InBatch, Lost
<1>5. \A i \in New : log'[i].kind = "tool" => \E k \in DOMAIN pending : log'[i] = InterruptedCall(pending[k])
  BY <1>1 DEF Closes
<1>6. \A k \in DOMAIN pending : \E i \in New : log'[i] = InterruptedCall(pending[k])
  BY <1>1 DEF Closes
<1>7. \A p : /\ InterruptedCall(p).kind = "tool" /\ InterruptedCall(p).call = p.call
             /\ InterruptedCall(p).notice = UnknownHook(p.call) /\ InterruptedCall(p).evidence \in Evidence
  BY DEF InterruptedCall, ToolResult, Evidence
<1>8. \A k \in DOMAIN pending : pending[k].call \in Call /\ pending[k].call # NoCall /\ pending[k].call \in Settled'
  <2>1. \A k \in DOMAIN pending : pending[k].call \in Call BY PendingIs
  <2>2. QED BY <1>3, <1>6, <1>7, <2>1, CallsAreIdentities
<1>9. CallInv'
  <2>1. \A i \in At(log', "tool") : /\ log'[i].call \in Published' \cap Call
                                    /\ log'[i].evidence \in Evidence /\ log'[i].notice \in BOOLEAN
    <3>1. \A p : UnknownHook(p) \in BOOLEAN
      BY DEF UnknownHook
    <3>2. \A i \in At(log, "tool") : i \in DOMAIN log /\ log'[i] = log[i]
      BY <1>3 DEF At, Grown
    <3>3. QED BY <1>3, <1>5, <1>7, <1>8, <3>1, <3>2 DEF CallInv
  <2>2. \A i, j \in At(log', "tool") : log'[i].call = log'[j].call => i = j
    <3>1. \A i, j \in New : log'[i].kind = "tool" /\ log'[j].kind = "tool" /\ log'[i].call = log'[j].call => i = j
      <4>1. PICK n \in Nat :
              /\ \A i \in New : log'[i].kind = "tool" => \E k \in DOMAIN pending : i = n + k
              /\ \A k \in DOMAIN pending : n + k \in New /\ log'[n + k] = InterruptedCall(pending[k])
        BY <1>1 DEF Closes
      <4>2. QED BY <1>7, <4>1 DEF CallInv
    <3>2. \A i \in At(log, "tool"), j \in New : log'[j].kind = "tool" => log'[i].call # log'[j].call
      <4>1. \A i \in At(log, "tool") : log'[i] = log[i] /\ log[i].call \in Settled
        BY <1>3 DEF At, Grown, Settled
      <4>2. QED BY <1>5, <1>7, <4>1 DEF CallInv
    <3>3. \A i \in At(log, "tool") : log'[i] = log[i]
      BY <1>3 DEF At, Grown
    <3>4. QED BY <1>3, <3>1, <3>2, <3>3 DEF CallInv
  <2>3. QED BY <1>2, <2>1, <2>2 DEF CallInv
<1>10. StartInv'
  <2>1. \A c \in Call : c \in Settled \/ (effect.kind = "tool" /\ effect.call = c) => c \in Settled'
    <3>1. effect.kind = "tool" => \E k \in DOMAIN pending : effect.call = pending[k].call
      BY DEF PlaceInv, EffectPlaced, TypeInv, TypeOK
    <3>2. QED BY <1>3, <1>8, <3>1
  <2>2. QED BY <2>1 DEF StartInv
<1>11. DoubtInv'
  <2>1. effect.call # NoCall => \E k \in DOMAIN pending : effect.call = pending[k].call
    BY DEF PlaceInv, EffectPlaced, TypeInv, TypeOK
  <2>2. \A i \in New : log'[i].kind = "hook" =>
           effect.kind = "hook" /\ log'[i].call = effect.call /\ log'[i].evidence = "unknown"
    BY <1>1 DEF Closes, HookResult
  <2>3. \A i \in At(log, "hook") : i \in DOMAIN log /\ log'[i] = log[i]
    BY <1>3 DEF At, Grown
  <2>4. HookDoubtKept'
    <3>. SUFFICES ASSUME NEW i \in At(log', "tool")
                  PROVE  log'[i].notice <=> \E j \in At(log', "hook") : log'[j].call = log'[i].call
                                                                      /\ log'[j].evidence = "unknown"
      BY DEF HookDoubtKept
    <3>1. CASE i \in At(log, "tool")
      <4>1. log'[i] = log[i] /\ log[i].call \in Settled
        BY <1>3, <3>1 DEF At, Grown, Settled
      <4>2. \A j \in New : log'[j].kind = "hook" => log'[j].call # log[i].call
        <5>1. log[i].call # NoCall BY <3>1, CallsAreIdentities DEF CallInv
        <5>2. \A k \in DOMAIN pending : pending[k].call # log[i].call BY <4>1 DEF CallInv
        <5>3. QED BY <2>1, <2>2, <5>1, <5>2
      <4>3. log[i].notice <=> \E j \in At(log, "hook") : log[j].call = log[i].call /\ log[j].evidence = "unknown"
        BY <3>1 DEF DoubtInv, HookDoubtKept
      <4>4. QED BY <1>3, <2>3, <4>1, <4>2, <4>3
    <3>2. CASE i \in New /\ log'[i].kind = "tool"
      <4>1. PICK k \in DOMAIN pending : log'[i] = InterruptedCall(pending[k]) BY <1>5, <3>2
      <4>2. log'[i].notice <=> \/ effect.kind = "hook" /\ effect.call = pending[k].call
                               \/ \E j \in At(log, "hook") : log[j].call = pending[k].call /\ log[j].evidence = "unknown"
        BY <1>7, <4>1 DEF UnknownHook, At
      <4>3. effect.kind = "hook" <=> \E j \in New : log'[j].kind = "hook"
        BY <1>1 DEF Closes
      <4>4. log'[i].call = pending[k].call BY <1>7, <4>1
      <4>5. QED BY <1>3, <2>2, <2>3, <4>2, <4>3, <4>4
    <3>3. QED BY <1>3, <3>1, <3>2
  <2>5. \A i \in At(log', "hook") : log'[i].call # NoCall /\ log'[i].evidence = "unknown" => log'[i].call \in Settled'
    <3>1. \A i \in At(log, "hook") : log[i].call # NoCall /\ log[i].evidence = "unknown" => log[i].call \in Settled'
      <4>1. \A i : Owed(i) => \E k \in DOMAIN pending : log[i].call = pending[k].call
        BY DEF Owed, TypeInv, TypeOK
      <4>2. QED BY <1>3, <1>8, <4>1 DEF DoubtInv
    <3>2. QED BY <1>3, <1>8, <2>1, <2>2, <2>3, <3>1
  <2>6. QED BY <2>4, <2>5 DEF DoubtInv, Lost
<1>12. RequestInv'
  <2>1. PICK n \in New : /\ log'[n] = Closing(s, produced)
                         /\ \A i \in New : log'[i].kind = "settlement" => i = n
    BY <1>1 DEF Closes
  <2>2. /\ log'[n].kind = "settlement" /\ log'[n].request = Witness(produced)
        /\ log'[n].evidence.accepted = "yes" <=> produced = <<>> /\ effect.kind = "model"
    BY <2>1 DEF Closing, Settlement, SettlementEvidence, Selected, NoSelection
  <2>3. effect.kind = "model" /\ produced = <<>> => Witness(produced) = effect.request
    BY DEF Witness, RequestInv, RequestPlaced, OwnersInv
  <2>4. \A i \in New : log'[i].kind = "assistant" => produced # <<>> /\ log'[i].request = ask
    BY <1>1 DEF Closes, Partial, Assistant
  <2>5. produced # <<>> => effect.kind = "model" /\ effect.request = ask
    BY DEF PlaceInv, EffectPlaced, RequestInv, RequestPlaced, OwnersInv
  <2>6. \A q : \A i \in New : Owner(log'[i], q) => effect.kind = "model" /\ q = effect.request
    BY <2>1, <2>2, <2>3, <2>4, <2>5 DEF Owner
  <2>7. effect.kind = "model" => \E m \in New : \A i \in New : Owner(log'[i], effect.request) <=> i = m
    <3>1. CASE produced = <<>>
      BY <2>1, <2>2, <2>3, <2>4, <3>1 DEF Owner
    <3>2. CASE produced # <<>>
      <4>1. PICK m \in New : log'[m].kind = "assistant" BY <1>1, <3>2 DEF Closes
      <4>2. \A i \in New : log'[i].kind = "assistant" => i = m BY <1>1, <4>1 DEF Closes
      <4>3. \A i \in New : Owner(log'[i], effect.request) => log'[i].kind = "assistant"
        BY <2>1, <2>2, <3>2 DEF Owner
      <4>4. effect.kind = "model" => Owner(log'[m], effect.request) BY <2>4, <2>5, <3>2, <4>1 DEF Owner
      <4>5. QED BY <4>2, <4>3, <4>4
    <3>3. QED BY <3>1, <3>2
  <2>8. OwnedOnce'
    <3>. SUFFICES ASSUME NEW q \in asked PROVE \E i \in DOMAIN log' : Owners(q)' = {i}
      BY <1>2 DEF OwnedOnce
    <3>1. CASE effect.kind = "model" /\ effect.request = q
      <4>1. Owners(q) = {} BY <3>1 DEF RequestInv, RequestPlaced, OwnersInv, OwnedOnce
      <4>2. PICK m \in New : \A i \in New : Owner(log'[i], q) <=> i = m BY <2>7, <3>1
      <4>3. Owners(q)' = {m} BY <1>3, <4>1, <4>2
      <4>4. QED BY <1>3, <4>3
    <3>2. CASE ~(effect.kind = "model" /\ effect.request = q)
      <4>1. PICK i \in DOMAIN log : Owners(q) = {i} BY <3>2 DEF RequestInv, RequestPlaced, OwnersInv, OwnedOnce
      <4>2. Owners(q)' = {i} BY <1>3, <2>6, <3>2, <4>1
      <4>3. QED BY <1>3, <4>2
    <3>3. QED BY <3>1, <3>2
  <2>9. \A q : Owners(q)' # {} => q \in asked'
    BY <1>3, <2>6 DEF RequestInv, RequestPlaced, OwnersInv
  <2>10. asked' \subseteq Kept'
    BY <1>2 DEF RequestInv, RequestPlaced, OwnersInv, Kept, TypeInv
  <2>11. QED BY <1>2, <2>8, <2>9, <2>10 DEF RequestInv, RequestPlaced, OwnersInv, BeforeOutput, Lost
<1>13. QED BY <1>4, <1>9, <1>10, <1>11, <1>12

(* The answer to the call whose turn it is keeps the invariant. *)
LEMMA AnswerKeeps ==
  ASSUME TypeInv, EffectsInv, at \in InBatch \ {"dispatch", "hookGate", "hookRun"},
         NEW s, NEW k \in Evidence, NEW u \in BOOLEAN, NEW sel, SettleCall(s, k, u, sel),
         u <=> at = "hookSettle" /\ doubt = "unknown", UNCHANGED <<runs, acted, asked, ask>>
  PROVE  EffectsInv'
<1>. USE DEF EffectsInv
<1>. DEFINE c1 == pending[1].call
<1>1. /\ Head(calls) = c1 /\ 1 \in DOMAIN pending
      /\ \E x : log' = Append(log, ToolResult(pending[1], s, k, u, x))
      /\ pending' = Tail(pending) /\ effect' = NoEffect
      /\ request' = IF pending' = <<>> THEN NoRequest ELSE request
      /\ UNCHANGED <<status, ids>>
  BY CommitToolDoes DEF SettleCall
<1>2. /\ Grown
      /\ \E n \in New : /\ New = {n} /\ log'[n].kind = "tool" /\ log'[n].call = c1
                        /\ log'[n].evidence = k /\ log'[n].notice = u
  <2>1. PICK x : log' = Append(log, ToolResult(pending[1], s, k, u, x)) BY <1>1
  <2>2. Grown /\ \E n : New = {n} /\ log'[n] = ToolResult(pending[1], s, k, u, x) BY <2>1, AppendDoes
  <2>3. QED BY <2>2 DEF ToolResult
<1>3. PICK n \in New : /\ New = {n} /\ log'[n].kind = "tool" /\ log'[n].call = c1
                       /\ log'[n].evidence = k /\ log'[n].notice = u
  BY <1>2
<1>4. /\ DOMAIN log' = DOMAIN log \cup {n} /\ n \notin DOMAIN log
      /\ \A c : c \in Settled' <=> c \in Settled \/ c = c1
      /\ \A q : Owners(q)' = Owners(q)
      /\ \A c : c \in Published' <=> c \in Published
      /\ At(log', "tool") = At(log, "tool") \cup {n} /\ At(log', "hook") = At(log, "hook")
      /\ \A i \in DOMAIN log : log'[i] = log[i]
  <2>1. log'[n].kind \in {"tool", "hook"} BY <1>3
  <2>2. /\ DOMAIN log' = DOMAIN log \cup {n} /\ n \notin DOMAIN log
        /\ \A i \in DOMAIN log : log'[i] = log[i]
        /\ \A c : c \in Settled' <=> c \in Settled \/ (log'[n].kind = "tool" /\ c = log'[n].call)
        /\ \A q : Owners(q)' = Owners(q)
        /\ \A c : c \in Published' <=> c \in Published
        /\ \A x : x # log'[n].kind => At(log', x) = At(log, x)
        /\ At(log', log'[n].kind) = At(log, log'[n].kind) \cup {n}
    BY <1>2, <1>3, <2>1, OneMore
  <2>3. QED BY <1>3, <2>2
<1>5. /\ \A j \in DOMAIN pending' : j + 1 \in DOMAIN pending /\ j + 1 # 1 /\ pending'[j] = pending[j + 1]
      /\ pending' # <<>> => 1 \in DOMAIN pending'
      /\ Len(pending') = Len(pending) - 1 /\ DOMAIN pending' = 1..(Len(pending) - 1)
      /\ \A j \in DOMAIN pending' : j \in Nat
  <2>1. \A S : pending \in Seq(S) => Tail(pending) \in Seq(S) /\ Len(Tail(pending)) = Len(pending) - 1
                                     /\ \A j \in 1..(Len(pending) - 1) : Tail(pending)[j] = pending[j + 1]
    BY <1>1
  <2>2. pending \in Seq([call : Call, id : Nat, publisher : Nat]) BY DEF TypeInv, TypeOK
  <2>3. /\ Tail(pending) \in Seq([call : Call, id : Nat, publisher : Nat])
        /\ Len(Tail(pending)) = Len(pending) - 1 /\ Len(pending) \in Nat /\ DOMAIN pending = 1..Len(pending)
        /\ \A j \in 1..(Len(pending) - 1) : Tail(pending)[j] = pending[j + 1]
    BY <2>1, <2>2, PendingIs
  <2>4. DOMAIN Tail(pending) = 1..(Len(pending) - 1) BY <2>3
  <2>5. \A j \in 1..(Len(pending) - 1) : j \in Nat /\ j + 1 \in 1..Len(pending) /\ j + 1 # 1 BY <2>3
  <2>6. pending' # <<>> => 1 \in DOMAIN pending' BY <1>1, <2>3, <2>4
  <2>7. QED BY <1>1, <2>3, <2>4, <2>5, <2>6
<1>6. /\ calls' = Tail(calls) /\ at' \in {"finish", "dispatch"} /\ status = "running"
      /\ effect.kind # "model" /\ NoEffect.kind = "none" /\ NoEffect.call = NoCall
  BY DEF SettleCall, Answered, Finish, PlaceInv, EffectPlaced, InBatch, NoEffect
<1>7. PlaceInv'
  <2>1. calls \in Seq(Call) /\ Len(calls) = Len(pending) /\ \A j \in DOMAIN pending : calls[j] = pending[j].call
    BY DEF TypeInv, TypeOK, PlaceInv, InBatch
  <2>2. calls # <<>> /\ Len(calls') = Len(calls) - 1 /\ \A j \in 1..(Len(calls) - 1) : calls'[j] = calls[j + 1]
    BY <1>1, <1>6, <2>1, PendingIs
  <2>3. Len(calls') = Len(pending') /\ \A j \in DOMAIN pending' : calls'[j] = pending'[j].call
    BY <1>5, <2>1, <2>2
  <2>4. QED BY <1>1, <1>6, <2>3 DEF PlaceInv, EffectPlaced, BeforeOutput, InBatch
<1>8. c1 \in Call /\ c1 \in Published /\ c1 \notin Settled /\ c1 # NoCall
  BY <1>1, PendingIs, CallsAreIdentities DEF CallInv
<1>9. CallInv'
  <2>1. \A j \in DOMAIN pending' : pending'[j].call \in Published' /\ pending'[j].call \notin Settled'
    BY <1>1, <1>4, <1>5 DEF CallInv
  <2>2. \A j, m \in DOMAIN pending' : pending'[j].call = pending'[m].call => j = m
    BY <1>5 DEF CallInv
  <2>3. \A i \in At(log, "tool") : i \in DOMAIN log /\ log[i].call \in Settled BY DEF At, Settled
  <2>4. QED BY <1>3, <1>4, <1>8, <2>1, <2>2, <2>3 DEF CallInv
<1>10. StartInv'
  <2>1. effect.kind = "tool" => effect.call = c1 BY DEF PlaceInv, EffectPlaced
  <2>2. QED BY <1>4, <2>1 DEF StartInv
<1>11. DoubtInv'
  <2>1. \A i \in At(log, "hook") : log[i].call # NoCall /\ log[i].evidence = "unknown" =>
           log[i].call \in Settled \/ (log[i].call = c1 /\ u)
    BY DEF DoubtInv, Owed, Lost, InBatch
  <2>2. u => \E i \in At(log, "hook") : log[i].call = c1 /\ log[i].evidence = "unknown"
    BY DEF DoubtInv, Owed
  <2>3. \A i \in At(log, "hook") : i \in DOMAIN log BY DEF At
  <2>4. \A i \in At(log, "tool") : i \in DOMAIN log BY DEF At
  <2>5. HookDoubtKept'
    <3>. SUFFICES ASSUME NEW i \in At(log', "tool")
                  PROVE  log'[i].notice <=> \E j \in At(log', "hook") : log'[j].call = log'[i].call
                                                                      /\ log'[j].evidence = "unknown"
      BY DEF HookDoubtKept
    <3>1. CASE i \in At(log, "tool")
      BY <1>4, <2>3, <2>4, <3>1 DEF DoubtInv, HookDoubtKept
    <3>2. CASE i = n
      BY <1>3, <1>4, <1>8, <2>1, <2>2, <2>3, <3>2
    <3>3. QED BY <1>4, <3>1, <3>2
  <2>6. \A i \in At(log', "hook") : log'[i].call # NoCall /\ log'[i].evidence = "unknown" => log'[i].call \in Settled'
    BY <1>4, <2>1, <2>3
  <2>7. QED BY <1>6, <2>5, <2>6 DEF DoubtInv
<1>12. RequestInv'
  BY <1>1, <1>4, <1>6 DEF RequestInv, RequestPlaced, OwnersInv, OwnedOnce, Kept, BeforeOutput
<1>13. QED BY <1>7, <1>9, <1>10, <1>11, <1>12

(* A hook's result keeps the invariant. *)
LEMMA HookKeeps ==
  ASSUME TypeInv, EffectsInv, NEW s, NEW k \in Evidence, CommitHook(s, k),
         \/ at \in {"requestGate", "requestRun"} /\ at' \in {"finish", "requestHooks"}
         \/ /\ at \in {"hookGate", "hookRun"}
            /\ \/ at' = "argumentHooks" /\ k = "observed"
               \/ at' = "hookSettle" /\ doubt' = k /\ outcome' \in {"error", "interrupted"},
         UNCHANGED <<calls, runs, acted, asked, ask>>
  PROVE  EffectsInv'
<1>. USE DEF EffectsInv
<1>1. /\ log' = Append(log, HookResult(effect, s, k)) /\ effect' = NoEffect /\ effect.kind = "hook"
      /\ UNCHANGED <<status, pending, ids>> /\ status = "running"
      /\ NoEffect.kind = "none" /\ NoEffect.call = NoCall
  BY DEF CommitHook, PlaceInv, EffectPlaced, NoEffect
<1>2. Grown /\ \E n : New = {n} /\ log'[n] = HookResult(effect, s, k)
  BY <1>1, AppendDoes
<1>3. PICK n \in New : /\ New = {n} /\ log'[n].kind = "hook" /\ log'[n].call = effect.call
                       /\ log'[n].evidence = k
  BY <1>2 DEF HookResult
<1>4. /\ DOMAIN log' = DOMAIN log \cup {n} /\ n \notin DOMAIN log
      /\ \A c : c \in Settled' <=> c \in Settled
      /\ \A q : Owners(q)' = Owners(q)
      /\ \A c : c \in Published' <=> c \in Published
      /\ At(log', "tool") = At(log, "tool") /\ At(log', "hook") = At(log, "hook") \cup {n}
      /\ \A i \in DOMAIN log : log'[i] = log[i]
  <2>1. log'[n].kind \in {"tool", "hook"} BY <1>3
  <2>2. /\ DOMAIN log' = DOMAIN log \cup {n} /\ n \notin DOMAIN log
        /\ \A i \in DOMAIN log : log'[i] = log[i]
        /\ \A c : c \in Settled' <=> c \in Settled \/ (log'[n].kind = "tool" /\ c = log'[n].call)
        /\ \A q : Owners(q)' = Owners(q)
        /\ \A c : c \in Published' <=> c \in Published
        /\ \A x : x # log'[n].kind => At(log', x) = At(log, x)
        /\ At(log', log'[n].kind) = At(log, log'[n].kind) \cup {n}
    BY <1>2, <1>3, <2>1, OneMore
  <2>3. QED BY <1>3, <2>2
<1>5. DoubtInv'
  <2>1. \A i \in At(log, "hook") : i \in DOMAIN log BY DEF At
  <2>2. \A i \in At(log, "tool") : i \in DOMAIN log BY DEF At
  <2>3. effect.call # NoCall => 1 \in DOMAIN pending /\ effect.call = pending[1].call
                                /\ effect.call \in Call /\ effect.call \notin Settled
    <3>1. effect.call # NoCall => pending # <<>> /\ effect.call = pending[1].call
      BY DEF PlaceInv, EffectPlaced
    <3>2. pending # <<>> => 1 \in DOMAIN pending BY DEF TypeInv, TypeOK
    <3>3. QED BY <3>1, <3>2, PendingIs DEF CallInv
  <2>4. effect.call = NoCall <=> at \in {"requestGate", "requestRun"} BY DEF PlaceInv, EffectPlaced
  <2>5. \A i \in At(log, "hook") : log[i].call # NoCall /\ log[i].evidence = "unknown" =>
           log[i].call \in Settled
    <3>1. effect # NoEffect BY <1>1
    <3>2. QED BY <3>1 DEF DoubtInv, Owed
  <2>6. HookDoubtKept'
    <3>. SUFFICES ASSUME NEW i \in At(log', "tool")
                  PROVE  log'[i].notice <=> \E j \in At(log', "hook") : log'[j].call = log'[i].call
                                                                      /\ log'[j].evidence = "unknown"
      BY DEF HookDoubtKept
    <3>1. i \in At(log, "tool") /\ log'[i] = log[i] BY <1>4, <2>2
    <3>2. log[i].call \in Settled /\ log[i].call # NoCall BY <3>1, CallsAreIdentities DEF Settled, CallInv
    <3>3. log[i].notice <=> \E j \in At(log, "hook") : log[j].call = log[i].call /\ log[j].evidence = "unknown"
      BY <3>1 DEF DoubtInv, HookDoubtKept
    <3>4. log'[n].call # log[i].call BY <1>3, <2>3, <3>2
    <3>5. QED BY <1>4, <2>1, <3>1, <3>3, <3>4
  <2>7. \A i \in At(log', "hook") :
          log'[i].call # NoCall /\ log'[i].evidence = "unknown" => log'[i].call \in Settled' \/ Owed(i)'
    <3>1. \A i \in At(log, "hook") : log'[i].call # NoCall /\ log'[i].evidence = "unknown" => log'[i].call \in Settled'
      BY <1>4, <2>1, <2>5
    <3>2. log'[n].call # NoCall /\ log'[n].evidence = "unknown" => Owed(n)'
      BY <1>1, <1>3, <2>3, <2>4 DEF Owed
    <3>3. QED BY <1>4, <3>1, <3>2
  <2>8. at' = "hookSettle" /\ doubt' = "unknown" =>
          \E i \in At(log', "hook") : Owed(i)' /\ log'[i].evidence = "unknown"
    <3>1. at' = "hookSettle" /\ doubt' = "unknown" => Owed(n)' /\ log'[n].evidence = "unknown"
      BY <1>1, <1>3, <2>3, <2>4 DEF Owed
    <3>2. QED BY <1>4, <3>1
  <2>9. QED BY <2>6, <2>7, <2>8 DEF DoubtInv
<1>6. PlaceInv'
  BY <1>1 DEF PlaceInv, EffectPlaced, BeforeOutput, InBatch
<1>7. CallInv'
  <2>1. \A i \in At(log, "tool") : i \in DOMAIN log BY DEF At
  <2>2. QED BY <1>1, <1>4, <2>1 DEF CallInv
<1>8. StartInv'
  BY <1>1, <1>4 DEF StartInv
<1>9. RequestInv'
  <2>1. request'.id = request.id BY DEF CommitHook
  <2>2. at \in {"requestGate", "requestRun"} => request'.id = ask BY <2>1 DEF RequestInv, RequestPlaced, OwnersInv
  <2>3. OwnedOnce' BY <1>1, <1>4 DEF RequestInv, RequestPlaced, OwnersInv, OwnedOnce
  <2>4. QED BY <1>1, <1>4, <2>2, <2>3 DEF RequestInv, RequestPlaced, OwnersInv, Kept, BeforeOutput
<1>10. QED BY <1>5, <1>6, <1>7, <1>8, <1>9

(* An assistant entry for the round's request owns it. *)
LEMMA OutputOwns ==
  ASSUME TypeInv, EffectsInv, at = "calling", Grown, NEW n \in New,
         log'[n].kind = "assistant", log'[n].request = ask,
         \A i \in New : i # n => log'[i].kind = "signal",
         effect' = NoEffect, at' \in {"dispatch", "finish", "loop"},
         at' = "loop" => request' = NoRequest, at' = "dispatch" => pending' # <<>>,
         ids' \in Nat, ids <= ids', UNCHANGED <<asked, ask>>
  PROVE  /\ RequestInv'
         /\ At(log', "tool") = At(log, "tool") /\ At(log', "hook") = At(log, "hook")
         /\ \A c : c \in Settled' <=> c \in Settled
         /\ \A c : c \in Published' <=> c \in Published \/ Publishes(log'[n], c)
<1>. USE DEF EffectsInv
<1>1. effect.kind = "model" /\ effect.request = ask /\ ask \in asked /\ NoEffect.kind = "none"
  BY DEF PlaceInv, EffectPlaced, RequestInv, RequestPlaced, OwnersInv, NoEffect
<1>2. \A i \in New : \A q : Owner(log'[i], q) <=> i = n /\ q = ask
  BY DEF Owner
<1>3. \A q : Owners(q)' = Owners(q) \cup {i \in New : Owner(log'[i], q)}
  BY GrownDoes
<1>4. DOMAIN log' = DOMAIN log \cup New
  BY GrownDoes
<1>5. Owners(ask) = {}
  BY <1>1 DEF RequestInv, RequestPlaced, OwnersInv, OwnedOnce
<1>6. \A q : q # ask => Owners(q)' = Owners(q)
  BY <1>2, <1>3
<1>7. \A q : q = ask => Owners(q)' = {n}
  <2>. SUFFICES ASSUME NEW q, q = ask PROVE Owners(q)' = {n} OBVIOUS
  <2>1. Owners(q) = {} BY <1>5
  <2>2. {i \in New : Owner(log'[i], q)} = {n} BY <1>2
  <2>3. QED BY <1>3, <2>1, <2>2
<1>8. OwnedOnce'
  <2>. SUFFICES ASSUME NEW q \in asked PROVE \E i \in DOMAIN log' : Owners(q)' = {i}
    BY <1>1 DEF OwnedOnce
  <2>1. CASE q = ask BY <1>4, <1>7, <2>1
  <2>2. CASE q # ask
    <3>1. PICK i \in DOMAIN log : Owners(q) = {i} BY <1>1, <2>2 DEF RequestInv, RequestPlaced, OwnersInv, OwnedOnce
    <3>2. QED BY <1>4, <1>6, <2>2, <3>1
  <2>3. QED BY <2>1, <2>2
<1>9. \A q : Owners(q)' # {} => q \in asked'
  BY <1>1, <1>6 DEF RequestInv, RequestPlaced, OwnersInv
<1>10. asked' \subseteq Kept'
  <2>1. asked \subseteq Kept BY DEF RequestInv, RequestPlaced, OwnersInv
  <2>2. ids \in Nat BY DEF TypeInv
  <2>3. Kept \subseteq Kept' BY <2>2, UpToGrows DEF Kept
  <2>4. QED BY <2>1, <2>3
<1>11. RequestInv'
  BY <1>1, <1>8, <1>9, <1>10 DEF RequestInv, RequestPlaced, OwnersInv, BeforeOutput
<1>12. \A k : k \in {"tool", "hook"} => At(log', k) = At(log, k)
  <2>1. \A k : At(log', k) = At(log, k) \cup {i \in New : log'[i].kind = k} BY GrownDoes
  <2>2. \A i \in New : log'[i].kind # "tool" /\ log'[i].kind # "hook" OBVIOUS
  <2>3. QED BY <2>1, <2>2
<1>13. \A c : c \in Settled' <=> c \in Settled
  <2>1. \A i \in New : log'[i].kind # "tool" OBVIOUS
  <2>2. QED BY <2>1, GrownDoes
<1>14. \A c : c \in Published' <=> c \in Published \/ Publishes(log'[n], c)
  <2>1. \A c : c \in Published' <=> c \in Published \/ \E i \in New : Publishes(log'[i], c) BY GrownDoes
  <2>2. \A i \in New : i # n => \A c : ~Publishes(log'[i], c) BY DEF Publishes
  <2>3. QED BY <2>1, <2>2
<1>15. QED BY <1>11, <1>12, <1>13, <1>14

(* What no entry and no call changes. *)
LEMMA OutputFrame ==
  ASSUME TypeInv, EffectsInv, at = "calling", Grown, effect' = NoEffect, at' \in {"dispatch", "finish", "loop"},
         At(log', "tool") = At(log, "tool") /\ At(log', "hook") = At(log, "hook"),
         \A c : c \in Settled' <=> c \in Settled, UNCHANGED <<runs, acted>>
  PROVE  StartInv' /\ DoubtInv'
<1>. USE DEF EffectsInv
<1>1. \A k : \A i \in At(log, k) : log'[i] = log[i]
  BY DEF At, Grown
<1>2. effect.kind = "model" /\ effect # NoEffect
  BY DEF PlaceInv, EffectPlaced, NoEffect
<1>3. StartInv'
  BY <1>2 DEF StartInv
<1>4. HookDoubtKept'
  BY <1>1 DEF DoubtInv, HookDoubtKept
<1>5. QED BY <1>1, <1>2, <1>3, <1>4 DEF DoubtInv, Owed

(* An errored output with a retained payload owns its request and leaves
   nothing open. *)
LEMMA PartialKeeps ==
  ASSUME TypeInv, EffectsInv, at = "calling", OutputPartial, UNCHANGED <<runs, acted, asked, ask>>
  PROVE  EffectsInv'
<1>. USE DEF EffectsInv
<1>. DEFINE t == <<Partial, Signal(ids, "continuation")>>
<1>1. IsSeq(t) /\ Len(t) = 2 /\ t[1] = Partial /\ t[2] = Signal(ids, "continuation")
  <2>1. t \in Seq({Partial, Signal(ids, "continuation")}) OBVIOUS
  <2>2. QED BY <2>1, SeqIs
<1>2. Joined(log', log, t)
  <2>1. log' = log \o t /\ IsSeq(log) BY DEF OutputPartial, Partial, TypeInv
  <2>2. QED BY <1>1, <2>1, Glued
<1>. HIDE DEF t
<1>. DEFINE n == Len(log) + 1
<1>3. Grown /\ New = {n, n + 1} /\ log'[n] = Partial /\ log'[n + 1] = Signal(ids, "continuation") /\ n # n + 1
  <2>1. /\ Len(log) \in Nat /\ Len(log') = Len(log) + 2 /\ IsSeq(log')
        /\ DOMAIN log = 1..Len(log) /\ DOMAIN log' = 1..(Len(log) + 2)
        /\ \A i \in 1..Len(log) : i \in 1..Len(log') /\ log'[i] = log[i]
        /\ log'[Len(log) + 1] = t[1] /\ log'[Len(log) + 2] = t[2]
    BY <1>1, <1>2 DEF Joined
  <2>2. Grown BY <2>1 DEF Grown
  <2>3. New = {Len(log) + 1, Len(log) + 2} BY <2>1 DEF New
  <2>4. QED BY <1>1, <2>1, <2>2, <2>3
<1>4. /\ log'[n].kind = "assistant" /\ log'[n].request = ask /\ \A c : ~Publishes(log'[n], c)
      /\ log'[n + 1].kind = "signal"
  BY <1>3 DEF Partial, Assistant, Signal, Publishes
<1>5. /\ effect' = NoEffect /\ at' = "loop" /\ request' = NoRequest /\ ids' = ids + 1 /\ pending = <<>>
      /\ UNCHANGED <<status, pending, calls>> /\ status = "running" /\ NoEffect.kind = "none" /\ NoEffect.call = NoCall
      /\ ids \in Nat
  BY DEF OutputPartial, Goto, PlaceInv, BeforeOutput, NoEffect, TypeInv
<1>6. /\ RequestInv'
      /\ At(log', "tool") = At(log, "tool") /\ At(log', "hook") = At(log, "hook")
      /\ \A c : c \in Settled' <=> c \in Settled
      /\ \A c : c \in Published' <=> c \in Published
  <2>1. n \in New /\ \A i \in New : i # n => log'[i].kind = "signal" BY <1>3, <1>4
  <2>2. ids' \in Nat /\ ids <= ids' BY <1>5
  <2>. HIDE DEF n
  <2>3. QED BY <1>3, <1>4, <1>5, <2>1, <2>2, OutputOwns
<1>7. StartInv' /\ DoubtInv'
  BY <1>3, <1>5, <1>6, OutputFrame
<1>8. PlaceInv'
  BY <1>5 DEF PlaceInv, EffectPlaced, BeforeOutput, InBatch
<1>9. CallInv'
  <2>1. \A k : \A i \in At(log, k) : log'[i] = log[i]
    BY <1>3 DEF At, Grown
  <2>2. QED BY <1>5, <1>6, <2>1 DEF CallInv
<1>10. QED BY <1>6, <1>7, <1>8, <1>9

(* A completed output owns its request; its calls are new, unanswered and
   reserved one by one. *)
LEMMA CompletedKeeps ==
  ASSUME TypeInv, EffectsInv, at = "calling", NEW b \in Seq(Call), ~Repeats(b), OutputCompleted(b),
         UNCHANGED <<runs, acted, asked, ask>>
  PROVE  EffectsInv'
<1>. USE DEF EffectsInv
<1>1. /\ log' = Append(log, Assistant(effect.id, ask, Reserve(b), effect.chain))
      /\ pending' = pending \o Pend(b) /\ ids' = ids + Len(b) /\ effect' = NoEffect
      /\ calls' = b /\ UNCHANGED status
      /\ (at' = "dispatch" /\ b # <<>>) \/ (at' = "finish" /\ b = <<>>)
  BY DEF OutputCompleted, Goto, Finish
<1>2. /\ pending' = Pend(b) /\ Pend(b) \in Seq([call : Call, id : Nat, publisher : Nat])
      /\ Len(Pend(b)) = Len(b) /\ DOMAIN Pend(b) = DOMAIN b
      /\ \A i \in DOMAIN b : Pend(b)[i].call = b[i]
  <2>1. pending = <<>> /\ ids \in Nat \ {0} /\ effect.id \in Nat
    BY DEF PlaceInv, BeforeOutput, TypeInv, TypeOK
  <2>2. Len(b) \in Nat /\ DOMAIN b = 1..Len(b) /\ \A i \in 1..Len(b) : b[i] \in Call OBVIOUS
  <2>3. \A i \in 1..Len(b) : [call |-> b[i], id |-> ids + i - 1, publisher |-> effect.id]
                               \in [call : Call, id : Nat, publisher : Nat]
    BY <2>1, <2>2
  <2>4. Pend(b) \in [1..Len(b) -> [call : Call, id : Nat, publisher : Nat]]
    BY <2>2, <2>3 DEF Pend
  <2>5. Pend(b) \in Seq([call : Call, id : Nat, publisher : Nat]) /\ Len(Pend(b)) = Len(b)
    BY <2>2, <2>4, FunctionIsSeq
  <2>6. <<>> \o Pend(b) = Pend(b) BY <2>5
  <2>7. QED BY <1>1, <2>1, <2>2, <2>5, <2>6 DEF Pend
<1>3. PICK n : Grown /\ New = {n} /\ log'[n] = Assistant(effect.id, ask, Reserve(b), effect.chain)
  BY <1>1, AppendDoes
<1>4. /\ log'[n].kind = "assistant" /\ log'[n].request = ask
      /\ \A c : Publishes(log'[n], c) <=> \E i \in DOMAIN b : b[i] = c
  <2>1. log'[n].kind = "assistant" /\ log'[n].request = ask /\ log'[n].calls = Reserve(b)
    BY <1>3 DEF Assistant
  <2>2. DOMAIN Reserve(b) = DOMAIN b /\ \A i \in DOMAIN b : Reserve(b)[i].call = b[i] BY DEF Reserve
  <2>3. QED BY <2>1, <2>2 DEF Publishes
<1>5. /\ RequestInv'
      /\ At(log', "tool") = At(log, "tool") /\ At(log', "hook") = At(log, "hook")
      /\ \A c : c \in Settled' <=> c \in Settled
      /\ \A c : c \in Published' <=> c \in Published \/ \E i \in DOMAIN b : b[i] = c
  <2>1. ids' \in Nat /\ ids <= ids' BY <1>1 DEF TypeInv
  <2>5. at' = "dispatch" => pending' # <<>> BY <1>1, <1>2
  <2>2. \A c : c \in Published' <=> c \in Published \/ Publishes(log'[n], c)
    BY <1>1, <1>3, <1>4, <2>1, <2>5, OutputOwns
  <2>3. /\ RequestInv' /\ At(log', "tool") = At(log, "tool") /\ At(log', "hook") = At(log, "hook")
        /\ \A c : c \in Settled' <=> c \in Settled
    BY <1>1, <1>3, <1>4, <2>1, <2>5, OutputOwns
  <2>4. QED BY <1>4, <2>2, <2>3
<1>6. StartInv' /\ DoubtInv'
  BY <1>1, <1>3, <1>5, OutputFrame
<1>7. PlaceInv'
  <2>1. status = "running" /\ NoEffect.kind = "none" /\ NoEffect.call = NoCall BY DEF PlaceInv, NoEffect
  <2>2. pending' # <<>> \/ at' # "dispatch" BY <1>1, <1>2
  <2>3. QED BY <1>1, <1>2, <2>1, <2>2 DEF PlaceInv, EffectPlaced, BeforeOutput, InBatch
<1>8. CallInv'
  <2>1. \A k : \A i \in At(log, k) : log'[i] = log[i] BY <1>3 DEF At, Grown
  <2>2. \A i, j \in DOMAIN b : b[i] = b[j] => i = j BY DEF Repeats, Unique
  <2>3. \A i \in DOMAIN b : b[i] \notin Published BY DEF Repeats
  <2>4. \A c \in Settled : c \in Published BY DEF Settled, CallInv
  <2>5. QED BY <1>2, <1>5, <2>1, <2>2, <2>3, <2>4 DEF CallInv
<1>9. QED BY <1>5, <1>6, <1>7, <1>8

(* What is read off the log alone does not change while the log does not. *)
LEMMA LogSame ==
  ASSUME log' = log
  PROVE  /\ Settled' = Settled /\ Published' = Published /\ (HookDoubtKept' <=> HookDoubtKept)
         /\ \A q : Owners(q)' = Owners(q)
BY DEF Settled, Published, HookDoubtKept, Owners

(* A step that leaves the log and the pending calls alone. *)
LEMMA StillKeeps ==
  ASSUME TypeInv, EffectsInv, UNCHANGED <<log, pending>>, PlaceInv',
         \A c \in Call : /\ runs'[c] <= 1
                         /\ runs'[c] > 0 \/ c \in acted' =>
                               \/ runs[c] > 0 \/ c \in acted
                               \/ effect'.kind = "tool" /\ effect'.call = c /\ at' = "executing",
         \A c \in Call : effect.kind = "tool" /\ effect.call = c /\ at \in {"executing"} \cup Lost =>
                            effect'.kind = "tool" /\ effect'.call = c /\ at' \in {"executing"} \cup Lost,
         \A i : Owed(i) => Owed(i)',
         at' = "hookSettle" => at = "hookSettle" /\ UNCHANGED <<effect, outcome, doubt>>,
         RequestPlaced', asked' = asked, ids' \in Nat, ids <= ids',
         effect' = effect \/ (effect.kind # "model" /\ effect'.kind # "model")
  PROVE  EffectsInv'
<1>. USE DEF EffectsInv
<1>1. CallInv' BY LogSame DEF CallInv
<1>2. StartInv' BY LogSame DEF StartInv
<1>3. DoubtInv'
  <2>1. \A i : log'[i] = log[i] /\ At(log', "hook") = At(log, "hook") OBVIOUS
  <2>2. \A i \in At(log', "hook") :
          log'[i].call # NoCall /\ log'[i].evidence = "unknown" => log'[i].call \in Settled' \/ Owed(i)'
    BY <2>1, LogSame DEF DoubtInv
  <2>3. at' = "hookSettle" /\ doubt' = "unknown" =>
          \E i \in At(log', "hook") : Owed(i)' /\ log'[i].evidence = "unknown"
    BY <2>1 DEF DoubtInv
  <2>4. at' = "hookSettle" => outcome' \in {"error", "interrupted"} BY DEF DoubtInv
  <2>5. QED BY <2>2, <2>3, <2>4, LogSame DEF DoubtInv
<1>4. asked' \subseteq Kept'
  <2>1. asked \subseteq Kept BY DEF RequestInv, OwnersInv
  <2>2. ids \in Nat BY DEF TypeInv
  <2>3. Kept \subseteq Kept' BY <2>2, UpToGrows DEF Kept
  <2>4. QED BY <2>1, <2>3
<1>5. OwnersInv'
  <2>1. OwnedOnce' BY LogSame DEF RequestInv, OwnersInv, OwnedOnce
  <2>2. \A q : Owners(q)' # {} => q \in asked' BY LogSame DEF RequestInv, OwnersInv
  <2>3. QED BY <1>4, <2>1, <2>2 DEF OwnersInv
<1>6. QED BY <1>1, <1>2, <1>3, <1>5 DEF RequestInv

(* The request source keeps the invariant. *)
LEMMA SourceKeeps == ASSUME TypeInv, EffectsInv, Source PROVE EffectsInv'
<1>. USE DEF EffectsInv
<1>1. PlaceInv'
  BY PendingIs
         DEF Source, Goto, Finish, durableVars, registerVars, roundVars, hookVars,
             answerVars, worldVars, TypeInv, TypeOK, PlaceInv, EffectPlaced,
             BeforeOutput, InBatch
<1>2. RequestPlaced'
  <2>1. /\ request = NoRequest /\ effect = NoEffect /\ request' = request /\ effect' = effect
        /\ asked' = asked /\ ids \in Nat \ {0} /\ NoEffect.kind = "none"
    BY DEF Source, registerVars, worldVars, PlaceInv, EffectPlaced, RequestInv, RequestPlaced, TypeInv, NoEffect
  <2>2. ids \notin asked BY <2>1 DEF RequestInv, OwnersInv, Kept
  <2>3. CASE at' = "finish" BY <2>1, <2>3 DEF RequestPlaced, BeforeOutput
  <2>4. CASE at' = "requestHooks" /\ ask' = ids /\ ids' = ids + 1
    <3>1. ids \in Kept' BY <2>1, <2>4 DEF Kept
    <3>2. QED BY <2>1, <2>2, <2>4, <3>1 DEF RequestPlaced, BeforeOutput
  <2>5. QED BY <2>3, <2>4 DEF Source, Finish, Goto
<1>3. \A i : Owed(i) => Owed(i)'
  BY
         DEF Source, Goto, Finish, durableVars, registerVars, roundVars, hookVars,
             answerVars, worldVars, Owed, PlaceInv, InBatch, Lost
<1>4. /\ \A c \in Call :
            /\ runs'[c] <= 1
            /\ runs'[c] > 0 \/ c \in acted' =>
                  \/ runs[c] > 0 \/ c \in acted
                  \/ effect'.kind = "tool" /\ effect'.call = c /\ at' = "executing"
      /\ \A c \in Call : effect.kind = "tool" /\ effect.call = c /\ at \in {"executing"} \cup Lost =>
                          effect'.kind = "tool" /\ effect'.call = c /\ at' \in {"executing"} \cup Lost
  BY TurnIs
         DEF Source, Goto, Finish, durableVars, registerVars, roundVars, hookVars,
             answerVars, worldVars, PlaceInv, EffectPlaced, StartInv, InBatch, Lost
<1>5. /\ UNCHANGED <<log, pending, asked>> /\ ids' \in Nat /\ ids <= ids' /\ effect' = effect
      /\ at' = "hookSettle" => at = "hookSettle" /\ UNCHANGED <<effect, outcome, doubt>>
  BY
         DEF Source, Goto, Finish, durableVars, registerVars, roundVars, hookVars,
             answerVars, worldVars, TypeInv
<1>6. UNCHANGED <<log, pending>> /\ asked' = asked /\ ids' \in Nat /\ ids <= ids'
  BY <1>5
<1>10. effect' = effect \/ (effect.kind # "model" /\ effect'.kind # "model")
  BY <1>5
<1>7. at' = "hookSettle" => at = "hookSettle" /\ UNCHANGED <<effect, outcome, doubt>> BY <1>5
<1>8. \A c \in Call : /\ runs'[c] <= 1
                      /\ runs'[c] > 0 \/ c \in acted' =>
                            \/ runs[c] > 0 \/ c \in acted
                            \/ effect'.kind = "tool" /\ effect'.call = c /\ at' = "executing"
  BY <1>4
<1>9. \A c \in Call : effect.kind = "tool" /\ effect.call = c /\ at \in {"executing"} \cup Lost =>
                         effect'.kind = "tool" /\ effect'.call = c /\ at' \in {"executing"} \cup Lost
  BY <1>4
<1>11. QED BY <1>1, <1>2, <1>3, <1>6, <1>10, <1>7, <1>8, <1>9, StillKeeps

(* The dispatch of one call keeps the invariant. *)
LEMMA DispatchKeeps == ASSUME TypeInv, EffectsInv, Dispatch PROVE EffectsInv'
<1>. USE DEF EffectsInv
<1>1. PlaceInv'
  BY PendingIs
         DEF Dispatch, Goto, Finish, durableVars, registerVars, roundVars, hookVars,
             answerVars, worldVars, TypeInv, TypeOK, PlaceInv, EffectPlaced,
             BeforeOutput, InBatch
<1>2. RequestPlaced'
  <2>1. UNCHANGED <<request, effect, pending, asked>> BY DEF Dispatch, durableVars, registerVars, worldVars
  <2>2. effect = NoEffect /\ NoEffect.kind = "none" BY DEF Dispatch, PlaceInv, EffectPlaced, NoEffect
  <2>3. at' = "loop" => request = NoRequest
    BY PendingIs DEF Dispatch, Goto, Finish, PlaceInv, InBatch, RequestInv, RequestPlaced
  <2>4. QED BY <2>1, <2>2, <2>3 DEF Dispatch, Goto, Finish, RequestPlaced, BeforeOutput
<1>3. \A i : Owed(i) => Owed(i)'
  BY
         DEF Dispatch, Goto, Finish, durableVars, registerVars, roundVars, hookVars,
             answerVars, worldVars, Owed, PlaceInv, InBatch, Lost
<1>4. /\ \A c \in Call :
            /\ runs'[c] <= 1
            /\ runs'[c] > 0 \/ c \in acted' =>
                  \/ runs[c] > 0 \/ c \in acted
                  \/ effect'.kind = "tool" /\ effect'.call = c /\ at' = "executing"
      /\ \A c \in Call : effect.kind = "tool" /\ effect.call = c /\ at \in {"executing"} \cup Lost =>
                          effect'.kind = "tool" /\ effect'.call = c /\ at' \in {"executing"} \cup Lost
  BY TurnIs
         DEF Dispatch, Goto, Finish, durableVars, registerVars, roundVars, hookVars,
             answerVars, worldVars, PlaceInv, EffectPlaced, StartInv, InBatch, Lost
<1>5. /\ UNCHANGED <<log, pending, asked>> /\ ids' \in Nat /\ ids <= ids' /\ effect' = effect
      /\ at' = "hookSettle" => at = "hookSettle" /\ UNCHANGED <<effect, outcome, doubt>>
  BY
         DEF Dispatch, Goto, Finish, durableVars, registerVars, roundVars, hookVars,
             answerVars, worldVars, TypeInv
<1>6. UNCHANGED <<log, pending>> /\ asked' = asked /\ ids' \in Nat /\ ids <= ids'
  BY <1>5
<1>10. effect' = effect \/ (effect.kind # "model" /\ effect'.kind # "model")
  BY <1>5
<1>7. at' = "hookSettle" => at = "hookSettle" /\ UNCHANGED <<effect, outcome, doubt>> BY <1>5
<1>8. \A c \in Call : /\ runs'[c] <= 1
                      /\ runs'[c] > 0 \/ c \in acted' =>
                            \/ runs[c] > 0 \/ c \in acted
                            \/ effect'.kind = "tool" /\ effect'.call = c /\ at' = "executing"
  BY <1>4
<1>9. \A c \in Call : effect.kind = "tool" /\ effect.call = c /\ at \in {"executing"} \cup Lost =>
                         effect'.kind = "tool" /\ effect'.call = c /\ at' \in {"executing"} \cup Lost
  BY <1>4
<1>11. QED BY <1>1, <1>2, <1>3, <1>6, <1>10, <1>7, <1>8, <1>9, StillKeeps

(* The loop head keeps the invariant. *)
LEMMA LoopKeeps == ASSUME TypeInv, EffectsInv, Loop PROVE EffectsInv'
<1>. USE DEF EffectsInv
<1>1. PlaceInv'
  BY PendingIs
         DEF Loop, Goto, Finish, durableVars, registerVars, roundVars, hookVars,
             answerVars, worldVars, TypeInv, TypeOK, PlaceInv, EffectPlaced,
             BeforeOutput, InBatch
<1>2. RequestPlaced'
  BY
         DEF Loop, Goto, Finish, durableVars, registerVars, roundVars, hookVars,
             answerVars, worldVars, TypeInv, TypeOK, PlaceInv, EffectPlaced, RequestInv,
             RequestPlaced, OwnersInv, Kept, BeforeOutput, InBatch, Lost
<1>3. \A i : Owed(i) => Owed(i)'
  BY
         DEF Loop, Goto, Finish, durableVars, registerVars, roundVars, hookVars,
             answerVars, worldVars, Owed, PlaceInv, InBatch, Lost
<1>4. /\ \A c \in Call :
            /\ runs'[c] <= 1
            /\ runs'[c] > 0 \/ c \in acted' =>
                  \/ runs[c] > 0 \/ c \in acted
                  \/ effect'.kind = "tool" /\ effect'.call = c /\ at' = "executing"
      /\ \A c \in Call : effect.kind = "tool" /\ effect.call = c /\ at \in {"executing"} \cup Lost =>
                          effect'.kind = "tool" /\ effect'.call = c /\ at' \in {"executing"} \cup Lost
  BY TurnIs
         DEF Loop, Goto, Finish, durableVars, registerVars, roundVars, hookVars,
             answerVars, worldVars, PlaceInv, EffectPlaced, StartInv, InBatch, Lost
<1>5. /\ UNCHANGED <<log, pending, asked>> /\ ids' \in Nat /\ ids <= ids' /\ effect' = effect
      /\ at' = "hookSettle" => at = "hookSettle" /\ UNCHANGED <<effect, outcome, doubt>>
  BY
         DEF Loop, Goto, Finish, durableVars, registerVars, roundVars, hookVars,
             answerVars, worldVars, TypeInv
<1>6. UNCHANGED <<log, pending>> /\ asked' = asked /\ ids' \in Nat /\ ids <= ids'
  BY <1>5
<1>10. effect' = effect \/ (effect.kind # "model" /\ effect'.kind # "model")
  BY <1>5
<1>7. at' = "hookSettle" => at = "hookSettle" /\ UNCHANGED <<effect, outcome, doubt>> BY <1>5
<1>8. \A c \in Call : /\ runs'[c] <= 1
                      /\ runs'[c] > 0 \/ c \in acted' =>
                            \/ runs[c] > 0 \/ c \in acted
                            \/ effect'.kind = "tool" /\ effect'.call = c /\ at' = "executing"
  BY <1>4
<1>9. \A c \in Call : effect.kind = "tool" /\ effect.call = c /\ at \in {"executing"} \cup Lost =>
                         effect'.kind = "tool" /\ effect'.call = c /\ at' \in {"executing"} \cup Lost
  BY <1>4
<1>11. QED BY <1>1, <1>2, <1>3, <1>6, <1>10, <1>7, <1>8, <1>9, StillKeeps

(* The checks before the model effect keeps the invariant. *)
LEMMA RoundKeeps == ASSUME TypeInv, EffectsInv, Round PROVE EffectsInv'
<1>. USE DEF EffectsInv
<1>1. PlaceInv'
  BY PendingIs
         DEF Round, Goto, Finish, durableVars, registerVars, roundVars, hookVars,
             answerVars, worldVars, TypeInv, TypeOK, PlaceInv, EffectPlaced,
             BeforeOutput, InBatch
<1>2. RequestPlaced'
  BY
         DEF Round, Goto, Finish, durableVars, registerVars, roundVars, hookVars,
             answerVars, worldVars, TypeInv, TypeOK, PlaceInv, EffectPlaced, RequestInv,
             RequestPlaced, OwnersInv, Kept, BeforeOutput, InBatch, Lost
<1>3. \A i : Owed(i) => Owed(i)'
  BY
         DEF Round, Goto, Finish, durableVars, registerVars, roundVars, hookVars,
             answerVars, worldVars, Owed, PlaceInv, InBatch, Lost
<1>4. /\ \A c \in Call :
            /\ runs'[c] <= 1
            /\ runs'[c] > 0 \/ c \in acted' =>
                  \/ runs[c] > 0 \/ c \in acted
                  \/ effect'.kind = "tool" /\ effect'.call = c /\ at' = "executing"
      /\ \A c \in Call : effect.kind = "tool" /\ effect.call = c /\ at \in {"executing"} \cup Lost =>
                          effect'.kind = "tool" /\ effect'.call = c /\ at' \in {"executing"} \cup Lost
  BY TurnIs
         DEF Round, Goto, Finish, durableVars, registerVars, roundVars, hookVars,
             answerVars, worldVars, PlaceInv, EffectPlaced, StartInv, InBatch, Lost
<1>5. /\ UNCHANGED <<log, pending, asked>> /\ ids' \in Nat /\ ids <= ids' /\ effect' = effect
      /\ at' = "hookSettle" => at = "hookSettle" /\ UNCHANGED <<effect, outcome, doubt>>
  BY
         DEF Round, Goto, Finish, durableVars, registerVars, roundVars, hookVars,
             answerVars, worldVars, TypeInv
<1>6. UNCHANGED <<log, pending>> /\ asked' = asked /\ ids' \in Nat /\ ids <= ids'
  BY <1>5
<1>10. effect' = effect \/ (effect.kind # "model" /\ effect'.kind # "model")
  BY <1>5
<1>7. at' = "hookSettle" => at = "hookSettle" /\ UNCHANGED <<effect, outcome, doubt>> BY <1>5
<1>8. \A c \in Call : /\ runs'[c] <= 1
                      /\ runs'[c] > 0 \/ c \in acted' =>
                            \/ runs[c] > 0 \/ c \in acted
                            \/ effect'.kind = "tool" /\ effect'.call = c /\ at' = "executing"
  BY <1>4
<1>9. \A c \in Call : effect.kind = "tool" /\ effect.call = c /\ at \in {"executing"} \cup Lost =>
                         effect'.kind = "tool" /\ effect'.call = c /\ at' \in {"executing"} \cup Lost
  BY <1>4
<1>11. QED BY <1>1, <1>2, <1>3, <1>6, <1>10, <1>7, <1>8, <1>9, StillKeeps

(* The executor's action keeps the invariant. *)
LEMMA ActKeeps == ASSUME TypeInv, EffectsInv, Act PROVE EffectsInv'
<1>. USE DEF EffectsInv
<1>1. PlaceInv'
  BY PendingIs
         DEF Act, Goto, Finish, durableVars, registerVars, roundVars, hookVars,
             answerVars, worldVars, TypeInv, TypeOK, PlaceInv, EffectPlaced,
             BeforeOutput, InBatch
<1>2. RequestPlaced'
  BY
         DEF Act, Goto, Finish, durableVars, registerVars, roundVars, hookVars,
             answerVars, worldVars, TypeInv, TypeOK, PlaceInv, EffectPlaced, RequestInv,
             RequestPlaced, OwnersInv, Kept, BeforeOutput, InBatch, Lost
<1>3. \A i : Owed(i) => Owed(i)'
  BY
         DEF Act, Goto, Finish, durableVars, registerVars, roundVars, hookVars,
             answerVars, worldVars, Owed, PlaceInv, InBatch, Lost
<1>4. /\ \A c \in Call :
            /\ runs'[c] <= 1
            /\ runs'[c] > 0 \/ c \in acted' =>
                  \/ runs[c] > 0 \/ c \in acted
                  \/ effect'.kind = "tool" /\ effect'.call = c /\ at' = "executing"
      /\ \A c \in Call : effect.kind = "tool" /\ effect.call = c /\ at \in {"executing"} \cup Lost =>
                          effect'.kind = "tool" /\ effect'.call = c /\ at' \in {"executing"} \cup Lost
  BY TurnIs
         DEF Act, Goto, Finish, durableVars, registerVars, roundVars, hookVars,
             answerVars, worldVars, PlaceInv, EffectPlaced, StartInv, InBatch, Lost
<1>5. /\ UNCHANGED <<log, pending, asked>> /\ ids' \in Nat /\ ids <= ids' /\ effect' = effect
      /\ at' = "hookSettle" => at = "hookSettle" /\ UNCHANGED <<effect, outcome, doubt>>
  BY
         DEF Act, Goto, Finish, durableVars, registerVars, roundVars, hookVars,
             answerVars, worldVars, TypeInv
<1>6. UNCHANGED <<log, pending>> /\ asked' = asked /\ ids' \in Nat /\ ids <= ids'
  BY <1>5
<1>10. effect' = effect \/ (effect.kind # "model" /\ effect'.kind # "model")
  BY <1>5
<1>7. at' = "hookSettle" => at = "hookSettle" /\ UNCHANGED <<effect, outcome, doubt>> BY <1>5
<1>8. \A c \in Call : /\ runs'[c] <= 1
                      /\ runs'[c] > 0 \/ c \in acted' =>
                            \/ runs[c] > 0 \/ c \in acted
                            \/ effect'.kind = "tool" /\ effect'.call = c /\ at' = "executing"
  BY <1>4
<1>9. \A c \in Call : effect.kind = "tool" /\ effect.call = c /\ at \in {"executing"} \cup Lost =>
                         effect'.kind = "tool" /\ effect'.call = c /\ at' \in {"executing"} \cup Lost
  BY <1>4
<1>11. QED BY <1>1, <1>2, <1>3, <1>6, <1>10, <1>7, <1>8, <1>9, StillKeeps

(* A publication failure keeps the invariant. *)
LEMMA PublicationFailsKeeps == ASSUME TypeInv, EffectsInv, PublicationFails PROVE EffectsInv'
<1>. USE DEF EffectsInv
<1>1. PlaceInv'
  BY PendingIs
         DEF PublicationFails, Publishing, Goto, Finish, durableVars, registerVars,
             roundVars, hookVars, answerVars, worldVars, TypeInv, TypeOK, PlaceInv,
             EffectPlaced, BeforeOutput, InBatch
<1>2. RequestPlaced'
  BY
         DEF PublicationFails, Publishing, Goto, Finish, durableVars, registerVars,
             roundVars, hookVars, answerVars, worldVars, TypeInv, TypeOK, PlaceInv,
             EffectPlaced, RequestInv, RequestPlaced, OwnersInv, Kept, BeforeOutput,
             InBatch, Lost
<1>3. \A i : Owed(i) => Owed(i)'
  BY
         DEF PublicationFails, Publishing, Goto, Finish, durableVars, registerVars,
             roundVars, hookVars, answerVars, worldVars, Owed, PlaceInv, InBatch, Lost
<1>4. /\ \A c \in Call :
            /\ runs'[c] <= 1
            /\ runs'[c] > 0 \/ c \in acted' =>
                  \/ runs[c] > 0 \/ c \in acted
                  \/ effect'.kind = "tool" /\ effect'.call = c /\ at' = "executing"
      /\ \A c \in Call : effect.kind = "tool" /\ effect.call = c /\ at \in {"executing"} \cup Lost =>
                          effect'.kind = "tool" /\ effect'.call = c /\ at' \in {"executing"} \cup Lost
  BY TurnIs
         DEF PublicationFails, Publishing, Goto, Finish, durableVars, registerVars,
             roundVars, hookVars, answerVars, worldVars, PlaceInv, EffectPlaced,
             StartInv, InBatch, Lost
<1>5. /\ UNCHANGED <<log, pending, asked>> /\ ids' \in Nat /\ ids <= ids' /\ effect' = effect
      /\ at' = "hookSettle" => at = "hookSettle" /\ UNCHANGED <<effect, outcome, doubt>>
  BY
         DEF PublicationFails, Publishing, Goto, Finish, durableVars, registerVars,
             roundVars, hookVars, answerVars, worldVars, TypeInv
<1>6. UNCHANGED <<log, pending>> /\ asked' = asked /\ ids' \in Nat /\ ids <= ids'
  BY <1>5
<1>10. effect' = effect \/ (effect.kind # "model" /\ effect'.kind # "model")
  BY <1>5
<1>7. at' = "hookSettle" => at = "hookSettle" /\ UNCHANGED <<effect, outcome, doubt>> BY <1>5
<1>8. \A c \in Call : /\ runs'[c] <= 1
                      /\ runs'[c] > 0 \/ c \in acted' =>
                            \/ runs[c] > 0 \/ c \in acted
                            \/ effect'.kind = "tool" /\ effect'.call = c /\ at' = "executing"
  BY <1>4
<1>9. \A c \in Call : effect.kind = "tool" /\ effect.call = c /\ at \in {"executing"} \cup Lost =>
                         effect'.kind = "tool" /\ effect'.call = c /\ at' \in {"executing"} \cup Lost
  BY <1>4
<1>11. QED BY <1>1, <1>2, <1>3, <1>6, <1>10, <1>7, <1>8, <1>9, StillKeeps

(* A cancellation keeps the invariant. *)
LEMMA CancelKeeps == ASSUME TypeInv, EffectsInv, Cancel PROVE EffectsInv'
<1>. USE DEF EffectsInv
<1>1. PlaceInv'
  BY PendingIs
         DEF Cancel, Goto, Finish, durableVars, registerVars, roundVars, hookVars,
             answerVars, worldVars, TypeInv, TypeOK, PlaceInv, EffectPlaced,
             BeforeOutput, InBatch
<1>2. RequestPlaced'
  BY
         DEF Cancel, Goto, Finish, durableVars, registerVars, roundVars, hookVars,
             answerVars, worldVars, TypeInv, TypeOK, PlaceInv, EffectPlaced, RequestInv,
             RequestPlaced, OwnersInv, Kept, BeforeOutput, InBatch, Lost
<1>3. \A i : Owed(i) => Owed(i)'
  BY
         DEF Cancel, Goto, Finish, durableVars, registerVars, roundVars, hookVars,
             answerVars, worldVars, Owed, PlaceInv, InBatch, Lost
<1>4. /\ \A c \in Call :
            /\ runs'[c] <= 1
            /\ runs'[c] > 0 \/ c \in acted' =>
                  \/ runs[c] > 0 \/ c \in acted
                  \/ effect'.kind = "tool" /\ effect'.call = c /\ at' = "executing"
      /\ \A c \in Call : effect.kind = "tool" /\ effect.call = c /\ at \in {"executing"} \cup Lost =>
                          effect'.kind = "tool" /\ effect'.call = c /\ at' \in {"executing"} \cup Lost
  BY TurnIs
         DEF Cancel, Goto, Finish, durableVars, registerVars, roundVars, hookVars,
             answerVars, worldVars, PlaceInv, EffectPlaced, StartInv, InBatch, Lost
<1>5. /\ UNCHANGED <<log, pending, asked>> /\ ids' \in Nat /\ ids <= ids' /\ effect' = effect
      /\ at' = "hookSettle" => at = "hookSettle" /\ UNCHANGED <<effect, outcome, doubt>>
  BY
         DEF Cancel, Goto, Finish, durableVars, registerVars, roundVars, hookVars,
             answerVars, worldVars, TypeInv
<1>6. UNCHANGED <<log, pending>> /\ asked' = asked /\ ids' \in Nat /\ ids <= ids'
  BY <1>5
<1>10. effect' = effect \/ (effect.kind # "model" /\ effect'.kind # "model")
  BY <1>5
<1>7. at' = "hookSettle" => at = "hookSettle" /\ UNCHANGED <<effect, outcome, doubt>> BY <1>5
<1>8. \A c \in Call : /\ runs'[c] <= 1
                      /\ runs'[c] > 0 \/ c \in acted' =>
                            \/ runs[c] > 0 \/ c \in acted
                            \/ effect'.kind = "tool" /\ effect'.call = c /\ at' = "executing"
  BY <1>4
<1>9. \A c \in Call : effect.kind = "tool" /\ effect.call = c /\ at \in {"executing"} \cup Lost =>
                         effect'.kind = "tool" /\ effect'.call = c /\ at' \in {"executing"} \cup Lost
  BY <1>4
<1>11. QED BY <1>1, <1>2, <1>3, <1>6, <1>10, <1>7, <1>8, <1>9, StillKeeps

(* The loss of the process keeps the invariant. *)
LEMMA CrashKeeps == ASSUME TypeInv, EffectsInv, Crash PROVE EffectsInv'
<1>. USE DEF EffectsInv
<1>1. PlaceInv'
  BY PendingIs
         DEF Crash, Goto, Finish, durableVars, registerVars, roundVars, hookVars,
             answerVars, worldVars, TypeInv, TypeOK, PlaceInv, EffectPlaced,
             BeforeOutput, InBatch
<1>2. RequestPlaced'
  BY
         DEF Crash, Goto, Finish, durableVars, registerVars, roundVars, hookVars,
             answerVars, worldVars, TypeInv, TypeOK, PlaceInv, EffectPlaced, RequestInv,
             RequestPlaced, OwnersInv, Kept, BeforeOutput, InBatch, Lost
<1>3. \A i : Owed(i) => Owed(i)'
  BY
         DEF Crash, Goto, Finish, durableVars, registerVars, roundVars, hookVars,
             answerVars, worldVars, Owed, PlaceInv, InBatch, Lost
<1>4. /\ \A c \in Call :
            /\ runs'[c] <= 1
            /\ runs'[c] > 0 \/ c \in acted' =>
                  \/ runs[c] > 0 \/ c \in acted
                  \/ effect'.kind = "tool" /\ effect'.call = c /\ at' = "executing"
      /\ \A c \in Call : effect.kind = "tool" /\ effect.call = c /\ at \in {"executing"} \cup Lost =>
                          effect'.kind = "tool" /\ effect'.call = c /\ at' \in {"executing"} \cup Lost
  BY TurnIs
         DEF Crash, Goto, Finish, durableVars, registerVars, roundVars, hookVars,
             answerVars, worldVars, PlaceInv, EffectPlaced, StartInv, InBatch, Lost
<1>5. /\ UNCHANGED <<log, pending, asked>> /\ ids' \in Nat /\ ids <= ids' /\ effect' = effect
      /\ at' = "hookSettle" => at = "hookSettle" /\ UNCHANGED <<effect, outcome, doubt>>
  BY
         DEF Crash, Goto, Finish, durableVars, registerVars, roundVars, hookVars,
             answerVars, worldVars, TypeInv
<1>6. UNCHANGED <<log, pending>> /\ asked' = asked /\ ids' \in Nat /\ ids <= ids'
  BY <1>5
<1>10. effect' = effect \/ (effect.kind # "model" /\ effect'.kind # "model")
  BY <1>5
<1>7. at' = "hookSettle" => at = "hookSettle" /\ UNCHANGED <<effect, outcome, doubt>> BY <1>5
<1>8. \A c \in Call : /\ runs'[c] <= 1
                      /\ runs'[c] > 0 \/ c \in acted' =>
                            \/ runs[c] > 0 \/ c \in acted
                            \/ effect'.kind = "tool" /\ effect'.call = c /\ at' = "executing"
  BY <1>4
<1>9. \A c \in Call : effect.kind = "tool" /\ effect.call = c /\ at \in {"executing"} \cup Lost =>
                         effect'.kind = "tool" /\ effect'.call = c /\ at' \in {"executing"} \cup Lost
  BY <1>4
<1>11. QED BY <1>1, <1>2, <1>3, <1>6, <1>10, <1>7, <1>8, <1>9, StillKeeps

(* The next request hook keeps the invariant. *)
LEMMA NextRequestHookKeeps == ASSUME TypeInv, EffectsInv, NextRequestHook PROVE EffectsInv'
<1>. USE DEF EffectsInv
<1>1. CASE at' = "round" /\ UNCHANGED <<durableVars, hookVars, answerVars>>
  <2>1. PlaceInv'
    BY <1>1, PendingIs
           DEF NextRequestHook, Goto, Finish, durableVars, registerVars, roundVars,
               hookVars, answerVars, worldVars, TypeInv, TypeOK, PlaceInv, EffectPlaced,
               BeforeOutput, InBatch, NoEffect
  <2>2. RequestPlaced'
    BY <1>1
           DEF NextRequestHook, Goto, Finish, durableVars, registerVars, roundVars,
               hookVars, answerVars, worldVars, TypeInv, TypeOK, PlaceInv, EffectPlaced,
               RequestInv, RequestPlaced, OwnersInv, Kept, BeforeOutput, InBatch, Lost,
               NoEffect, NoRequest
  <2>3. \A i : Owed(i) => Owed(i)'
    BY <1>1
           DEF NextRequestHook, Goto, Finish, durableVars, registerVars, roundVars,
               hookVars, answerVars, worldVars, Owed, PlaceInv, InBatch, Lost,
               EffectPlaced
  <2>4. \A c \in Call : /\ runs'[c] <= 1
                        /\ runs'[c] > 0 \/ c \in acted' =>
                              \/ runs[c] > 0 \/ c \in acted
                              \/ effect'.kind = "tool" /\ effect'.call = c /\ at' = "executing"
    BY <1>1, TurnIs
           DEF NextRequestHook, Goto, Finish, durableVars, registerVars, roundVars,
               hookVars, answerVars, worldVars, TypeInv, TypeOK, PlaceInv, EffectPlaced,
               StartInv, CallInv, InBatch, Lost
  <2>5. \A c \in Call : effect.kind = "tool" /\ effect.call = c /\ at \in {"executing"} \cup Lost =>
                           effect'.kind = "tool" /\ effect'.call = c /\ at' \in {"executing"} \cup Lost
    BY <1>1
           DEF NextRequestHook, Goto, Finish, durableVars, registerVars, roundVars,
               hookVars, answerVars, worldVars, PlaceInv, EffectPlaced, Lost, NoEffect
  <2>6. UNCHANGED <<log, pending>> /\ asked' = asked /\ ids' \in Nat /\ ids <= ids'
    BY <1>1
           DEF NextRequestHook, Goto, Finish, durableVars, registerVars, roundVars,
               hookVars, answerVars, worldVars, TypeInv
  <2>7. effect' = effect \/ (effect.kind # "model" /\ effect'.kind # "model")
    BY <1>1
           DEF NextRequestHook, Goto, Finish, durableVars, registerVars, roundVars,
               hookVars, answerVars, worldVars, PlaceInv, EffectPlaced, NoEffect
  <2>8. at' = "hookSettle" => at = "hookSettle" /\ UNCHANGED <<effect, outcome, doubt>>
    BY <1>1
           DEF NextRequestHook, Goto, Finish, durableVars, registerVars, roundVars,
               hookVars, answerVars, worldVars
  <2>9. QED BY <2>1, <2>2, <2>3, <2>4, <2>5, <2>6, <2>7, <2>8, StillKeeps
<1>2. CASE at' = "finish" /\ Finish(outcome') /\ outcome' \in Terminals /\ UNCHANGED <<durableVars, hookVars>>
  <2>1. PlaceInv'
    BY <1>2, PendingIs
           DEF NextRequestHook, Goto, Finish, durableVars, registerVars, roundVars,
               hookVars, answerVars, worldVars, TypeInv, TypeOK, PlaceInv, EffectPlaced,
               BeforeOutput, InBatch, NoEffect
  <2>2. RequestPlaced'
    BY <1>2
           DEF NextRequestHook, Goto, Finish, durableVars, registerVars, roundVars,
               hookVars, answerVars, worldVars, TypeInv, TypeOK, PlaceInv, EffectPlaced,
               RequestInv, RequestPlaced, OwnersInv, Kept, BeforeOutput, InBatch, Lost,
               NoEffect, NoRequest
  <2>3. \A i : Owed(i) => Owed(i)'
    BY <1>2
           DEF NextRequestHook, Goto, Finish, durableVars, registerVars, roundVars,
               hookVars, answerVars, worldVars, Owed, PlaceInv, InBatch, Lost,
               EffectPlaced
  <2>4. \A c \in Call : /\ runs'[c] <= 1
                        /\ runs'[c] > 0 \/ c \in acted' =>
                              \/ runs[c] > 0 \/ c \in acted
                              \/ effect'.kind = "tool" /\ effect'.call = c /\ at' = "executing"
    BY <1>2, TurnIs
           DEF NextRequestHook, Goto, Finish, durableVars, registerVars, roundVars,
               hookVars, answerVars, worldVars, TypeInv, TypeOK, PlaceInv, EffectPlaced,
               StartInv, CallInv, InBatch, Lost
  <2>5. \A c \in Call : effect.kind = "tool" /\ effect.call = c /\ at \in {"executing"} \cup Lost =>
                           effect'.kind = "tool" /\ effect'.call = c /\ at' \in {"executing"} \cup Lost
    BY <1>2
           DEF NextRequestHook, Goto, Finish, durableVars, registerVars, roundVars,
               hookVars, answerVars, worldVars, PlaceInv, EffectPlaced, Lost, NoEffect
  <2>6. UNCHANGED <<log, pending>> /\ asked' = asked /\ ids' \in Nat /\ ids <= ids'
    BY <1>2
           DEF NextRequestHook, Goto, Finish, durableVars, registerVars, roundVars,
               hookVars, answerVars, worldVars, TypeInv
  <2>7. effect' = effect \/ (effect.kind # "model" /\ effect'.kind # "model")
    BY <1>2
           DEF NextRequestHook, Goto, Finish, durableVars, registerVars, roundVars,
               hookVars, answerVars, worldVars, PlaceInv, EffectPlaced, NoEffect
  <2>8. at' = "hookSettle" => at = "hookSettle" /\ UNCHANGED <<effect, outcome, doubt>>
    BY <1>2
           DEF NextRequestHook, Goto, Finish, durableVars, registerVars, roundVars,
               hookVars, answerVars, worldVars
  <2>9. QED BY <2>1, <2>2, <2>3, <2>4, <2>5, <2>6, <2>7, <2>8, StillKeeps
<1>3. CASE UNCHANGED <<durableVars, at, answerVars>>
  <2>1. PlaceInv'
    BY <1>3, PendingIs
           DEF NextRequestHook, Goto, Finish, durableVars, registerVars, roundVars,
               hookVars, answerVars, worldVars, TypeInv, TypeOK, PlaceInv, EffectPlaced,
               BeforeOutput, InBatch, NoEffect
  <2>2. RequestPlaced'
    BY <1>3
           DEF NextRequestHook, Goto, Finish, durableVars, registerVars, roundVars,
               hookVars, answerVars, worldVars, TypeInv, TypeOK, PlaceInv, EffectPlaced,
               RequestInv, RequestPlaced, OwnersInv, Kept, BeforeOutput, InBatch, Lost,
               NoEffect, NoRequest
  <2>3. \A i : Owed(i) => Owed(i)'
    BY <1>3
           DEF NextRequestHook, Goto, Finish, durableVars, registerVars, roundVars,
               hookVars, answerVars, worldVars, Owed, PlaceInv, InBatch, Lost,
               EffectPlaced
  <2>4. \A c \in Call : /\ runs'[c] <= 1
                        /\ runs'[c] > 0 \/ c \in acted' =>
                              \/ runs[c] > 0 \/ c \in acted
                              \/ effect'.kind = "tool" /\ effect'.call = c /\ at' = "executing"
    BY <1>3, TurnIs
           DEF NextRequestHook, Goto, Finish, durableVars, registerVars, roundVars,
               hookVars, answerVars, worldVars, TypeInv, TypeOK, PlaceInv, EffectPlaced,
               StartInv, CallInv, InBatch, Lost
  <2>5. \A c \in Call : effect.kind = "tool" /\ effect.call = c /\ at \in {"executing"} \cup Lost =>
                           effect'.kind = "tool" /\ effect'.call = c /\ at' \in {"executing"} \cup Lost
    BY <1>3
           DEF NextRequestHook, Goto, Finish, durableVars, registerVars, roundVars,
               hookVars, answerVars, worldVars, PlaceInv, EffectPlaced, Lost, NoEffect
  <2>6. UNCHANGED <<log, pending>> /\ asked' = asked /\ ids' \in Nat /\ ids <= ids'
    BY <1>3
           DEF NextRequestHook, Goto, Finish, durableVars, registerVars, roundVars,
               hookVars, answerVars, worldVars, TypeInv
  <2>7. effect' = effect \/ (effect.kind # "model" /\ effect'.kind # "model")
    BY <1>3
           DEF NextRequestHook, Goto, Finish, durableVars, registerVars, roundVars,
               hookVars, answerVars, worldVars, PlaceInv, EffectPlaced, NoEffect
  <2>8. at' = "hookSettle" => at = "hookSettle" /\ UNCHANGED <<effect, outcome, doubt>>
    BY <1>3
           DEF NextRequestHook, Goto, Finish, durableVars, registerVars, roundVars,
               hookVars, answerVars, worldVars
  <2>9. QED BY <2>1, <2>2, <2>3, <2>4, <2>5, <2>6, <2>7, <2>8, StillKeeps
<1>4. CASE BeginRequestEffect("hook", hook) /\ Goto("requestGate") /\ UNCHANGED <<hookVars, answerVars>>
  <2>1. PlaceInv'
    BY <1>4, PendingIs
           DEF NextRequestHook, BeginRequestEffect, Goto, Finish, durableVars,
               registerVars, roundVars, hookVars, answerVars, worldVars, TypeInv,
               TypeOK, PlaceInv, EffectPlaced, BeforeOutput, InBatch, NoEffect
  <2>2. RequestPlaced'
    BY <1>4
           DEF NextRequestHook, BeginRequestEffect, Goto, Finish, durableVars,
               registerVars, roundVars, hookVars, answerVars, worldVars, TypeInv,
               TypeOK, PlaceInv, EffectPlaced, RequestInv, RequestPlaced, OwnersInv,
               Kept, BeforeOutput, InBatch, Lost, NoEffect, NoRequest
  <2>3. \A i : Owed(i) => Owed(i)'
    BY <1>4
           DEF NextRequestHook, BeginRequestEffect, Goto, Finish, durableVars,
               registerVars, roundVars, hookVars, answerVars, worldVars, Owed, PlaceInv,
               InBatch, Lost, EffectPlaced
  <2>4. \A c \in Call : /\ runs'[c] <= 1
                        /\ runs'[c] > 0 \/ c \in acted' =>
                              \/ runs[c] > 0 \/ c \in acted
                              \/ effect'.kind = "tool" /\ effect'.call = c /\ at' = "executing"
    BY <1>4, TurnIs
           DEF NextRequestHook, BeginRequestEffect, Goto, Finish, durableVars,
               registerVars, roundVars, hookVars, answerVars, worldVars, TypeInv,
               TypeOK, PlaceInv, EffectPlaced, StartInv, CallInv, InBatch, Lost
  <2>5. \A c \in Call : effect.kind = "tool" /\ effect.call = c /\ at \in {"executing"} \cup Lost =>
                           effect'.kind = "tool" /\ effect'.call = c /\ at' \in {"executing"} \cup Lost
    BY <1>4
           DEF NextRequestHook, BeginRequestEffect, Goto, Finish, durableVars,
               registerVars, roundVars, hookVars, answerVars, worldVars, PlaceInv,
               EffectPlaced, Lost, NoEffect
  <2>6. UNCHANGED <<log, pending>> /\ asked' = asked /\ ids' \in Nat /\ ids <= ids'
    BY <1>4
           DEF NextRequestHook, BeginRequestEffect, Goto, Finish, durableVars,
               registerVars, roundVars, hookVars, answerVars, worldVars, TypeInv
  <2>7. effect' = effect \/ (effect.kind # "model" /\ effect'.kind # "model")
    BY <1>4
           DEF NextRequestHook, BeginRequestEffect, Goto, Finish, durableVars,
               registerVars, roundVars, hookVars, answerVars, worldVars, PlaceInv,
               EffectPlaced, NoEffect
  <2>8. at' = "hookSettle" => at = "hookSettle" /\ UNCHANGED <<effect, outcome, doubt>>
    BY <1>4
           DEF NextRequestHook, BeginRequestEffect, Goto, Finish, durableVars,
               registerVars, roundVars, hookVars, answerVars, worldVars
  <2>9. QED BY <2>1, <2>2, <2>3, <2>4, <2>5, <2>6, <2>7, <2>8, StillKeeps
<1>5. QED BY <1>1, <1>2, <1>3, <1>4 DEF NextRequestHook, Goto, Finish, Terminals

(* The gate before a request hook's Run keeps the invariant. *)
LEMMA RequestHookGateKeeps == ASSUME TypeInv, EffectsInv, RequestHookGate PROVE EffectsInv'
<1>. USE DEF EffectsInv
<1>1. CASE Canceled
  <2>1. /\ CommitHook("interrupted", "not_started") /\ at' = "finish" /\ at = "requestGate"
        /\ UNCHANGED <<calls, runs, acted, asked, ask>> /\ "not_started" \in Evidence
    BY <1>1 DEF RequestHookGate, Finish, roundVars, worldVars, Evidence
  <2>2. QED BY <2>1, HookKeeps
<1>2. CASE ~Canceled
  <2>1. PlaceInv'
    BY <1>2, PendingIs
           DEF RequestHookGate, Goto, Finish, durableVars, registerVars, roundVars,
               hookVars, answerVars, worldVars, TypeInv, TypeOK, PlaceInv, EffectPlaced,
               BeforeOutput, InBatch, NoEffect
  <2>2. RequestPlaced'
    BY <1>2
           DEF RequestHookGate, Goto, Finish, durableVars, registerVars, roundVars,
               hookVars, answerVars, worldVars, TypeInv, TypeOK, PlaceInv, EffectPlaced,
               RequestInv, RequestPlaced, OwnersInv, Kept, BeforeOutput, InBatch, Lost,
               NoEffect, NoRequest
  <2>3. \A i : Owed(i) => Owed(i)'
    BY <1>2
           DEF RequestHookGate, Goto, Finish, durableVars, registerVars, roundVars,
               hookVars, answerVars, worldVars, Owed, PlaceInv, InBatch, Lost,
               EffectPlaced
  <2>4. \A c \in Call : /\ runs'[c] <= 1
                        /\ runs'[c] > 0 \/ c \in acted' =>
                              \/ runs[c] > 0 \/ c \in acted
                              \/ effect'.kind = "tool" /\ effect'.call = c /\ at' = "executing"
    BY <1>2, TurnIs
           DEF RequestHookGate, Goto, Finish, durableVars, registerVars, roundVars,
               hookVars, answerVars, worldVars, TypeInv, TypeOK, PlaceInv, EffectPlaced,
               StartInv, CallInv, InBatch, Lost
  <2>5. \A c \in Call : effect.kind = "tool" /\ effect.call = c /\ at \in {"executing"} \cup Lost =>
                           effect'.kind = "tool" /\ effect'.call = c /\ at' \in {"executing"} \cup Lost
    BY <1>2
           DEF RequestHookGate, Goto, Finish, durableVars, registerVars, roundVars,
               hookVars, answerVars, worldVars, PlaceInv, EffectPlaced, Lost, NoEffect
  <2>6. UNCHANGED <<log, pending>> /\ asked' = asked /\ ids' \in Nat /\ ids <= ids'
    BY <1>2
           DEF RequestHookGate, Goto, Finish, durableVars, registerVars, roundVars,
               hookVars, answerVars, worldVars, TypeInv
  <2>7. effect' = effect \/ (effect.kind # "model" /\ effect'.kind # "model")
    BY <1>2
           DEF RequestHookGate, Goto, Finish, durableVars, registerVars, roundVars,
               hookVars, answerVars, worldVars, PlaceInv, EffectPlaced, NoEffect
  <2>8. at' = "hookSettle" => at = "hookSettle" /\ UNCHANGED <<effect, outcome, doubt>>
    BY <1>2
           DEF RequestHookGate, Goto, Finish, durableVars, registerVars, roundVars,
               hookVars, answerVars, worldVars
  <2>9. QED BY <2>1, <2>2, <2>3, <2>4, <2>5, <2>6, <2>7, <2>8, StillKeeps
<1>3. QED BY <1>1, <1>2 DEF RequestHookGate

(* A request hook's return keeps the invariant. *)
LEMMA RequestHookReturnsKeeps == ASSUME TypeInv, EffectsInv, RequestHookReturns PROVE EffectsInv'
<1>. USE DEF EffectsInv
<1>1. CASE CommitHook("succeeded", "observed") /\ at' = "requestHooks"
  <2>1. /\ at = "requestRun" /\ UNCHANGED <<calls, runs, acted, asked, ask>> /\ "observed" \in Evidence
    BY <1>1 DEF RequestHookReturns, roundVars, worldVars, Evidence
  <2>2. QED BY <1>1, <2>1, HookKeeps
<1>2. ASSUME NEW s, NEW k \in Evidence, CommitHook(s, k), at' = "finish" PROVE EffectsInv'
  <2>1. at = "requestRun" /\ UNCHANGED <<calls, runs, acted, asked, ask>>
    BY <1>2 DEF RequestHookReturns, roundVars, worldVars
  <2>2. QED BY <1>2, <2>1, HookKeeps
<1>3. QED BY <1>1, <1>2 DEF RequestHookReturns, Goto, Finish

(* The check before a physical attempt keeps the invariant. *)
LEMMA AttemptKeeps == ASSUME TypeInv, EffectsInv, Attempt PROVE EffectsInv'
<1>. USE DEF EffectsInv
<1>1. CASE Canceled /\ Terminate("interruption", <<>>)
  <2>1. <<>> \in {<<>>, <<Partial>>} /\ at' = "finish" /\ UNCHANGED <<runs, acted, asked>>
    BY <1>1 DEF Attempt, Finish, worldVars
  <2>2. QED BY <1>1, <2>1, TerminateKeeps DEF Terminals
<1>2. CASE ~Canceled
  <2>1. PlaceInv'
    BY <1>2, PendingIs
           DEF Attempt, Goto, Finish, durableVars, registerVars, roundVars, hookVars,
               answerVars, worldVars, TypeInv, TypeOK, PlaceInv, EffectPlaced,
               BeforeOutput, InBatch, NoEffect
  <2>2. RequestPlaced'
    BY <1>2
           DEF Attempt, Goto, Finish, durableVars, registerVars, roundVars, hookVars,
               answerVars, worldVars, TypeInv, TypeOK, PlaceInv, EffectPlaced,
               RequestInv, RequestPlaced, OwnersInv, Kept, BeforeOutput, InBatch, Lost,
               NoEffect, NoRequest
  <2>3. \A i : Owed(i) => Owed(i)'
    BY <1>2
           DEF Attempt, Goto, Finish, durableVars, registerVars, roundVars, hookVars,
               answerVars, worldVars, Owed, PlaceInv, InBatch, Lost, EffectPlaced
  <2>4. \A c \in Call : /\ runs'[c] <= 1
                        /\ runs'[c] > 0 \/ c \in acted' =>
                              \/ runs[c] > 0 \/ c \in acted
                              \/ effect'.kind = "tool" /\ effect'.call = c /\ at' = "executing"
    BY <1>2, TurnIs
           DEF Attempt, Goto, Finish, durableVars, registerVars, roundVars, hookVars,
               answerVars, worldVars, TypeInv, TypeOK, PlaceInv, EffectPlaced, StartInv,
               CallInv, InBatch, Lost
  <2>5. \A c \in Call : effect.kind = "tool" /\ effect.call = c /\ at \in {"executing"} \cup Lost =>
                           effect'.kind = "tool" /\ effect'.call = c /\ at' \in {"executing"} \cup Lost
    BY <1>2
           DEF Attempt, Goto, Finish, durableVars, registerVars, roundVars, hookVars,
               answerVars, worldVars, PlaceInv, EffectPlaced, Lost, NoEffect
  <2>6. UNCHANGED <<log, pending>> /\ asked' = asked /\ ids' \in Nat /\ ids <= ids'
    BY <1>2
           DEF Attempt, Goto, Finish, durableVars, registerVars, roundVars, hookVars,
               answerVars, worldVars, TypeInv
  <2>7. effect' = effect \/ (effect.kind # "model" /\ effect'.kind # "model")
    BY <1>2
           DEF Attempt, Goto, Finish, durableVars, registerVars, roundVars, hookVars,
               answerVars, worldVars, PlaceInv, EffectPlaced, NoEffect
  <2>8. at' = "hookSettle" => at = "hookSettle" /\ UNCHANGED <<effect, outcome, doubt>>
    BY <1>2
           DEF Attempt, Goto, Finish, durableVars, registerVars, roundVars, hookVars,
               answerVars, worldVars
  <2>9. QED BY <2>1, <2>2, <2>3, <2>4, <2>5, <2>6, <2>7, <2>8, StillKeeps
<1>3. QED BY <1>1, <1>2 DEF Attempt

(* A failed attempt keeps the invariant. *)
LEMMA AttemptFailsKeeps == ASSUME TypeInv, EffectsInv, AttemptFails PROVE EffectsInv'
<1>. USE DEF EffectsInv
<1>1. ASSUME NEW s \in Terminals, Terminate(s, <<>>), at' = "finish" PROVE EffectsInv'
  <2>1. <<>> \in {<<>>, <<Partial>>} /\ at' = "finish" /\ UNCHANGED <<runs, acted, asked>>
    BY <1>1 DEF AttemptFails, Finish, worldVars
  <2>2. QED BY <1>1, <2>1, TerminateKeeps DEF Terminals
<1>2. CASE at' = "attempt" /\ UNCHANGED <<durableVars, answerVars>>
  <2>1. PlaceInv'
    BY <1>2, PendingIs
           DEF AttemptFails, Goto, Finish, durableVars, registerVars, roundVars,
               hookVars, answerVars, worldVars, TypeInv, TypeOK, PlaceInv, EffectPlaced,
               BeforeOutput, InBatch, NoEffect
  <2>2. RequestPlaced'
    BY <1>2
           DEF AttemptFails, Goto, Finish, durableVars, registerVars, roundVars,
               hookVars, answerVars, worldVars, TypeInv, TypeOK, PlaceInv, EffectPlaced,
               RequestInv, RequestPlaced, OwnersInv, Kept, BeforeOutput, InBatch, Lost,
               NoEffect, NoRequest
  <2>3. \A i : Owed(i) => Owed(i)'
    BY <1>2
           DEF AttemptFails, Goto, Finish, durableVars, registerVars, roundVars,
               hookVars, answerVars, worldVars, Owed, PlaceInv, InBatch, Lost,
               EffectPlaced
  <2>4. \A c \in Call : /\ runs'[c] <= 1
                        /\ runs'[c] > 0 \/ c \in acted' =>
                              \/ runs[c] > 0 \/ c \in acted
                              \/ effect'.kind = "tool" /\ effect'.call = c /\ at' = "executing"
    BY <1>2, TurnIs
           DEF AttemptFails, Goto, Finish, durableVars, registerVars, roundVars,
               hookVars, answerVars, worldVars, TypeInv, TypeOK, PlaceInv, EffectPlaced,
               StartInv, CallInv, InBatch, Lost
  <2>5. \A c \in Call : effect.kind = "tool" /\ effect.call = c /\ at \in {"executing"} \cup Lost =>
                           effect'.kind = "tool" /\ effect'.call = c /\ at' \in {"executing"} \cup Lost
    BY <1>2
           DEF AttemptFails, Goto, Finish, durableVars, registerVars, roundVars,
               hookVars, answerVars, worldVars, PlaceInv, EffectPlaced, Lost, NoEffect
  <2>6. UNCHANGED <<log, pending>> /\ asked' = asked /\ ids' \in Nat /\ ids <= ids'
    BY <1>2
           DEF AttemptFails, Goto, Finish, durableVars, registerVars, roundVars,
               hookVars, answerVars, worldVars, TypeInv
  <2>7. effect' = effect \/ (effect.kind # "model" /\ effect'.kind # "model")
    BY <1>2
           DEF AttemptFails, Goto, Finish, durableVars, registerVars, roundVars,
               hookVars, answerVars, worldVars, PlaceInv, EffectPlaced, NoEffect
  <2>8. at' = "hookSettle" => at = "hookSettle" /\ UNCHANGED <<effect, outcome, doubt>>
    BY <1>2
           DEF AttemptFails, Goto, Finish, durableVars, registerVars, roundVars,
               hookVars, answerVars, worldVars
  <2>9. QED BY <2>1, <2>2, <2>3, <2>4, <2>5, <2>6, <2>7, <2>8, StillKeeps
<1>3. QED BY <1>1, <1>2 DEF AttemptFails, Goto, Finish, Terminals

(* Recovery keeps the invariant. *)
LEMMA RecoverKeeps == ASSUME TypeInv, EffectsInv, Recover PROVE EffectsInv'
<1>. USE DEF EffectsInv
<1>1. CASE Recover
  <2>1. <<>> \in {<<>>, <<Partial>>} /\ at' \in Lost /\ UNCHANGED <<runs, acted, asked>>
    BY <1>1 DEF Recover, Lost, worldVars
  <2>2. QED BY <2>1, TerminateKeeps DEF Recover, Terminals
<1>2. QED BY <1>1 DEF Recover

(* The quiet gate keeps the invariant. *)
LEMMA CompleteKeeps == ASSUME TypeInv, EffectsInv, Complete PROVE EffectsInv'
<1>. USE DEF EffectsInv
<1>1. CASE Quiet
  <2>1. <<>> \in {<<>>, <<Partial>>} /\ at' \in Lost /\ Guarded(outcome) \in Terminals /\ Terminate(Guarded(outcome), <<>>) /\ UNCHANGED <<runs, acted, asked>>
    BY <1>1 DEF Complete, Goto, Lost, worldVars, TypeInv, Guarded, Terminals
  <2>2. QED BY <1>1, <2>1, TerminateKeeps DEF Terminals
<1>2. CASE ~Quiet
  <2>1. PlaceInv'
    BY <1>2, PendingIs
           DEF Complete, Goto, Finish, durableVars, registerVars, roundVars, hookVars,
               answerVars, worldVars, TypeInv, TypeOK, PlaceInv, EffectPlaced,
               BeforeOutput, InBatch, NoEffect
  <2>2. RequestPlaced'
    BY <1>2
           DEF Complete, Goto, Finish, durableVars, registerVars, roundVars, hookVars,
               answerVars, worldVars, TypeInv, TypeOK, PlaceInv, EffectPlaced,
               RequestInv, RequestPlaced, OwnersInv, Kept, BeforeOutput, InBatch, Lost,
               NoEffect, NoRequest
  <2>3. \A i : Owed(i) => Owed(i)'
    BY <1>2
           DEF Complete, Goto, Finish, durableVars, registerVars, roundVars, hookVars,
               answerVars, worldVars, Owed, PlaceInv, InBatch, Lost, EffectPlaced
  <2>4. \A c \in Call : /\ runs'[c] <= 1
                        /\ runs'[c] > 0 \/ c \in acted' =>
                              \/ runs[c] > 0 \/ c \in acted
                              \/ effect'.kind = "tool" /\ effect'.call = c /\ at' = "executing"
    BY <1>2, TurnIs
           DEF Complete, Goto, Finish, durableVars, registerVars, roundVars, hookVars,
               answerVars, worldVars, TypeInv, TypeOK, PlaceInv, EffectPlaced, StartInv,
               CallInv, InBatch, Lost
  <2>5. \A c \in Call : effect.kind = "tool" /\ effect.call = c /\ at \in {"executing"} \cup Lost =>
                           effect'.kind = "tool" /\ effect'.call = c /\ at' \in {"executing"} \cup Lost
    BY <1>2
           DEF Complete, Goto, Finish, durableVars, registerVars, roundVars, hookVars,
               answerVars, worldVars, PlaceInv, EffectPlaced, Lost, NoEffect
  <2>6. UNCHANGED <<log, pending>> /\ asked' = asked /\ ids' \in Nat /\ ids <= ids'
    BY <1>2
           DEF Complete, Goto, Finish, durableVars, registerVars, roundVars, hookVars,
               answerVars, worldVars, TypeInv
  <2>7. effect' = effect \/ (effect.kind # "model" /\ effect'.kind # "model")
    BY <1>2
           DEF Complete, Goto, Finish, durableVars, registerVars, roundVars, hookVars,
               answerVars, worldVars, PlaceInv, EffectPlaced, NoEffect
  <2>8. at' = "hookSettle" => at = "hookSettle" /\ UNCHANGED <<effect, outcome, doubt>>
    BY <1>2
           DEF Complete, Goto, Finish, durableVars, registerVars, roundVars, hookVars,
               answerVars, worldVars
  <2>9. QED BY <2>1, <2>2, <2>3, <2>4, <2>5, <2>6, <2>7, <2>8, StillKeeps
<1>3. QED BY <1>1, <1>2 DEF Complete

(* The entry of toolEffect keeps the invariant. *)
LEMMA ToolEntryKeeps == ASSUME TypeInv, EffectsInv, ToolEntry PROVE EffectsInv'
<1>. USE DEF EffectsInv
<1>1. ASSUME NEW s, NEW k \in Evidence, NEW sel, SettleCall(s, k, FALSE, sel) PROVE EffectsInv'
  <2>1. /\ at \in InBatch \ {"dispatch", "hookGate", "hookRun"} /\ at # "hookSettle"
        /\ UNCHANGED <<runs, acted, asked, ask>> /\ FALSE \in BOOLEAN
    BY <1>1 DEF ToolEntry, InBatch, roundVars, worldVars
  <2>2. QED BY <1>1, <2>1, AnswerKeeps
<1>2. CASE hook' = 1 /\ chain' = <<>> /\ Goto("argumentHooks") /\ UNCHANGED <<durableVars, calls, answerVars>>
  <2>1. PlaceInv'
    BY <1>2, PendingIs
           DEF ToolEntry, Goto, Finish, durableVars, registerVars, roundVars, hookVars,
               answerVars, worldVars, TypeInv, TypeOK, PlaceInv, EffectPlaced,
               BeforeOutput, InBatch, NoEffect
  <2>2. RequestPlaced'
    BY <1>2
           DEF ToolEntry, Goto, Finish, durableVars, registerVars, roundVars, hookVars,
               answerVars, worldVars, TypeInv, TypeOK, PlaceInv, EffectPlaced,
               RequestInv, RequestPlaced, OwnersInv, Kept, BeforeOutput, InBatch, Lost,
               NoEffect, NoRequest
  <2>3. \A i : Owed(i) => Owed(i)'
    BY <1>2
           DEF ToolEntry, Goto, Finish, durableVars, registerVars, roundVars, hookVars,
               answerVars, worldVars, Owed, PlaceInv, InBatch, Lost, EffectPlaced
  <2>4. \A c \in Call : /\ runs'[c] <= 1
                        /\ runs'[c] > 0 \/ c \in acted' =>
                              \/ runs[c] > 0 \/ c \in acted
                              \/ effect'.kind = "tool" /\ effect'.call = c /\ at' = "executing"
    BY <1>2, TurnIs
           DEF ToolEntry, Goto, Finish, durableVars, registerVars, roundVars, hookVars,
               answerVars, worldVars, TypeInv, TypeOK, PlaceInv, EffectPlaced, StartInv,
               CallInv, InBatch, Lost
  <2>5. \A c \in Call : effect.kind = "tool" /\ effect.call = c /\ at \in {"executing"} \cup Lost =>
                           effect'.kind = "tool" /\ effect'.call = c /\ at' \in {"executing"} \cup Lost
    BY <1>2
           DEF ToolEntry, Goto, Finish, durableVars, registerVars, roundVars, hookVars,
               answerVars, worldVars, PlaceInv, EffectPlaced, Lost, NoEffect
  <2>6. UNCHANGED <<log, pending>> /\ asked' = asked /\ ids' \in Nat /\ ids <= ids'
    BY <1>2
           DEF ToolEntry, Goto, Finish, durableVars, registerVars, roundVars, hookVars,
               answerVars, worldVars, TypeInv
  <2>7. effect' = effect \/ (effect.kind # "model" /\ effect'.kind # "model")
    BY <1>2
           DEF ToolEntry, Goto, Finish, durableVars, registerVars, roundVars, hookVars,
               answerVars, worldVars, PlaceInv, EffectPlaced, NoEffect
  <2>8. at' = "hookSettle" => at = "hookSettle" /\ UNCHANGED <<effect, outcome, doubt>>
    BY <1>2
           DEF ToolEntry, Goto, Finish, durableVars, registerVars, roundVars, hookVars,
               answerVars, worldVars
  <2>9. QED BY <2>1, <2>2, <2>3, <2>4, <2>5, <2>6, <2>7, <2>8, StillKeeps
<1>3. QED BY <1>1, <1>2 DEF ToolEntry, Evidence

(* The next argument hook keeps the invariant. *)
LEMMA NextArgumentHookKeeps == ASSUME TypeInv, EffectsInv, NextArgumentHook PROVE EffectsInv'
<1>. USE DEF EffectsInv
<1>1. ASSUME NEW s, NEW k \in Evidence, NEW sel, SettleCall(s, k, FALSE, sel) PROVE EffectsInv'
  <2>1. /\ at \in InBatch \ {"dispatch", "hookGate", "hookRun"} /\ at # "hookSettle"
        /\ UNCHANGED <<runs, acted, asked, ask>> /\ FALSE \in BOOLEAN
    BY <1>1 DEF NextArgumentHook, InBatch, roundVars, worldVars
  <2>2. QED BY <1>1, <2>1, AnswerKeeps
<1>2. CASE at' = "prepare" /\ UNCHANGED <<durableVars, calls, hookVars, answerVars>>
  <2>1. PlaceInv'
    BY <1>2, PendingIs
           DEF NextArgumentHook, Goto, Finish, durableVars, registerVars, roundVars,
               hookVars, answerVars, worldVars, TypeInv, TypeOK, PlaceInv, EffectPlaced,
               BeforeOutput, InBatch, NoEffect
  <2>2. RequestPlaced'
    BY <1>2
           DEF NextArgumentHook, Goto, Finish, durableVars, registerVars, roundVars,
               hookVars, answerVars, worldVars, TypeInv, TypeOK, PlaceInv, EffectPlaced,
               RequestInv, RequestPlaced, OwnersInv, Kept, BeforeOutput, InBatch, Lost,
               NoEffect, NoRequest
  <2>3. \A i : Owed(i) => Owed(i)'
    BY <1>2
           DEF NextArgumentHook, Goto, Finish, durableVars, registerVars, roundVars,
               hookVars, answerVars, worldVars, Owed, PlaceInv, InBatch, Lost,
               EffectPlaced
  <2>4. \A c \in Call : /\ runs'[c] <= 1
                        /\ runs'[c] > 0 \/ c \in acted' =>
                              \/ runs[c] > 0 \/ c \in acted
                              \/ effect'.kind = "tool" /\ effect'.call = c /\ at' = "executing"
    BY <1>2, TurnIs
           DEF NextArgumentHook, Goto, Finish, durableVars, registerVars, roundVars,
               hookVars, answerVars, worldVars, TypeInv, TypeOK, PlaceInv, EffectPlaced,
               StartInv, CallInv, InBatch, Lost
  <2>5. \A c \in Call : effect.kind = "tool" /\ effect.call = c /\ at \in {"executing"} \cup Lost =>
                           effect'.kind = "tool" /\ effect'.call = c /\ at' \in {"executing"} \cup Lost
    BY <1>2
           DEF NextArgumentHook, Goto, Finish, durableVars, registerVars, roundVars,
               hookVars, answerVars, worldVars, PlaceInv, EffectPlaced, Lost, NoEffect
  <2>6. UNCHANGED <<log, pending>> /\ asked' = asked /\ ids' \in Nat /\ ids <= ids'
    BY <1>2
           DEF NextArgumentHook, Goto, Finish, durableVars, registerVars, roundVars,
               hookVars, answerVars, worldVars, TypeInv
  <2>7. effect' = effect \/ (effect.kind # "model" /\ effect'.kind # "model")
    BY <1>2
           DEF NextArgumentHook, Goto, Finish, durableVars, registerVars, roundVars,
               hookVars, answerVars, worldVars, PlaceInv, EffectPlaced, NoEffect
  <2>8. at' = "hookSettle" => at = "hookSettle" /\ UNCHANGED <<effect, outcome, doubt>>
    BY <1>2
           DEF NextArgumentHook, Goto, Finish, durableVars, registerVars, roundVars,
               hookVars, answerVars, worldVars
  <2>9. QED BY <2>1, <2>2, <2>3, <2>4, <2>5, <2>6, <2>7, <2>8, StillKeeps
<1>3. CASE UNCHANGED <<durableVars, at, calls, answerVars>>
  <2>1. PlaceInv'
    BY <1>3, PendingIs
           DEF NextArgumentHook, Goto, Finish, durableVars, registerVars, roundVars,
               hookVars, answerVars, worldVars, TypeInv, TypeOK, PlaceInv, EffectPlaced,
               BeforeOutput, InBatch, NoEffect
  <2>2. RequestPlaced'
    BY <1>3
           DEF NextArgumentHook, Goto, Finish, durableVars, registerVars, roundVars,
               hookVars, answerVars, worldVars, TypeInv, TypeOK, PlaceInv, EffectPlaced,
               RequestInv, RequestPlaced, OwnersInv, Kept, BeforeOutput, InBatch, Lost,
               NoEffect, NoRequest
  <2>3. \A i : Owed(i) => Owed(i)'
    BY <1>3
           DEF NextArgumentHook, Goto, Finish, durableVars, registerVars, roundVars,
               hookVars, answerVars, worldVars, Owed, PlaceInv, InBatch, Lost,
               EffectPlaced
  <2>4. \A c \in Call : /\ runs'[c] <= 1
                        /\ runs'[c] > 0 \/ c \in acted' =>
                              \/ runs[c] > 0 \/ c \in acted
                              \/ effect'.kind = "tool" /\ effect'.call = c /\ at' = "executing"
    BY <1>3, TurnIs
           DEF NextArgumentHook, Goto, Finish, durableVars, registerVars, roundVars,
               hookVars, answerVars, worldVars, TypeInv, TypeOK, PlaceInv, EffectPlaced,
               StartInv, CallInv, InBatch, Lost
  <2>5. \A c \in Call : effect.kind = "tool" /\ effect.call = c /\ at \in {"executing"} \cup Lost =>
                           effect'.kind = "tool" /\ effect'.call = c /\ at' \in {"executing"} \cup Lost
    BY <1>3
           DEF NextArgumentHook, Goto, Finish, durableVars, registerVars, roundVars,
               hookVars, answerVars, worldVars, PlaceInv, EffectPlaced, Lost, NoEffect
  <2>6. UNCHANGED <<log, pending>> /\ asked' = asked /\ ids' \in Nat /\ ids <= ids'
    BY <1>3
           DEF NextArgumentHook, Goto, Finish, durableVars, registerVars, roundVars,
               hookVars, answerVars, worldVars, TypeInv
  <2>7. effect' = effect \/ (effect.kind # "model" /\ effect'.kind # "model")
    BY <1>3
           DEF NextArgumentHook, Goto, Finish, durableVars, registerVars, roundVars,
               hookVars, answerVars, worldVars, PlaceInv, EffectPlaced, NoEffect
  <2>8. at' = "hookSettle" => at = "hookSettle" /\ UNCHANGED <<effect, outcome, doubt>>
    BY <1>3
           DEF NextArgumentHook, Goto, Finish, durableVars, registerVars, roundVars,
               hookVars, answerVars, worldVars
  <2>9. QED BY <2>1, <2>2, <2>3, <2>4, <2>5, <2>6, <2>7, <2>8, StillKeeps
<1>4. CASE BeginCallHook /\ Goto("hookGate") /\ UNCHANGED <<calls, hookVars, answerVars>>
  <2>1. PlaceInv'
    <3>1. /\ pending # <<>> /\ Head(pending) = pending[1] /\ 1 \in DOMAIN pending /\ pending[1].call \in Call
          /\ pending[1].call # NoCall /\ status = "running"
      BY PendingIs, TurnIs, CallsAreIdentities DEF NextArgumentHook, PlaceInv, InBatch
    <3>2. /\ effect'.kind = "hook" /\ effect'.call = pending[1].call /\ at' = "hookGate"
          /\ UNCHANGED <<status, pending, calls>> /\ NoEffect.kind = "none"
      BY <1>4, <3>1 DEF BeginCallHook, Goto, NoEffect
    <3>3. QED BY <3>1, <3>2 DEF NextArgumentHook, PlaceInv, EffectPlaced, BeforeOutput, InBatch
  <2>2. RequestPlaced'
    BY <1>4
           DEF NextArgumentHook, BeginCallHook, Goto, Finish, durableVars, registerVars,
               roundVars, hookVars, answerVars, worldVars, TypeInv, TypeOK, PlaceInv,
               EffectPlaced, RequestInv, RequestPlaced, OwnersInv, Kept, BeforeOutput,
               InBatch, Lost, NoEffect, NoRequest
  <2>3. \A i : Owed(i) => Owed(i)'
    BY <1>4
           DEF NextArgumentHook, BeginCallHook, Goto, Finish, durableVars, registerVars,
               roundVars, hookVars, answerVars, worldVars, Owed, PlaceInv, InBatch,
               Lost, EffectPlaced
  <2>4. \A c \in Call : /\ runs'[c] <= 1
                        /\ runs'[c] > 0 \/ c \in acted' =>
                              \/ runs[c] > 0 \/ c \in acted
                              \/ effect'.kind = "tool" /\ effect'.call = c /\ at' = "executing"
    BY <1>4, TurnIs
           DEF NextArgumentHook, BeginCallHook, Goto, Finish, durableVars, registerVars,
               roundVars, hookVars, answerVars, worldVars, TypeInv, TypeOK, PlaceInv,
               EffectPlaced, StartInv, CallInv, InBatch, Lost
  <2>5. \A c \in Call : effect.kind = "tool" /\ effect.call = c /\ at \in {"executing"} \cup Lost =>
                           effect'.kind = "tool" /\ effect'.call = c /\ at' \in {"executing"} \cup Lost
    BY <1>4
           DEF NextArgumentHook, BeginCallHook, Goto, Finish, durableVars, registerVars,
               roundVars, hookVars, answerVars, worldVars, PlaceInv, EffectPlaced, Lost,
               NoEffect
  <2>6. UNCHANGED <<log, pending>> /\ asked' = asked /\ ids' \in Nat /\ ids <= ids'
    BY <1>4
           DEF NextArgumentHook, BeginCallHook, Goto, Finish, durableVars, registerVars,
               roundVars, hookVars, answerVars, worldVars, TypeInv
  <2>7. effect' = effect \/ (effect.kind # "model" /\ effect'.kind # "model")
    BY <1>4
           DEF NextArgumentHook, BeginCallHook, Goto, Finish, durableVars, registerVars,
               roundVars, hookVars, answerVars, worldVars, PlaceInv, EffectPlaced,
               NoEffect
  <2>8. at' = "hookSettle" => at = "hookSettle" /\ UNCHANGED <<effect, outcome, doubt>>
    BY <1>4
           DEF NextArgumentHook, BeginCallHook, Goto, Finish, durableVars, registerVars,
               roundVars, hookVars, answerVars, worldVars
  <2>9. QED BY <2>1, <2>2, <2>3, <2>4, <2>5, <2>6, <2>7, <2>8, StillKeeps
<1>5. QED BY <1>1, <1>2, <1>3, <1>4 DEF NextArgumentHook, Evidence, Goto

(* The gate before an argument hook's Run keeps the invariant. *)
LEMMA HookGateKeeps == ASSUME TypeInv, EffectsInv, HookGate PROVE EffectsInv'
<1>. USE DEF EffectsInv
<1>1. ASSUME HookFails("interrupted", "not_started") PROVE EffectsInv'
  <2>1. /\ CommitHook("interrupted", "not_started") /\ at' = "hookSettle" /\ at = "hookGate"
        /\ doubt' = "not_started" /\ outcome' = "interrupted" /\ "not_started" \in Evidence
        /\ UNCHANGED <<calls, runs, acted, asked, ask>>
    BY <1>1 DEF HookGate, HookFails, Goto, roundVars, worldVars, Evidence
  <2>2. QED BY <2>1, HookKeeps
<1>2. CASE ~Canceled /\ Goto("hookRun") /\ UNCHANGED <<durableVars, hookVars, answerVars>>
  <2>1. PlaceInv'
    BY <1>2, PendingIs
           DEF HookGate, Goto, Finish, durableVars, registerVars, roundVars, hookVars,
               answerVars, worldVars, TypeInv, TypeOK, PlaceInv, EffectPlaced,
               BeforeOutput, InBatch, NoEffect
  <2>2. RequestPlaced'
    BY <1>2
           DEF HookGate, Goto, Finish, durableVars, registerVars, roundVars, hookVars,
               answerVars, worldVars, TypeInv, TypeOK, PlaceInv, EffectPlaced,
               RequestInv, RequestPlaced, OwnersInv, Kept, BeforeOutput, InBatch, Lost,
               NoEffect, NoRequest
  <2>3. \A i : Owed(i) => Owed(i)'
    BY <1>2
           DEF HookGate, Goto, Finish, durableVars, registerVars, roundVars, hookVars,
               answerVars, worldVars, Owed, PlaceInv, InBatch, Lost, EffectPlaced
  <2>4. \A c \in Call : /\ runs'[c] <= 1
                        /\ runs'[c] > 0 \/ c \in acted' =>
                              \/ runs[c] > 0 \/ c \in acted
                              \/ effect'.kind = "tool" /\ effect'.call = c /\ at' = "executing"
    BY <1>2, TurnIs
           DEF HookGate, Goto, Finish, durableVars, registerVars, roundVars, hookVars,
               answerVars, worldVars, TypeInv, TypeOK, PlaceInv, EffectPlaced, StartInv,
               CallInv, InBatch, Lost
  <2>5. \A c \in Call : effect.kind = "tool" /\ effect.call = c /\ at \in {"executing"} \cup Lost =>
                           effect'.kind = "tool" /\ effect'.call = c /\ at' \in {"executing"} \cup Lost
    BY <1>2
           DEF HookGate, Goto, Finish, durableVars, registerVars, roundVars, hookVars,
               answerVars, worldVars, PlaceInv, EffectPlaced, Lost, NoEffect
  <2>6. UNCHANGED <<log, pending>> /\ asked' = asked /\ ids' \in Nat /\ ids <= ids'
    BY <1>2
           DEF HookGate, Goto, Finish, durableVars, registerVars, roundVars, hookVars,
               answerVars, worldVars, TypeInv
  <2>7. effect' = effect \/ (effect.kind # "model" /\ effect'.kind # "model")
    BY <1>2
           DEF HookGate, Goto, Finish, durableVars, registerVars, roundVars, hookVars,
               answerVars, worldVars, PlaceInv, EffectPlaced, NoEffect
  <2>8. at' = "hookSettle" => at = "hookSettle" /\ UNCHANGED <<effect, outcome, doubt>>
    BY <1>2
           DEF HookGate, Goto, Finish, durableVars, registerVars, roundVars, hookVars,
               answerVars, worldVars
  <2>9. QED BY <2>1, <2>2, <2>3, <2>4, <2>5, <2>6, <2>7, <2>8, StillKeeps
<1>3. QED BY <1>1, <1>2 DEF HookGate

(* An argument hook's return keeps the invariant. *)
LEMMA HookReturnsKeeps == ASSUME TypeInv, EffectsInv, HookReturns PROVE EffectsInv'
<1>. USE DEF EffectsInv
<1>1. CASE CommitHook("succeeded", "observed") /\ at' = "argumentHooks"
  <2>1. /\ at = "hookRun" /\ UNCHANGED <<calls, runs, acted, asked, ask>> /\ "observed" \in Evidence
    BY <1>1 DEF HookReturns, roundVars, worldVars, Evidence
  <2>2. QED BY <1>1, <2>1, HookKeeps
<1>2. ASSUME NEW s \in {"error", "interrupted"}, NEW k \in Evidence, HookFails(s, k) PROVE EffectsInv'
  <2>1. /\ at' = "hookSettle" /\ at = "hookRun" /\ doubt' = k /\ outcome' \in {"error", "interrupted"}
        /\ UNCHANGED <<calls, runs, acted, asked, ask>>
    BY <1>2 DEF HookReturns, HookFails, Goto, roundVars, worldVars
  <2>2. CommitHook(IF s = "error" THEN "failed" ELSE "interrupted", k) BY <1>2 DEF HookFails
  <2>3. QED BY <2>1, <2>2, HookKeeps
<1>3. QED BY <1>1, <1>2 DEF HookReturns, Goto

(* The transaction after a failed hook keeps the invariant. *)
LEMMA HookSettleKeeps == ASSUME TypeInv, EffectsInv, HookSettle PROVE EffectsInv'
<1>. USE DEF EffectsInv
<1>1. CASE HookSettle
  <2>1. /\ at = "hookSettle" /\ at \in InBatch \ {"dispatch", "hookGate", "hookRun"}
        /\ UNCHANGED <<runs, acted, asked, ask>> /\ HookNotice \in BOOLEAN /\ "not_started" \in Evidence
        /\ HookNotice <=> at = "hookSettle" /\ doubt = "unknown"
        /\ SettleCall(outcome, "not_started", HookNotice, Selected(chain))
    BY DEF HookSettle, HookNotice, InBatch, roundVars, worldVars, Evidence
  <2>. HIDE DEF HookNotice
  <2>2. QED BY <2>1, AnswerKeeps
<1>2. QED BY <1>1 DEF HookSettle

(* Preparation and permission keeps the invariant. *)
LEMMA PrepareKeeps == ASSUME TypeInv, EffectsInv, Prepare PROVE EffectsInv'
<1>. USE DEF EffectsInv
<1>1. ASSUME NEW s, NEW k \in Evidence, NEW sel, SettleCall(s, k, FALSE, sel) PROVE EffectsInv'
  <2>1. /\ at \in InBatch \ {"dispatch", "hookGate", "hookRun"} /\ at # "hookSettle"
        /\ UNCHANGED <<runs, acted, asked, ask>> /\ FALSE \in BOOLEAN
    BY <1>1 DEF Prepare, InBatch, roundVars, worldVars
  <2>2. QED BY <1>1, <2>1, AnswerKeeps
<1>2. CASE Goto("begin") /\ UNCHANGED <<durableVars, calls, answerVars>>
  <2>1. PlaceInv'
    BY <1>2, PendingIs
           DEF Prepare, Goto, Finish, durableVars, registerVars, roundVars, hookVars,
               answerVars, worldVars, TypeInv, TypeOK, PlaceInv, EffectPlaced,
               BeforeOutput, InBatch, NoEffect
  <2>2. RequestPlaced'
    BY <1>2
           DEF Prepare, Goto, Finish, durableVars, registerVars, roundVars, hookVars,
               answerVars, worldVars, TypeInv, TypeOK, PlaceInv, EffectPlaced,
               RequestInv, RequestPlaced, OwnersInv, Kept, BeforeOutput, InBatch, Lost,
               NoEffect, NoRequest
  <2>3. \A i : Owed(i) => Owed(i)'
    BY <1>2
           DEF Prepare, Goto, Finish, durableVars, registerVars, roundVars, hookVars,
               answerVars, worldVars, Owed, PlaceInv, InBatch, Lost, EffectPlaced
  <2>4. \A c \in Call : /\ runs'[c] <= 1
                        /\ runs'[c] > 0 \/ c \in acted' =>
                              \/ runs[c] > 0 \/ c \in acted
                              \/ effect'.kind = "tool" /\ effect'.call = c /\ at' = "executing"
    BY <1>2, TurnIs
           DEF Prepare, Goto, Finish, durableVars, registerVars, roundVars, hookVars,
               answerVars, worldVars, TypeInv, TypeOK, PlaceInv, EffectPlaced, StartInv,
               CallInv, InBatch, Lost
  <2>5. \A c \in Call : effect.kind = "tool" /\ effect.call = c /\ at \in {"executing"} \cup Lost =>
                           effect'.kind = "tool" /\ effect'.call = c /\ at' \in {"executing"} \cup Lost
    BY <1>2
           DEF Prepare, Goto, Finish, durableVars, registerVars, roundVars, hookVars,
               answerVars, worldVars, PlaceInv, EffectPlaced, Lost, NoEffect
  <2>6. UNCHANGED <<log, pending>> /\ asked' = asked /\ ids' \in Nat /\ ids <= ids'
    BY <1>2
           DEF Prepare, Goto, Finish, durableVars, registerVars, roundVars, hookVars,
               answerVars, worldVars, TypeInv
  <2>7. effect' = effect \/ (effect.kind # "model" /\ effect'.kind # "model")
    BY <1>2
           DEF Prepare, Goto, Finish, durableVars, registerVars, roundVars, hookVars,
               answerVars, worldVars, PlaceInv, EffectPlaced, NoEffect
  <2>8. at' = "hookSettle" => at = "hookSettle" /\ UNCHANGED <<effect, outcome, doubt>>
    BY <1>2
           DEF Prepare, Goto, Finish, durableVars, registerVars, roundVars, hookVars,
               answerVars, worldVars
  <2>9. QED BY <2>1, <2>2, <2>3, <2>4, <2>5, <2>6, <2>7, <2>8, StillKeeps
<1>3. QED BY <1>1, <1>2 DEF Prepare, Evidence

(* The executor's intent keeps the invariant. *)
LEMMA BeginCallKeeps == ASSUME TypeInv, EffectsInv, BeginCall PROVE EffectsInv'
<1>. USE DEF EffectsInv
<1>1. ASSUME NEW s, NEW k \in Evidence, NEW sel, SettleCall(s, k, FALSE, sel) PROVE EffectsInv'
  <2>1. /\ at \in InBatch \ {"dispatch", "hookGate", "hookRun"} /\ at # "hookSettle"
        /\ UNCHANGED <<runs, acted, asked, ask>> /\ FALSE \in BOOLEAN
    BY <1>1 DEF BeginCall, InBatch, roundVars, worldVars
  <2>2. QED BY <1>1, <2>1, AnswerKeeps
<1>2. CASE BeginTool /\ Goto("toolGate") /\ UNCHANGED <<calls, answerVars>>
  <2>1. PlaceInv'
    <3>1. /\ pending # <<>> /\ Head(pending) = pending[1] /\ 1 \in DOMAIN pending /\ pending[1].call \in Call
          /\ pending[1].call # NoCall /\ status = "running"
      BY PendingIs, TurnIs, CallsAreIdentities DEF BeginCall, PlaceInv, InBatch
    <3>2. /\ effect'.kind = "tool" /\ effect'.call = pending[1].call /\ at' = "toolGate"
          /\ UNCHANGED <<status, pending, calls>> /\ NoEffect.kind = "none"
      BY <1>2, <3>1 DEF BeginTool, Goto, NoEffect
    <3>3. QED BY <3>1, <3>2 DEF BeginCall, PlaceInv, EffectPlaced, BeforeOutput, InBatch
  <2>2. RequestPlaced'
    BY <1>2
           DEF BeginCall, BeginTool, Goto, Finish, durableVars, registerVars, roundVars,
               hookVars, answerVars, worldVars, TypeInv, TypeOK, PlaceInv, EffectPlaced,
               RequestInv, RequestPlaced, OwnersInv, Kept, BeforeOutput, InBatch, Lost,
               NoEffect, NoRequest
  <2>3. \A i : Owed(i) => Owed(i)'
    BY <1>2
           DEF BeginCall, BeginTool, Goto, Finish, durableVars, registerVars, roundVars,
               hookVars, answerVars, worldVars, Owed, PlaceInv, InBatch, Lost,
               EffectPlaced
  <2>4. \A c \in Call : /\ runs'[c] <= 1
                        /\ runs'[c] > 0 \/ c \in acted' =>
                              \/ runs[c] > 0 \/ c \in acted
                              \/ effect'.kind = "tool" /\ effect'.call = c /\ at' = "executing"
    BY <1>2, TurnIs
           DEF BeginCall, BeginTool, Goto, Finish, durableVars, registerVars, roundVars,
               hookVars, answerVars, worldVars, TypeInv, TypeOK, PlaceInv, EffectPlaced,
               StartInv, CallInv, InBatch, Lost
  <2>5. \A c \in Call : effect.kind = "tool" /\ effect.call = c /\ at \in {"executing"} \cup Lost =>
                           effect'.kind = "tool" /\ effect'.call = c /\ at' \in {"executing"} \cup Lost
    BY <1>2
           DEF BeginCall, BeginTool, Goto, Finish, durableVars, registerVars, roundVars,
               hookVars, answerVars, worldVars, PlaceInv, EffectPlaced, Lost, NoEffect
  <2>6. UNCHANGED <<log, pending>> /\ asked' = asked /\ ids' \in Nat /\ ids <= ids'
    BY <1>2
           DEF BeginCall, BeginTool, Goto, Finish, durableVars, registerVars, roundVars,
               hookVars, answerVars, worldVars, TypeInv
  <2>7. effect' = effect \/ (effect.kind # "model" /\ effect'.kind # "model")
    BY <1>2
           DEF BeginCall, BeginTool, Goto, Finish, durableVars, registerVars, roundVars,
               hookVars, answerVars, worldVars, PlaceInv, EffectPlaced, NoEffect
  <2>8. at' = "hookSettle" => at = "hookSettle" /\ UNCHANGED <<effect, outcome, doubt>>
    BY <1>2
           DEF BeginCall, BeginTool, Goto, Finish, durableVars, registerVars, roundVars,
               hookVars, answerVars, worldVars
  <2>9. QED BY <2>1, <2>2, <2>3, <2>4, <2>5, <2>6, <2>7, <2>8, StillKeeps
<1>3. QED BY <1>1, <1>2 DEF BeginCall, Evidence

(* The gate before Execute keeps the invariant. *)
LEMMA ToolGateKeeps == ASSUME TypeInv, EffectsInv, ToolGate PROVE EffectsInv'
<1>. USE DEF EffectsInv
<1>1. ASSUME NEW s, NEW k \in Evidence, NEW sel, SettleCall(s, k, FALSE, sel), UNCHANGED worldVars PROVE EffectsInv'
  <2>1. /\ at \in InBatch \ {"dispatch", "hookGate", "hookRun"} /\ at # "hookSettle"
        /\ UNCHANGED <<runs, acted, asked, ask>> /\ FALSE \in BOOLEAN
    BY <1>1 DEF ToolGate, InBatch, roundVars, worldVars
  <2>2. QED BY <1>1, <2>1, AnswerKeeps
<1>2. CASE /\ Goto("executing") /\ runs' = [runs EXCEPT ![Head(calls)] = @ + 1]
           /\ UNCHANGED <<durableVars, calls, answerVars>>
  <2>1. PlaceInv'
    BY <1>2, PendingIs
           DEF ToolGate, Goto, Finish, durableVars, registerVars, roundVars, hookVars,
               answerVars, worldVars, TypeInv, TypeOK, PlaceInv, EffectPlaced,
               BeforeOutput, InBatch, NoEffect
  <2>2. RequestPlaced'
    BY <1>2
           DEF ToolGate, Goto, Finish, durableVars, registerVars, roundVars, hookVars,
               answerVars, worldVars, TypeInv, TypeOK, PlaceInv, EffectPlaced,
               RequestInv, RequestPlaced, OwnersInv, Kept, BeforeOutput, InBatch, Lost,
               NoEffect, NoRequest
  <2>3. \A i : Owed(i) => Owed(i)'
    BY <1>2
           DEF ToolGate, Goto, Finish, durableVars, registerVars, roundVars, hookVars,
               answerVars, worldVars, Owed, PlaceInv, InBatch, Lost, EffectPlaced
  <2>4. \A c \in Call : /\ runs'[c] <= 1
                        /\ runs'[c] > 0 \/ c \in acted' =>
                              \/ runs[c] > 0 \/ c \in acted
                              \/ effect'.kind = "tool" /\ effect'.call = c /\ at' = "executing"
    <3>1. /\ Head(calls) \in Call /\ Head(calls) \notin Settled /\ effect.kind = "tool"
          /\ effect.call = Head(calls) /\ at = "toolGate"
      BY TurnIs, CallsAreIdentities DEF ToolGate, PlaceInv, EffectPlaced, CallInv, InBatch
    <3>2. ~(runs[Head(calls)] > 0) /\ runs \in [Call -> Nat]
      BY <3>1 DEF StartInv, Lost, TypeInv, TypeOK
    <3>3. /\ \A c \in Call : runs'[c] = IF c = Head(calls) THEN runs[c] + 1 ELSE runs[c]
          /\ effect' = effect /\ at' = "executing" /\ acted' = acted
      BY <1>2, <3>2 DEF ToolGate, Goto, durableVars, registerVars
    <3>4. \A c \in Call : runs[c] \in Nat /\ runs[c] <= 1 BY <3>2 DEF StartInv
    <3>5. QED BY <3>1, <3>2, <3>3, <3>4
  <2>5. \A c \in Call : effect.kind = "tool" /\ effect.call = c /\ at \in {"executing"} \cup Lost =>
                           effect'.kind = "tool" /\ effect'.call = c /\ at' \in {"executing"} \cup Lost
    BY <1>2
           DEF ToolGate, Goto, Finish, durableVars, registerVars, roundVars, hookVars,
               answerVars, worldVars, PlaceInv, EffectPlaced, Lost, NoEffect
  <2>6. UNCHANGED <<log, pending>> /\ asked' = asked /\ ids' \in Nat /\ ids <= ids'
    BY <1>2
           DEF ToolGate, Goto, Finish, durableVars, registerVars, roundVars, hookVars,
               answerVars, worldVars, TypeInv
  <2>7. effect' = effect \/ (effect.kind # "model" /\ effect'.kind # "model")
    BY <1>2
           DEF ToolGate, Goto, Finish, durableVars, registerVars, roundVars, hookVars,
               answerVars, worldVars, PlaceInv, EffectPlaced, NoEffect
  <2>8. at' = "hookSettle" => at = "hookSettle" /\ UNCHANGED <<effect, outcome, doubt>>
    BY <1>2
           DEF ToolGate, Goto, Finish, durableVars, registerVars, roundVars, hookVars,
               answerVars, worldVars
  <2>9. QED BY <2>1, <2>2, <2>3, <2>4, <2>5, <2>6, <2>7, <2>8, StillKeeps
<1>3. QED BY <1>1, <1>2 DEF ToolGate, Evidence, worldVars

(* The executor's return keeps the invariant. *)
LEMMA ToolReturnsKeeps == ASSUME TypeInv, EffectsInv, ToolReturns PROVE EffectsInv'
<1>. USE DEF EffectsInv
<1>1. ASSUME NEW s, NEW k \in Evidence, NEW sel, SettleCall(s, k, FALSE, sel) PROVE EffectsInv'
  <2>1. /\ at \in InBatch \ {"dispatch", "hookGate", "hookRun"} /\ at # "hookSettle"
        /\ UNCHANGED <<runs, acted, asked, ask>> /\ FALSE \in BOOLEAN
    BY <1>1 DEF ToolReturns, InBatch, roundVars, worldVars
  <2>2. QED BY <1>1, <2>1, AnswerKeeps
<1>2. QED BY <1>1 DEF ToolReturns, Evidence

(* The types after a step, part by part. *)
LEMMA TypeParts ==
  ASSUME RegisterType', LogType', LocalType'
  PROVE  TypeInv'
BY DEF TypeInv, TypeOK, RegisterType, LogType, LocalType, Kept

(* The type invariant gives its parts. *)
LEMMA PartsAre ==
  ASSUME TypeInv
  PROVE  RegisterType /\ LogType /\ LocalType
BY DEF TypeInv, TypeOK, RegisterType, LogType, LocalType, Kept

(* A grown log stays well-typed when its new entries are. *)
LEMMA GrownTypes ==
  ASSUME TypeInv, Grown, ids' \in Nat, ids <= ids',
         \A i \in New : log'[i].kind \in Kinds /\ log'[i].id \in Kept'
  PROVE  LogType' /\ Kept \subseteq Kept'
<1>1. Kept \subseteq Kept'
  <2>1. ids \in Nat BY DEF TypeInv
  <2>2. QED BY <2>1, UpToGrows DEF Kept
<1>2. DOMAIN log' = DOMAIN log \cup New BY GrownDoes
<1>3. \A i \in DOMAIN log : log'[i].kind \in Kinds /\ log'[i].id \in Kept
  BY PartsAre DEF LogType, Grown
<1>4. QED BY <1>1, <1>2, <1>3 DEF LogType, Grown

(* The terminal transaction writes a well-typed register and log. *)
LEMMA TerminateTypes ==
  ASSUME TypeInv, EffectsInv, NEW s \in Terminals, NEW produced, produced \in {<<>>, <<Partial>>},
         produced # <<>> => at = "calling", Terminate(s, produced)
  PROVE  RegisterType' /\ LogType'
<1>1. Closes(s, produced) /\ Adds(s, produced) BY TerminateDoes
<1>2. /\ effect' = NoEffect /\ pending' = <<>> /\ request' = NoRequest /\ status' = s /\ ids' = ids + 2
      /\ ids \in Nat \ {0}
  BY DEF Terminate, TypeInv
<1>3. ids \in Kept' /\ ids + 1 \in Kept' /\ Kept \subseteq Kept' /\ ids <= ids' /\ ids' \in Nat \ {0}
  BY <1>2 DEF Kept
<1>4. effect.kind # "none" => effect.id \in Kept
  BY DEF TypeInv, NoEffect
<1>5. produced # <<>> => effect.kind = "model"
  BY DEF EffectsInv, PlaceInv, EffectPlaced
<1>6. \A i \in New : log'[i].kind \in Kinds /\ log'[i].id \in Kept'
  <2>. SUFFICES ASSUME NEW i \in New PROVE log'[i].kind \in Kinds /\ log'[i].id \in Kept' OBVIOUS
  <2>1. CASE produced # <<>> /\ log'[i] = Partial
    BY <1>3, <1>4, <1>5, <2>1 DEF Partial, Assistant, Kinds
  <2>2. CASE effect.kind = "hook" /\ log'[i] = HookResult(effect, "interrupted", "unknown")
    BY <1>3, <1>4, <2>2 DEF HookResult, Kinds
  <2>3. ASSUME NEW k \in DOMAIN pending, log'[i] = InterruptedCall(pending[k])
        PROVE  log'[i].kind \in Kinds /\ log'[i].id \in Kept'
    <3>1. log'[i].kind = "tool" /\ log'[i].id = pending[k].id BY <2>3 DEF InterruptedCall, ToolResult
    <3>2. QED BY <1>3, <3>1 DEF TypeInv, Kinds
  <2>4. CASE log'[i] = Signal(ids, "interruption") BY <1>3, <2>4 DEF Signal, Kinds
  <2>5. CASE log'[i] = Closing(s, produced)
    <3>1. log'[i].kind = "settlement" /\ log'[i].id = SettlementId(produced) BY <2>5 DEF Closing, Settlement
    <3>2. SettlementId(produced) \in Kept' BY <1>3, <1>4 DEF SettlementId
    <3>3. QED BY <3>1, <3>2 DEF Kinds
  <2>6. QED BY <1>1, <2>1, <2>2, <2>3, <2>4, <2>5 DEF Adds
<1>7. LogType' BY <1>1, <1>3, <1>6, GrownTypes DEF Closes
<1>8. RegisterType'
  <2>1. <<>> \in Seq([call : Call, id : Nat, publisher : Nat]) /\ DOMAIN <<>> = {} /\ <<>> \in Seq(Nat) OBVIOUS
  <2>2. NoEffect \in [kind : {"none", "model", "hook", "tool"}, id : Nat, call : Call \cup {NoCall},
                   request : Nat, hook : Nat, chain : Seq(Nat)] /\ NoRequest \in [id : Nat, results : Seq(Nat)]
    BY <2>1 DEF NoEffect, NoRequest
  <2>3. QED BY <1>2, <1>3, <2>1, <2>2 DEF RegisterType
<1>9. QED BY <1>7, <1>8

(* No effect and no request are values of the register. *)
LEMMA NothingTypes ==
  /\ NoEffect \in [kind : {"none", "model", "hook", "tool"}, id : Nat, call : Call \cup {NoCall},
                   request : Nat, hook : Nat, chain : Seq(Nat)]
  /\ NoRequest \in [id : Nat, results : Seq(Nat)]
<1>1. <<>> \in Seq(Nat) OBVIOUS
<1>2. QED BY <1>1 DEF NoEffect, NoRequest

(* So do a call's answer, a hook's result and the two published outputs. *)
LEMMA AnswerTypes ==
  ASSUME TypeInv, EffectsInv, at \in InBatch \ {"dispatch"},
         NEW s, NEW k, NEW u, NEW sel, CommitTool(s, k, u, sel)
  PROVE  RegisterType' /\ LogType'
<1>. DEFINE P == [call : Call, id : Nat, publisher : Nat]
<1>1. /\ Head(calls) = pending[1].call /\ 1 \in DOMAIN pending
      /\ pending' = Tail(pending) /\ effect' = NoEffect
      /\ request' = IF pending' = <<>> THEN NoRequest ELSE request
      /\ UNCHANGED <<status, ids>>
  BY CommitToolDoes DEF EffectsInv
<1>2. PICK x : log' = Append(log, ToolResult(pending[1], s, k, u, x))
  BY CommitToolDoes DEF EffectsInv
<1>3. /\ Tail(pending) \in Seq(P)
      /\ \A n \in DOMAIN Tail(pending) : n + 1 \in DOMAIN pending /\ Tail(pending)[n] = pending[n + 1]
  <2>1. pending \in Seq(P) /\ pending # <<>> BY <1>1, PartsAre DEF RegisterType
  <2>2. QED BY <2>1
<1>4. \A n \in DOMAIN pending' : pending'[n].id \in Kept' BY <1>1, <1>3, PartsAre DEF RegisterType, Kept
<1>5. RegisterType'
  <2>. HIDE DEF P
  <2>1. pending' \in Seq(P) BY <1>1, <1>3
  <2>2. request' \in [id : Nat, results : Seq(Nat)] BY <1>1, NothingTypes, PartsAre DEF RegisterType
  <2>3. status' \in Terminals \cup {"running"} /\ ids' \in Nat \ {0} BY <1>1, PartsAre DEF RegisterType
  <2>4. QED BY <1>1, <1>4, <2>1, <2>2, <2>3, NothingTypes DEF RegisterType, P
<1>6. LogType'
  <2>1. PICK n : Grown /\ New = {n} /\ log'[n] = ToolResult(pending[1], s, k, u, x) BY <1>2, AppendDoes
  <2>2. log'[n].kind = "tool" /\ log'[n].id = pending[1].id BY <2>1 DEF ToolResult
  <2>3. pending[1].id \in Kept' /\ ids' \in Nat /\ ids <= ids' BY <1>1, PartsAre DEF RegisterType, Kept
  <2>4. QED BY <2>1, <2>2, <2>3, GrownTypes DEF Kinds
<1>7. QED BY <1>5, <1>6

(* A committed hook result writes a well-typed register and log. *)
LEMMA HookTypes ==
  ASSUME TypeInv, EffectsInv, effect.kind = "hook", NEW s, NEW k, CommitHook(s, k)
  PROVE  RegisterType' /\ LogType'
<1>1. /\ log' = Append(log, HookResult(effect, s, k)) /\ effect' = NoEffect
      /\ request' = IF effect.request # 0 /\ request # NoRequest
                    THEN [id |-> request.id, results |-> Append(request.results, effect.id)]
                    ELSE request
      /\ UNCHANGED <<status, pending, ids>>
  BY DEF CommitHook
<1>2. effect # NoEffect /\ effect.id \in Kept /\ effect.id \in Nat
  BY PartsAre DEF RegisterType, NoEffect
<1>3. request' \in [id : Nat, results : Seq(Nat)]
  <2>1. request \in [id : Nat, results : Seq(Nat)] BY PartsAre DEF RegisterType
  <2>2. Append(request.results, effect.id) \in Seq(Nat) BY <1>2, <2>1
  <2>3. QED BY <1>1, <2>1, <2>2
<1>4. RegisterType' BY <1>1, <1>3, PartsAre, NothingTypes DEF RegisterType, Kept
<1>5. LogType'
  <2>1. PICK n : Grown /\ New = {n} /\ log'[n] = HookResult(effect, s, k) BY <1>1, AppendDoes
  <2>2. log'[n].kind = "hook" /\ log'[n].id = effect.id BY <2>1 DEF HookResult
  <2>3. effect.id \in Kept' /\ ids' \in Nat /\ ids <= ids' BY <1>1, <1>2, PartsAre DEF RegisterType, Kept
  <2>4. QED BY <2>1, <2>2, <2>3, GrownTypes DEF Kinds
<1>6. QED BY <1>4, <1>5

(* A model output's calls are a sequence of call identities. *)
LEMMA BatchIs ==
  ASSUME TypeInv, NEW b \in Batches
  PROVE  b \in Seq(Call)
<1>1. scope.calls \subseteq Call /\ scope.batch \in Nat BY Bounds DEF TypeInv
<1>2. PICK n \in 0..scope.batch : b \in [1..n -> scope.calls] BY DEF Batches
<1>3. n \in Nat /\ b \in [1..n -> Call] BY <1>1, <1>2
<1>4. QED BY <1>3, FunctionIsSeq

(* A completed output writes well-typed reservations under fresh
   identities. *)
LEMMA CompletedTypes ==
  ASSUME TypeInv, EffectsInv, at = "calling", NEW b \in Seq(Call), ~Repeats(b), OutputCompleted(b)
  PROVE  RegisterType' /\ LogType'
<1>. DEFINE P == [call : Call, id : Nat, publisher : Nat]
<1>1. /\ log' = Append(log, Assistant(effect.id, ask, Reserve(b), effect.chain))
      /\ pending' = pending \o Pend(b) /\ ids' = ids + Len(b) /\ effect' = NoEffect
      /\ request' = IF pending' = <<>> THEN NoRequest ELSE request
      /\ UNCHANGED status
  BY DEF OutputCompleted
<1>2. /\ pending = <<>> /\ effect # NoEffect /\ effect.id \in Kept /\ effect.id \in Nat /\ ids \in Nat \ {0}
  BY PartsAre DEF EffectsInv, PlaceInv, EffectPlaced, BeforeOutput, NoEffect, RegisterType
<1>3. Len(b) \in Nat /\ DOMAIN b = 1..Len(b) /\ \A i \in 1..Len(b) : b[i] \in Call OBVIOUS
<1>4. ids' \in Nat \ {0} /\ ids <= ids' /\ \A i \in 1..Len(b) : ids + i - 1 \in 1..(ids + Len(b) - 1) /\ ids + i - 1 \in Nat
  BY <1>1, <1>2, <1>3
<1>5. Pend(b) \in [1..Len(b) -> P] BY <1>2, <1>3, <1>4 DEF Pend
<1>6. pending' = Pend(b) /\ Pend(b) \in Seq(P) /\ DOMAIN Pend(b) = 1..Len(b)
  <2>1. Pend(b) \in Seq(P) BY <1>3, <1>5, FunctionIsSeq
  <2>2. <<>> \o Pend(b) = Pend(b) BY <2>1
  <2>3. QED BY <1>1, <1>2, <1>5, <2>1, <2>2
<1>7. \A i \in DOMAIN pending' : pending'[i].id \in Kept'
  <2>1. Kept' = 1..(ids + Len(b) - 1) BY <1>1, <1>2, <1>3 DEF Kept
  <2>2. \A i \in 1..Len(b) : Pend(b)[i].id = ids + i - 1 BY <1>3 DEF Pend
  <2>3. QED BY <1>4, <1>6, <2>1, <2>2
<1>8. RegisterType'
  <2>1. request' \in [id : Nat, results : Seq(Nat)] BY <1>1, NothingTypes, PartsAre DEF RegisterType
  <2>2. status' \in Terminals \cup {"running"} BY <1>1, PartsAre DEF RegisterType
  <2>3. QED BY <1>1, <1>4, <1>6, <1>7, <2>1, <2>2, NothingTypes DEF RegisterType
<1>9. LogType'
  <2>1. PICK n : Grown /\ New = {n} /\ log'[n] = Assistant(effect.id, ask, Reserve(b), effect.chain)
    BY <1>1, AppendDoes
  <2>2. log'[n].kind = "assistant" /\ log'[n].id = effect.id BY <2>1 DEF Assistant
  <2>3. effect.id \in Kept' BY <1>2, <1>4, UpToGrows DEF Kept
  <2>4. QED BY <1>4, <2>1, <2>2, <2>3, GrownTypes DEF Kinds
<1>10. QED BY <1>8, <1>9

(* A partial output writes its entry and a continuation under a fresh
   identity. *)
LEMMA PartialTypes ==
  ASSUME TypeInv, EffectsInv, at = "calling", OutputPartial
  PROVE  RegisterType' /\ LogType'
<1>. DEFINE c == Signal(ids, "continuation")
<1>1. /\ log' = log \o <<Partial, c>> /\ ids' = ids + 1 /\ effect' = NoEffect
      /\ request' = NoRequest /\ UNCHANGED <<status, pending>>
  BY DEF OutputPartial, Partial, EffectsInv, PlaceInv, BeforeOutput
<1>2. /\ effect # NoEffect /\ effect.id \in Kept /\ ids \in Nat \ {0}
  BY PartsAre DEF EffectsInv, PlaceInv, EffectPlaced, BeforeOutput, NoEffect, RegisterType
<1>3. IsSeq(<<Partial, c>>) /\ Len(<<Partial, c>>) = 2 /\ <<Partial, c>>[1] = Partial /\ <<Partial, c>>[2] = c
  <2>1. <<Partial, c>> \in Seq({Partial, c}) OBVIOUS
  <2>2. QED BY <2>1, SeqIs
<1>4. Joined(log', log, <<Partial, c>>) BY <1>1, <1>3, Glued DEF TypeInv
<1>5. Partial.kind \in Kinds /\ Partial.id = effect.id /\ c.kind \in Kinds /\ c.id = ids
  BY DEF Partial, Assistant, Signal, Kinds
<1>. HIDE DEF c
<1>6. Grown /\ \A i \in New : log'[i] = Partial \/ log'[i] = c
  <2>1. /\ Len(log) \in Nat /\ Len(log') = Len(log) + 2 /\ IsSeq(log')
        /\ DOMAIN log = 1..Len(log) /\ DOMAIN log' = 1..(Len(log) + 2)
        /\ \A i \in 1..Len(log) : i \in 1..Len(log') /\ log'[i] = log[i]
        /\ log'[Len(log) + 1] = Partial /\ log'[Len(log) + 2] = c
    BY <1>3, <1>4 DEF Joined
  <2>2. Grown BY <2>1 DEF Grown
  <2>3. New = {Len(log) + 1, Len(log) + 2} BY <2>1 DEF New
  <2>4. QED BY <2>1, <2>2, <2>3
<1>7. effect.id \in Kept' /\ ids \in Kept' /\ ids' \in Nat \ {0} /\ ids <= ids' BY <1>1, <1>2 DEF Kept
<1>8. LogType' BY <1>5, <1>6, <1>7, GrownTypes
<1>9. RegisterType'
  <2>1. Kept \subseteq Kept' BY <1>1, <1>2 DEF Kept
  <2>2. QED BY <1>1, <1>7, <2>1, PartsAre, NothingTypes DEF RegisterType
<1>10. QED BY <1>8, <1>9

(* Nor does an intent write anything else. *)
LEMMA StillTypes ==
  ASSUME TypeInv, UNCHANGED <<registerVars, log, ids>>
  PROVE  RegisterType' /\ LogType'
BY PartsAre DEF RegisterType, LogType, registerVars, Kept

(* The intent of the model or of a request hook, beginModelEffect and
   beginRequestHookEffect. *)
LEMMA BeginRequestTypes ==
  ASSUME TypeInv, NEW k \in {"hook", "model"}, NEW h \in Nat, BeginRequestEffect(k, h)
  PROVE  RegisterType' /\ LogType'
<1>1. /\ effect' = [kind |-> k, id |-> ids, call |-> NoCall, request |-> ask, hook |-> h, chain |-> chain]
      /\ request' = IF request = NoRequest THEN [id |-> ask, results |-> <<>>] ELSE request
      /\ ids' = ids + 1 /\ UNCHANGED <<status, pending, log>>
  BY DEF BeginRequestEffect
<1>2. ask \in Nat /\ chain \in Seq(Nat) /\ ids \in Nat \ {0} BY PartsAre DEF LocalType, RegisterType
<1>3. ids \in Kept' /\ ids' \in Nat \ {0} /\ Kept \subseteq Kept' BY <1>1, <1>2 DEF Kept
<1>4. request' \in [id : Nat, results : Seq(Nat)]
  <2>1. <<>> \in Seq(Nat) OBVIOUS
  <2>2. QED BY <1>1, <1>2, <2>1, PartsAre DEF RegisterType
<1>5. effect' \in [kind : {"none", "model", "hook", "tool"}, id : Nat, call : Call \cup {NoCall},
                   request : Nat, hook : Nat, chain : Seq(Nat)] /\ effect'.id = ids
  BY <1>1, <1>2
<1>6. RegisterType' BY <1>1, <1>3, <1>4, <1>5, PartsAre DEF RegisterType
<1>7. LogType' BY <1>1, <1>3, PartsAre DEF LogType
<1>8. QED BY <1>6, <1>7

(* The intent of an argument hook, under a fresh identity. *)
LEMMA BeginCallHookTypes ==
  ASSUME TypeInv, pending # <<>>, BeginCallHook
  PROVE  RegisterType' /\ LogType'
<1>0. Head(pending) = pending[1] /\ 1 \in DOMAIN pending /\ pending[1].call \in Call /\ <<>> \in Seq(Nat)
  <2>1. <<>> \in Seq(Nat) OBVIOUS
  <2>2. QED BY <2>1, PendingIs
<1>1. /\ effect' = [kind |-> "hook", id |-> ids, call |-> pending[1].call, request |-> 0,
                    hook |-> hook, chain |-> <<>>]
      /\ ids' = ids + 1 /\ UNCHANGED <<status, pending, request, log>>
  BY <1>0 DEF BeginCallHook
<1>2. hook \in Nat /\ ids \in Nat \ {0} BY PartsAre DEF LocalType, RegisterType
<1>3. ids \in Kept' /\ ids' \in Nat \ {0} /\ Kept \subseteq Kept' BY <1>1, <1>2 DEF Kept
<1>4. effect' \in [kind : {"none", "model", "hook", "tool"}, id : Nat, call : Call \cup {NoCall},
                   request : Nat, hook : Nat, chain : Seq(Nat)] /\ effect'.id = ids
  BY <1>0, <1>1, <1>2
<1>5. RegisterType' BY <1>1, <1>3, <1>4, PartsAre DEF RegisterType
<1>6. LogType' BY <1>1, <1>3, PartsAre DEF LogType
<1>7. QED BY <1>5, <1>6

(* The intent of an executor, under the call's reserved identity. *)
LEMMA BeginToolTypes ==
  ASSUME TypeInv, pending # <<>>, BeginTool
  PROVE  RegisterType' /\ LogType'
<1>0. Head(pending) = pending[1] /\ 1 \in DOMAIN pending /\ pending[1].call \in Call /\ pending[1].id \in Nat
      /\ pending[1].id \in Kept
  BY PendingIs DEF TypeInv
<1>1. /\ effect' = [kind |-> "tool", id |-> pending[1].id, call |-> pending[1].call,
                    request |-> 0, hook |-> 0, chain |-> chain]
      /\ UNCHANGED <<status, pending, request, log, ids>>
  BY <1>0 DEF BeginTool
<1>2. chain \in Seq(Nat) BY PartsAre DEF LocalType
<1>3. effect' \in [kind : {"none", "model", "hook", "tool"}, id : Nat, call : Call \cup {NoCall},
                   request : Nat, hook : Nat, chain : Seq(Nat)] /\ effect'.id \in Kept
  BY <1>0, <1>1, <1>2
<1>4. RegisterType' BY <1>1, <1>3, PartsAre DEF RegisterType, Kept
<1>5. LogType' BY <1>1, PartsAre DEF LogType, Kept
<1>6. QED BY <1>4, <1>5

(* Within a batch there is a next call, and the rest is a batch. *)
LEMMA TailIs ==
  ASSUME TypeInv, EffectsInv, at \in InBatch \ {"dispatch"}
  PROVE  Tail(calls) \in Seq(Call) /\ Head(calls) \in Call
<1>1. calls \in Seq(Call) /\ calls # <<>>
  BY PendingIs, PartsAre DEF EffectsInv, PlaceInv, LocalType
<1>2. QED BY <1>1

(* The hook chain and the round count stay in their ranges when they grow. *)
LEMMA LocalsAre ==
  ASSUME TypeInv
  PROVE  /\ hook + 1 \in Nat /\ Append(chain, hook) \in Seq(Nat) /\ <<>> \in Seq(Nat) /\ <<>> \in Seq(Call)
         /\ 0 \in 0..scope.rounds /\ (round < scope.rounds => round + 1 \in 0..scope.rounds)
<1>1. hook \in Nat /\ chain \in Seq(Nat) /\ round \in 0..scope.rounds /\ scope \in Scopes
  BY PartsAre DEF LocalType
<1>2. scope.rounds \in Nat BY <1>1, Bounds
<1>3. Append(chain, hook) \in Seq(Nat) BY <1>1
<1>4. QED BY <1>1, <1>2, <1>3

(* A step that leaves the round, the batch and the outcome alone. *)
LEMMA MovesLocal ==
  ASSUME TypeInv, UNCHANGED <<calls, outcome, doubt, ctx, round, ask, failed, faults, scope>>,
         at' \in Places \ {"finish"}, hook' \in Nat, chain' \in Seq(Nat),
         runs' \in [Call -> Nat], acted' \subseteq Call
  PROVE  LocalType'
BY PartsAre DEF LocalType

(* A step that ends the run. *)
LEMMA FinishesLocal ==
  ASSUME TypeInv, UNCHANGED <<calls, ctx, round, ask, failed, hook, chain, faults, runs, acted, scope>>,
         NEW s \in Terminals, Finish(s)
  PROVE  LocalType'
BY PartsAre DEF LocalType, Finish, Places

(* The Engine's reaction to a committed result. *)
LEMMA AnswersLocal ==
  ASSUME TypeInv, EffectsInv, at \in InBatch \ {"dispatch"},
         UNCHANGED <<ctx, round, ask, failed, hook, chain, faults, runs, acted, scope>>,
         NEW s, NEW k, NEW u, NEW sel, SettleCall(s, k, u, sel)
  PROVE  LocalType'
<1>1. calls' \in Seq(Call) BY TailIs DEF SettleCall, Answered
<1>2. /\ UNCHANGED doubt
      /\ (at' = "finish" /\ outcome' = "interruption") \/ (at' = "dispatch" /\ UNCHANGED outcome)
  BY DEF SettleCall, Answered, Finish, answerVars
<1>3. QED BY <1>1, <1>2, PartsAre DEF LocalType, Places, Terminals

(* The loop head keeps the types. *)
LEMMA LoopTypes == ASSUME TypeInv, EffectsInv, Loop PROVE TypeInv'
<1>1. LocalType'
  BY PartsAre DEF Loop, Goto, Finish, roundVars, hookVars, answerVars, worldVars, LocalType,
       Places, Terminals, Evidence
<1>2. ASSUME UNCHANGED <<registerVars, log, ids>>
      PROVE  RegisterType' /\ LogType'
  BY <1>2, StillTypes
<1>3. RegisterType' /\ LogType'
  BY <1>2 DEF Loop, durableVars, registerVars
<1>4. QED BY <1>1, <1>3, TypeParts

(* The request source keeps the types. *)
LEMMA SourceTypes == ASSUME TypeInv, EffectsInv, Source PROVE TypeInv'
<1>1. LocalType'
  <2>1. UNCHANGED <<calls, ctx, faults, runs, acted, scope>> BY DEF Source, worldVars
  <2>2. ASSUME NEW s \in Terminals, Finish(s), UNCHANGED <<ids, roundVars, hookVars>> PROVE LocalType'
    BY <2>1, <2>2, FinishesLocal DEF roundVars, hookVars
  <2>3. ASSUME round < scope.rounds, round' = round + 1, ask' = ids, hook' = 1, chain' = <<>>,
               at' = "requestHooks", UNCHANGED <<failed, answerVars>>
        PROVE  LocalType'
    BY <2>1, <2>3, LocalsAre, PartsAre DEF LocalType, RegisterType, Places, answerVars
  <2>4. QED BY <2>2, <2>3 DEF Source, Goto, Terminals
<1>2. ASSUME UNCHANGED <<registerVars, log>>, ids' = ids \/ ids' = ids + 1
      PROVE  RegisterType' /\ LogType'
  <2>1. ids \in Nat \ {0} BY DEF TypeInv
  <2>2. ids' \in Nat \ {0} /\ Kept \subseteq Kept' BY <1>2, <2>1 DEF Kept
  <2>3. QED BY <1>2, <2>2, PartsAre DEF RegisterType, LogType, registerVars
<1>3. RegisterType' /\ LogType'
  BY <1>2 DEF Source, durableVars, registerVars
<1>4. QED BY <1>1, <1>3, TypeParts

(* The next request hook keeps the types. *)
LEMMA NextRequestHookTypes == ASSUME TypeInv, EffectsInv, NextRequestHook PROVE TypeInv'
<1>1. LocalType'
  <2>1. UNCHANGED <<calls, ctx, round, ask, failed, faults, runs, acted, scope>>
    BY DEF NextRequestHook, roundVars, worldVars
  <2>2. ASSUME NEW s \in Terminals, Finish(s), UNCHANGED hookVars PROVE LocalType'
    BY <2>1, <2>2, FinishesLocal DEF hookVars
  <2>3. ASSUME at' \in {"round", "requestHooks", "requestGate"}, UNCHANGED answerVars,
               UNCHANGED hookVars \/ (hook' = hook + 1 /\ chain' = Append(chain, hook))
        PROVE  LocalType'
    <3>1. hook' \in Nat /\ chain' \in Seq(Nat) BY <2>3, LocalsAre, PartsAre DEF LocalType, hookVars
    <3>2. UNCHANGED <<outcome, doubt>> BY <2>3 DEF answerVars
    <3>3. runs \in [Call -> Nat] /\ acted \subseteq Call BY PartsAre DEF LocalType
    <3>4. QED BY <2>1, <2>3, <3>1, <3>2, <3>3, MovesLocal DEF Places
  <2>4. QED BY <2>2, <2>3 DEF NextRequestHook, Goto, Terminals
<1>2. ASSUME UNCHANGED <<registerVars, log, ids>>
      PROVE  RegisterType' /\ LogType'
  BY <1>2, StillTypes
<1>3. ASSUME NEW k \in {"hook", "model"}, NEW h \in Nat, BeginRequestEffect(k, h)
      PROVE  RegisterType' /\ LogType'
  BY <1>3, BeginRequestTypes
<1>4. RegisterType' /\ LogType'
  BY <1>2, <1>3, PartsAre DEF NextRequestHook, durableVars, registerVars, LocalType
<1>5. QED BY <1>1, <1>4, TypeParts

(* The gate before a request hook's Run keeps the types. *)
LEMMA RequestHookGateTypes == ASSUME TypeInv, EffectsInv, RequestHookGate PROVE TypeInv'
<1>1. LocalType'
  BY PartsAre DEF RequestHookGate, Goto, Finish, roundVars, hookVars, answerVars, worldVars,
       LocalType, Places, Terminals, Evidence
<1>2. ASSUME NEW s, NEW k, CommitHook(s, k)
      PROVE  RegisterType' /\ LogType'
  <2>1. effect.kind = "hook"
    BY  DEF RequestHookGate, EffectsInv, PlaceInv, EffectPlaced
  <2>2. QED BY <1>2, <2>1, HookTypes
<1>3. ASSUME UNCHANGED <<registerVars, log, ids>>
      PROVE  RegisterType' /\ LogType'
  BY <1>3, StillTypes
<1>4. RegisterType' /\ LogType'
  BY <1>2, <1>3 DEF RequestHookGate, durableVars, registerVars
<1>5. QED BY <1>1, <1>4, TypeParts

(* A request hook's return keeps the types. *)
LEMMA RequestHookReturnsTypes == ASSUME TypeInv, EffectsInv, RequestHookReturns PROVE TypeInv'
<1>1. LocalType'
  <2>1. UNCHANGED <<calls, ctx, round, ask, failed, faults, runs, acted, scope>>
    BY DEF RequestHookReturns, roundVars, worldVars
  <2>2. ASSUME NEW s \in Terminals, Finish(s), UNCHANGED hookVars PROVE LocalType'
    BY <2>1, <2>2, FinishesLocal DEF hookVars
  <2>3. ASSUME at' = "requestHooks", UNCHANGED answerVars, hook' = hook + 1, chain' = Append(chain, hook)
        PROVE  LocalType'
    <3>1. hook' \in Nat /\ chain' \in Seq(Nat) BY <2>3, LocalsAre
    <3>2. UNCHANGED <<outcome, doubt>> BY <2>3 DEF answerVars
    <3>3. runs \in [Call -> Nat] /\ acted \subseteq Call BY PartsAre DEF LocalType
    <3>4. QED BY <2>1, <2>3, <3>1, <3>2, <3>3, MovesLocal DEF Places
  <2>4. QED BY <2>2, <2>3 DEF RequestHookReturns, Goto, Terminals
<1>2. ASSUME NEW s, NEW k, CommitHook(s, k)
      PROVE  RegisterType' /\ LogType'
  <2>1. effect.kind = "hook"
    BY  DEF RequestHookReturns, EffectsInv, PlaceInv, EffectPlaced
  <2>2. QED BY <1>2, <2>1, HookTypes
<1>3. RegisterType' /\ LogType'
  BY <1>2 DEF RequestHookReturns, durableVars, registerVars
<1>4. QED BY <1>1, <1>3, TypeParts

(* The checks before the model effect keeps the types. *)
LEMMA RoundTypes == ASSUME TypeInv, EffectsInv, Round PROVE TypeInv'
<1>1. LocalType'
  BY PartsAre DEF Round, Goto, Finish, roundVars, hookVars, answerVars, worldVars,
       LocalType, Places, Terminals, Evidence
<1>2. ASSUME UNCHANGED <<registerVars, log, ids>>
      PROVE  RegisterType' /\ LogType'
  BY <1>2, StillTypes
<1>3. RegisterType' /\ LogType'
  BY <1>2 DEF Round, durableVars, registerVars
<1>4. QED BY <1>1, <1>3, TypeParts

(* The model intent keeps the types. *)
LEMMA BeginModelTypes == ASSUME TypeInv, EffectsInv, BeginModel PROVE TypeInv'
<1>1. LocalType'
  BY PartsAre DEF BeginModel, Goto, Finish, roundVars, hookVars, answerVars, worldVars,
       LocalType, Places, Terminals, Evidence, Retries
<1>2. ASSUME NEW s \in Terminals, Terminate(s, <<>>)
      PROVE  RegisterType' /\ LogType'
  BY <1>2, TerminateTypes
<1>3. ASSUME NEW k \in {"hook", "model"}, NEW h \in Nat, BeginRequestEffect(k, h)
      PROVE  RegisterType' /\ LogType'
  BY <1>3, BeginRequestTypes
<1>4. RegisterType' /\ LogType'
  BY <1>2, <1>3 DEF BeginModel, durableVars, registerVars, Terminals
<1>5. QED BY <1>1, <1>4, TypeParts

(* The check before a physical attempt keeps the types. *)
LEMMA AttemptTypes == ASSUME TypeInv, EffectsInv, Attempt PROVE TypeInv'
<1>1. LocalType'
  BY PartsAre DEF Attempt, Goto, Finish, roundVars, hookVars, answerVars, worldVars,
       LocalType, Places, Terminals, Evidence
<1>2. ASSUME NEW s \in Terminals, Terminate(s, <<>>)
      PROVE  RegisterType' /\ LogType'
  BY <1>2, TerminateTypes
<1>3. ASSUME UNCHANGED <<registerVars, log, ids>>
      PROVE  RegisterType' /\ LogType'
  BY <1>3, StillTypes
<1>4. RegisterType' /\ LogType'
  BY <1>2, <1>3 DEF Attempt, durableVars, registerVars, Terminals
<1>5. QED BY <1>1, <1>4, TypeParts

(* A failed attempt keeps the types. *)
LEMMA AttemptFailsTypes == ASSUME TypeInv, EffectsInv, AttemptFails PROVE TypeInv'
<1>1. LocalType'
  BY PartsAre DEF AttemptFails, MayRetry, Goto, Finish, roundVars, hookVars, answerVars,
       worldVars, LocalType, Places, Terminals, Evidence, Retries
<1>2. ASSUME NEW s \in Terminals, Terminate(s, <<>>)
      PROVE  RegisterType' /\ LogType'
  BY <1>2, TerminateTypes
<1>3. ASSUME UNCHANGED <<registerVars, log, ids>>
      PROVE  RegisterType' /\ LogType'
  BY <1>3, StillTypes
<1>4. RegisterType' /\ LogType'
  BY <1>2, <1>3 DEF AttemptFails, durableVars, registerVars, Terminals
<1>5. QED BY <1>1, <1>4, TypeParts

(* An accepted stream keeps the types. *)
LEMMA ModelReturnsTypes == ASSUME TypeInv, EffectsInv, ModelReturns PROVE TypeInv'
<1>1. ASSUME NEW s \in Terminals, NEW produced \in {<<>>, <<Partial>>}, Terminate(s, produced)
      PROVE  RegisterType' /\ LogType'
  <2>1. at = "calling" BY DEF ModelReturns
  <2>2. QED BY <1>1, <2>1, TerminateTypes
<1>2. ASSUME NEW b \in Batches, OutputCompleted(b)
      PROVE  RegisterType' /\ LogType' /\ calls' \in Seq(Call)
  <2>1. b \in Seq(Call) /\ at = "calling" /\ calls \in Seq(Call)
    BY BatchIs, PartsAre DEF ModelReturns, LocalType
  <2>2. CASE Repeats(b) BY <1>1, <1>2, <2>1, <2>2 DEF OutputCompleted, Terminals
  <2>3. CASE ~Repeats(b)
    <3>1. calls' = b BY <1>2, <2>3 DEF OutputCompleted
    <3>2. QED BY <1>2, <2>1, <2>3, <3>1, CompletedTypes
  <2>4. QED BY <2>2, <2>3
<1>3. ASSUME OutputPartial PROVE RegisterType' /\ LogType'
  <2>1. at = "calling" BY DEF ModelReturns
  <2>2. QED BY <1>3, <2>1, PartialTypes
<1>4. RegisterType' /\ LogType'
  BY <1>1, <1>2, <1>3 DEF ModelReturns, OutputTerminal, Partial, Terminals
<1>5. calls' \in Seq(Call)
  BY <1>2, PartsAre DEF ModelReturns, OutputPartial, OutputTerminal, LocalType
<1>6. \/ at' \in {"loop", "dispatch"} /\ UNCHANGED outcome
      \/ at' = "finish" /\ outcome' \in Terminals
  BY DEF ModelReturns, OutputCompleted, OutputPartial, OutputTerminal, Finish, Goto, answerVars, Terminals
<1>7. UNCHANGED <<ctx, roundVars, hookVars, faults, worldVars, scope, doubt>>
  BY DEF ModelReturns, OutputCompleted, OutputPartial, OutputTerminal, Finish, answerVars
<1>8. LocalType'
  BY <1>5, <1>6, <1>7, PartsAre DEF LocalType, roundVars, hookVars, worldVars, Places
<1>9. QED BY <1>4, <1>8, TypeParts

(* The dispatch of one call keeps the types. *)
LEMMA DispatchTypes == ASSUME TypeInv, EffectsInv, Dispatch PROVE TypeInv'
<1>1. LocalType'
  BY PartsAre DEF Dispatch, Goto, Finish, roundVars, hookVars, answerVars, worldVars,
       LocalType, Places, Terminals, Evidence
<1>2. ASSUME UNCHANGED <<registerVars, log, ids>>
      PROVE  RegisterType' /\ LogType'
  BY <1>2, StillTypes
<1>3. RegisterType' /\ LogType'
  BY <1>2 DEF Dispatch, durableVars, registerVars
<1>4. QED BY <1>1, <1>3, TypeParts

(* The entry of toolEffect keeps the types. *)
LEMMA ToolEntryTypes == ASSUME TypeInv, EffectsInv, ToolEntry PROVE TypeInv'
<1>1. LocalType'
  <2>1. at \in InBatch \ {"dispatch"} /\ UNCHANGED <<ctx, round, ask, failed, faults, runs, acted, scope>>
    BY DEF ToolEntry, InBatch, roundVars, worldVars
  <2>2. ASSUME NEW s, NEW k, NEW u, NEW sel, SettleCall(s, k, u, sel), UNCHANGED hookVars PROVE LocalType'
    BY <2>1, <2>2, AnswersLocal DEF hookVars
  <2>3. ASSUME at' \in {"argumentHooks"}, UNCHANGED <<calls, answerVars>>,
               hook' \in Nat, chain' \in Seq(Nat)
        PROVE  LocalType'
    <3>1. UNCHANGED <<outcome, doubt>> BY <2>3 DEF answerVars
    <3>2. runs \in [Call -> Nat] /\ acted \subseteq Call BY PartsAre DEF LocalType
    <3>3. QED BY <2>1, <2>3, <3>1, <3>2, MovesLocal DEF Places
  <2>4. hook \in Nat /\ chain \in Seq(Nat) BY PartsAre DEF LocalType
  <2>5. CASE hook' = 1 /\ chain' = <<>> /\ at' = "argumentHooks" /\ UNCHANGED <<calls, answerVars>>
    <3>1. hook' \in Nat /\ chain' \in Seq(Nat) BY <2>5, LocalsAre
    <3>2. QED BY <2>3, <2>5, <3>1
  <2>6. QED BY <2>2, <2>5 DEF ToolEntry, Goto
<1>2. ASSUME NEW s, NEW k, NEW u, NEW sel, CommitTool(s, k, u, sel)
      PROVE  RegisterType' /\ LogType'
  <2>1. at \in InBatch \ {"dispatch"}
    BY  DEF ToolEntry, InBatch
  <2>2. QED BY <1>2, <2>1, AnswerTypes
<1>3. ASSUME UNCHANGED <<registerVars, log, ids>>
      PROVE  RegisterType' /\ LogType'
  BY <1>3, StillTypes
<1>4. RegisterType' /\ LogType'
  BY <1>2, <1>3 DEF ToolEntry, SettleCall, durableVars, registerVars
<1>5. QED BY <1>1, <1>4, TypeParts

(* The next argument hook keeps the types. *)
LEMMA NextArgumentHookTypes == ASSUME TypeInv, EffectsInv, NextArgumentHook PROVE TypeInv'
<1>1. LocalType'
  <2>1. at \in InBatch \ {"dispatch"} /\ UNCHANGED <<ctx, round, ask, failed, faults, runs, acted, scope>>
    BY DEF NextArgumentHook, InBatch, roundVars, worldVars
  <2>2. ASSUME NEW s, NEW k, NEW u, NEW sel, SettleCall(s, k, u, sel), UNCHANGED hookVars PROVE LocalType'
    BY <2>1, <2>2, AnswersLocal DEF hookVars
  <2>3. ASSUME at' \in {"prepare", "argumentHooks", "hookGate"}, UNCHANGED <<calls, answerVars>>,
               hook' \in Nat, chain' \in Seq(Nat)
        PROVE  LocalType'
    <3>1. UNCHANGED <<outcome, doubt>> BY <2>3 DEF answerVars
    <3>2. runs \in [Call -> Nat] /\ acted \subseteq Call BY PartsAre DEF LocalType
    <3>3. QED BY <2>1, <2>3, <3>1, <3>2, MovesLocal DEF Places
  <2>4. hook \in Nat /\ chain \in Seq(Nat) BY PartsAre DEF LocalType
  <2>5. QED BY <2>2, <2>3, <2>4, LocalsAre DEF NextArgumentHook, Goto, hookVars
<1>2. ASSUME NEW s, NEW k, NEW u, NEW sel, CommitTool(s, k, u, sel)
      PROVE  RegisterType' /\ LogType'
  <2>1. at \in InBatch \ {"dispatch"}
    BY  DEF NextArgumentHook, InBatch
  <2>2. QED BY <1>2, <2>1, AnswerTypes
<1>3. ASSUME UNCHANGED <<registerVars, log, ids>>
      PROVE  RegisterType' /\ LogType'
  BY <1>3, StillTypes
<1>4. ASSUME BeginCallHook
      PROVE  RegisterType' /\ LogType'
  <2>1. pending # <<>>
    BY  DEF NextArgumentHook, EffectsInv, PlaceInv, InBatch
  <2>2. QED BY <1>4, <2>1, BeginCallHookTypes
<1>5. RegisterType' /\ LogType'
  BY <1>2, <1>3, <1>4 DEF NextArgumentHook, SettleCall, durableVars, registerVars
<1>6. QED BY <1>1, <1>5, TypeParts

(* The gate before an argument hook's Run keeps the types. *)
LEMMA HookGateTypes == ASSUME TypeInv, EffectsInv, HookGate PROVE TypeInv'
<1>1. LocalType'
  BY PartsAre DEF HookGate, HookFails, Goto, Finish, roundVars, hookVars, answerVars,
       worldVars, LocalType, Places, Terminals, Evidence
<1>2. ASSUME NEW s, NEW k, CommitHook(s, k)
      PROVE  RegisterType' /\ LogType'
  <2>1. effect.kind = "hook"
    BY  DEF HookGate, EffectsInv, PlaceInv, EffectPlaced
  <2>2. QED BY <1>2, <2>1, HookTypes
<1>3. ASSUME UNCHANGED <<registerVars, log, ids>>
      PROVE  RegisterType' /\ LogType'
  BY <1>3, StillTypes
<1>4. RegisterType' /\ LogType'
  BY <1>2, <1>3 DEF HookGate, HookFails, durableVars, registerVars
<1>5. QED BY <1>1, <1>4, TypeParts

(* An argument hook's return keeps the types. *)
LEMMA HookReturnsTypes == ASSUME TypeInv, EffectsInv, HookReturns PROVE TypeInv'
<1>1. LocalType'
  <2>1. UNCHANGED <<calls, ctx, round, ask, failed, faults, runs, acted, scope>>
    BY DEF HookReturns, roundVars, worldVars
  <2>2. ASSUME NEW s \in {"error", "interrupted"}, NEW k \in Evidence, HookFails(s, k) PROVE LocalType'
    <3>1. outcome' = s /\ doubt' = k /\ at' = "hookSettle" /\ UNCHANGED <<hook, chain>>
      BY <2>2 DEF HookFails, Goto, hookVars
    <3>2. QED BY <2>1, <2>2, <3>1, PartsAre DEF LocalType, Places
  <2>3. ASSUME at' = "argumentHooks", UNCHANGED answerVars, hook' = hook + 1, chain' = Append(chain, hook)
        PROVE  LocalType'
    <3>1. hook' \in Nat /\ chain' \in Seq(Nat) BY <2>3, LocalsAre
    <3>2. UNCHANGED <<outcome, doubt>> BY <2>3 DEF answerVars
    <3>3. runs \in [Call -> Nat] /\ acted \subseteq Call BY PartsAre DEF LocalType
    <3>4. QED BY <2>1, <2>3, <3>1, <3>2, <3>3, MovesLocal DEF Places
  <2>4. QED BY <2>2, <2>3 DEF HookReturns, Goto
<1>2. ASSUME NEW s, NEW k, CommitHook(s, k)
      PROVE  RegisterType' /\ LogType'
  <2>1. effect.kind = "hook"
    BY  DEF HookReturns, EffectsInv, PlaceInv, EffectPlaced
  <2>2. QED BY <1>2, <2>1, HookTypes
<1>3. RegisterType' /\ LogType'
  BY <1>2 DEF HookReturns, HookFails, durableVars, registerVars
<1>4. QED BY <1>1, <1>3, TypeParts

(* The transaction after a failed hook keeps the types. *)
LEMMA HookSettleTypes == ASSUME TypeInv, EffectsInv, HookSettle PROVE TypeInv'
<1>1. LocalType'
  <2>1. at \in InBatch \ {"dispatch"} /\ UNCHANGED <<ctx, round, ask, failed, faults, runs, acted, scope>>
    BY DEF HookSettle, InBatch, roundVars, worldVars
  <2>2. ASSUME NEW s, NEW k, NEW u, NEW sel, SettleCall(s, k, u, sel), UNCHANGED hookVars PROVE LocalType'
    BY <2>1, <2>2, AnswersLocal DEF hookVars
  <2>3. QED BY <2>2 DEF HookSettle, hookVars
<1>2. ASSUME NEW s, NEW k, NEW u, NEW sel, CommitTool(s, k, u, sel)
      PROVE  RegisterType' /\ LogType'
  <2>1. at \in InBatch \ {"dispatch"}
    BY  DEF HookSettle, InBatch
  <2>2. QED BY <1>2, <2>1, AnswerTypes
<1>3. RegisterType' /\ LogType'
  BY <1>2 DEF HookSettle, SettleCall, durableVars, registerVars
<1>4. QED BY <1>1, <1>3, TypeParts

(* Preparation and permission keeps the types. *)
LEMMA PrepareTypes == ASSUME TypeInv, EffectsInv, Prepare PROVE TypeInv'
<1>1. LocalType'
  <2>1. at \in InBatch \ {"dispatch"} /\ UNCHANGED <<ctx, round, ask, failed, faults, runs, acted, scope>>
    BY DEF Prepare, InBatch, roundVars, worldVars
  <2>2. ASSUME NEW s, NEW k, NEW u, NEW sel, SettleCall(s, k, u, sel), UNCHANGED hookVars PROVE LocalType'
    BY <2>1, <2>2, AnswersLocal DEF hookVars
  <2>3. ASSUME at' \in {"begin"}, UNCHANGED <<calls, answerVars>>,
               hook' \in Nat, chain' \in Seq(Nat)
        PROVE  LocalType'
    <3>1. UNCHANGED <<outcome, doubt>> BY <2>3 DEF answerVars
    <3>2. runs \in [Call -> Nat] /\ acted \subseteq Call BY PartsAre DEF LocalType
    <3>3. QED BY <2>1, <2>3, <3>1, <3>2, MovesLocal DEF Places
  <2>4. hook \in Nat /\ chain \in Seq(Nat) BY PartsAre DEF LocalType
  <2>5. QED BY <2>2, <2>3, <2>4, LocalsAre DEF Prepare, Goto, hookVars
<1>2. ASSUME NEW s, NEW k, NEW u, NEW sel, CommitTool(s, k, u, sel)
      PROVE  RegisterType' /\ LogType'
  <2>1. at \in InBatch \ {"dispatch"}
    BY  DEF Prepare, InBatch
  <2>2. QED BY <1>2, <2>1, AnswerTypes
<1>3. ASSUME UNCHANGED <<registerVars, log, ids>>
      PROVE  RegisterType' /\ LogType'
  BY <1>3, StillTypes
<1>4. RegisterType' /\ LogType'
  BY <1>2, <1>3 DEF Prepare, SettleCall, durableVars, registerVars
<1>5. QED BY <1>1, <1>4, TypeParts

(* The executor's intent keeps the types. *)
LEMMA BeginCallTypes == ASSUME TypeInv, EffectsInv, BeginCall PROVE TypeInv'
<1>1. LocalType'
  <2>1. at \in InBatch \ {"dispatch"} /\ UNCHANGED <<ctx, round, ask, failed, faults, runs, acted, scope>>
    BY DEF BeginCall, InBatch, roundVars, worldVars
  <2>2. ASSUME NEW s, NEW k, NEW u, NEW sel, SettleCall(s, k, u, sel), UNCHANGED hookVars PROVE LocalType'
    BY <2>1, <2>2, AnswersLocal DEF hookVars
  <2>3. ASSUME at' \in {"toolGate"}, UNCHANGED <<calls, answerVars>>,
               hook' \in Nat, chain' \in Seq(Nat)
        PROVE  LocalType'
    <3>1. UNCHANGED <<outcome, doubt>> BY <2>3 DEF answerVars
    <3>2. runs \in [Call -> Nat] /\ acted \subseteq Call BY PartsAre DEF LocalType
    <3>3. QED BY <2>1, <2>3, <3>1, <3>2, MovesLocal DEF Places
  <2>4. hook \in Nat /\ chain \in Seq(Nat) BY PartsAre DEF LocalType
  <2>5. QED BY <2>2, <2>3, <2>4, LocalsAre DEF BeginCall, Goto, hookVars
<1>2. ASSUME NEW s, NEW k, NEW u, NEW sel, CommitTool(s, k, u, sel)
      PROVE  RegisterType' /\ LogType'
  <2>1. at \in InBatch \ {"dispatch"}
    BY  DEF BeginCall, InBatch
  <2>2. QED BY <1>2, <2>1, AnswerTypes
<1>3. ASSUME BeginTool
      PROVE  RegisterType' /\ LogType'
  <2>1. pending # <<>>
    BY  DEF BeginCall, EffectsInv, PlaceInv, InBatch
  <2>2. QED BY <1>3, <2>1, BeginToolTypes
<1>4. RegisterType' /\ LogType'
  BY <1>2, <1>3 DEF BeginCall, SettleCall, durableVars, registerVars
<1>5. QED BY <1>1, <1>4, TypeParts

(* The gate before Execute keeps the types. *)
LEMMA ToolGateTypes == ASSUME TypeInv, EffectsInv, ToolGate PROVE TypeInv'
<1>1. LocalType'
  <2>1. at \in InBatch \ {"dispatch"} /\ UNCHANGED <<ctx, round, ask, failed, hook, chain, faults, acted, scope>>
    BY DEF ToolGate, InBatch, roundVars, hookVars
  <2>2. ASSUME NEW s, NEW k, NEW u, NEW sel, SettleCall(s, k, u, sel), UNCHANGED runs PROVE LocalType'
    BY <2>1, <2>2, AnswersLocal
  <2>3. ASSUME at' = "executing", runs' = [runs EXCEPT ![Head(calls)] = @ + 1], UNCHANGED <<calls, answerVars>>
        PROVE  LocalType'
    <3>0. Head(calls) \in Call /\ runs \in [Call -> Nat] BY <2>1, TailIs, PartsAre DEF LocalType
    <3>1. runs' \in [Call -> Nat] BY <2>3, <3>0
    <3>2. UNCHANGED <<outcome, doubt>> BY <2>3 DEF answerVars
    <3>3. hook \in Nat /\ chain \in Seq(Nat) /\ acted \subseteq Call BY PartsAre DEF LocalType
    <3>4. QED BY <2>1, <2>3, <3>1, <3>2, <3>3, MovesLocal DEF Places
  <2>4. QED BY <2>2, <2>3 DEF ToolGate, Goto
<1>2. ASSUME NEW s, NEW k, NEW u, NEW sel, CommitTool(s, k, u, sel)
      PROVE  RegisterType' /\ LogType'
  <2>1. at \in InBatch \ {"dispatch"}
    BY  DEF ToolGate, InBatch
  <2>2. QED BY <1>2, <2>1, AnswerTypes
<1>3. ASSUME UNCHANGED <<registerVars, log, ids>>
      PROVE  RegisterType' /\ LogType'
  BY <1>3, StillTypes
<1>4. RegisterType' /\ LogType'
  BY <1>2, <1>3 DEF ToolGate, SettleCall, durableVars, registerVars
<1>5. QED BY <1>1, <1>4, TypeParts

(* The executor's return keeps the types. *)
LEMMA ToolReturnsTypes == ASSUME TypeInv, EffectsInv, ToolReturns PROVE TypeInv'
<1>1. LocalType'
  <2>1. at \in InBatch \ {"dispatch"} /\ UNCHANGED <<ctx, round, ask, failed, faults, runs, acted, scope>>
    BY DEF ToolReturns, InBatch, roundVars, worldVars
  <2>2. ASSUME NEW s, NEW k, NEW u, NEW sel, SettleCall(s, k, u, sel), UNCHANGED hookVars PROVE LocalType'
    BY <2>1, <2>2, AnswersLocal DEF hookVars
  <2>3. QED BY <2>2 DEF ToolReturns, hookVars
<1>2. ASSUME NEW s, NEW k, NEW u, NEW sel, CommitTool(s, k, u, sel)
      PROVE  RegisterType' /\ LogType'
  <2>1. at \in InBatch \ {"dispatch"}
    BY  DEF ToolReturns, InBatch
  <2>2. QED BY <1>2, <2>1, AnswerTypes
<1>3. RegisterType' /\ LogType'
  BY <1>2 DEF ToolReturns, SettleCall, durableVars, registerVars
<1>4. QED BY <1>1, <1>3, TypeParts

(* The executor's action keeps the types. *)
LEMMA ActTypes == ASSUME TypeInv, EffectsInv, Act PROVE TypeInv'
<1>1. LocalType'
  <2>1. /\ UNCHANGED <<at, calls, outcome, doubt, ctx, round, ask, failed, hook, chain, faults, runs, scope>>
        /\ acted' = acted \cup {Head(calls)} /\ at = "executing"
    BY DEF Act, roundVars, hookVars, answerVars
  <2>2. Head(calls) \in Call BY <2>1, TailIs DEF InBatch
  <2>3. QED BY <2>1, <2>2, PartsAre, MovesLocal DEF LocalType, Places
<1>2. ASSUME UNCHANGED <<registerVars, log, ids>>
      PROVE  RegisterType' /\ LogType'
  BY <1>2, StillTypes
<1>3. RegisterType' /\ LogType'
  BY <1>2 DEF Act, durableVars, registerVars
<1>4. QED BY <1>1, <1>3, TypeParts

(* The quiet gate keeps the types. *)
LEMMA CompleteTypes == ASSUME TypeInv, EffectsInv, Complete PROVE TypeInv'
<1>1. LocalType'
  BY PartsAre DEF Complete, Guarded, Goto, Finish, roundVars, hookVars, answerVars,
       worldVars, LocalType, Places, Terminals, Evidence
<1>2. ASSUME NEW s \in Terminals, Terminate(s, <<>>)
      PROVE  RegisterType' /\ LogType'
  BY <1>2, TerminateTypes
<1>3. ASSUME UNCHANGED <<registerVars, log, ids>>
      PROVE  RegisterType' /\ LogType'
  BY <1>3, StillTypes
<1>4. RegisterType' /\ LogType'
  BY <1>2, <1>3, PartsAre DEF Complete, durableVars, registerVars, Terminals, Guarded,
       LocalType
<1>5. QED BY <1>1, <1>4, TypeParts

(* A publication failure keeps the types. *)
LEMMA PublicationFailsTypes == ASSUME TypeInv, EffectsInv, PublicationFails PROVE TypeInv'
<1>1. LocalType'
  <2>1. /\ UNCHANGED <<calls, outcome, doubt, ctx, round, ask, failed, hook, chain, runs, acted, scope>>
        /\ faults' = faults + 1 /\ faults < MaxFaults /\ at' = "done"
    BY DEF PublicationFails, Goto, roundVars, hookVars, answerVars, worldVars
  <2>2. faults' \in 0..MaxFaults BY <2>1, Bounds, PartsAre DEF LocalType
  <2>3. QED BY <2>1, <2>2, PartsAre DEF LocalType, Places
<1>2. ASSUME UNCHANGED <<registerVars, log, ids>>
      PROVE  RegisterType' /\ LogType'
  BY <1>2, StillTypes
<1>3. RegisterType' /\ LogType'
  BY <1>2 DEF PublicationFails, Publishing, durableVars, registerVars
<1>4. QED BY <1>1, <1>3, TypeParts

(* A cancellation keeps the types. *)
LEMMA CancelTypes == ASSUME TypeInv, EffectsInv, Cancel PROVE TypeInv'
<1>1. LocalType'
  BY PartsAre DEF Cancel, Goto, Finish, roundVars, hookVars, answerVars, worldVars,
       LocalType, Places, Terminals, Evidence
<1>2. ASSUME UNCHANGED <<registerVars, log, ids>>
      PROVE  RegisterType' /\ LogType'
  BY <1>2, StillTypes
<1>3. RegisterType' /\ LogType'
  BY <1>2 DEF Cancel, durableVars, registerVars
<1>4. QED BY <1>1, <1>3, TypeParts

(* The loss of the process keeps the types. *)
LEMMA CrashTypes == ASSUME TypeInv, EffectsInv, Crash PROVE TypeInv'
<1>1. LocalType'
  <2>1. /\ at' = "down" /\ ctx' = "live" /\ round' = 0 /\ ask' = 0 /\ failed' = 0 /\ calls' = <<>>
        /\ hook' = 0 /\ chain' = <<>> /\ outcome' = "none" /\ doubt' = "none"
        /\ UNCHANGED <<faults, runs, acted, scope>>
    BY DEF Crash, worldVars
  <2>2. 0 \in 0..(Retries + 1) BY DEF Retries
  <2>3. QED BY <2>1, <2>2, LocalsAre, PartsAre DEF LocalType, Places
<1>2. ASSUME UNCHANGED <<registerVars, log, ids>>
      PROVE  RegisterType' /\ LogType'
  BY <1>2, StillTypes
<1>3. RegisterType' /\ LogType'
  BY <1>2 DEF Crash, durableVars, registerVars
<1>4. QED BY <1>1, <1>3, TypeParts

(* Recovery keeps the types. *)
LEMMA RecoverTypes == ASSUME TypeInv, EffectsInv, Recover PROVE TypeInv'
<1>1. LocalType'
  BY PartsAre DEF Recover, Goto, Finish, roundVars, hookVars, answerVars, worldVars,
       LocalType, Places, Terminals, Evidence
<1>2. ASSUME NEW s \in Terminals, Terminate(s, <<>>)
      PROVE  RegisterType' /\ LogType'
  BY <1>2, TerminateTypes
<1>3. RegisterType' /\ LogType'
  BY <1>2 DEF Recover, durableVars, registerVars, Terminals
<1>4. QED BY <1>1, <1>3, TypeParts

(* The model intent owes its request an owner. *)
LEMMA BeginModelKeeps == ASSUME TypeInv, EffectsInv, BeginModel PROVE EffectsInv'
<1>. USE DEF EffectsInv
<1>1. CASE Canceled
  <2>1. /\ Terminate("interruption", <<>>) /\ at' = "finish" /\ UNCHANGED <<runs, acted, asked>>
        /\ <<>> \in {<<>>, <<Partial>>}
    BY <1>1 DEF BeginModel, Finish
  <2>2. QED BY <2>1, TerminateKeeps DEF Terminals
<1>2. CASE ~Canceled
  <2>1. /\ effect' = [kind |-> "model", id |-> ids, call |-> NoCall, request |-> ask, hook |-> 0, chain |-> chain]
        /\ request' = IF request = NoRequest THEN [id |-> ask, results |-> <<>>] ELSE request
        /\ ids' = ids + 1 /\ at = "model" /\ at' = "attempt" /\ asked' = asked \cup {ask}
        /\ UNCHANGED <<status, pending, log, ask, calls, runs, acted>>
    BY <1>2 DEF BeginModel, BeginRequestEffect, Goto
  <2>2. /\ effect'.kind = "model" /\ effect'.call = NoCall /\ effect'.request = ask
        /\ effect = NoEffect /\ NoEffect.kind = "none" /\ pending = <<>> /\ status = "running"
    BY <2>1 DEF PlaceInv, EffectPlaced, BeforeOutput, NoEffect
  <2>3. ask \in Kept \ asked /\ ids \in Nat \ {0} /\ request'.id = ask
    BY <2>1 DEF RequestInv, RequestPlaced, BeforeOutput, TypeInv
  <2>4. PlaceInv' BY <2>1, <2>2 DEF PlaceInv, EffectPlaced, BeforeOutput, InBatch, NoEffect
  <2>5. CallInv' BY <2>1, LogSame DEF CallInv
  <2>6. StartInv' BY <2>1, <2>2, LogSame DEF StartInv, Lost
  <2>7. DoubtInv'
    <3>1. \A i : ~Owed(i) BY <2>2 DEF Owed
    <3>2. \A i : log'[i] = log[i] /\ At(log', "hook") = At(log, "hook") BY <2>1
    <3>3. \A i \in At(log', "hook") :
            log'[i].call # NoCall /\ log'[i].evidence = "unknown" => log'[i].call \in Settled'
      BY <2>1, <3>1, <3>2, LogSame DEF DoubtInv
    <3>4. QED BY <2>1, <3>3, LogSame DEF DoubtInv
  <2>8. Kept \subseteq Kept' BY <2>1, <2>3, UpToGrows DEF Kept
  <2>9. OwnersInv'
    <3>1. asked' \subseteq Kept' BY <2>1, <2>3, <2>8 DEF RequestInv, OwnersInv
    <3>2. \A q : Owners(q)' = Owners(q) BY <2>1, LogSame
    <3>3. \A q : Owners(q)' # {} => q \in asked' BY <2>1, <3>2 DEF RequestInv, OwnersInv
    <3>4. Owners(ask) = {} BY <2>3 DEF RequestInv, OwnersInv
    <3>5. OwnedOnce'
      <4>. SUFFICES ASSUME NEW q \in asked' PROVE IF q = ask THEN Owners(q)' = {}
                                                 ELSE \E i \in DOMAIN log' : Owners(q)' = {i}
        BY <2>2 DEF OwnedOnce
      <4>1. CASE q = ask BY <3>2, <3>4, <4>1
      <4>2. CASE q # ask
        <5>1. q \in asked BY <2>1, <4>2
        <5>2. PICK i \in DOMAIN log : Owners(q) = {i} BY <2>2, <5>1 DEF RequestInv, OwnersInv, OwnedOnce
        <5>3. QED BY <2>1, <3>2, <4>2, <5>2
      <4>3. QED BY <4>1, <4>2
    <3>6. QED BY <3>1, <3>3, <3>5 DEF OwnersInv
  <2>10. RequestPlaced' BY <2>1, <2>2, <2>3 DEF RequestPlaced, BeforeOutput
  <2>11. QED BY <2>4, <2>5, <2>6, <2>7, <2>9, <2>10 DEF RequestInv
<1>3. QED BY <1>1, <1>2

(* Every accepted stream is answered, kept or settled. *)
LEMMA ModelReturnsKeeps == ASSUME TypeInv, EffectsInv, ModelReturns PROVE EffectsInv'
<1>1. at = "calling" /\ UNCHANGED <<runs, acted, asked, ask>>
  BY DEF ModelReturns, roundVars, worldVars
<1>2. ASSUME NEW s \in Terminals, NEW produced \in {<<>>, <<Partial>>}, Terminate(s, produced), Finish(s)
      PROVE  EffectsInv'
  <2>1. at' = "finish" BY <1>2 DEF Finish
  <2>2. QED BY <1>1, <1>2, <2>1, TerminateKeeps
<1>3. ASSUME NEW b \in Batches, OutputCompleted(b) PROVE EffectsInv'
  <2>1. b \in Seq(Call) BY BatchIs
  <2>2. CASE Repeats(b) BY <1>2, <1>3, <2>2 DEF OutputCompleted, Terminals
  <2>3. CASE ~Repeats(b) BY <1>1, <1>3, <2>1, <2>3, CompletedKeeps
  <2>4. QED BY <2>2, <2>3
<1>4. ASSUME OutputPartial PROVE EffectsInv' BY <1>1, <1>4, PartialKeeps
<1>5. ASSUME NEW s \in Terminals, OutputTerminal(s) PROVE EffectsInv'
  BY <1>2, <1>5 DEF OutputTerminal, Partial
<1>6. QED BY <1>3, <1>4, <1>5 DEF ModelReturns, Terminals

(* A step that changes nothing keeps everything. *)
LEMMA StutterKeeps == ASSUME TypeInv, EffectsInv, UNCHANGED vars PROVE TypeInv' /\ EffectsInv'
<1>1. UNCHANGED <<scope, status, effect, pending, request, log, ids, at, ctx, round, ask, calls, hook,
                  chain, failed, outcome, doubt, faults, runs, acted, asked>>
  BY DEF vars, durableVars, roundVars, hookVars, answerVars, worldVars
<1>2. TypeInv' BY <1>1 DEF TypeInv, TypeOK, Kept
<1>3. PlaceInv' /\ CallInv' BY <1>1, LogSame DEF EffectsInv, PlaceInv, EffectPlaced, CallInv
<1>4. StartInv' BY <1>1, LogSame DEF EffectsInv, StartInv
<1>5. DoubtInv' BY <1>1, LogSame DEF EffectsInv, DoubtInv, Owed
<1>6. RequestPlaced' BY <1>1 DEF EffectsInv, RequestInv, RequestPlaced, Kept
<1>7. OwnersInv'
  <2>1. OwnedOnce' BY <1>1, LogSame DEF EffectsInv, RequestInv, OwnersInv, OwnedOnce
  <2>2. QED BY <1>1, <2>1, LogSame DEF EffectsInv, RequestInv, OwnersInv, Kept
<1>8. QED BY <1>2, <1>3, <1>4, <1>5, <1>6, <1>7 DEF EffectsInv, RequestInv

(* A freshly admitted Operation satisfies the invariant. *)
LEMMA EffectsStart == Init => TypeInv /\ EffectsInv
<1>. SUFFICES ASSUME Init PROVE TypeInv /\ EffectsInv OBVIOUS
<1>1. /\ <<>> \in Seq(Nat) /\ <<>> \in Seq(Call) /\ <<>> \in Seq([call : Call, id : Nat, publisher : Nat])
      /\ DOMAIN <<>> = {} /\ IsSeq(<<>>)
  <2>1. <<>> \in Seq(Nat) /\ <<>> \in Seq(Call) /\ <<>> \in Seq([call : Call, id : Nat, publisher : Nat])
    OBVIOUS
  <2>2. QED BY <2>1, EmptyIs
<1>2. log = <<>> /\ pending = <<>> /\ effect = NoEffect /\ request = NoRequest /\ at = "loop" /\ status = "running"
  BY DEF Init
<1>3. TypeInv
  <2>1. RegisterType BY <1>1, <1>2, NothingTypes DEF Init, RegisterType
  <2>2. LogType BY <1>1, <1>2 DEF LogType
  <2>3. scope.rounds \in Nat BY Bounds DEF Init
  <2>4. LocalType BY <1>1, <2>3, Bounds DEF Init, LocalType, Places, Retries
  <2>5. QED BY <2>1, <2>2, <2>4 DEF TypeInv, TypeOK, RegisterType, LogType, LocalType, Kept
<1>4. \A k : At(log, k) = {} BY <1>1, <1>2 DEF At
<1>5. PlaceInv BY <1>2 DEF PlaceInv, EffectPlaced, BeforeOutput, InBatch, NoEffect
<1>6. CallInv BY <1>1, <1>2, <1>4 DEF CallInv
<1>7. StartInv BY DEF Init, StartInv
<1>8. DoubtInv BY <1>2, <1>4 DEF DoubtInv, HookDoubtKept, Owed
<1>9. RequestInv
  <2>1. asked = {} /\ effect.kind # "model" BY <1>2 DEF Init, NoEffect
  <2>2. \A q : Owners(q) = {} BY <1>4 DEF Owners
  <2>3. RequestPlaced BY <1>2, <2>1 DEF RequestPlaced, BeforeOutput
  <2>4. OwnersInv BY <2>1, <2>2 DEF OwnersInv, OwnedOnce
  <2>5. QED BY <2>3, <2>4 DEF RequestInv
<1>10. QED BY <1>3, <1>5, <1>6, <1>7, <1>8, <1>9 DEF EffectsInv

(* Every reachable state satisfies the types and the invariant. *)
THEOREM EffectsInvariance == Spec => [](TypeInv /\ EffectsInv)
<1>1. TypeInv /\ EffectsInv /\ [Next]_vars => TypeInv' /\ EffectsInv'
  <2>. SUFFICES ASSUME TypeInv, EffectsInv, [Next]_vars PROVE TypeInv' /\ EffectsInv' OBVIOUS
  <2>1. CASE EngineStep
    BY <2>1, LoopKeeps, LoopTypes, SourceKeeps, SourceTypes, RoundKeeps, RoundTypes, DispatchKeeps, DispatchTypes,
       CompleteKeeps, CompleteTypes DEF EngineStep
  <2>2. CASE RequestHookStep
    BY <2>2, NextRequestHookKeeps, NextRequestHookTypes, RequestHookGateKeeps, RequestHookGateTypes,
       RequestHookReturnsKeeps, RequestHookReturnsTypes DEF RequestHookStep
  <2>3. CASE ModelStep
    BY <2>3, BeginModelKeeps, BeginModelTypes, AttemptKeeps, AttemptTypes, AttemptFailsKeeps, AttemptFailsTypes,
       ModelReturnsKeeps, ModelReturnsTypes DEF ModelStep
  <2>4. CASE ToolStep
    BY <2>4, ToolEntryKeeps, ToolEntryTypes, NextArgumentHookKeeps, NextArgumentHookTypes, HookGateKeeps,
       HookGateTypes, HookReturnsKeeps, HookReturnsTypes, HookSettleKeeps, HookSettleTypes, PrepareKeeps,
       PrepareTypes, BeginCallKeeps, BeginCallTypes, ToolGateKeeps, ToolGateTypes, ToolReturnsKeeps,
       ToolReturnsTypes DEF ToolStep
  <2>5. CASE Act \/ PublicationFails \/ Cancel \/ Crash \/ Recover
    BY <2>5, ActKeeps, ActTypes, PublicationFailsKeeps, PublicationFailsTypes, CancelKeeps, CancelTypes,
       CrashKeeps, CrashTypes, RecoverKeeps, RecoverTypes
  <2>6. CASE UNCHANGED vars BY <2>6, StutterKeeps
  <2>7. QED BY <2>1, <2>2, <2>3, <2>4, <2>5, <2>6 DEF Next, Step
<1>2. QED BY <1>1, EffectsStart, PTL DEF Spec

(* The register, the log and the goroutine's locals keep their types,
   whatever the interleaving of steps, cancellation, failed transactions,
   loss and recovery. *)
THEOREM EffectsTyped == Spec => []TypeOK
<1>1. TypeInv /\ EffectsInv => TypeOK BY DEF TypeInv
<1>2. QED BY <1>1, EffectsInvariance, PTL

(* A pre-tool hook that may have acted is never forgotten: settleHookError,
   settleHookInterruption and commitTerminalSettlement put the uncertainty
   notice on the call's result exactly when a hook result of the call is
   unknown, for every set of calls and hooks, through cancellation, loss
   and recovery. *)
THEOREM HookDoubtSurvives == Spec => []HookDoubtKept
<1>1. TypeInv /\ EffectsInv => HookDoubtKept BY DEF EffectsInv, DoubtInv
<1>2. QED BY <1>1, EffectsInvariance, PTL

(* The invariant bounds executor starts and request owners by one. *)
LEMMA OwnedIsOne ==
  ASSUME TypeInv, EffectsInv
  PROVE  NothingTwice
<1>1. ExecutesOnce BY DEF EffectsInv, StartInv, ExecutesOnce
<1>2. RequestsOwnedOnce
  <2>. SUFFICES ASSUME NEW q \in asked, ~(effect.kind = "model" /\ effect.request = q)
                PROVE  Cardinality(Owners(q)) = 1
    BY DEF EffectsInv, RequestInv, OwnersInv, OwnedOnce, RequestsOwnedOnce
  <2>1. PICK i \in DOMAIN log : Owners(q) = {i} BY DEF EffectsInv, RequestInv, OwnersInv, OwnedOnce
  <2>2. QED BY <2>1, FS_Singleton
<1>3. QED BY <1>1, <1>2 DEF NothingTwice

(* No published call reaches its executor twice, and every request whose
   model intent was committed is owned once, in every round, retry and
   recovery (beginPendingCallEffect, publishedCallIDs, commitModelOutput,
   commitTerminalSettlement). *)
THEOREM NothingHappensTwice == Spec => []NothingTwice
<1>1. TypeInv /\ EffectsInv => NothingTwice BY OwnedIsOne
<1>2. QED BY <1>1, EffectsInvariance, PTL

(* An execution that ends without a failed transaction leaves a terminal
   Operation (complete, publishQuiet). *)
THEOREM ExecutionsEndSettled == Spec => []EndsSettled
<1>1. Init => EndsSettled BY DEF Init, EndsSettled
<1>2. ASSUME TypeInv, EffectsInv, EndsSettled, [Next]_vars PROVE EndsSettled'
  <2>. SUFFICES ASSUME at' = "done", faults' = 0 PROVE status' # "running"
    BY DEF EndsSettled
  <2>1. faults \in Nat BY <1>2, PartsAre DEF LocalType
  <2>2. CASE Complete
    <3>1. CASE Quiet
      <4>1. Terminate(Guarded(outcome), <<>>) BY <1>2, <2>2, <3>1 DEF Complete
      <4>2. Guarded(outcome) \in Terminals BY <1>2, <2>2, PartsAre DEF Complete, LocalType, Guarded, Terminals
      <4>3. QED BY <4>1, <4>2 DEF Terminate, Terminals
    <3>2. CASE ~Quiet
      <4>1. effect = NoEffect BY <1>2, <2>2 DEF Complete, EffectsInv, PlaceInv, EffectPlaced
      <4>2. UNCHANGED status BY <2>2, <3>2 DEF Complete, durableVars
      <4>3. QED BY <3>2, <4>1, <4>2 DEF Quiet
    <3>3. QED BY <3>1, <3>2
  <2>3. CASE PublicationFails BY <2>1, <2>3 DEF PublicationFails
  <2>4. CASE UNCHANGED vars BY <1>2, <2>4 DEF EndsSettled, vars, durableVars
  <2>5. CASE Loop \/ Source \/ Round \/ Dispatch
    BY <2>5 DEF Loop, Source, Round, Dispatch, Goto, Finish
  <2>6. CASE RequestHookStep
    BY <2>6 DEF RequestHookStep, NextRequestHook, RequestHookGate, RequestHookReturns, Goto, Finish
  <2>7. CASE ModelStep
    BY <2>7 DEF ModelStep, BeginModel, Attempt, AttemptFails, ModelReturns, OutputCompleted, OutputPartial,
                OutputTerminal, Goto, Finish
  <2>8. CASE ToolStep
    BY <2>8 DEF ToolStep, ToolEntry, NextArgumentHook, HookGate, HookReturns, HookSettle, Prepare, BeginCall,
                ToolGate, ToolReturns, SettleCall, Answered, HookFails, Goto, Finish
  <2>9. CASE Act \/ Cancel \/ Crash \/ Recover
    BY <2>9 DEF Act, Cancel, Crash, Recover
  <2>10. QED BY <1>2, <2>2, <2>3, <2>4, <2>5, <2>6, <2>7, <2>8, <2>9 DEF Next, Step, EngineStep
<1>3. QED BY <1>1, <1>2, EffectsInvariance, PTL DEF Spec

(* Behind a canceled context no model attempt, hook or executor starts, at
   whichever of the gates the goroutine is (runOneHook, runModelAttempts,
   toolEffect). *)
THEOREM CancellationStartsNothing == Spec => CanceledStartsNothing
<1>1. ASSUME [Next]_vars PROVE StartsNothing
  <2>. SUFFICES ASSUME Canceled, at' \in Running PROVE at' = at BY DEF StartsNothing
  <2>1. CASE EngineStep
    BY <2>1 DEF EngineStep, Loop, Source, Round, Dispatch, Complete, Goto, Finish, Running
  <2>2. CASE RequestHookStep
    BY <2>2 DEF RequestHookStep, NextRequestHook, RequestHookGate, RequestHookReturns, Goto, Finish, Running
  <2>3. CASE ModelStep
    BY <2>3 DEF ModelStep, BeginModel, Attempt, AttemptFails, ModelReturns, OutputCompleted, OutputPartial,
                OutputTerminal, Goto, Finish, Running
  <2>4. CASE ToolStep
    BY <2>4 DEF ToolStep, ToolEntry, NextArgumentHook, HookGate, HookReturns, HookSettle, Prepare, BeginCall,
                ToolGate, ToolReturns, SettleCall, Answered, HookFails, Goto, Finish, Running
  <2>5. CASE Act \/ PublicationFails \/ Cancel \/ Crash \/ Recover
    BY <2>5 DEF Act, PublicationFails, Cancel, Crash, Recover, Goto, Running
  <2>6. CASE UNCHANGED vars BY <2>6 DEF vars
  <2>7. QED BY <1>1, <2>1, <2>2, <2>3, <2>4, <2>5, <2>6 DEF Next, Step
<1>2. QED BY <1>1, PTL DEF Spec, CanceledStartsNothing

(* The promise of Ledger: what it reads of the state. *)
Phase    == IF status = "running" THEN "open" ELSE "closed"
Waiting  == [i \in DOMAIN pending |-> pending[i].call]
Verdict  == [c \in Call |-> VerdictOf(c)]

(* The calls that wait are the reserved ones, in publication order. *)
LEMMA WaitingIs ==
  ASSUME TypeInv
  PROVE  /\ Waiting \in Seq(Call) /\ Len(Waiting) = Len(pending) /\ Len(pending) \in Nat
         /\ DOMAIN Waiting = DOMAIN pending /\ DOMAIN pending = 1..Len(pending)
         /\ \A i \in DOMAIN pending : Waiting[i] = pending[i].call
         /\ Waiting = <<>> <=> pending = <<>>
         /\ pending # <<>> => Head(Waiting) = pending[1].call /\ 1 \in DOMAIN pending
<1>1. DOMAIN pending = 1..Len(pending) /\ Len(pending) \in Nat /\ \A k \in DOMAIN pending : pending[k].call \in Call
  BY PendingIs
<1>2. Waiting \in [1..Len(pending) -> Call] BY <1>1 DEF Waiting
<1>3. Waiting \in Seq(Call) /\ Len(Waiting) = Len(pending) BY <1>1, <1>2, FunctionIsSeq
<1>4. \A i \in DOMAIN pending : Waiting[i] = pending[i].call BY DEF Waiting
<1>5. (Waiting = <<>> <=> Len(Waiting) = 0) /\ (Len(Waiting) # 0 => Head(Waiting) = Waiting[1]) BY <1>3
<1>6. Len(pending) = 0 <=> pending = <<>> BY PendingIs
<1>7. Len(pending) # 0 => 1 \in DOMAIN pending BY <1>1
<1>8. DOMAIN Waiting = DOMAIN pending BY DEF Waiting
<1>9. QED BY <1>1, <1>3, <1>4, <1>5, <1>6, <1>7, <1>8

(* A call without a result has no verdict; an answered one has its
   result's, because it is answered once. *)
LEMMA VerdictIs ==
  ASSUME CallInv, NEW c
  PROVE  /\ c \notin Settled => VerdictOf(c) = "none"
         /\ \A i \in At(log, "tool") : log[i].call = c => VerdictOf(c) = log[i].evidence
BY DEF VerdictOf, Settled, CallInv

(* The same after a step. *)
LEMMA NextVerdictIs ==
  ASSUME CallInv', NEW c
  PROVE  /\ c \notin Settled' => VerdictOf(c)' = "none"
         /\ \A i \in At(log', "tool") : log'[i].call = c => VerdictOf(c)' = log'[i].evidence
BY DEF VerdictOf, Settled, CallInv

(* A step that answers no call, publishes none and closes nothing is a
   stutter. *)
LEMMA LedgerStutters ==
  ASSUME At(log', "tool") = At(log, "tool"), \A i \in At(log, "tool") : log'[i] = log[i],
         UNCHANGED <<status, pending, acted>>
  PROVE  UNCHANGED Abstract!vars
<1>1. \A c : VerdictOf(c)' = VerdictOf(c)
  <2>. SUFFICES ASSUME NEW c PROVE VerdictOf(c)' = VerdictOf(c) OBVIOUS
  <2>1. \A i : i \in At(log', "tool") /\ log'[i].call = c <=> i \in At(log, "tool") /\ log[i].call = c OBVIOUS
  <2>2. CASE \E i \in At(log, "tool") : log[i].call = c
    <3>1. (CHOOSE i \in At(log', "tool") : log'[i].call = c) = CHOOSE i \in At(log, "tool") : log[i].call = c
      BY <2>1
    <3>2. (CHOOSE i \in At(log, "tool") : log[i].call = c) \in At(log, "tool") BY <2>2
    <3>3. QED BY <2>1, <2>2, <3>1, <3>2 DEF VerdictOf
  <2>3. CASE ~\E i \in At(log, "tool") : log[i].call = c BY <2>1, <2>3 DEF VerdictOf
  <2>4. QED BY <2>2, <2>3
<1>2. QED BY <1>1 DEF Abstract!vars

(* New entries that are no tool results are invisible to the ledger. *)
LEMMA LedgerIgnoresOthers ==
  ASSUME Grown, \A i \in New : log'[i].kind # "tool", UNCHANGED <<status, pending, acted>>
  PROVE  UNCHANGED Abstract!vars
<1>1. At(log', "tool") = At(log, "tool") /\ \A i \in At(log, "tool") : log'[i] = log[i]
  BY GrownDoes DEF At, Grown
<1>2. QED BY <1>1, LedgerStutters

(* A completed output publishes its calls. *)
LEMMA LedgerPublishes ==
  ASSUME TypeInv, EffectsInv, TypeInv', EffectsInv', at = "calling",
         NEW b \in Seq(Call), ~Repeats(b), OutputCompleted(b), UNCHANGED acted
  PROVE  Abstract!Next \/ UNCHANGED Abstract!vars
<1>1. log' = Append(log, Assistant(effect.id, ask, Reserve(b), effect.chain)) /\ UNCHANGED status
  BY DEF OutputCompleted
<1>2. PICK n : Grown /\ New = {n} /\ log'[n] = Assistant(effect.id, ask, Reserve(b), effect.chain)
  BY <1>1, AppendDoes
<1>3. log'[n].kind = "assistant" BY <1>2 DEF Assistant
<1>4. /\ At(log', "tool") = At(log, "tool") /\ \A i \in At(log, "tool") : log'[i] = log[i]
      /\ \A c : c \in Settled' <=> c \in Settled
  BY <1>2, <1>3, GrownDoes DEF At, Grown
<1>5. pending = <<>> /\ status = "running" BY DEF EffectsInv, PlaceInv, BeforeOutput
<1>6. \A c \in Call : VerdictOf(c)' = VerdictOf(c)
  <2>. SUFFICES ASSUME NEW c \in Call PROVE VerdictOf(c)' = VerdictOf(c) OBVIOUS
  <2>1. CASE c \in Settled
    <3>1. PICK i \in At(log, "tool") : log[i].call = c BY <2>1 DEF Settled
    <3>2. QED BY <1>4, <3>1, VerdictIs, NextVerdictIs DEF EffectsInv
  <2>2. CASE c \notin Settled BY <1>4, <2>2, VerdictIs, NextVerdictIs DEF EffectsInv
  <2>3. QED BY <2>1, <2>2
<1>7. CASE pending' = <<>> BY <1>4, <1>1, <1>5, <1>7, LedgerStutters
<1>8. CASE pending' # <<>>
  <2>1. /\ Waiting = <<>> /\ Waiting' \in Seq(Call) \ {<<>>} /\ DOMAIN Waiting' = DOMAIN pending'
        /\ \A i \in DOMAIN pending' : Waiting'[i] = pending'[i].call
    <3>1. Waiting = <<>> BY <1>5, WaitingIs
    <3>2. DOMAIN pending' = 1..Len(pending') /\ Len(pending') \in Nat /\ pending' \in Seq([call : Call, id : Nat, publisher : Nat])
      BY DEF TypeInv, TypeOK
    <3>3. \A k \in DOMAIN pending' : pending'[k] \in [call : Call, id : Nat, publisher : Nat]
      <4>1. \A S : pending' \in Seq(S) => \A k \in DOMAIN pending' : pending'[k] \in S OBVIOUS
      <4>2. QED BY <3>2, <4>1
    <3>4. Waiting' \in [1..Len(pending') -> Call] BY <3>2, <3>3 DEF Waiting
    <3>5. Waiting' \in Seq(Call) /\ Len(Waiting') = Len(pending') BY <3>2, <3>4, FunctionIsSeq
    <3>6. Len(pending') # 0 BY <1>8, <3>2
    <3>7. Waiting' # <<>> BY <3>5, <3>6
    <3>8. QED BY <3>1, <3>5, <3>7 DEF Waiting
  <2>2. \A i, j \in DOMAIN pending' : pending'[i].call = pending'[j].call => i = j BY DEF EffectsInv, CallInv
  <2>3. \A i \in DOMAIN pending' : pending'[i].call \notin Settled BY <1>4 DEF EffectsInv, CallInv
  <2>4. \A i \in DOMAIN pending' : pending'[i].call \in Call /\ VerdictOf(pending'[i].call) = "none"
    <3>1. \A i \in DOMAIN pending' : Waiting'[i] \in Call BY <2>1
    <3>2. \A c : c \notin Settled => VerdictOf(c) = "none" BY VerdictIs DEF EffectsInv
    <3>3. QED BY <2>1, <2>3, <3>1, <3>2
  <2>5. Phase = "open" /\ Phase' = Phase BY <1>1, <1>5 DEF Phase
  <2>6. Verdict' = Verdict BY <1>6 DEF Verdict
  <2>7. \A i \in DOMAIN Waiting' : Verdict[Waiting'[i]] = "none" BY <2>1, <2>4 DEF Verdict
  <2>8. \A i, j \in DOMAIN Waiting' : Waiting'[i] = Waiting'[j] => i = j BY <2>1, <2>2
  <2>9. Abstract!Publish BY <2>1, <2>5, <2>6, <2>7, <2>8 DEF Abstract!Publish, Phase, Waiting, Verdict
  <2>10. QED BY <2>9 DEF Abstract!Next
<1>9. QED BY <1>7, <1>8

(* A committed tool result answers the call whose turn it is, truthfully. *)
LEMMA LedgerAnswers ==
  ASSUME TypeInv, EffectsInv, EffectsInv', at \in InBatch \ {"dispatch"},
         NEW s, NEW k \in Evidence, NEW u, NEW sel, CommitTool(s, k, u, sel),
         at = "executing" => Declared(k), UNCHANGED acted
  PROVE  Abstract!Next
<1>1. /\ Head(calls) = pending[1].call /\ 1 \in DOMAIN pending
      /\ pending' = Tail(pending) /\ UNCHANGED status
  BY CommitToolDoes DEF EffectsInv
<1>2. PICK x : log' = Append(log, ToolResult(pending[1], s, k, u, x))
  BY CommitToolDoes DEF EffectsInv
<1>3. PICK n : Grown /\ New = {n} /\ log'[n] = ToolResult(pending[1], s, k, u, x) BY <1>2, AppendDoes
<1>. DEFINE h == pending[1].call
<1>4. log'[n].kind = "tool" /\ log'[n].call = h /\ log'[n].evidence = k BY <1>3 DEF ToolResult
<1>5. pending # <<>> /\ Len(pending) # 0 /\ Head(Waiting) = h /\ Waiting # <<>>
  BY <1>1, WaitingIs, PendingIs
<1>6. h \in Call /\ h \notin Settled /\ status = "running"
  BY <1>1, PendingIs DEF EffectsInv, PlaceInv, CallInv, InBatch
<1>. HIDE DEF h
<1>7. k = "not_started" => h \notin acted
  <2>1. CASE at = "executing" BY <1>1, <2>1 DEF Declared, h
  <2>2. CASE at # "executing" BY <1>6, <2>2 DEF EffectsInv, StartInv, InBatch, Lost
  <2>3. QED BY <2>1, <2>2
<1>8. \A c \in Call : VerdictOf(c)' = IF c = h THEN k ELSE VerdictOf(c)
  <2>. SUFFICES ASSUME NEW c \in Call PROVE VerdictOf(c)' = IF c = h THEN k ELSE VerdictOf(c) OBVIOUS
  <2>1. n \in At(log', "tool") /\ At(log', "tool") = At(log, "tool") \cup {n}
        /\ (c \in Settled' <=> c \in Settled \/ c = h)
    BY <1>3, <1>4, OneMore
  <2>2. CASE c = h BY <1>4, <2>1, <2>2, NextVerdictIs DEF EffectsInv
  <2>3. CASE c # h /\ c \in Settled
    <3>1. PICK i \in At(log, "tool") : log[i].call = c BY <2>3 DEF Settled
    <3>2. i \in At(log', "tool") /\ log'[i] = log[i] BY <1>3, <2>1, <3>1 DEF At, Grown
    <3>3. VerdictOf(c) = log[i].evidence BY <3>1, VerdictIs DEF EffectsInv
    <3>4. VerdictOf(c)' = log'[i].evidence BY <3>1, <3>2, NextVerdictIs DEF EffectsInv
    <3>5. QED BY <2>3, <3>2, <3>3, <3>4
  <2>4. CASE c # h /\ c \notin Settled BY <2>1, <2>4, VerdictIs, NextVerdictIs DEF EffectsInv
  <2>5. QED BY <2>2, <2>3, <2>4
<1>9. Verdict' = [Verdict EXCEPT ![Head(Waiting)] = k] BY <1>5, <1>6, <1>8 DEF Verdict
<1>10. Waiting' = Tail(Waiting)
  <2>1. pending \in Seq([call : Call, id : Nat, publisher : Nat]) BY DEF TypeInv, TypeOK
  <2>2. /\ Len(Tail(pending)) = Len(pending) - 1 /\ DOMAIN Tail(pending) = 1..(Len(pending) - 1)
        /\ \A i \in 1..(Len(pending) - 1) : Tail(pending)[i] = pending[i + 1]
    BY <1>5, <2>1
  <2>3. DOMAIN pending = 1..Len(pending) /\ Len(pending) \in Nat /\ Waiting \in Seq(Call) /\ Len(Waiting) = Len(pending)
        /\ \A i \in DOMAIN pending : Waiting[i] = pending[i].call
    BY WaitingIs
  <2>4. Waiting' = [i \in 1..(Len(pending) - 1) |-> pending[i + 1].call]
    BY <1>1, <2>2 DEF Waiting
  <2>5. Tail(Waiting) = [i \in 1..(Len(pending) - 1) |-> Waiting[i + 1]]
    <3>1. /\ Tail(Waiting) \in Seq(Call) /\ Len(Tail(Waiting)) = Len(pending) - 1
          /\ \A i \in 1..(Len(pending) - 1) : Tail(Waiting)[i] = Waiting[i + 1]
      BY <1>5, <2>3
    <3>2. \A w \in Seq(Call) : w = [i \in 1..Len(w) |-> w[i]]
      <4>1. \A w \in Seq(Call) : w \in [1..Len(w) -> Call] OBVIOUS
      <4>2. QED BY <4>1
    <3>3. QED BY <3>1, <3>2
  <2>6. \A i \in 1..(Len(pending) - 1) : i + 1 \in DOMAIN pending BY <2>3
  <2>7. QED BY <2>3, <2>4, <2>5, <2>6
<1>11. Phase = "open" /\ Phase' = Phase BY <1>1, <1>6 DEF Phase
<1>12. k \in Abstract!Knowledge /\ Abstract!Truthful(Head(Waiting), k)
  BY <1>5, <1>7 DEF Abstract!Knowledge, Abstract!Truthful, Evidence
<1>13. Abstract!Answer
  BY <1>5, <1>9, <1>10, <1>11, <1>12 DEF Abstract!Answer, Phase, Waiting, Verdict, Abstract!Truthful
<1>14. QED BY <1>13 DEF Abstract!Next

(* The terminal transaction closes the ledger, truthfully. *)
LEMMA LedgerCloses ==
  ASSUME TypeInv, EffectsInv, EffectsInv', status = "running",
         NEW s \in Terminals, NEW produced, produced \in {<<>>, <<Partial>>},
         Terminate(s, produced), UNCHANGED acted
  PROVE  Abstract!Next
<1>1. Closes(s, produced) /\ status' = s /\ pending' = <<>> /\ s # "running"
  BY TerminateDoes DEF Terminate, Terminals
<1>2. PICK n \in Nat :
          /\ \A i \in New : log'[i].kind = "tool" => \E k \in DOMAIN pending : i = n + k
          /\ \A k \in DOMAIN pending : n + k \in New /\ log'[n + k] = InterruptedCall(pending[k])
  BY <1>1 DEF Closes
<1>3. Grown BY <1>1 DEF Closes
<1>4. \A k \in DOMAIN pending :
         /\ pending[k].call \in Call /\ pending[k].call \notin Settled
         /\ n + k \in At(log', "tool") /\ log'[n + k].call = pending[k].call
         /\ log'[n + k].evidence = IF effect.kind = "tool" /\ effect.call = pending[k].call
                                   THEN "unknown" ELSE "not_started"
  <2>. SUFFICES ASSUME NEW k \in DOMAIN pending
                PROVE  /\ pending[k].call \in Call /\ pending[k].call \notin Settled
                       /\ n + k \in At(log', "tool") /\ log'[n + k].call = pending[k].call
                       /\ log'[n + k].evidence = IF effect.kind = "tool" /\ effect.call = pending[k].call
                                                 THEN "unknown" ELSE "not_started"
    OBVIOUS
  <2>1. pending[k].call \in Call /\ pending[k].call \notin Settled
    BY PendingIs DEF EffectsInv, CallInv
  <2>2. n + k \in DOMAIN log' /\ log'[n + k] = InterruptedCall(pending[k]) BY <1>2 DEF New
  <2>3. InterruptedCall(pending[k]).kind = "tool" /\ InterruptedCall(pending[k]).call = pending[k].call
        /\ InterruptedCall(pending[k]).evidence =
              IF effect.kind = "tool" /\ effect.call = pending[k].call THEN "unknown" ELSE "not_started"
    BY DEF InterruptedCall, ToolResult
  <2>4. QED BY <2>1, <2>2, <2>3 DEF At
<1>5. ASSUME NEW c \in Call, NEW k \in DOMAIN pending, pending[k].call = c
      PROVE  /\ VerdictOf(c)' \in {"unknown", "not_started"}
             /\ VerdictOf(c)' = "not_started" => c \notin acted
  <2>1. n + k \in At(log', "tool") /\ log'[n + k].call = c BY <1>4, <1>5
  <2>2. VerdictOf(c)' = log'[n + k].evidence BY <2>1, NextVerdictIs DEF EffectsInv
  <2>3. ~(effect.kind = "tool" /\ effect.call = c) => c \notin acted
    BY <1>4, <1>5 DEF EffectsInv, StartInv
  <2>4. log'[n + k].evidence = IF effect.kind = "tool" /\ effect.call = c THEN "unknown" ELSE "not_started"
    BY <1>4, <1>5
  <2>5. QED BY <2>2, <2>3, <2>4
<1>6. ASSUME NEW c \in Call, \A k \in DOMAIN pending : pending[k].call # c
      PROVE  VerdictOf(c)' = VerdictOf(c)
  <2>1. \A i \in New : log'[i].kind = "tool" => log'[i].call # c BY <1>2, <1>4, <1>6
  <2>2. c \in Settled' <=> c \in Settled BY <1>3, <2>1, GrownDoes
  <2>3. CASE c \in Settled
    <3>1. PICK i \in At(log, "tool") : log[i].call = c BY <2>3 DEF Settled
    <3>2. i \in At(log', "tool") /\ log'[i] = log[i] BY <1>3, <3>1 DEF At, Grown
    <3>3. QED BY <3>1, <3>2, VerdictIs, NextVerdictIs DEF EffectsInv
  <2>4. CASE c \notin Settled BY <2>2, <2>4, VerdictIs, NextVerdictIs DEF EffectsInv
  <2>5. QED BY <2>3, <2>4
<1>7. Phase = "open" /\ Phase' = "closed" BY <1>1 DEF Phase
<1>8. Waiting' = <<>>
  <2>1. Waiting' = [i \in DOMAIN <<>> |-> <<>>[i].call] BY <1>1 DEF Waiting
  <2>2. QED BY <2>1
<1>9. \A c \in Call : Abstract!Waits(c) <=> \E k \in DOMAIN pending : pending[k].call = c
  BY WaitingIs DEF Abstract!Waits, Waiting
<1>10. \A c \in Call : VerdictOf(c) \in Abstract!Verdicts
  <2>. SUFFICES ASSUME NEW c \in Call PROVE VerdictOf(c) \in Abstract!Verdicts OBVIOUS
  <2>1. CASE c \in Settled
    <3>1. PICK i \in At(log, "tool") : log[i].call = c BY <2>1 DEF Settled
    <3>2. VerdictOf(c) = log[i].evidence /\ log[i].evidence \in Evidence BY <3>1, VerdictIs DEF EffectsInv, CallInv
    <3>3. QED BY <3>2 DEF Abstract!Verdicts, Abstract!Knowledge, Evidence
  <2>2. CASE c \notin Settled BY <2>2, VerdictIs DEF EffectsInv, Abstract!Verdicts
  <2>3. QED BY <2>1, <2>2
<1>11. Verdict' \in [Call -> Abstract!Verdicts]
  <2>. SUFFICES ASSUME NEW c \in Call PROVE VerdictOf(c)' \in Abstract!Verdicts BY DEF Verdict
  <2>1. CASE \E k \in DOMAIN pending : pending[k].call = c
    BY <1>5, <2>1 DEF Abstract!Verdicts, Abstract!Knowledge
  <2>2. CASE ~\E k \in DOMAIN pending : pending[k].call = c BY <1>6, <1>10, <2>2
  <2>3. QED BY <2>1, <2>2
<1>12. \A c \in Call : IF Abstract!Waits(c) THEN Verdict'[c] # "none" /\ Abstract!Truthful(c, Verdict'[c])
                       ELSE Verdict'[c] = Verdict[c]
  <2>. SUFFICES ASSUME NEW c \in Call
                PROVE  IF Abstract!Waits(c) THEN VerdictOf(c)' # "none" /\ Abstract!Truthful(c, VerdictOf(c)')
                       ELSE VerdictOf(c)' = VerdictOf(c)
    BY DEF Verdict
  <2>1. CASE Abstract!Waits(c)
    <3>1. PICK k \in DOMAIN pending : pending[k].call = c BY <1>9, <2>1
    <3>2. QED BY <1>5, <2>1, <3>1 DEF Abstract!Truthful
  <2>2. CASE ~Abstract!Waits(c) BY <1>6, <1>9, <2>2
  <2>3. QED BY <2>1, <2>2
<1>13. Abstract!Close
  BY <1>7, <1>8, <1>11, <1>12 DEF Abstract!Close, Phase, Waiting, Verdict
<1>14. QED BY <1>13 DEF Abstract!Next

(* So is a step that writes neither the log nor the reservations. *)
LEMMA LedgerStill ==
  ASSUME UNCHANGED <<log, status, pending, acted>>
  PROVE  UNCHANGED Abstract!vars
BY LedgerStutters

(* So is a hook's result. *)
LEMMA LedgerHook ==
  ASSUME TypeInv, NEW s, NEW k, CommitHook(s, k), UNCHANGED acted
  PROVE  UNCHANGED Abstract!vars
<1>1. log' = Append(log, HookResult(effect, s, k)) /\ UNCHANGED <<status, pending>> BY DEF CommitHook
<1>2. PICK n : Grown /\ New = {n} /\ log'[n] = HookResult(effect, s, k) BY <1>1, AppendDoes
<1>3. log'[n].kind = "hook" BY <1>2 DEF HookResult
<1>4. QED BY <1>1, <1>2, <1>3, LedgerIgnoresOthers

(* So is a partial output. *)
LEMMA LedgerPartial ==
  ASSUME TypeInv, OutputPartial, UNCHANGED acted
  PROVE  UNCHANGED Abstract!vars
<1>. DEFINE c == Signal(ids, "continuation")
<1>1. log' = log \o <<Partial, c>> /\ UNCHANGED <<status, pending>> BY DEF OutputPartial, Partial
<1>2. IsSeq(<<Partial, c>>) /\ Len(<<Partial, c>>) = 2 /\ <<Partial, c>>[1] = Partial /\ <<Partial, c>>[2] = c
  <2>1. <<Partial, c>> \in Seq({Partial, c}) OBVIOUS
  <2>2. QED BY <2>1, SeqIs
<1>3. Joined(log', log, <<Partial, c>>) BY <1>1, <1>2, Glued DEF TypeInv
<1>4. Partial.kind = "assistant" /\ c.kind = "signal" BY DEF Partial, Assistant, Signal
<1>. HIDE DEF c
<1>5. /\ Len(log) \in Nat /\ Len(log') = Len(log) + 2 /\ IsSeq(log')
      /\ DOMAIN log = 1..Len(log) /\ DOMAIN log' = 1..(Len(log) + 2)
      /\ \A i \in 1..Len(log) : i \in 1..Len(log') /\ log'[i] = log[i]
      /\ log'[Len(log) + 1] = Partial /\ log'[Len(log) + 2] = c
  BY <1>2, <1>3 DEF Joined
<1>6. Grown BY <1>5 DEF Grown
<1>7. New = {Len(log) + 1, Len(log) + 2} BY <1>5 DEF New
<1>8. \A i \in New : log'[i].kind # "tool" BY <1>4, <1>5, <1>7
<1>9. QED BY <1>1, <1>6, <1>8, LedgerIgnoresOthers

(* The executor acts only for the oldest waiting call. *)
LEMMA LedgerActs ==
  ASSUME TypeInv, EffectsInv, Act
  PROVE  Abstract!Next
<1>1. at = "executing" /\ acted' = acted \cup {Head(calls)} /\ UNCHANGED <<log, status, pending>>
  BY DEF Act, durableVars
<1>2. Head(calls) = pending[1].call /\ 1 \in DOMAIN pending /\ status = "running"
  BY <1>1, TurnIs DEF EffectsInv, PlaceInv, InBatch
<1>3. pending # <<>> BY <1>1 DEF EffectsInv, PlaceInv, InBatch
<1>4. Waiting # <<>> /\ Head(Waiting) = Head(calls) BY <1>2, <1>3, WaitingIs
<1>5. Waiting' = Waiting /\ Phase = "open" /\ Phase' = Phase BY <1>1, <1>2 DEF Waiting, Phase
<1>6. Verdict' = Verdict BY <1>1 DEF Verdict, VerdictOf
<1>7. Abstract!Act BY <1>1, <1>4, <1>5, <1>6 DEF Abstract!Act, Phase, Waiting, Verdict
<1>8. QED BY <1>7 DEF Abstract!Next

(* The Engine's steps: only the quiet gate's terminal transaction is
   visible. *)
LEMMA LedgerEngine ==
  ASSUME TypeInv, EffectsInv, EffectsInv', EngineStep
  PROVE  Abstract!Next \/ UNCHANGED Abstract!vars
<1>1. UNCHANGED acted BY DEF EngineStep, Loop, Source, Round, Dispatch, Complete, worldVars
<1>2. CASE Loop \/ Source \/ Round \/ Dispatch
  <2>1. UNCHANGED <<log, status, pending>>
    BY <1>2 DEF Loop, Source, Round, Dispatch, durableVars, registerVars
  <2>2. QED BY <1>1, <2>1, LedgerStill
<1>3. CASE Complete
  <2>1. CASE Quiet
    <3>1. Terminate(Guarded(outcome), <<>>) /\ status = "running" BY <1>3, <2>1 DEF Complete, Quiet
    <3>2. Guarded(outcome) \in Terminals BY <1>3, PartsAre DEF Complete, LocalType, Guarded, Terminals
    <3>3. QED BY <1>1, <3>1, <3>2, LedgerCloses
  <2>2. CASE ~Quiet
    <3>1. UNCHANGED <<log, status, pending>> BY <1>3, <2>2 DEF Complete, durableVars
    <3>2. QED BY <1>1, <3>1, LedgerStill
  <2>3. QED BY <2>1, <2>2
<1>4. QED BY <1>2, <1>3 DEF EngineStep

(* Request hooks are invisible to the ledger. *)
LEMMA LedgerRequestHook ==
  ASSUME TypeInv, EffectsInv, RequestHookStep
  PROVE  Abstract!Next \/ UNCHANGED Abstract!vars
<1>1. UNCHANGED acted BY DEF RequestHookStep, NextRequestHook, RequestHookGate, RequestHookReturns, worldVars
<1>2. ASSUME NEW s, NEW k, CommitHook(s, k) PROVE UNCHANGED Abstract!vars BY <1>1, <1>2, LedgerHook
<1>3. ASSUME UNCHANGED <<log, status, pending>> PROVE UNCHANGED Abstract!vars BY <1>1, <1>3, LedgerStill
<1>4. CASE NextRequestHook
  <2>1. UNCHANGED <<log, status, pending>>
    BY <1>4 DEF NextRequestHook, BeginRequestEffect, durableVars
  <2>2. QED BY <1>3, <2>1
<1>5. CASE RequestHookGate
  <2>1. CommitHook("interrupted", "not_started") \/ UNCHANGED <<log, status, pending>>
    BY <1>5 DEF RequestHookGate, durableVars
  <2>2. QED BY <1>2, <1>3, <2>1
<1>6. CASE RequestHookReturns BY <1>2, <1>6 DEF RequestHookReturns
<1>7. QED BY <1>4, <1>5, <1>6 DEF RequestHookStep

(* The model's steps publish, close, or are invisible. *)
LEMMA LedgerModel ==
  ASSUME TypeInv, EffectsInv, TypeInv', EffectsInv', ModelStep
  PROVE  Abstract!Next \/ UNCHANGED Abstract!vars
<1>1. UNCHANGED acted /\ at \in {"model", "attempt", "calling"} /\ status = "running"
  <2>1. at \in {"model", "attempt", "calling"}
    BY DEF ModelStep, BeginModel, Attempt, AttemptFails, ModelReturns
  <2>2. UNCHANGED acted BY DEF ModelStep, BeginModel, Attempt, AttemptFails, ModelReturns, worldVars
  <2>3. QED BY <2>1, <2>2 DEF EffectsInv, PlaceInv
<1>2. ASSUME NEW s \in Terminals, NEW produced, produced \in {<<>>, <<Partial>>}, Terminate(s, produced)
      PROVE  Abstract!Next
  BY <1>1, <1>2, LedgerCloses
<1>3. ASSUME UNCHANGED <<log, status, pending>> PROVE UNCHANGED Abstract!vars BY <1>1, <1>3, LedgerStill
<1>4. CASE BeginModel
  <2>1. Terminate("interruption", <<>>) \/ UNCHANGED <<log, status, pending>>
    BY <1>4 DEF BeginModel, BeginRequestEffect
  <2>2. QED BY <1>2, <1>3, <2>1 DEF Terminals
<1>5. CASE Attempt
  <2>1. Terminate("interruption", <<>>) \/ UNCHANGED <<log, status, pending>> BY <1>5 DEF Attempt, durableVars
  <2>2. QED BY <1>2, <1>3, <2>1 DEF Terminals
<1>6. CASE AttemptFails
  <2>1. Terminate("interruption", <<>>) \/ Terminate("failure", <<>>) \/ UNCHANGED <<log, status, pending>>
    BY <1>6 DEF AttemptFails, durableVars
  <2>2. QED BY <1>2, <1>3, <2>1 DEF Terminals
<1>7. CASE ModelReturns
  <2>1. at = "calling" BY <1>7 DEF ModelReturns
  <2>2. ASSUME NEW b \in Batches, OutputCompleted(b) PROVE Abstract!Next \/ UNCHANGED Abstract!vars
    <3>1. b \in Seq(Call) BY BatchIs
    <3>2. CASE Repeats(b) BY <1>2, <2>2, <3>2 DEF OutputCompleted, Terminals
    <3>3. CASE ~Repeats(b) BY <1>1, <2>1, <2>2, <3>1, <3>3, LedgerPublishes
    <3>4. QED BY <3>2, <3>3
  <2>3. ASSUME OutputPartial PROVE UNCHANGED Abstract!vars BY <1>1, <2>3, LedgerPartial
  <2>4. ASSUME NEW s \in Terminals, OutputTerminal(s) PROVE Abstract!Next
    BY <1>2, <2>4 DEF OutputTerminal, Partial
  <2>5. QED BY <1>7, <2>2, <2>3, <2>4 DEF ModelReturns, Terminals
<1>8. QED BY <1>4, <1>5, <1>6, <1>7 DEF ModelStep

(* The tool's steps answer the oldest waiting call, or are invisible. *)
LEMMA LedgerTool ==
  ASSUME TypeInv, EffectsInv, EffectsInv', ToolStep
  PROVE  Abstract!Next \/ UNCHANGED Abstract!vars
<1>1. UNCHANGED acted
  BY DEF ToolStep, ToolEntry, NextArgumentHook, HookGate, HookReturns, HookSettle, Prepare, BeginCall, ToolGate,
         ToolReturns, worldVars
<1>2. at \in InBatch \ {"dispatch"}
  BY DEF ToolStep, ToolEntry, NextArgumentHook, HookGate, HookReturns, HookSettle, Prepare, BeginCall, ToolGate,
         ToolReturns, InBatch
<1>3. ASSUME NEW s, NEW k \in Evidence, NEW u, NEW sel, SettleCall(s, k, u, sel), at = "executing" => Declared(k)
      PROVE  Abstract!Next
  <2>1. CommitTool(s, k, u, sel) BY <1>3 DEF SettleCall
  <2>2. QED BY <1>1, <1>2, <1>3, <2>1, LedgerAnswers
<1>4. ASSUME UNCHANGED <<log, status, pending>> PROVE UNCHANGED Abstract!vars BY <1>1, <1>4, LedgerStill
<1>5. ASSUME NEW s, NEW k, CommitHook(s, k) PROVE UNCHANGED Abstract!vars BY <1>1, <1>5, LedgerHook
<1>6. CASE ToolEntry
  <2>1. at # "executing" BY <1>6 DEF ToolEntry
  <2>2. QED BY <1>3, <1>4, <1>6, <2>1 DEF ToolEntry, Evidence, durableVars
<1>7. CASE NextArgumentHook
  <2>1. at # "executing" BY <1>7 DEF NextArgumentHook
  <2>2. QED BY <1>3, <1>4, <1>7, <2>1 DEF NextArgumentHook, BeginCallHook, Evidence, durableVars
<1>8. CASE HookGate BY <1>4, <1>5, <1>8 DEF HookGate, HookFails, durableVars
<1>9. CASE HookReturns BY <1>5, <1>9 DEF HookReturns, HookFails
<1>10. CASE HookSettle
  <2>1. at # "executing" BY <1>10 DEF HookSettle
  <2>2. QED BY <1>3, <1>10, <2>1 DEF HookSettle, Evidence
<1>11. CASE Prepare
  <2>1. at # "executing" BY <1>11 DEF Prepare
  <2>2. QED BY <1>3, <1>4, <1>11, <2>1 DEF Prepare, Evidence, durableVars
<1>12. CASE BeginCall
  <2>1. at # "executing" BY <1>12 DEF BeginCall
  <2>2. QED BY <1>3, <1>4, <1>12, <2>1 DEF BeginCall, BeginTool, Evidence
<1>13. CASE ToolGate
  <2>1. at # "executing" BY <1>13 DEF ToolGate
  <2>2. QED BY <1>3, <1>4, <1>13, <2>1 DEF ToolGate, Evidence, durableVars
<1>14. CASE ToolReturns
  <2>1. Declared("observed") BY DEF Declared
  <2>2. QED BY <1>3, <1>14, <2>1 DEF ToolReturns, Evidence
<1>15. QED BY <1>6, <1>7, <1>8, <1>9, <1>10, <1>11, <1>12, <1>13, <1>14 DEF ToolStep

(* The Operation implements the promise of module Ledger: published calls
   are answered once, in order, truthfully, and none is left when the
   Operation is terminal, through cancellation, failed transactions, loss
   and recovery. *)
THEOREM CallsKeepTheLedger == Spec => KeepsLedger
<1>1. Init => Abstract!Init
  <2>. SUFFICES ASSUME Init PROVE Abstract!Init OBVIOUS
  <2>1. status = "running" /\ pending = <<>> /\ log = <<>> /\ acted = {} BY DEF Init
  <2>2. \A c : VerdictOf(c) = "none" BY <2>1 DEF VerdictOf, At
  <2>3. [i \in DOMAIN pending |-> pending[i].call] = <<>>
    <3>1. TypeInv BY EffectsStart
    <3>2. QED BY <2>1, <3>1, WaitingIs DEF Waiting
  <2>4. QED BY <2>1, <2>2, <2>3 DEF Abstract!Init
<1>2. ASSUME TypeInv, EffectsInv, TypeInv', EffectsInv', [Next]_vars
      PROVE  [Abstract!Next]_(Abstract!vars)
  <2>1. CASE EngineStep BY <1>2, <2>1, LedgerEngine
  <2>2. CASE RequestHookStep BY <1>2, <2>2, LedgerRequestHook
  <2>3. CASE ModelStep BY <1>2, <2>3, LedgerModel
  <2>4. CASE ToolStep BY <1>2, <2>4, LedgerTool
  <2>5. CASE Act BY <1>2, <2>5, LedgerActs
  <2>6. CASE PublicationFails \/ Cancel \/ Crash
    <3>1. UNCHANGED <<log, status, pending, acted>>
      BY <2>6 DEF PublicationFails, Cancel, Crash, durableVars, worldVars
    <3>2. QED BY <3>1, LedgerStill
  <2>7. CASE Recover
    <3>1. Terminate("interruption", <<>>) /\ status = "running" /\ UNCHANGED acted
      BY <2>7 DEF Recover, worldVars
    <3>2. QED BY <1>2, <3>1, LedgerCloses DEF Terminals
  <2>8. CASE UNCHANGED vars
    <3>1. UNCHANGED <<log, status, pending, acted>> BY <2>8 DEF vars, durableVars, worldVars
    <3>2. QED BY <3>1, LedgerStill
  <2>9. QED BY <1>2, <2>1, <2>2, <2>3, <2>4, <2>5, <2>6, <2>7, <2>8 DEF Next, Step
<1>3. QED BY <1>1, <1>2, EffectsInvariance, PTL DEF Spec, KeepsLedger, Abstract!Spec

====
