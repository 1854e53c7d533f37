----------------------------- MODULE GraphProofs -----------------------------
(***************************************************************************)
(* Proof that the durable shape of an Operation is one that a load accepts, *)
(* whenever the process is lost: for every set of calls, every captured     *)
(* invocation and any number of rounds, results and failed transactions.    *)
(***************************************************************************)
EXTENDS EffectsProofs

(* What the identities are drawn for is drawn: of what a call or a request
   names, of what an output publishes. *)
DrawnInv ==
    /\ \A a \in PublishedCalls(log) : a.id \in Kept /\ a.nth \in Nat
    /\ \A i \in At(log, "hook") : log[i].request \in Kept \cup {0}
    /\ effect.request \in Kept \cup {0}
    /\ request # NoRequest => request.id \in Kept

(* Every entry has its shape: the codecs accept it. *)
ShapeInv == EntriesShaped(log)

(* An identity names one thing: an entry, or the one entry reserved for it. *)
IdentityInv == EntriesUnique(log) /\ ReservationsUnique(log) /\ ReservationsKept(log) /\ ResultsAnswer(log)

(* Where the results of one call or one request stand: in the order of the
   hooks, each once, none of them at or beyond n. *)
Counted(results, n) ==
    /\ \A p \in results : log[p].hook \in 1..(n - 1)
    /\ \A p, r \in results : p < r => log[p].hook < log[r].hook
AllSucceeded(results) == \A p \in results : log[p].status = "succeeded"

Upto(n) == [k \in 1..(n - 1) |-> k]

(* A request's results are numbered above what they consumed, and the
   active hook above both. *)
AheadInv ==
    /\ \A i \in At(log, "hook") :
          log[i].hook \in Nat /\ \A k \in DOMAIN log[i].chain : log[i].chain[k] \in 0..(log[i].hook - 1)
    /\ effect.kind = "hook" =>
          /\ (effect.call = NoCall) # (effect.request = 0)
          /\ effect.request \notin asked
          /\ \A k \in DOMAIN effect.chain : effect.chain[k] \in 0..(effect.hook - 1)
          /\ effect.request # 0 => \A p \in RequestHookResults(log, effect.request) : log[p].hook < effect.hook

InRequest == {"requestHooks", "requestGate", "requestRun", "round", "model"}
InCall    == {"argumentHooks", "hookGate", "hookRun", "prepare", "begin"}
(* The goroutine's chain is the hooks it went through; what they committed
   is in the log, in that order. *)
ChainInv ==
    /\ at \in InRequest \cup InCall \cup {"hookSettle"} => hook > 0 /\ chain = Upto(hook)
    /\ at \in {"requestGate", "requestRun", "hookGate", "hookRun"} => effect.hook = hook
    /\ at \in InRequest =>
          /\ Counted(RequestHookResults(log, ask), hook)
          /\ AllSucceeded(RequestHookResults(log, ask))
          /\ request = NoRequest => RequestHookResults(log, ask) = {}
    /\ at \in InCall =>
          Counted(CallHooks(log, pending[1].call), hook) /\ AllSucceeded(CallHooks(log, pending[1].call))
    /\ at \in {"dispatch", "tool"} /\ pending # <<>> => CallHooks(log, pending[1].call) = {}
    /\ at = "hookSettle" =>
          /\ Counted(Successful(log, pending[1].call), hook)
          /\ \A i \in CallHooks(log, pending[1].call) :
                log[i].status # "succeeded" => outcome \in Consequence(log[i].status)

HookInv     == HookResultsValid(log)
DomainInv   == RequestDomain(log)
StateInv    == StateShape(Register)
RegisterInv == IF status = "running" THEN RunningValid(Register, log) ELSE TerminalValid(Register, log)

(* All that a step relies on; LogInv is what the log alone has to satisfy. *)
LogInv   == ShapeInv /\ IdentityInv /\ HookInv /\ DomainInv
GraphInv == DrawnInv /\ AheadInv /\ ChainInv /\ LogInv /\ StateInv /\ RegisterInv

(* What a transaction of a running Operation may append: the result of a
   pending call, the active hook's result, the active model effect's
   output, a fresh signal and the settlement. *)
NextPlace == Len(log) + 1
Answering(i) ==
    /\ log'[i].kind = "tool"
    /\ \E k \in DOMAIN pending : /\ log'[i].id = pending[k].id /\ log'[i].call = pending[k].call
                                 /\ log'[i].publisher = pending[k].publisher
    /\ ToolResultShape(log'[i])
    /\ \A h \in CallHooks(log', log'[i].call) :
          log'[h].status # "succeeded" => log'[i].status \in Consequence(log'[h].status)
    /\ log'[i].selection.accepted = "yes" =>
          HookOrder(log', log'[i].selection.chain, Successful(log', log'[i].call), i)
Observing(i) ==
    /\ effect.kind = "hook" /\ i = NextPlace
    /\ \E s, k : log'[i] = HookResult(effect, s, k) /\ (s = "succeeded" => k = "observed")
Outputting(i) ==
    /\ effect.kind = "model" /\ i = NextPlace
    /\ \E cs : log'[i] = Assistant(effect.id, effect.request, cs, effect.chain)
    /\ \A n \in DOMAIN log'[i].calls :
          /\ n \in Nat /\ log'[i].calls[n].call \notin Published
          /\ log'[i].calls[n].id \in Kept' \ Kept
          /\ \A m \in DOMAIN log'[i].calls :
                (log'[i].calls[n].call = log'[i].calls[m].call \/ log'[i].calls[n].id = log'[i].calls[m].id) => m = n
          /\ \A j \in New : log'[j].id # log'[i].calls[n].id
Concluding(i) ==
    /\ \/ log'[i].kind = "signal" /\ log'[i].id \notin Kept
       \/ /\ log'[i].kind = "settlement"
          /\ log'[i].id \notin Kept \/ (effect.kind = "model" /\ log'[i].id = effect.id)
          /\ log'[i].status \in Terminals
          /\ log'[i].evidence.accepted = "yes" =>
                /\ effect.kind = "model" /\ log'[i].request = effect.request
                /\ log'[i].evidence.chain = effect.chain
Appends ==
    /\ Grown /\ status = "running"
    /\ \A i \in New : Answering(i) \/ Observing(i) \/ Outputting(i) \/ Concluding(i)
    /\ \A i, j \in New : log'[i].id = log'[j].id => i = j
-----------------------------------------------------------------------------
(* The calls a log publishes, by place and number. *)
LEMMA CallsOf ==
  ASSUME NEW l
  PROVE  /\ \A a \in PublishedCalls(l) :
               /\ a.at \in DOMAIN l /\ l[a.at].kind = "assistant" /\ a.nth \in DOMAIN l[a.at].calls
               /\ a.call = l[a.at].calls[a.nth].call /\ a.id = l[a.at].calls[a.nth].id
               /\ a.publisher = l[a.at].id
         /\ \A a, b \in PublishedCalls(l) : a.at = b.at /\ a.nth = b.nth => a = b
         /\ \A i \in At(l, "assistant") : \A n \in DOMAIN l[i].calls :
               [at |-> i, nth |-> n, call |-> l[i].calls[n].call, id |-> l[i].calls[n].id,
                publisher |-> l[i].id] \in PublishedCalls(l)
<1>. DEFINE Rec(i, n) == [at |-> i, nth |-> n, call |-> l[i].calls[n].call, id |-> l[i].calls[n].id,
                          publisher |-> l[i].id]
<1>1. \A a \in PublishedCalls(l) : \E i \in At(l, "assistant") : \E n \in DOMAIN l[i].calls : a = Rec(i, n)
  BY DEF PublishedCalls
<1>2. \A i \in At(l, "assistant") : \A n \in DOMAIN l[i].calls : Rec(i, n) \in PublishedCalls(l)
  BY DEF PublishedCalls
<1>3. ASSUME NEW a \in PublishedCalls(l)
      PROVE  /\ a.at \in At(l, "assistant") /\ a.nth \in DOMAIN l[a.at].calls /\ a = Rec(a.at, a.nth)
  <2>1. PICK i \in At(l, "assistant") : \E n \in DOMAIN l[i].calls : a = Rec(i, n) BY <1>1
  <2>2. PICK n \in DOMAIN l[i].calls : a = Rec(i, n) BY <2>1
  <2>3. QED BY <2>2
<1>4. \A a \in PublishedCalls(l) :
               /\ a.at \in DOMAIN l /\ l[a.at].kind = "assistant" /\ a.nth \in DOMAIN l[a.at].calls
               /\ a.call = l[a.at].calls[a.nth].call /\ a.id = l[a.at].calls[a.nth].id
               /\ a.publisher = l[a.at].id
  <2>. SUFFICES ASSUME NEW a \in PublishedCalls(l)
       PROVE /\ a.at \in DOMAIN l /\ l[a.at].kind = "assistant" /\ a.nth \in DOMAIN l[a.at].calls
             /\ a.call = l[a.at].calls[a.nth].call /\ a.id = l[a.at].calls[a.nth].id
             /\ a.publisher = l[a.at].id
    OBVIOUS
  <2>1. a.at \in At(l, "assistant") /\ a.nth \in DOMAIN l[a.at].calls /\ a = Rec(a.at, a.nth) BY <1>3
  <2>2. a.at \in DOMAIN l /\ l[a.at].kind = "assistant" BY <2>1 DEF At
  <2>3. QED BY <2>1, <2>2
<1>5. \A a, b \in PublishedCalls(l) : a.at = b.at /\ a.nth = b.nth => a = b
  <2>. SUFFICES ASSUME NEW a \in PublishedCalls(l), NEW b \in PublishedCalls(l), a.at = b.at, a.nth = b.nth
                PROVE  a = b
    OBVIOUS
  <2>1. a = Rec(a.at, a.nth) /\ b = Rec(b.at, b.nth) BY <1>3
  <2>. HIDE DEF Rec
  <2>2. QED BY <2>1
<1>6. QED BY <1>2, <1>4, <1>5

(* Committed results a chain accounts for stay accounted for when others
   come, behind the owner and of hooks the chain does not name. *)
LEMMA HookOrderKeeps ==
  ASSUME NEW l, NEW m, NEW ch, NEW R, NEW Q, NEW o, NEW u,
         HookOrder(l, ch, R, o), R \subseteq Q,
         \A p \in R : m[p].hook = l[p].hook /\ (p < o <=> p < u),
         \A p \in Q \ R : ~(p < u) /\ \A k \in DOMAIN ch : m[p].hook # ch[k]
  PROVE  HookOrder(m, ch, Q, u)
<1>1. \A k \in DOMAIN ch : \A p \in Q : m[p].hook = ch[k] => p < u
  BY DEF HookOrder
<1>2. \A j, k \in DOMAIN ch : \A p, r \in Q : (j < k /\ m[p].hook = ch[j] /\ m[r].hook = ch[k]) => p < r
  <2>. SUFFICES ASSUME NEW j \in DOMAIN ch, NEW k \in DOMAIN ch, NEW p \in Q, NEW r \in Q,
                       j < k, m[p].hook = ch[j], m[r].hook = ch[k]
                PROVE  p < r
    OBVIOUS
  <2>1. p \in R /\ r \in R OBVIOUS
  <2>2. l[p].hook = ch[j] /\ l[r].hook = ch[k] BY <2>1
  <2>3. QED BY <2>1, <2>2 DEF HookOrder
<1>3. \A p \in Q : p < u => \E k \in DOMAIN ch : ch[k] = m[p].hook
  <2>. SUFFICES ASSUME NEW p \in Q, p < u PROVE \E k \in DOMAIN ch : ch[k] = m[p].hook OBVIOUS
  <2>1. p \in R /\ p < o /\ m[p].hook = l[p].hook OBVIOUS
  <2>2. QED BY <2>1 DEF HookOrder
<1>4. QED BY <1>1, <1>2, <1>3 DEF HookOrder

(* The hooks a goroutine went through account for the results it committed. *)
LEMMA ChainOrders ==
  ASSUME NEW n \in Nat, NEW R, Counted(R, n), R \subseteq Nat, NEW o, \A p \in R : p < o
  PROVE  HookOrder(log, Upto(n), R, o)
<1>1. DOMAIN Upto(n) = 1..(n - 1) /\ \A k \in 1..(n - 1) : Upto(n)[k] = k BY DEF Upto
<1>2. \A j, k \in DOMAIN Upto(n) : \A p, r \in R :
         (j < k /\ log[p].hook = Upto(n)[j] /\ log[r].hook = Upto(n)[k]) => p < r
  <2>. SUFFICES ASSUME NEW j \in 1..(n - 1), NEW k \in 1..(n - 1), NEW p \in R, NEW r \in R,
                       j < k, log[p].hook = j, log[r].hook = k
                PROVE  p < r
    BY <1>1
  <2>0. j # k OBVIOUS
  <2>1. p \in Nat /\ r \in Nat /\ p # r BY <2>0
  <2>2. ~(r < p) BY DEF Counted
  <2>3. QED BY <2>1, <2>2
<1>3. \A p \in R : p < o => \E k \in DOMAIN Upto(n) : Upto(n)[k] = log[p].hook BY <1>1 DEF Counted
<1>4. QED BY <1>2, <1>3 DEF HookOrder

(* Old places lie before new ones. *)
LEMMA PlacesAre ==
  ASSUME TypeInv, Grown
  PROVE  /\ Len(log) \in Nat /\ NextPlace \in Nat
         /\ \A i \in DOMAIN log : i \in Nat /\ i < NextPlace /\ i \in DOMAIN log' /\ log'[i] = log[i] /\ i \notin New
         /\ \A i \in New : i \in Nat /\ i >= NextPlace /\ i \in DOMAIN log' /\ i \notin DOMAIN log
         /\ \A i \in DOMAIN log' : i \in DOMAIN log \/ i \in New
         /\ \A i \in DOMAIN log' : i < NextPlace => i \in DOMAIN log
<1>1. IsSeq(log) /\ IsSeq(log') BY DEF TypeInv, Grown
<1>2. Len(log) \in Nat /\ DOMAIN log = 1..Len(log) BY <1>1, SeqIs DEF IsSeq
<1>3. Len(log') \in Nat /\ DOMAIN log' = 1..Len(log') BY <1>1, SeqIs DEF IsSeq
<1>4. QED BY <1>2, <1>3 DEF Grown, New, NextPlace

(* What a transaction publishes: the calls before it, and the calls of the
   output it appends, which are new by identity and by reservation. *)
LEMMA GrownCalls ==
  ASSUME TypeInv, DrawnInv, Appends
  PROVE  /\ PublishedCalls(log) \subseteq PublishedCalls(log')
         /\ \A a \in PublishedCalls(log) : a.at \in DOMAIN log
         /\ \A a \in PublishedCalls(log') : \/ a \in PublishedCalls(log)
                                            \/ /\ a.at \in New /\ Outputting(a.at) /\ a.nth \in DOMAIN log'[a.at].calls
                                               /\ a.call = log'[a.at].calls[a.nth].call
                                               /\ a.id = log'[a.at].calls[a.nth].id
         /\ \A a, b \in PublishedCalls(log') : a.at = b.at /\ a.nth = b.nth => a = b
         /\ \A a \in PublishedCalls(log') : a.at \in Nat /\ a.nth \in Nat
<1>1. Grown BY DEF Appends
<1>2. ASSUME NEW a \in PublishedCalls(log) PROVE a \in PublishedCalls(log') /\ a.at \in DOMAIN log
  <2>1. PICK i \in At(log, "assistant") : \E n \in DOMAIN log[i].calls :
            a = [at |-> i, nth |-> n, call |-> log[i].calls[n].call, id |-> log[i].calls[n].id, publisher |-> log[i].id]
    BY DEF PublishedCalls
  <2>2. i \in At(log', "assistant") /\ log'[i] = log[i] /\ i \in DOMAIN log BY <1>1, <2>1, PlacesAre DEF At
  <2>3. a.at = i BY <2>1
  <2>4. QED BY <2>1, <2>2, <2>3 DEF PublishedCalls
<1>3. ASSUME NEW a \in PublishedCalls(log'), a \notin PublishedCalls(log)
      PROVE  /\ a.at \in New /\ Outputting(a.at) /\ a.nth \in DOMAIN log'[a.at].calls
             /\ a.call = log'[a.at].calls[a.nth].call
             /\ a.id = log'[a.at].calls[a.nth].id
  <2>1. PICK i \in At(log', "assistant") : \E n \in DOMAIN log'[i].calls :
            a = [at |-> i, nth |-> n, call |-> log'[i].calls[n].call, id |-> log'[i].calls[n].id, publisher |-> log'[i].id]
    BY DEF PublishedCalls
  <2>2. i \in DOMAIN log' /\ log'[i].kind = "assistant" BY <2>1 DEF At
  <2>3. i \notin DOMAIN log
    <3>. SUFFICES ASSUME i \in DOMAIN log PROVE FALSE OBVIOUS
    <3>1. log'[i] = log[i] /\ i \in At(log, "assistant") BY <1>1, <2>2, PlacesAre DEF At
    <3>2. QED BY <1>3, <2>1, <3>1 DEF PublishedCalls
  <2>4. i \in New BY <2>2, <2>3 DEF New
  <2>5. ~Answering(i) /\ ~Concluding(i) /\ ~Observing(i)
    BY <2>2 DEF Answering, Concluding, Observing, HookResult
  <2>6. Outputting(i) BY <2>4, <2>5 DEF Appends
  <2>7. QED BY <2>1, <2>4, <2>6
<1>4. \A a, b \in PublishedCalls(log') : a.at = b.at /\ a.nth = b.nth => a = b BY CallsOf
<1>5. ASSUME NEW a \in PublishedCalls(log') PROVE a.at \in Nat /\ a.nth \in Nat
  <2>1. CASE a \in PublishedCalls(log) BY <1>1, <1>2, <2>1, PlacesAre DEF DrawnInv
  <2>2. CASE a \notin PublishedCalls(log) BY <1>1, <1>3, <2>2, PlacesAre DEF Outputting
  <2>3. QED BY <2>1, <2>2
<1>6. QED BY <1>2, <1>3, <1>4, <1>5

(* A hook result or an output stands alone at the first new place. *)
LEMMA NewKinds ==
  ASSUME TypeInv, Appends, NEW i \in New
  PROVE  /\ log'[i].kind = "tool" => Answering(i)
         /\ log'[i].kind = "hook" => Observing(i)
         /\ log'[i].kind = "assistant" => Outputting(i)
         /\ log'[i].kind \in {"signal", "settlement"} => Concluding(i)
         /\ log'[i].kind \in {"hook", "assistant"} => i = NextPlace
         /\ log'[i].kind \in Kinds
<1>1. Answering(i) => log'[i].kind = "tool" BY DEF Answering
<1>2. Observing(i) => log'[i].kind = "hook" /\ i = NextPlace BY DEF Observing, HookResult
<1>3. Outputting(i) => log'[i].kind = "assistant" /\ i = NextPlace BY DEF Outputting, Assistant
<1>4. Concluding(i) => log'[i].kind \in {"signal", "settlement"} BY DEF Concluding
<1>5. Answering(i) \/ Observing(i) \/ Outputting(i) \/ Concluding(i) BY DEF Appends
<1>6. QED BY <1>1, <1>2, <1>3, <1>4, <1>5 DEF Kinds

(* The pending list is what the log leaves unresolved, in order. *)
LEMMA PendingOpen ==
  ASSUME TypeInv, RegisterInv, status = "running"
  PROVE  /\ \A a \in PublishedCalls(log) : ~Committed(log, a.id) =>
               \E n \in DOMAIN pending : pending[n] = Reservation(a)
         /\ \A n \in DOMAIN pending : \E a \in PublishedCalls(log) :
               ~Committed(log, a.id) /\ pending[n] = Reservation(a)
         /\ \A m, n \in DOMAIN pending : \A a, b \in PublishedCalls(log) :
               (m < n /\ ~Committed(log, a.id) /\ ~Committed(log, b.id)
                 /\ pending[m] = Reservation(a) /\ pending[n] = Reservation(b)) => Earlier(a, b)
<1>1. PendingExact(Register, log) /\ Register.pending = pending BY DEF RegisterInv, RunningValid, Register
<1>2. QED BY <1>1 DEF PendingExact, Resolved

(* Its active effect continues what is committed. *)
LEMMA EffectOpen ==
  ASSUME TypeInv, RegisterInv, status = "running"
  PROVE  /\ effect.kind \in {"model", "hook"} =>
               ~Committed(log, effect.id) /\ \A a \in PublishedCalls(log) : a.id # effect.id
         /\ effect.call # NoCall =>
               \A i \in CallHooks(log, effect.call) :
                  log[i].status = "succeeded" /\ (effect.kind = "hook" => log[i].hook # effect.hook)
         /\ effect.kind = "tool" /\ effect.call # NoCall =>
               HookOrder(log, effect.chain, Successful(log, effect.call), NextPlace)
         /\ effect.request # 0 =>
               /\ \A j \in At(log, "assistant") : j < NextPlace => log[j].request # effect.request
               /\ \A i \in RequestHookResults(log, effect.request) :
                     /\ i < NextPlace => log[i].status = "succeeded"
                     /\ effect.kind = "hook" => log[i].hook # effect.hook
               /\ effect.kind = "hook" => \A n \in DOMAIN effect.chain : effect.chain[n] # effect.hook
               /\ HookOrder(log, effect.chain, RequestHookResults(log, effect.request), NextPlace)
         /\ At(log, "settlement") = {}
<1>1. /\ EffectFresh(Register, log) /\ EffectContinuesCall(Register, log) /\ EffectContinuesRequest(Register, log)
      /\ At(log, "settlement") = {} /\ Register.effect = effect
  BY DEF RegisterInv, RunningValid, Register
<1>2. NextPlace = Beyond(log) BY DEF NextPlace, Beyond
<1>3. effect.kind \in {"model", "hook"} =>
        ~Committed(log, effect.id) /\ \A a \in PublishedCalls(log) : a.id # effect.id
  BY <1>1 DEF EffectFresh
<1>4. effect.call # NoCall =>
        \A i \in CallHooks(log, effect.call) :
            log[i].status = "succeeded" /\ (effect.kind = "hook" => log[i].hook # effect.hook)
  BY <1>1 DEF EffectContinuesCall, CallHooks
<1>5. effect.kind = "tool" /\ effect.call # NoCall =>
               HookOrder(log, effect.chain, Successful(log, effect.call), NextPlace)
  BY <1>1, <1>2 DEF EffectContinuesCall
<1>6. effect.request # 0 =>
               /\ \A j \in At(log, "assistant") : j < NextPlace => log[j].request # effect.request
               /\ \A i \in RequestHookResults(log, effect.request) :
                     /\ i < NextPlace => log[i].status = "succeeded"
                     /\ effect.kind = "hook" => log[i].hook # effect.hook
               /\ effect.kind = "hook" => \A n \in DOMAIN effect.chain : effect.chain[n] # effect.hook
               /\ HookOrder(log, effect.chain, RequestHookResults(log, effect.request), NextPlace)
  BY <1>1, <1>2 DEF EffectContinuesRequest, AnsweredBefore, FailedBefore, ConsumesInOrder, RequestHookResults
<1>7. QED BY <1>1, <1>3, <1>4, <1>5, <1>6

(* The model effect answers a request that was drawn. *)
LEMMA ModelAsks ==
  ASSUME TypeInv, EffectsInv, effect.kind = "model"
  PROVE  effect.request # 0 /\ effect.request \in asked /\ effect.id \in Kept /\ request.id = effect.request
<1>1. effect.request \in asked /\ request.id = effect.request BY DEF EffectsInv, RequestInv, RequestPlaced
<1>2. asked \subseteq Kept BY DEF EffectsInv, RequestInv, OwnersInv
<1>3. effect # NoEffect BY DEF NoEffect
<1>4. effect.id \in Kept BY <1>3 DEF TypeInv
<1>5. 0 \notin Kept BY DEF Kept
<1>6. QED BY <1>1, <1>2, <1>4, <1>5

(* Every entry a transaction appends has its shape. *)
LEMMA GrownShapes ==
  ASSUME TypeInv, EffectsInv, AheadInv, ShapeInv, Appends
  PROVE  ShapeInv'
<1>1. Grown BY DEF Appends
<1>2. ASSUME NEW i \in At(log', "hook") PROVE HookResultShape(log'[i])
  <2>1. CASE i \in New
    <3>1. Observing(i) BY <2>1, NewKinds DEF At
    <3>2. PICK s, k : log'[i] = HookResult(effect, s, k) /\ (s = "succeeded" => k = "observed") BY <3>1 DEF Observing
    <3>3. (effect.call = NoCall) # (effect.request = 0) BY <3>1 DEF Observing, AheadInv
    <3>4. QED BY <3>2, <3>3 DEF HookResultShape, HookResult
  <2>2. CASE i \notin New
    <3>1. i \in At(log, "hook") /\ log'[i] = log[i] BY <1>1, <2>2, PlacesAre DEF At
    <3>2. QED BY <3>1 DEF ShapeInv, EntriesShaped
  <2>3. QED BY <2>1, <2>2
<1>3. ASSUME NEW i \in At(log', "tool") PROVE ToolResultShape(log'[i])
  <2>1. CASE i \in New BY <2>1, NewKinds DEF At, Answering
  <2>2. CASE i \notin New
    <3>1. i \in At(log, "tool") /\ log'[i] = log[i] BY <1>1, <2>2, PlacesAre DEF At
    <3>2. QED BY <3>1 DEF ShapeInv, EntriesShaped
  <2>3. QED BY <2>1, <2>2
<1>4. ASSUME NEW i \in At(log', "settlement") PROVE SettlementShape(log'[i])
  <2>1. CASE i \in New
    <3>1. Concluding(i) /\ log'[i].kind = "settlement" BY <2>1, NewKinds DEF At
    <3>2. log'[i].status \in Terminals /\ (log'[i].evidence.accepted = "yes" => effect.kind = "model" /\ log'[i].request = effect.request)
      BY <3>1 DEF Concluding
    <3>3. QED BY <3>2, ModelAsks DEF SettlementShape, Terminals
  <2>2. CASE i \notin New
    <3>1. i \in At(log, "settlement") /\ log'[i] = log[i] BY <1>1, <2>2, PlacesAre DEF At
    <3>2. QED BY <3>1 DEF ShapeInv, EntriesShaped
  <2>3. QED BY <2>1, <2>2
<1>5. QED BY <1>2, <1>3, <1>4 DEF ShapeInv, EntriesShaped

(* The identity of a new entry is fresh, the active effect's, or the one
   reserved for the pending call it answers. *)
LEMMA NewIdentities ==
  ASSUME TypeInv, EffectsInv, DrawnInv, RegisterInv, Appends, NEW i \in New
  PROVE  /\ \A j \in DOMAIN log : log[j].id # log'[i].id
         /\ log'[i].kind # "tool" => \A a \in PublishedCalls(log) : a.id # log'[i].id
         /\ log'[i].kind = "tool" =>
               \E a \in PublishedCalls(log) : /\ ~Committed(log, a.id) /\ a.id = log'[i].id /\ a.call = log'[i].call
                                              /\ a.publisher = log'[i].publisher
<1>1. status = "running" BY DEF Appends
<1>2. \A j \in DOMAIN log : log[j].id \in Kept BY PartsAre DEF LogType
<1>3. CASE log'[i].kind = "tool"
  <2>1. PICK k \in DOMAIN pending : /\ log'[i].id = pending[k].id /\ log'[i].call = pending[k].call
                                    /\ log'[i].publisher = pending[k].publisher
    BY <1>3, NewKinds DEF Answering
  <2>2. PICK a \in PublishedCalls(log) : ~Committed(log, a.id) /\ pending[k] = Reservation(a)
    BY <1>1, PendingOpen
  <2>3. a.id = log'[i].id /\ a.call = log'[i].call /\ a.publisher = log'[i].publisher BY <2>1, <2>2 DEF Reservation
  <2>4. QED BY <1>3, <2>2, <2>3 DEF Committed
<1>4. CASE log'[i].kind \in {"hook", "assistant"}
  <2>1. Observing(i) \/ Outputting(i) BY <1>4, NewKinds
  <2>2. Observing(i) => log'[i].id = effect.id /\ effect.kind = "hook" BY DEF Observing, HookResult
  <2>3. Outputting(i) => log'[i].id = effect.id /\ effect.kind = "model" BY DEF Outputting, Assistant
  <2>4. QED BY <1>1, <1>4, <2>1, <2>2, <2>3, EffectOpen DEF Committed
<1>5. CASE log'[i].kind \in {"signal", "settlement"}
  <2>1. log'[i].id \notin Kept \/ (effect.kind = "model" /\ log'[i].id = effect.id)
    BY <1>5, NewKinds DEF Concluding
  <2>2. CASE log'[i].id \notin Kept BY <1>2, <1>5, <2>2 DEF DrawnInv
  <2>3. CASE effect.kind = "model" /\ log'[i].id = effect.id BY <1>1, <1>5, <2>3, EffectOpen DEF Committed
  <2>4. QED BY <2>1, <2>2, <2>3
<1>6. QED BY <1>3, <1>4, <1>5, NewKinds DEF Kinds

(* An identity still names one thing, and a result answers its call. *)
LEMMA GrownIdentities ==
  ASSUME TypeInv, EffectsInv, DrawnInv, IdentityInv, RegisterInv, Appends
  PROVE  IdentityInv'
<1>1. Grown BY DEF Appends
<1>2. ASSUME NEW i \in DOMAIN log', NEW j \in DOMAIN log', log'[i].id = log'[j].id PROVE i = j
  <2>1. CASE i \in New /\ j \in New BY <1>2, <2>1 DEF Appends
  <2>2. CASE i \in New /\ j \notin New
    <3>1. j \in DOMAIN log /\ log'[j] = log[j] BY <1>1, <2>2, PlacesAre
    <3>2. QED BY <1>2, <2>2, <3>1, NewIdentities
  <2>3. CASE i \notin New /\ j \in New
    <3>1. i \in DOMAIN log /\ log'[i] = log[i] BY <1>1, <2>3, PlacesAre
    <3>2. QED BY <1>2, <2>3, <3>1, NewIdentities
  <2>4. CASE i \notin New /\ j \notin New
    <3>1. i \in DOMAIN log /\ j \in DOMAIN log /\ log'[i] = log[i] /\ log'[j] = log[j] BY <1>1, <2>4, PlacesAre
    <3>2. QED BY <1>2, <3>1 DEF IdentityInv, EntriesUnique
  <2>5. QED BY <2>1, <2>2, <2>3, <2>4
<1>3. ASSUME NEW a \in PublishedCalls(log'), NEW b \in PublishedCalls(log'), a.id = b.id \/ a.call = b.call PROVE a = b
  <2>. DEFINE Old == PublishedCalls(log)
  <2>0. \A c \in PublishedCalls(log') : c \in Old \/ /\ c.at \in New /\ Outputting(c.at) /\ c.nth \in DOMAIN log'[c.at].calls
                                                     /\ c.call = log'[c.at].calls[c.nth].call
                                                     /\ c.id = log'[c.at].calls[c.nth].id
    BY GrownCalls
  <2>1. \A c \in Old : c.id \in Kept /\ c.call \in Published BY DEF DrawnInv, Published
  <2>2. \A c \in PublishedCalls(log') : c \notin Old => c.id \notin Kept /\ c.call \notin Published
    BY <2>0 DEF Outputting
  <2>3. CASE a \in Old /\ b \in Old BY <1>3, <2>3 DEF IdentityInv, ReservationsUnique
  <2>4. CASE a \notin Old /\ b \notin Old
    <3>1. a.at = b.at BY <2>0, <2>4 DEF Outputting
    <3>2. a.nth = b.nth
      <4>1. /\ Outputting(a.at) /\ {a.nth, b.nth} \subseteq DOMAIN log'[a.at].calls
            /\ a.call = log'[a.at].calls[a.nth].call /\ a.id = log'[a.at].calls[a.nth].id
            /\ b.call = log'[a.at].calls[b.nth].call /\ b.id = log'[a.at].calls[b.nth].id
        BY <2>0, <2>4, <3>1
      <4>2. QED BY <1>3, <4>1 DEF Outputting
    <3>3. QED BY <3>1, <3>2, GrownCalls
  <2>5. CASE (a \in Old) # (b \in Old) BY <1>3, <2>1, <2>2, <2>5
  <2>6. QED BY <2>3, <2>4, <2>5
<1>4. ASSUME NEW a \in PublishedCalls(log'), NEW i \in DOMAIN log', log'[i].id = a.id
      PROVE  log'[i].kind = "tool" /\ log'[i].call = a.call /\ log'[i].publisher = a.publisher
  <2>1. CASE a \in PublishedCalls(log) /\ i \notin New
    <3>1. i \in DOMAIN log /\ log'[i] = log[i] BY <1>1, <2>1, PlacesAre
    <3>2. QED BY <1>4, <2>1, <3>1 DEF IdentityInv, ReservationsKept
  <2>2. CASE a \in PublishedCalls(log) /\ i \in New
    <3>1. log'[i].kind = "tool" BY <1>4, <2>2, NewIdentities
    <3>2. PICK b \in PublishedCalls(log) : b.id = log'[i].id /\ b.call = log'[i].call /\ b.publisher = log'[i].publisher
      BY <2>2, <3>1, NewIdentities
    <3>3. a = b BY <1>4, <2>2, <3>2 DEF IdentityInv, ReservationsUnique
    <3>4. QED BY <3>1, <3>2, <3>3
  <2>3. CASE a \notin PublishedCalls(log)
    <3>1. a.at \in New /\ Outputting(a.at) /\ a.nth \in DOMAIN log'[a.at].calls /\ a.id = log'[a.at].calls[a.nth].id
      BY <2>3, GrownCalls
    <3>2. a.id \notin Kept /\ \A j \in New : log'[j].id # a.id BY <3>1 DEF Outputting
    <3>3. i \notin New BY <1>4, <3>2
    <3>4. i \in DOMAIN log /\ log'[i] = log[i] BY <1>1, <3>3, PlacesAre
    <3>5. log[i].id \in Kept BY <3>4, PartsAre DEF LogType
    <3>6. QED BY <1>4, <3>2, <3>4, <3>5
  <2>4. QED BY <2>1, <2>2, <2>3
<1>5. ASSUME NEW i \in At(log', "tool")
      PROVE  \E a \in PublishedCalls(log') : a.call = log'[i].call /\ a.publisher = log'[i].publisher /\ a.id = log'[i].id
  <2>1. CASE i \in New BY <2>1, NewIdentities, GrownCalls DEF At
  <2>2. CASE i \notin New
    <3>1. i \in At(log, "tool") /\ log'[i] = log[i] BY <1>1, <2>2, PlacesAre DEF At
    <3>2. PICK a \in PublishedCalls(log) : a.call = log[i].call /\ a.publisher = log[i].publisher /\ a.id = log[i].id
      BY <3>1 DEF IdentityInv, ResultsAnswer
    <3>3. QED BY <3>1, <3>2, GrownCalls
  <2>3. QED BY <2>1, <2>2
<1>6. QED BY <1>2, <1>3, <1>4, <1>5 DEF IdentityInv, EntriesUnique, ReservationsUnique, ReservationsKept, ResultsAnswer

(* While a hook or an executor is active, its call has no result. *)
LEMMA ActiveUnsettled ==
  ASSUME TypeInv, EffectsInv
  PROVE  \A j \in At(log, "tool") : log[j].call # effect.call
<1>. SUFFICES ASSUME NEW j \in At(log, "tool"), log[j].call = effect.call PROVE FALSE OBVIOUS
<1>1. log[j].call \in Call BY DEF EffectsInv, CallInv
<1>2. effect.call # NoCall BY <1>1, CallsAreIdentities
<1>3. 1 \in DOMAIN pending /\ effect.call = pending[1].call
  BY <1>2, PendingIs DEF EffectsInv, PlaceInv, EffectPlaced
<1>4. pending[1].call \notin Settled BY <1>3 DEF EffectsInv, CallInv
<1>5. QED BY <1>3, <1>4 DEF Settled

(* A hook's result stands where the load expects it. *)
LEMMA GrownPlaces ==
  ASSUME TypeInv, EffectsInv, DrawnInv, AheadInv, IdentityInv, HookInv, RegisterInv, Appends,
         NEW i \in At(log', "hook"), log'[i].request = 0
  PROVE  HookResultPlaced(log', i)
<1>1. Grown /\ status = "running" BY DEF Appends
<1>2. CASE i \notin New
  <2>1. i \in At(log, "hook") /\ log'[i] = log[i] /\ i \in Nat /\ i \in DOMAIN log BY <1>1, <1>2, PlacesAre DEF At
  <2>2. HookResultPlaced(log, i) BY <2>1 DEF HookInv, HookResultsValid
  <2>3. PICK a \in PublishedCalls(log) :
            /\ a.call = log[i].call /\ a.at < i
            /\ \A j \in DOMAIN log : log[j].id = a.id => i < j
            /\ \A b \in PublishedCalls(log) : Earlier(b, a) => ResolvedBefore(log, b, i)
    BY <2>2 DEF HookResultPlaced
  <2>4. a \in PublishedCalls(log') /\ a.at \in DOMAIN log /\ a.call = log'[i].call BY <2>1, <2>3, GrownCalls
  <2>5. ASSUME NEW j \in DOMAIN log', log'[j].id = a.id PROVE i < j
    <3>1. CASE j \in New BY <1>1, <2>1, <3>1, PlacesAre
    <3>2. CASE j \notin New BY <1>1, <2>3, <2>5, <3>2, PlacesAre
    <3>3. QED BY <3>1, <3>2
  <2>6. ASSUME NEW b \in PublishedCalls(log'), Earlier(b, a) PROVE ResolvedBefore(log', b, i)
    <3>1. b \in PublishedCalls(log)
      <4>. SUFFICES ASSUME b \notin PublishedCalls(log) PROVE FALSE OBVIOUS
      <4>1. b.at \in New BY GrownCalls
      <4>2. a.at \in Nat /\ b.at \in Nat /\ a.at < b.at BY <1>1, <2>4, <4>1, PlacesAre
      <4>3. QED BY <2>6, <4>2 DEF Earlier
    <3>2. PICK j \in DOMAIN log : j < i /\ log[j].id = b.id BY <2>3, <2>6, <3>1 DEF ResolvedBefore
    <3>3. j \in DOMAIN log' /\ log'[j].id = b.id BY <1>1, <3>2, PlacesAre
    <3>4. QED BY <3>2, <3>3 DEF ResolvedBefore
  <2>7. QED BY <2>3, <2>4, <2>5, <2>6 DEF HookResultPlaced
<1>3. CASE i \in New
  <2>1. Observing(i) BY <1>3, NewKinds DEF At
  <2>2. effect.kind = "hook" /\ i = NextPlace BY <2>1 DEF Observing
  <2>3. log'[i].call = effect.call /\ effect.request = 0 /\ log'[i].id = effect.id
    BY <2>1 DEF Observing, HookResult
  <2>4. effect.call # NoCall BY <2>2, <2>3 DEF AheadInv
  <2>5. 1 \in DOMAIN pending /\ effect.call = pending[1].call
    BY <2>4, PendingIs DEF EffectsInv, PlaceInv, EffectPlaced
  <2>6. PICK a \in PublishedCalls(log) : ~Committed(log, a.id) /\ pending[1] = Reservation(a)
    BY <1>1, <2>5, PendingOpen
  <2>7. a.call = log'[i].call BY <2>3, <2>5, <2>6 DEF Reservation
  <2>8. a \in PublishedCalls(log') /\ a.at \in DOMAIN log /\ a.at < i BY <1>1, <2>2, GrownCalls, PlacesAre
  <2>9. ASSUME NEW j \in DOMAIN log', log'[j].id = a.id PROVE i < j
    <3>1. j \in New BY <1>1, <2>6, <2>9, PlacesAre DEF Committed
    <3>2. a.id # effect.id BY <1>1, <2>2, EffectOpen
    <3>3. j # i BY <2>3, <2>9, <3>2
    <3>4. j \in Nat /\ j >= NextPlace /\ NextPlace \in Nat BY <1>1, <3>1, PlacesAre
    <3>5. QED BY <2>2, <3>3, <3>4
  <2>10. ASSUME NEW b \in PublishedCalls(log'), Earlier(b, a) PROVE ResolvedBefore(log', b, i)
    <3>0. a.at \in Nat /\ a.nth \in Nat /\ b.at \in Nat /\ b.nth \in Nat BY <2>8, GrownCalls
    <3>1. b \in PublishedCalls(log)
      <4>. SUFFICES ASSUME b \notin PublishedCalls(log) PROVE FALSE OBVIOUS
      <4>1. b.at \in New BY GrownCalls
      <4>2. a.at < b.at BY <1>1, <2>8, <4>1, PlacesAre
      <4>3. QED BY <2>10, <3>0, <4>2 DEF Earlier
    <3>2. Committed(log, b.id)
      <4>. SUFFICES ASSUME ~Committed(log, b.id) PROVE FALSE OBVIOUS
      <4>1. PICK n \in DOMAIN pending : pending[n] = Reservation(b) BY <1>1, <3>1, PendingOpen
      <4>2. n # 1
        <5>. SUFFICES ASSUME n = 1 PROVE FALSE OBVIOUS
        <5>1. a.id = b.id BY <2>6, <4>1 DEF Reservation
        <5>2. a = b BY <3>1, <5>1 DEF IdentityInv, ReservationsUnique
        <5>3. QED BY <2>10, <3>0, <5>2 DEF Earlier
      <4>3. 1 < n BY <4>1, <4>2, PendingIs
      <4>4. Earlier(a, b) BY <1>1, <2>5, <2>6, <3>1, <4>1, <4>3, PendingOpen
      <4>5. QED BY <2>10, <3>0, <4>4 DEF Earlier
    <3>3. PICK j \in DOMAIN log : log[j].id = b.id BY <3>2 DEF Committed
    <3>4. j \in DOMAIN log' /\ log'[j].id = b.id /\ j < i BY <1>1, <2>2, <3>3, PlacesAre
    <3>5. QED BY <3>4 DEF ResolvedBefore
  <2>11. QED BY <2>7, <2>8, <2>9, <2>10 DEF HookResultPlaced
<1>4. QED BY <1>2, <1>3

(* The hook results of a call or of a request stay one per hook, stop at
   the first failure, and agree with the call's result. *)
LEMMA GrownHooks ==
  ASSUME TypeInv, EffectsInv, DrawnInv, AheadInv, IdentityInv, HookInv, RegisterInv, Appends
  PROVE  HookInv'
<1>1. Grown /\ status = "running" BY DEF Appends
<1>2. \A i \in At(log', "hook") : i \notin New => i \in At(log, "hook") /\ log'[i] = log[i] /\ i \in DOMAIN log
  BY <1>1, PlacesAre DEF At
<1>3. \A i \in At(log', "tool") : i \notin New => i \in At(log, "tool") /\ log'[i] = log[i] /\ i \in DOMAIN log
  BY <1>1, PlacesAre DEF At
<1>4. ASSUME NEW i \in At(log', "hook"), i \in New
      PROVE  /\ i = NextPlace /\ effect.kind = "hook"
             /\ log'[i].hook = effect.hook /\ log'[i].call = effect.call /\ log'[i].request = effect.request
             /\ (effect.call = NoCall) # (effect.request = 0)
  <2>1. Observing(i) BY <1>4, NewKinds DEF At
  <2>2. QED BY <2>1 DEF Observing, HookResult, AheadInv
<1>5. ASSUME NEW i \in At(log', "hook"), i \in New, NEW j \in At(log, "hook"),
             log[j].call = log'[i].call, log[j].request = log'[i].request
      PROVE  log[j].status = "succeeded" /\ log[j].hook # log'[i].hook
  <2>1. CASE effect.call # NoCall
    <3>1. j \in CallHooks(log, effect.call) BY <1>4, <1>5 DEF CallHooks
    <3>2. QED BY <1>1, <1>4, <1>5, <2>1, <3>1, EffectOpen
  <2>2. CASE effect.request # 0
    <3>1. j \in RequestHookResults(log, effect.request) BY <1>4, <1>5 DEF RequestHookResults
    <3>2. j < NextPlace BY <1>1, <1>5, PlacesAre DEF At
    <3>3. QED BY <1>1, <1>4, <1>5, <2>2, <3>1, <3>2, EffectOpen
  <2>3. QED BY <1>4, <1>5, <2>1, <2>2
<1>6. HookResultsOnce(log')
  <2>. SUFFICES ASSUME NEW i \in At(log', "hook"), NEW j \in At(log', "hook"),
                       log'[i].hook = log'[j].hook, log'[i].call = log'[j].call, log'[i].request = log'[j].request
                PROVE  i = j
    BY DEF HookResultsOnce
  <2>1. CASE i \in New /\ j \in New BY <1>4, <2>1
  <2>2. CASE i \in New /\ j \notin New BY <1>2, <1>5, <2>2
  <2>3. CASE i \notin New /\ j \in New BY <1>2, <1>5, <2>3
  <2>4. CASE i \notin New /\ j \notin New BY <1>2, <2>4 DEF HookInv, HookResultsValid, HookResultsOnce
  <2>5. QED BY <2>1, <2>2, <2>3, <2>4
<1>7. HooksStopAtFailure(log')
  <2>. SUFFICES ASSUME NEW i \in At(log', "hook"), NEW j \in At(log', "hook"),
                       i < j, log'[i].call = log'[j].call, log'[i].request = log'[j].request
                PROVE  log'[i].status = "succeeded"
    BY DEF HooksStopAtFailure
  <2>1. CASE i \in New
    <3>1. i \in Nat /\ i = NextPlace BY <1>1, <1>4, <2>1, PlacesAre
    <3>2. j \in Nat /\ (j \in New \/ j < NextPlace) BY <1>1, PlacesAre DEF At
    <3>3. j \notin New BY <1>4, <3>1
    <3>4. QED BY <3>1, <3>2, <3>3
  <2>2. CASE i \notin New /\ j \in New BY <1>2, <1>5, <2>2
  <2>3. CASE i \notin New /\ j \notin New BY <1>2, <2>3 DEF HookInv, HookResultsValid, HooksStopAtFailure
  <2>4. QED BY <2>1, <2>2, <2>3
<1>8. ASSUME NEW j \in At(log', "tool"), j \notin New, NEW i \in At(log', "hook"), i \in New
      PROVE  log'[i].call # log'[j].call
  BY <1>3, <1>4, <1>8, ActiveUnsettled
<1>9. ASSUME NEW i \in At(log', "hook"), NEW j \in At(log', "tool"),
             log'[i].status # "succeeded", log'[i].call = log'[j].call
      PROVE  log'[j].status \in Consequence(log'[i].status)
  <2>1. CASE j \in New
    <3>1. Answering(j) BY <2>1, NewKinds DEF At
    <3>2. i \in CallHooks(log', log'[j].call) BY <1>9 DEF CallHooks
    <3>3. QED BY <1>9, <3>1, <3>2 DEF Answering
  <2>2. CASE j \notin New
    <3>1. i \notin New BY <1>8, <1>9, <2>2
    <3>2. QED BY <1>2, <1>3, <1>9, <2>2, <3>1 DEF HookInv, HookResultsValid
  <2>3. QED BY <2>1, <2>2
<1>10. ASSUME NEW j \in At(log', "tool"), log'[j].selection.accepted = "yes"
       PROVE  HookOrder(log', log'[j].selection.chain, Successful(log', log'[j].call), j)
  <2>1. CASE j \in New BY <1>10, <2>1, NewKinds DEF At, Answering
  <2>2. CASE j \notin New
    <3>0. j \in At(log, "tool") /\ log'[j] = log[j] BY <1>3, <2>2
    <3>1. HookOrder(log, log[j].selection.chain, Successful(log, log[j].call), j)
      BY <1>10, <3>0 DEF HookInv, HookResultsValid
    <3>2. Successful(log', log[j].call) = Successful(log, log[j].call)
      <4>1. \A i : i \in Successful(log', log[j].call) => i \in Successful(log, log[j].call)
        BY <1>2, <1>8, <2>2, <3>0 DEF Successful, CallHooks
      <4>2. \A i : i \in Successful(log, log[j].call) => i \in Successful(log', log[j].call)
        BY <1>1, PlacesAre DEF Successful, CallHooks, At
      <4>3. QED BY <4>1, <4>2
    <3>3. \A p \in Successful(log, log[j].call) : log'[p] = log[p]
      BY <1>1, PlacesAre DEF Successful, CallHooks, At
    <3>4. QED BY <3>0, <3>1, <3>2, <3>3, HookOrderKeeps
  <2>3. QED BY <2>1, <2>2
<1>11. QED BY <1>6, <1>7, <1>9, <1>10, GrownPlaces DEF HookInv, HookResultsValid

(* The results and the output of a request stay in the order of its hooks,
   and nothing follows its answer. *)
LEMMA GrownDomain ==
  ASSUME TypeInv, EffectsInv, DrawnInv, AheadInv, DomainInv, RegisterInv, Appends
  PROVE  DomainInv'
<1>1. Grown /\ status = "running" BY DEF Appends
<1>2. ASSUME NEW i \in At(log', "hook"), i \in New
      PROVE  /\ i = NextPlace /\ effect.kind = "hook" /\ log'[i].hook = effect.hook
             /\ log'[i].request = effect.request /\ log'[i].chain = effect.chain
  <2>1. Observing(i) BY <1>2, NewKinds DEF At
  <2>2. QED BY <2>1 DEF Observing, HookResult
<1>3. ASSUME NEW i \in At(log', "assistant"), i \in New
      PROVE  /\ i = NextPlace /\ effect.kind = "model"
             /\ log'[i].request = effect.request /\ log'[i].chain = effect.chain
  <2>1. Outputting(i) BY <1>3, NewKinds DEF At
  <2>2. QED BY <2>1 DEF Outputting, Assistant
<1>4. \A q : \A p \in RequestHookResults(log, q) : p \in RequestHookResults(log', q) /\ log'[p] = log[p] /\ p \in Nat /\ p < NextPlace
  BY <1>1, PlacesAre DEF RequestHookResults, At
<1>5. ASSUME NEW q, NEW p \in RequestHookResults(log', q), p \notin RequestHookResults(log, q)
      PROVE  p \in New /\ p \in At(log', "hook") /\ p = NextPlace /\ effect.kind = "hook" /\ q = effect.request
             /\ log'[p].hook = effect.hook
  <2>1. p \in At(log', "hook") /\ log'[p].request = q BY <1>5 DEF RequestHookResults
  <2>2. p \in New BY <1>1, <1>5, <2>1, PlacesAre DEF RequestHookResults, At
  <2>3. QED BY <1>2, <2>1, <2>2
<1>6. ASSUME NEW i \in DOMAIN log', NEW q, i \notin New
      PROVE  /\ i \in DOMAIN log /\ log'[i] = log[i]
             /\ AnsweredBefore(log', q, i) => AnsweredBefore(log, q, i)
             /\ FailedBefore(log', q, i) => FailedBefore(log, q, i)
  <2>1. i \in DOMAIN log /\ i < NextPlace /\ i \in Nat BY <1>1, <1>6, PlacesAre
  <2>2. ASSUME NEW j \in DOMAIN log', j < i PROVE j \in DOMAIN log /\ log'[j] = log[j]
    <3>1. j \notin New BY <1>1, <2>1, <2>2, PlacesAre
    <3>2. QED BY <1>1, <3>1, PlacesAre
  <2>3. AnsweredBefore(log', q, i) => AnsweredBefore(log, q, i) BY <2>2 DEF AnsweredBefore, At
  <2>4. FailedBefore(log', q, i) => FailedBefore(log, q, i) BY <2>2 DEF FailedBefore, RequestHookResults, At
  <2>5. QED BY <1>1, <2>1, <2>3, <2>4, PlacesAre
<1>7. ASSUME effect.kind \in {"hook", "model"}, effect.request # 0, NextPlace \in New
      PROVE  ~AnsweredBefore(log', effect.request, NextPlace) /\ ~FailedBefore(log', effect.request, NextPlace)
  <2>1. ASSUME NEW j \in DOMAIN log', j < NextPlace PROVE j \in DOMAIN log /\ log'[j] = log[j]
    BY <1>1, <2>1, PlacesAre
  <2>2. ~AnsweredBefore(log', effect.request, NextPlace)
    BY <1>1, <1>7, <2>1, EffectOpen DEF AnsweredBefore, At
  <2>3. ~FailedBefore(log', effect.request, NextPlace)
    BY <1>1, <1>7, <2>1, EffectOpen DEF FailedBefore, RequestHookResults, At
  <2>4. QED BY <2>2, <2>3
<1>8. ASSUME NEW o \in Nat, o >= NextPlace, effect.request # 0, o = NextPlace \/ effect.kind # "hook"
      PROVE  ConsumesInOrder(log', o, effect.request, effect.chain)
  <2>. DEFINE R == RequestHookResults(log, effect.request)
              Q == RequestHookResults(log', effect.request)
  <2>0. NextPlace \in Nat BY <1>1, PlacesAre
  <2>1. HookOrder(log, effect.chain, R, NextPlace) BY <1>1, <1>8, EffectOpen
  <2>2. \A p \in R : p \in Q /\ log'[p].hook = log[p].hook /\ (p < NextPlace <=> p < o) BY <1>4, <1>8, <2>0
  <2>3. \A p \in Q \ R : p = NextPlace /\ log'[p].hook = effect.hook /\ effect.kind = "hook" BY <1>5
  <2>4. \A p \in Q \ R : ~(p < o) /\ \A k \in DOMAIN effect.chain : log'[p].hook # effect.chain[k]
    BY <1>1, <1>8, <2>0, <2>3, EffectOpen
  <2>. HIDE DEF R, Q
  <2>5. HookOrder(log', effect.chain, Q, o) BY <2>1, <2>2, <2>4, HookOrderKeeps
  <2>6. QED BY <2>5 DEF ConsumesInOrder, Q
<1>9. ASSUME NEW i \in DOMAIN log, log[i].kind \in {"hook", "assistant"}, log[i].request # 0,
             ConsumesInOrder(log, i, log[i].request, log[i].chain)
      PROVE  ConsumesInOrder(log', i, log[i].request, log[i].chain)
  <2>. DEFINE R == RequestHookResults(log, log[i].request)
              Q == RequestHookResults(log', log[i].request)
  <2>0. NextPlace \in Nat /\ i \in Nat /\ i < NextPlace BY <1>1, PlacesAre
  <2>1. HookOrder(log, log[i].chain, R, i) BY <1>9 DEF ConsumesInOrder
  <2>2. \A p \in R : p \in Q /\ log'[p].hook = log[p].hook BY <1>4
  <2>3. ASSUME NEW p \in Q \ R PROVE ~(p < i) /\ \A k \in DOMAIN log[i].chain : log'[p].hook # log[i].chain[k]
    <3>1. p = NextPlace /\ log'[p].hook = effect.hook /\ effect.kind = "hook" /\ effect.request = log[i].request
      BY <1>5
    <3>2. log[i].kind # "assistant" BY <1>1, <1>9, <2>0, <3>1, EffectOpen DEF At
    <3>3. i \in At(log, "hook") /\ i \in RequestHookResults(log, effect.request)
      BY <1>9, <3>1, <3>2 DEF At, RequestHookResults
    <3>4. /\ log[i].hook \in Nat /\ log[i].hook < effect.hook
          /\ \A k \in DOMAIN log[i].chain : log[i].chain[k] \in 0..(log[i].hook - 1)
      BY <1>9, <3>1, <3>3 DEF AheadInv
    <3>5. effect.hook \in Nat BY DEF TypeInv, TypeOK
    <3>6. \A k \in DOMAIN log[i].chain : log[i].chain[k] # effect.hook BY <3>4, <3>5
    <3>7. QED BY <2>0, <3>1, <3>6
  <2>. HIDE DEF R, Q
  <2>4. HookOrder(log', log[i].chain, Q, i) BY <2>1, <2>2, <2>3, HookOrderKeeps
  <2>5. QED BY <2>4 DEF ConsumesInOrder, Q
<1>10. ASSUME NEW i \in At(log', "hook"), log'[i].request # 0
       PROVE  ~AnsweredBefore(log', log'[i].request, i) /\ ConsumesInOrder(log', i, log'[i].request, log'[i].chain)
  <2>1. CASE i \in New
    <3>1. i \in Nat /\ i >= NextPlace BY <1>1, <2>1, PlacesAre
    <3>2. QED BY <1>2, <1>7, <1>8, <1>10, <2>1, <3>1
  <2>2. CASE i \notin New
    <3>1. i \in DOMAIN log' BY DEF At
    <3>2. log'[i] = log[i] /\ i \in DOMAIN log /\ i \in At(log, "hook") BY <1>6, <2>2, <3>1 DEF At
    <3>3. ~AnsweredBefore(log, log[i].request, i) /\ ConsumesInOrder(log, i, log[i].request, log[i].chain)
      BY <1>10, <3>2 DEF DomainInv, RequestDomain
    <3>4. QED BY <1>6, <1>9, <1>10, <2>2, <3>1, <3>2, <3>3 DEF At
  <2>3. QED BY <2>1, <2>2
<1>11. ASSUME NEW i \in At(log', "assistant")
       PROVE  /\ log'[i].request # 0
              /\ ~AnsweredBefore(log', log'[i].request, i) /\ ~FailedBefore(log', log'[i].request, i)
              /\ ConsumesInOrder(log', i, log'[i].request, log'[i].chain)
  <2>1. CASE i \in New
    <3>1. i \in Nat /\ i >= NextPlace BY <1>1, <2>1, PlacesAre
    <3>2. effect.request # 0 BY <1>3, <2>1, ModelAsks
    <3>3. QED BY <1>3, <1>7, <1>8, <2>1, <3>1, <3>2
  <2>2. CASE i \notin New
    <3>1. i \in DOMAIN log' BY DEF At
    <3>2. log'[i] = log[i] /\ i \in DOMAIN log /\ i \in At(log, "assistant") BY <1>6, <2>2, <3>1 DEF At
    <3>3. /\ log[i].request # 0 /\ ~AnsweredBefore(log, log[i].request, i) /\ ~FailedBefore(log, log[i].request, i)
          /\ ConsumesInOrder(log, i, log[i].request, log[i].chain)
      BY <3>2 DEF DomainInv, RequestDomain
    <3>4. QED BY <1>6, <1>9, <2>2, <3>1, <3>2, <3>3 DEF At
  <2>3. QED BY <2>1, <2>2
<1>12. ASSUME NEW i \in At(log', "settlement"), log'[i].evidence.accepted = "yes"
       PROVE  ConsumesInOrder(log', i, log'[i].request, log'[i].evidence.chain)
  <2>1. i \in New
    <3>1. At(log, "settlement") = {} BY <1>1, EffectOpen
    <3>2. QED BY <1>1, <3>1, PlacesAre DEF At
  <2>2. Concluding(i) /\ log'[i].kind = "settlement" BY <2>1, NewKinds DEF At
  <2>3. effect.kind = "model" /\ log'[i].request = effect.request /\ log'[i].evidence.chain = effect.chain
    BY <1>12, <2>2 DEF Concluding
  <2>4. i \in Nat /\ i >= NextPlace BY <1>1, <2>1, PlacesAre
  <2>5. QED BY <1>8, <2>3, <2>4, ModelAsks
<1>13. QED BY <1>10, <1>11, <1>12 DEF DomainInv, RequestDomain

(* A transaction leaves the log and the identities in order, and no effect
   active. *)
LEMMA AppendsKeep ==
  ASSUME TypeInv, EffectsInv, GraphInv, Appends, effect' = NoEffect, ids' \in Nat, ids <= ids',
         request' # NoRequest => request # NoRequest /\ request'.id = request.id
  PROVE  DrawnInv' /\ AheadInv' /\ LogInv'
<1>1. DrawnInv /\ AheadInv /\ ShapeInv /\ IdentityInv /\ HookInv /\ DomainInv /\ RegisterInv
  BY DEF GraphInv, LogInv
<1>2. Grown BY DEF Appends
<1>3. Kept \subseteq Kept'
  <2>1. ids \in Nat BY DEF TypeInv
  <2>2. QED BY <2>1, UpToGrows DEF Kept
<1>4. LogInv' BY <1>1, GrownShapes, GrownIdentities, GrownHooks, GrownDomain DEF LogInv
<1>5. ASSUME NEW i \in At(log', "hook")
      PROVE  /\ log'[i].request \in Kept' \cup {0} /\ log'[i].hook \in Nat
             /\ \A k \in DOMAIN log'[i].chain : log'[i].chain[k] \in 0..(log'[i].hook - 1)
  <2>1. CASE i \in New
    <3>1. Observing(i) BY <2>1, NewKinds DEF At
    <3>2. effect.kind = "hook" /\ log'[i].hook = effect.hook /\ log'[i].request = effect.request /\ log'[i].chain = effect.chain
      BY <3>1 DEF Observing, HookResult
    <3>3. effect.hook \in Nat BY DEF TypeInv, TypeOK
    <3>4. QED BY <1>1, <1>3, <3>2, <3>3 DEF DrawnInv, AheadInv
  <2>2. CASE i \notin New
    <3>1. i \in At(log, "hook") /\ log'[i] = log[i] BY <1>2, <2>2, PlacesAre DEF At
    <3>2. QED BY <1>1, <1>3, <3>1 DEF DrawnInv, AheadInv
  <2>3. QED BY <2>1, <2>2
<1>6. ASSUME NEW a \in PublishedCalls(log') PROVE a.id \in Kept' /\ a.nth \in Nat
  <2>1. a.nth \in Nat BY <1>1, GrownCalls
  <2>2. CASE a \in PublishedCalls(log) BY <1>1, <1>3, <2>1, <2>2 DEF DrawnInv
  <2>3. CASE a \notin PublishedCalls(log)
    <3>1. Outputting(a.at) /\ a.nth \in DOMAIN log'[a.at].calls /\ a.id = log'[a.at].calls[a.nth].id
      BY <1>1, <2>3, GrownCalls
    <3>2. QED BY <2>1, <3>1 DEF Outputting
  <2>4. QED BY <2>2, <2>3
<1>7. effect'.kind # "hook" /\ effect'.request = 0 BY DEF NoEffect
<1>8. request' # NoRequest => request'.id \in Kept' BY <1>1, <1>3 DEF DrawnInv
<1>9. QED BY <1>4, <1>5, <1>6, <1>7, <1>8 DEF DrawnInv, AheadInv

(* What is committed grows with the log. *)
LEMMA CommittedGrows ==
  ASSUME TypeInv, Grown, NEW id
  PROVE  Committed(log', id) <=> Committed(log, id) \/ \E i \in New : log'[i].id = id
BY PlacesAre DEF Committed

(* A transaction without an output, or with a callless one, publishes none. *)
LEMMA SameCalls ==
  ASSUME TypeInv, DrawnInv, Appends, \A i \in New : log'[i].kind # "assistant" \/ DOMAIN log'[i].calls = {}
  PROVE  PublishedCalls(log') = PublishedCalls(log)
<1>1. ASSUME NEW i \in New PROVE ~Outputting(i) \/ DOMAIN log'[i].calls = {}
  <2>1. Outputting(i) => log'[i].kind = "assistant" BY DEF Outputting, Assistant
  <2>2. QED BY <2>1
<1>2. QED BY <1>1, GrownCalls

(* A transaction without a hook result leaves those of a request alone, and
   those of a call. *)
LEMMA SameHooks ==
  ASSUME TypeInv, Grown, \A i \in New : log'[i].kind # "hook"
  PROVE  /\ At(log', "hook") = At(log, "hook") /\ \A p \in At(log, "hook") : log'[p] = log[p]
         /\ \A q : RequestHookResults(log', q) = RequestHookResults(log, q)
         /\ \A c : CallHooks(log', c) = CallHooks(log, c) /\ Successful(log', c) = Successful(log, c)
<1>1. At(log', "hook") = At(log, "hook") /\ \A p \in At(log, "hook") : log'[p] = log[p]
  BY PlacesAre DEF At
<1>2. \A q : RequestHookResults(log', q) = RequestHookResults(log, q) BY <1>1 DEF RequestHookResults
<1>3. \A c : CallHooks(log', c) = CallHooks(log, c) /\ Successful(log', c) = Successful(log, c)
  BY <1>1 DEF CallHooks, Successful
<1>4. QED BY <1>1, <1>2, <1>3

(* A running Operation without an active effect is valid when its pending
   list and its request are exact. *)
LEMMA QuietRegister ==
  ASSUME status' = "running", effect' = NoEffect, At(log', "settlement") = {},
         PendingExact(Register', log'), RequestStateExact(Register', log')
  PROVE  RegisterInv'
<1>1. Register'.effect = NoEffect BY DEF Register
<1>2. NoEffect.kind = "none" /\ NoEffect.call = NoCall /\ NoEffect.request = 0 BY DEF NoEffect
<1>3. EffectFresh(Register', log') BY <1>1, <1>2 DEF EffectFresh
<1>4. EffectContinuesCall(Register', log') BY <1>1, <1>2 DEF EffectContinuesCall
<1>5. EffectContinuesRequest(Register', log') BY <1>1, <1>2 DEF EffectContinuesRequest
<1>6. QED BY <1>3, <1>4, <1>5 DEF RegisterInv, RunningValid

(* Where the goroutine is tells the rest of the register's shape. *)
LEMMA StateNext ==
  ASSUME TypeInv', EffectsInv',
         effect'.kind = "tool" => effect'.id = pending'[1].id,
         effect'.kind = "hook" /\ effect'.request # 0 => request'.id = effect'.request
  PROVE  StateInv'
<1>1. /\ Register'.status = status' /\ Register'.effect = effect' /\ Register'.pending = pending'
      /\ Register'.request = request'
  BY DEF Register
<1>2. status' # "running" => effect' = NoEffect /\ pending' = <<>> /\ request' = NoRequest
  BY DEF EffectsInv, PlaceInv
<1>3. pending' # <<>> => Head(pending') = pending'[1]
  <2>1. pending' \in Seq([call : Call, id : Nat, publisher : Nat]) BY DEF TypeInv, TypeOK
  <2>2. QED BY <2>1
<1>4. /\ effect'.kind = "tool" => effect'.call # NoCall
      /\ effect'.call # NoCall => pending' # <<>> /\ effect'.call = pending'[1].call
  BY DEF EffectsInv, PlaceInv, EffectPlaced
<1>5. effect'.kind = "model" => effect'.request # 0 /\ request'.id = effect'.request
  <2>1. effect'.kind = "model" => effect'.request \in asked' /\ request'.id = effect'.request
    BY DEF EffectsInv, RequestInv, RequestPlaced
  <2>2. asked' \subseteq Kept' BY DEF EffectsInv, RequestInv, OwnersInv
  <2>3. 0 \notin Kept' BY DEF Kept
  <2>4. QED BY <2>1, <2>2, <2>3
<1>6. request'.id # 0 => request' # NoRequest BY DEF NoRequest
<1>7. QED BY <1>1, <1>2, <1>3, <1>4, <1>5, <1>6 DEF StateInv, StateShape

(* The request's listing stays exact while neither it nor its results move. *)
LEMMA RequestStays ==
  ASSUME TypeInv, RegisterInv, status = "running", Grown, request' \in {request, NoRequest},
         request # NoRequest => RequestHookResults(log', request.id) = RequestHookResults(log, request.id)
  PROVE  RequestStateExact(Register', log')
<1>1. RequestStateExact(Register, log) /\ Register.request = request /\ Register'.request = request'
  BY DEF RegisterInv, RunningValid, Register
<1>2. CASE request' = NoRequest BY <1>1, <1>2 DEF RequestStateExact
<1>3. CASE request' = request /\ request # NoRequest
  <2>1. \A p \in RequestHookResults(log, request.id) : log'[p] = log[p]
    BY PlacesAre DEF RequestHookResults, At
  <2>2. QED BY <1>1, <1>3, <2>1 DEF RequestStateExact
<1>4. QED BY <1>2, <1>3

(* The pending list stays exact while no call is published or answered. *)
LEMMA PendingStays ==
  ASSUME TypeInv, DrawnInv, RegisterInv, Appends, pending' = pending,
         PublishedCalls(log') = PublishedCalls(log),
         \A i \in New : \A a \in PublishedCalls(log) : log'[i].id # a.id
  PROVE  PendingExact(Register', log')
<1>1. Grown /\ status = "running" BY DEF Appends
<1>2. PendingExact(Register, log) /\ Register.pending = pending /\ Register'.pending = pending'
  BY <1>1 DEF RegisterInv, RunningValid, Register
<1>3. \A a \in PublishedCalls(log) : Resolved(log', a) <=> Resolved(log, a)
  BY <1>1, CommittedGrows DEF Resolved
<1>4. {a \in PublishedCalls(log') : ~Resolved(log', a)} = {a \in PublishedCalls(log) : ~Resolved(log, a)}
  BY <1>3
<1>5. QED BY <1>2, <1>4 DEF PendingExact

(* The committed result of the call whose turn it is, as the log gets it. *)
Chosen(sel) == IF effect.kind = "tool" THEN Selected(effect.chain) ELSE sel
Fits(s, sel) ==
    /\ \A h \in CallHooks(log, pending[1].call) : log[h].status # "succeeded" => s \in Consequence(log[h].status)
    /\ sel = NoSelection \/ \E ch : sel = Selected(ch) /\ HookOrder(log, ch, Successful(log, pending[1].call), NextPlace)

(* commitToolResult appends that result and nothing else. *)
LEMMA AnswerIs ==
  ASSUME TypeInv, EffectsInv, at \in InBatch \ {"dispatch"},
         NEW s, NEW k, NEW u, NEW sel, CommitTool(s, k, u, sel)
  PROVE  /\ 1 \in DOMAIN pending /\ status = "running"
         /\ Grown /\ New = {NextPlace} /\ log'[NextPlace] = ToolResult(pending[1], s, k, u, Chosen(sel))
         /\ pending' = Tail(pending) /\ effect' = NoEffect
         /\ request' \in {request, NoRequest} /\ status' = status /\ ids' = ids
         /\ \A n \in DOMAIN pending' : n \in Nat /\ n + 1 \in DOMAIN pending /\ pending'[n] = pending[n + 1]
         /\ \A n \in DOMAIN pending : n \in Nat /\ (n = 1 \/ (n - 1 \in DOMAIN pending' /\ pending'[n - 1] = pending[n]))
<1>1. /\ Head(calls) = pending[1].call /\ 1 \in DOMAIN pending
      /\ pending' = Tail(pending) /\ effect' = NoEffect
      /\ request' = IF pending' = <<>> THEN NoRequest ELSE request
      /\ UNCHANGED <<status, ids>>
  BY CommitToolDoes DEF EffectsInv
<1>2. Index(Head(calls)) = 1 BY <1>1 DEF Index, EffectsInv, CallInv
<1>3. log' = Append(log, ToolResult(pending[1], s, k, u, Chosen(sel))) BY <1>2 DEF CommitTool, Chosen
<1>4. Joined(log', log, <<ToolResult(pending[1], s, k, u, Chosen(sel))>>) BY <1>3, AppendIs DEF TypeInv
<1>. DEFINE e == ToolResult(pending[1], s, k, u, Chosen(sel))
<1>5. Len(<<e>>) = 1 /\ <<e>>[1] = e BY SingleIs
<1>. HIDE DEF e
<1>6. Grown /\ New = {NextPlace} /\ log'[NextPlace] = e BY <1>4, <1>5 DEF Joined, Grown, New, NextPlace, e
<1>7. status = "running" BY DEF EffectsInv, PlaceInv, InBatch
<1>8. /\ \A n \in DOMAIN pending' : n \in Nat /\ n + 1 \in DOMAIN pending /\ pending'[n] = pending[n + 1]
      /\ \A n \in DOMAIN pending : n \in Nat /\ (n = 1 \/ (n - 1 \in DOMAIN pending' /\ pending'[n - 1] = pending[n]))
  <2>. DEFINE P == [call : Call, id : Nat, publisher : Nat]
  <2>1. pending \in Seq(P) /\ pending # <<>> BY <1>1 DEF TypeInv, TypeOK
  <2>. HIDE DEF P
  <2>2. QED BY <1>1, <2>1
<1>9. QED BY <1>1, <1>6, <1>7, <1>8 DEF e

(* It answers its call with what the hooks of the call accepted. *)
LEMMA AnswerAppends ==
  ASSUME TypeInv, EffectsInv, RegisterInv, at \in InBatch \ {"dispatch"},
         NEW s, NEW k, NEW u, NEW sel, CommitTool(s, k, u, sel), Fits(s, sel)
  PROVE  Appends
<1>. DEFINE e == ToolResult(pending[1], s, k, u, Chosen(sel))
            c == pending[1].call
<1>1. /\ 1 \in DOMAIN pending /\ status = "running"
      /\ Grown /\ New = {NextPlace} /\ log'[NextPlace] = e
  BY AnswerIs
<1>2. e.kind = "tool" /\ e.id = pending[1].id /\ e.call = c /\ e.publisher = pending[1].publisher
      /\ e.status = s /\ e.selection = Chosen(sel)
  BY DEF ToolResult
<1>3. Chosen(sel) = NoSelection \/ \E ch : Chosen(sel) = Selected(ch) /\ HookOrder(log, ch, Successful(log, c), NextPlace)
  <2>1. CASE effect.kind = "tool"
    <3>1. effect.call # NoCall /\ effect.call = c BY <2>1 DEF EffectsInv, PlaceInv, EffectPlaced
    <3>2. HookOrder(log, effect.chain, Successful(log, c), NextPlace) BY <1>1, <2>1, <3>1, EffectOpen
    <3>3. QED BY <2>1, <3>2 DEF Chosen
  <2>2. CASE effect.kind # "tool" BY <2>2 DEF Chosen, Fits
  <2>3. QED BY <2>1, <2>2
<1>. HIDE DEF e
<1>4. ToolResultShape(e) BY <1>2, <1>3 DEF ToolResultShape, NoSelection, Selected
<1>5. \A i \in New : log'[i].kind # "hook" BY <1>1, <1>2
<1>6. \A h \in CallHooks(log', c) : log'[h].status # "succeeded" => s \in Consequence(log'[h].status)
  BY <1>1, <1>5, SameHooks DEF Fits, CallHooks
<1>7. e.selection.accepted = "yes" => HookOrder(log', e.selection.chain, Successful(log', c), NextPlace)
  <2>. SUFFICES ASSUME e.selection.accepted = "yes"
                PROVE  HookOrder(log', e.selection.chain, Successful(log', c), NextPlace)
    OBVIOUS
  <2>1. PICK ch : Chosen(sel) = Selected(ch) /\ HookOrder(log, ch, Successful(log, c), NextPlace)
    BY <1>2, <1>3 DEF NoSelection
  <2>2. e.selection.chain = ch BY <1>2, <2>1 DEF Selected
  <2>3. Successful(log', c) = Successful(log, c) /\ \A p \in Successful(log, c) : log'[p] = log[p]
    BY <1>1, <1>5, SameHooks DEF Successful, CallHooks
  <2>4. QED BY <2>1, <2>2, <2>3, HookOrderKeeps
<1>8. Answering(NextPlace) BY <1>1, <1>2, <1>4, <1>6, <1>7 DEF Answering
<1>9. QED BY <1>1, <1>8 DEF Appends

(* The reservation it answered leaves the pending list with it. *)
LEMMA AnswerPends ==
  ASSUME TypeInv, EffectsInv, GraphInv, at \in InBatch \ {"dispatch"},
         NEW s, NEW k, NEW u, NEW sel, CommitTool(s, k, u, sel), Appends
  PROVE  PendingExact(Register', log')
<1>. DEFINE Open == {a \in PublishedCalls(log') : ~Resolved(log', a)}
<1>1. /\ 1 \in DOMAIN pending /\ status = "running" /\ Grown /\ New = {NextPlace}
      /\ log'[NextPlace] = ToolResult(pending[1], s, k, u, Chosen(sel))
      /\ \A n \in DOMAIN pending' : n \in Nat /\ n + 1 \in DOMAIN pending /\ pending'[n] = pending[n + 1]
      /\ \A n \in DOMAIN pending : n \in Nat /\ (n = 1 \/ (n - 1 \in DOMAIN pending' /\ pending'[n - 1] = pending[n]))
  BY AnswerIs
<1>2. log'[NextPlace].kind = "tool" /\ log'[NextPlace].id = pending[1].id BY <1>1 DEF ToolResult
<1>3. DrawnInv /\ RegisterInv /\ IdentityInv BY DEF GraphInv, LogInv
<1>4. PublishedCalls(log') = PublishedCalls(log) BY <1>1, <1>2, <1>3, SameCalls
<1>5. \A a : a \in Open <=> a \in PublishedCalls(log) /\ ~Committed(log, a.id) /\ a.id # pending[1].id
  BY <1>1, <1>2, <1>4, CommittedGrows DEF Resolved
<1>. HIDE DEF Open
<1>6. PICK z \in PublishedCalls(log) : ~Committed(log, z.id) /\ pending[1] = Reservation(z) BY <1>1, <1>3, PendingOpen
<1>7. z.id = pending[1].id /\ z.call = pending[1].call BY <1>6 DEF Reservation
<1>8. ASSUME NEW a \in Open PROVE \E n \in DOMAIN pending' : pending'[n] = Reservation(a)
  <2>1. PICK n \in DOMAIN pending : pending[n] = Reservation(a) BY <1>1, <1>3, <1>5, PendingOpen
  <2>2. n # 1
    <3>1. pending[n].id = a.id BY <2>1 DEF Reservation
    <3>2. QED BY <1>5, <3>1
  <2>3. QED BY <1>1, <2>1, <2>2
<1>9. ASSUME NEW n \in DOMAIN pending' PROVE \E a \in Open : pending'[n] = Reservation(a)
  <2>1. n \in Nat /\ n + 1 \in DOMAIN pending /\ pending'[n] = pending[n + 1] BY <1>1
  <2>2. PICK a \in PublishedCalls(log) : ~Committed(log, a.id) /\ pending[n + 1] = Reservation(a)
    BY <1>1, <1>3, <2>1, PendingOpen
  <2>3. a.id # pending[1].id
    <3>. SUFFICES ASSUME a.id = pending[1].id PROVE FALSE OBVIOUS
    <3>1. a = z BY <1>3, <1>6, <1>7, <2>2 DEF IdentityInv, ReservationsUnique
    <3>2. pending[n + 1].call = pending[1].call BY <1>7, <2>2, <3>1 DEF Reservation
    <3>3. n + 1 = 1 BY <1>1, <2>1, <3>2 DEF EffectsInv, CallInv
    <3>4. n # 0
      <4>1. pending' = Tail(pending) BY AnswerIs
      <4>2. pending \in Seq([call : Call, id : Nat, publisher : Nat]) /\ pending # <<>> BY <1>1 DEF TypeInv, TypeOK
      <4>3. Tail(pending) \in Seq([call : Call, id : Nat, publisher : Nat]) BY <4>2
      <4>4. QED BY <4>1, <4>3
    <3>5. QED BY <2>1, <3>3, <3>4
  <2>4. QED BY <1>5, <2>1, <2>2, <2>3
<1>10. ASSUME NEW m \in DOMAIN pending', NEW n \in DOMAIN pending', NEW a \in Open, NEW b \in Open,
              m < n, pending'[m] = Reservation(a), pending'[n] = Reservation(b)
       PROVE  Earlier(a, b)
  <2>1. m \in Nat /\ n \in Nat /\ m + 1 \in DOMAIN pending /\ n + 1 \in DOMAIN pending /\ m + 1 < n + 1
        /\ pending[m + 1] = Reservation(a) /\ pending[n + 1] = Reservation(b)
    BY <1>1, <1>10
  <2>2. QED BY <1>1, <1>3, <1>5, <2>1, PendingOpen
<1>11. Register'.pending = pending' BY DEF Register
<1>12. QED BY <1>8, <1>9, <1>10, <1>11 DEF PendingExact, Open

(* The whole transaction of a call's result. *)
LEMMA AnswerGraph ==
  ASSUME TypeInv, EffectsInv, GraphInv, TypeInv', EffectsInv', at \in InBatch \ {"dispatch"},
         NEW s, NEW k, NEW u, NEW sel, CommitTool(s, k, u, sel), Fits(s, sel)
  PROVE  DrawnInv' /\ AheadInv' /\ LogInv' /\ StateInv' /\ RegisterInv'
<1>1. /\ status = "running" /\ status' = status /\ ids' = ids
      /\ New = {NextPlace} /\ log'[NextPlace] = ToolResult(pending[1], s, k, u, Chosen(sel))
      /\ effect' = NoEffect /\ request' \in {request, NoRequest}
  BY AnswerIs
<1>2. DrawnInv /\ RegisterInv BY DEF GraphInv
<1>3. Appends BY <1>2, AnswerAppends
<1>4. Grown BY <1>3 DEF Appends
<1>5. \A i \in New : log'[i].kind = "tool" BY <1>1 DEF ToolResult
<1>6. DrawnInv' /\ AheadInv' /\ LogInv'
  <2>1. ids' \in Nat /\ ids <= ids' BY <1>1 DEF TypeInv
  <2>2. QED BY <1>1, <1>3, <2>1, AppendsKeep
<1>7. StateInv'
  <2>1. effect'.kind = "none" BY <1>1 DEF NoEffect
  <2>2. QED BY <2>1, StateNext
<1>8. PendingExact(Register', log') BY <1>3, AnswerPends
<1>9. RequestStateExact(Register', log') BY <1>1, <1>2, <1>4, <1>5, SameHooks, RequestStays
<1>10. At(log', "settlement") = {}
  <2>1. At(log, "settlement") = {} BY <1>1, <1>2, EffectOpen
  <2>2. QED BY <1>4, <1>5, <2>1, PlacesAre DEF At
<1>11. RegisterInv' BY <1>1, <1>8, <1>9, <1>10, QuietRegister
<1>12. QED BY <1>6, <1>7, <1>11

(* commitHookResult appends the active hook's result. *)
LEMMA HookIs ==
  ASSUME TypeInv, EffectsInv, effect.kind = "hook", NEW s, NEW k, CommitHook(s, k)
  PROVE  /\ status = "running" /\ status' = status /\ ids' = ids /\ pending' = pending /\ effect' = NoEffect
         /\ Grown /\ New = {NextPlace} /\ log'[NextPlace] = HookResult(effect, s, k)
         /\ request' = IF effect.request # 0 /\ request # NoRequest
                       THEN [id |-> request.id, results |-> Append(request.results, effect.id)]
                       ELSE request
<1>. DEFINE e == HookResult(effect, s, k)
<1>1. /\ log' = Append(log, e) /\ UNCHANGED <<status, pending, ids>> /\ effect' = NoEffect
      /\ request' = IF effect.request # 0 /\ request # NoRequest
                    THEN [id |-> request.id, results |-> Append(request.results, effect.id)]
                    ELSE request
  BY DEF CommitHook
<1>. HIDE DEF e
<1>2. Joined(log', log, <<e>>) BY <1>1, AppendIs DEF TypeInv
<1>3. Len(<<e>>) = 1 /\ <<e>>[1] = e BY SingleIs
<1>4. Grown /\ New = {NextPlace} /\ log'[NextPlace] = e BY <1>2, <1>3 DEF Joined, Grown, New, NextPlace
<1>5. status = "running" BY DEF EffectsInv, PlaceInv, NoEffect
<1>6. QED BY <1>1, <1>4, <1>5 DEF e

(* The published request lists the new result last. *)
LEMMA RequestExtends ==
  ASSUME TypeInv, EffectsInv, GraphInv, effect.kind = "hook", NEW s, NEW k, CommitHook(s, k)
  PROVE  RequestStateExact(Register', log')
<1>1. /\ status = "running" /\ effect' = NoEffect
      /\ Grown /\ New = {NextPlace} /\ log'[NextPlace] = HookResult(effect, s, k)
      /\ request' = IF effect.request # 0 /\ request # NoRequest
                    THEN [id |-> request.id, results |-> Append(request.results, effect.id)]
                    ELSE request
  BY HookIs
<1>2. RegisterInv /\ DrawnInv /\ StateInv BY DEF GraphInv
<1>3. RequestStateExact(Register, log) /\ Register.request = request /\ Register'.request = request'
  BY <1>1, <1>2 DEF RegisterInv, RunningValid, Register
<1>4. /\ log'[NextPlace].kind = "hook" /\ log'[NextPlace].request = effect.request /\ log'[NextPlace].id = effect.id
  BY <1>1 DEF HookResult
<1>5. /\ NextPlace \in Nat /\ NextPlace \in DOMAIN log' /\ NextPlace \notin DOMAIN log
      /\ \A p \in DOMAIN log : p \in Nat /\ p < NextPlace /\ p \in DOMAIN log' /\ log'[p] = log[p]
      /\ \A p \in DOMAIN log' : p \in DOMAIN log \/ p = NextPlace
  BY <1>1, PlacesAre
<1>6. \A p \in DOMAIN log : log[p].id # effect.id BY <1>1, <1>2, EffectOpen DEF Committed
<1>7. CASE effect.request = 0
  <2>1. request' = request BY <1>1, <1>7
  <2>2. request # NoRequest => RequestHookResults(log', request.id) = RequestHookResults(log, request.id)
    <3>. SUFFICES ASSUME request # NoRequest
                  PROVE  RequestHookResults(log', request.id) = RequestHookResults(log, request.id)
      OBVIOUS
    <3>1. request.id # 0 BY <1>2 DEF DrawnInv, Kept
    <3>2. QED BY <1>4, <1>5, <1>7, <3>1 DEF RequestHookResults, At
  <2>3. QED BY <1>1, <1>2, <2>1, <2>2, RequestStays
<1>8. CASE effect.request # 0
  <2>1. request # NoRequest /\ request.id = effect.request
    BY <1>2, <1>8 DEF StateInv, StateShape, Register
  <2>. DEFINE C == RequestHookResults(log, request.id)
              D == RequestHookResults(log', request.id)
              r == request.results
  <2>2. request'.id = request.id /\ request'.results = Append(r, effect.id) BY <1>1, <1>8, <2>1
  <2>3. r \in Seq(Nat) /\ effect.id \in Nat BY DEF TypeInv, TypeOK
  <2>4. /\ \A n \in DOMAIN r : n \in Nat /\ n \in DOMAIN request'.results /\ request'.results[n] = r[n] /\ n < Len(r) + 1
        /\ Len(r) + 1 \in DOMAIN request'.results /\ request'.results[Len(r) + 1] = effect.id
        /\ \A n \in DOMAIN request'.results : n \in Nat /\ (n \in DOMAIN r \/ n = Len(r) + 1)
    <3>. HIDE DEF r
    <3>1. QED BY <2>2, <2>3
  <2>5. \A p : p \in D <=> p \in C \/ p = NextPlace
    <3>1. NextPlace \in D BY <1>4, <1>5, <2>1 DEF RequestHookResults, At
    <3>2. \A p \in D : p # NextPlace => p \in C BY <1>5 DEF RequestHookResults, At
    <3>3. \A p \in C : p \in D BY <1>5 DEF RequestHookResults, At
    <3>4. QED BY <3>1, <3>2, <3>3
  <2>6. \A p \in C : p \in DOMAIN log /\ p \in Nat /\ p < NextPlace /\ log'[p] = log[p] /\ log'[p].id # effect.id
    BY <1>5, <1>6 DEF RequestHookResults, At
  <2>7. /\ \A p \in C : \E n \in DOMAIN r : r[n] = log[p].id
        /\ \A n \in DOMAIN r : \E p \in C : r[n] = log[p].id
        /\ \A m, n \in DOMAIN r : \A p, q \in C : (m < n /\ r[m] = log[p].id /\ r[n] = log[q].id) => p < q
    BY <1>3, <2>1 DEF RequestStateExact
  <2>. HIDE DEF C, D, r
  <2>8. \A p \in D : \E n \in DOMAIN request'.results : request'.results[n] = log'[p].id
    <3>. SUFFICES ASSUME NEW p \in D PROVE \E n \in DOMAIN request'.results : request'.results[n] = log'[p].id OBVIOUS
    <3>1. CASE p = NextPlace BY <1>4, <2>4, <3>1
    <3>2. CASE p \in C
      <4>1. PICK n \in DOMAIN r : r[n] = log[p].id BY <2>7, <3>2
      <4>2. QED BY <2>4, <2>6, <3>2, <4>1
    <3>3. QED BY <2>5, <3>1, <3>2
  <2>9. \A n \in DOMAIN request'.results : \E p \in D : request'.results[n] = log'[p].id
    <3>. SUFFICES ASSUME NEW n \in DOMAIN request'.results PROVE \E p \in D : request'.results[n] = log'[p].id OBVIOUS
    <3>1. CASE n \in DOMAIN r
      <4>1. PICK p \in C : r[n] = log[p].id BY <2>7, <3>1
      <4>2. QED BY <2>4, <2>5, <2>6, <3>1, <4>1
    <3>2. CASE n = Len(r) + 1 BY <1>4, <2>4, <2>5, <3>2
    <3>3. QED BY <2>4, <3>1, <3>2
  <2>10. ASSUME NEW m \in DOMAIN request'.results, NEW n \in DOMAIN request'.results, NEW p \in D, NEW q \in D,
                m < n, request'.results[m] = log'[p].id, request'.results[n] = log'[q].id
         PROVE  p < q
    <3>0. Len(r) \in Nat BY <2>3 DEF r
    <3>1. m \in DOMAIN r BY <2>4, <2>10, <3>0
    <3>2. PICK x \in C : r[m] = log[x].id BY <2>7, <3>1
    <3>3. log'[p].id # effect.id BY <2>4, <2>6, <2>10, <3>1, <3>2
    <3>4. p \in C BY <1>4, <2>5, <3>3
    <3>5. CASE q = NextPlace BY <2>6, <3>4, <3>5
    <3>6. CASE q # NextPlace
      <4>1. q \in C BY <2>5, <3>6
      <4>2. n \in DOMAIN r BY <2>4, <2>6, <2>10, <4>1
      <4>3. r[m] = log[p].id BY <2>4, <2>6, <2>10, <3>1, <3>4
      <4>4. r[n] = log[q].id BY <2>4, <2>6, <2>10, <4>1, <4>2
      <4>5. QED BY <2>7, <2>10, <3>1, <3>4, <4>1, <4>2, <4>3, <4>4
    <3>7. QED BY <3>5, <3>6
  <2>11. QED BY <1>3, <2>2, <2>8, <2>9, <2>10 DEF RequestStateExact, D
<1>9. QED BY <1>7, <1>8

(* The whole transaction of a hook's result. *)
LEMMA HookGraph ==
  ASSUME TypeInv, EffectsInv, GraphInv, TypeInv', EffectsInv', effect.kind = "hook",
         NEW s, NEW k, CommitHook(s, k), s = "succeeded" => k = "observed"
  PROVE  DrawnInv' /\ AheadInv' /\ LogInv' /\ StateInv' /\ RegisterInv'
<1>1. /\ status = "running" /\ status' = status /\ ids' = ids /\ pending' = pending /\ effect' = NoEffect
      /\ Grown /\ New = {NextPlace} /\ log'[NextPlace] = HookResult(effect, s, k)
      /\ request' = IF effect.request # 0 /\ request # NoRequest
                    THEN [id |-> request.id, results |-> Append(request.results, effect.id)]
                    ELSE request
  BY HookIs
<1>2. DrawnInv /\ RegisterInv BY DEF GraphInv
<1>3. log'[NextPlace].kind = "hook" /\ log'[NextPlace].id = effect.id BY <1>1 DEF HookResult
<1>4. Appends
  <2>1. Observing(NextPlace) BY <1>1 DEF Observing
  <2>2. QED BY <1>1, <2>1 DEF Appends
<1>5. DrawnInv' /\ AheadInv' /\ LogInv'
  <2>1. ids' \in Nat /\ ids <= ids' BY <1>1 DEF TypeInv
  <2>2. request' # NoRequest => request # NoRequest /\ request'.id = request.id BY <1>1
  <2>3. QED BY <1>1, <1>4, <2>1, <2>2, AppendsKeep
<1>6. StateInv'
  <2>1. effect'.kind = "none" BY <1>1 DEF NoEffect
  <2>2. QED BY <2>1, StateNext
<1>7. PendingExact(Register', log')
  <2>1. PublishedCalls(log') = PublishedCalls(log) BY <1>1, <1>2, <1>3, <1>4, SameCalls
  <2>2. \A i \in New : \A a \in PublishedCalls(log) : log'[i].id # a.id BY <1>1, <1>2, <1>3, EffectOpen
  <2>3. QED BY <1>1, <1>2, <1>4, <2>1, <2>2, PendingStays
<1>8. At(log', "settlement") = {}
  <2>1. At(log, "settlement") = {} BY <1>1, <1>2, EffectOpen
  <2>2. QED BY <1>1, <1>3, <2>1, PlacesAre DEF At
<1>9. RegisterInv' BY <1>1, <1>7, <1>8, RequestExtends, QuietRegister
<1>10. QED BY <1>5, <1>6, <1>9

(* A completed output publishes its calls, which nothing answers yet. *)
LEMMA CompletedIs ==
  ASSUME TypeInv, EffectsInv, at = "calling", NEW b \in Seq(Call), ~Repeats(b), OutputCompleted(b)
  PROVE  /\ status = "running" /\ status' = status /\ effect' = NoEffect /\ effect.kind = "model"
         /\ ids' = ids + Len(b) /\ Len(b) \in Nat /\ ids \in Nat \ {0} /\ pending = <<>>
         /\ request' \in {request, NoRequest}
         /\ DOMAIN b = 1..Len(b) /\ DOMAIN pending' = 1..Len(b)
         /\ \A n \in 1..Len(b) : pending'[n] = [call |-> b[n], id |-> ids + n - 1, publisher |-> effect.id]
         /\ Grown /\ New = {NextPlace}
         /\ log'[NextPlace] = Assistant(effect.id, effect.request, Reserve(b), effect.chain)
<1>. DEFINE e == Assistant(effect.id, effect.request, Reserve(b), effect.chain)
<1>1. /\ pending = <<>> /\ status = "running" /\ effect.kind = "model" /\ effect.request = ask
  BY DEF EffectsInv, PlaceInv, EffectPlaced, BeforeOutput, RequestInv, RequestPlaced
<1>2. /\ log' = Append(log, e) /\ pending' = pending \o Pend(b) /\ ids' = ids + Len(b) /\ effect' = NoEffect
      /\ request' = IF pending' = <<>> THEN NoRequest ELSE request
      /\ UNCHANGED status
  BY <1>1 DEF OutputCompleted
<1>3. Len(b) \in Nat /\ DOMAIN b = 1..Len(b) OBVIOUS
<1>4. ids \in Nat \ {0} BY DEF TypeInv
<1>5. pending' = Pend(b)
  <2>. DEFINE S == {Pend(b)[i] : i \in 1..Len(b)}
  <2>1. Pend(b) \in [1..Len(b) -> S] BY <1>3 DEF Pend
  <2>. HIDE DEF S
  <2>2. Pend(b) \in Seq(S) BY <1>3, <2>1, FunctionIsSeq
  <2>3. <<>> \o Pend(b) = Pend(b) BY <2>2
  <2>4. QED BY <1>1, <1>2, <2>3
<1>6. DOMAIN pending' = 1..Len(b)
      /\ \A n \in 1..Len(b) : pending'[n] = [call |-> b[n], id |-> ids + n - 1, publisher |-> effect.id]
  BY <1>3, <1>5 DEF Pend
<1>. HIDE DEF e
<1>7. Joined(log', log, <<e>>) BY <1>2, AppendIs DEF TypeInv
<1>8. Len(<<e>>) = 1 /\ <<e>>[1] = e BY SingleIs
<1>9. Grown /\ New = {NextPlace} /\ log'[NextPlace] = e BY <1>7, <1>8 DEF Joined, Grown, New, NextPlace
<1>10. QED BY <1>1, <1>2, <1>3, <1>4, <1>6, <1>9 DEF e

(* Their identities are fresh, whatever earlier rounds published. *)
LEMMA CompletedAppends ==
  ASSUME TypeInv, EffectsInv, at = "calling", NEW b \in Seq(Call), ~Repeats(b), OutputCompleted(b)
  PROVE  Appends /\ log'[NextPlace].calls = Reserve(b) /\ log'[NextPlace].kind = "assistant"
         /\ log'[NextPlace].id = effect.id
<1>1. /\ status = "running" /\ effect.kind = "model" /\ ids' = ids + Len(b) /\ Len(b) \in Nat /\ ids \in Nat \ {0}
      /\ DOMAIN b = 1..Len(b) /\ Grown /\ New = {NextPlace}
      /\ log'[NextPlace] = Assistant(effect.id, effect.request, Reserve(b), effect.chain)
  BY CompletedIs
<1>2. log'[NextPlace].calls = Reserve(b) /\ log'[NextPlace].id = effect.id /\ log'[NextPlace].kind = "assistant"
  BY <1>1 DEF Assistant
<1>3. DOMAIN Reserve(b) = 1..Len(b) /\ \A n \in 1..Len(b) : Reserve(b)[n].call = b[n] /\ Reserve(b)[n].id = ids + n - 1
  BY <1>1 DEF Reserve
<1>4. effect.id \in Kept BY <1>1, ModelAsks
<1>5. \A n \in 1..Len(b) : b[n] \notin Published /\ \A m \in 1..Len(b) : b[m] = b[n] => m = n
  BY <1>1 DEF Repeats, Unique
<1>6. \A n \in 1..Len(b) : ids + n - 1 \in Kept' \ Kept BY <1>1 DEF Kept
<1>7. Outputting(NextPlace)
  <2>1. \E cs : log'[NextPlace] = Assistant(effect.id, effect.request, cs, effect.chain) BY <1>1
  <2>2. ASSUME NEW n \in DOMAIN log'[NextPlace].calls
        PROVE  /\ n \in Nat /\ log'[NextPlace].calls[n].call \notin Published
               /\ log'[NextPlace].calls[n].id \in Kept' \ Kept
               /\ \A m \in DOMAIN log'[NextPlace].calls :
                     (log'[NextPlace].calls[n].call = log'[NextPlace].calls[m].call
                        \/ log'[NextPlace].calls[n].id = log'[NextPlace].calls[m].id) => m = n
               /\ \A j \in New : log'[j].id # log'[NextPlace].calls[n].id
    <3>1. n \in 1..Len(b) /\ n \in Nat BY <1>1, <1>2, <1>3
    <3>2. log'[NextPlace].calls[n].call = b[n] /\ log'[NextPlace].calls[n].id = ids + n - 1 BY <1>2, <1>3, <3>1
    <3>3. \A m \in DOMAIN log'[NextPlace].calls : /\ m \in 1..Len(b) /\ m \in Nat
             /\ log'[NextPlace].calls[m].call = b[m] /\ log'[NextPlace].calls[m].id = ids + m - 1
      BY <1>1, <1>2, <1>3
    <3>4. \A m \in 1..Len(b) : ids + m - 1 = ids + n - 1 => m = n BY <1>1, <3>1
    <3>5. QED BY <1>1, <1>2, <1>4, <1>5, <1>6, <3>1, <3>2, <3>3, <3>4
  <2>3. QED BY <1>1, <2>1, <2>2 DEF Outputting
<1>8. Appends BY <1>1, <1>7 DEF Appends
<1>9. QED BY <1>2, <1>8

(* The pending list is exactly the output's calls, in their order. *)
LEMMA CompletedPends ==
  ASSUME TypeInv, EffectsInv, GraphInv, at = "calling", NEW b \in Seq(Call), ~Repeats(b), OutputCompleted(b)
  PROVE  PendingExact(Register', log')
<1>. DEFINE Open == {a \in PublishedCalls(log') : ~Resolved(log', a)}
<1>1. /\ status = "running" /\ effect.kind = "model" /\ Len(b) \in Nat /\ ids \in Nat \ {0} /\ pending = <<>>
      /\ DOMAIN pending' = 1..Len(b) /\ DOMAIN b = 1..Len(b)
      /\ \A n \in 1..Len(b) : pending'[n] = [call |-> b[n], id |-> ids + n - 1, publisher |-> effect.id]
      /\ Grown /\ New = {NextPlace}
  BY CompletedIs
<1>2. /\ Appends /\ log'[NextPlace].calls = Reserve(b) /\ log'[NextPlace].id = effect.id
      /\ log'[NextPlace].kind = "assistant"
  BY CompletedAppends
<1>3. DOMAIN Reserve(b) = 1..Len(b) /\ \A n \in 1..Len(b) : Reserve(b)[n].call = b[n] /\ Reserve(b)[n].id = ids + n - 1
  BY <1>1 DEF Reserve
<1>4. DrawnInv /\ RegisterInv BY DEF GraphInv
<1>5. ASSUME NEW a \in PublishedCalls(log) PROVE a \notin Open
  <2>1. DOMAIN pending = {} BY <1>1
  <2>2. Committed(log, a.id) BY <1>1, <1>4, <2>1, PendingOpen
  <2>3. QED BY <1>1, <2>2, CommittedGrows DEF Resolved
<1>6. ASSUME NEW a \in Open
      PROVE  /\ a.at = NextPlace /\ a.nth \in 1..Len(b) /\ a.nth \in Nat /\ NextPlace \in Nat
             /\ a.id = ids + a.nth - 1 /\ pending'[a.nth] = Reservation(a)
  <2>1. a \in PublishedCalls(log') /\ a \notin PublishedCalls(log) BY <1>5
  <2>2. a.at \in New BY <1>2, <1>4, <2>1, GrownCalls
  <2>3. a.at = NextPlace BY <1>1, <2>2
  <2>4. /\ a.nth \in DOMAIN log'[NextPlace].calls /\ a.call = log'[NextPlace].calls[a.nth].call
        /\ a.id = log'[NextPlace].calls[a.nth].id /\ a.publisher = effect.id
    BY <1>2, <2>1, <2>3, CallsOf
  <2>5. a.nth \in 1..Len(b) /\ a.call = b[a.nth] /\ a.id = ids + a.nth - 1 BY <1>2, <1>3, <2>4
  <2>6. pending'[a.nth] = Reservation(a) BY <1>1, <2>4, <2>5 DEF Reservation
  <2>7. NextPlace \in Nat BY <1>1, PlacesAre
  <2>8. QED BY <1>1, <2>3, <2>5, <2>6, <2>7
<1>7. ASSUME NEW n \in 1..Len(b) PROVE \E a \in Open : pending'[n] = Reservation(a)
  <2>. DEFINE a == [at |-> NextPlace, nth |-> n, call |-> Reserve(b)[n].call, id |-> Reserve(b)[n].id,
                    publisher |-> effect.id]
  <2>1. NextPlace \in At(log', "assistant") BY <1>1, <1>2, PlacesAre DEF At
  <2>2. a \in PublishedCalls(log') BY <1>2, <1>3, <2>1, CallsOf
  <2>3. a.id = ids + n - 1 /\ a.call = b[n] /\ a.publisher = effect.id BY <1>3
  <2>4. ~Committed(log', a.id)
    <3>1. a.id \notin Kept BY <1>1, <2>3 DEF Kept
    <3>2. ~Committed(log, a.id) BY <3>1, PartsAre DEF LogType, Committed
    <3>3. effect.id \in Kept BY <1>1, ModelAsks
    <3>4. QED BY <1>1, <1>2, <3>1, <3>2, <3>3, CommittedGrows
  <2>. HIDE DEF a
  <2>5. a \in Open BY <2>2, <2>4 DEF Resolved
  <2>6. pending'[n] = Reservation(a) BY <1>1, <2>3 DEF Reservation
  <2>7. QED BY <2>5, <2>6
<1>8. ASSUME NEW m \in 1..Len(b), NEW n \in 1..Len(b), NEW x \in Open, NEW y \in Open,
             m < n, pending'[m] = Reservation(x), pending'[n] = Reservation(y)
      PROVE  Earlier(x, y)
  <2>1. x.id = ids + m - 1 /\ y.id = ids + n - 1 BY <1>1, <1>8 DEF Reservation
  <2>2. x.nth \in Nat /\ y.nth \in Nat /\ x.id = ids + x.nth - 1 /\ y.id = ids + y.nth - 1 BY <1>6
  <2>3. x.nth = m /\ y.nth = n BY <1>1, <2>1, <2>2
  <2>4. x.at = y.at BY <1>6
  <2>5. QED BY <1>8, <2>3, <2>4 DEF Earlier
<1>. HIDE DEF Open
<1>9. \A a \in Open : \E n \in DOMAIN pending' : pending'[n] = Reservation(a) BY <1>1, <1>6
<1>10. Register'.pending = pending' BY DEF Register
<1>11. QED BY <1>1, <1>7, <1>8, <1>9, <1>10 DEF PendingExact, Open

(* The whole transaction of a completed output. *)
LEMMA CompletedGraph ==
  ASSUME TypeInv, EffectsInv, GraphInv, TypeInv', EffectsInv', at = "calling",
         NEW b \in Seq(Call), ~Repeats(b), OutputCompleted(b)
  PROVE  DrawnInv' /\ AheadInv' /\ LogInv' /\ StateInv' /\ RegisterInv'
<1>1. /\ status = "running" /\ status' = status /\ effect' = NoEffect /\ ids' = ids + Len(b) /\ Len(b) \in Nat
      /\ ids \in Nat \ {0} /\ request' \in {request, NoRequest} /\ Grown /\ New = {NextPlace}
  BY CompletedIs
<1>2. Appends /\ log'[NextPlace].kind = "assistant" BY CompletedAppends
<1>3. DrawnInv /\ RegisterInv BY DEF GraphInv
<1>4. DrawnInv' /\ AheadInv' /\ LogInv'
  <2>1. ids' \in Nat /\ ids <= ids' BY <1>1
  <2>2. QED BY <1>1, <1>2, <2>1, AppendsKeep
<1>5. StateInv'
  <2>1. effect'.kind = "none" BY <1>1 DEF NoEffect
  <2>2. QED BY <2>1, StateNext
<1>6. RequestStateExact(Register', log') BY <1>1, <1>2, <1>3, SameHooks, RequestStays
<1>7. At(log', "settlement") = {}
  <2>1. At(log, "settlement") = {} BY <1>1, <1>3, EffectOpen
  <2>2. QED BY <1>1, <1>2, <2>1, PlacesAre DEF At
<1>8. RegisterInv' BY <1>1, <1>6, <1>7, CompletedPends, QuietRegister
<1>9. QED BY <1>4, <1>5, <1>8

(* A partial output publishes no call and leaves a signal behind it. *)
LEMMA PartialIs ==
  ASSUME TypeInv, EffectsInv, at = "calling", OutputPartial
  PROVE  /\ status = "running" /\ status' = status /\ effect' = NoEffect /\ pending' = pending
         /\ ids' = ids + 1 /\ ids \in Nat \ {0} /\ request' = NoRequest
         /\ Grown /\ New = {NextPlace, NextPlace + 1} /\ NextPlace \in Nat
         /\ log'[NextPlace] = Partial /\ log'[NextPlace + 1] = Signal(ids, "continuation")
         /\ effect.kind = "model" /\ Partial = Assistant(effect.id, effect.request, <<>>, effect.chain)
<1>. DEFINE c == Signal(ids, "continuation")
<1>1. /\ pending = <<>> /\ status = "running" /\ effect.kind = "model" /\ effect.request = ask
  BY DEF EffectsInv, PlaceInv, EffectPlaced, BeforeOutput, RequestInv, RequestPlaced
<1>2. /\ log' = log \o <<Partial, c>> /\ ids' = ids + 1 /\ effect' = NoEffect
      /\ request' = NoRequest /\ UNCHANGED <<status, pending>>
  BY <1>1 DEF OutputPartial, Partial
<1>3. IsSeq(<<Partial, c>>) /\ Len(<<Partial, c>>) = 2 /\ <<Partial, c>>[1] = Partial /\ <<Partial, c>>[2] = c
  <2>1. <<Partial, c>> \in Seq({Partial, c}) OBVIOUS
  <2>2. QED BY <2>1, SeqIs
<1>4. Joined(log', log, <<Partial, c>>) BY <1>2, <1>3, Glued DEF TypeInv
<1>5. Partial = Assistant(effect.id, effect.request, <<>>, effect.chain) BY <1>1 DEF Partial
<1>6. ids \in Nat \ {0} BY DEF TypeInv
<1>. HIDE DEF c
<1>7. /\ Len(log) \in Nat /\ IsSeq(log') /\ DOMAIN log = 1..Len(log) /\ DOMAIN log' = 1..(Len(log) + 2)
      /\ \A i \in 1..Len(log) : i \in 1..(Len(log) + 2) /\ log'[i] = log[i]
      /\ log'[Len(log) + 1] = Partial /\ log'[Len(log) + 2] = c
  BY <1>3, <1>4 DEF Joined
<1>8. Grown BY <1>7 DEF Grown
<1>9. New = {NextPlace, NextPlace + 1} /\ NextPlace + 1 = Len(log) + 2 /\ NextPlace \in Nat BY <1>7 DEF New, NextPlace
<1>10. QED BY <1>1, <1>2, <1>5, <1>6, <1>7, <1>8, <1>9 DEF c, NextPlace

(* The whole transaction of a partial output. *)
LEMMA PartialGraph ==
  ASSUME TypeInv, EffectsInv, GraphInv, TypeInv', EffectsInv', at = "calling", OutputPartial
  PROVE  DrawnInv' /\ AheadInv' /\ LogInv' /\ StateInv' /\ RegisterInv'
<1>1. /\ status = "running" /\ status' = status /\ effect' = NoEffect /\ pending' = pending
      /\ ids' = ids + 1 /\ ids \in Nat \ {0} /\ request' = NoRequest
      /\ Grown /\ New = {NextPlace, NextPlace + 1} /\ NextPlace \in Nat
      /\ log'[NextPlace] = Partial /\ log'[NextPlace + 1] = Signal(ids, "continuation")
      /\ effect.kind = "model" /\ Partial = Assistant(effect.id, effect.request, <<>>, effect.chain)
  BY PartialIs
<1>2. DrawnInv /\ RegisterInv BY DEF GraphInv
<1>3. /\ log'[NextPlace].kind = "assistant" /\ log'[NextPlace].id = effect.id /\ log'[NextPlace].calls = <<>>
      /\ log'[NextPlace + 1].kind = "signal" /\ log'[NextPlace + 1].id = ids
  BY <1>1 DEF Assistant, Signal
<1>4. effect.id \in Kept /\ ids \notin Kept BY <1>1, ModelAsks DEF Kept
<1>5. Appends
  <2>1. Outputting(NextPlace)
    <3>1. \E cs : log'[NextPlace] = Assistant(effect.id, effect.request, cs, effect.chain) BY <1>1
    <3>2. DOMAIN log'[NextPlace].calls = {} BY <1>3
    <3>3. QED BY <1>1, <3>1, <3>2 DEF Outputting
  <2>2. Concluding(NextPlace + 1) BY <1>3, <1>4 DEF Concluding
  <2>3. \A i, j \in New : log'[i].id = log'[j].id => i = j BY <1>1, <1>3, <1>4
  <2>4. QED BY <1>1, <2>1, <2>2, <2>3 DEF Appends
<1>6. DrawnInv' /\ AheadInv' /\ LogInv'
  <2>1. ids' \in Nat /\ ids <= ids' BY <1>1
  <2>2. QED BY <1>1, <1>5, <2>1, AppendsKeep
<1>7. StateInv'
  <2>1. effect'.kind = "none" BY <1>1 DEF NoEffect
  <2>2. QED BY <2>1, StateNext
<1>8. PendingExact(Register', log')
  <2>1. \A i \in New : log'[i].kind # "assistant" \/ DOMAIN log'[i].calls = {} BY <1>1, <1>3
  <2>2. PublishedCalls(log') = PublishedCalls(log) BY <1>2, <1>5, <2>1, SameCalls
  <2>3. \A i \in New : \A a \in PublishedCalls(log) : log'[i].id # a.id
    BY <1>1, <1>2, <1>3, <1>4, EffectOpen DEF DrawnInv
  <2>4. QED BY <1>1, <1>2, <1>5, <2>2, <2>3, PendingStays
<1>9. RequestStateExact(Register', log')
  <2>1. Register'.request = NoRequest BY <1>1 DEF Register
  <2>2. QED BY <2>1 DEF RequestStateExact
<1>10. At(log', "settlement") = {}
  <2>1. At(log, "settlement") = {} BY <1>1, <1>2, EffectOpen
  <2>2. \A i \in New : log'[i].kind # "settlement" BY <1>1, <1>3
  <2>3. QED BY <1>1, <2>1, <2>2, PlacesAre DEF At
<1>11. RegisterInv' BY <1>1, <1>8, <1>9, <1>10, QuietRegister
<1>12. QED BY <1>6, <1>7, <1>11

(* The pending reservations are distinct, and none is the active model's or
   hook's identity. *)
LEMMA PendingDistinct ==
  ASSUME TypeInv, EffectsInv, IdentityInv, RegisterInv, status = "running"
  PROVE  /\ \A k, m \in DOMAIN pending : pending[k].id = pending[m].id => k = m
         /\ effect.kind \in {"model", "hook"} => \A k \in DOMAIN pending : pending[k].id # effect.id
         /\ \A k \in DOMAIN pending : pending[k].id \in Kept
<1>1. ASSUME NEW k \in DOMAIN pending, NEW m \in DOMAIN pending, pending[k].id = pending[m].id PROVE k = m
  <2>1. PICK a \in PublishedCalls(log) : ~Committed(log, a.id) /\ pending[k] = Reservation(a) BY PendingOpen
  <2>2. PICK b \in PublishedCalls(log) : ~Committed(log, b.id) /\ pending[m] = Reservation(b) BY PendingOpen
  <2>3. a.id = b.id BY <1>1, <2>1, <2>2 DEF Reservation
  <2>4. a = b BY <2>3 DEF IdentityInv, ReservationsUnique
  <2>5. pending[k].call = pending[m].call BY <2>1, <2>2, <2>4
  <2>6. QED BY <2>5 DEF EffectsInv, CallInv
<1>2. ASSUME effect.kind \in {"model", "hook"}, NEW k \in DOMAIN pending PROVE pending[k].id # effect.id
  <2>1. PICK a \in PublishedCalls(log) : ~Committed(log, a.id) /\ pending[k] = Reservation(a) BY PendingOpen
  <2>2. pending[k].id = a.id BY <2>1 DEF Reservation
  <2>3. QED BY <1>2, <2>2, EffectOpen
<1>3. QED BY <1>1, <1>2 DEF TypeInv

(* Where commitTerminalSettlement puts its entries. *)
LEMMA TerminateLays ==
  ASSUME TypeInv, NEW s \in Terminals, NEW produced, produced \in {<<>>, <<Partial>>},
         produced # <<>> => effect.kind = "model", Terminate(s, produced)
  PROVE  /\ Grown
         /\ \E n, z \in Nat :
               /\ \A i \in New :
                     \/ i = NextPlace /\ effect.kind = "model" /\ produced # <<>> /\ log'[i] = Partial
                     \/ i = NextPlace /\ effect.kind = "hook" /\ log'[i] = HookResult(effect, "interrupted", "unknown")
                     \/ \E k \in DOMAIN pending : i = n + k /\ log'[i] = InterruptedCall(pending[k])
                     \/ i = z /\ log'[i] = Signal(ids, "interruption")
                     \/ i = z + 1 /\ log'[i] = Closing(s, produced)
               /\ \A k \in DOMAIN pending : n + k \in New /\ log'[n + k] = InterruptedCall(pending[k])
               /\ z + 1 \in New /\ log'[z + 1] = Closing(s, produced)
<1>1. /\ IsSeq(produced) /\ DOMAIN produced = 1..Len(produced)
      /\ \/ produced = <<>> /\ Len(produced) = 0
         \/ produced # <<>> /\ Len(produced) = 1 /\ produced[1] = Partial
  BY SingleIs, EmptyIs
<1>. DEFINE n0 == Len(log)
            n1 == n0 + Len(produced)
            n2 == n1 + Len(UnfinishedHook)
            n3 == n2 + Len(pending)
            n4 == n3 + Len(Signals(s))
<1>2. /\ IsSeq(log') /\ DOMAIN log' = 1..(n4 + 1) /\ DOMAIN log = 1..n0
      /\ \A i \in 1..n0 : log'[i] = log[i]
      /\ \A i \in 1..Len(produced) : log'[n0 + i] = produced[i]
      /\ \A i \in 1..Len(UnfinishedHook) : log'[n1 + i] = UnfinishedHook[i]
      /\ \A k \in 1..Len(pending) : log'[n2 + k] = InterruptedCall(pending[k])
      /\ \A i \in 1..Len(Signals(s)) : log'[n3 + i] = Signals(s)[i]
      /\ log'[n4 + 1] = Closing(s, produced)
      /\ {n0, Len(produced), Len(UnfinishedHook), Len(pending), Len(Signals(s))} \subseteq Nat
  BY <1>1, TerminatePositions DEF Closing
<1>3. DOMAIN pending = 1..Len(pending) BY DEF TypeInv, TypeOK
<1>4. \/ effect.kind = "hook" /\ Len(UnfinishedHook) = 1
            /\ UnfinishedHook[1] = HookResult(effect, "interrupted", "unknown")
      \/ effect.kind # "hook" /\ Len(UnfinishedHook) = 0
  BY SingleIs, EmptyIs DEF UnfinishedHook
<1>5. \/ Len(Signals(s)) = 0
      \/ Len(Signals(s)) = 1 /\ Signals(s)[1] = Signal(ids, "interruption")
  BY SingleIs, EmptyIs DEF Signals
<1>. HIDE DEF n0, n1, n2, n3, n4
<1>6. /\ n1 = n0 + Len(produced) /\ n2 = n1 + Len(UnfinishedHook) /\ n3 = n2 + Len(pending)
      /\ n4 = n3 + Len(Signals(s)) /\ NextPlace = n0 + 1
      /\ n0 \in Nat /\ n1 \in Nat /\ n2 \in Nat /\ n3 \in Nat /\ n4 \in Nat
      /\ Len(produced) \in Nat /\ Len(UnfinishedHook) \in Nat /\ Len(pending) \in Nat /\ Len(Signals(s)) \in Nat
  BY <1>2 DEF n0, n1, n2, n3, n4, NextPlace
<1>7. Grown BY <1>2, <1>6 DEF Grown
<1>8. New = (n0 + 1)..(n4 + 1) BY <1>2, <1>6 DEF New
<1>9. ASSUME NEW i \in New
      PROVE  \/ i = NextPlace /\ effect.kind = "model" /\ produced # <<>> /\ log'[i] = Partial
             \/ i = NextPlace /\ effect.kind = "hook" /\ log'[i] = HookResult(effect, "interrupted", "unknown")
             \/ \E k \in DOMAIN pending : i = n2 + k /\ log'[i] = InterruptedCall(pending[k])
             \/ i = n4 /\ log'[i] = Signal(ids, "interruption")
             \/ i = n4 + 1 /\ log'[i] = Closing(s, produced)
  <2>0. i \in Int /\ n0 < i /\ i <= n4 + 1 BY <1>6, <1>8
  <2>1. CASE i <= n1
    <3>1. i = NextPlace /\ Len(produced) = 1 BY <1>1, <1>6, <2>0, <2>1
    <3>2. log'[n0 + 1] = Partial /\ produced # <<>> BY <1>1, <1>2, <3>1
    <3>3. QED BY <1>6, <3>1, <3>2
  <2>2. CASE n1 < i /\ i <= n2
    <3>1. effect.kind = "hook" /\ Len(UnfinishedHook) = 1 BY <1>4, <1>6, <2>0, <2>2
    <3>2. Len(produced) = 0 BY <1>1, <3>1
    <3>3. i = n1 + 1 /\ i = NextPlace BY <1>6, <2>0, <2>2, <3>1, <3>2
    <3>4. log'[n1 + 1] = HookResult(effect, "interrupted", "unknown") BY <1>2, <1>4, <3>1
    <3>5. QED BY <3>1, <3>3, <3>4
  <2>3. CASE n2 < i /\ i <= n3
    <3>1. i - n2 \in 1..Len(pending) /\ i = n2 + (i - n2) BY <1>6, <2>0, <2>3
    <3>2. QED BY <1>2, <1>3, <3>1
  <2>4. CASE n3 < i /\ i <= n4
    <3>1. n4 # n3 BY <1>6, <2>0, <2>4
    <3>2. Len(Signals(s)) # 0 BY <1>6, <3>1
    <3>3. Len(Signals(s)) = 1 BY <1>5, <3>2
    <3>4. i = n3 + 1 /\ i = n4 BY <1>6, <2>0, <2>4, <3>3
    <3>5. 1 \in 1..Len(Signals(s)) BY <3>3
    <3>6. QED BY <1>2, <1>5, <3>3, <3>4, <3>5
  <2>5. CASE i = n4 + 1 BY <1>2, <2>5
  <2>6. i <= n1 \/ (n1 < i /\ i <= n2) \/ (n2 < i /\ i <= n3) \/ (n3 < i /\ i <= n4) \/ i = n4 + 1
    BY <1>6, <2>0
  <2>7. QED BY <2>1, <2>2, <2>3, <2>4, <2>5, <2>6
<1>10. \A k \in DOMAIN pending : n2 + k \in New /\ log'[n2 + k] = InterruptedCall(pending[k])
  BY <1>2, <1>3, <1>6, <1>8
<1>11. n4 + 1 \in New /\ log'[n4 + 1] = Closing(s, produced)
  <2>1. n0 + 1 <= n4 + 1 /\ n4 + 1 \in Int /\ n0 + 1 \in Int BY <1>6
  <2>2. n4 + 1 \in (n0 + 1)..(n4 + 1) BY <2>1
  <2>3. n4 + 1 \in New BY <1>8, <2>2
  <2>4. log'[n4 + 1] = Closing(s, produced) BY <1>2
  <2>5. QED BY <2>3, <2>4
<1>12. QED BY <1>6, <1>7, <1>9, <1>10, <1>11

(* The terminal transaction settles everything the Operation reserved, once
   each and under its identity. *)
LEMMA TerminateAppends ==
  ASSUME TypeInv, EffectsInv, GraphInv, status = "running", NEW s \in Terminals,
         NEW produced, produced \in {<<>>, <<Partial>>}, produced # <<>> => at = "calling", Terminate(s, produced)
  PROVE  Appends
<1>1. RegisterInv /\ IdentityInv /\ AheadInv BY DEF GraphInv, LogInv
<1>2. produced # <<>> => effect.kind = "model" /\ effect.request = ask
  BY DEF EffectsInv, PlaceInv, EffectPlaced, RequestInv, RequestPlaced
<1>3. Grown BY <1>2, TerminateLays
<1>4. PICK n, z \in Nat :
               /\ \A i \in New :
                     \/ i = NextPlace /\ effect.kind = "model" /\ produced # <<>> /\ log'[i] = Partial
                     \/ i = NextPlace /\ effect.kind = "hook" /\ log'[i] = HookResult(effect, "interrupted", "unknown")
                     \/ \E k \in DOMAIN pending : i = n + k /\ log'[i] = InterruptedCall(pending[k])
                     \/ i = z /\ log'[i] = Signal(ids, "interruption")
                     \/ i = z + 1 /\ log'[i] = Closing(s, produced)
               /\ \A k \in DOMAIN pending : n + k \in New /\ log'[n + k] = InterruptedCall(pending[k])
               /\ z + 1 \in New /\ log'[z + 1] = Closing(s, produced)
  BY <1>2, TerminateLays
<1>5. ids \in Nat \ {0} /\ ids \notin Kept /\ ids + 1 \notin Kept BY DEF TypeInv, Kept
<1>6. effect.kind \in {"model", "hook"} => effect.id \in Kept BY DEF TypeInv, NoEffect
<1>7. Partial.kind = "assistant" /\ Partial.id = effect.id /\ Partial.calls = <<>> BY DEF Partial, Assistant
<1>8. HookResult(effect, "interrupted", "unknown").kind = "hook" /\ HookResult(effect, "interrupted", "unknown").id = effect.id
  BY DEF HookResult
<1>9. \A k : /\ InterruptedCall(pending[k]).kind = "tool" /\ InterruptedCall(pending[k]).id = pending[k].id
             /\ InterruptedCall(pending[k]).call = pending[k].call
             /\ InterruptedCall(pending[k]).publisher = pending[k].publisher
             /\ InterruptedCall(pending[k]).status = "interrupted"
             /\ \/ InterruptedCall(pending[k]).selection = NoSelection
                \/ /\ effect.kind = "tool" /\ effect.call = pending[k].call
                   /\ InterruptedCall(pending[k]).selection = Selected(effect.chain)
  BY DEF InterruptedCall, ToolResult
<1>10. Signal(ids, "interruption").kind = "signal" /\ Signal(ids, "interruption").id = ids BY DEF Signal
<1>11. /\ Closing(s, produced).kind = "settlement" /\ Closing(s, produced).status = s
       /\ \/ Closing(s, produced).id = ids + 1
          \/ effect.kind = "model" /\ Closing(s, produced).id = effect.id /\ produced = <<>>
       /\ Closing(s, produced).evidence.accepted = "yes" =>
             /\ effect.kind = "model" /\ Closing(s, produced).request = effect.request
             /\ Closing(s, produced).evidence.chain = effect.chain
  <2>1. /\ Closing(s, produced).kind = "settlement" /\ Closing(s, produced).status = s
        /\ Closing(s, produced).id = SettlementId(produced) /\ Closing(s, produced).request = Witness(produced)
        /\ Closing(s, produced).evidence = SettlementEvidence(produced)
    BY DEF Closing, Settlement
  <2>2. SettlementId(produced) = ids + 1 \/ (effect.kind = "model" /\ SettlementId(produced) = effect.id /\ produced = <<>>)
    BY DEF SettlementId
  <2>3. SettlementEvidence(produced).accepted = "yes" =>
          effect.kind = "model" /\ produced = <<>> /\ SettlementEvidence(produced).chain = effect.chain
    BY DEF SettlementEvidence, NoSelection, Selected
  <2>4. effect.kind = "model" /\ produced = <<>> => Witness(produced) = effect.request
    BY ModelAsks DEF Witness
  <2>5. QED BY <2>1, <2>2, <2>3, <2>4
<1>. HIDE DEF Closing
<1>12. /\ \A k, m \in DOMAIN pending : pending[k].id = pending[m].id => k = m
       /\ effect.kind \in {"model", "hook"} => \A k \in DOMAIN pending : pending[k].id # effect.id
       /\ \A k \in DOMAIN pending : pending[k].id \in Kept
  BY <1>1, PendingDistinct
<1>13. \A i \in New : log'[i].kind = "hook" => effect.kind = "hook"
  BY <1>4, <1>7, <1>9, <1>10, <1>11
<1>14. ASSUME NEW k \in DOMAIN pending, NEW i \in New, i = n + k, log'[i] = InterruptedCall(pending[k])
       PROVE  Answering(i)
  <2>1. ToolResultShape(log'[i])
    BY <1>9, <1>14 DEF ToolResultShape, NoSelection, Selected
  <2>2. \A h : log'[i].status \in Consequence(log'[h].status) BY <1>9, <1>14 DEF Consequence
  <2>3. log'[i].selection.accepted = "yes" =>
          HookOrder(log', log'[i].selection.chain, Successful(log', log'[i].call), i)
    <3>. SUFFICES ASSUME log'[i].selection.accepted = "yes"
                  PROVE  HookOrder(log', log'[i].selection.chain, Successful(log', log'[i].call), i)
      OBVIOUS
    <3>1. effect.kind = "tool" /\ effect.call = log'[i].call /\ log'[i].selection.chain = effect.chain
      BY <1>9, <1>14 DEF NoSelection, Selected
    <3>2. effect.call # NoCall BY <3>1 DEF EffectsInv, PlaceInv, EffectPlaced
    <3>3. HookOrder(log, effect.chain, Successful(log, effect.call), NextPlace) BY <1>1, <3>1, <3>2, EffectOpen
    <3>4. Successful(log', effect.call) = Successful(log, effect.call) BY <1>3, <1>13, <3>1, SameHooks
    <3>5. \A p \in Successful(log, effect.call) : log'[p] = log[p] /\ (p < NextPlace <=> p < i)
      <4>1. \A p \in DOMAIN log : p \in Nat /\ p < NextPlace /\ log'[p] = log[p] BY <1>3, PlacesAre
      <4>2. i \in Nat /\ i >= NextPlace /\ NextPlace \in Nat BY <1>3, PlacesAre
      <4>3. QED BY <4>1, <4>2 DEF Successful, CallHooks, At
    <3>6. QED BY <3>1, <3>3, <3>4, <3>5, HookOrderKeeps
  <2>4. QED BY <1>9, <1>14, <2>1, <2>2, <2>3 DEF Answering
<1>15. ASSUME NEW i \in New PROVE Answering(i) \/ Observing(i) \/ Outputting(i) \/ Concluding(i)
  <2>1. CASE i = NextPlace /\ effect.kind = "model" /\ produced # <<>> /\ log'[i] = Partial
    <3>1. log'[i] = Assistant(effect.id, effect.request, <<>>, effect.chain) BY <1>2, <2>1 DEF Partial
    <3>2. DOMAIN log'[i].calls = {} BY <1>7, <2>1
    <3>3. Outputting(i) BY <2>1, <3>1, <3>2 DEF Outputting
    <3>4. QED BY <3>3
  <2>2. CASE i = NextPlace /\ effect.kind = "hook" /\ log'[i] = HookResult(effect, "interrupted", "unknown")
    <3>1. Observing(i) BY <2>2 DEF Observing
    <3>2. QED BY <3>1
  <2>3. ASSUME NEW k \in DOMAIN pending, i = n + k /\ log'[i] = InterruptedCall(pending[k])
        PROVE  Answering(i)
    BY <1>14, <2>3
  <2>4. CASE i = z /\ log'[i] = Signal(ids, "interruption")
    <3>1. Concluding(i) BY <1>5, <1>10, <2>4 DEF Concluding
    <3>2. QED BY <3>1
  <2>5. CASE i = z + 1 /\ log'[i] = Closing(s, produced)
    <3>1. Concluding(i) BY <1>5, <1>11, <2>5 DEF Concluding
    <3>2. QED BY <3>1
  <2>6. QED BY <1>4, <2>1, <2>2, <2>3, <2>4, <2>5
<1>16. ASSUME NEW i \in New, NEW j \in New, log'[i].id = log'[j].id PROVE i = j
  <2>. DEFINE Led(x) == x = NextPlace /\ effect.kind \in {"model", "hook"} /\ log'[x].id = effect.id
                        /\ (effect.kind = "model" => produced # <<>>)
              Tool(x) == \E k \in DOMAIN pending : x = n + k /\ log'[x].id = pending[k].id
              Sign(x) == x = z /\ log'[x].id = ids
              Last(x) == x = z + 1 /\ (log'[x].id = ids + 1 \/ (effect.kind = "model" /\ log'[x].id = effect.id /\ produced = <<>>))
  <2>1. ASSUME NEW x \in New PROVE Led(x) \/ Tool(x) \/ Sign(x) \/ Last(x)
    <3>1. CASE x = NextPlace /\ effect.kind = "model" /\ produced # <<>> /\ log'[x] = Partial BY <1>7, <3>1
    <3>2. CASE x = NextPlace /\ effect.kind = "hook" /\ log'[x] = HookResult(effect, "interrupted", "unknown")
      BY <1>8, <3>2
    <3>3. CASE \E k \in DOMAIN pending : x = n + k /\ log'[x] = InterruptedCall(pending[k]) BY <1>9, <3>3
    <3>4. CASE x = z /\ log'[x] = Signal(ids, "interruption") BY <1>10, <3>4
    <3>5. CASE x = z + 1 /\ log'[x] = Closing(s, produced) BY <1>11, <3>5
    <3>6. QED BY <1>4, <3>1, <3>2, <3>3, <3>4, <3>5
  <2>2. \A x \in New : Tool(x) => log'[x].id \in Kept /\ (effect.kind \in {"model", "hook"} => log'[x].id # effect.id)
    BY <1>12
  <2>3. \A x, y \in New : Tool(x) /\ Tool(y) /\ log'[x].id = log'[y].id => x = y BY <1>12
  <2>4. (Led(i) \/ Tool(i) \/ Sign(i) \/ Last(i)) /\ (Led(j) \/ Tool(j) \/ Sign(j) \/ Last(j)) BY <2>1
  <2>5. ids # ids + 1 BY <1>5
  <2>6. CASE Tool(i) \/ Tool(j)
    <3>1. Tool(i) /\ Tool(j)
      <4>. HIDE DEF Tool
      <4>1. QED BY <1>5, <1>16, <2>2, <2>4, <2>6
    <3>2. QED BY <1>16, <2>3, <3>1
  <2>7. CASE ~Tool(i) /\ ~Tool(j)
    <3>. HIDE DEF Tool
    <3>1. QED BY <1>5, <1>6, <1>16, <2>4, <2>5, <2>7
  <2>8. QED BY <2>6, <2>7
<1>17. QED BY <1>3, <1>15, <1>16 DEF Appends

(* The whole terminal transaction: it answers every open reservation and
   settles once, under the register's status. *)
LEMMA TerminateGraph ==
  ASSUME TypeInv, EffectsInv, GraphInv, TypeInv', EffectsInv', status = "running", NEW s \in Terminals,
         NEW produced, produced \in {<<>>, <<Partial>>}, produced # <<>> => at = "calling", Terminate(s, produced)
  PROVE  DrawnInv' /\ AheadInv' /\ LogInv' /\ StateInv' /\ RegisterInv'
<1>1. /\ status' = s /\ effect' = NoEffect /\ pending' = <<>> /\ request' = NoRequest /\ ids' = ids + 2
      /\ ids \in Nat \ {0}
  BY DEF Terminate, TypeInv
<1>2. RegisterInv /\ DrawnInv BY DEF GraphInv
<1>3. Appends BY TerminateAppends
<1>4. Grown BY <1>3 DEF Appends
<1>5. DrawnInv' /\ AheadInv' /\ LogInv'
  <2>1. ids' \in Nat /\ ids <= ids' BY <1>1
  <2>2. QED BY <1>1, <1>3, <2>1, AppendsKeep
<1>6. StateInv'
  <2>1. effect'.kind = "none" BY <1>1 DEF NoEffect
  <2>2. QED BY <2>1, StateNext
<1>7. produced # <<>> => effect.kind = "model" BY DEF EffectsInv, PlaceInv, EffectPlaced
<1>8. Closes(s, produced) /\ Adds(s, produced) BY TerminateDoes
<1>9. PublishedCalls(log') = PublishedCalls(log)
  <2>1. \A i \in New : log'[i].kind # "assistant" \/ DOMAIN log'[i].calls = {}
    <3>1. Partial.calls = <<>> BY DEF Partial, Assistant
    <3>2. \A i \in New : log'[i].kind = "assistant" => log'[i] = Partial BY <1>8 DEF Closes
    <3>3. QED BY <3>1, <3>2
  <2>2. QED BY <1>2, <1>3, <2>1, SameCalls
<1>10. ASSUME NEW a \in PublishedCalls(log') PROVE Resolved(log', a)
  <2>1. CASE Committed(log, a.id) BY <1>4, <2>1, CommittedGrows DEF Resolved
  <2>2. CASE ~Committed(log, a.id)
    <3>1. PICK k \in DOMAIN pending : pending[k] = Reservation(a) BY <1>2, <1>9, <2>2, PendingOpen
    <3>2. PICK n \in Nat : n + k \in New /\ log'[n + k] = InterruptedCall(pending[k])
      BY <1>8 DEF Closes
    <3>3. log'[n + k].id = a.id BY <3>1, <3>2 DEF InterruptedCall, ToolResult, Reservation
    <3>4. QED BY <1>4, <3>2, <3>3, CommittedGrows DEF Resolved
  <2>3. QED BY <2>1, <2>2
<1>11. \E i \in At(log', "settlement") : At(log', "settlement") = {i} /\ log'[i].status = s
  <2>1. PICK n \in New : /\ log'[n] = Closing(s, produced)
                         /\ \A i \in New : log'[i].kind = "settlement" => i = n
    BY <1>8 DEF Closes
  <2>2. log'[n].kind = "settlement" /\ log'[n].status = s BY <2>1 DEF Closing, Settlement
  <2>3. At(log, "settlement") = {} BY <1>2, EffectOpen
  <2>4. At(log', "settlement") = {n} BY <1>4, <2>1, <2>2, <2>3, PlacesAre DEF At
  <2>5. QED BY <2>2, <2>4
<1>12. RegisterInv'
  <2>1. status' # "running" BY <1>1 DEF Terminals
  <2>2. Register'.status = s BY <1>1 DEF Register
  <2>3. TerminalValid(Register', log') BY <1>10, <1>11, <2>2 DEF TerminalValid
  <2>4. QED BY <2>1, <2>3 DEF RegisterInv
<1>13. QED BY <1>5, <1>6, <1>12
-----------------------------------------------------------------------------
(* A step that writes neither the register nor the log. *)
LEMMA StillGraph ==
  ASSUME TypeInv, EffectsInv, GraphInv, UNCHANGED <<registerVars, log>>, asked' = asked,
         ids' \in Nat, ids <= ids'
  PROVE  DrawnInv' /\ AheadInv' /\ LogInv' /\ StateInv' /\ RegisterInv'
<1>1. DrawnInv /\ AheadInv /\ LogInv /\ StateInv /\ RegisterInv BY DEF GraphInv
<1>2. status' = status /\ effect' = effect /\ pending' = pending /\ request' = request /\ log' = log
  BY DEF registerVars
<1>3. Kept \subseteq Kept'
  <2>1. ids \in Nat BY DEF TypeInv
  <2>2. QED BY <2>1, UpToGrows DEF Kept
<1>4. DrawnInv' BY <1>1, <1>2, <1>3 DEF DrawnInv
<1>5. AheadInv' BY <1>1, <1>2 DEF AheadInv
<1>6. LogInv' BY <1>1, <1>2 DEF LogInv, ShapeInv, IdentityInv, HookInv, DomainInv
<1>7. Register' = Register BY <1>2 DEF Register
<1>8. StateInv' BY <1>1, <1>7 DEF StateInv
<1>9. RegisterInv' BY <1>1, <1>2, <1>7 DEF RegisterInv
<1>10. QED BY <1>4, <1>5, <1>6, <1>8, <1>9

(* A result of a hook of a call other than the first pending one would have
   been refused, and so would one of a call not published. *)
LEMMA HooksOfTurn ==
  ASSUME TypeInv, EffectsInv, GraphInv, status = "running"
  PROVE  /\ \A i \in At(log, "hook") : log[i].call # NoCall => log[i].call \in Published
         /\ \A n \in DOMAIN pending : n # 1 => CallHooks(log, pending[n].call) = {}
<1>0. RegisterInv /\ IdentityInv /\ HookInv /\ ShapeInv /\ DrawnInv BY DEF GraphInv, LogInv
<1>1. ASSUME NEW i \in At(log, "hook"), log[i].call # NoCall PROVE HookResultPlaced(log, i)
  <2>1. log[i].request = 0 BY <1>0, <1>1 DEF ShapeInv, EntriesShaped, HookResultShape
  <2>2. QED BY <1>0, <2>1 DEF HookInv, HookResultsValid
<1>2. \A i \in At(log, "hook") : log[i].call # NoCall => log[i].call \in Published
  BY <1>1 DEF HookResultPlaced, Published
<1>3. ASSUME NEW n \in DOMAIN pending, n # 1, NEW i \in CallHooks(log, pending[n].call) PROVE FALSE
  <2>1. pending[n].call \in Call /\ 1 \in DOMAIN pending /\ n \in Nat /\ 1 < n BY <1>3, PendingIs
  <2>2. i \in At(log, "hook") /\ log[i].call = pending[n].call /\ log[i].call # NoCall
    BY <2>1, CallsAreIdentities DEF CallHooks
  <2>3. PICK a \in PublishedCalls(log) :
        /\ a.call = log[i].call /\ a.at < i
        /\ \A b \in PublishedCalls(log) : Earlier(b, a) => ResolvedBefore(log, b, i)
    BY <1>1, <2>2 DEF HookResultPlaced
  <2>4. PICK y \in PublishedCalls(log) : ~Committed(log, y.id) /\ pending[n] = Reservation(y) BY <1>0, PendingOpen
  <2>5. PICK x \in PublishedCalls(log) : ~Committed(log, x.id) /\ pending[1] = Reservation(x)
    BY <1>0, <2>1, PendingOpen
  <2>6. a = y
    <3>1. a.call = y.call BY <2>2, <2>3, <2>4 DEF Reservation
    <3>2. QED BY <1>0, <3>1 DEF IdentityInv, ReservationsUnique
  <2>7. Earlier(x, y) BY <1>0, <2>1, <2>4, <2>5, PendingOpen
  <2>8. ResolvedBefore(log, x, i) BY <2>3, <2>6, <2>7
  <2>9. QED BY <2>5, <2>8 DEF ResolvedBefore, Committed
<1>4. QED BY <1>2, <1>3

(* Once the goroutine is elsewhere its chain says nothing. *)
LEMMA ChainElsewhere ==
  ASSUME at' \notin InRequest \cup InCall \cup {"hookSettle", "dispatch", "tool"}
  PROVE  ChainInv'
BY DEF ChainInv, InRequest, InCall

(* What the goroutine's chain gives while it prepares a request. *)
LEMMA RequestChain ==
  ASSUME TypeInv, EffectsInv, GraphInv, at \in InRequest
  PROVE  /\ hook \in Nat \ {0} /\ chain = Upto(hook) /\ ask \in Kept \ asked /\ ask # 0 /\ status = "running"
         /\ DOMAIN chain = 1..(hook - 1) /\ \A k \in 1..(hook - 1) : chain[k] = k
         /\ Counted(RequestHookResults(log, ask), hook)
         /\ AllSucceeded(RequestHookResults(log, ask))
         /\ request = NoRequest => RequestHookResults(log, ask) = {}
         /\ request # NoRequest => request.id = ask
         /\ HookOrder(log, chain, RequestHookResults(log, ask), NextPlace)
         /\ \A i \in At(log, "assistant") : log[i].request # ask
<1>0. ChainInv BY DEF GraphInv
<1>1. hook \in Nat \ {0} /\ chain = Upto(hook)
  <2>1. hook \in Nat BY DEF TypeInv
  <2>2. QED BY <1>0, <2>1 DEF ChainInv
<1>2. DOMAIN chain = 1..(hook - 1) /\ \A k \in 1..(hook - 1) : chain[k] = k BY <1>1 DEF Upto
<1>3. /\ Counted(RequestHookResults(log, ask), hook) /\ AllSucceeded(RequestHookResults(log, ask))
      /\ request = NoRequest => RequestHookResults(log, ask) = {}
  BY <1>0 DEF ChainInv
<1>4. ask \in Kept \ asked /\ (request # NoRequest => request.id = ask)
  BY DEF EffectsInv, RequestInv, RequestPlaced, InRequest, BeforeOutput
<1>5. ask # 0 /\ status = "running" BY <1>4 DEF EffectsInv, PlaceInv, Kept, InRequest
<1>6. HookOrder(log, chain, RequestHookResults(log, ask), NextPlace)
  <2>1. DOMAIN log = 1..Len(log) /\ Len(log) \in Nat BY SeqIs DEF TypeInv, IsSeq
  <2>2. RequestHookResults(log, ask) \subseteq Nat /\ \A p \in RequestHookResults(log, ask) : p < NextPlace
    BY <2>1 DEF RequestHookResults, At, NextPlace
  <2>3. QED BY <1>1, <1>3, <2>2, ChainOrders
<1>7. \A i \in At(log, "assistant") : log[i].request # ask
  BY <1>4 DEF EffectsInv, RequestInv, OwnersInv, Owners
<1>8. QED BY <1>1, <1>2, <1>3, <1>4, <1>5, <1>6, <1>7

(* beginModelEffect and beginRequestHookEffect: the effect continues what
   the request's hooks committed. *)
LEMMA BeginRequestGraph ==
  ASSUME TypeInv, EffectsInv, GraphInv, TypeInv', EffectsInv', at \in InRequest,
         NEW k \in {"hook", "model"}, NEW h \in Nat, BeginRequestEffect(k, h),
         k = "hook" => h = hook /\ asked' = asked
  PROVE  /\ DrawnInv' /\ AheadInv' /\ LogInv' /\ StateInv' /\ RegisterInv'
         /\ effect'.hook = h /\ request' # NoRequest /\ log' = log
<1>1. /\ effect' = [kind |-> k, id |-> ids, call |-> NoCall, request |-> ask, hook |-> h, chain |-> chain]
      /\ request' = IF request = NoRequest THEN [id |-> ask, results |-> <<>>] ELSE request
      /\ ids' = ids + 1 /\ status' = status /\ pending' = pending /\ log' = log
  BY DEF BeginRequestEffect
<1>2. DrawnInv /\ AheadInv /\ LogInv /\ StateInv /\ RegisterInv BY DEF GraphInv
<1>3. /\ hook \in Nat \ {0} /\ ask \in Kept \ asked /\ ask # 0 /\ status = "running"
      /\ DOMAIN chain = 1..(hook - 1) /\ \A n \in 1..(hook - 1) : chain[n] = n
      /\ Counted(RequestHookResults(log, ask), hook)
      /\ AllSucceeded(RequestHookResults(log, ask))
      /\ request = NoRequest => RequestHookResults(log, ask) = {}
      /\ request # NoRequest => request.id = ask
      /\ HookOrder(log, chain, RequestHookResults(log, ask), NextPlace)
      /\ \A i \in At(log, "assistant") : log[i].request # ask
  BY RequestChain
<1>4. ids \in Nat \ {0} /\ Kept \subseteq Kept' /\ ids \notin Kept
  <2>1. ids \in Nat \ {0} BY DEF TypeInv
  <2>2. QED BY <1>1, <2>1, UpToGrows DEF Kept
<1>5. /\ effect'.kind = k /\ effect'.id = ids /\ effect'.call = NoCall /\ effect'.request = ask
      /\ effect'.hook = h /\ effect'.chain = chain
  BY <1>1
<1>6. request' # NoRequest /\ request'.id = ask BY <1>1, <1>3 DEF NoRequest
<1>7. DrawnInv' BY <1>1, <1>2, <1>3, <1>4, <1>5, <1>6 DEF DrawnInv
<1>8. AheadInv'
  <2>1. k = "hook" => \A n \in DOMAIN effect'.chain : effect'.chain[n] \in 0..(effect'.hook - 1) BY <1>3, <1>5
  <2>2. k = "hook" => \A p \in RequestHookResults(log, ask) : log[p].hook < effect'.hook
    BY <1>3, <1>5 DEF Counted
  <2>3. QED BY <1>1, <1>2, <1>3, <1>5, <2>1, <2>2 DEF AheadInv
<1>9. LogInv' BY <1>1, <1>2 DEF LogInv, ShapeInv, IdentityInv, HookInv, DomainInv
<1>10. StateInv' BY <1>5, <1>6, StateNext
<1>11. /\ Register'.status = "running" /\ Register'.effect = effect' /\ Register'.pending = pending
       /\ Register'.request = request' /\ status' = "running"
  BY <1>1, <1>3 DEF Register
<1>12. PendingExact(Register', log') /\ At(log', "settlement") = {}
  <2>1. PendingExact(Register, log) /\ At(log, "settlement") = {} /\ Register.pending = pending
    BY <1>2, <1>3 DEF RegisterInv, RunningValid, Register
  <2>2. QED BY <1>1, <1>11, <2>1 DEF PendingExact
<1>13. EffectFresh(Register', log')
  <2>1. \A i \in DOMAIN log : log[i].id \in Kept BY PartsAre DEF LogType
  <2>2. QED BY <1>1, <1>2, <1>4, <1>5, <1>11, <2>1 DEF EffectFresh, Committed, DrawnInv
<1>14. EffectContinuesCall(Register', log') BY <1>5, <1>11 DEF EffectContinuesCall
<1>15. EffectContinuesRequest(Register', log')
  <2>1. ~AnsweredBefore(log, ask, Beyond(log)) BY <1>3 DEF AnsweredBefore
  <2>2. ~FailedBefore(log, ask, Beyond(log)) BY <1>3 DEF FailedBefore, AllSucceeded
  <2>3. k = "hook" => \A i \in At(log, "hook") : log[i].request = ask => log[i].hook # h
    <3>1. k = "hook" => \A i \in RequestHookResults(log, ask) : log[i].hook # h BY <1>3 DEF Counted
    <3>2. QED BY <3>1 DEF RequestHookResults
  <2>4. k = "hook" => \A n \in DOMAIN chain : chain[n] # h BY <1>3
  <2>5. ConsumesInOrder(log, Beyond(log), ask, chain) BY <1>3 DEF ConsumesInOrder, Beyond, NextPlace
  <2>6. QED BY <1>1, <1>5, <1>11, <2>1, <2>2, <2>3, <2>4, <2>5 DEF EffectContinuesRequest
<1>16. RequestStateExact(Register', log')
  <2>1. CASE request = NoRequest
    <3>1. request' = [id |-> ask, results |-> <<>>] BY <1>1, <2>1
    <3>2. request'.results = <<>> /\ DOMAIN request'.results = {} BY <3>1
    <3>3. RequestHookResults(log', request'.id) = {} BY <1>1, <1>3, <1>6, <2>1
    <3>4. QED BY <1>11, <3>2, <3>3 DEF RequestStateExact
  <2>2. CASE request # NoRequest
    <3>1. RequestStateExact(Register, log) /\ Register.request = request
      BY <1>2, <1>3 DEF RegisterInv, RunningValid, Register
    <3>2. request' = request BY <1>1, <2>2
    <3>3. QED BY <1>1, <1>11, <2>2, <3>1, <3>2 DEF RequestStateExact
  <2>3. QED BY <2>1, <2>2
<1>17. RegisterInv' BY <1>11, <1>12, <1>13, <1>14, <1>15, <1>16 DEF RegisterInv, RunningValid
<1>18. QED BY <1>1, <1>5, <1>6, <1>7, <1>8, <1>9, <1>10, <1>17

(* What the goroutine's chain gives while it prepares a call. *)
LEMMA CallChain ==
  ASSUME TypeInv, EffectsInv, GraphInv, at \in InCall
  PROVE  /\ hook \in Nat \ {0} /\ chain = Upto(hook) /\ status = "running" /\ 1 \in DOMAIN pending
         /\ pending # <<>> /\ Head(pending) = pending[1] /\ pending[1].call \in Call /\ pending[1].call # NoCall
         /\ Counted(CallHooks(log, pending[1].call), hook)
         /\ AllSucceeded(CallHooks(log, pending[1].call))
         /\ HookOrder(log, chain, Successful(log, pending[1].call), NextPlace)
<1>0. ChainInv BY DEF GraphInv
<1>. DEFINE c == pending[1].call
<1>1. hook \in Nat \ {0} /\ chain = Upto(hook)
  <2>1. hook \in Nat BY DEF TypeInv
  <2>2. QED BY <1>0, <2>1 DEF ChainInv
<1>2. Counted(CallHooks(log, c), hook) /\ AllSucceeded(CallHooks(log, c)) BY <1>0 DEF ChainInv
<1>3. status = "running" /\ pending # <<>> BY DEF EffectsInv, PlaceInv, InCall, InBatch
<1>4. 1 \in DOMAIN pending /\ Head(pending) = pending[1] /\ c \in Call /\ c # NoCall
  BY <1>3, PendingIs, CallsAreIdentities
<1>5. Counted(Successful(log, c), hook) BY <1>2 DEF Counted, Successful
<1>6. DOMAIN log = 1..Len(log) /\ Len(log) \in Nat BY SeqIs DEF TypeInv, IsSeq
<1>7. Successful(log, c) \subseteq Nat /\ \A p \in Successful(log, c) : p < NextPlace
  BY <1>6 DEF Successful, CallHooks, At, NextPlace
<1>8. HookOrder(log, chain, Successful(log, c), NextPlace) BY <1>1, <1>5, <1>7, ChainOrders
<1>9. QED BY <1>1, <1>2, <1>3, <1>4, <1>8

(* The intent of a call's hook or executor leaves the rest as it is. *)
LEMMA BeginCallEffect ==
  ASSUME TypeInv, EffectsInv, GraphInv, TypeInv', EffectsInv', status = "running", status' = status,
         pending' = pending, request' = request, log' = log, asked' = asked, ids <= ids', ids' \in Nat,
         effect'.request = 0, effect'.kind \in {"hook", "tool"},
         effect'.kind = "hook" => effect'.id \notin Kept /\ effect'.chain = <<>> /\ effect'.call # NoCall,
         effect'.kind = "tool" => effect'.id = pending[1].id,
         EffectContinuesCall(Register', log)
  PROVE  DrawnInv' /\ AheadInv' /\ LogInv' /\ StateInv' /\ RegisterInv'
<1>1. DrawnInv /\ AheadInv /\ LogInv /\ StateInv /\ RegisterInv BY DEF GraphInv
<1>2. Kept \subseteq Kept'
  <2>1. ids \in Nat BY DEF TypeInv
  <2>2. QED BY <2>1, UpToGrows DEF Kept
<1>3. DrawnInv' BY <1>1, <1>2 DEF DrawnInv
<1>4. AheadInv'
  <2>1. 0 \notin asked BY DEF EffectsInv, RequestInv, OwnersInv, Kept
  <2>2. effect'.kind = "hook" => DOMAIN effect'.chain = {} OBVIOUS
  <2>3. QED BY <1>1, <2>1, <2>2 DEF AheadInv
<1>5. LogInv' BY <1>1 DEF LogInv, ShapeInv, IdentityInv, HookInv, DomainInv
<1>6. StateInv' BY StateNext
<1>7. /\ Register'.effect = effect' /\ Register'.pending = pending /\ Register'.request = request
      /\ Register.pending = pending /\ Register.request = request
  BY DEF Register
<1>8. PendingExact(Register, log) /\ At(log, "settlement") = {} /\ RequestStateExact(Register, log)
  BY <1>1 DEF RegisterInv, RunningValid
<1>9. PendingExact(Register', log') BY <1>7, <1>8 DEF PendingExact
<1>10. RequestStateExact(Register', log') BY <1>7, <1>8 DEF RequestStateExact
<1>11. EffectFresh(Register', log')
  <2>1. \A i \in DOMAIN log : log[i].id \in Kept BY PartsAre DEF LogType
  <2>2. QED BY <1>1, <1>7, <2>1 DEF EffectFresh, Committed, DrawnInv
<1>12. EffectContinuesRequest(Register', log') BY <1>7 DEF EffectContinuesRequest
<1>13. RegisterInv' BY <1>8, <1>9, <1>10, <1>11, <1>12 DEF RegisterInv, RunningValid
<1>14. QED BY <1>3, <1>4, <1>5, <1>6, <1>13

(* beginPendingCallEffect for an argument hook. *)
LEMMA BeginCallHookGraph ==
  ASSUME TypeInv, EffectsInv, GraphInv, TypeInv', EffectsInv', at \in InCall, BeginCallHook, asked' = asked
  PROVE  DrawnInv' /\ AheadInv' /\ LogInv' /\ StateInv' /\ RegisterInv' /\ effect'.hook = hook
<1>1. /\ hook \in Nat \ {0} /\ status = "running" /\ Head(pending) = pending[1] /\ pending[1].call # NoCall
      /\ Counted(CallHooks(log, pending[1].call), hook)
      /\ AllSucceeded(CallHooks(log, pending[1].call))
  BY CallChain
<1>2. /\ effect' = [kind |-> "hook", id |-> ids, call |-> pending[1].call, request |-> 0,
                    hook |-> hook, chain |-> <<>>]
      /\ ids' = ids + 1 /\ status' = status /\ pending' = pending /\ request' = request /\ log' = log
  BY <1>1 DEF BeginCallHook
<1>3. ids \in Nat \ {0} /\ ids \notin Kept BY DEF TypeInv, Kept
<1>4. ids <= ids' /\ ids' \in Nat BY <1>2, <1>3
<1>5. /\ effect'.kind = "hook" /\ effect'.id = ids /\ effect'.call = pending[1].call /\ effect'.request = 0
      /\ effect'.hook = hook /\ effect'.chain = <<>>
  BY <1>2
<1>6. \A i \in CallHooks(log, pending[1].call) : log[i].status = "succeeded" /\ log[i].hook # hook
  BY <1>1 DEF Counted, AllSucceeded
<1>7. EffectContinuesCall(Register', log)
  <2>1. Register'.effect = effect' BY DEF Register
  <2>2. \A i \in At(log, "hook") : log[i].call = effect'.call => log[i].status = "succeeded" /\ log[i].hook # effect'.hook
    BY <1>5, <1>6 DEF CallHooks
  <2>3. QED BY <1>5, <2>1, <2>2 DEF EffectContinuesCall
<1>8. QED BY <1>1, <1>2, <1>3, <1>4, <1>5, <1>7, BeginCallEffect

(* beginPendingCallEffect for the executor. *)
LEMMA BeginToolGraph ==
  ASSUME TypeInv, EffectsInv, GraphInv, TypeInv', EffectsInv', at \in InCall, BeginTool, asked' = asked
  PROVE  DrawnInv' /\ AheadInv' /\ LogInv' /\ StateInv' /\ RegisterInv'
<1>1. /\ status = "running" /\ Head(pending) = pending[1] /\ pending[1].call # NoCall
      /\ AllSucceeded(CallHooks(log, pending[1].call))
      /\ HookOrder(log, chain, Successful(log, pending[1].call), NextPlace)
  BY CallChain
<1>2. /\ effect' = [kind |-> "tool", id |-> pending[1].id, call |-> pending[1].call,
                    request |-> 0, hook |-> 0, chain |-> chain]
      /\ ids' = ids /\ status' = status /\ pending' = pending /\ request' = request /\ log' = log
  BY <1>1 DEF BeginTool
<1>3. ids <= ids' /\ ids' \in Nat BY <1>2 DEF TypeInv
<1>4. /\ effect'.kind = "tool" /\ effect'.id = pending[1].id /\ effect'.call = pending[1].call
      /\ effect'.request = 0 /\ effect'.chain = chain
  BY <1>2
<1>5. EffectContinuesCall(Register', log)
  <2>1. Register'.effect = effect' BY DEF Register
  <2>2. \A i \in At(log, "hook") : log[i].call = effect'.call => log[i].status = "succeeded"
    BY <1>1, <1>4 DEF CallHooks, AllSucceeded
  <2>3. HookOrder(log, effect'.chain, Successful(log, effect'.call), Beyond(log))
    BY <1>1, <1>4 DEF Beyond, NextPlace
  <2>4. QED BY <1>4, <2>1, <2>2, <2>3 DEF EffectContinuesCall
<1>6. QED BY <1>1, <1>2, <1>3, <1>4, <1>5, BeginCallEffect

-----------------------------------------------------------------------------
(* Steps that leave the goroutine where its chain says nothing. *)
LEMMA StillEnds ==
  ASSUME TypeInv, EffectsInv, GraphInv, UNCHANGED <<registerVars, log, asked, ids>>,
         at' \notin InRequest \cup InCall \cup {"hookSettle", "dispatch", "tool"}
  PROVE  GraphInv'
<1>1. ids \in Nat BY DEF TypeInv
<1>2. DrawnInv' /\ AheadInv' /\ LogInv' /\ StateInv' /\ RegisterInv' BY <1>1, StillGraph
<1>3. QED BY <1>2, ChainElsewhere DEF GraphInv

(* The terminal transaction, then the same. *)
LEMMA TerminateEnds ==
  ASSUME TypeInv, EffectsInv, GraphInv, TypeInv', EffectsInv', status = "running", NEW s \in Terminals,
         NEW produced, produced \in {<<>>, <<Partial>>}, produced # <<>> => at = "calling", Terminate(s, produced),
         at' \notin InRequest \cup InCall \cup {"hookSettle", "dispatch", "tool"}
  PROVE  GraphInv'
BY TerminateGraph, ChainElsewhere DEF GraphInv

(* A committed result goes on to the next call, which no hook has run for. *)
LEMMA AnswerSettles ==
  ASSUME TypeInv, EffectsInv, GraphInv, TypeInv', EffectsInv', at \in InBatch \ {"dispatch"},
         NEW s, NEW k, NEW u, NEW sel, SettleCall(s, k, u, sel), Fits(s, sel)
  PROVE  GraphInv'
<1>1. CommitTool(s, k, u, sel) /\ at' \in {"finish", "dispatch"}
  BY DEF SettleCall, Answered, Finish, Goto
<1>2. DrawnInv' /\ AheadInv' /\ LogInv' /\ StateInv' /\ RegisterInv' BY <1>1, AnswerGraph
<1>3. CASE at' = "finish" BY <1>2, <1>3, ChainElsewhere DEF GraphInv, InRequest, InCall
<1>4. CASE at' = "dispatch"
  <2>1. /\ status = "running" /\ Grown /\ New = {NextPlace} /\ log'[NextPlace] = ToolResult(pending[1], s, k, u, Chosen(sel))
        /\ \A n \in DOMAIN pending' : n \in Nat /\ n + 1 \in DOMAIN pending /\ pending'[n] = pending[n + 1]
    BY <1>1, AnswerIs
  <2>2. \A c : CallHooks(log', c) = CallHooks(log, c)
    <3>1. log'[NextPlace].kind = "tool" BY <2>1 DEF ToolResult
    <3>2. \A i \in New : log'[i].kind # "hook" BY <2>1, <3>1
    <3>3. QED BY <2>1, <3>2, SameHooks
  <2>3. pending' # <<>> => CallHooks(log', pending'[1].call) = {}
    <3>. SUFFICES ASSUME pending' # <<>> PROVE CallHooks(log', pending'[1].call) = {} OBVIOUS
    <3>1. 1 \in DOMAIN pending'
      <4>1. pending' \in Seq([call : Call, id : Nat, publisher : Nat]) BY DEF TypeInv, TypeOK
      <4>2. QED BY <4>1
    <3>2. 2 \in DOMAIN pending /\ pending'[1] = pending[2]
      <4>1. 1 + 1 \in DOMAIN pending /\ pending'[1] = pending[1 + 1] BY <2>1, <3>1
      <4>2. 1 + 1 = 2 OBVIOUS
      <4>3. QED BY <4>1, <4>2
    <3>3. CallHooks(log, pending[2].call) = {}
      <4>0. status = "running" BY <2>1
      <4>. DEFINE H(n) == CallHooks(log, pending[n].call)
      <4>1. \A n \in DOMAIN pending : n # 1 => H(n) = {} BY <4>0, HooksOfTurn
      <4>2. 2 \in DOMAIN pending /\ 2 # 1 BY <3>2
      <4>. HIDE DEF H
      <4>3. H(2) = {} BY <4>1, <4>2
      <4>4. QED BY <4>3 DEF H
    <3>4. QED BY <2>2, <3>2, <3>3
  <2>4. ChainInv' BY <1>4, <2>3 DEF ChainInv, InRequest, InCall
  <2>5. QED BY <1>2, <2>4 DEF GraphInv
<1>5. QED BY <1>1, <1>3, <1>4

(* Wherever a result is committed, it agrees with what the hooks of its
   call left behind: before the first of them. *)
LEMMA FitsEntry ==
  ASSUME GraphInv, at = "tool", pending # <<>>, NEW s
  PROVE  Fits(s, NoSelection)
BY DEF GraphInv, ChainInv, Fits

(* While every hook of the call succeeded. *)
LEMMA FitsChain ==
  ASSUME TypeInv, EffectsInv, GraphInv, at \in InCall, NEW s
  PROVE  Fits(s, Selected(chain))
<1>1. /\ AllSucceeded(CallHooks(log, pending[1].call))
      /\ HookOrder(log, chain, Successful(log, pending[1].call), NextPlace)
  BY CallChain
<1>2. \A h \in CallHooks(log, pending[1].call) : log[h].status = "succeeded" BY <1>1 DEF AllSucceeded
<1>3. QED BY <1>1, <1>2 DEF Fits

(* Once the executor's intent is recorded. *)
LEMMA FitsExecutor ==
  ASSUME TypeInv, EffectsInv, GraphInv, at \in {"toolGate", "executing"}, NEW s
  PROVE  Fits(s, NoSelection)
<1>1. effect.kind = "tool" /\ effect.call # NoCall /\ effect.call = pending[1].call /\ status = "running"
  BY DEF EffectsInv, PlaceInv, EffectPlaced
<1>2. RegisterInv BY DEF GraphInv
<1>3. \A i \in CallHooks(log, effect.call) : log[i].status = "succeeded" BY <1>1, <1>2, EffectOpen
<1>4. QED BY <1>1, <1>3 DEF Fits

(* After the hook that failed. *)
LEMMA FitsFailure ==
  ASSUME TypeInv, EffectsInv, GraphInv, at = "hookSettle"
  PROVE  Fits(outcome, Selected(chain))
<1>1. /\ Counted(Successful(log, pending[1].call), hook) /\ chain = Upto(hook)
      /\ \A i \in CallHooks(log, pending[1].call) :
            log[i].status # "succeeded" => outcome \in Consequence(log[i].status)
  BY DEF GraphInv, ChainInv
<1>2. hook \in Nat BY DEF TypeInv
<1>3. DOMAIN log = 1..Len(log) /\ Len(log) \in Nat BY SeqIs DEF TypeInv, IsSeq
<1>4. Successful(log, pending[1].call) \subseteq Nat /\ \A p \in Successful(log, pending[1].call) : p < NextPlace
  BY <1>3 DEF Successful, CallHooks, At, NextPlace
<1>5. HookOrder(log, chain, Successful(log, pending[1].call), NextPlace) BY <1>1, <1>2, <1>4, ChainOrders
<1>6. QED BY <1>1, <1>5 DEF Fits
-----------------------------------------------------------------------------
(* One more hook accepted. *)
LEMMA UptoNext ==
  ASSUME NEW n \in Nat \ {0}
  PROVE  Append(Upto(n), n) = Upto(n + 1)
<1>1. Upto(n) \in Seq(Nat) /\ Len(Upto(n)) = n - 1
  <2>1. Upto(n) = [k \in 1..(n - 1) |-> k] BY DEF Upto
  <2>2. n - 1 \in Nat /\ Upto(n) \in [1..(n - 1) -> Nat] BY <2>1
  <2>3. QED BY <2>2, FunctionIsSeq
<1>2. /\ DOMAIN Append(Upto(n), n) = 1..n
      /\ \A k \in 1..n : Append(Upto(n), n)[k] = IF k = n THEN n ELSE Upto(n)[k]
  <2>1. \A S : \A q \in Seq(S) : \A e \in S : /\ DOMAIN Append(q, e) = 1..(Len(q) + 1)
                                              /\ \A k \in 1..(Len(q) + 1) : Append(q, e)[k] = IF k = Len(q) + 1 THEN e ELSE q[k]
    OBVIOUS
  <2>2. n - 1 + 1 = n /\ n \in Nat OBVIOUS
  <2>3. QED BY <1>1, <2>1, <2>2
<1>3. \A k \in 1..n : Append(Upto(n), n)[k] = k
  <2>1. \A k \in 1..(n - 1) : Upto(n)[k] = k BY DEF Upto
  <2>2. \A k \in 1..n : k = n \/ k \in 1..(n - 1) OBVIOUS
  <2>3. QED BY <1>2, <2>1, <2>2
<1>4. Upto(n + 1) = [k \in 1..n |-> k]
  <2>1. n + 1 - 1 = n OBVIOUS
  <2>2. QED BY <2>1 DEF Upto
<1>5. Append(Upto(n), n) = [k \in DOMAIN Append(Upto(n), n) |-> Append(Upto(n), n)[k]]
  <2>1. \A q \in Seq(Nat) : q = [k \in DOMAIN q |-> q[k]] OBVIOUS
  <2>2. \A q \in Seq(Nat) : \A e \in Nat : Append(q, e) \in Seq(Nat) OBVIOUS
  <2>3. Append(Upto(n), n) \in Seq(Nat) BY <1>1, <2>2
  <2>4. QED BY <2>1, <2>3
<1>6. QED BY <1>2, <1>3, <1>4, <1>5

(* Results below one hook are below the next. *)
LEMMA CountedNext ==
  ASSUME NEW R, NEW n \in Nat, Counted(R, n)
  PROVE  Counted(R, n + 1)
<1>1. \A x \in 1..(n - 1) : x \in 1..(n + 1 - 1) OBVIOUS
<1>2. QED BY <1>1 DEF Counted

(* The chain of a request's hooks, at the next place. *)
LEMMA ChainOfRequest ==
  ASSUME at' \in InRequest, hook' > 0, chain' = Upto(hook'),
         at' \in {"requestGate", "requestRun"} => effect'.hook = hook',
         Counted(RequestHookResults(log, ask), hook)', AllSucceeded(RequestHookResults(log, ask))',
         request' = NoRequest => RequestHookResults(log', ask') = {}
  PROVE  ChainInv'
BY DEF ChainInv, InRequest, InCall

(* The chain of a call's hooks, at the next place. *)
LEMMA ChainOfCall ==
  ASSUME at' \in InCall, hook' > 0, chain' = Upto(hook'),
         at' \in {"hookGate", "hookRun"} => effect'.hook = hook',
         Counted(CallHooks(log, pending[1].call), hook)', AllSucceeded(CallHooks(log, pending[1].call))'
  PROVE  ChainInv'
BY DEF ChainInv, InRequest, InCall

(* No hook accepted yet. *)
LEMMA UptoOne == Upto(1) = <<>>
<1>1. Upto(1) = [k \in 1..0 |-> k] BY DEF Upto
<1>2. Upto(1) \in Seq(Nat) /\ Len(Upto(1)) = 0
  <2>1. [k \in 1..0 |-> k] \in [1..0 -> Nat] OBVIOUS
  <2>2. 0 \in Nat /\ Upto(1) \in [1..0 -> Nat] BY <1>1, <2>1
  <2>3. QED BY <2>2, FunctionIsSeq
<1>3. \A q \in Seq(Nat) : Len(q) = 0 => q = <<>> OBVIOUS
<1>4. QED BY <1>2, <1>3

(* A step of a request that commits nothing. *)
LEMMA RequestMoves ==
  ASSUME TypeInv, EffectsInv, GraphInv, at \in InRequest, at' \in InRequest, UNCHANGED <<log, ask>>,
         request' = NoRequest => request = NoRequest,
         at' \in {"requestGate", "requestRun"} => effect'.hook = hook',
         \/ UNCHANGED hookVars
         \/ hook' = hook + 1 /\ chain' = Append(chain, hook)
  PROVE  ChainInv'
<1>1. /\ hook \in Nat \ {0} /\ chain = Upto(hook) /\ Counted(RequestHookResults(log, ask), hook)
      /\ AllSucceeded(RequestHookResults(log, ask))
      /\ request = NoRequest => RequestHookResults(log, ask) = {}
  BY RequestChain
<1>2. log' = log /\ ask' = ask OBVIOUS
<1>3. hook' > 0 /\ chain' = Upto(hook') /\ Counted(RequestHookResults(log, ask), hook')
  <2>1. CASE UNCHANGED hookVars BY <1>1, <2>1 DEF hookVars
  <2>2. CASE hook' = hook + 1 /\ chain' = Append(chain, hook)
    <3>1. chain' = Upto(hook + 1) BY <1>1, <2>2, UptoNext
    <3>2. Counted(RequestHookResults(log, ask), hook + 1) BY <1>1, CountedNext
    <3>3. QED BY <1>1, <2>2, <3>1, <3>2
  <2>3. QED BY <2>1, <2>2
<1>4. Counted(RequestHookResults(log, ask), hook)' BY <1>2, <1>3 DEF Counted
<1>5. AllSucceeded(RequestHookResults(log, ask))' BY <1>1, <1>2 DEF AllSucceeded
<1>6. request' = NoRequest => RequestHookResults(log', ask') = {} BY <1>1, <1>2
<1>7. QED BY <1>3, <1>4, <1>5, <1>6, ChainOfRequest

(* A step of a call that commits nothing. *)
LEMMA CallMoves ==
  ASSUME TypeInv, EffectsInv, GraphInv, at \in InCall, at' \in InCall, UNCHANGED <<log, pending>>,
         at' \in {"hookGate", "hookRun"} => effect'.hook = hook',
         \/ UNCHANGED hookVars
         \/ hook' = hook + 1 /\ chain' = Append(chain, hook)
  PROVE  ChainInv'
<1>1. /\ hook \in Nat \ {0} /\ chain = Upto(hook) /\ Counted(CallHooks(log, pending[1].call), hook)
      /\ AllSucceeded(CallHooks(log, pending[1].call))
  BY CallChain
<1>2. log' = log /\ pending' = pending OBVIOUS
<1>3. hook' > 0 /\ chain' = Upto(hook') /\ Counted(CallHooks(log, pending[1].call), hook')
  <2>1. CASE UNCHANGED hookVars BY <1>1, <2>1 DEF hookVars
  <2>2. CASE hook' = hook + 1 /\ chain' = Append(chain, hook)
    <3>1. chain' = Upto(hook + 1) BY <1>1, <2>2, UptoNext
    <3>2. Counted(CallHooks(log, pending[1].call), hook + 1) BY <1>1, CountedNext
    <3>3. QED BY <1>1, <2>2, <3>1, <3>2
  <2>3. QED BY <2>1, <2>2
<1>4. Counted(CallHooks(log, pending[1].call), hook)' BY <1>2, <1>3 DEF Counted
<1>5. AllSucceeded(CallHooks(log, pending[1].call))' BY <1>1, <1>2 DEF AllSucceeded
<1>6. QED BY <1>3, <1>4, <1>5, ChainOfCall
-----------------------------------------------------------------------------
(* The loop head. *)
LEMMA LoopGraph == ASSUME TypeInv, EffectsInv, GraphInv, Loop PROVE GraphInv'
<1>1. UNCHANGED <<registerVars, log, asked, ids>> /\ at' \in {"finish", "source"}
  BY DEF Loop, Goto, Finish, durableVars, registerVars, worldVars
<1>2. QED BY <1>1, StillEnds DEF InRequest, InCall

(* A new round draws a request that no hook result names yet. *)
LEMMA SourceGraph == ASSUME TypeInv, EffectsInv, GraphInv, Source PROVE GraphInv'
<1>1. UNCHANGED <<registerVars, log, asked>> BY DEF Source, worldVars
<1>2. CASE at' = "finish" /\ ids' = ids BY <1>1, <1>2, StillEnds DEF InRequest, InCall
<1>3. CASE ask' = ids /\ ids' = ids + 1 /\ hook' = 1 /\ chain' = <<>> /\ at' = "requestHooks"
  <2>1. ids \in Nat \ {0} /\ ids \notin Kept BY DEF TypeInv, Kept
  <2>2. DrawnInv' /\ AheadInv' /\ LogInv' /\ StateInv' /\ RegisterInv'
    <3>1. ids' \in Nat /\ ids <= ids' BY <1>3, <2>1
    <3>2. QED BY <1>1, <3>1, StillGraph
  <2>3. RequestHookResults(log', ask') = {}
    <3>1. \A i \in At(log, "hook") : log[i].request # ids BY <2>1 DEF GraphInv, DrawnInv
    <3>2. QED BY <1>1, <1>3, <3>1 DEF RequestHookResults
  <2>4. Counted(RequestHookResults(log, ask), hook)' /\ AllSucceeded(RequestHookResults(log, ask))'
    BY <2>3 DEF Counted, AllSucceeded
  <2>5. chain' = Upto(hook') /\ hook' > 0 BY <1>3, UptoOne
  <2>6. ChainInv' BY <1>3, <2>3, <2>4, <2>5, ChainOfRequest DEF InRequest
  <2>7. QED BY <2>2, <2>6 DEF GraphInv
<1>4. QED BY <1>2, <1>3 DEF Source, Finish, Goto

(* The next request hook. *)
LEMMA NextRequestHookGraph ==
  ASSUME TypeInv, EffectsInv, GraphInv, TypeInv', EffectsInv', NextRequestHook PROVE GraphInv'
<1>1. at = "requestHooks" /\ at \in InRequest /\ UNCHANGED <<ask, asked>>
  BY DEF NextRequestHook, InRequest, roundVars, worldVars
<1>2. ids \in Nat /\ hook \in Nat BY DEF TypeInv
<1>3. CASE /\ UNCHANGED durableVars
           /\ \/ at' = "round" /\ UNCHANGED hookVars
              \/ at' = at /\ hook' = hook + 1 /\ chain' = Append(chain, hook)
  <2>1. UNCHANGED <<registerVars, log>> /\ ids' = ids /\ request' = request
    BY <1>3 DEF durableVars, registerVars
  <2>2. DrawnInv' /\ AheadInv' /\ LogInv' /\ StateInv' /\ RegisterInv' BY <1>1, <1>2, <2>1, StillGraph
  <2>3. at' \in InRequest /\ at' \notin {"requestGate", "requestRun"} BY <1>1, <1>3 DEF InRequest
  <2>4. ChainInv' BY <1>1, <1>3, <2>1, <2>3, RequestMoves
  <2>5. QED BY <2>2, <2>4 DEF GraphInv
<1>4. CASE UNCHANGED durableVars /\ at' = "finish"
  <2>1. UNCHANGED <<registerVars, log, asked, ids>> BY <1>1, <1>4 DEF durableVars, registerVars
  <2>2. QED BY <1>4, <2>1, StillEnds DEF InRequest, InCall
<1>5. CASE BeginRequestEffect("hook", hook) /\ at' = "requestGate" /\ UNCHANGED hookVars
  <2>1. /\ DrawnInv' /\ AheadInv' /\ LogInv' /\ StateInv' /\ RegisterInv'
        /\ effect'.hook = hook /\ request' # NoRequest /\ log' = log
    <3>1. asked' = asked /\ "hook" \in {"hook", "model"} BY <1>1
    <3>2. QED BY <1>1, <1>2, <1>5, <3>1, BeginRequestGraph
  <2>2. hook' = hook BY <1>5 DEF hookVars
  <2>3. at' \in InRequest BY <1>5 DEF InRequest
  <2>4. ChainInv' BY <1>1, <1>5, <2>1, <2>2, <2>3, RequestMoves
  <2>5. QED BY <2>1, <2>4 DEF GraphInv
<1>6. \/ at' = "round" /\ UNCHANGED <<durableVars, hookVars>>
      \/ at' = "finish" /\ UNCHANGED durableVars
      \/ UNCHANGED <<durableVars, at>> /\ hook' = hook + 1 /\ chain' = Append(chain, hook)
      \/ BeginRequestEffect("hook", hook) /\ at' = "requestGate" /\ UNCHANGED hookVars
  BY DEF NextRequestHook, Finish, Goto
<1>7. QED BY <1>3, <1>4, <1>5, <1>6

(* The gate before a request hook's Run. *)
LEMMA RequestHookGateGraph ==
  ASSUME TypeInv, EffectsInv, GraphInv, TypeInv', EffectsInv', RequestHookGate PROVE GraphInv'
<1>1. at = "requestGate" /\ at \in InRequest /\ UNCHANGED <<ask, asked, hook, chain>>
  BY DEF RequestHookGate, InRequest, roundVars, worldVars, hookVars
<1>2. effect.kind = "hook" BY <1>1 DEF EffectsInv, PlaceInv, EffectPlaced
<1>3. CASE CommitHook("interrupted", "not_started") /\ at' = "finish"
  <2>1. DrawnInv' /\ AheadInv' /\ LogInv' /\ StateInv' /\ RegisterInv' BY <1>2, <1>3, HookGraph
  <2>2. QED BY <1>3, <2>1, ChainElsewhere DEF GraphInv, InRequest, InCall
<1>4. CASE UNCHANGED durableVars /\ at' = "requestRun"
  <2>1. UNCHANGED <<registerVars, log>> /\ ids' = ids /\ request' = request /\ effect' = effect
    BY <1>4 DEF durableVars, registerVars
  <2>2. DrawnInv' /\ AheadInv' /\ LogInv' /\ StateInv' /\ RegisterInv'
    <3>1. ids \in Nat BY DEF TypeInv
    <3>2. QED BY <1>1, <2>1, <3>1, StillGraph
  <2>3. effect'.hook = hook' BY <1>1, <2>1 DEF GraphInv, ChainInv
  <2>4. at' \in InRequest /\ UNCHANGED hookVars BY <1>1, <1>4 DEF InRequest, hookVars
  <2>5. ChainInv' BY <1>1, <2>1, <2>3, <2>4, RequestMoves
  <2>6. QED BY <2>2, <2>5 DEF GraphInv
<1>5. QED BY <1>3, <1>4 DEF RequestHookGate, Finish, Goto

(* A hook that succeeds extends the results by its own, behind the others. *)
LEMMA ResultsExtend ==
  ASSUME TypeInv, Grown, NextPlace \in New, NEW n \in Nat \ {0}, NEW R, R \subseteq DOMAIN log,
         Counted(R, n), AllSucceeded(R),
         log'[NextPlace].hook = n, log'[NextPlace].status = "succeeded"
  PROVE  /\ \A p \in R \cup {NextPlace} : log'[p].hook \in 1..(n + 1 - 1) /\ log'[p].status = "succeeded"
         /\ \A p, r \in R \cup {NextPlace} : p < r => log'[p].hook < log'[r].hook
<1>1. \A p \in R : /\ p \in Nat /\ p < NextPlace /\ log'[p] = log[p] /\ log[p].hook \in 1..(n - 1)
                   /\ log[p].status = "succeeded"
  BY PlacesAre DEF Counted, AllSucceeded
<1>2. NextPlace \in Nat /\ n \in Nat BY PlacesAre
<1>3. \A p \in R \cup {NextPlace} : log'[p].hook \in 1..(n + 1 - 1) /\ log'[p].status = "succeeded"
  BY <1>1
<1>4. ASSUME NEW p \in R \cup {NextPlace}, NEW r \in R \cup {NextPlace}, p < r PROVE log'[p].hook < log'[r].hook
  <2>1. p \in R BY <1>1, <1>2, <1>4
  <2>2. CASE r \in R BY <1>1, <1>4, <2>1, <2>2 DEF Counted
  <2>3. CASE r = NextPlace BY <1>1, <2>1, <2>3
  <2>4. QED BY <2>2, <2>3
<1>5. QED BY <1>3, <1>4

(* A request hook returns. *)
LEMMA RequestHookReturnsGraph ==
  ASSUME TypeInv, EffectsInv, GraphInv, TypeInv', EffectsInv', RequestHookReturns PROVE GraphInv'
<1>1. at = "requestRun" /\ at \in InRequest /\ UNCHANGED <<ask, asked>>
  BY DEF RequestHookReturns, InRequest, roundVars, worldVars
<1>2. effect.kind = "hook" BY <1>1 DEF EffectsInv, PlaceInv, EffectPlaced
<1>3. ASSUME NEW s \in {"failed", "interrupted"}, NEW k, CommitHook(s, k), at' = "finish" PROVE GraphInv'
  <2>1. DrawnInv' /\ AheadInv' /\ LogInv' /\ StateInv' /\ RegisterInv' BY <1>2, <1>3, HookGraph
  <2>2. QED BY <1>3, <2>1, ChainElsewhere DEF GraphInv, InRequest, InCall
<1>4. CASE CommitHook("succeeded", "observed") /\ hook' = hook + 1 /\ chain' = Append(chain, hook) /\ at' = "requestHooks"
  <2>1. DrawnInv' /\ AheadInv' /\ LogInv' /\ StateInv' /\ RegisterInv' BY <1>2, <1>4, HookGraph
  <2>2. /\ hook \in Nat \ {0} /\ chain = Upto(hook) /\ Counted(RequestHookResults(log, ask), hook)
        /\ AllSucceeded(RequestHookResults(log, ask)) /\ ask # 0
    BY <1>1, RequestChain
  <2>3. effect.request = ask /\ request.id = ask BY <1>1 DEF EffectsInv, RequestInv, RequestPlaced
  <2>4. effect.hook = hook BY <1>1 DEF GraphInv, ChainInv
  <2>5. Grown /\ New = {NextPlace} /\ log'[NextPlace] = HookResult(effect, "succeeded", "observed")
    BY <1>2, <1>4, HookIs
  <2>6. /\ log'[NextPlace].kind = "hook" /\ log'[NextPlace].request = ask /\ log'[NextPlace].hook = hook
        /\ log'[NextPlace].status = "succeeded"
    BY <2>3, <2>4, <2>5 DEF HookResult
  <2>7. RequestHookResults(log', ask) = RequestHookResults(log, ask) \cup {NextPlace}
    BY <2>5, <2>6, PlacesAre DEF RequestHookResults, At
  <2>8. RequestHookResults(log, ask) \subseteq DOMAIN log BY DEF RequestHookResults, At
  <2>9. /\ \A p \in RequestHookResults(log', ask) : log'[p].hook \in 1..(hook + 1 - 1) /\ log'[p].status = "succeeded"
        /\ \A p, r \in RequestHookResults(log', ask) : p < r => log'[p].hook < log'[r].hook
    <3>1. NextPlace \in New BY <2>5
    <3>2. QED BY <2>2, <2>5, <2>6, <2>7, <2>8, <3>1, ResultsExtend
  <2>10. Counted(RequestHookResults(log, ask), hook)' /\ AllSucceeded(RequestHookResults(log, ask))'
    <3>1. ask' = ask /\ hook' = hook + 1 BY <1>1, <1>4
    <3>2. /\ \A p \in RequestHookResults(log', ask') : log'[p].hook \in 1..(hook' - 1) /\ log'[p].status = "succeeded"
          /\ \A p, r \in RequestHookResults(log', ask') : p < r => log'[p].hook < log'[r].hook
      <4>. DEFINE Q == RequestHookResults(log', ask')
      <4>1. Q = RequestHookResults(log', ask) /\ hook' - 1 = hook + 1 - 1 BY <2>2, <3>1
      <4>. HIDE DEF Q
      <4>2. /\ \A p \in Q : log'[p].hook \in 1..(hook' - 1) /\ log'[p].status = "succeeded"
            /\ \A p, r \in Q : p < r => log'[p].hook < log'[r].hook
        BY <2>9, <4>1
      <4>3. QED BY <4>2 DEF Q
    <3>3. QED BY <3>2 DEF Counted, AllSucceeded
  <2>11. request' # NoRequest
    <3>1. request # NoRequest BY <2>2, <2>3 DEF NoRequest
    <3>2. request' = [id |-> request.id, results |-> Append(request.results, effect.id)]
      BY <1>2, <1>4, <2>2, <2>3, <3>1, HookIs
    <3>3. request'.id = ask BY <2>3, <3>2
    <3>4. QED BY <2>2, <3>3 DEF NoRequest
  <2>12. hook' > 0 /\ chain' = Upto(hook')
    <3>1. Append(Upto(hook), hook) = Upto(hook + 1) BY <2>2, UptoNext
    <3>2. QED BY <1>4, <2>2, <3>1
  <2>13. ChainInv' BY <1>4, <2>10, <2>11, <2>12, ChainOfRequest DEF InRequest
  <2>14. QED BY <2>1, <2>13 DEF GraphInv
<1>5. QED BY <1>3, <1>4 DEF RequestHookReturns, Finish, Goto

(* The Engine's checks before the model effect. *)
LEMMA RoundGraph == ASSUME TypeInv, EffectsInv, GraphInv, Round PROVE GraphInv'
<1>1. UNCHANGED <<registerVars, log, asked, ids, ask>> /\ UNCHANGED hookVars /\ at = "round" /\ at \in InRequest
  BY DEF Round, durableVars, registerVars, worldVars, roundVars, InRequest
<1>2. CASE at' = "finish" BY <1>1, <1>2, StillEnds DEF InRequest, InCall
<1>3. CASE at' = "model"
  <2>1. DrawnInv' /\ AheadInv' /\ LogInv' /\ StateInv' /\ RegisterInv'
    <3>1. ids \in Nat BY DEF TypeInv
    <3>2. QED BY <1>1, <3>1, StillGraph
  <2>2. request' = request BY <1>1 DEF registerVars
  <2>3. ChainInv' BY <1>1, <1>3, <2>2, RequestMoves DEF InRequest
  <2>4. QED BY <2>1, <2>3 DEF GraphInv
<1>4. QED BY <1>2, <1>3 DEF Round, Finish, Goto

(* The model intent. *)
LEMMA BeginModelGraph ==
  ASSUME TypeInv, EffectsInv, GraphInv, TypeInv', EffectsInv', BeginModel PROVE GraphInv'
<1>1. at = "model" /\ at \in InRequest BY DEF BeginModel, InRequest
<1>2. status = "running" BY <1>1 DEF EffectsInv, PlaceInv
<1>3. CASE Terminate("interruption", <<>>) /\ at' = "finish"
  BY <1>2, <1>3, TerminateEnds DEF Terminals, InRequest, InCall
<1>4. CASE BeginRequestEffect("model", 0) /\ at' = "attempt"
  <2>1. DrawnInv' /\ AheadInv' /\ LogInv' /\ StateInv' /\ RegisterInv'
    <3>1. "model" \in {"hook", "model"} /\ "model" # "hook" /\ 0 \in Nat OBVIOUS
    <3>2. QED BY <1>1, <1>4, <3>1, BeginRequestGraph
  <2>2. QED BY <1>4, <2>1, ChainElsewhere DEF GraphInv, InRequest, InCall
<1>5. QED BY <1>3, <1>4 DEF BeginModel, Finish, Goto

(* The checks before and after a physical attempt. *)
LEMMA AttemptGraph ==
  ASSUME TypeInv, EffectsInv, GraphInv, TypeInv', EffectsInv', Attempt \/ AttemptFails PROVE GraphInv'
<1>1. at \in {"attempt", "calling"} /\ asked' = asked BY DEF Attempt, AttemptFails, worldVars
<1>2. status = "running" BY <1>1 DEF EffectsInv, PlaceInv
<1>3. ASSUME NEW s \in Terminals, Terminate(s, <<>>), at' = "finish" PROVE GraphInv'
  BY <1>2, <1>3, TerminateEnds DEF InRequest, InCall
<1>4. CASE UNCHANGED durableVars /\ at' \in {"calling", "attempt"}
  <2>1. UNCHANGED <<registerVars, log, asked, ids>> BY <1>1, <1>4 DEF durableVars, registerVars
  <2>2. QED BY <1>4, <2>1, StillEnds DEF InRequest, InCall
<1>5. QED BY <1>3, <1>4 DEF Attempt, AttemptFails, Finish, Goto, Terminals

(* The model's output: its calls are new, so no hook has run for them. *)
LEMMA ModelReturnsGraph ==
  ASSUME TypeInv, EffectsInv, GraphInv, TypeInv', EffectsInv', ModelReturns PROVE GraphInv'
<1>1. at = "calling" /\ status = "running" BY DEF ModelReturns, EffectsInv, PlaceInv
<1>2. ASSUME NEW s \in Terminals, NEW produced \in {<<>>, <<Partial>>}, Terminate(s, produced), at' = "finish"
      PROVE  GraphInv'
  BY <1>1, <1>2, TerminateEnds DEF InRequest, InCall
<1>3. ASSUME NEW b \in Batches, OutputCompleted(b) PROVE GraphInv'
  <2>1. b \in Seq(Call) BY BatchIs
  <2>2. CASE Repeats(b)
    <3>1. Terminate("failure", <<>>) /\ at' = "finish" BY <1>3, <2>2 DEF OutputCompleted, Finish
    <3>2. QED BY <1>2, <3>1 DEF Terminals
  <2>3. CASE ~Repeats(b)
    <3>1. DrawnInv' /\ AheadInv' /\ LogInv' /\ StateInv' /\ RegisterInv' BY <1>1, <1>3, <2>1, <2>3, CompletedGraph
    <3>2. at' = "finish" \/ (at' = "dispatch" /\ b # <<>>) BY <1>3, <2>3 DEF OutputCompleted, Finish, Goto
    <3>3. CASE at' = "finish" BY <3>1, <3>3, ChainElsewhere DEF GraphInv, InRequest, InCall
    <3>4. CASE at' = "dispatch" /\ b # <<>>
      <4>1. 1 \in DOMAIN b /\ b[1] \in Call BY <2>1, <3>4
      <4>2. /\ Grown /\ New = {NextPlace} /\ log'[NextPlace] = Assistant(effect.id, effect.request, Reserve(b), effect.chain)
            /\ pending'[1] = [call |-> b[1], id |-> ids + 1 - 1, publisher |-> effect.id]
        <5>1. /\ DOMAIN b = 1..Len(b)
              /\ \A n \in 1..Len(b) : pending'[n] = [call |-> b[n], id |-> ids + n - 1, publisher |-> effect.id]
              /\ Grown /\ New = {NextPlace}
              /\ log'[NextPlace] = Assistant(effect.id, effect.request, Reserve(b), effect.chain)
          BY <1>1, <1>3, <2>1, <2>3, CompletedIs
        <5>2. QED BY <4>1, <5>1
      <4>3. b[1] \notin Published /\ b[1] # NoCall BY <2>3, <4>1, CallsAreIdentities DEF Repeats
      <4>4. CallHooks(log, b[1]) = {} BY <1>1, <4>3, HooksOfTurn DEF CallHooks
      <4>5. CallHooks(log', b[1]) = CallHooks(log, b[1])
        <5>1. log'[NextPlace].kind = "assistant" BY <4>2 DEF Assistant
        <5>2. \A i \in New : log'[i].kind # "hook" BY <4>2, <5>1
        <5>3. QED BY <4>2, <5>2, SameHooks
      <4>6. pending'[1].call = b[1] BY <4>2
      <4>7. CallHooks(log', pending'[1].call) = {} BY <4>4, <4>5, <4>6
      <4>8. ChainInv' BY <3>4, <4>7 DEF ChainInv, InRequest, InCall
      <4>9. QED BY <3>1, <4>8 DEF GraphInv
    <3>5. QED BY <3>2, <3>3, <3>4
  <2>4. QED BY <2>2, <2>3
<1>4. ASSUME OutputPartial PROVE GraphInv'
  <2>1. DrawnInv' /\ AheadInv' /\ LogInv' /\ StateInv' /\ RegisterInv' BY <1>1, <1>4, PartialGraph
  <2>2. at' = "loop" BY <1>4 DEF OutputPartial, Goto
  <2>3. QED BY <2>1, <2>2, ChainElsewhere DEF GraphInv, InRequest, InCall
<1>5. ASSUME NEW s \in Terminals, OutputTerminal(s) PROVE GraphInv'
  <2>1. at' = "finish" BY <1>5 DEF OutputTerminal, Finish
  <2>2. Terminate(s, <<>>) \/ Terminate(s, <<Partial>>) BY <1>5 DEF OutputTerminal, Partial
  <2>3. QED BY <1>2, <2>1, <2>2
<1>6. QED BY <1>3, <1>4, <1>5 DEF ModelReturns, Terminals

(* The next call of the batch. *)
LEMMA DispatchGraph == ASSUME TypeInv, EffectsInv, GraphInv, Dispatch PROVE GraphInv'
<1>1. UNCHANGED <<registerVars, log, asked, ids>> /\ at = "dispatch"
  BY DEF Dispatch, durableVars, registerVars, worldVars
<1>2. CASE at' \in {"loop", "finish"} BY <1>1, <1>2, StillEnds DEF InRequest, InCall
<1>3. CASE at' = "tool"
  <2>1. DrawnInv' /\ AheadInv' /\ LogInv' /\ StateInv' /\ RegisterInv'
    <3>1. ids \in Nat BY DEF TypeInv
    <3>2. QED BY <1>1, <3>1, StillGraph
  <2>2. log' = log /\ pending' = pending BY <1>1 DEF registerVars
  <2>3. pending # <<>> => CallHooks(log, pending[1].call) = {} BY <1>1 DEF GraphInv, ChainInv
  <2>4. ChainInv' BY <1>3, <2>2, <2>3 DEF ChainInv, InRequest, InCall
  <2>5. QED BY <2>1, <2>4 DEF GraphInv
<1>4. QED BY <1>2, <1>3 DEF Dispatch, Finish, Goto

(* The entry of one call's effect. *)
LEMMA ToolEntryGraph ==
  ASSUME TypeInv, EffectsInv, GraphInv, TypeInv', EffectsInv', ToolEntry PROVE GraphInv'
<1>1. at = "tool" /\ at \in InBatch \ {"dispatch"} /\ asked' = asked BY DEF ToolEntry, InBatch, worldVars
<1>2. pending # <<>> BY <1>1 DEF EffectsInv, PlaceInv
<1>3. ASSUME NEW s, NEW k, NEW u, SettleCall(s, k, u, NoSelection) PROVE GraphInv'
  <2>1. Fits(s, NoSelection) BY <1>1, <1>2, FitsEntry
  <2>2. QED BY <1>1, <1>3, <2>1, AnswerSettles
<1>4. CASE hook' = 1 /\ chain' = <<>> /\ at' = "argumentHooks" /\ UNCHANGED durableVars
  <2>1. UNCHANGED <<registerVars, log>> /\ ids' = ids /\ log' = log /\ pending' = pending
    BY <1>4 DEF durableVars, registerVars
  <2>2. DrawnInv' /\ AheadInv' /\ LogInv' /\ StateInv' /\ RegisterInv'
    <3>1. ids \in Nat BY DEF TypeInv
    <3>2. QED BY <1>1, <2>1, <3>1, StillGraph
  <2>3. CallHooks(log', pending'[1].call) = {} BY <1>1, <1>2, <2>1 DEF GraphInv, ChainInv
  <2>4. Counted(CallHooks(log, pending[1].call), hook)' /\ AllSucceeded(CallHooks(log, pending[1].call))'
    BY <2>3 DEF Counted, AllSucceeded
  <2>5. hook' > 0 /\ chain' = Upto(hook') BY <1>4, UptoOne
  <2>6. ChainInv' BY <1>4, <2>4, <2>5, ChainOfCall DEF InCall
  <2>7. QED BY <2>2, <2>6 DEF GraphInv
<1>5. QED BY <1>3, <1>4 DEF ToolEntry, Goto

(* The next argument hook. *)
LEMMA NextArgumentHookGraph ==
  ASSUME TypeInv, EffectsInv, GraphInv, TypeInv', EffectsInv', NextArgumentHook PROVE GraphInv'
<1>1. at = "argumentHooks" /\ at \in InCall /\ at \in InBatch \ {"dispatch"} /\ asked' = asked
  BY DEF NextArgumentHook, InCall, InBatch, worldVars
<1>2. ASSUME NEW s, NEW k, NEW u, SettleCall(s, k, u, Selected(chain)) PROVE GraphInv'
  <2>1. Fits(s, Selected(chain)) BY <1>1, FitsChain
  <2>2. QED BY <1>1, <1>2, <2>1, AnswerSettles
<1>3. CASE /\ UNCHANGED durableVars
           /\ \/ at' = "prepare" /\ UNCHANGED hookVars
              \/ at' = at /\ hook' = hook + 1 /\ chain' = Append(chain, hook)
  <2>1. UNCHANGED <<registerVars, log>> /\ ids' = ids /\ pending' = pending
    BY <1>3 DEF durableVars, registerVars
  <2>2. DrawnInv' /\ AheadInv' /\ LogInv' /\ StateInv' /\ RegisterInv'
    <3>1. ids \in Nat BY DEF TypeInv
    <3>2. QED BY <1>1, <2>1, <3>1, StillGraph
  <2>3. at' \in InCall /\ at' \notin {"hookGate", "hookRun"} BY <1>1, <1>3 DEF InCall
  <2>4. ChainInv' BY <1>1, <1>3, <2>1, <2>3, CallMoves
  <2>5. QED BY <2>2, <2>4 DEF GraphInv
<1>4. CASE BeginCallHook /\ at' = "hookGate" /\ UNCHANGED hookVars
  <2>1. DrawnInv' /\ AheadInv' /\ LogInv' /\ StateInv' /\ RegisterInv' /\ effect'.hook = hook
    BY <1>1, <1>4, BeginCallHookGraph
  <2>2. hook' = hook BY <1>4 DEF hookVars
  <2>3. log' = log /\ pending' = pending BY <1>4 DEF BeginCallHook
  <2>4. ChainInv' BY <1>1, <1>4, <2>1, <2>2, <2>3, CallMoves DEF InCall
  <2>5. QED BY <2>1, <2>4 DEF GraphInv
<1>5. \/ at' = "prepare" /\ UNCHANGED <<durableVars, hookVars>>
      \/ UNCHANGED <<durableVars, at>> /\ hook' = hook + 1 /\ chain' = Append(chain, hook)
      \/ \E s, k, u : SettleCall(s, k, u, Selected(chain))
      \/ BeginCallHook /\ at' = "hookGate" /\ UNCHANGED hookVars
  BY DEF NextArgumentHook, Goto
<1>6. QED BY <1>2, <1>3, <1>4, <1>5

(* A hook of the call fails: its result stops the chain, and the call is
   left to be settled with a consequence of it. *)
LEMMA HookFailsGraph ==
  ASSUME TypeInv, EffectsInv, GraphInv, TypeInv', EffectsInv', at \in {"hookGate", "hookRun"},
         NEW s \in {"error", "interrupted"}, NEW k, HookFails(s, k)
  PROVE  GraphInv'
<1>. DEFINE c == pending[1].call
            t == IF s = "error" THEN "failed" ELSE "interrupted"
<1>1. /\ CommitHook(t, k) /\ outcome' = s /\ at' = "hookSettle" /\ UNCHANGED hookVars
      /\ t # "succeeded" /\ s \in Consequence(t)
  BY DEF HookFails, Goto, Consequence
<1>. HIDE DEF t
<1>2. at \in InCall /\ effect.kind = "hook" /\ effect.call = c
  BY DEF InCall, EffectsInv, PlaceInv, EffectPlaced
<1>3. DrawnInv' /\ AheadInv' /\ LogInv' /\ StateInv' /\ RegisterInv' BY <1>1, <1>2, HookGraph
<1>4. hook \in Nat \ {0} /\ chain = Upto(hook) /\ Counted(CallHooks(log, c), hook) /\ AllSucceeded(CallHooks(log, c))
  BY <1>2, CallChain
<1>5. Grown /\ New = {NextPlace} /\ log'[NextPlace] = HookResult(effect, t, k) /\ pending' = pending
  BY <1>1, <1>2, HookIs
<1>6. log'[NextPlace].kind = "hook" /\ log'[NextPlace].call = c /\ log'[NextPlace].status = t
  BY <1>2, <1>5 DEF HookResult
<1>. HIDE DEF c
<1>7. CallHooks(log', c) = CallHooks(log, c) \cup {NextPlace} BY <1>5, <1>6, PlacesAre DEF CallHooks, At
<1>8. \A p \in CallHooks(log, c) : log'[p] = log[p] /\ log[p].status = "succeeded"
  BY <1>4, <1>5, PlacesAre DEF CallHooks, At, AllSucceeded
<1>9. Successful(log', c) = CallHooks(log, c) BY <1>1, <1>6, <1>7, <1>8 DEF Successful
<1>10. \A p \in Successful(log', c) : log'[p].hook \in 1..(hook - 1)
  BY <1>4, <1>8, <1>9 DEF Counted
<1>11. \A p, r \in Successful(log', c) : p < r => log'[p].hook < log'[r].hook
  BY <1>4, <1>8, <1>9 DEF Counted
<1>12. pending'[1].call = c /\ hook' = hook /\ chain' = chain BY <1>1, <1>5 DEF c, hookVars
<1>13. Counted(Successful(log, pending[1].call), hook)' BY <1>10, <1>11, <1>12 DEF Counted
<1>14. \A i \in CallHooks(log', pending'[1].call) :
          log'[i].status # "succeeded" => outcome' \in Consequence(log'[i].status)
  BY <1>1, <1>6, <1>7, <1>8, <1>12
<1>15. hook' > 0 /\ chain' = Upto(hook') BY <1>4, <1>12
<1>16. ChainInv' BY <1>1, <1>13, <1>14, <1>15 DEF ChainInv, InRequest, InCall
<1>17. QED BY <1>3, <1>16 DEF GraphInv

(* The gate before an argument hook's Run. *)
LEMMA HookGateGraph ==
  ASSUME TypeInv, EffectsInv, GraphInv, TypeInv', EffectsInv', HookGate PROVE GraphInv'
<1>1. at = "hookGate" /\ at \in InCall /\ asked' = asked BY DEF HookGate, InCall, worldVars
<1>2. ASSUME HookFails("interrupted", "not_started") PROVE GraphInv' BY <1>1, <1>2, HookFailsGraph
<1>3. CASE UNCHANGED <<durableVars, hookVars>> /\ at' = "hookRun"
  <2>1. UNCHANGED <<registerVars, log>> /\ ids' = ids /\ pending' = pending /\ effect' = effect /\ UNCHANGED hookVars
    BY <1>3 DEF durableVars, registerVars
  <2>2. DrawnInv' /\ AheadInv' /\ LogInv' /\ StateInv' /\ RegisterInv'
    <3>1. ids \in Nat BY DEF TypeInv
    <3>2. QED BY <1>1, <2>1, <3>1, StillGraph
  <2>3. effect.hook = hook BY <1>1 DEF GraphInv, ChainInv
  <2>4. effect'.hook = hook' BY <2>1, <2>3 DEF hookVars
  <2>5. ChainInv' BY <1>1, <1>3, <2>1, <2>4, CallMoves DEF InCall
  <2>6. QED BY <2>2, <2>5 DEF GraphInv
<1>4. QED BY <1>2, <1>3 DEF HookGate, Goto

(* An argument hook returns. *)
LEMMA HookReturnsGraph ==
  ASSUME TypeInv, EffectsInv, GraphInv, TypeInv', EffectsInv', HookReturns PROVE GraphInv'
<1>1. at = "hookRun" /\ at \in InCall BY DEF HookReturns, InCall
<1>2. ASSUME NEW s \in {"error", "interrupted"}, NEW k, HookFails(s, k) PROVE GraphInv' BY <1>1, <1>2, HookFailsGraph
<1>3. CASE CommitHook("succeeded", "observed") /\ hook' = hook + 1 /\ chain' = Append(chain, hook) /\ at' = "argumentHooks"
  <2>. DEFINE c == pending[1].call
  <2>1. effect.kind = "hook" /\ effect.call = c BY <1>1 DEF EffectsInv, PlaceInv, EffectPlaced
  <2>2. DrawnInv' /\ AheadInv' /\ LogInv' /\ StateInv' /\ RegisterInv' BY <1>3, <2>1, HookGraph
  <2>3. hook \in Nat \ {0} /\ chain = Upto(hook) /\ Counted(CallHooks(log, c), hook) /\ AllSucceeded(CallHooks(log, c))
    BY <1>1, CallChain
  <2>4. effect.hook = hook BY <1>1 DEF GraphInv, ChainInv
  <2>5. /\ Grown /\ New = {NextPlace} /\ log'[NextPlace] = HookResult(effect, "succeeded", "observed")
        /\ pending' = pending
    BY <1>3, <2>1, HookIs
  <2>6. /\ log'[NextPlace].kind = "hook" /\ log'[NextPlace].call = c /\ log'[NextPlace].hook = hook
        /\ log'[NextPlace].status = "succeeded"
    BY <2>1, <2>4, <2>5 DEF HookResult
  <2>7. pending'[1].call = c BY <2>5
  <2>. HIDE DEF c
  <2>8. CallHooks(log', c) = CallHooks(log, c) \cup {NextPlace} BY <2>5, <2>6, PlacesAre DEF CallHooks, At
  <2>9. CallHooks(log, c) \subseteq DOMAIN log BY DEF CallHooks, At
  <2>10. /\ \A p \in CallHooks(log', c) : log'[p].hook \in 1..(hook + 1 - 1) /\ log'[p].status = "succeeded"
         /\ \A p, r \in CallHooks(log', c) : p < r => log'[p].hook < log'[r].hook
    <3>1. NextPlace \in New BY <2>5
    <3>2. QED BY <2>3, <2>5, <2>6, <2>8, <2>9, <3>1, ResultsExtend
  <2>11. hook' - 1 = hook + 1 - 1 BY <1>3, <2>3
  <2>12. Counted(CallHooks(log, pending[1].call), hook)' /\ AllSucceeded(CallHooks(log, pending[1].call))'
    BY <2>7, <2>10, <2>11 DEF Counted, AllSucceeded
  <2>13. hook' > 0 /\ chain' = Upto(hook')
    <3>1. Append(Upto(hook), hook) = Upto(hook + 1) BY <2>3, UptoNext
    <3>2. QED BY <1>3, <2>3, <3>1
  <2>14. ChainInv' BY <1>3, <2>12, <2>13, ChainOfCall DEF InCall
  <2>15. QED BY <2>2, <2>14 DEF GraphInv
<1>4. QED BY <1>2, <1>3 DEF HookReturns, Goto

(* The second transaction of a failed hook. *)
LEMMA HookSettleGraph ==
  ASSUME TypeInv, EffectsInv, GraphInv, TypeInv', EffectsInv', HookSettle PROVE GraphInv'
<1>1. at = "hookSettle" /\ at \in InBatch \ {"dispatch"} BY DEF HookSettle, InBatch
<1>2. SettleCall(outcome, "not_started", HookNotice, Selected(chain)) BY DEF HookSettle
<1>3. Fits(outcome, Selected(chain)) BY <1>1, FitsFailure
<1>4. QED BY <1>1, <1>2, <1>3, AnswerSettles

(* Preparation and permission. *)
LEMMA PrepareGraph ==
  ASSUME TypeInv, EffectsInv, GraphInv, TypeInv', EffectsInv', Prepare PROVE GraphInv'
<1>1. at = "prepare" /\ at \in InCall /\ at \in InBatch \ {"dispatch"} /\ asked' = asked /\ UNCHANGED hookVars
  BY DEF Prepare, InCall, InBatch, worldVars
<1>2. ASSUME NEW s, NEW k, NEW u, SettleCall(s, k, u, Selected(chain)) PROVE GraphInv'
  <2>1. Fits(s, Selected(chain)) BY <1>1, FitsChain
  <2>2. QED BY <1>1, <1>2, <2>1, AnswerSettles
<1>3. CASE UNCHANGED durableVars /\ at' = "begin"
  <2>1. UNCHANGED <<registerVars, log>> /\ ids' = ids /\ pending' = pending BY <1>3 DEF durableVars, registerVars
  <2>2. DrawnInv' /\ AheadInv' /\ LogInv' /\ StateInv' /\ RegisterInv'
    <3>1. ids \in Nat BY DEF TypeInv
    <3>2. QED BY <1>1, <2>1, <3>1, StillGraph
  <2>3. ChainInv' BY <1>1, <1>3, <2>1, CallMoves DEF InCall
  <2>4. QED BY <2>2, <2>3 DEF GraphInv
<1>4. QED BY <1>2, <1>3 DEF Prepare, Goto

(* The executor's intent. *)
LEMMA BeginCallGraph ==
  ASSUME TypeInv, EffectsInv, GraphInv, TypeInv', EffectsInv', BeginCall PROVE GraphInv'
<1>1. at = "begin" /\ at \in InCall /\ at \in InBatch \ {"dispatch"} /\ asked' = asked
  BY DEF BeginCall, InCall, InBatch, worldVars
<1>2. ASSUME NEW s, NEW k, NEW u, SettleCall(s, k, u, Selected(chain)) PROVE GraphInv'
  <2>1. Fits(s, Selected(chain)) BY <1>1, FitsChain
  <2>2. QED BY <1>1, <1>2, <2>1, AnswerSettles
<1>3. CASE BeginTool /\ at' = "toolGate"
  <2>1. DrawnInv' /\ AheadInv' /\ LogInv' /\ StateInv' /\ RegisterInv' BY <1>1, <1>3, BeginToolGraph
  <2>2. QED BY <1>3, <2>1, ChainElsewhere DEF GraphInv, InRequest, InCall
<1>4. QED BY <1>2, <1>3 DEF BeginCall, Goto

(* The gate between the intent and Execute, and the executor's return. *)
LEMMA ExecutorGraph ==
  ASSUME TypeInv, EffectsInv, GraphInv, TypeInv', EffectsInv', ToolGate \/ ToolReturns PROVE GraphInv'
<1>1. at \in {"toolGate", "executing"} /\ at \in InBatch \ {"dispatch"} /\ asked' = asked
  BY DEF ToolGate, ToolReturns, InBatch, worldVars
<1>2. ASSUME NEW s, NEW k, NEW u, SettleCall(s, k, u, NoSelection) PROVE GraphInv'
  <2>1. Fits(s, NoSelection) BY <1>1, FitsExecutor
  <2>2. QED BY <1>1, <1>2, <2>1, AnswerSettles
<1>3. CASE UNCHANGED durableVars /\ at' = "executing"
  <2>1. UNCHANGED <<registerVars, log, asked, ids>> BY <1>1, <1>3 DEF durableVars, registerVars
  <2>2. QED BY <1>3, <2>1, StillEnds DEF InRequest, InCall
<1>4. QED BY <1>2, <1>3 DEF ToolGate, ToolReturns, Goto
-----------------------------------------------------------------------------
(* A step that writes nothing the invariant reads. *)
LEMMA SameGraph ==
  ASSUME TypeInv, EffectsInv, GraphInv,
         UNCHANGED <<registerVars, log, asked, ids, at, ask, hook, chain, outcome>>
  PROVE  GraphInv'
<1>1. ids \in Nat BY DEF TypeInv
<1>2. DrawnInv' /\ AheadInv' /\ LogInv' /\ StateInv' /\ RegisterInv' BY <1>1, StillGraph
<1>3. /\ effect' = effect /\ pending' = pending /\ request' = request /\ log' = log /\ at' = at /\ ask' = ask
      /\ hook' = hook /\ chain' = chain /\ outcome' = outcome
  BY DEF registerVars
<1>4. ChainInv
  BY DEF GraphInv
<1>5. ChainInv' BY <1>3, <1>4 DEF ChainInv, Counted, AllSucceeded
<1>6. QED BY <1>2, <1>5 DEF GraphInv

(* The executor acts, and a cancellation arrives. *)
LEMMA OutsideGraph == ASSUME TypeInv, EffectsInv, GraphInv, Act \/ Cancel PROVE GraphInv'
<1>1. UNCHANGED <<registerVars, log, asked, ids, at, ask, hook, chain, outcome>>
  BY DEF Act, Cancel, durableVars, registerVars, roundVars, hookVars, answerVars, worldVars
<1>2. QED BY <1>1, SameGraph

(* The terminal published by the quiet gate. *)
LEMMA CompleteGraph ==
  ASSUME TypeInv, EffectsInv, GraphInv, TypeInv', EffectsInv', Complete PROVE GraphInv'
<1>1. at = "finish" /\ at' = "done" /\ asked' = asked BY DEF Complete, Goto, worldVars
<1>2. CASE Quiet
  <2>1. outcome \in Terminals BY <1>1 DEF TypeInv
  <2>2. Guarded(outcome) \in Terminals BY <2>1 DEF Guarded, Terminals
  <2>3. status = "running" /\ Terminate(Guarded(outcome), <<>>) BY <1>2 DEF Complete, Quiet
  <2>4. QED BY <1>1, <2>2, <2>3, TerminateEnds DEF InRequest, InCall
<1>3. CASE ~Quiet
  <2>1. UNCHANGED <<registerVars, log, asked, ids>> BY <1>1, <1>3 DEF Complete, durableVars, registerVars
  <2>2. QED BY <1>1, <2>1, StillEnds DEF InRequest, InCall
<1>4. QED BY <1>2, <1>3

(* A failed transaction, and the loss of the process, leave what was
   committed. *)
LEMMA LossGraph == ASSUME TypeInv, EffectsInv, GraphInv, PublicationFails \/ Crash PROVE GraphInv'
<1>1. UNCHANGED <<registerVars, log, asked, ids>> /\ at' \in {"done", "down"}
  BY DEF PublicationFails, Crash, Goto, durableVars, registerVars, worldVars
<1>2. QED BY <1>1, StillEnds DEF InRequest, InCall

(* Recovery settles from the durable records alone. *)
LEMMA RecoverGraph ==
  ASSUME TypeInv, EffectsInv, GraphInv, TypeInv', EffectsInv', Recover PROVE GraphInv'
<1>1. status = "running" /\ Terminate("interruption", <<>>) /\ at' = "down" BY DEF Recover
<1>2. QED BY <1>1, TerminateEnds DEF Terminals, InRequest, InCall

(* An Operation starts with nothing committed. *)
LEMMA GraphStart == Init => GraphInv
<1>. SUFFICES ASSUME Init PROVE GraphInv OBVIOUS
<1>1. /\ log = <<>> /\ pending = <<>> /\ effect = NoEffect /\ request = NoRequest /\ at = "loop"
      /\ status = "running"
  BY DEF Init
<1>2. DOMAIN log = {} /\ DOMAIN pending = {} BY <1>1, EmptyIs
<1>3. \A k : At(log, k) = {} BY <1>2 DEF At
<1>4. PublishedCalls(log) = {} BY <1>3 DEF PublishedCalls
<1>5. /\ effect.kind = "none" /\ effect.call = NoCall /\ effect.request = 0 BY <1>1 DEF NoEffect
<1>6. DrawnInv BY <1>1, <1>3, <1>4, <1>5 DEF DrawnInv
<1>7. AheadInv BY <1>3, <1>5 DEF AheadInv
<1>8. ChainInv BY <1>1 DEF ChainInv, InRequest, InCall
<1>9. ShapeInv BY <1>3 DEF ShapeInv, EntriesShaped
<1>10. IdentityInv
  BY <1>2, <1>3, <1>4 DEF IdentityInv, EntriesUnique, ReservationsUnique, ReservationsKept, ResultsAnswer
<1>11. HookInv BY <1>3 DEF HookInv, HookResultsValid, HookResultsOnce, HooksStopAtFailure
<1>12. DomainInv BY <1>3 DEF DomainInv, RequestDomain
<1>13. /\ Register.status = "running" /\ Register.effect = effect /\ Register.pending = pending
       /\ Register.request = request
  BY <1>1 DEF Register
<1>14. StateInv BY <1>1, <1>5, <1>13 DEF StateInv, StateShape
<1>15. PendingExact(Register, log) BY <1>2, <1>4, <1>13 DEF PendingExact
<1>16. /\ EffectFresh(Register, log) /\ EffectContinuesCall(Register, log)
       /\ EffectContinuesRequest(Register, log) /\ RequestStateExact(Register, log)
  BY <1>1, <1>5, <1>13 DEF EffectFresh, EffectContinuesCall, EffectContinuesRequest, RequestStateExact
<1>17. RegisterInv BY <1>1, <1>3, <1>15, <1>16 DEF RegisterInv, RunningValid
<1>18. QED BY <1>6, <1>7, <1>8, <1>9, <1>10, <1>11, <1>12, <1>14, <1>17 DEF GraphInv, LogInv

(* Every reachable state satisfies the graph invariant: of every
   transaction of the executionDriver, and of recovery, what it reads of
   the register, of the log and of the goroutine's own hook chain agrees
   with what it writes. *)
THEOREM GraphInvariance == Spec => []GraphInv
<1>1. TypeInv /\ EffectsInv /\ TypeInv' /\ EffectsInv' /\ GraphInv /\ [Next]_vars => GraphInv'
  <2>. SUFFICES ASSUME TypeInv, EffectsInv, TypeInv', EffectsInv', GraphInv, [Next]_vars PROVE GraphInv' OBVIOUS
  <2>1. CASE EngineStep
    BY <2>1, LoopGraph, SourceGraph, RoundGraph, DispatchGraph, CompleteGraph DEF EngineStep
  <2>2. CASE RequestHookStep
    BY <2>2, NextRequestHookGraph, RequestHookGateGraph, RequestHookReturnsGraph DEF RequestHookStep
  <2>3. CASE ModelStep
    BY <2>3, BeginModelGraph, AttemptGraph, ModelReturnsGraph DEF ModelStep
  <2>4. CASE ToolStep
    BY <2>4, ToolEntryGraph, NextArgumentHookGraph, HookGateGraph, HookReturnsGraph, HookSettleGraph,
       PrepareGraph, BeginCallGraph, ExecutorGraph DEF ToolStep
  <2>5. CASE Act \/ PublicationFails \/ Cancel \/ Crash \/ Recover
    BY <2>5, OutsideGraph, LossGraph, RecoverGraph
  <2>6. CASE UNCHANGED vars
    <3>1. UNCHANGED <<registerVars, log, asked, ids, at, ask, hook, chain, outcome>>
      BY <2>6 DEF vars, durableVars, registerVars, roundVars, hookVars, answerVars, worldVars
    <3>2. QED BY <3>1, SameGraph
  <2>7. QED BY <2>1, <2>2, <2>3, <2>4, <2>5, <2>6 DEF Next, Step
<1>2. QED BY <1>1, GraphStart, EffectsInvariance, PTL DEF Spec

(* Whatever the process leaves behind, at whatever instant it is lost, is a
   graph that graphValidation.run and the codecs accept, so recovery finds
   every Operation it has to settle: for every set of calls, every captured
   invocation with any number of hooks of either mode, any number of rounds
   and any number of failed transactions. *)
THEOREM OperationLoads == Spec => []LoadAccepts
<1>1. TypeInv /\ GraphInv => LoadAccepts
  <2>. SUFFICES ASSUME TypeInv, GraphInv PROVE LoadAccepts OBVIOUS
  <2>1. TypeOK BY DEF TypeInv
  <2>2. Register.status = status BY DEF Register
  <2>3. StateShape(Register) /\ EntriesShaped(log) BY DEF GraphInv, LogInv, StateInv, ShapeInv
  <2>4. EntriesUnique(log) /\ ReservationsUnique(log) /\ ReservationsKept(log) /\ ResultsAnswer(log)
    BY DEF GraphInv, LogInv, IdentityInv
  <2>5. HookResultsValid(log) /\ RequestDomain(log) BY DEF GraphInv, LogInv, HookInv, DomainInv
  <2>6. IF Register.status = "running" THEN RunningValid(Register, log) ELSE TerminalValid(Register, log)
    BY <2>2 DEF GraphInv, RegisterInv
  <2>7. QED BY <2>1, <2>3, <2>4, <2>5, <2>6 DEF LoadAccepts, Accepts
<1>2. QED BY <1>1, GraphInvariance, EffectsInvariance, PTL
=============================================================================
