------------------------------- MODULE Graph --------------------------------
(***************************************************************************)
(* The durable shape of one Operation - its register and the entries it    *)
(* owns - and which of those shapes a load accepts (graphValidation and    *)
(* the register and entry codecs).  A Session whose graph is refused is    *)
(* corrupt: it is never resident again and recovery skips it.              *)
(*                                                                         *)
(* An Operation register is [status, effect, pending, request]; a log is   *)
(* the sequence of entries in commit order, so an index is an entry's      *)
(* Sequence.  Absent members are NoCall, 0 or the empty sequence.  The     *)
(* checkpoint and boundary references, the usage totals and the copied     *)
(* prefix of a fork are not part of the shape.                             *)
(***************************************************************************)
EXTENDS Naturals, Sequences

NoCall    == "none"
NoEffect  == [kind |-> "none", id |-> 0, call |-> NoCall, request |-> 0, hook |-> 0, chain |-> <<>>]
NoRequest == [id |-> 0, results |-> <<>>]

(* A settled call's accepted arguments and the hooks that produced them. *)
NoSelection  == [accepted |-> "no", chain |-> <<>>]
Selected(ch) == [accepted |-> "yes", chain |-> ch]

(* The entries an Operation appends. *)
Assistant(id, q, cs, ch) ==
    [kind |-> "assistant", id |-> id, request |-> q, calls |-> cs, chain |-> ch]
HookResult(e, s, k) ==
    [kind |-> "hook", id |-> e.id, call |-> e.call, request |-> e.request, hook |-> e.hook,
     chain |-> e.chain, status |-> s, evidence |-> k]
ToolResult(p, s, k, u, sel) ==
    [kind |-> "tool", id |-> p.id, call |-> p.call, publisher |-> p.publisher,
     status |-> s, evidence |-> k, notice |-> u, selection |-> sel]
Signal(id, s) == [kind |-> "signal", id |-> id, signal |-> s]
Settlement(id, s, q, ev) ==
    [kind |-> "settlement", id |-> id, status |-> s, request |-> q, evidence |-> ev]

At(l, kind) == {i \in DOMAIN l : l[i].kind = kind}
Committed(l, id) == \E i \in DOMAIN l : l[i].id = id
-----------------------------------------------------------------------------
(* collectPublishedCalls: every call an assistant entry published, with its
   place, its reserved result identity and its publisher. *)
PublishedCalls(l) ==
    UNION {{[at |-> i, nth |-> n, call |-> l[i].calls[n].call, id |-> l[i].calls[n].id,
             publisher |-> l[i].id] : n \in DOMAIN l[i].calls} : i \in At(l, "assistant")}
Earlier(a, b) == a.at < b.at \/ (a.at = b.at /\ a.nth < b.nth)
Resolved(l, a) == Committed(l, a.id)
ResolvedBefore(l, a, i) == \E j \in DOMAIN l : j < i /\ l[j].id = a.id

(* The entry codecs: a hook result binds a call or a request, never both,
   and succeeds only with observed knowledge; hook provenance comes with
   accepted arguments, settled evidence with its request. *)
HookResultShape(e) ==
    /\ (e.call = NoCall) # (e.request = 0)
    /\ e.status = "succeeded" => e.evidence = "observed"
ToolResultShape(e) == e.selection.chain # <<>> => e.selection.accepted = "yes"
SettlementShape(e) ==
    /\ e.status \in {"success", "failure", "interruption"}
    /\ e.evidence.accepted = "yes" => e.request # 0
EntriesShaped(l) ==
    /\ \A i \in At(l, "hook") : HookResultShape(l[i])
    /\ \A i \in At(l, "tool") : ToolResultShape(l[i])
    /\ \A i \in At(l, "settlement") : SettlementShape(l[i])

(* run's entry index, collectReservations and validateReservations. *)
EntriesUnique(l) == \A i, j \in DOMAIN l : l[i].id = l[j].id => i = j
ReservationsUnique(l) ==
    \A a, b \in PublishedCalls(l) : (a.id = b.id \/ a.call = b.call) => a = b
ReservationsKept(l) ==
    \A a \in PublishedCalls(l) : \A i \in DOMAIN l : l[i].id = a.id =>
        /\ l[i].kind = "tool"
        /\ l[i].call = a.call /\ l[i].publisher = a.publisher

(* collectToolResults. *)
ResultsAnswer(l) ==
    \A i \in At(l, "tool") : \E a \in PublishedCalls(l) :
        a.call = l[i].call /\ a.publisher = l[i].publisher /\ a.id = l[i].id

(* validateEvidenceHookOrder: of the committed results a chain names none
   at or after its owner's place, none out of order, and omits none before. *)
HookOrder(l, ch, results, owner) ==
    /\ \A k \in DOMAIN ch : \A p \in results : l[p].hook = ch[k] => p < owner
    /\ \A j, k \in DOMAIN ch : \A p, r \in results :
          (j < k /\ l[p].hook = ch[j] /\ l[r].hook = ch[k]) => p < r
    /\ \A p \in results : p < owner => \E k \in DOMAIN ch : ch[k] = l[p].hook

CallHooks(l, c)  == {i \in At(l, "hook") : l[i].call = c}
Successful(l, c) == {i \in CallHooks(l, c) : l[i].status = "succeeded"}
RequestHookResults(l, q) == {i \in At(l, "hook") : l[i].request = q}
Beyond(l)  == Len(l) + 1      \* the place of an owner that is not committed yet

(* collectHookResults: a hook runs while its call is the first pending one,
   once, and never after one of its predecessors failed. *)
HookResultPlaced(l, i) ==
    \E a \in PublishedCalls(l) :
        /\ a.call = l[i].call /\ a.at < i
        /\ \A j \in DOMAIN l : l[j].id = a.id => i < j
        /\ \A b \in PublishedCalls(l) : Earlier(b, a) => ResolvedBefore(l, b, i)
HookResultsOnce(l) ==
    \A i, j \in At(l, "hook") :
        (l[i].hook = l[j].hook /\ l[i].call = l[j].call /\ l[i].request = l[j].request) => i = j
HooksStopAtFailure(l) ==
    \A i, j \in At(l, "hook") :
        (i < j /\ l[i].call = l[j].call /\ l[i].request = l[j].request) => l[i].status = "succeeded"
Consequence(s) == IF s = "failed" THEN {"error", "interrupted"} ELSE {"interrupted"}
HookResultsValid(l) ==
    /\ \A i \in At(l, "hook") : l[i].request = 0 => HookResultPlaced(l, i)
    /\ HookResultsOnce(l) /\ HooksStopAtFailure(l)
    /\ \A i \in At(l, "hook"), j \in At(l, "tool") :
          (l[i].status # "succeeded" /\ l[i].call = l[j].call) => l[j].status \in Consequence(l[i].status)
    /\ \A j \in At(l, "tool") : l[j].selection.accepted = "yes" =>
          HookOrder(l, l[j].selection.chain, Successful(l, l[j].call), j)

(* collectRequestDomain over the committed entries. *)
ConsumesInOrder(l, i, q, ch) == HookOrder(l, ch, RequestHookResults(l, q), i)
FailedBefore(l, q, i)   == \E j \in RequestHookResults(l, q) : j < i /\ l[j].status # "succeeded"
AnsweredBefore(l, q, i) == \E j \in At(l, "assistant") : j < i /\ l[j].request = q
RequestDomain(l) ==
    /\ \A i \in At(l, "hook") : l[i].request # 0 =>
          /\ ~AnsweredBefore(l, l[i].request, i)
          /\ ConsumesInOrder(l, i, l[i].request, l[i].chain)
    /\ \A i \in At(l, "assistant") :
          /\ l[i].request # 0
          /\ ~AnsweredBefore(l, l[i].request, i)
          /\ ~FailedBefore(l, l[i].request, i)
          /\ ConsumesInOrder(l, i, l[i].request, l[i].chain)
    /\ \A i \in At(l, "settlement") : l[i].evidence.accepted = "yes" =>
          ConsumesInOrder(l, i, l[i].request, l[i].evidence.chain)

(* validateOperationState: the register's own shape. *)
StateShape(op) ==
    /\ op.status # "running" => op.effect = NoEffect /\ op.pending = <<>> /\ op.request = NoRequest
    /\ op.effect.kind = "tool" =>
          /\ op.pending # <<>> /\ op.effect.call = Head(op.pending).call
          /\ op.effect.id = Head(op.pending).id
    /\ (op.effect.kind = "hook" /\ op.effect.call # NoCall) =>
          op.pending # <<>> /\ op.effect.call = Head(op.pending).call
    /\ (op.effect.kind = "model" \/ (op.effect.kind = "hook" /\ op.effect.request # 0)) =>
          op.request # NoRequest /\ op.request.id = op.effect.request

Reservation(a) == [call |-> a.call, id |-> a.id, publisher |-> a.publisher]
(* validatePendingCalls: the pending list is the unresolved published calls
   in publication order. *)
PendingExact(op, l) ==
    LET unresolved == {a \in PublishedCalls(l) : ~Resolved(l, a)}
    IN /\ \A a \in unresolved : \E n \in DOMAIN op.pending : op.pending[n] = Reservation(a)
       /\ \A n \in DOMAIN op.pending : \E a \in unresolved : op.pending[n] = Reservation(a)
       /\ \A m, n \in DOMAIN op.pending : \A a, b \in unresolved :
             (m < n /\ op.pending[m] = Reservation(a) /\ op.pending[n] = Reservation(b)) => Earlier(a, b)

(* validateOperation on the active effect, with collectRequestDomain's and
   validateEvidenceHookOrder's part in it. *)
EffectFresh(op, l) ==
    op.effect.kind \in {"model", "hook"} =>
        /\ \A a \in PublishedCalls(l) : a.id # op.effect.id
        /\ ~Committed(l, op.effect.id)
EffectContinuesCall(op, l) ==
    op.effect.call # NoCall =>
        /\ \A i \in At(l, "hook") : l[i].call = op.effect.call =>
              /\ l[i].status = "succeeded"
              /\ op.effect.kind = "hook" => l[i].hook # op.effect.hook
        /\ op.effect.kind = "tool" =>
              HookOrder(l, op.effect.chain, Successful(l, op.effect.call), Beyond(l))
EffectContinuesRequest(op, l) ==
    op.effect.request # 0 =>
        /\ ~AnsweredBefore(l, op.effect.request, Beyond(l))
        /\ ~FailedBefore(l, op.effect.request, Beyond(l))
        /\ \A i \in At(l, "hook") : l[i].request = op.effect.request =>
              (op.effect.kind = "hook" => l[i].hook # op.effect.hook)
        /\ op.effect.kind = "hook" => \A n \in DOMAIN op.effect.chain : op.effect.chain[n] # op.effect.hook
        /\ ConsumesInOrder(l, Beyond(l), op.effect.request, op.effect.chain)
RequestStateExact(op, l) ==
    op.request # NoRequest =>
        LET committed == RequestHookResults(l, op.request.id)
        IN /\ \A p \in committed : \E n \in DOMAIN op.request.results : op.request.results[n] = l[p].id
           /\ \A n \in DOMAIN op.request.results : \E p \in committed : op.request.results[n] = l[p].id
           /\ \A m, n \in DOMAIN op.request.results : \A p, r \in committed :
                 (m < n /\ op.request.results[m] = l[p].id /\ op.request.results[n] = l[r].id) => p < r

RunningValid(op, l) ==
    /\ PendingExact(op, l) /\ At(l, "settlement") = {}
    /\ EffectFresh(op, l) /\ EffectContinuesCall(op, l) /\ EffectContinuesRequest(op, l)
    /\ RequestStateExact(op, l)
TerminalValid(op, l) ==
    /\ \A a \in PublishedCalls(l) : Resolved(l, a)
    /\ \E i \in At(l, "settlement") : At(l, "settlement") = {i} /\ l[i].status = op.status

(* graphValidation.run. *)
Accepts(op, l) ==
    /\ StateShape(op) /\ EntriesShaped(l)
    /\ EntriesUnique(l) /\ ReservationsUnique(l) /\ ReservationsKept(l)
    /\ ResultsAnswer(l) /\ HookResultsValid(l) /\ RequestDomain(l)
    /\ IF op.status = "running" THEN RunningValid(op, l) ELSE TerminalValid(op, l)
=============================================================================
