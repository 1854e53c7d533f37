------------------------------- MODULE Ledger -------------------------------
(***************************************************************************)
(* What an Operation promises about its tool calls to whoever reads the    *)
(* Session later: a published call waits its turn, its executor acts only  *)
(* while it is the oldest unanswered one, it is answered exactly once, the *)
(* answer never says "not started" of an action that happened, and a       *)
(* closed Operation leaves nothing unanswered and nothing acting.          *)
(***************************************************************************)
EXTENDS Naturals, Sequences

CONSTANT Call

VARIABLES
    phase,     \* "open", or "closed" once the Operation is terminal
    waiting,   \* the published calls without an answer, in publication order
    verdict,   \* what the log says of each call's execution
    acted      \* the calls whose executor acted on the outside world

vars == <<phase, waiting, verdict, acted>>

Knowledge == {"not_started", "observed", "unknown"}
Verdicts  == Knowledge \cup {"none"}
Waits(c)  == \E i \in DOMAIN waiting : waiting[i] = c

(* An answer's truth: only an executor that did not act is "not started". *)
Truthful(c, k) == k = "not_started" => c \notin acted

Init ==
    /\ phase = "open" /\ waiting = <<>> /\ acted = {}
    /\ verdict = [c \in Call |-> "none"]

(* New calls are published only when none is waiting. *)
Publish ==
    /\ phase = "open" /\ waiting = <<>>
    /\ waiting' \in Seq(Call) \ {<<>>}
    /\ \A i, j \in DOMAIN waiting' : waiting'[i] = waiting'[j] => i = j
    /\ \A i \in DOMAIN waiting' : verdict[waiting'[i]] = "none"
    /\ UNCHANGED <<phase, verdict, acted>>

Act ==
    /\ phase = "open" /\ waiting # <<>>
    /\ acted' = acted \cup {Head(waiting)}
    /\ UNCHANGED <<phase, waiting, verdict>>

Answer ==
    /\ phase = "open" /\ waiting # <<>>
    /\ \E k \in Knowledge :
          /\ Truthful(Head(waiting), k)
          /\ verdict' = [verdict EXCEPT ![Head(waiting)] = k]
    /\ waiting' = Tail(waiting)
    /\ UNCHANGED <<phase, acted>>

(* The terminal settlement answers every waiting call at once. *)
Close ==
    /\ phase = "open" /\ phase' = "closed" /\ waiting' = <<>>
    /\ verdict' \in [Call -> Verdicts]
    /\ \A c \in Call :
          IF Waits(c) THEN verdict'[c] # "none" /\ Truthful(c, verdict'[c])
          ELSE verdict'[c] = verdict[c]
    /\ UNCHANGED acted

Next == Publish \/ Act \/ Answer \/ Close
Spec == Init /\ [][Next]_vars
=============================================================================
