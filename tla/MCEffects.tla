----------------------------- MODULE MCEffects -----------------------------
(* Instances of Effects for TLC: two rounds of up to two calls behind two
   argument hooks, and three rounds behind three request hooks. *)
EXTENDS Effects

CONSTANTS c1, c2
MCScopes ==
    {[argumentHooks |-> <<"pure", "effectful">>, requestHooks |-> <<>>,
      rounds |-> 2, calls |-> {c1, c2}, batch |-> 2],
     [argumentHooks |-> <<"effectful">>, requestHooks |-> <<"effectful", "pure", "effectful">>,
      rounds |-> 3, calls |-> {c1}, batch |-> 1]}
=============================================================================
