---------------------------- MODULE MCBackground ----------------------------
(* Instances of Background for TLC: a child with a job, and a caller of its
   own or a fault; two children of one root, with two stops or with a
   fault; fair, with two stops on a Harness that may be lost, a child with
   a job and a child with a caller and a fault; and a child alone with its
   caller. *)
EXTENDS Background

CONSTANTS c1, c2, j1
ChildOwner == [j \in Job |-> c1]
Descent   == [members |-> {c1, j1}, callers |-> {c1}, fair |-> FALSE, loses |-> FALSE, submits |-> 1, stops |-> 1, faults |-> 0]
Failing   == [members |-> {c1, j1}, callers |-> {}, fair |-> FALSE, loses |-> FALSE, submits |-> 0, stops |-> 2, faults |-> 1]
Pair      == [members |-> {c1, c2}, callers |-> {}, fair |-> FALSE, loses |-> FALSE, submits |-> 0, stops |-> 2, faults |-> 0]
Torn      == [members |-> {c1, c2}, callers |-> {}, fair |-> FALSE, loses |-> FALSE, submits |-> 0, stops |-> 1, faults |-> 1]
Losing    == [members |-> {c1, j1}, callers |-> {}, fair |-> TRUE, loses |-> TRUE, submits |-> 0, stops |-> 2, faults |-> 0]
Calling   == [members |-> {c1}, callers |-> {c1}, fair |-> TRUE, loses |-> TRUE, submits |-> 1, stops |-> 2, faults |-> 1]
Alone     == [members |-> {c1}, callers |-> {c1}, fair |-> FALSE, loses |-> FALSE, submits |-> 1, stops |-> 1, faults |-> 0]
MCCasts   == {Descent, Failing, Pair, Torn, Losing, Calling}
OnlyAlone == {Alone}
=============================================================================
