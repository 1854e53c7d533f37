------------------------------- MODULE MCJobs -------------------------------
(* An instance of Jobs for TLC: two jobs of one Session. *)
EXTENDS Jobs

CONSTANTS j1, j2, t1, t2
SameOwner == [j \in Job |-> "session"]
=============================================================================
