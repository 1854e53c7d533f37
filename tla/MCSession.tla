----------------------------- MODULE MCSession -----------------------------
(* Instances of Session for TLC: callers are interchangeable goroutines. *)
EXTENDS Session, TLC

CallerSymmetry == Permutations(Caller)
=============================================================================
