----------------------------- MODULE MCMaintenance -----------------------------
(* Instances of Maintenance for TLC: the accounts of up to two model plans
   under failures and losses; the summary strategy; any boundaries and
   retained messages over three rounds; and one call identity used by three
   Operations. *)
EXTENDS Maintenance

CONSTANT c1
Calm == [strategy |-> "any", kinds |-> {"message"}, batches |-> {<<>>, <<c1>>},
         reports |-> {"zero"}, ops |-> 1, rounds |-> 1, plans |-> 0, retain |-> 0,
         cancels |-> 0, faults |-> 0, crashes |-> 0]
Both == {"message", "compact"}
Accounts == [Calm EXCEPT !.kinds = Both, !.batches = {<<>>}, !.reports = {"absent", "some"},
                         !.rounds = 2, !.plans = 2, !.cancels = 1, !.faults = 1, !.crashes = 1]
Summary == [Calm EXCEPT !.strategy = "summary", !.kinds = Both, !.reports = {"zero", "some"},
                        !.ops = 2, !.rounds = 2, !.plans = 1, !.cancels = 2]
Cuts == [Calm EXCEPT !.rounds = 3, !.retain = 3, !.cancels = 1]
Reuse == [Calm EXCEPT !.batches = {<<c1>>}, !.ops = 3, !.retain = 2]
MCScopes == {Accounts, Summary, Cuts, Reuse}
=============================================================================
