------------------------------- MODULE MCWire -------------------------------
(* Instances of Wire for TLC: every operation invoked, with at most one
   member wrong; every operation requested by another client; every body
   drafted, wrong in up to two places; and two calls while connections break
   and the Runtime closes. *)
EXTENDS Wire

CONSTANTS c1, c2
All == DOMAIN Native!operationDescriptors
Quiet == [calls |-> {c1}, ops |-> All, modes |-> {}, keys |-> {"live", "stale"}, slips |-> FALSE,
          damages |-> {}, picks |-> {"text", "image_url", "opaque"},
          results |-> {"text", "image_url", "opaque"}, faults |-> FALSE,
          classes |-> {"ErrConflict"}]
Natural == [Quiet EXCEPT !.modes = {"invoke", "typed"}, !.slips = TRUE,
  !.classes = {"ErrInvalid", "ErrNotFound", "ErrConflict", "ErrClosed", "ErrCorrupt",
               "ErrConfiguration", "ErrStorage"}]
Foreign == [Quiet EXCEPT !.modes = {"raw"}]
Drafted == [Quiet EXCEPT !.modes = {"draft"}, !.results = {"text"}, !.classes = {},
  !.damages = {"missing", "null", "mistyped", "undeclared", "unknown", "respelled", "trailing"}]
Closing == [Quiet EXCEPT !.calls = {c1, c2}, !.modes = {"invoke"}, !.keys = {"live"},
  !.ops = {"SubmitSession", "RevertSessionCode", "InterruptSession"}, !.results = {"text"},
  !.faults = TRUE]
MCScopes == {Natural, Foreign, Drafted, Closing}
=============================================================================
