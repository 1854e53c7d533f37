SPECIFICATION Spec
CONSTANTS
  c1 = c1
  c2 = c2
  Calls = {c1, c2}
  MaxFlaws = 2
  Scopes <- MCScopes
INVARIANTS RunsAsAsked AnswersReadBack BoundaryAgrees
PROPERTIES CloseHolds Ends
CHECK_DEADLOCK FALSE
