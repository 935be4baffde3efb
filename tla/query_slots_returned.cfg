CONSTANTS
  Queries = {q1, q2}
  Keys = {k1, k2}
  Workers = {w1}
  Pollers = {}
  Limit = 2
  Enforce = TRUE
SPECIFICATION Spec
CHECK_DEADLOCK FALSE
INVARIANTS
  SlotsReturned
