CONSTANTS
  Queries = {q1, q2}
  Keys = {k1, k2}
  Workers = {w1, w2}
  Pollers = {p1}
  Limit = 1
  Enforce = TRUE
SPECIFICATION FairSpec
CHECK_DEADLOCK FALSE
INVARIANTS
  SlotsAccounted
  CancelWins
PROPERTIES
  FinalIsFinal
  EveryQueryEnds
