CONSTANTS
  j1 = j1
  w1 = w1
  w2 = w2
  c1 = c1
  c2 = c2
  Jobs <- OneJob
  Kind <- KindC
  MaxRetries <- RetryOne
  Workers = {w1, w2}
  Clients = {c1, c2}
  MaxRestarts = 1
  MaxSaveErrors = 1
SPECIFICATION Races
SYMMETRY ThreadSymmetry
INVARIANTS
  NoOrphan
  WorkIsSound
  TableNeverContradicts
PROPERTIES
  ResultIsFinal
  ImplementsLifecycle
