CONSTANTS
  j1 = j1
  w1 = w1
  w2 = w2
  c1 = c1
  c2 = c2
  Jobs <- OneJob
  Kind <- KindC
  MaxRetries <- RetryNot
  Workers = {w1}
  Clients = {c1, c2}
  MaxRestarts = 0
  MaxSaveErrors = 0
SPECIFICATION Alone
PROPERTIES
  CancelIsHonoured
  EveryJobEnds
