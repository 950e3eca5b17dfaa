SPECIFICATION FairSpec
CONSTANTS
  w1 = w1
  w2 = w2
  Keys = {k1}
  Candidates = {c1}
  TxIds = {t1}
  Workers = {w1, w2}
  Operators = {o1}
  Nobody = Nobody
  InFlight = {"ACCEPTED"}
  Final = {"FULFILLED"}
  EscalateAfter = 2
  MaxAttempts = 2
  MaxFlips = 1
  MaxCrashes = 1
INVARIANTS
  TypeOK
  ResolutionIsTrue
PROPERTIES
  NewerWorkerWins
  WritersAreFenced
  ResolvedOrEscalated
CHECK_DEADLOCK FALSE
