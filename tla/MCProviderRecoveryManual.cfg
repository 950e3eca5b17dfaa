SPECIFICATION FairSpec
CONSTANTS
  w1 = w1
  w2 = w2
  Keys = {k1}
  Candidates = {c1}
  TxIds = {t1}
  Workers = {w1}
  Operators = {o1}
  Nobody = Nobody
  InFlight = {"ACCEPTED"}
  Final = {"FULFILLED", "FAILED"}
  EscalateAfter = 2
  MaxAttempts = 2
  MaxFlips = 0
  MaxCrashes = 0
PROPERTIES
  NonterminalScheduled
CHECK_DEADLOCK FALSE
