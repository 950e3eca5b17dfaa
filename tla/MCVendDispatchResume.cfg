SPECIFICATION Spec
CONSTANTS
  c1 = c1
  c2 = c2
  k1 = k1
  h1 = h1
  h2 = h2
  h3 = h3
  t1 = t1
  t2 = t2
  Keys = {k1}
  Candidates = {c1, c2}
  TxIds = {t1, t2}
  NoTx = NoTx
  Handlers = {h1}
  KeyOf <- OneKey
  Environments = {"PRODUCTION", "STAGING"}
  EnvOf <- AllProduction
  EnvironmentOf <- ProductionCandidates
  Preference <- Preferred
  MaxCrashes = 1
INVARIANTS
  AmbiguousBecomesUnknown
