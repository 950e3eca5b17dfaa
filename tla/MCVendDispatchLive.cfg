SPECIFICATION FairSpec
CONSTANTS
  c1 = c1
  c2 = c2
  k1 = k1
  h1 = h1
  h2 = h2
  h3 = h3
  t1 = t1
  t2 = t2
  Keys = {k1}
  Candidates = {c1}
  TxIds = {t1}
  NoTx = NoTx
  Handlers = {h1, h2}
  KeyOf <- OneKey
  Environments = {"PRODUCTION", "STAGING"}
  EnvOf <- AllProduction
  EnvironmentOf <- ProductionCandidates
  Preference <- Preferred
  MaxCrashes = 2
PROPERTIES
  NotStranded
