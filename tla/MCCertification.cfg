SPECIFICATION Spec
CONSTANTS
  r1 = r1
  u1 = u1
  u2 = u2
  e1 = e1
  e2 = e2
  Runs = {r1}
  Users = {u1, u2}
  Editors = {e1, e2}
  Capabilities = {"vend.initiate"}
  FirstConnectors <- JustCreated
  None = None
INVARIANTS
  PassedIsThorough
PROPERTIES
  CertifiedAsTested
  ApprovesWhatWasTested
  VerdictStands
CHECK_DEADLOCK FALSE
SYMMETRY Interchangeable
