SPECIFICATION Spec
CONSTANTS
  u1 = u1
  u2 = u2
  h1 = h1
  h2 = h2
  r1 = r1
  r2 = r2
  w1 = w1
  w2 = w2
  TxIds = {t1}
  Total <- TwoUnits
  RefundIds = {r1, r2}
  Amounts = {1, 2}
  Requesters = {u1}
  Approvers = {u2}
  Nobody = Nobody
  NoRefund = NoRefund
  Handlers = {h1}
  UserOf <- ApprovedByU2
  Workers = {w1, w2}
  Final = {"FAILED"}
  LateVends = {"ACCEPTED"}
  MaxClaims = 2
  MaxLapses = 0
  MaxCrashes = 1
INVARIANTS
  TypeOK
  RefundedIsPaid
  UnpaidIsHeld
PROPERTIES
  FinalOutcomeStays
SYMMETRY Interchangeable
CHECK_DEADLOCK FALSE
