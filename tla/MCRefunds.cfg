SPECIFICATION Spec
CONSTANTS
  u1 = u1
  u2 = u2
  h1 = h1
  h2 = h2
  r1 = r1
  r2 = r2
  w1 = w1
  w2 = w2
  TxIds = {t1}
  Total <- TwoUnits
  RefundIds = {r1, r2}
  Amounts = {1, 2}
  Requesters = {u1, u2}
  Approvers = {u2}
  Nobody = Nobody
  NoRefund = NoRefund
  Handlers = {h1, h2}
  UserOf <- ApprovedByU2
  Workers = {}
  Final = {"FAILED"}
  LateVends = {}
  MaxClaims = 1
  MaxLapses = 1
  MaxCrashes = 1
INVARIANTS
  ReservationHolds
  NotOverpaid
  TwoPersons
PROPERTIES
  LedgerIsKept
  NoResubmission
SYMMETRY Interchangeable
CHECK_DEADLOCK FALSE
