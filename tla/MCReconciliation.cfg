SPECIFICATION Spec
CONSTANTS
  t1 = t1
  t2 = t2
  s1 = s1
  h1 = h1
  h2 = h2
  c1 = c1
  c2 = c2
  Transactions = {t1, t2}
  References = {"P1"}
  ReferenceOf <- SharedReference
  Settlements = {s1}
  Reports <- CompleteOrOpen
  Syncs = {h1, h2}
  Outcomes = {"failed", "whole"}
  MaxTime = 1
  Nothing = Nothing
  Calls = {c1, c2}
  Graces = {0, 1}
  Principals <- OwnerAndAdministrator
  MaxStarts = 2
SYMMETRY Interchangeable
CHECK_DEADLOCK FALSE
INVARIANTS
  TypeOK
  SettledAsReported
  SettledIsFree
PROPERTIES
  HeldIsNotSettled
  ClosedOnlyOnChange
  NothingMissed
