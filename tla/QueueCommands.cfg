SPECIFICATION Spec
CONSTANTS
  k1 = k1
  k2 = k2
  r1 = r1
  r2 = r2
  r3 = r3
  c1 = c1
  c2 = c2
  a1 = a1
  l1 = l1
  l2 = l2
  Worker = {w1, w2}
  Request = {r1, r2, r3}
  Key = {k1, k2}
  Ask <- ThreeRequests
  Campaign = {c1}
  Actor = {a1}
  Lot = {l1}
  DepositOf <- ThreeDeposited
  Platform = p
  LimitSet = {2}
  NoExpectation = NoExpectation
  NoRequest = NoRequest
  NoKey = NoKey
  NoLot = NoLot
  MaxAttempts = 2
  BatchSize = 2
  MaxHalts = 1
  MaxFaults = 0
  MaxChanges = 0
SYMMETRY Symmetry
CHECK_DEADLOCK FALSE
INVARIANTS
  AcceptedMeansOwnTerms
  RecordMatchesLedger
  ExclusiveUntilLapse
PROPERTIES
  ImplementsAllocation
