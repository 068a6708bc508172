SPECIFICATION FairSpec
CONSTANTS
  k1 = k1
  k2 = k2
  r1 = r1
  r2 = r2
  r3 = r3
  c1 = c1
  c2 = c2
  a1 = a1
  l1 = l1
  l2 = l2
  Worker = {w1, w2}
  Request = {r1}
  Key = {k1}
  Ask <- OneCommand
  Campaign = {c1}
  Actor = {a1}
  Lot = {l1, l2}
  DepositOf <- ThreeDeposited
  Platform = p
  LimitSet = {0, 1, 2}
  NoExpectation = NoExpectation
  NoRequest = NoRequest
  NoKey = NoKey
  NoLot = NoLot
  MaxAttempts = 2
  BatchSize = 1
  MaxHalts = 1
  MaxFaults = 1
  MaxChanges = 1
CHECK_DEADLOCK FALSE
PROPERTIES
  PostsOnFreshGrounds
  EventuallySettled
