SPECIFICATION PEFairSpec
CONSTANTS
  Account <- MCAccount
  DebitNormal <- MCDebitNormal
  MayGoNegative <- MCMayGoNegative
  Movements <- MCMovements
  Source = {s1, s2, s3}
  Session = {t1, t2}
  MaxTries = 2
INVARIANTS
  Solvent
  SnapshotsExplainBalance
  ReportsAreEmpty
  NoDeadlock
PROPERTIES
  RefusalMeansNotPosted
  AtomicPosting
  CallsEnd
