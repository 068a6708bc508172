SPECIFICATION ScreenSpec
CONSTANTS
  d1 = d1
  d2 = d2
  finance = finance
  Deliverable = {d1, d2}
  Condition <- MCCondition
  Amount <- MCAmount
  Reviewer = {finance}
  Limit <- MCLimit
  Call = {q1, q2, q3}
  Elsewhere = {q1, q2, q3}
  Me = finance
  BULK_CONCURRENCY = 1
  Asserted = {NoAssertion, 0, 2}
  NoAssertion = NoAssertion
  Nothing = Nothing
  LastDay = 0
CHECK_DEADLOCK FALSE
INVARIANTS
  ScreenTypeOK
  LaneIsTruthful
PROPERTIES
  ApprovedAsShown
  BatchEnds
