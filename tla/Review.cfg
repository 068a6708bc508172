SPECIFICATION Spec
CONSTANTS
  d1 = d1
  d2 = d2
  reviewer = reviewer
  finance = finance
  Deliverable = {d1, d2}
  Condition <- MCCondition
  Amount <- MCAmount
  Reviewer = {reviewer, finance}
  Limit <- MCLimit
  Call = {q1, q2, q3, q4}
  Asserted = {NoAssertion, 0}
  NoAssertion = NoAssertion
  LastDay = 1
SYMMETRY Symmetry
CHECK_DEADLOCK FALSE
INVARIANTS
  CountsOnce
  ApprovalNotSuperseded
PROPERTIES
  OnlyUndoTakesBack
  WeighedAsSatisfied
