SPECIFICATION TermsSpec
CONSTANTS
  DraftSet <- MCDraftSet
  LastDay = 2
CHECK_DEADLOCK FALSE
INVARIANTS
  ScheduleAddsUp
  AdvanceIsConsented
  SplitIsNearest
PROPERTIES
  StaysSatisfied
