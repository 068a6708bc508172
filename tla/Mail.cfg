SPECIFICATION FairSpec
CONSTANTS
  a1 = a1
  a2 = a2
  e1 = e1
  e2 = e2
  p1 = p1
  p2 = p2
  j1 = j1
  Address = {a1, a2}
  Event = {e1, e2}
  Kind <- BounceKind
  To <- BounceTo
  Poller = {p1, p2}
  BatchLimit = 2
  Job = {j1}
  Recipient <- MCRecipient
  Intent <- MCIntent
  LooksUp = {j1}
  Attempts = 2
  MaxCrashes = 1
  MaxLifts = 1
CHECK_DEADLOCK FALSE
INVARIANTS
  ProcessedIsListed
  OneMailPerIntent
PROPERTIES
  FirstReasonStays
  NoMailToListed
  MailSettles
