SPECIFICATION Spec
CONSTANTS
  a = a
  b = b
  s = s
  t = t
  Nothing = Nothing
  Handler = {h1, h2}
  FirstAddress = first
  Address = {first, a, b}
  Link = {l1, l2, l3}
  FirstSecret = key
  Secret = {key, s, t}
  MAX_ATTEMPTS = 1
  ENROLMENT_MAX_ATTEMPTS = 1
  MaxRequests = 5
SYMMETRY Symmetry
CHECK_DEADLOCK FALSE
INVARIANTS
  GuessesBounded
  OneFactor
  LiveLinksCrossed
PROPERTIES
  LinkWorksOnce
