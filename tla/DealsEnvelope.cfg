SPECIFICATION Spec
CONSTANTS
  d1 = d1
  d2 = d2
  advance = advance
  rest = rest
  whole = whole
  Deal = {d1, d2}
  Milestone = {advance, rest, whole}
  DealOf <- MCDealOf
  Amount <- MCAmount
  Request = {r1, r2, r3}
  CeilingSet = {2, 3}
  MaxCrashes = 1
  MaxDoubts = 2
SYMMETRY Symmetry
INVARIANTS
  DealsTypeOK
  EnvelopeCovers
