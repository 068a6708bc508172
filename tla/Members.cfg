SPECIFICATION Spec
CONSTANTS
  ann = ann
  ben = ben
  cleo = cleo
  new = new
  cleos = cleos
  Nobody = Nobody
  User = {ann, ben, cleo}
  FirstRole <- MCFirstRole
  Trusted = {ann, ben, cleo}
  Address = {new, cleos}
  AddressOf <- MCAddressOf
  Call = {q1, q2, q3}
SYMMETRY Symmetry
CHECK_DEADLOCK FALSE
INVARIANTS
  OneInvitation
PROPERTIES
  OwnerRemains
  DemotionTakesAll
  RankRespected
