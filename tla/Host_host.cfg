CONSTANTS
  c1 = c1
  c2 = c2
  c3 = c3
  c4 = c4
  Calls = {c1, c2, c3}
  Addresses = {address}
  Services = {nginx}
  NoCall = NoCall
  MaxChanges = 1
  MaxCrashes = 1
SPECIFICATION Spec
CHECK_DEADLOCK FALSE
SYMMETRY AnyOrder
INVARIANTS
  HostTypeOK
  TextsAccountForRules
  RollbackFollowsBlock
  DownIsTold
