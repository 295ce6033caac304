CONSTANTS
  Requests = {r1, r2}
  Uids = {alice}
  Keys = {1, 2, 3}
  Codes = {1, 2}
  Ids = {i1, i2, i3}
  None = None
  MaxCredentials = 2
  CeremonyTTL = 1
  Recent = 1
  MarkerTTL = 1
  RecoveryTTL = 1
  MaxTime = 1
SPECIFICATION Spec
SYMMETRY Symmetry
INVARIANTS RelationWhole SpentOnce
CHECK_DEADLOCK FALSE
