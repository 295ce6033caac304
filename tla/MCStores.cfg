SPECIFICATION MCSpec
CONSTANTS
  Conns = {n1, n2, n3}
  Limit = 2
  ConnTimeout = 2
  MaxTime = 4
  None = None
  TrialCallers = {c1, c2}
  Trials = {t1, t2}
  NoTrial = NoTrial
  TrialCapacity = 1
  TrialTTL = 1
  TrialTime = 2
  LeaseCallers = {1, 2}
  Scopes = {1}
  Queries = {"q", "r"}
  Sources = {"model", "declared", "ambient"}
  Nonces = {1, 2, 3}
  MaxTTL = 1
  IssuanceTTL = 2
  LeaseCapacity = 3
  LeaseTime = 2
  Workers = {w1, w2}
  Senders = {s1}
  QueueCapacity = 1
  Capabilities = {k1}
  MaxGeneration = 3
SYMMETRY Symmetry
CHECK_DEADLOCK FALSE
INVARIANTS LeaseIsHolders OverlapOnlyPastTTL PreparedIsOwn ToldStands OneLookupPerGrant RecordOfConsent SingleUse
