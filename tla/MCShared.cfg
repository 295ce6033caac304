SPECIFICATION Spec
CONSTANTS
  prep = prep
  own = own
  twin = twin
  other = other
  alice = alice
  bob = bob
  Preparers = {prep}
  Turns = {own, twin, other}
  Uids = {alice, bob}
  UidOf <- MCUidOf
  Cap = 1
  Subs = {own, twin}
  MaxFlights = 2
  Whole = 2
  Room = 2
  None = None
  Observed = {first, second, third}
  QueueCapacity = 1
SYMMETRY Symmetry
CHECK_DEADLOCK FALSE
INVARIANTS PoolHolds FlightServes NothingHeldAfterClose
