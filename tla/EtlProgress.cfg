CONSTANTS
  None = None
  k1 = k1
  k2 = k2
  k3 = k3
  c1 = c1
  c2 = c2
  alice = alice
  bob = bob
  Workers = {w1, w2}
  Deliveries = {d1, d2}
  Keys = {k1, k2, k3}
  Contents = {c1, c2}
  Files <- OneForEach
  Reports = {r1, r2}
  Owners = {alice, bob}
  KeyOwner <- MCKeyOwner
  RowCount <- MCRowCount
  Unparseable = {c2}
  Rejected = {k3}
  MaxBatch = 2
  MaxAttempts = 2
  MaxDownloads = 2
  Faults = {"download"}

SPECIFICATION FairSpec
INVARIANTS
  AckedIsIngested
PROPERTIES
  EveryDeliverySettles
  SettlingIsBounded
