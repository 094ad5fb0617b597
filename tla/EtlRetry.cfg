CONSTANTS
  None = None
  k1 = k1
  k2 = k2
  k3 = k3
  c1 = c1
  c2 = c2
  alice = alice
  bob = bob
  Workers = {w1}
  Deliveries = {d1}
  Keys = {k1}
  Contents = {c1}
  Files <- AnyFile
  Reports = {r1}
  Owners = {alice, bob}
  KeyOwner <- MCKeyOwner
  RowCount <- MCRowCount
  Unparseable = {}
  Rejected = {}
  MaxBatch = 1
  MaxAttempts = 3
  MaxDownloads = 3
  Faults = {"abort"}

SPECIFICATION Spec
INVARIANTS
  RetryCompletes
