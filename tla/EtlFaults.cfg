CONSTANTS
  None = None
  k1 = k1
  k2 = k2
  k3 = k3
  c1 = c1
  c2 = c2
  alice = alice
  bob = bob
  Workers = {w1, w2}
  Deliveries = {d1, d2}
  Keys = {k1}
  Contents = {c1, c2}
  Files <- AnyFile
  Reports = {r1, r2, r3}
  Owners = {alice, bob}
  KeyOwner <- MCKeyOwner
  RowCount <- MCRowCount
  Unparseable = {}
  Rejected = {}
  MaxBatch = 1
  MaxAttempts = 2
  MaxDownloads = 1
  Faults = {"expire", "abort", "lostReply", "replay", "lag"}

SPECIFICATION Spec
SYMMETRY Symmetry
INVARIANTS
  TypeOK
  RowsOnceInOrder
PROPERTIES
  SealedReports
  SeenEtagFrozen
  LedgerSpec
