CONSTANTS
  None = None
  alice = alice
  bob = bob
  Threads = {c1, c2}
  Users = {alice, bob}
  Tokens <- MCTokens
  TTL = 1
  MaxTime = 1
  MaxKey = 2
  Uploads = {u1}
  Contents = {x}
  Expiry = 1

SPECIFICATION Spec
SYMMETRY ThreadSymmetry
INVARIANTS
  TypeOK
  WithdrawnKeysExpire
  RefusalsHaveACause
  UploadsAudited
PROPERTIES
  VerdictsDrawNear
