CONSTANTS
  None = None
  Etl = Etl
  Webhook = Webhook
  alice = alice
  bob = bob
  t1 = t1
  t2 = t2
  p1 = p1
  linked = linked
  plain = plain
  Spaces = Spaces
  Blank = Blank
  Items = {1}
  Users = {alice, bob}
  Requests = {q1}
  Hooks = {h1, h2}
  Authors = {q1, h1, h2, Etl}
  Titles = {t1, t2, Spaces, Blank}
  Bodies = {linked, plain}
  StaleReads = TRUE
  MaxSends = 2
  Faults = {"crash", "replay"}
  Calls <- OneItem
  PageLimit = 2
  Pulses = {p1}
  Notices <- Task
  Mentions <- MCMentions
  SearchesMaps = TRUE
  ScanLimit = 3
  Others = {0}
  Configured = TRUE
  Rows <- FirstRow

SPECIFICATION Spec
CHECK_DEADLOCK FALSE
SYMMETRY Symmetry
INVARIANTS
  TypeOK
  IndexFollowsStatus
  OwnersOnly
  FreshUpdatesMerge
  AuditMatchesWrites
  SyncsAreComplete
PROPERTIES
  RepliesDrawNear
