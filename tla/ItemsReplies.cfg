CONSTANTS
  None = None
  Etl = Etl
  Webhook = Webhook
  alice = alice
  bob = bob
  t1 = t1
  t2 = t2
  p1 = p1
  linked = linked
  plain = plain
  Spaces = Spaces
  Blank = Blank
  Items = {1, 2, 3}
  Users = {alice, bob}
  Requests = {q1, q2}
  Hooks = {h1}
  Authors = {q1, q2, h1, Etl}
  Titles = {t1, t2, Spaces, Blank}
  Bodies = {linked, plain}
  StaleReads = FALSE
  MaxSends = 2
  Faults = {"crash"}
  Calls <- EveryRoute
  PageLimit = 1
  Pulses = {p1}
  Notices <- AllNotices
  Mentions <- MCMentions
  SearchesMaps = TRUE
  ScanLimit = 3
  Others = {1}
  Configured = TRUE
  Rows <- SecondRow

SPECIFICATION FairSpec
CHECK_DEADLOCK FALSE
INVARIANTS
  SyncsAreComplete
  BlanksHaveACause
PROPERTIES
  EveryRequestReplies
  RegisterSpec
