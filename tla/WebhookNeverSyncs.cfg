CONSTANTS
  None = None
  Etl = Etl
  Webhook = Webhook
  alice = alice
  bob = bob
  t1 = t1
  t2 = t2
  p1 = p1
  linked = linked
  plain = plain
  Spaces = Spaces
  Blank = Blank
  Items = {1}
  Users = {alice, bob}
  Requests = {}
  Hooks = {h1}
  Authors = {h1, Etl}
  Titles = {t1, t2, Spaces, Blank}
  Bodies = {linked, plain}
  StaleReads = FALSE
  MaxSends = 5
  Faults = {}
  Calls = {}
  PageLimit = 2
  Pulses = {p1}
  Notices <- Task
  Mentions <- MCMentions
  SearchesMaps = FALSE
  ScanLimit = 50
  Others = {0}
  Configured = TRUE
  Rows <- FirstRow

SPECIFICATION Spec
CHECK_DEADLOCK FALSE
PROPERTIES
  NoticesReachTheirItems
