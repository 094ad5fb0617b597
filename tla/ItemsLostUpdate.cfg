CONSTANTS
  None = None
  Etl = Etl
  Webhook = Webhook
  alice = alice
  bob = bob
  t1 = t1
  t2 = t2
  p1 = p1
  linked = linked
  plain = plain
  Spaces = Spaces
  Blank = Blank
  Items = {1}
  Users = {alice, bob}
  Requests = {q1, q2, q3}
  Hooks = {}
  Authors = {q1, q2, q3, Etl}
  Titles = {t1, t2, Spaces, Blank}
  Bodies = {linked, plain}
  StaleReads = FALSE
  MaxSends = 5
  Faults = {}
  Calls <- OneItem
  PageLimit = 50
  Pulses = {p1}
  Notices <- Task
  Mentions <- MCMentions
  SearchesMaps = TRUE
  ScanLimit = 50
  Others = {0}
  Configured = TRUE
  Rows = {}

SPECIFICATION Spec
CHECK_DEADLOCK FALSE
INVARIANTS
  OnlyPresentFieldsChange
