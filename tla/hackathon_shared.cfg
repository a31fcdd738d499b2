SPECIFICATION HackathonSpec
CONSTANTS
  Workers = {w1}
  Visitors = {v1, v2}
  Authors = {a1}
  Users = {alice, bob}
  Slugs = {hack}
  EventIds = {e1}
  Contest = e1
  TeamSizes = {4}
  Deadlines = {0, 1}
  Requested = {"registration_open", "submissions_open"}
  TeamIds = {t1}
  Names = {n1}
  Codes = {c1}
  Admins = {bob}
  SubIds = {s1}
  Texts = {x1}
  Horizon = 1
  AuditInsertable = TRUE
  None = None
INVARIANTS
  EntriesFollowEvent
  EntriesHaveAuthors
