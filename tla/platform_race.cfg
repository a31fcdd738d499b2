SPECIFICATION PlatformSpec
CONSTANTS
  Workers = {w1, w2}
  Visitors = {v1}
  Users = {alice, bob}
  Slugs = {hack}
  EventIds = {e1, e2}
  TeamSizes = {0, 4}
  Deadlines = {d1}
  Requested = {"registration_open", "submissions_open", "judging"}
  TeamIds = {t1}
  Names = {n1}
  Codes = {c1}
  None = None
SYMMETRY Symmetry
INVARIANTS
  TypeOK
  SlugUnique
  PublishedHasOrganizer
  NoStatusSkipped
  OrganizersDontTakePart
  OnlyPublishedEventsJoined
PROPERTIES
  OrphanStaysDraft
  SizeFrozenAfterRegistration
  FollowsLifecycle
