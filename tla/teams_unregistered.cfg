SPECIFICATION Spec
CONSTANTS
  Workers = {w1, w2}
  Users = {alice}
  EventIds = {e1}
  TeamIds = {t1, t2}
  Names = {n1, n2}
  Codes = {c1, c2}
  EventStatuses = {"registration_open", "submissions_open"}
  None = None
SYMMETRY Symmetry
INVARIANTS
  MembersAreRegistered
