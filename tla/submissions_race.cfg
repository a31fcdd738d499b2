SPECIFICATION Spec
CONSTANTS
  Workers = {w1, w2}
  Users = {alice, root}
  Teams = {red}
  Admins = {root}
  SubIds = {s1, s2}
  Texts = {t1, t2}
  Horizon = 2
  EventStatuses = {"submissions_open", "judging"}
  AuditInsertable = TRUE
  None = None
SYMMETRY Symmetry
INVARIANTS
  TypeOK
  OneSubmissionPerTeam
  SubmittedAtMatchesStatus
PROPERTIES
  DeadlineHolds
  LockedStaysLocked
  FollowsLifecycle
