SPECIFICATION Spec
CONSTANTS
  Workers = {w1, w2}
  Users = {alice, root}
  Teams = {red}
  Admins = {root}
  SubIds = {s1}
  Texts = {t1, t2}
  Horizon = 1
  EventStatuses = {"submissions_open", "judging"}
  AuditInsertable = TRUE
  None = None
SYMMETRY Symmetry
PROPERTIES
  SubmittedIsLocked
