SPECIFICATION BrowserSpec
CONSTANTS
  Workers = {w1}
  Users = {alice}
  Jtis = {j1, j2, j3}
  Horizon = 3
  AccessTTL = 2
  RefreshTTL = 3
  None = None
INVARIANTS
  ReloadRestoresSession
