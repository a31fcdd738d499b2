SPECIFICATION Spec
CONSTANTS
  Workers = {w1, w2}
  Users = {alice}
  Jtis = {j1, j2, j3}
  Horizon = 2
  AccessTTL = 2
  RefreshTTL = 1
  None = None
SYMMETRY Symmetry
INVARIANTS
  LiveIsNewest
  EndedStaysEnded
  LoggedOutIsBlacklisted
PROPERTIES
  LoggedOutIsRefused
