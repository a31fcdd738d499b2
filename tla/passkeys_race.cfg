SPECIFICATION Spec
CONSTANTS
  Workers = {w1, w2}
  Users = {alice, bob}
  Keys = {k1}
  SessionIds = {s1, s2, s3}
  MaxCount = 2
  None = None
SYMMETRY Symmetry
INVARIANTS
  AcceptedIsOwned
PROPERTIES
  SpentStaysSpent
  CountSettles
  WarningSettles
