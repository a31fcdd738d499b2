SPECIFICATION Spec
CONSTANTS
  Requests = {r1, r2, r3, r4}
  Keys = {k1, k2}
  Limit = 2
  Window = 2
  Horizon = 4
  None = None
SYMMETRY Symmetry
PROPERTIES
  AdmittedWithinLimit
  RefusedAtLimit
