SPECIFICATION Spec
CONSTANTS
  Workers = {w1, w2}
  Users = {alice}
  Slugs = {acme}
  EventIds = {e1}
  TeamSizes = {4}
  Deadlines = {jan}
  Requested <- AllStatuses
  None = None
  w1 = w1  w2 = w2  alice = alice  bob = bob  e1 = e1  e2 = e2
  acme = acme  globex = globex  jan = jan  feb = feb
PROPERTIES
  NoStatusRegression
