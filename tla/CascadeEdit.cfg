SPECIFICATION EditSpec
CONSTANTS
  Keys = {k1}
  MaxMoved = 2
  MaxPoints = 3
  Stale = 1
  Retention = 2
  None = None
  Unfit = Unfit
  MaxRequests = 2
  EditKinds <- Cascades
  Hashes = {h1, h2}
  Nil = Nil
  Clerks = {c1, c2}
  MayRace = FALSE
  MaxActs = 5
INVARIANT
  EditKeepsRest
