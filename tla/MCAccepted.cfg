CONSTANTS
  Record <- TwoRecords
  Meta = {m1}
  Foreign = foreign
  Malformed = malformed
  Remote = {r1, r2}
  Mode <- AllModes
  Outgoing <- OneRecord
  MaxCommits = 2
  MaxMoves = 1
  MaxFaults = 1
SPECIFICATION Spec
SYMMETRY RemoteSymmetry
INVARIANT ServedExact
INVARIANT RetainedTrue
PROPERTY ConfirmedRetains
PROPERTY HandoffSealed
PROPERTY ConfirmedKept
PROPERTY CacheSurvives
