SPECIFICATION Spec
CONSTANTS
  Entity = {e1, e2}
  Document <- MCDocument
  Policy <- MCPolicy
  None = None
  PolicyId = {p1}
  SnapshotId = {s1}
  Time = {1, 2, 3}
  MaxDossiers = 2
  MaxVersions = 2
  MaxSequence = 2
SYMMETRY EntitySymmetry
INVARIANTS
  SeriesMoveForward
  CurrentIsReproducible
  BuiltIsAccepted
  StatesAreEarned
PROPERTIES
  StaleStaysStale
CHECK_DEADLOCK FALSE
