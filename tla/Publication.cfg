SPECIFICATION FairSpec
CONSTANTS
  Commit = {1, 2}
  Workflow = {w1, w2}
  TagsAreProtected = TRUE
  Skip = Skip
  None = None
INVARIANTS
  TypeOK
  ReleaseIsOfATestedCommit
PROPERTIES
  ReleasedAtTheCandidate
  KeepsThePromise
  UndisturbedRunPublishes
