SPECIFICATION Spec
CONSTANTS
  ArrangementId = {a1, a2}
  EvidenceId = {e1, e2, e3}
  Time = {0, 1, 2}
  Document = {"contract"}
  Terms <- MCTerms
  Rating <- MCRating
  Policy <- MCPolicy
  MaxInventory = 1
  MaxEvidence = 3
  None = None
SYMMETRY MCSymmetry
INVARIANTS
  TypeOK
  CompleteIsEvidenced
  TimeClosesNoGap
PROPERTIES
  SnapshotsMoveForward
  OnlyConflictsHeal
CHECK_DEADLOCK FALSE
