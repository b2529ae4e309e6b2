SPECIFICATION Spec
CONSTANTS
  Basis = {a1}
  FindingId = {f1}
  Person = {owner, reviewer}
  Reviewer = None
  OwnerMayRetest = FALSE
  Time = {1, 2}
  MaxFindings = 2
  MaxRemediations = 2
  MaxRetests = 1
  ObservationId = {o1, o2}
  Measurement <- MCOutcome
  Mtd = 2
  Rto = 1
  Rpo = 1
  MinLevel = 1
  MaxObservations = 2
  MaxInventory = 1
  MaxEvidence = 4
  None = None
SYMMETRY Interchangeable
INVARIANTS
  TypeOK
  CurrentDossierVerifies
  VerifiedClosureIsEarned
  HealthyIsMeasured
CHECK_DEADLOCK FALSE
