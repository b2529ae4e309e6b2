SPECIFICATION Spec
CONSTANTS
  Basis = {"execution"}
  FindingId = {f1}
  Person = {owner, reviewer}
  Reviewer = reviewer
  OwnerMayRetest = TRUE
  Time = {1, 2}
  MaxFindings = 2
  MaxRemediations = 2
  MaxRetests = 2
  RiskContent = {r1}
  PlanTime = {1}
  MaxInventory = 1
  None = None
INVARIANTS
  TypeOK
  ClosureIsIndependent
  SuccessIsEarned
PROPERTIES
  FindingsKeepThePromise
CHECK_DEADLOCK FALSE
