SPECIFICATION Spec
CONSTANTS
  EventId = {ev1}
  EventKind = {"RECOVERED"}
  ImpactId = {im1}
  Dimension = {"availability"}
  RequiredKinds = {}
  RequiredDimensions = {"availability"}
  Verdict = {"MAJOR", "NON_MAJOR", "UNDETERMINED"}
  EventTime = {4}
  ReviewTime = {1, 2, 3}
  Occurred = 0
  MaxInventory = 0
  MaxReviews = 1
  None = None
  Time = {3, 4, 6, 7}
  GovernanceTime = {3}
  Detected = 0
  ClassificationSpan = 2
  AwarenessSpan = 3
  IntermediateSpan = 1
  DayLength = 2
  MonthDays <- ShortMonths
  Key <- MainKeys
  AdjustableKey <- IntermediateKey
  RefusableKey <- NoKeys
  AckStatus = {"ACCEPTED", "TECHNICAL_ERROR"}
  MaxDecisions = 1
  MaxRoutes = 1
  MaxRevisions = 1
INVARIANTS
  CompleteIsEarned
  TimeOnlyWorsens
  MajorIsNeverIncomplete
CHECK_DEADLOCK FALSE
