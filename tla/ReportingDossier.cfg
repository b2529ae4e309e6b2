SPECIFICATION DossierSpec
CONSTANTS
  EventId = {ev1}
  EventKind = {"RECOVERED"}
  ImpactId = {im1}
  Dimension = {"availability"}
  RequiredKinds = {}
  RequiredDimensions = {"availability"}
  Verdict = {"MAJOR", "NON_MAJOR"}
  EventTime = {2}
  ReviewTime = {0}
  Occurred = 0
  MaxInventory = 0
  MaxReviews = 2
  None = None
  Time = {1, 2}
  GovernanceTime = {0, 1}
  Detected = 0
  ClassificationSpan = 1
  AwarenessSpan = 1
  IntermediateSpan = 1
  DayLength = 1
  MonthDays <- DayMonths
  Key <- MainKeys
  AdjustableKey <- InitialKey
  RefusableKey <- InitialKey
  AckStatus = {"TECHNICAL_ERROR"}
  MaxDecisions = 2
  MaxRoutes = 2
  MaxRevisions = 2
  MaxCorrected = 1
  MaxNotices = 1
  MaxDrift = 1
INVARIANTS
  CurrentReportingVerifies
  HealthyReportingIsEarned
CHECK_DEADLOCK FALSE
