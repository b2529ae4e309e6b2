SPECIFICATION Spec
CONSTANTS
  EventId = {ev1}
  EventKind = {"RECOVERED"}
  ImpactId = {im1}
  Dimension = {"availability"}
  RequiredKinds = {}
  RequiredDimensions = {"availability"}
  Verdict = {"MAJOR", "NON_MAJOR"}
  EventTime = {1}
  ReviewTime = {0}
  Occurred = 0
  MaxInventory = 0
  MaxReviews = 1
  None = None
  Time = {0, 1}
  GovernanceTime = {0}
  Detected = 0
  ClassificationSpan = 1
  AwarenessSpan = 1
  IntermediateSpan = 1
  DayLength = 1
  MonthDays <- DayMonths
  Key <- UpdateKeys
  AdjustableKey <- NoKeys
  RefusableKey <- NoKeys
  AckStatus = {}
  MaxDecisions = 1
  MaxRoutes = 1
  MaxRevisions = 1
INVARIANTS
  RecoveryUpdateCanBeRegistered
CHECK_DEADLOCK FALSE
