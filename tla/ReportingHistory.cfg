SPECIFICATION Spec
CONSTANTS
  EventId = {ev1}
  EventKind = {"RECOVERED"}
  ImpactId = {im1}
  Dimension = {"availability"}
  RequiredKinds = {}
  RequiredDimensions = {"availability"}
  Verdict = {"MAJOR", "NON_MAJOR"}
  EventTime = {1}
  ReviewTime = {0}
  Occurred = 0
  MaxInventory = 0
  MaxReviews = 2
  None = None
  Time = {0, 1}
  GovernanceTime = {0, 1}
  Detected = 0
  ClassificationSpan = 1
  AwarenessSpan = 1
  IntermediateSpan = 1
  DayLength = 1
  MonthDays <- DayMonths
  Key <- ReclassificationKeys
  AdjustableKey <- NoKeys
  RefusableKey <- InitialKey
  AckStatus = {}
  MaxDecisions = 2
  MaxRoutes = 2
  MaxRevisions = 2
INVARIANTS
  TypeOK
  HistoryAdvances
  PackagesAreJustified
  ReportsFollowSubmissions
CHECK_DEADLOCK FALSE
