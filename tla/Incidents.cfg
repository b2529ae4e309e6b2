SPECIFICATION IncidentsSpec
CONSTANTS
  EventId = {ev1, ev2}
  EventKind = {"recovered", "notification_decision"}
  ImpactId = {im1, im2}
  Dimension = {"availability", "data"}
  RequiredKinds = {"notification_decision"}
  RequiredDimensions = {"availability"}
  Verdict = {"MAJOR", "NON_MAJOR"}
  EventTime = {0, 1}
  ReviewTime = {1}
  Occurred = 1
  MaxInventory = 1
  MaxReviews = 2
  None = None
INVARIANTS
  ReviewsStandOnCompleteEvidence
PROPERTIES
  StaleReviewStaysStale
