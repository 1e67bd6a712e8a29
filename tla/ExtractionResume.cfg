CONSTANTS
  p1 = p1
  p2 = p2
  p3 = p3
  Pdf = TRUE
  Chunks = 3
  Products = {p1, p2, p3}
  Valid = {p1, p2, p3}
  Answers <- Distinct
  MaxRuns = 5
  MaxDates = 1
  Failures = TRUE
  Restarts = TRUE
  SlowProvider = TRUE
  EagerRequests = TRUE
SPECIFICATION Spec
INVARIANTS CountsOffers
PROPERTIES DoneUnlessOvertaken ResumesAfterCheckpoint
CONSTRAINT NotOvertaken
CHECK_DEADLOCK FALSE
