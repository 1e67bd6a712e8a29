CONSTANTS
  p1 = p1
  p2 = p2
  p3 = p3
  Pdf = TRUE
  Chunks = 2
  Products = {p1, p2}
  Valid = {p1, p2}
  Answers <- TwoDistinct
  MaxRuns = 2
  MaxDates = 0
  Failures = FALSE
  Restarts = FALSE
  SlowProvider = TRUE
  EagerRequests = FALSE
SPECIFICATION Spec
PROPERTIES DoneStays
CHECK_DEADLOCK FALSE
