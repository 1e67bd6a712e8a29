CONSTANTS
  p1 = p1
  p2 = p2
  p3 = p3
  Pdf = TRUE
  Chunks = 2
  Products = {p1, p3}
  Valid = {p1}
  Answers <- Mixed
  MaxRuns = 3
  MaxDates = 0
  Failures = FALSE
  Restarts = TRUE
  SlowProvider = TRUE
  EagerRequests = TRUE
SPECIFICATION FairSpec
INVARIANTS ExtractionInv DoneIsComplete OneLiveRun
PROPERTIES Settles
CHECK_DEADLOCK FALSE
