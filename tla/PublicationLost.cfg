CONSTANTS
  m1 = m1
  m2 = m2
  o1 = o1
  o2 = o2
  SourceFlyer = SourceFlyer
  Markets = {m1}
  Offers = {o1}
  Copies = 2
  MaxEdits = 0
  MaxDay = 0
  PartialNames = FALSE
  DeletesTargets = FALSE
  SweepsInThread = FALSE
  Crashes = TRUE
SPECIFICATION Spec
INVARIANTS EveryPublicationEnqueued
