CONSTANTS
  m1 = m1
  m2 = m2
  o1 = o1
  o2 = o2
  SourceFlyer = SourceFlyer
  Markets = {m1, m2}
  Offers = {o1}
  Copies = 2
  MaxEdits = 1
  MaxDay = 1
  PartialNames = TRUE
  DeletesTargets = TRUE
  SweepsInThread = TRUE
  Crashes = TRUE
SPECIFICATION Spec
SYMMETRY Symmetry
CONSTRAINT FewFlyers
INVARIANTS TypeOK MirrorsMasters FollowsDates FollowsTargets JobsFollowFlyers ClonesAreConfirmed OneFlyerPerMarket
