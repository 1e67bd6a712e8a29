CONSTANTS
  alice = alice
  bob = bob
  i1 = i1
  i2 = i2
  Nobody = Nobody
  NoOffer = NoOffer
  Users = {alice}
  Items = {i1, i2}
  Offers = {o1}
  MaxRows = 2
  MaxDay = 1
  Failures = FALSE
SPECIFICATION Spec
PROPERTIES CleanupRemovesOnlyOld
