CONSTANTS
  alice = alice
  bob = bob
  i1 = i1
  i2 = i2
  d1 = d1
  d2 = d2
  f1 = f1
  f2 = f2
  b1 = b1
  b2 = b2
  e1 = e1
  e2 = e2
  Nobody = Nobody
  NoOffer = NoOffer
  Users = {alice, bob}
  Items = {i1, i2}
  Offers = {o1}
  MaxRows = 2
  MaxDay = 1
  Failures = TRUE
  Lists = {l1, l2}
  Followed = l1
  MaxChanges = 3
  Pins = {n1, n2}
  Deals = {d1, d2}
  NoDeal = NoDeal
  StoreOf <- DealStores
  Viewers = {v1, v2}
  Paths = {f1, f2}
  Contents = {c1, c2}
  Mismatched = {}
  TooLarge = {c2}
  Branches = {b1, b2}
  Source = Source
  MaxSources = 2
  PageCount = 3
  ChunkSize = 2
  MinSiblings = 2
  MaxSparse = 1
  Found <- FoundProducts
  MaxFound = 3
  MaxAgain = 2
  MaxTries = 2
  OfferIds = {1, 2, 3, 4}
  Shops = {1, 2}
  Catalogs <- SearchCatalogs
  Areas <- SearchAreas
  PageSize = 2
  RowLimit = 3
  LastDay = 2
  Infinite = 9
  Accounts = {u1, u2}
  Devices = {e1, e2}
  NoAccount = NoAccount
SPECIFICATION PartsSpec
SYMMETRY Symmetry
CONSTRAINTS FewFiles FewExcused PlainSweeps NotMoved
CHECK_DEADLOCK FALSE
INVARIANTS PurchasedHasRow SpendingMatchesList FollowsTheList ViewMatchesFreshness OneSourcePerTarget FilesAreKept OneRowPerProduct NothingFoundIsLost PagesCoverSearch OneOwnerPerDevice LiveDevicesKeepRows
PROPERTIES HistoryKept ClearsOnlyStale
