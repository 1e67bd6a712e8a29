CONSTANTS
  OfferIds = {1, 2, 3, 4}
  Shops = {1, 2}
  Catalogs <- SearchCatalogs
  Areas <- SearchAreas
  PageSize = 2
  RowLimit = 4
  LastDay = 2
  Infinite = 9
SPECIFICATION SearchSpec
CHECK_DEADLOCK FALSE
INVARIANT NearestTarget
