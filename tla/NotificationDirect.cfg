CONSTANTS
  alice = alice
  bob = bob
  w1 = w1
  w2 = w2
  Parent = Parent
  Flyers = {f1}
  Users = {alice}
  Workers = {w1, w2}
  MaxAttempts = 2
  Limit = 2
  PoolSize = 2
  RetryTicks = 1
  TicksPerDay = 2
  NotificationTick = 1
  MaxNow = 4
  Windows <- MCWindows
  DirectPostgres = TRUE
  Postponable = TRUE
  Faults = TRUE
  Crashes = TRUE
SPECIFICATION Spec
SYMMETRY Symmetry
INVARIANTS ClaimExclusive NoDuplicateDelivery NothingBeforeTen QueueInv
PROPERTIES SettledForever PromiseKept
