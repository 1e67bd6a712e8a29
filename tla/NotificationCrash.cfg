CONSTANTS
  alice = alice
  bob = bob
  w1 = w1
  w2 = w2
  Parent = Parent
  Flyers = {f1}
  Users = {alice}
  Workers = {w1}
  MaxAttempts = 2
  Limit = 1
  PoolSize = 1
  RetryTicks = 0
  TicksPerDay = 2
  NotificationTick = 1
  MaxNow = 3
  Windows <- OneWindow
  DirectPostgres = TRUE
  Postponable = FALSE
  Faults = FALSE
  Crashes = TRUE
SPECIFICATION FairSpec
PROPERTIES EveryJobSettles
