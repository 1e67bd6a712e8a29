CONSTANTS
  alice = alice
  bob = bob
  w1 = w1
  w2 = w2
  Parent = Parent
  Flyers = {f1}
  Users = {alice}
  Workers = {w1, w2}
  MaxAttempts = 2
  Limit = 2
  PoolSize = 2
  RetryTicks = 0
  TicksPerDay = 2
  NotificationTick = 1
  MaxNow = 3
  Windows <- OneWindow
  DirectPostgres = FALSE
  Postponable = FALSE
  Faults = TRUE
  Crashes = FALSE
SPECIFICATION FairSpec
PROPERTIES EveryJobIsServed
