SPECIFICATION FairSpec
CONSTANTS
  Places <- ThreePlaces
  Persistent <- OnePersistent
  Threads = {t1, t2}
  Links = {l1}
  Budgets = {0, 1}
  Words = {1}
  Registers <- Sectors
  MaxClock = 2
  MaxOps = 5
  MaxRuns = 2
  MaxDeaths = 1
INVARIANTS OwnLinks ErrorReported Recovered
PROPERTIES EraseExact StopHonoured
CHECK_DEADLOCK FALSE
