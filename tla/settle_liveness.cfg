SPECIFICATION FairSpec
CONSTANTS
  Tasks = {t1}
  Devices = {d1, d2, d3}
  Hashes = {good, bad}
  Expected = good
  NoResult = none
  Threshold = 2
  Credits = {1}
  Demo = FALSE
  Grant = 1
  Prices = {}
  MaxSupply = 10
  PoolSize = 1
  Faults = {}
  MaxFaults = 1
  MaxCrashes = 2
CHECK_DEADLOCK FALSE
PROPERTIES EntitledAreEventuallyPaid TasksFinish
