SPECIFICATION Spec
CONSTANTS
  Tasks = {t1}
  Devices = {d1, d2, d3, d4}
  Hashes = {good, bad}
  Expected = good
  NoResult = none
  Threshold = 3
  Credits = {1}
  Demo = FALSE
  Grant = 1
  Prices = {}
  MaxSupply = 10
  PoolSize = 1
  Faults = {"submit", "reap", "create", "settle"}
  MaxFaults = 2
  MaxCrashes = 2
SYMMETRY DeviceSymmetry
CHECK_DEADLOCK FALSE
INVARIANTS EveryRewardIsEarned VotesAreCounted
