SPECIFICATION Spec
CONSTANTS
  Tasks = {t1}
  Devices = {d1, d2, d3}
  Hashes = {good, bad}
  Expected = good
  NoResult = none
  Threshold = 2
  Credits = {2}
  Demo = TRUE
  Grant = 1
  Prices = {1}
  MaxSupply = 5
  PoolSize = 1
  Faults = {"submit", "fail", "finish", "reap", "create", "settle", "account"}
  MaxFaults = 1
  MaxCrashes = 1
SYMMETRY DeviceSymmetry
CHECK_DEADLOCK FALSE
INVARIANTS TypeOK SettledExactlyOnce CacheMatchesStore OneProofPerDevice AccountsAreSound
PROPERTIES OutcomeIsFinal ImplementsBank
