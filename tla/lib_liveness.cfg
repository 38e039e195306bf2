SPECIFICATION FairSpec
CONSTANTS
  a0 = a0
  a1 = a1
  a2 = a2
  a3 = a3
  Updates <- Chain
  Base = a0
  Extras = {x}
  NoUpdate = none
  NoFile = nofile
  RacyEdits = FALSE
  MaxEdits = 2
  MaxDamages = 0
  MaxStops = 2
  MaxFailures = 2
PROPERTIES InterruptionsResolve UpdatesGoThrough
