SPECIFICATION FairSpec
CONSTANTS
  Items = {1, 2}
  MaxNames = 4
  MaxEvents = 2
INVARIANTS
  TypeOK
  DamageNeedsRace
  SettledShowsOne
PROPERTIES
  RunsRecover
CHECK_DEADLOCK FALSE
