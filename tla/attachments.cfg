SPECIFICATION FairSpec
CONSTANTS
  Items = {x, y}
  NoItem = NoItem
  Versions = {1, 2}
  MaxCopies = 3
  MaxNames = 6
  MaxEvents = 3
INVARIANTS
  TypeOK
  FilesAreTheirOwn
  FilesMatchEtags
  DuplicatesExplained
PROPERTIES
  SnapshotsStay
  SweepsConverge
CHECK_DEADLOCK FALSE
