SPECIFICATION Spec
CONSTANTS
  i1 = i1
  i2 = i2
  n1 = n1
  n2 = n2
  Items = {i1, i2}
  NoItem = NoItem
  Numbers = {n1, n2}
  NoNumber = NoNumber
  Labels <- MCLabels
  Catalogue <- ContendedCatalogue
  MaxEtag = 2
  MaxFaults = 2
INVARIANTS
  TypeOK
  LostFileIsRefetched
  FileNotOlderThanEtag
  AtMostOneCurrent
  CleanGroupShowsNewest
  ReadablePreferred
PROPERTIES
  DeactivationJustified
  KeepsPromise
