SPECIFICATION SigningSpec
CONSTANTS
  i1 = i1
  i2 = i2
  n1 = n1
  Items = {i1, i2}
  NoItem = NoItem
  Numbers = {n1}
  NoNumber = NoNumber
  Labels <- MCLabels
  Catalogue <- RevisedCatalogue
  MaxEtag = 1
  MaxFaults = 1
  Users = {u1}
  Requests = {r1, r2}
SYMMETRY RequestSymmetry
INVARIANTS
  SigningTypeOK
  RevisionReappears
  OneRowPerAnswer
  ListedCanBeOpened
PROPERTIES
  UndisturbedIsValid
