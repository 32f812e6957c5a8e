SPECIFICATION FairSpec
CONSTANTS
  i1 = i1
  i2 = i2
  n1 = n1
  n2 = n2
  Items = {i1, i2}
  NoItem = NoItem
  Numbers = {n1}
  NoNumber = NoNumber
  Labels <- MCLabels
  Catalogue <- ReuploadCatalogue
  MaxEtag = 1
  MaxFaults = 0
PROPERTIES
  HighestEventuallyCurrent
