SPECIFICATION NRemindedSpec
CONSTANTS
  u1 = u1
  Users = {u1, u2}
  Units = {}
  NoUnit = NoUnit
  Professions = {}
  NoProfession = NoProfession
  Versions <- MCVersions
  Slots = {a1}
  NoTime = NoTime
  Targets <- MCTargets
  Windows <- MCWindows
  MaxTime = 0
  Jobs = {j1, j2}
  MaxEvents = 2
PROPERTIES
  UnsignedAreReminded
