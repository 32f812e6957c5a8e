SPECIFICATION Spec
CONSTANTS
  u1 = u1
  u2 = u2
  b1 = b1
  p1 = p1
  Users = {u1, u2}
  Units = {b1}
  NoUnit = NoUnit
  Professions = {p1}
  NoProfession = NoProfession
  Versions <- MCVersions
  Slots = {a1, a2}
  NoTime = NoTime
  Targets <- MCTargets
  Windows <- MCWindows
  MaxTime = 1
SYMMETRY SlotSymmetry
INVARIANTS
  AssignedIsUnion
