SPECIFICATION Spec
CONSTANTS
  Users = {u1, u2}
  NoUser = NoUser
  Cards = {c1}
  NoCard = NoCard
  Terminals = {t1, k1}
  Kiosks = {k1}
  Admins = {a1, a2}
  Ttl = 1
  Retention = 0
  MaxTime = 3
  MaxSessions = 2
  MaxEdits = 2
SYMMETRY PeopleSymmetry
INVARIANTS
  TypeOK
  LoginSupersedes
  DeactivationHolds
PROPERTIES
  SessionsEndForAReason
  PatchLosesOnlyOverlaps
CHECK_DEADLOCK FALSE
