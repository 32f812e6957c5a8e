---------------------------- MODULE MCVisibility ----------------------------
(***************************************************************************)
(* A small instance of Visibility for TLC: every type of target, and       *)
(* targets that carry members their type ignores.                          *)
(***************************************************************************)
EXTENDS Visibility, TLC

CONSTANTS u1, u2, b1, p1

Aim(t, B, P, U) == [type |-> t, units |-> B, professions |-> P, users |-> U]

MCTargets == {
  Aim("ALL", {}, {}, {}),
  Aim("ALL", {b1}, {}, {u1}),
  Aim("BUSINESS_UNIT", {b1}, {}, {}),
  Aim("PROFESSION_CATEGORY", {}, {p1}, {u1}),
  Aim("BOTH", {b1}, {p1}, {}),
  Aim("USER", {}, {}, {u1}),
  Aim("USER", {b1}, {p1}, {u2})}

\* From the second instant on, and until the first instant.
MCWindows == {<<1, NoTime>>, <<NoTime, 0>>}

MCVersions == {1, 2}

SlotSymmetry == Permutations(Slots)

=============================================================================
