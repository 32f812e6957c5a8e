--------------------------- MODULE MCNotifications ---------------------------
(***************************************************************************)
(* A small instance of Notifications for TLC: an assignment to everybody   *)
(* or to one user moves between two versions.                              *)
(***************************************************************************)
EXTENDS Notifications

CONSTANTS u1

MCTargets == {
  [type |-> "ALL", units |-> {}, professions |-> {}, users |-> {}],
  [type |-> "USER", units |-> {}, professions |-> {}, users |-> {u1}]}

MCWindows == {<<NoTime, NoTime>>}

MCVersions == {1, 2}

=============================================================================
