--------------------------- MODULE MCRfidSessions ---------------------------
(***************************************************************************)
(* Small instances of RfidSessions for TLC.                                *)
(***************************************************************************)
EXTENDS RfidSessions, TLC

PeopleSymmetry == Permutations(Users) \cup Permutations(Admins)

=============================================================================
