------------------------------- MODULE MCSigning -------------------------------
(***************************************************************************)
(* Small instances of Signing for TLC: one document, its first version and *)
(* the revision that replaces it.                                          *)
(***************************************************************************)
EXTENDS Signing, TLC

CONSTANTS i1, i2, n1

RevisedCatalogue == (i1 :> {<<n1, 0, TRUE>>}) @@ (i2 :> {<<n1, 1, TRUE>>})

MCLabels == {0, 1}

RequestSymmetry == Permutations(Requests)

=============================================================================
