---------------------------- MODULE MCDocumentSync ----------------------------
(***************************************************************************)
(* Small instances of DocumentSync for TLC.                                *)
(***************************************************************************)
EXTENDS DocumentSync, TLC

CONSTANTS i1, i2, n1, n2

\* Two items that compete for the same numbers and labels: label collisions, a row
\* that moves to another document, an item that loses its number.
ContendedCatalogue ==
  (i1 :> {<<n1, 0, TRUE>>, <<n1, 1, FALSE>>}) @@
  (i2 :> {<<n1, 1, TRUE>>, <<n2, 0, TRUE>>, <<NoNumber, 0, TRUE>>})

\* Every <<number, label>> pair belongs to one item for ever, as README assumes: a
\* revision is a new item with the next letter.
OrderlyCatalogue ==
  (i1 :> {<<n1, 0, TRUE>>}) @@ (i2 :> {<<n1, 1, TRUE>>, <<n1, 1, FALSE>>, <<n2, 0, TRUE>>})

\* The same letter of the same document is published twice, as two items: the
\* first one is withdrawn and uploaded again.
ReuploadCatalogue == (i1 :> {<<n1, 0, TRUE>>}) @@ (i2 :> {<<n1, 0, TRUE>>})

MCLabels == {0, 1}

=============================================================================
