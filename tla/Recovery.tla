------------------------------ MODULE Recovery ------------------------------
(***************************************************************************)
(* Why the nightly sync converges: every run comes to its end, and one run *)
(* that meets no error while nobody edits the library brings everything in *)
(* line with it, whatever earlier crashes, failures and limited runs left  *)
(* behind. From then on only an edit or a limited run can undo it.         *)
(*                                                                         *)
(* DocumentSync with a history variable; the steps are those of            *)
(* DocumentSync.                                                           *)
(***************************************************************************)
EXTENDS DocumentSync

VARIABLE
  repair  \* "underway": an unlimited run has met nothing untoward so far;
          \* "complete": such a run has ended, without an edit or a limited run since

rvars == <<vars, repair>>

RInit == Init /\ repair = "none"

\* A run that logged an error for one of its items has not brought it in line.
AfterRunStep ==
  IF repair = "underway" /\ pc' = "idle"
    THEN IF failed = {} THEN "complete" ELSE "none"
    ELSE repair

\* A fault spoils the run it strikes, but not what an earlier run has completed.
RNext ==
  \/ (SharePoint \/ StartRun(TRUE)) /\ repair' = "none"
  \/ StartRun(FALSE) /\ repair' = (IF repair = "complete" THEN repair ELSE "underway")
  \/ RunStep /\ repair' = AfterRunStep
  \/ Fault /\ repair' = (IF repair = "complete" THEN repair ELSE "none")

RSpec == RInit /\ [][RNext]_rvars

RFairSpec == RSpec /\ Fairness

-----------------------------------------------------------------------------
(* Properties. *)

\* One undisturbed run without errors repairs everything, and what it has repaired no
\* later fault of a nightly run damages: not a crash between two statements, not a
\* failed listing, not a group given up.
OneRunRepairs == repair = "complete" => InLine

\* Every <<number, label>> pair belongs to one item for ever.
Orderly ==
  \A i, j \in Items : \A f \in Catalogue[i], g \in Catalogue[j] :
    i # j /\ f[1] = g[1] /\ f[2] = g[2] => f[1] = NoNumber

\* In an orderly library an undisturbed run gives an item up only when a request or the
\* storage fails; the unique index of the versions, say, is never in its way.
OnlyFaultsCostItems ==
  [][repair = "underway" /\ ~(failed' \subseteq failed) => faults' = faults + 1]_rvars

\* How far a run is from its end: pages, groups, the stage of the group, its items, and
\* the stage of the item.
Stage ==
  [idle |-> 0, listing |-> 0, groups |-> 1, promote |-> 2, items |-> 3, fetch |-> 3,
   replace |-> 3, store |-> 3, record |-> 3, document |-> 4, create |-> 5][pc]

ItemStage ==
  IF pc \in {"items", "fetch", "replace", "store", "record"}
    THEN [record |-> 0, store |-> 1, replace |-> 2, fetch |-> 3, items |-> 4][pc]
    ELSE 0

Distance ==
  << IF pc = "listing" THEN Cardinality(unread) + 1 ELSE 0,
     Cardinality(ListedNumbers \ seen), Stage, Cardinality(left), ItemStage >>

Less(d, e) ==
  \E k \in 1..5 : d[k] < e[k] /\ \A m \in 1..(k - 1) : d[m] = e[m]

\* No run goes on for ever: whatever fails, is skipped or is edited meanwhile, every
\* statement brings it nearer to its end; no item, group or page comes a second time.
RunsComeToAnEnd ==
  [][/\ RunStep \/ Fault => Less(Distance', Distance)
     /\ SharePoint => Distance' = Distance]_vars

=============================================================================
