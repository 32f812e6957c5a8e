------------------------ MODULE OverlappingRunsProofs ------------------------
(***************************************************************************)
(* Theorems about OverlappingRuns, for every set of items and every bound. *)
(***************************************************************************)
EXTENDS OverlappingRuns, FiniteSetTheorems, TLAPS

USE DEF ghost

-----------------------------------------------------------------------------
(* Types. *)

LEMMA OtherRun == \A r \in Runs : Other(r) \in Runs /\ Other(r) # r /\ Runs = {r, Other(r)}
BY DEF Other, Runs

LEMMA NoneTyped == NoVersion \in VersionRow /\ NewVersion \in VersionRow /\ NoRun \in Run
BY DEF NoVersion, NewVersion, NoRun, VersionRow, Run, Statements

LEMMA NewNameIsName ==
  ASSUME NEW i \in Items, disk[i][1] = 0 \/ Unused(i) # {}
  PROVE  NewName(i) \in Names \ {0}
<1>1. 1 \in Names /\ 0 \notin Names
  BY BoundsAssumption DEF Names
<1>2. CASE disk[i][1] = 0
  BY <1>1, <1>2 DEF NewName
<1>3. CASE disk[i][1] # 0
  <2>1. NewName(i) \in Unused(i)
    BY <1>3 DEF NewName
  <2> QED BY <1>1, <2>1 DEF Unused
<1> QED BY <1>2, <1>3

\* What TypeOK says of one run, and that the copy in hand is one of a stored row, so that
\* saving it deletes nothing.
Holding == {"save", "fetch", "replace", "store", "record"}

Fits(s) ==
  /\ s \in Run
  /\ s.item # 0 <=> s.pc \in Holding
  /\ s.chosen # 0 <=> s.pc \in {"demote", "promote"}
  /\ s.item # 0 => ver[s.item].exists /\ s.row.exists

Tables ==
  /\ remote \in [Items -> RemoteItem]
  /\ ver \in [Items -> VersionRow]
  /\ disk \in [Items -> [Names -> Nat]]
  /\ contested \in SUBSET Items
  /\ settled \in BOOLEAN
  /\ events \in 0..MaxEvents

TypeInv == Tables /\ run \in [Runs -> Run] /\ \A r \in Runs : Fits(run[r])

LEMMA TypeInvIsTyped == TypeInv => TypeOK
BY DEF TypeInv, TypeOK, Tables, Fits, Holding

LEMMA TypeInit == Init => TypeInv
<1> SUFFICES ASSUME Init PROVE TypeInv
  OBVIOUS
<1> USE NoneTyped, ItemsAssumption, BoundsAssumption
<1>1. PICK mirrored \in SUBSET Items, since \in SUBSET Items :
        /\ remote = [i \in Items |-> [present |-> i \in mirrored \cup since,
                                      etag |-> CASE i \in mirrored \cap since -> 2
                                                 [] i \notin mirrored \cup since -> 0
                                                 [] OTHER -> 1]]
        /\ ver = [i \in Items |->
                    IF i \in mirrored
                      THEN [exists |-> TRUE, current |-> \A j \in mirrored : j <= i,
                            etag |-> 1, file |-> 1]
                      ELSE NoVersion]
        /\ disk = [i \in Items |-> [n \in Names |-> IF n = 1 /\ i \in mirrored THEN 1 ELSE 0]]
  BY DEF Init
<1>2. remote \in [Items -> RemoteItem]
  BY <1>1 DEF RemoteItem
<1>3. ver \in [Items -> VersionRow]
  BY <1>1 DEF VersionRow, Names
<1>4. disk \in [Items -> [Names -> Nat]]
  BY <1>1
<1>5. NoRun.item = 0 /\ NoRun.chosen = 0 /\ NoRun.pc = "idle"
  BY DEF NoRun
<1>6. /\ run = [r \in Runs |-> NoRun] /\ contested = {} /\ settled = FALSE /\ events = 0
  BY DEF Init
<1>0. events \in 0..MaxEvents /\ contested \in SUBSET Items
  BY <1>6
<1>7. Tables
  BY <1>0, <1>2, <1>3, <1>4, <1>6 DEF Tables
<1>8. run \in [Runs -> Run] /\ \A r \in Runs : run[r] = NoRun
  BY <1>6
<1> QED BY <1>5, <1>7, <1>8 DEF TypeInv, Fits, Holding

\* No row is ever deleted.
RowsStay ==
  /\ ver' \in [Items -> VersionRow]
  /\ \A i \in Items : ver[i].exists => ver'[i].exists

\* One run moves on, the other stays.
LEMMA RunMoves ==
  ASSUME TypeInv, Tables', RowsStay, NEW r \in Runs, NEW s,
         s \in Run, s.item # 0 <=> s.pc \in Holding,
         s.chosen # 0 <=> s.pc \in {"demote", "promote"},
         s.item # 0 => ver'[s.item].exists /\ s.row.exists,
         run' = [run EXCEPT ![r] = s]
  PROVE  TypeInv'
<1>1. run \in [Runs -> Run] /\ \A q \in Runs : Fits(run[q])
  BY DEF TypeInv
<1>2. Fits(s)'
  BY DEF Fits
<1>3. run' \in [Runs -> Run] /\ run'[r] = s /\ \A q \in Runs \ {r} : run'[q] = run[q]
  BY <1>1
<1>4. ASSUME NEW q \in Runs \ {r} PROVE Fits(run[q])'
  <2>1. run'[q] = run[q] /\ Fits(run[q])
    BY <1>1, <1>3
  <2>2. run[q].item # 0 => run[q].item \in Items
    BY <2>1 DEF Fits, Run
  <2> QED BY <2>1, <2>2 DEF Fits, RowsStay
<1> QED BY <1>2, <1>3, <1>4 DEF TypeInv

\* The work on an item is over.
LEMMA AfterItem ==
  ASSUME TypeInv, Tables', RowsStay, NEW r \in Runs, run[r].pc \in Holding, NextItem(r)
  PROVE  TypeInv'
<1> DEFINE s == [run[r] EXCEPT !.pc = "items", !.item = 0, !.row = NoVersion,
                               !.content = 0, !.shared = FALSE]
<1>1. run[r] \in Run /\ run[r].chosen = 0
  BY DEF TypeInv, Fits, Holding
<1>2. s \in Run /\ s.item = 0 /\ s.pc = "items" /\ s.chosen = 0
  BY <1>1, NoneTyped DEF Run, Statements
<1>3. run' = [run EXCEPT ![r] = s]
  BY DEF NextItem
<1> HIDE DEF s
<1> QED BY <1>2, <1>3, RunMoves DEF Holding

LEMMA TypeStep == TypeInv /\ [Next]_vars => TypeInv'
<1> SUFFICES ASSUME TypeInv, [Next]_vars PROVE TypeInv'
  OBVIOUS
<1> USE OtherRun, ItemsAssumption, BoundsAssumption
<1>t. Tables /\ run \in [Runs -> Run] /\ \A r \in Runs : Fits(run[r])
  BY DEF TypeInv
<1>e. Event => events' \in 0..MaxEvents
  BY <1>t DEF Event, Tables
<1>1. ASSUME NEW i \in Items, PutItem(i) \/ WithdrawItem(i) PROVE TypeInv'
  <2>1. remote[i] \in RemoteItem
    BY <1>t DEF Tables
  <2>2. remote' \in [Items -> RemoteItem]
    <3>1. CASE PutItem(i)
      BY <1>t, <2>1, <3>1 DEF PutItem, Tables, RemoteItem
    <3>2. CASE WithdrawItem(i)
      <4>1. [remote[i] EXCEPT !.present = FALSE] \in RemoteItem
        BY <2>1 DEF RemoteItem
      <4> QED BY <1>t, <3>2, <4>1 DEF WithdrawItem, Tables
    <3> QED BY <1>1, <3>1, <3>2
  <2> QED BY <1>t, <1>e, <1>1, <2>2 DEF PutItem, WithdrawItem, TypeInv, Tables, Fits
<1>2. ASSUME NEW r \in Runs, Begin(r) PROVE TypeInv'
  <2>1. events' \in 0..MaxEvents
    BY <1>t, <1>e, <1>2 DEF Begin, Tables
  <2>2. [i \in Items |-> IF i \in Present THEN remote[i].etag ELSE 0] \in [Items -> Nat]
    BY <1>t DEF Tables, RemoteItem
  <2> DEFINE s == [NoRun EXCEPT
                     !.pc = "items", !.left = Present,
                     !.listed = [i \in Items |->
                                   IF i \in Present THEN remote[i].etag ELSE 0],
                     !.alone = run[Other(r)].pc = "idle"]
             o(q) == [run[q] EXCEPT !.alone = FALSE]
  <2>3. run' = [q \in Runs |-> IF q = r THEN s ELSE o(q)]
    BY <1>2 DEF Begin
  <2>4. s \in Run /\ s.item = 0 /\ s.chosen = 0 /\ s.pc = "items"
    BY <2>2, NoneTyped DEF Run, NoRun, Statements, Present
  <2>5. ASSUME NEW q \in Runs
        PROVE  /\ o(q) \in Run /\ o(q).item = run[q].item /\ o(q).pc = run[q].pc
               /\ o(q).chosen = run[q].chosen
    <3>1. run[q] \in Run
      BY <1>t
    <3> QED BY <3>1 DEF Run
  <2> HIDE DEF s, o
  <2>6. run' \in [Runs -> Run]
    BY <2>3, <2>4, <2>5
  <2>7. ASSUME NEW q \in Runs PROVE Fits(run[q])'
    <3>1. run'[q] = (IF q = r THEN s ELSE o(q)) /\ Fits(run[q]) /\ UNCHANGED ver
      BY <1>t, <1>2, <2>3 DEF Begin
    <3>2. CASE q = r
      BY <2>4, <3>1, <3>2 DEF Fits, Holding
    <3>3. CASE q # r
      <4>1. (IF q = r THEN s ELSE o(q)) = o(q) /\ o(q).row = run[q].row
        BY <1>t, <3>3 DEF o, Run
      <4> QED BY <2>5, <3>1, <4>1 DEF Fits
    <3> QED BY <3>2, <3>3
  <2>8. Tables'
    BY <1>t, <1>2, <2>1 DEF Begin, Tables
  <2> QED BY <2>6, <2>7, <2>8 DEF TypeInv
<1>3. ASSUME NEW r \in Runs, NEW i \in Items, GetOrCreate(r, i) PROVE TypeInv'
  <2> DEFINE row == IF ver[i].exists THEN ver[i] ELSE NewVersion
             shared == run[Other(r)].item = i
             s == [run[r] EXCEPT !.pc = "save", !.left = @ \ {i}, !.item = i, !.row = row,
                                 !.shared = shared]
             o(q) == [run[q] EXCEPT !.shared = @ \/ shared]
  <2>1. row \in VersionRow /\ row.exists
    BY <1>t, NoneTyped DEF Tables, NewVersion
  <2>2. /\ ver' = [ver EXCEPT ![i] = row]
        /\ run' = [q \in Runs |-> IF q = r THEN s ELSE o(q)]
        /\ run[r].pc = "items"
        /\ contested' \in {contested, contested \cup {i}}
        /\ UNCHANGED <<remote, disk, settled, events>>
    BY <1>3 DEF GetOrCreate
  <2>3. run[r] \in Run /\ run[Other(r)] \in Run /\ run[r].chosen = 0 /\ shared \in BOOLEAN
    BY <1>t, <2>2 DEF Fits
  <2> HIDE DEF row, shared
  <2>4. s \in Run /\ s.item = i /\ s.pc = "save" /\ s.chosen = 0 /\ s.row = row
    BY <2>1, <2>3 DEF Run, Statements
  <2>5. /\ o(Other(r)) \in Run /\ o(Other(r)).item = run[Other(r)].item
        /\ o(Other(r)).row = run[Other(r)].row
        /\ o(Other(r)).pc = run[Other(r)].pc /\ o(Other(r)).chosen = run[Other(r)].chosen
    <3>1. (run[Other(r)].shared \/ shared) \in BOOLEAN
      OBVIOUS
    <3> QED BY <2>3, <3>1 DEF Run
  <2> HIDE DEF s, o
  <2>6. run' \in [Runs -> Run] /\ run'[r] = s /\ run'[Other(r)] = o(Other(r))
    BY <1>t, <2>2, <2>4, <2>5
  <2>7. ver' \in [Items -> VersionRow] /\ ver'[i].exists
        /\ \A k \in Items : ver[k].exists => ver'[k].exists
    BY <1>t, <2>1, <2>2 DEF Tables
  <2>8. Fits(run[r])'
    BY <2>1, <2>4, <2>6, <2>7, 0 \notin Items DEF Fits, Holding
  <2>9. Fits(run[Other(r)])'
    <3>1. Fits(run[Other(r)])
      BY <1>t
    <3>2. run[Other(r)].item # 0 => run[Other(r)].item \in Items
      BY <2>3 DEF Run
    <3> QED BY <2>5, <2>6, <2>7, <3>1, <3>2 DEF Fits
  <2>10. Tables'
    BY <1>t, <2>2, <2>7 DEF Tables
  <2>11. \A q \in Runs : Fits(run[q])'
    BY <2>8, <2>9
  <2> QED BY <2>6, <2>10, <2>11 DEF TypeInv
<1>h. ASSUME NEW r \in Runs, run[r].pc \in Holding
      PROVE  /\ run[r] \in Run /\ run[r].item \in Items /\ run[r].chosen = 0
             /\ run[r].row \in VersionRow /\ run[r].row.exists /\ ver[run[r].item].exists
             /\ run[r].content \in Nat /\ run[r].listed[run[r].item] \in Nat
  BY <1>t, <1>h DEF Fits, Run, Holding
<1>c. ASSUME UNCHANGED <<remote, ver, disk, settled>>, contested' \in SUBSET Items,
             events' \in 0..MaxEvents
      PROVE  Tables' /\ RowsStay
  BY <1>t, <1>c DEF Tables, RowsStay
<1>k. UNCHANGED events => events' \in 0..MaxEvents
  BY <1>t DEF Tables
<1>4. ASSUME NEW r \in Runs, SaveFields(r) PROVE TypeInv'
  <2>1. /\ run[r] \in Run /\ run[r].item \in Items /\ run[r].chosen = 0
        /\ run[r].row \in VersionRow /\ run[r].row.exists /\ run[r].pc = "save"
    BY <1>4, <1>h DEF SaveFields, Holding
  <2>2. /\ ver' = [ver EXCEPT ![run[r].item] = run[r].row]
        /\ UNCHANGED <<remote, disk, settled, events>>
        /\ contested' \in {contested, contested \cup {run[r].item}}
        /\ NextItem(r) \/ run' = [run EXCEPT ![r] = [run[r] EXCEPT !.pc = "fetch"]]
    BY <1>4 DEF SaveFields, UpsertedRow
  <2>3. Tables' /\ RowsStay /\ ver'[run[r].item].exists
    BY <1>t, <2>1, <2>2 DEF Tables, RowsStay
  <2>4. CASE NextItem(r)
    BY <2>1, <2>3, <2>4, AfterItem DEF Holding
  <2>5. CASE run' = [run EXCEPT ![r] = [run[r] EXCEPT !.pc = "fetch"]]
    <3> DEFINE s == [run[r] EXCEPT !.pc = "fetch"]
    <3>1. /\ s \in Run /\ s.item = run[r].item /\ s.pc = "fetch" /\ s.chosen = 0
          /\ s.row = run[r].row
      BY <2>1 DEF Run, Statements
    <3> HIDE DEF s
    <3>2. run' = [run EXCEPT ![r] = s]
      BY <2>5 DEF s
    <3> QED BY <2>1, <2>3, <3>1, <3>2, RunMoves DEF Holding
  <2> QED BY <2>2, <2>4, <2>5
<1>5. ASSUME NEW r \in Runs, Fetch(r) PROVE TypeInv'
  <2> DEFINE s == [run[r] EXCEPT !.pc = "replace", !.content = remote[run[r].item].etag]
  <2>1. run[r].pc = "fetch" /\ run' = [run EXCEPT ![r] = s] /\ Tables' /\ RowsStay
    BY <1>t, <1>c, <1>k, <1>5 DEF Fetch, Tables
  <2>2. remote[run[r].item].etag \in Nat
    BY <1>t, <1>h, <2>1 DEF Tables, RemoteItem, Holding
  <2>3. /\ s \in Run /\ s.item = run[r].item /\ s.pc = "replace" /\ s.chosen = 0
        /\ s.row = run[r].row
    BY <1>h, <2>1, <2>2 DEF Run, Statements, Holding
  <2> HIDE DEF s
  <2> QED BY <1>h, <2>1, <2>3, RunMoves DEF Holding, RowsStay
<1>6. ASSUME NEW r \in Runs, ItemFails(r) PROVE TypeInv'
  <2>1. run[r].pc \in Holding /\ NextItem(r)
    BY <1>6 DEF ItemFails, Holding
  <2>2. Tables' /\ RowsStay
    BY <1>t, <1>c, <1>e, <1>k, <1>6 DEF ItemFails, Tables
  <2> QED BY <2>1, <2>2, AfterItem
<1>7. ASSUME NEW r \in Runs, DeleteOldFile(r) PROVE TypeInv'
  <2> DEFINE s == [run[r] EXCEPT !.pc = "store"]
  <2>1. run[r].pc = "replace" /\ run' = [run EXCEPT ![r] = s]
    BY <1>7 DEF DeleteOldFile
  <2>2. disk' \in [Items -> [Names -> Nat]]
    BY <1>t, <1>7 DEF DeleteOldFile, Tables
  <2>3. Tables' /\ RowsStay
    BY <1>t, <1>7, <2>2 DEF DeleteOldFile, Tables, RowsStay
  <2>4. /\ s \in Run /\ s.item = run[r].item /\ s.pc = "store" /\ s.chosen = 0
        /\ s.row = run[r].row
    BY <1>h, <2>1 DEF Run, Statements, Holding
  <2> HIDE DEF s
  <2> QED BY <1>h, <2>1, <2>3, <2>4, RunMoves DEF Holding, RowsStay
<1>8. ASSUME NEW r \in Runs, StoreFile(r) PROVE TypeInv'
  <2> DEFINE i == run[r].item
             row == [run[r].row EXCEPT !.file = NewName(i), !.etag = run[r].listed[i]]
             s == [run[r] EXCEPT !.pc = "record", !.content = 0, !.row = row]
  <2>1. /\ run[r].pc = "store"
        /\ disk[i][1] = 0 \/ Unused(i) # {}
        /\ disk' = [disk EXCEPT ![i][NewName(i)] = run[r].content]
        /\ UNCHANGED <<remote, ver, ghost, events>>
    BY <1>8 DEF StoreFile
  <2>2. run' = [run EXCEPT ![r] = s]
    BY <1>8 DEF StoreFile
  <2>3. i \in Items /\ NewName(i) \in Names
    BY <1>h, <2>1, NewNameIsName DEF Holding
  <2>4. row \in VersionRow /\ row.exists
    BY <1>h, <2>1, <2>3 DEF Holding, VersionRow
  <2> HIDE DEF row
  <2>5. s \in Run /\ s.item = i /\ s.pc = "record" /\ s.chosen = 0 /\ s.row = row
    BY <1>h, <2>1, <2>4 DEF Run, Statements, Holding
  <2>6. Tables' /\ RowsStay
    BY <1>t, <1>h, <2>1, <2>3 DEF Tables, RowsStay, Holding
  <2> HIDE DEF s
  <2> QED BY <1>h, <2>1, <2>2, <2>4, <2>5, <2>6, RunMoves DEF Holding, RowsStay
<1>9. ASSUME NEW r \in Runs, RecordFile(r) PROVE TypeInv'
  <2>1. /\ run[r].pc \in Holding /\ NextItem(r)
        /\ ver' = [ver EXCEPT ![run[r].item] = run[r].row]
        /\ contested' \in {contested, contested \ {run[r].item}}
        /\ UNCHANGED <<remote, disk, settled, events>>
    BY <1>9 DEF RecordFile, Holding
  <2>2. Tables' /\ RowsStay
    BY <1>t, <1>h, <2>1 DEF Tables, RowsStay
  <2> QED BY <2>1, <2>2, AfterItem
<1>10. ASSUME NEW r \in Runs, Choose(r) PROVE TypeInv'
  <2>1. PICK c \in Candidates(r) : run' = [run EXCEPT ![r].pc = "demote", ![r].chosen = c]
    BY <1>10 DEF Choose
  <2>2. c \in Items /\ run[r].pc = "items"
    BY <1>10 DEF Choose, Candidates
  <2> DEFINE s == [run[r] EXCEPT !.pc = "demote", !.chosen = c]
  <2>3. run' = [run EXCEPT ![r] = s]
    BY <1>t, <2>1 DEF Run
  <2>4. s \in Run /\ s.item = 0 /\ s.pc = "demote" /\ s.chosen = c
    <3>1. run[r] \in Run /\ run[r].item = 0
      BY <1>t, <2>2 DEF Fits, Holding
    <3> QED BY <2>2, <3>1 DEF Run, Statements
  <2>5. Tables' /\ RowsStay
    BY <1>t, <1>c, <1>k, <1>10 DEF Choose, Tables
  <2> HIDE DEF s
  <2> QED BY <2>2, <2>3, <2>4, <2>5, RunMoves DEF Holding
<1>11. ASSUME NEW r \in Runs, DemoteOthers(r) PROVE TypeInv'
  <2> DEFINE s == [NoRun EXCEPT !.pc = "promote", !.chosen = run[r].chosen,
                                !.alone = run[r].alone]
  <2>1. run[r].pc = "demote" /\ ver' = Demoted(r) /\ run' = [run EXCEPT ![r] = s]
    BY <1>11 DEF DemoteOthers
  <2>2. run[r].chosen \in Items /\ run[r].alone \in BOOLEAN
    BY <1>t, <2>1 DEF Fits, Run
  <2>3. s \in Run /\ s.item = 0 /\ s.pc = "promote" /\ s.chosen = run[r].chosen
    BY <2>2, NoneTyped DEF Run, Statements, NoRun
  <2>4. ASSUME NEW i \in Items
        PROVE  /\ [ver[i] EXCEPT !.current = FALSE] \in VersionRow
               /\ [ver[i] EXCEPT !.current = FALSE].exists = ver[i].exists
    <3>1. ver[i] \in VersionRow
      BY <1>t DEF Tables
    <3> QED BY <3>1 DEF VersionRow
  <2>5. RowsStay
    BY <1>t, <2>1, <2>4 DEF RowsStay, Demoted, Tables
  <2>6. Tables'
    BY <1>t, <1>11, <2>5 DEF DemoteOthers, Tables, RowsStay
  <2> HIDE DEF s
  <2> QED BY <2>1, <2>2, <2>3, <2>5, <2>6, RunMoves DEF Holding
<1>12. ASSUME NEW r \in Runs, PromoteChosen(r) PROVE TypeInv'
  <2>1. run[r].pc = "promote" /\ run' = [run EXCEPT ![r] = NoRun]
    BY <1>12 DEF PromoteChosen
  <2>2. run[r].chosen \in Items /\ run[r].alone \in BOOLEAN
    BY <1>t, <2>1 DEF Fits, Run
  <2>3. ASSUME NEW i \in Items
        PROVE  /\ [ver[i] EXCEPT !.current = TRUE] \in VersionRow
               /\ [ver[i] EXCEPT !.current = TRUE].exists = ver[i].exists
    <3>1. ver[i] \in VersionRow
      BY <1>t DEF Tables
    <3> QED BY <3>1 DEF VersionRow
  <2>4. RowsStay
    BY <1>t, <1>12, <2>2, <2>3 DEF RowsStay, PromoteChosen, Tables
  <2>5. Tables'
    BY <1>t, <1>12, <2>2, <2>4 DEF PromoteChosen, Tables, RowsStay
  <2>6. NoRun.item = 0 /\ NoRun.chosen = 0 /\ NoRun.pc = "idle"
    BY DEF NoRun
  <2> QED BY <2>1, <2>4, <2>5, <2>6, NoneTyped, RunMoves DEF Holding
<1>13. ASSUME NEW r \in Runs, Crash(r) PROVE TypeInv'
  <2>1. NoRun.item = 0 /\ NoRun.chosen = 0 /\ NoRun.pc = "idle"
    BY DEF NoRun
  <2>2. Tables' /\ RowsStay
    BY <1>t, <1>c, <1>e, <1>13 DEF Crash, Tables
  <2> QED BY <1>13, <2>1, <2>2, NoneTyped, RunMoves DEF Crash, Holding
<1>14. CASE UNCHANGED vars
  BY <1>14 DEF vars, TypeInv, Tables, Fits
<1> QED
  BY <1>1, <1>2, <1>3, <1>4, <1>5, <1>6, <1>7, <1>8, <1>9, <1>10, <1>11, <1>12, <1>13, <1>14
  DEF Next, Work

\* Both runs and the tables keep their types; a run holds an item, which has a row, exactly
\* while it works on one.
THEOREM RunsTyped == Spec => []TypeOK
BY TypeInit, TypeStep, TypeInvIsTyped, PTL DEF Spec

-----------------------------------------------------------------------------
(* Damage. A run that had its item to itself so far holds the row as it is; it deletes the *)
(* file only for a newer one, and what it is about to record is on the disk.             *)

Growing ==
  /\ \A i \in Items : remote[i].present => remote[i].etag > 0
  /\ \A r \in Runs, i \in Items : run[r].listed[i] <= remote[i].etag

Together ==
  \A r \in Runs : run[r].item # 0 /\ run[Other(r)].item = run[r].item => run[r].shared

Held(r) ==
  LET i == run[r].item
      row == run[r].row
  IN  /\ run[r].pc \in {"replace", "store"} =>
           run[r].content > 0 /\ run[r].listed[i] <= run[r].content
      /\ i # 0 /\ ~run[r].shared =>
           IF run[r].pc = "record"
             THEN row.file # 0 /\ disk[i][row.file] > 0 /\ row.etag <= disk[i][row.file]
             ELSE row.file = ver[i].file /\ row.etag = ver[i].etag
      /\ run[r].pc \in {"fetch", "replace", "store"} /\ i \notin contested =>
           row.file = 0 \/ row.etag < run[r].listed[i]
      /\ run[r].shared => i \in contested

Intact(i) ==
  ver[i].file # 0 =>
    IF disk[i][ver[i].file] = 0 THEN ver[i].etag < remote[i].etag
                                ELSE ver[i].etag <= disk[i][ver[i].file]

RaceInv ==
  /\ TypeInv /\ Growing /\ Together
  /\ \A r \in Runs : Held(r)
  /\ \A i \in Items \ contested : Intact(i)

LEMMA RaceInit == Init => RaceInv
<1> SUFFICES ASSUME Init PROVE RaceInv
  OBVIOUS
<1>t. TypeInv
  BY TypeInit
<1>1. PICK mirrored \in SUBSET Items, since \in SUBSET Items :
        /\ remote = [i \in Items |-> [present |-> i \in mirrored \cup since,
                                      etag |-> CASE i \in mirrored \cap since -> 2
                                                 [] i \notin mirrored \cup since -> 0
                                                 [] OTHER -> 1]]
        /\ ver = [i \in Items |->
                    IF i \in mirrored
                      THEN [exists |-> TRUE, current |-> \A j \in mirrored : j <= i,
                            etag |-> 1, file |-> 1]
                      ELSE NoVersion]
        /\ disk = [i \in Items |-> [n \in Names |-> IF n = 1 /\ i \in mirrored THEN 1 ELSE 0]]
  BY DEF Init
<1>2. \A r \in Runs : run[r] = NoRun
  BY DEF Init
<1>3. /\ NoRun.item = 0 /\ NoRun.pc = "idle" /\ NoRun.shared = FALSE
      /\ NoRun.listed = [i \in Items |-> 0]
  BY DEF NoRun
<1>4. ASSUME NEW i \in Items
      PROVE  remote[i].etag \in Nat /\ (remote[i].present => remote[i].etag > 0)
  <2>1. CASE i \in mirrored \cap since
    BY <1>1, <2>1
  <2>2. CASE i \notin mirrored \cup since
    BY <1>1, <2>2
  <2>3. CASE i \notin mirrored \cap since /\ i \in mirrored \cup since
    BY <1>1, <2>3
  <2> QED BY <2>1, <2>2, <2>3
<1>5. Growing
  BY <1>2, <1>3, <1>4 DEF Growing
<1>6. ASSUME NEW i \in Items PROVE Intact(i)
  <2>1. CASE i \in mirrored
    <3>1. ver[i].file = 1 /\ ver[i].etag = 1
      BY <1>1, <2>1
    <3>2. disk[i][1] = 1
      BY <1>1, <2>1, BoundsAssumption DEF Names
    <3> QED BY <3>1, <3>2 DEF Intact
  <2>2. CASE i \notin mirrored
    BY <1>1, <2>2 DEF Intact, NoVersion
  <2> QED BY <2>1, <2>2
<1> QED BY <1>t, <1>2, <1>3, <1>5, <1>6 DEF RaceInv, Together, Held

\* A run whose item nobody else touches, or that shares it, keeps what it has.
LEMMA HeldKept ==
  ASSUME NEW q \in Runs, Held(q), run[q].item = 0 => run[q].pc \notin Holding,
         run'[q].pc = run[q].pc, run'[q].item = run[q].item, run'[q].row = run[q].row,
         run'[q].content = run[q].content, run'[q].listed = run[q].listed,
         run[q].shared => run'[q].shared,
         run'[q].shared => run[q].item \in contested',
         run[q].item \in contested => run[q].item \in contested',
         run[q].item # 0 /\ ~run'[q].shared =>
           /\ ver'[run[q].item].file = ver[run[q].item].file
           /\ ver'[run[q].item].etag = ver[run[q].item].etag
           /\ disk'[run[q].item] = disk[run[q].item]
  PROVE  Held(q)'
BY DEF Held, Holding

LEMMA IntactKept ==
  ASSUME NEW i \in Items, Intact(i), TypeInv, TypeInv',
         ver'[i].file = ver[i].file, ver'[i].etag = ver[i].etag, disk'[i] = disk[i],
         remote'[i].etag >= remote[i].etag
  PROVE  Intact(i)'
<1>1. /\ ver[i].etag \in Nat /\ remote[i].etag \in Nat /\ remote'[i].etag \in Nat
  BY DEF TypeInv, Tables, VersionRow, RemoteItem
<1> QED BY <1>1 DEF Intact

\* A run that lets go of its item.
LEMMA HeldAfter ==
  ASSUME NEW r \in Runs, run'[r].item = 0, run'[r].shared = FALSE, run'[r].pc \notin Holding
  PROVE  Held(r)'
BY DEF Held, Holding

\* One run moves on within its item, or lets go of it.
LEMMA RaceMoves ==
  ASSUME RaceInv, TypeInv', NEW r \in Runs, NEW i, i = run[r].item, UNCHANGED remote,
         \A k \in Runs \ {r} : run'[k] = run[k],
         \A k \in Items : run'[r].listed[k] <= remote[k].etag,
         run'[r].item # 0 => run'[r].item = run[r].item /\ run'[r].shared = run[r].shared,
         Held(r)',
         \A k \in Items \ {i} :
           /\ ver'[k].file = ver[k].file /\ ver'[k].etag = ver[k].etag
           /\ disk'[k] = disk[k] /\ (k \in contested <=> k \in contested'),
         run[r].shared => contested \subseteq contested',
         i \in Items \ contested' => Intact(i)'
  PROVE  RaceInv'
<1> DEFINE q == Other(r)
<1>q. q \in Runs /\ q # r /\ Runs = {r, q} /\ Other(q) = r /\ Other(r) = q /\ run'[q] = run[q]
  BY OtherRun
<1> HIDE DEF q
<1>t. TypeInv /\ Held(q) /\ Held(r) /\ Fits(run[q])
  BY <1>q DEF RaceInv, TypeInv
<1>0. 0 \notin Items /\ run[q].item \in Items \cup {0}
      /\ (run[q].item = 0 => run[q].pc \notin Holding)
  BY <1>t, ItemsAssumption DEF Fits, Run
<1>1. /\ run[q].item # 0 /\ run[r].item = run[q].item => run[q].shared
      /\ run[r].item # 0 /\ run[q].item = run[r].item => run[r].shared
  BY <1>q DEF RaceInv, Together
<1>2. Together'
  BY <1>q, <1>1 DEF Together
<1>3. Growing'
  <2>1. \A k \in Items : run'[q].listed[k] <= remote'[k].etag
    BY <1>q DEF RaceInv, Growing
  <2> QED BY <1>q, <2>1 DEF RaceInv, Growing
<1>4. run[q].item \in contested => run[q].item \in contested'
  <2>1. CASE run[q].item = run[r].item
    BY <1>0, <1>1, <2>1, ItemsAssumption DEF RaceInv, TypeInv, Tables
  <2>2. CASE run[q].item # run[r].item
    BY <1>0, <1>t, <2>2 DEF TypeInv, Tables
  <2> QED BY <2>1, <2>2
<1>5. Held(q)'
  <2>1. run[q].shared => run[q].item \in contested
    BY <1>t DEF Held
  <2>2. run[q].item # 0 /\ ~run[q].shared => run[q].item \in Items \ {run[r].item}
    BY <1>0, <1>1
  <2> QED BY <1>0, <1>q, <1>t, <1>4, <2>1, <2>2, HeldKept
<1>6. ASSUME NEW k \in Items \ contested' PROVE Intact(k)'
  <2>1. CASE k = i
    BY <2>1
  <2>2. CASE k # i
    <3>1. Intact(k) /\ remote'[k].etag >= remote[k].etag
      BY <1>t, <2>2 DEF RaceInv, TypeInv, Tables, RemoteItem
    <3> QED BY <1>t, <2>2, <3>1, IntactKept
  <2> QED BY <2>1, <2>2
<1> QED BY <1>q, <1>2, <1>3, <1>5, <1>6 DEF RaceInv

LEMMA RaceStep == RaceInv /\ [Next]_vars => RaceInv'
<1> SUFFICES ASSUME RaceInv, [Next]_vars PROVE RaceInv'
  OBVIOUS
<1> USE OtherRun
<1>t. TypeInv /\ TypeInv'
  BY TypeStep DEF RaceInv
<1>0. 0 \notin Items
  BY ItemsAssumption
<1>f. ASSUME NEW r \in Runs
      PROVE  /\ run[r] \in Run /\ Fits(run[r]) /\ Held(r) /\ run[r].shared \in BOOLEAN
             /\ run[r].pc \notin Holding => run[r].item = 0
             /\ run[r].pc \in Holding => run[r].item \in Items
  BY <1>t DEF RaceInv, TypeInv, Fits, Run, Holding
<1>1. ASSUME NEW i \in Items, PutItem(i) \/ WithdrawItem(i) PROVE RaceInv'
  <2>1. /\ \A k \in Items : remote'[k].etag >= remote[k].etag
        /\ \A k \in Items : remote'[k].present => remote'[k].etag > 0
    <3>1. \A k \in Items : remote[k] \in RemoteItem
      BY <1>t DEF TypeInv, Tables
    <3>2. CASE PutItem(i)
      BY <1>t, <3>1, <3>2 DEF PutItem, RaceInv, Growing, TypeInv, Tables, RemoteItem
    <3>3. CASE WithdrawItem(i)
      BY <1>t, <3>1, <3>3 DEF WithdrawItem, RaceInv, Growing, TypeInv, Tables, RemoteItem
    <3> QED BY <1>1, <3>2, <3>3
  <2>2. UNCHANGED <<ver, disk, run, contested, settled>>
    BY <1>1 DEF PutItem, WithdrawItem
  <2>3. Growing'
    <3>1. \A r \in Runs, k \in Items :
            run[r].listed[k] \in Nat /\ remote[k].etag \in Nat /\ remote'[k].etag \in Nat
      BY <1>t, <1>f DEF TypeInv, Tables, Run, RemoteItem
    <3> QED BY <2>1, <2>2, <3>1 DEF RaceInv, Growing
  <2>4. \A r \in Runs : Held(r)'
    BY <2>2 DEF RaceInv, Held
  <2>5. \A k \in Items \ contested' : Intact(k)'
    BY <1>t, <2>1, <2>2, IntactKept DEF RaceInv
  <2> QED BY <1>t, <2>2, <2>3, <2>4, <2>5 DEF RaceInv, Together
<1>2. ASSUME NEW r \in Runs, Begin(r) PROVE RaceInv'
  <2> DEFINE q == Other(r)
  <2>1. /\ run'[r].item = 0 /\ run'[r].shared = FALSE /\ run'[r].pc = "items"
        /\ run'[r].listed = [i \in Items |-> IF i \in Present THEN remote[i].etag ELSE 0]
    BY <1>2 DEF Begin, NoRun
  <2>2. /\ run'[q].pc = run[q].pc /\ run'[q].item = run[q].item /\ run'[q].row = run[q].row
        /\ run'[q].content = run[q].content /\ run'[q].listed = run[q].listed
        /\ run'[q].shared = run[q].shared
    <3>1. run'[q] = [run[q] EXCEPT !.alone = FALSE]
      BY <1>2 DEF Begin
    <3> QED BY <1>f, <3>1 DEF Run
  <2>3. UNCHANGED <<remote, ver, disk, contested>> /\ run[r].item = 0
    BY <1>2, <1>f DEF Begin, Holding
  <2>4. Growing'
    <3>1. \A i \in Items : remote[i].etag \in Nat
      BY <1>t DEF TypeInv, Tables, RemoteItem
    <3>2. \A i \in Items : run'[r].listed[i] <= remote'[i].etag
      BY <2>1, <2>3, <3>1
    <3>3. \A i \in Items : run'[q].listed[i] <= remote'[i].etag
      BY <2>2, <2>3 DEF RaceInv, Growing
    <3> QED BY <2>3, <3>2, <3>3 DEF RaceInv, Growing
  <2>5. Held(r)'
    BY <2>1, HeldAfter DEF Holding
  <2>6. Held(q)'
    <3>1. run[q].shared => run[q].item \in contested
      BY <1>f DEF Held
    <3>2. q \in Runs /\ Held(q) /\ (run[q].item = 0 => run[q].pc \notin Holding)
      BY <1>0, <1>f
    <3> HIDE DEF q
    <3> QED BY <2>2, <2>3, <3>1, <3>2, HeldKept
  <2>7. Together'
    BY <1>0, <2>1, <2>2, <2>3, <1>f DEF RaceInv, Together
  <2>8. \A i \in Items \ contested' : Intact(i)'
    BY <2>3 DEF RaceInv, Intact
  <2> QED BY <1>t, <2>4, <2>5, <2>6, <2>7, <2>8 DEF RaceInv
<1>3. ASSUME NEW r \in Runs, NEW i \in Items, GetOrCreate(r, i) PROVE RaceInv'
  <2> DEFINE q == Other(r)
             row == IF ver[i].exists THEN ver[i] ELSE NewVersion
             shared == run[q].item = i
  <2>q. q \in Runs /\ q # r /\ Runs = {r, q} /\ Other(q) = r /\ Other(r) = q
    OBVIOUS
  <2>1. /\ run[r].pc = "items" /\ ver' = [ver EXCEPT ![i] = row]
        /\ run' = [k \in Runs |->
             IF k = r THEN [run[k] EXCEPT !.pc = "save", !.left = @ \ {i}, !.item = i,
                                          !.row = row, !.shared = shared]
                      ELSE [run[k] EXCEPT !.shared = @ \/ shared]]
        /\ contested' = (IF shared THEN contested \cup {i} ELSE contested)
        /\ UNCHANGED <<remote, disk, settled, events>>
    BY <1>3 DEF GetOrCreate
  <2> HIDE DEF q, row
  <2>2. /\ run'[r].pc = "save" /\ run'[r].item = i /\ run'[r].row = row
        /\ run'[r].shared = shared /\ run'[r].listed = run[r].listed
    <3>1. run'[r] = [run[r] EXCEPT !.pc = "save", !.left = @ \ {i}, !.item = i,
                                   !.row = row, !.shared = shared]
      BY <2>1
    <3> HIDE DEF shared
    <3> QED BY <1>f, <3>1 DEF Run
  <2>3. /\ run'[q].pc = run[q].pc /\ run'[q].item = run[q].item /\ run'[q].row = run[q].row
        /\ run'[q].content = run[q].content /\ run'[q].listed = run[q].listed
        /\ run'[q].shared = (run[q].shared \/ shared)
    <3>1. run'[q] = [run[q] EXCEPT !.shared = @ \/ shared]
      BY <2>1, <2>q
    <3> HIDE DEF shared
    <3> QED BY <1>f, <2>q, <3>1 DEF Run
  <2>4. /\ ver'[i] = row /\ \A k \in Items \ {i} : ver'[k] = ver[k]
        /\ ver[i].exists => row = ver[i]
        /\ ~ver[i].exists => row.file = 0
    BY <1>t, <2>1 DEF TypeInv, Tables, row, NewVersion
  <2>5. run[q].item # 0 => run[q].item \in Items /\ ver[run[q].item].exists
    BY <1>f, <2>q, <1>0 DEF Fits, Run
  <2>6. Growing'
    BY <2>1, <2>2, <2>3, <2>q DEF RaceInv, Growing
  <2>7. Together'
    <3>1. run'[q].item = i => run'[r].shared /\ run'[q].shared
      BY <2>2, <2>3
    <3> QED BY <2>2, <2>q, <3>1 DEF Together
  <2>8. Held(r)'
    <3>1. shared => i \in contested'
      BY <2>1
    <3> HIDE DEF shared
    <3> QED BY <2>2, <2>4, <3>1 DEF Held
  <2>9. Held(q)'
    <3>1. run[q].shared => run[q].item \in contested
      BY <1>f, <2>q DEF Held
    <3>2. Held(q) /\ (run[q].item = 0 => run[q].pc \notin Holding)
      BY <1>0, <1>f, <2>q
    <3>3. run'[q].shared => run[q].item \in contested'
      BY <2>1, <2>3, <3>1
    <3>4. run[q].item # 0 => ver'[run[q].item] = ver[run[q].item] /\ disk' = disk
      BY <2>1, <2>4, <2>5
    <3>5. run[q].item \in contested => run[q].item \in contested'
      BY <2>1
    <3> HIDE DEF shared
    <3> QED BY <2>3, <2>q, <3>2, <3>3, <3>4, <3>5, HeldKept
  <2>10. ASSUME NEW k \in Items \ contested' PROVE Intact(k)'
    <3>1. Intact(k)
      BY <2>1 DEF RaceInv
    <3>2. ver'[k] = ver[k] \/ ver'[k].file = 0
      BY <2>4
    <3> QED BY <2>1, <3>1, <3>2 DEF Intact
  <2> QED BY <1>t, <2>6, <2>7, <2>8, <2>9, <2>10, <2>q DEF RaceInv
<1>n. ASSUME NEW r \in Runs, NextItem(r)
      PROVE  /\ \A k \in Runs \ {r} : run'[k] = run[k]
             /\ run'[r].item = 0 /\ run'[r].listed = run[r].listed /\ Held(r)'
  <2>1. run'[r] = [run[r] EXCEPT !.pc = "items", !.item = 0, !.row = NoVersion,
                                 !.content = 0, !.shared = FALSE]
        /\ \A k \in Runs \ {r} : run'[k] = run[k]
    BY <1>t, <1>n DEF NextItem, TypeInv
  <2>2. /\ run'[r].item = 0 /\ run'[r].pc = "items" /\ run'[r].shared = FALSE
        /\ run'[r].listed = run[r].listed
    BY <1>f, <2>1 DEF Run
  <2> QED BY <2>1, <2>2, HeldAfter DEF Holding
<1>g. \A r \in Runs, i \in Items : run[r].listed[i] <= remote[i].etag
  BY DEF RaceInv, Growing
<1>4. ASSUME NEW r \in Runs, SaveFields(r) PROVE RaceInv'
  <2>0. PICK i : i = run[r].item
    OBVIOUS
  <2>1. /\ run[r].pc = "save" /\ i \in Items
        /\ ver' = [ver EXCEPT ![i] = run[r].row]
        /\ UNCHANGED <<remote, disk, settled, events>>
        /\ contested \subseteq contested' /\ contested' \subseteq contested \cup {i}
    BY <2>0, <1>4, <1>f DEF SaveFields, UpsertedRow, Holding
  <2>2. ver'[i] = run[r].row /\ \A k \in Items \ {i} : ver'[k] = ver[k]
    BY <1>t, <2>1 DEF TypeInv, Tables
  <2>3. /\ ~run[r].shared => run[r].row.file = ver[i].file /\ run[r].row.etag = ver[i].etag
        /\ run[r].shared => i \in contested
    BY <2>0, <1>f, <2>1, <1>0 DEF Held
  <2>4. i \notin contested' => Intact(i)'
    <3>1. i \notin contested' => Intact(i) /\ run[r].shared = FALSE
      BY <1>f, <2>1, <2>3 DEF RaceInv
    <3> QED BY <2>1, <2>2, <2>3, <3>1 DEF Intact
  <2>5. CASE NextItem(r)
    <3> QED
      BY <1>t, <1>n, <1>g, <2>1, <2>2, <2>4, <2>5, <2>0, RaceMoves
  <2>6. CASE /\ run' = [run EXCEPT ![r].pc = "fetch"]
             /\ ~(run[r].row.etag = run[r].listed[i] /\ run[r].row.file # 0)
             /\ contested' = IF Outdated(r) THEN contested \cup {i} ELSE contested
    <3>1. /\ run'[r] = [run[r] EXCEPT !.pc = "fetch"]
          /\ \A k \in Runs \ {r} : run'[k] = run[k]
      BY <1>t, <2>6 DEF TypeInv
    <3>2. /\ run'[r].pc = "fetch" /\ run'[r].item = i /\ run'[r].row = run[r].row
          /\ run'[r].shared = run[r].shared /\ run'[r].listed = run[r].listed
      BY <2>0, <1>f, <3>1 DEF Run
    <3>3. run[r].row.etag \in Nat /\ run[r].listed[i] \in Nat
      BY <1>f, <2>1 DEF Run, VersionRow
    <3>4. Held(r)'
      BY <2>0, <2>1, <2>2, <2>3, <2>6, <3>2, <3>3 DEF Held, Outdated
    <3> QED BY <1>t, <1>g, <2>1, <2>2, <2>4, <3>1, <3>2, <3>4, <2>0, RaceMoves
  <2> QED BY <1>4, <2>0, <2>5, <2>6 DEF SaveFields
<1>5. ASSUME NEW r \in Runs, Fetch(r) PROVE RaceInv'
  <2>0. PICK i : i = run[r].item
    OBVIOUS
  <2>1. /\ run[r].pc = "fetch" /\ i \in Items /\ remote[i].present
        /\ run' = [run EXCEPT ![r].pc = "replace", ![r].content = remote[i].etag]
        /\ UNCHANGED <<remote, ver, disk, ghost, events>>
    BY <1>5, <1>f, <2>0 DEF Fetch, Holding
  <2>2. /\ run'[r] = [run[r] EXCEPT !.pc = "replace", !.content = remote[i].etag]
        /\ \A k \in Runs \ {r} : run'[k] = run[k]
    BY <1>t, <2>1 DEF TypeInv
  <2>3. /\ run'[r].pc = "replace" /\ run'[r].item = i /\ run'[r].row = run[r].row
        /\ run'[r].shared = run[r].shared /\ run'[r].listed = run[r].listed
        /\ run'[r].content = remote[i].etag
    BY <1>f, <2>0, <2>2 DEF Run
  <2>4. remote[i].etag > 0 /\ run[r].listed[i] <= remote[i].etag
    BY <2>1, <1>g DEF RaceInv, Growing
  <2>5. Held(r)'
    BY <1>f, <2>0, <2>1, <2>3, <2>4 DEF Held
  <2>6. i \notin contested' => Intact(i)'
    BY <2>1 DEF RaceInv, Intact
  <2> QED BY <1>t, <1>g, <2>0, <2>1, <2>2, <2>3, <2>5, <2>6, RaceMoves
<1>6. ASSUME NEW r \in Runs, ItemFails(r) PROVE RaceInv'
  <2>0. PICK i : i = run[r].item
    OBVIOUS
  <2>1. NextItem(r) /\ UNCHANGED <<remote, ver, disk, ghost>>
    BY <1>6 DEF ItemFails
  <2>2. i \in Items \ contested' => Intact(i)'
    BY <2>1 DEF RaceInv, Intact
  <2> QED BY <1>t, <1>n, <1>g, <2>0, <2>1, <2>2, RaceMoves
<1>7. ASSUME NEW r \in Runs, DeleteOldFile(r) PROVE RaceInv'
  <2>0. PICK i : i = run[r].item
    OBVIOUS
  <2>1. /\ run[r].pc = "replace" /\ i \in Items
        /\ disk' = IF run[r].row.file = 0 THEN disk ELSE [disk EXCEPT ![i][run[r].row.file] = 0]
        /\ run' = [run EXCEPT ![r].pc = "store"]
        /\ UNCHANGED <<remote, ver, ghost, events>>
    BY <1>7, <1>f, <2>0 DEF DeleteOldFile, Holding
  <2>2. /\ run'[r] = [run[r] EXCEPT !.pc = "store"]
        /\ \A k \in Runs \ {r} : run'[k] = run[k]
    BY <1>t, <2>1 DEF TypeInv
  <2>3. /\ run'[r].pc = "store" /\ run'[r].item = i /\ run'[r].row = run[r].row
        /\ run'[r].shared = run[r].shared /\ run'[r].listed = run[r].listed
        /\ run'[r].content = run[r].content
    BY <1>f, <2>0, <2>2 DEF Run
  <2>4. Held(r)'
    BY <1>f, <2>0, <2>1, <2>3 DEF Held
  <2>5. \A k \in Items \ {i} : disk'[k] = disk[k]
    BY <1>t, <2>1 DEF TypeInv, Tables
  <2>6. ASSUME i \notin contested' PROVE Intact(i)'
    <3>1. i \notin contested /\ Intact(i) /\ ~run[r].shared
      BY <1>f, <2>0, <2>1, <2>6 DEF RaceInv, Held
    <3>2. /\ run[r].row.file = ver[i].file /\ run[r].row.etag = ver[i].etag
          /\ run[r].row.file = 0 \/ run[r].row.etag < run[r].listed[i]
      BY <1>0, <1>f, <2>0, <2>1, <3>1 DEF Held
    <3>3. CASE run[r].row.file = 0
      BY <2>1, <3>1, <3>3 DEF Intact
    <3>4. CASE run[r].row.file # 0
      <4>1. ver[i].file \in Names /\ disk[i] \in [Names -> Nat] /\ disk \in [Items -> [Names -> Nat]]
        BY <1>t, <2>1, <3>2, <3>4 DEF TypeInv, Tables, VersionRow
      <4>2. disk'[i][ver[i].file] = 0
        BY <2>1, <3>2, <3>4, <4>1
      <4>3. ver[i].etag \in Nat /\ run[r].listed[i] \in Nat /\ remote[i].etag \in Nat
        BY <1>t, <1>f, <2>1 DEF TypeInv, Tables, VersionRow, RemoteItem, Run
      <4>4. ver[i].etag < remote[i].etag
        BY <1>g, <2>1, <3>2, <3>4, <4>3
      <4> QED BY <2>1, <4>2, <4>4 DEF Intact
    <3> QED BY <3>3, <3>4
  <2> QED BY <1>t, <1>g, <2>0, <2>1, <2>2, <2>3, <2>4, <2>5, <2>6, RaceMoves
<1>8. ASSUME NEW r \in Runs, StoreFile(r) PROVE RaceInv'
  <2>0. PICK i : i = run[r].item
    OBVIOUS
  <2>1. PICK n : n = NewName(i)
    OBVIOUS
  <2> DEFINE row == [run[r].row EXCEPT !.file = n, !.etag = run[r].listed[i]]
             s == [run[r] EXCEPT !.pc = "record", !.content = 0, !.row = row]
  <2>2. /\ run[r].pc = "store" /\ i \in Items /\ n \in Names \ {0}
        /\ disk' = [disk EXCEPT ![i][n] = run[r].content]
        /\ UNCHANGED <<remote, ver, ghost, events>>
    BY <1>8, <1>f, <2>0, <2>1, NewNameIsName DEF StoreFile, Holding
  <2>3. run' = [run EXCEPT ![r] = s]
    BY <1>8, <2>0, <2>1 DEF StoreFile
  <2>4. /\ row.file = n /\ row.etag = run[r].listed[i]
        /\ run[r].content \in Nat /\ run[r].listed[i] \in Nat
    BY <1>f, <2>2 DEF Run, VersionRow
  <2> HIDE DEF row
  <2>5. /\ s.pc = "record" /\ s.item = i /\ s.row = row
        /\ s.shared = run[r].shared /\ s.listed = run[r].listed
    BY <1>f, <2>0 DEF Run
  <2> HIDE DEF s
  <2>6. run'[r] = s /\ \A k \in Runs \ {r} : run'[k] = run[k]
    BY <1>t, <2>3 DEF TypeInv
  <2>7. /\ disk'[i] = [disk[i] EXCEPT ![n] = run[r].content] /\ disk[i] \in [Names -> Nat]
        /\ \A k \in Items \ {i} : disk'[k] = disk[k]
    BY <1>t, <2>2 DEF TypeInv, Tables
  <2>8. run[r].content > 0 /\ run[r].listed[i] <= run[r].content
    BY <1>f, <2>0, <2>2 DEF Held
  <2>9. disk'[i][n] = run[r].content
    BY <2>2, <2>7
  <2>10. Held(r)'
    BY <1>f, <2>0, <2>2, <2>4, <2>5, <2>6, <2>8, <2>9 DEF Held
  <2>11. ASSUME i \notin contested' PROVE Intact(i)'
    <3>1. i \notin contested /\ Intact(i) /\ ~run[r].shared
      BY <1>f, <2>0, <2>2, <2>11 DEF RaceInv, Held
    <3>2. /\ run[r].row.file = ver[i].file /\ run[r].row.etag = ver[i].etag
          /\ run[r].row.file = 0 \/ run[r].row.etag < run[r].listed[i]
      BY <1>0, <1>f, <2>0, <2>2, <3>1 DEF Held
    <3>3. ver[i].etag \in Nat
      BY <1>t, <2>2 DEF TypeInv, Tables, VersionRow
    <3>4. CASE ver[i].file = n
      BY <2>2, <2>4, <2>8, <2>9, <3>2, <3>3, <3>4 DEF Intact
    <3>5. CASE ver[i].file # n
      <4>1. ver[i].file # 0 => disk'[i][ver[i].file] = disk[i][ver[i].file]
        <5>1. ver[i].file # 0 => ver[i].file \in Names
          BY <1>t, <2>2 DEF TypeInv, Tables, VersionRow
        <5> QED BY <2>7, <3>5, <5>1
      <4> QED BY <2>2, <3>1, <4>1 DEF Intact
    <3> QED BY <3>4, <3>5
  <2> QED BY <1>t, <1>g, <2>0, <2>2, <2>5, <2>6, <2>7, <2>10, <2>11, RaceMoves
<1>9. ASSUME NEW r \in Runs, RecordFile(r) PROVE RaceInv'
  <2>0. PICK i : i = run[r].item
    OBVIOUS
  <2>1. /\ run[r].pc = "record" /\ i \in Items /\ NextItem(r)
        /\ ver' = [ver EXCEPT ![i] = run[r].row]
        /\ contested' = IF run[r].shared THEN contested ELSE contested \ {i}
        /\ UNCHANGED <<remote, disk, settled, events>>
    BY <1>9, <1>f, <2>0 DEF RecordFile, Holding
  <2>2. ver'[i] = run[r].row /\ \A k \in Items \ {i} : ver'[k] = ver[k]
    BY <1>t, <2>1 DEF TypeInv, Tables
  <2>3. ASSUME i \notin contested' PROVE Intact(i)'
    <3>1. ~run[r].shared
      BY <1>f, <2>0, <2>1, <2>3 DEF Held
    <3>2. disk[i][run[r].row.file] > 0 /\ run[r].row.etag <= disk[i][run[r].row.file]
      BY <1>0, <1>f, <2>0, <2>1, <3>1 DEF Held
    <3> QED BY <2>1, <2>2, <3>2 DEF Intact
  <2>4. \A k \in Items \ {i} : k \in contested <=> k \in contested'
    BY <2>1
  <2>5. run[r].shared => contested \subseteq contested'
    BY <2>1
  <2> QED BY <1>t, <1>n, <1>g, <2>0, <2>1, <2>2, <2>3, <2>4, <2>5, RaceMoves
<1>10. ASSUME NEW r \in Runs, Choose(r) PROVE RaceInv'
  <2>1. PICK c \in Items : run' = [run EXCEPT ![r].pc = "demote", ![r].chosen = c]
    BY <1>10 DEF Choose, Candidates
  <2>2. run[r].item = 0 /\ UNCHANGED <<remote, ver, disk, ghost>>
    BY <1>10, <1>f DEF Choose, Holding
  <2>3. /\ run'[r] = [run[r] EXCEPT !.pc = "demote", !.chosen = c]
        /\ \A k \in Runs \ {r} : run'[k] = run[k]
    BY <1>t, <2>1 DEF TypeInv
  <2>4. /\ run'[r].pc = "demote" /\ run'[r].item = 0 /\ run'[r].listed = run[r].listed
        /\ run'[r].shared = run[r].shared
    BY <1>f, <2>2, <2>3 DEF Run
  <2>5. run'[r].shared = FALSE
    BY <1>0, <1>f, <1>t, <2>2, <2>4 DEF Held, TypeInv, Tables
  <2>6. Held(r)'
    BY <2>4, <2>5, HeldAfter DEF Holding
  <2> QED BY <1>0, <1>t, <1>g, <2>2, <2>3, <2>4, <2>6, RaceMoves
<1>11. ASSUME NEW r \in Runs, DemoteOthers(r) PROVE RaceInv'
  <2> DEFINE s == [NoRun EXCEPT !.pc = "promote", !.chosen = run[r].chosen,
                                !.alone = run[r].alone]
  <2>1. /\ run[r].pc = "demote" /\ ver' = Demoted(r) /\ run' = [run EXCEPT ![r] = s]
        /\ UNCHANGED <<remote, disk, ghost, events>>
    BY <1>11 DEF DemoteOthers
  <2>2. run[r].item = 0
    BY <1>f, <2>1 DEF Holding
  <2>3. /\ s.pc = "promote" /\ s.item = 0 /\ s.shared = FALSE
        /\ s.listed = [i \in Items |-> 0]
    BY DEF NoRun
  <2> HIDE DEF s
  <2>4. run'[r] = s /\ \A k \in Runs \ {r} : run'[k] = run[k]
    BY <1>t, <2>1 DEF TypeInv
  <2>5. ASSUME NEW i \in Items PROVE ver'[i].file = ver[i].file /\ ver'[i].etag = ver[i].etag
    <3>1. ver[i] \in VersionRow
      BY <1>t DEF TypeInv, Tables
    <3> QED BY <2>1, <3>1 DEF Demoted, VersionRow
  <2>6. Held(r)'
    BY <2>3, <2>4, HeldAfter DEF Holding
  <2>7. \A i \in Items : run'[r].listed[i] <= remote[i].etag
    BY <1>t, <2>3, <2>4 DEF TypeInv, Tables, RemoteItem
  <2> QED BY <1>0, <1>t, <2>1, <2>2, <2>3, <2>4, <2>5, <2>6, <2>7, RaceMoves
<1>12. ASSUME NEW r \in Runs, PromoteChosen(r) \/ Crash(r) PROVE RaceInv'
  <2>0. PICK c : c = run[r].chosen
    OBVIOUS
  <2>1. /\ run' = [run EXCEPT ![r] = NoRun]
        /\ ver' \in {ver, [ver EXCEPT ![c].current = TRUE]}
        /\ UNCHANGED <<remote, disk, contested>>
    BY <1>12, <2>0 DEF PromoteChosen, Crash
  <2>2. /\ NoRun.pc = "idle" /\ NoRun.item = 0 /\ NoRun.shared = FALSE
        /\ NoRun.listed = [i \in Items |-> 0]
    BY DEF NoRun
  <2>3. run'[r] = NoRun /\ \A k \in Runs \ {r} : run'[k] = run[k]
    BY <1>t, <2>1 DEF TypeInv
  <2>4. ASSUME NEW i \in Items PROVE ver'[i].file = ver[i].file /\ ver'[i].etag = ver[i].etag
    <3>1. ver \in [Items -> VersionRow] /\ ver[i] \in VersionRow
      BY <1>t DEF TypeInv, Tables
    <3> QED BY <2>1, <3>1 DEF VersionRow
  <2>5. Held(r)'
    BY <2>2, <2>3, HeldAfter DEF Holding
  <2>6. \A i \in Items : run'[r].listed[i] <= remote[i].etag
    BY <1>t, <2>2, <2>3 DEF TypeInv, Tables, RemoteItem
  <2>7. ASSUME NEW i, i = run[r].item, i \in Items \ contested' PROVE Intact(i)'
    BY <2>1, <2>4, <2>7 DEF RaceInv, Intact
  <2>8. PICK i : i = run[r].item
    OBVIOUS
  <2> QED BY <1>t, <2>1, <2>2, <2>3, <2>4, <2>5, <2>6, <2>7, <2>8, RaceMoves
<1>13. CASE UNCHANGED vars
  BY <1>t, <1>13 DEF vars, RaceInv, Growing, Together, Held, Intact
<1> QED
  BY <1>1, <1>2, <1>3, <1>4, <1>5, <1>6, <1>7, <1>8, <1>9, <1>10, <1>11, <1>12, <1>13
  DEF Next, Work

\* A file is lost or outdated behind its etag only for a contested item, however runs
\* overlap, fail and are killed.
THEOREM OnlyRacesDamage == Spec => []DamageNeedsRace
<1>1. RaceInv => DamageNeedsRace
  BY DEF RaceInv, DamageNeedsRace, Intact
<1> QED BY <1>1, RaceInit, RaceStep, PTL DEF Spec

-----------------------------------------------------------------------------
(* The current version. A run stays alone as long as the other one has not begun, and    *)
(* nobody works on a settled document.                                                   *)

OnlyCurrent(c) == \A i \in Items : ver[i].current <=> i = c

AloneInv ==
  /\ TypeInv
  /\ \A r \in Runs : run[r].alone => run[Other(r)].pc = "idle"
  /\ \A r \in Runs : run[r].pc = "promote" /\ run[r].alone =>
       \A i \in Items \ {run[r].chosen} : ~ver[i].current
  /\ settled => /\ \A r \in Runs : run[r].pc = "idle"
                /\ \E c \in Items : OnlyCurrent(c)

LEMMA AloneInit == Init => AloneInv
<1> SUFFICES ASSUME Init PROVE AloneInv
  OBVIOUS
<1>1. run = [r \in Runs |-> NoRun] /\ settled = FALSE
  BY DEF Init
<1>2. NoRun.pc = "idle" /\ NoRun.alone = FALSE
  BY DEF NoRun
<1>3. \A r \in Runs : run[r].pc = "idle" /\ run[r].alone = FALSE
  BY <1>1, <1>2
<1> QED BY <1>1, <1>3, TypeInit DEF AloneInv

\* The run at work is the only one whose flags matter.
LEMMA AloneMoves ==
  ASSUME AloneInv, TypeInv', NEW r \in Runs, run[r].pc # "idle",
         run'[Other(r)].pc = run[Other(r)].pc, run'[Other(r)].alone = run[Other(r)].alone,
         run'[r].alone => run[r].alone,
         run'[r].pc = "promote" /\ run'[r].alone =>
           \A i \in Items \ {run'[r].chosen} : ~ver'[i].current,
         settled' => /\ settled \/ (run[r].alone /\ run'[r].pc = "idle")
                     /\ settled \/ \E c \in Items : OnlyCurrent(c)'
  PROVE  AloneInv'
<1> DEFINE q == Other(r)
<1>1. q \in Runs /\ q # r /\ Runs = {r, q} /\ Other(q) = r /\ Other(r) = q
  BY OtherRun
<1> HIDE DEF q
<1>2. ~settled /\ ~run[q].alone /\ ~run'[q].alone
  BY <1>1 DEF AloneInv
<1>3. \A k \in Runs : run'[k].alone => run'[Other(k)].pc = "idle"
  BY <1>1, <1>2 DEF AloneInv
<1>4. settled' => \A k \in Runs : run'[k].pc = "idle"
  BY <1>1, <1>2 DEF AloneInv
<1>5. \A k \in Runs : run'[k].pc = "promote" /\ run'[k].alone =>
        \A i \in Items \ {run'[k].chosen} : ~ver'[i].current
  BY <1>1, <1>2
<1> QED BY <1>2, <1>3, <1>4, <1>5 DEF AloneInv

\* A step of r that leaves settled as it was.
LEMMA AloneWorks ==
  ASSUME AloneInv, TypeInv', NEW r \in Runs, run[r].pc # "idle", UNCHANGED settled,
         NEW q \in Runs, q = Other(r),
         run'[q].pc = run[q].pc, run'[q].alone = run[q].alone,
         run'[r].alone => run[r].alone,
         run'[r].pc = "promote" /\ run'[r].alone =>
           \A i \in Items \ {run'[r].chosen} : ~ver'[i].current
  PROVE  AloneInv'
<1>1. ~settled'
  BY DEF AloneInv
<1> QED BY <1>1, AloneMoves

LEMMA AloneStep == AloneInv /\ [Next]_vars => AloneInv'
<1> SUFFICES ASSUME AloneInv, [Next]_vars PROVE AloneInv'
  OBVIOUS
<1>t. TypeInv /\ TypeInv'
  BY TypeStep DEF AloneInv
<1>q. ASSUME NEW r \in Runs
      PROVE  Other(r) \in Runs /\ Other(r) # r /\ Runs = {r, Other(r)} /\ Other(Other(r)) = r
  BY OtherRun
<1>f. ASSUME NEW r \in Runs PROVE run[r] \in Run
  BY <1>t DEF TypeInv
<1>1. ASSUME NEW i \in Items, PutItem(i) \/ WithdrawItem(i) PROVE AloneInv'
  BY <1>t, <1>1 DEF PutItem, WithdrawItem, AloneInv, OnlyCurrent
<1>2. ASSUME NEW r \in Runs, Begin(r) PROVE AloneInv'
  <2>1. PICK q : q = Other(r)
    OBVIOUS
  <2>2. q \in Runs /\ q # r /\ Runs = {r, q} /\ Other(q) = r /\ Other(r) = q
    BY <1>q, <2>1
  <2>3. run'[r].pc = "items" /\ run'[r].alone = (run[q].pc = "idle")
    BY <1>2, <2>1 DEF Begin, NoRun
  <2>4. run'[q].pc = run[q].pc /\ run'[q].alone = FALSE
    <3>1. run'[q] = [run[q] EXCEPT !.alone = FALSE]
      BY <1>2, <2>2 DEF Begin
    <3> QED BY <1>f, <2>2, <3>1 DEF Run
  <2>5. settled' = FALSE
    BY <1>2 DEF Begin
  <2> QED BY <1>t, <2>2, <2>3, <2>4, <2>5 DEF AloneInv
<1>3. ASSUME NEW r \in Runs, NEW i \in Items, GetOrCreate(r, i) PROVE AloneInv'
  <2>1. PICK q : q = Other(r)
    OBVIOUS
  <2>2. q \in Runs /\ q # r
    BY <1>q, <2>1
  <2> DEFINE had   == IF ver[i].exists THEN ver[i] ELSE NewVersion
             both  == run[q].item = i
  <2>3. run' = [k \in Runs |->
            IF k = r THEN [run[k] EXCEPT !.pc = "save", !.left = @ \ {i}, !.item = i,
                                         !.row = had, !.shared = both]
                     ELSE [run[k] EXCEPT !.shared = @ \/ both]]
    BY <1>3, <2>1 DEF GetOrCreate
  <2> HIDE DEF had, both
  <2>4. run'[r].pc = "save" /\ run'[r].alone = run[r].alone
    <3>1. run'[r] = [run[r] EXCEPT !.pc = "save", !.left = @ \ {i}, !.item = i,
                                   !.row = had, !.shared = both]
      BY <2>3
    <3> QED BY <1>f, <3>1 DEF Run
  <2>5. run'[q].pc = run[q].pc /\ run'[q].alone = run[q].alone
    <3>1. run'[q] = [run[q] EXCEPT !.shared = @ \/ both]
      BY <2>2, <2>3
    <3> QED BY <1>f, <2>2, <3>1 DEF Run
  <2>6. run[r].pc = "items" /\ UNCHANGED settled
    BY <1>3 DEF GetOrCreate
  <2> QED BY <1>t, <2>1, <2>2, <2>4, <2>5, <2>6, AloneWorks
\* A step of r that leads neither to promotion nor to its end.
<1>m. ASSUME NEW r \in Runs, NEW pc, run[r].pc # "idle", pc # "promote", UNCHANGED settled,
             \A k \in Runs \ {r} : run'[k] = run[k],
             run'[r].pc = pc, run'[r].alone = run[r].alone
      PROVE  AloneInv'
  <2>1. PICK q : q = Other(r)
    OBVIOUS
  <2>2. q \in Runs \ {r}
    BY <1>q, <2>1
  <2>3. run'[q].pc = run[q].pc /\ run'[q].alone = run[q].alone
    BY <1>m, <2>2
  <2> QED BY <1>t, <1>m, <2>1, <2>2, <2>3, AloneWorks
<1>n. ASSUME NEW r \in Runs, run[r].pc # "idle", NextItem(r), UNCHANGED settled PROVE AloneInv'
  <2>1. /\ run'[r] = [run[r] EXCEPT !.pc = "items", !.item = 0, !.row = NoVersion,
                                    !.content = 0, !.shared = FALSE]
        /\ \A k \in Runs \ {r} : run'[k] = run[k]
    BY <1>t, <1>n DEF NextItem, TypeInv
  <2>2. run'[r].pc = "items" /\ run'[r].alone = run[r].alone
    BY <1>f, <2>1 DEF Run
  <2> QED BY <1>m, <1>n, <2>1, <2>2
<1>4. ASSUME NEW r \in Runs, SaveFields(r) PROVE AloneInv'
  <2>1. run[r].pc = "save" /\ UNCHANGED settled
    BY <1>4 DEF SaveFields
  <2>2. CASE NextItem(r)
    BY <1>n, <2>1, <2>2
  <2>3. CASE run' = [run EXCEPT ![r].pc = "fetch"]
    <3>1. run'[r] = [run[r] EXCEPT !.pc = "fetch"] /\ \A k \in Runs \ {r} : run'[k] = run[k]
      BY <1>t, <2>3 DEF TypeInv
    <3>2. run'[r].pc = "fetch" /\ run'[r].alone = run[r].alone
      BY <1>f, <3>1 DEF Run
    <3> QED BY <1>m, <2>1, <3>1, <3>2
  <2> QED BY <1>4, <2>2, <2>3 DEF SaveFields
<1>5. ASSUME NEW r \in Runs, Fetch(r) PROVE AloneInv'
  <2>1. PICK content : run' = [run EXCEPT ![r].pc = "replace", ![r].content = content]
    BY <1>5 DEF Fetch
  <2>2. /\ run'[r] = [run[r] EXCEPT !.pc = "replace", !.content = content]
        /\ \A k \in Runs \ {r} : run'[k] = run[k]
    BY <1>t, <2>1 DEF TypeInv
  <2>3. run'[r].pc = "replace" /\ run'[r].alone = run[r].alone
    BY <1>f, <2>2 DEF Run
  <2> QED BY <1>m, <1>5, <2>2, <2>3 DEF Fetch
<1>6. ASSUME NEW r \in Runs, ItemFails(r) PROVE AloneInv'
  BY <1>n, <1>6 DEF ItemFails
<1>7. ASSUME NEW r \in Runs, DeleteOldFile(r) PROVE AloneInv'
  <2>1. run'[r] = [run[r] EXCEPT !.pc = "store"] /\ \A k \in Runs \ {r} : run'[k] = run[k]
    BY <1>t, <1>7 DEF DeleteOldFile, TypeInv
  <2>2. run'[r].pc = "store" /\ run'[r].alone = run[r].alone
    BY <1>f, <2>1 DEF Run
  <2> QED BY <1>m, <1>7, <2>1, <2>2 DEF DeleteOldFile
<1>8. ASSUME NEW r \in Runs, StoreFile(r) PROVE AloneInv'
  <2>1. PICK row : run' = [run EXCEPT ![r] =
                             [run[r] EXCEPT !.pc = "record", !.content = 0, !.row = row]]
    BY <1>8 DEF StoreFile
  <2>2. /\ run'[r] = [run[r] EXCEPT !.pc = "record", !.content = 0, !.row = row]
        /\ \A k \in Runs \ {r} : run'[k] = run[k]
    BY <1>t, <2>1 DEF TypeInv
  <2>3. run'[r].pc = "record" /\ run'[r].alone = run[r].alone
    BY <1>f, <2>2 DEF Run
  <2> QED BY <1>m, <1>8, <2>2, <2>3 DEF StoreFile
<1>9. ASSUME NEW r \in Runs, RecordFile(r) PROVE AloneInv'
  BY <1>n, <1>9 DEF RecordFile
<1>10. ASSUME NEW r \in Runs, Choose(r) PROVE AloneInv'
  <2>1. PICK c : run' = [run EXCEPT ![r].pc = "demote", ![r].chosen = c]
    BY <1>10 DEF Choose
  <2>2. /\ run'[r] = [run[r] EXCEPT !.pc = "demote", !.chosen = c]
        /\ \A k \in Runs \ {r} : run'[k] = run[k]
    BY <1>t, <2>1 DEF TypeInv
  <2>3. run'[r].pc = "demote" /\ run'[r].alone = run[r].alone
    BY <1>f, <2>2 DEF Run
  <2> QED BY <1>m, <1>10, <2>2, <2>3 DEF Choose
<1>11. ASSUME NEW r \in Runs, DemoteOthers(r) PROVE AloneInv'
  <2>1. PICK c : c = run[r].chosen
    OBVIOUS
  <2>2. /\ run[r].pc = "demote" /\ ver' = Demoted(r) /\ UNCHANGED settled
        /\ run' = [run EXCEPT ![r] = [NoRun EXCEPT !.pc = "promote", !.chosen = c,
                                                   !.alone = run[r].alone]]
    BY <1>11, <2>1 DEF DemoteOthers
  <2>3. /\ run'[r].pc = "promote" /\ run'[r].chosen = c /\ run'[r].alone = run[r].alone
        /\ \A k \in Runs \ {r} : run'[k] = run[k]
    BY <1>t, <2>2 DEF TypeInv, NoRun
  <2>4. ASSUME NEW i \in Items \ {c} PROVE ~ver'[i].current
    <3>1. ver'[i] = [ver[i] EXCEPT !.current = FALSE] /\ ver[i] \in VersionRow
      BY <1>t, <2>1, <2>2 DEF Demoted, TypeInv, Tables
    <3> QED BY <3>1 DEF VersionRow
  <2>5. PICK q : q = Other(r)
    OBVIOUS
  <2>6. q \in Runs \ {r}
    BY <1>q, <2>5
  <2>7. run'[q].pc = run[q].pc /\ run'[q].alone = run[q].alone
    BY <2>3, <2>6
  <2>8. run[r].pc # "idle" /\ \A i \in Items \ {run'[r].chosen} : ~ver'[i].current
    BY <2>2, <2>3, <2>4
  <2>9. UNCHANGED settled /\ run'[r].alone = run[r].alone
    BY <2>2, <2>3
  <2> QED BY <1>t, <2>5, <2>6, <2>7, <2>8, <2>9, AloneWorks
<1>12. ASSUME NEW r \in Runs, PromoteChosen(r) PROVE AloneInv'
  <2>1. PICK c : c = run[r].chosen
    OBVIOUS
  <2>2. /\ run[r].pc = "promote" /\ ver' = [ver EXCEPT ![c].current = TRUE]
        /\ settled' = run[r].alone /\ run' = [run EXCEPT ![r] = NoRun]
    BY <1>12, <2>1 DEF PromoteChosen
  <2>3. /\ run'[r].pc = "idle" /\ run'[r].alone = FALSE
        /\ \A k \in Runs \ {r} : run'[k] = run[k]
    BY <1>t, <2>2 DEF TypeInv, NoRun
  <2>4. c \in Items
    BY <1>t, <2>1, <2>2 DEF TypeInv, Fits, Run
  <2>5. ASSUME run[r].alone PROVE OnlyCurrent(c)'
    <3>1. \A i \in Items \ {c} : ~ver[i].current
      BY <2>1, <2>2, <2>5 DEF AloneInv
    <3>2. ver'[c] = [ver[c] EXCEPT !.current = TRUE] /\ ver[c] \in VersionRow
          /\ \A i \in Items \ {c} : ver'[i] = ver[i]
      BY <1>t, <2>2, <2>4 DEF TypeInv, Tables
    <3>3. ver'[c].current = TRUE
      BY <3>2 DEF VersionRow
    <3> QED BY <3>1, <3>2, <3>3 DEF OnlyCurrent
  <2> QED BY <1>t, <1>q, <2>2, <2>3, <2>4, <2>5, AloneMoves
<1>13. ASSUME NEW r \in Runs, Crash(r) PROVE AloneInv'
  <2>1. /\ run'[r].pc = "idle" /\ run'[r].alone = FALSE
        /\ \A k \in Runs \ {r} : run'[k] = run[k]
    BY <1>t, <1>13 DEF Crash, TypeInv, NoRun
  <2> QED BY <1>t, <1>q, <1>13, <2>1, AloneMoves DEF Crash
<1>14. CASE UNCHANGED vars
  BY <1>t, <1>14 DEF vars, AloneInv, OnlyCurrent
<1> QED
  BY <1>1, <1>2, <1>3, <1>4, <1>5, <1>6, <1>7, <1>8, <1>9, <1>10, <1>11, <1>12, <1>13, <1>14
  DEF Next, Work

\* A run that had the document to itself leaves exactly one version current, and it stays
\* so until the next run begins, for any number of versions.
THEOREM SettledShowsOneVersion == Spec => []SettledShowsOne
<1>1. ASSUME AloneInv, settled PROVE Cardinality({i \in Items : ver[i].current}) = 1
  <2>1. PICK c \in Items : OnlyCurrent(c)
    BY <1>1 DEF AloneInv
  <2>2. {i \in Items : ver[i].current} = {c}
    BY <2>1 DEF OnlyCurrent
  <2> QED BY <2>2, FS_Singleton
<1>2. AloneInv => SettledShowsOne
  BY <1>1 DEF SettledShowsOne
<1> QED BY <1>2, AloneInit, AloneStep, PTL DEF Spec

=============================================================================
