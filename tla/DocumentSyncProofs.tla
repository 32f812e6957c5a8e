-------------------------- MODULE DocumentSyncProofs --------------------------
(***************************************************************************)
(* Theorems about DocumentSync, for every set of items and numbers, every  *)
(* catalogue and every bound.                                              *)
(***************************************************************************)
EXTENDS DocumentSync, TLAPS

USE DEF db, listing, work, ghost

-----------------------------------------------------------------------------
(* Types. *)

LEMMA NoRecordsTyped ==
  NotListed \in RemoteItem /\ NoDocument \in DocumentRow /\ NoVersion \in VersionRow
BY DEF NotListed, NoDocument, NoVersion, RemoteItem, DocumentRow, VersionRow, NumbersOrNone

LEMMA TypeInit == Init => TypeOK
<1> SUFFICES ASSUME Init PROVE TypeOK
    OBVIOUS
<1>1. /\ remote \in [Items -> RemoteItem]
      /\ listed \in [Items -> RemoteItem]
      /\ doc \in [Numbers -> DocumentRow]
      /\ ver \in [Items -> VersionRow]
      BY NoRecordsTyped DEF Init
<1>2. faults \in 0..MaxFaults
      BY BoundsAssumption DEF Init
<1> QED
    BY <1>1, <1>2 DEF Init, TypeOK, NumbersOrNone, Statements

\* The fields a catalogue entry carries have the types of the columns they fill.
LEMMA CatalogueFields ==
  ASSUME NEW i \in Items, NEW fields \in Catalogue[i]
  PROVE  fields[1] \in NumbersOrNone /\ fields[2] \in Nat /\ fields[3] \in BOOLEAN
<1>1. Catalogue[i] \subseteq (Numbers \cup {NoNumber}) \X Labels \X BOOLEAN
      BY CatalogueAssumption
<1>2. fields \in (Numbers \cup {NoNumber}) \X Labels \X BOOLEAN
      BY <1>1
<1>3. fields[1] \in Numbers \cup {NoNumber} /\ fields[2] \in Labels /\ fields[3] \in BOOLEAN
      BY <1>2
<1> QED
    BY <1>3, LabelsAssumption DEF NumbersOrNone

LEMMA TypeStep == TypeOK /\ [Next]_vars => TypeOK'
<1> SUFFICES ASSUME TypeOK, [Next]_vars
             PROVE  TypeOK'
    OBVIOUS
<1> USE BoundsAssumption, ItemsAssumption, NumbersAssumption
<1>1. ASSUME NEW i \in Items, PutItem(i)
      PROVE  TypeOK'
  <2>1. PICK fields \in Catalogue[i] :
          remote' = [remote EXCEPT ![i] =
            [present |-> TRUE, number |-> fields[1], label |-> fields[2],
             valid |-> fields[3], etag |-> @.etag + 1]]
        BY <1>1 DEF PutItem
  <2>2. remote[i].etag + 1 \in Nat
        BY DEF TypeOK, RemoteItem
  <2>3. remote' \in [Items -> RemoteItem]
        BY <2>1, <2>2, CatalogueFields DEF TypeOK, RemoteItem
  <2> QED
        BY <1>1, <2>3 DEF TypeOK, PutItem
<1>2. ASSUME NEW i \in Items, WithdrawItem(i)
      PROVE  TypeOK'
  <2>1. remote' \in [Items -> RemoteItem]
    <3>1. remote \in [Items -> RemoteItem] /\ remote' = [remote EXCEPT ![i].present = FALSE]
          BY <1>2 DEF TypeOK, WithdrawItem
    <3>2. [remote[i] EXCEPT !.present = FALSE] \in RemoteItem
          BY <3>1 DEF RemoteItem
    <3> QED
        BY <3>1, <3>2
  <2> QED
        BY <1>2, <2>1 DEF TypeOK, WithdrawItem
<1>3. ASSUME NEW limit \in BOOLEAN, StartRun(limit)
      PROVE  TypeOK'
      BY <1>3 DEF TypeOK, StartRun, Statements
<1>4. ASSUME NEW i \in Items, ListItem(i)
      PROVE  TypeOK'
      BY <1>4, NoRecordsTyped DEF TypeOK, ListItem
<1>5. CASE FinishListing
      BY <1>5 DEF TypeOK, FinishListing, Statements
<1>6. ASSUME NEW n \in Numbers, BeginGroup(n)
      PROVE  TypeOK'
      BY <1>6 DEF TypeOK, BeginGroup, Statements, NumbersOrNone
<1>7. CASE GetOrCreateDocument
      BY <1>7 DEF TypeOK, GetOrCreateDocument, Statements, NumbersOrNone, DocumentRow
<1>8. CASE SaveDocument
  <2>1. group \in Numbers
        BY <1>8 DEF TypeOK, SaveDocument, NumbersOrNone
  <2>2. \A i \in Items : SavedDocument(i) \in DocumentRow
        BY DEF TypeOK, SavedDocument, DocumentRow, RemoteItem
  <2>4. doc' \in [Numbers -> DocumentRow]
    <3>1. PICK i \in Newest(GroupOf(group)) : doc' = [doc EXCEPT ![group] = SavedDocument(i)]
          BY <1>8 DEF SaveDocument
    <3>2. i \in Items
          BY DEF Newest, GroupOf
    <3> QED
        BY <2>2, <3>1, <3>2 DEF TypeOK
  <2>3. left' \in SUBSET Items
        BY <1>8 DEF SaveDocument, GroupOf
  <2> QED
        BY <1>8, <2>3, <2>4 DEF TypeOK, SaveDocument, Statements
<1>9. ASSUME NEW i \in Items, RejectVersion(i)
      PROVE  TypeOK'
      BY <1>9 DEF TypeOK, RejectVersion, ItemFails, Statements
<1>10. ASSUME NEW i \in Items, UpsertVersion(i)
       PROVE  TypeOK'
  <2>1. UpsertedRow(i) \in VersionRow
        BY <1>10 DEF TypeOK, UpsertVersion, UpsertedRow, VersionRow, RemoteItem
  <2>2. ver' \in [Items -> VersionRow]
        BY <1>10, <2>1 DEF TypeOK, UpsertVersion
  <2> QED
        BY <1>10, <2>2 DEF TypeOK, UpsertVersion, Statements
<1>11. CASE Fetch
  <2>1. item \in Items
        BY <1>11 DEF TypeOK, Fetch
  <2>2. content' \in Nat
        BY <1>11, <2>1 DEF TypeOK, Fetch, RemoteItem
  <2> QED
        BY <1>11, <2>2 DEF TypeOK, Fetch, Statements
<1>12. CASE FetchFails
       BY <1>12 DEF TypeOK, FetchFails, ItemFails, Statements
<1>13. CASE DeleteOldFile
       BY <1>13 DEF TypeOK, DeleteOldFile, Statements
<1>14. CASE StoreFile
       BY <1>14 DEF TypeOK, StoreFile, Statements
<1>15. CASE RecordFile
  <2>1. item \in Items
        BY <1>15 DEF TypeOK, RecordFile
  <2>2. RecordedRow(item) \in VersionRow
    <3>1. ver[item] \in VersionRow /\ listed[item].etag \in Nat
          BY <2>1 DEF TypeOK, RemoteItem
    <3> QED
        BY <3>1 DEF RecordedRow, VersionRow
  <2>3. ver' \in [Items -> VersionRow] /\ disk' \in [Items -> Nat]
        BY <1>15, <2>2 DEF TypeOK, RecordFile
  <2> QED
        BY <1>15, <2>3 DEF TypeOK, RecordFile, Statements
<1>16. CASE NoCandidate
       BY <1>16 DEF TypeOK, NoCandidate, GroupOver, Statements, NumbersOrNone
<1>17. CASE DemoteOthers
  <2>1. PICK c \in Best(group) : chosen' = c /\ ver' = Demoted(c)
        BY <1>17 DEF DemoteOthers
  <2>2. c \in Items
        BY <2>1 DEF Best, Candidates, Versions
  <2>3. ver' \in [Items -> VersionRow]
    <3>1. ver \in [Items -> VersionRow]
          BY DEF TypeOK
    <3>2. \A i \in Items : [ver[i] EXCEPT !.current = FALSE] \in VersionRow
          BY <3>1 DEF VersionRow
    <3> QED
        BY <2>1, <3>1, <3>2 DEF Demoted
  <2> QED
        BY <1>17, <2>1, <2>2, <2>3 DEF TypeOK, DemoteOthers, Statements
<1>18. CASE PromoteChosen
  <2>1. chosen \in Items /\ group \in Numbers
        BY <1>18 DEF TypeOK, PromoteChosen, NumbersOrNone
  <2>2. ver' \in [Items -> VersionRow]
    <3>1. ver \in [Items -> VersionRow] /\ ver' = [ver EXCEPT ![chosen].current = TRUE]
          BY <1>18 DEF TypeOK, PromoteChosen
    <3>2. [ver[chosen] EXCEPT !.current = TRUE] \in VersionRow
          BY <2>1, <3>1 DEF VersionRow
    <3> QED
        BY <3>1, <3>2
  <2> QED
        BY <1>18, <2>1, <2>2 DEF TypeOK, PromoteChosen, GroupOver, Statements, NumbersOrNone
<1>19. CASE FinishRun
  <2>1. doc' \in [Numbers -> DocumentRow]
    <3>1. doc \in [Numbers -> DocumentRow]
          BY DEF TypeOK
    <3>2. \A n \in Numbers : [doc[n] EXCEPT !.active = FALSE] \in DocumentRow
          BY <3>1 DEF DocumentRow
    <3> QED
        BY <1>19, <3>1, <3>2 DEF FinishRun
  <2> QED
        BY <1>19, <2>1, NoRecordsTyped DEF TypeOK, FinishRun, RunOver, Statements
<1>20. CASE ListingFails
  <2>1. listed' \in [Items -> RemoteItem]
        BY <1>20, NoRecordsTyped DEF ListingFails, RunOver
  <2>2. faults' \in 0..MaxFaults
        BY <1>20 DEF TypeOK, ListingFails
  <2> QED
        BY <1>20, <2>1, <2>2 DEF TypeOK, ListingFails, RunOver, Statements
<1>21. CASE GroupFails
       BY <1>21 DEF TypeOK, GroupFails, GroupOver, Statements, NumbersOrNone
<1>22. CASE StoreFails
       BY <1>22 DEF TypeOK, StoreFails, ItemFails, Statements
<1>23. CASE Crash
  <2>1. listed' \in [Items -> RemoteItem]
        BY <1>23, NoRecordsTyped DEF Crash, RunOver
  <2>2. faults' \in 0..MaxFaults
        BY <1>23 DEF TypeOK, Crash
  <2> QED
        BY <1>23, <2>1, <2>2 DEF TypeOK, Crash, RunOver, Statements, NumbersOrNone
<1>24. CASE UNCHANGED vars
       BY <1>24 DEF TypeOK, vars
<1> QED
  BY <1>1, <1>2, <1>3, <1>4, <1>5, <1>6, <1>7, <1>8, <1>9, <1>10, <1>11, <1>12, <1>13,
     <1>14, <1>15, <1>16, <1>17, <1>18, <1>19, <1>20, <1>21, <1>22, <1>23, <1>24
  DEF Next, SharePoint, RunStep, Fault

\* Type correctness: every reachable state of a sync run has well-typed tables and
\* locals, and a local that a statement reads (the group, the item, the chosen row)
\* is set exactly when that statement can be reached.
THEOREM TypeCorrect == Spec => []TypeOK
BY TypeInit, TypeStep, PTL DEF Spec

-----------------------------------------------------------------------------
(* The files on disk. *)

\* The etags the program holds are a stored one, a listed one and the one of the
\* downloaded content; each is at most as recent as the next.
EtagsOrdered ==
  \A i \in Items :
    /\ ver[i].etag <= remote[i].etag
    /\ listed[i].etag <= remote[i].etag
    /\ remote[i].present => 0 < remote[i].etag
    /\ listed[i].present => 0 < listed[i].etag /\ ver[i].etag <= listed[i].etag
    /\ ver[i].file => ver[i].exists

\* The items still to do were listed, and the one in progress has a row without a
\* file or with an outdated etag.
WorkOutdated ==
  /\ \A i \in left : listed[i].present
  /\ pc \in {"idle", "listing", "groups", "create", "document"} => left = {}
  /\ pc \in {"fetch", "replace", "store", "record"} =>
       /\ listed[item].present /\ ver[item].exists
       /\ ver[item].file => ver[item].etag < listed[item].etag
  /\ pc \in {"replace", "store", "record"} =>
       listed[item].etag <= content /\ content <= remote[item].etag

FileInv ==
  /\ TypeOK
  /\ EtagsOrdered
  /\ WorkOutdated
  /\ LostFileIsRefetched
  /\ FileNotOlderThanEtag

LEMMA FileInit == Init => FileInv
<1> SUFFICES ASSUME Init PROVE FileInv
    OBVIOUS
<1>1. EtagsOrdered /\ LostFileIsRefetched /\ FileNotOlderThanEtag
      BY DEF Init, EtagsOrdered, LostFileIsRefetched, FileNotOlderThanEtag, NotListed, NoVersion
<1>2. WorkOutdated
      BY DEF Init, WorkOutdated
<1> QED
    BY <1>1, <1>2, TypeInit DEF FileInv

LEMMA FileStep == FileInv /\ [Next]_vars => FileInv'
<1> SUFFICES ASSUME FileInv, [Next]_vars
             PROVE  FileInv'
    OBVIOUS
<1> USE DEF EtagsOrdered, WorkOutdated, LostFileIsRefetched, FileNotOlderThanEtag
<1>0. TypeOK /\ TypeOK'
      BY TypeStep DEF FileInv
<1>t. /\ \A i \in Items : /\ remote[i].etag \in Nat /\ listed[i].etag \in Nat
                          /\ ver[i].etag \in Nat /\ disk[i] \in Nat
                          /\ remote[i] \in RemoteItem /\ ver[i] \in VersionRow
      /\ content \in Nat
      BY <1>0 DEF TypeOK, RemoteItem, VersionRow
<1>i. pc \in {"fetch", "replace", "store", "record"} => item \in Items
      BY <1>0 DEF TypeOK
<1>d. disk \in [Items -> Nat]
      BY <1>0 DEF TypeOK
<1>l. left \subseteq Items
      BY <1>0 DEF TypeOK
<1> USE <1>t, <1>i, <1>l DEF FileInv
<1>1. ASSUME NEW i \in Items, PutItem(i)
      PROVE  FileInv'
  <2>1. /\ remote'[i].etag = remote[i].etag + 1
        /\ \A j \in Items : remote[j].etag <= remote'[j].etag
        /\ \A j \in Items : remote'[j].present => 0 < remote'[j].etag
        BY <1>0, <1>1 DEF PutItem, TypeOK, RemoteItem
  <2>2. UNCHANGED <<ver, disk, pc, listed, left, item, content>>
        BY <1>1 DEF PutItem
  <2>3. EtagsOrdered'
        BY <2>1, <2>2, <1>0 DEF TypeOK, RemoteItem
  <2>4. WorkOutdated'
        BY <2>1, <2>2, <1>0 DEF TypeOK, RemoteItem
  <2>5. LostFileIsRefetched' /\ FileNotOlderThanEtag'
        BY <2>1, <2>2, <1>0 DEF TypeOK, RemoteItem
  <2> QED
        BY <1>0, <2>3, <2>4, <2>5
<1>2. ASSUME NEW i \in Items, WithdrawItem(i)
      PROVE  FileInv'
  <2>1. /\ \A j \in Items : remote'[j].etag = remote[j].etag
        /\ \A j \in Items : remote'[j].present => remote[j].present
        BY <1>0, <1>2 DEF WithdrawItem, TypeOK, RemoteItem
  <2>2. UNCHANGED <<ver, disk, pc, listed, left, item, content>>
        BY <1>2 DEF WithdrawItem
  <2> QED
        BY <1>0, <2>1, <2>2
<1>3. ASSUME NEW limit \in BOOLEAN, StartRun(limit)
      PROVE  FileInv'
      BY <1>0, <1>3 DEF StartRun
<1>4. ASSUME NEW i \in Items, ListItem(i)
      PROVE  FileInv'
  <2>1. /\ \A j \in Items \ {i} : listed'[j] = listed[j]
        /\ listed'[i] = IF remote[i].present THEN remote[i] ELSE NotListed
        /\ UNCHANGED <<remote, ver, disk, pc, left, item, content>>
        /\ pc = "listing"
        BY <1>0, <1>4 DEF ListItem, TypeOK
  <2>2. EtagsOrdered'
        BY <1>0, <2>1 DEF NotListed
  <2>3. left = {}
        BY <2>1
  <2> QED
        BY <1>0, <2>1, <2>2, <2>3
<1>5. CASE FinishListing
      BY <1>0, <1>5 DEF FinishListing
<1>6. ASSUME NEW n \in Numbers, BeginGroup(n)
      PROVE  FileInv'
      BY <1>0, <1>6 DEF BeginGroup
<1>7. CASE GetOrCreateDocument
      BY <1>0, <1>7 DEF GetOrCreateDocument
<1>8. CASE SaveDocument
  <2>1. \A i \in left' : listed[i].present
        BY <1>8 DEF SaveDocument, GroupOf
  <2> QED
        BY <1>0, <1>8, <2>1 DEF SaveDocument
<1>9. ASSUME NEW i \in Items, RejectVersion(i)
      PROVE  FileInv'
      BY <1>0, <1>9 DEF RejectVersion, ItemFails
<1>10. ASSUME NEW i \in Items, UpsertVersion(i)
       PROVE  FileInv'
  <2>1. /\ \A j \in Items : ver'[j].etag = ver[j].etag /\ ver'[j].file = ver[j].file
        /\ \A j \in Items : ver[j].exists => ver'[j].exists
        /\ UNCHANGED <<remote, disk, listed, content>>
        /\ i \in left /\ left' \subseteq left /\ pc' \in {"items", "fetch"}
        BY <1>0, <1>10 DEF UpsertVersion, UpsertedRow, TypeOK
  <2>2. pc' = "fetch" => item' = i /\ (EtagChanged(i) \/ ~ver[i].file)
        BY <1>10 DEF UpsertVersion
  <2>3. ver'[i].exists
        BY <1>0, <1>10 DEF UpsertVersion, UpsertedRow, TypeOK
  <2>4. EtagChanged(i) /\ ver[i].file => ver[i].etag < listed[i].etag
        BY <2>1 DEF EtagChanged
  <2> QED
        BY <1>0, <2>1, <2>2, <2>3, <2>4
<1>11. CASE Fetch
       BY <1>0, <1>11 DEF Fetch
<1>12. CASE FetchFails
       BY <1>0, <1>12 DEF FetchFails, ItemFails
<1>13. CASE DeleteOldFile
  <2>1. /\ \A j \in Items \ {item} : disk'[j] = disk[j]
        /\ UNCHANGED <<remote, ver, listed, left, item, content>>
        /\ pc = "replace" /\ pc' = "store"
        BY <1>0, <1>13 DEF DeleteOldFile, TypeOK
  <2>2. disk'[item] = 0
        BY <1>0, <1>13 DEF DeleteOldFile, TypeOK
  <2> QED
        BY <1>0, <2>1, <2>2
<1>14. CASE StoreFile
  <2>1. /\ UNCHANGED <<remote, ver, listed, left, item, content>>
        /\ pc = "store" /\ pc' = "record"
        BY <1>14 DEF StoreFile
  <2>2. UNCHANGED disk \/ disk' = [disk EXCEPT ![item] = content]
        BY <1>14 DEF StoreFile
  <2>3. \A j \in Items : disk'[j] = disk[j] \/ (j = item /\ disk'[j] = content)
    <3>1. CASE UNCHANGED disk
          BY <3>1
    <3>2. CASE disk' = [disk EXCEPT ![item] = content]
          BY <1>d, <3>2
    <3> QED
        BY <2>2, <3>1, <3>2
  <2>4. LostFileIsRefetched' /\ FileNotOlderThanEtag'
        BY <1>0, <2>1, <2>3
  <2>5. EtagsOrdered' /\ WorkOutdated'
        BY <2>1
  <2> QED
        BY <1>0, <2>4, <2>5
<1>15. CASE RecordFile
  <2>1. /\ \A j \in Items \ {item} : ver'[j] = ver[j] /\ disk'[j] = disk[j]
        /\ ver'[item].etag = listed[item].etag
        /\ ver'[item].exists = ver[item].exists
        /\ disk'[item] = content
        /\ ver[item].exists
        /\ UNCHANGED <<remote, listed>>
        /\ left' \subseteq left
        /\ pc = "record" /\ pc' = "items"
        BY <1>0, <1>15 DEF RecordFile, RecordedRow, TypeOK, VersionRow
  <2>2. /\ listed[item].present
        /\ listed[item].etag <= content /\ content <= remote[item].etag
        BY <2>1
  <2>3. EtagsOrdered'
    <3> SUFFICES ASSUME NEW i \in Items
                 PROVE  EtagsOrdered!(i)'
        BY DEF EtagsOrdered
    <3>1. CASE i = item
      <4>1. /\ ver'[i].etag = listed[i].etag
            /\ ver'[i].exists
            /\ listed' = listed /\ remote' = remote
            BY <2>1, <3>1
      <4>2. /\ listed[i].etag <= remote[i].etag
            /\ remote[i].present => 0 < remote[i].etag
            /\ listed[i].present => 0 < listed[i].etag
            BY DEF EtagsOrdered
      <4> QED
          BY <4>1, <4>2
    <3>2. CASE i # item
          BY <2>1, <3>2
    <3> QED
        BY <3>1, <3>2
  <2>4. WorkOutdated'
        BY <2>1
  <2>5. LostFileIsRefetched' /\ FileNotOlderThanEtag'
        BY <2>1, <2>2
  <2> QED
        BY <1>0, <2>3, <2>4, <2>5
<1>16. CASE NoCandidate
       BY <1>0, <1>16 DEF NoCandidate, GroupOver
<1>17. CASE DemoteOthers
  <2>1. /\ \A j \in Items : ver'[j].etag = ver[j].etag /\ ver'[j].file = ver[j].file
        /\ \A j \in Items : ver'[j].exists = ver[j].exists
        /\ UNCHANGED <<remote, disk, listed, left, item, content>>
        /\ pc' = "promote"
        BY <1>0, <1>17 DEF DemoteOthers, Demoted, TypeOK, VersionRow
  <2> QED
        BY <1>0, <2>1
<1>18. CASE PromoteChosen
  <2>1. /\ \A j \in Items : ver'[j].etag = ver[j].etag /\ ver'[j].file = ver[j].file
        /\ \A j \in Items : ver'[j].exists = ver[j].exists
        /\ UNCHANGED <<remote, disk, listed>>
        /\ left' = {} /\ pc' = "groups"
        BY <1>0, <1>18 DEF PromoteChosen, GroupOver, TypeOK, VersionRow
  <2> QED
        BY <1>0, <2>1
<1>19. ASSUME RunOver, UNCHANGED <<remote, ver, disk>>, left' = {}
       PROVE  FileInv'
  <2>1. \A j \in Items : listed'[j] = NotListed
        BY <1>19 DEF RunOver
  <2> QED
        BY <1>0, <1>19, <2>1 DEF RunOver, NotListed
<1>20. CASE FinishRun
       BY <1>0, <1>19, <1>20 DEF FinishRun
<1>21. CASE ListingFails
       BY <1>0, <1>19, <1>21 DEF ListingFails
<1>22. CASE GroupFails
       BY <1>0, <1>22 DEF GroupFails, GroupOver
<1>23. CASE StoreFails
       BY <1>0, <1>23 DEF StoreFails, ItemFails
<1>24. CASE Crash
       BY <1>19, <1>24 DEF Crash
<1>25. CASE UNCHANGED vars
       BY <1>0, <1>25 DEF vars
<1> QED
  BY <1>1, <1>2, <1>3, <1>4, <1>5, <1>6, <1>7, <1>8, <1>9, <1>10, <1>11, <1>12, <1>13, <1>14,
     <1>15, <1>16, <1>17, <1>18, <1>20, <1>21, <1>22, <1>23, <1>24, <1>25
  DEF Next, SharePoint, RunStep, Fault

\* No interruption loses a file for good: at any moment, a row that names a file
\* which is gone has an etag older than SharePoint's, whatever crashed or failed
\* between deleting the old file and saving the row.
THEOREM LostFilesAreRefetched == Spec => []LostFileIsRefetched
<1>1. FileInv => LostFileIsRefetched
      BY DEF FileInv
<1> QED
    BY <1>1, FileInit, FileStep, PTL DEF Spec

\* A stored etag never promises more than the stored file holds, although the
\* listing, the download and the save happen at three different times.
THEOREM FilesNotOlderThanEtags == Spec => []FileNotOlderThanEtag
<1>1. FileInv => FileNotOlderThanEtag
      BY DEF FileInv
<1> QED
    BY <1>1, FileInit, FileStep, PTL DEF Spec

-----------------------------------------------------------------------------
(* The sync implements Mirror. *)

SourceOf(i) == remote[i].etag
ClaimOf(i)  == IF ver[i].file THEN ver[i].etag ELSE 0
CopyOf(i)   == IF ver[i].file THEN disk[i] ELSE 0

\* A step that changes neither etags nor named files is a stutter of the mirror.
LEMMA SameMirror ==
  ASSUME \A i \in Items : SourceOf(i)' = SourceOf(i),
         \A i \in Items : ClaimOf(i)' = ClaimOf(i),
         \A i \in Items : CopyOf(i)' = CopyOf(i)
  PROVE  UNCHANGED Copies!mirrorVars
BY DEF SourceOf, ClaimOf, CopyOf, Copies!mirrorVars

LEMMA MirrorInit == Init => Copies!Init
BY DEF Init, Copies!Init, NotListed, NoVersion

LEMMA MirrorStep == FileInv /\ [Next]_vars => [Copies!Next]_(Copies!mirrorVars)
<1> SUFFICES ASSUME FileInv, [Next]_vars
             PROVE  Copies!Next \/ UNCHANGED Copies!mirrorVars
    OBVIOUS
<1>0. TypeOK /\ EtagsOrdered /\ WorkOutdated /\ LostFileIsRefetched /\ FileNotOlderThanEtag
      BY DEF FileInv
<1>t. /\ remote \in [Items -> RemoteItem] /\ ver \in [Items -> VersionRow]
      /\ disk \in [Items -> Nat] /\ content \in Nat
      /\ pc \in {"fetch", "replace", "store", "record"} => item \in Items
      BY <1>0 DEF TypeOK
<1>n. \A i \in Items : /\ remote[i].etag \in Nat /\ listed[i].etag \in Nat
                       /\ ver[i].etag \in Nat /\ disk[i] \in Nat
      BY <1>0 DEF TypeOK, RemoteItem, VersionRow
<1>s. ASSUME UNCHANGED <<remote, ver, disk>>
      PROVE  UNCHANGED Copies!mirrorVars
      BY <1>s, SameMirror DEF SourceOf, ClaimOf, CopyOf
<1>1. ASSUME NEW i \in Items, PutItem(i)
      PROVE  Copies!Next
  <2>1. /\ UNCHANGED <<ver, disk>>
        /\ \A j \in Items : SourceOf(j)' = IF j = i THEN SourceOf(i) + 1 ELSE SourceOf(j)
        BY <1>1, <1>t DEF PutItem, SourceOf, RemoteItem
  <2>2. Copies!Edit(i)
        BY <2>1 DEF Copies!Edit, SourceOf
  <2> QED
      BY <2>2 DEF Copies!Next
<1>2. ASSUME NEW i \in Items, WithdrawItem(i)
      PROVE  UNCHANGED Copies!mirrorVars
  <2>1. \A j \in Items : SourceOf(j)' = SourceOf(j)
        BY <1>2, <1>t DEF WithdrawItem, SourceOf, RemoteItem
  <2> QED
      BY <1>2, <2>1, SameMirror DEF WithdrawItem, ClaimOf, CopyOf
<1>3. ASSUME UNCHANGED <<remote, disk>>,
             \A j \in Items : ver'[j].file = ver[j].file /\ ver'[j].etag = ver[j].etag
      PROVE  UNCHANGED Copies!mirrorVars
      BY <1>3, SameMirror DEF SourceOf, ClaimOf, CopyOf
<1>4. ASSUME NEW i \in Items, UpsertVersion(i)
      PROVE  UNCHANGED Copies!mirrorVars
      BY <1>3, <1>4, <1>t DEF UpsertVersion, UpsertedRow
<1>5. CASE DemoteOthers
      BY <1>3, <1>5, <1>t DEF DemoteOthers, Demoted, VersionRow
<1>6. CASE PromoteChosen
      BY <1>3, <1>6, <1>t DEF PromoteChosen, VersionRow
<1>7. CASE DeleteOldFile
  <2>1. item \in Items /\ UNCHANGED <<remote, ver>>
        /\ \A j \in Items : disk'[j] = IF j = item THEN 0 ELSE disk[j]
        BY <1>7, <1>t DEF DeleteOldFile
  <2>2. CASE ver[item].file
    <3>1. ver[item].etag < remote[item].etag
          BY <1>0, <1>7, <1>n, <2>1, <2>2 DEF DeleteOldFile, EtagsOrdered, WorkOutdated
    <3>2. Copies!GiveUp(item)
          BY <2>1, <2>2, <3>1 DEF Copies!GiveUp
    <3>3. PICK i \in Items : i = item
          BY <2>1
    <3>4. Copies!GiveUp(i)
          BY <3>2, <3>3 DEF Copies!GiveUp
    <3> QED
        BY <3>4 DEF Copies!Next
  <2>3. CASE ~ver[item].file
        BY <2>1, <2>3, SameMirror DEF SourceOf, ClaimOf, CopyOf
  <2> QED
      BY <2>2, <2>3
<1>8. ASSUME pc \in {"store", "record"}, ver[item].file
      PROVE  ver[item].etag <= content /\ content <= remote[item].etag
      BY <1>0, <1>8, <1>n, <1>t DEF WorkOutdated
<1>9. CASE StoreFile
  <2>1. item \in Items /\ UNCHANGED <<remote, ver>> /\ pc = "store"
        BY <1>9, <1>t DEF StoreFile
  <2>2. CASE UNCHANGED disk
        BY <1>s, <2>1, <2>2
  <2>3. CASE ver[item].file /\ disk' = [disk EXCEPT ![item] = content]
    <3>1. content \in ClaimOf(item)..SourceOf(item)
          BY <1>8, <1>n, <1>t, <2>1, <2>3 DEF ClaimOf, SourceOf
    <3>2. \A j \in Items : CopyOf(j)' = IF j = item THEN content ELSE CopyOf(j)
          BY <1>t, <2>1, <2>3 DEF CopyOf
    <3>3. Copies!Receive(item)
          BY <2>1, <3>1, <3>2 DEF Copies!Receive, ClaimOf, SourceOf, CopyOf
    <3>4. PICK i \in Items : i = item
          BY <2>1
    <3>5. Copies!Receive(i)
          BY <3>3, <3>4 DEF Copies!Receive
    <3> QED
        BY <3>5 DEF Copies!Next
  <2> QED
      BY <1>9, <2>2, <2>3 DEF StoreFile
<1>10. CASE RecordFile
  <2>1. item \in Items /\ UNCHANGED remote /\ pc = "record"
        BY <1>10, <1>t DEF RecordFile
  <2>2. /\ \A j \in Items : ClaimOf(j)' = IF j = item THEN listed[item].etag ELSE ClaimOf(j)
        /\ \A j \in Items : CopyOf(j)' = IF j = item THEN content ELSE CopyOf(j)
        BY <1>10, <1>t, <2>1 DEF RecordFile, RecordedRow, ClaimOf, CopyOf, VersionRow
  <2>3. /\ listed[item].etag <= content /\ content <= remote[item].etag
        /\ ClaimOf(item) <= listed[item].etag
        BY <1>0, <1>n, <2>1 DEF WorkOutdated, ClaimOf
  <2>4. /\ content \in ClaimOf(item)..SourceOf(item)
        /\ listed[item].etag \in ClaimOf(item)..content
        BY <1>n, <1>t, <2>1, <2>3 DEF ClaimOf, SourceOf
  <2>5. Copies!Claim(item)
        BY <2>1, <2>2, <2>4 DEF Copies!Claim, ClaimOf, SourceOf, CopyOf
  <2>6. PICK i \in Items : i = item
        BY <2>1
  <2>7. Copies!Claim(i)
        BY <2>5, <2>6 DEF Copies!Claim
  <2> QED
      BY <2>7 DEF Copies!Next
<1>11. ASSUME NEW i \in Items, ListItem(i) \/ RejectVersion(i)
       PROVE  UNCHANGED Copies!mirrorVars
       BY <1>s, <1>11 DEF ListItem, RejectVersion
<1>12. ASSUME NEW limit \in BOOLEAN, StartRun(limit)
       PROVE  UNCHANGED Copies!mirrorVars
       BY <1>s, <1>12 DEF StartRun
<1>13. ASSUME NEW n \in Numbers, BeginGroup(n)
       PROVE  UNCHANGED Copies!mirrorVars
       BY <1>s, <1>13 DEF BeginGroup
<1>14. CASE \/ FinishListing \/ GetOrCreateDocument \/ SaveDocument \/ Fetch \/ FetchFails
            \/ NoCandidate \/ FinishRun
       BY <1>s, <1>14 DEF FinishListing, GetOrCreateDocument, SaveDocument, Fetch, FetchFails,
         NoCandidate, FinishRun
<1>15. CASE Fault
       BY <1>s, <1>15 DEF Fault, ListingFails, GroupFails, StoreFails, Crash
<1>16. CASE UNCHANGED vars
       BY <1>s, <1>16 DEF vars
<1> QED
  BY <1>1, <1>2, <1>4, <1>5, <1>6, <1>7, <1>9, <1>10, <1>11, <1>12, <1>13, <1>14, <1>15, <1>16
  DEF Next, SharePoint, RunStep

\* The nightly sync implements Mirror, with the etag of a row as the claim and the file
\* it names as the copy, whatever fails and whenever the worker is killed.
THEOREM SyncKeepsPromise == Spec => KeepsPromise
<1>1. Init => Copies!Init
      BY MirrorInit
<1> QED
    BY <1>1, FileInit, FileStep, MirrorStep, PTL DEF Spec, KeepsPromise, Copies!Spec

-----------------------------------------------------------------------------
(* The current flag. *)

OneCurrent(n) ==
  \A i, j \in Items :
    ver[i].current /\ ver[j].current /\ ver[i].number = n /\ ver[j].number = n => i = j

\* A group that a crash or an exception left in two minds may stay so; any other is in
\* order.
OneCurrentOrTorn(n) == n \in torn \/ OneCurrent(n)

FlagsInOrder ==
  /\ \A i \in Items : ver[i].current => ver[i].exists /\ ver[i].number # NoNumber
  /\ \A n \in Numbers : n # group => OneCurrentOrTorn(n)

\* The group in progress is still in order while none of its listed items has a row
\* with the document, and is again once all rows but the chosen one are demoted.
GroupInOrder ==
  /\ pc \in {"create", "document"} => OneCurrentOrTorn(group)
  /\ pc = "items" /\ Versions(group) \cap GroupOf(group) = {} => OneCurrentOrTorn(group)
  /\ pc \in {"items", "fetch", "replace", "store", "record"} => left \subseteq GroupOf(group)
  /\ pc \in {"fetch", "replace", "store", "record"} => item \in Versions(group) \cap GroupOf(group)
  /\ pc = "promote" =>
       /\ chosen \in Versions(group)
       /\ \A j \in Versions(group) : ver[j].current => j = chosen

FlagInv == TypeOK /\ FlagsInOrder /\ GroupInOrder

\* There is nothing to choose from only if no listed item has a row with the document.
LEMMA NoCandidates ==
  ASSUME NEW n, Candidates(n) = {}
  PROVE  Versions(n) \cap GroupOf(n) = {}
BY DEF Candidates

LEMMA CandidatesAreRows ==
  ASSUME NEW n PROVE Candidates(n) \subseteq Versions(n) \cap GroupOf(n)
BY DEF Candidates

\* Flags and numbers of the rows decide; a step that keeps them keeps the order.
LEMMA SameFlags ==
  ASSUME NEW n,
         \A i \in Items : ver'[i].current = ver[i].current /\ ver'[i].number = ver[i].number,
         torn' = torn, OneCurrentOrTorn(n)
  PROVE  OneCurrentOrTorn(n)'
BY DEF OneCurrentOrTorn, OneCurrent

LEMMA FlagInit == Init => FlagInv
<1> SUFFICES ASSUME Init PROVE FlagInv
    OBVIOUS
<1>1. FlagsInOrder
      BY DEF Init, FlagsInOrder, OneCurrentOrTorn, OneCurrent, NoVersion
<1>2. GroupInOrder
      BY DEF Init, GroupInOrder
<1> QED
    BY <1>1, <1>2, TypeInit DEF FlagInv

LEMMA FlagStep == FlagInv /\ [Next]_vars => FlagInv'
<1> SUFFICES ASSUME FlagInv, [Next]_vars
             PROVE  FlagsInOrder' /\ GroupInOrder'
    BY TypeStep DEF FlagInv
<1>0. TypeOK /\ FlagsInOrder /\ GroupInOrder
      BY DEF FlagInv
<1>v. ver \in [Items -> VersionRow] /\ left \subseteq Items /\ group \in NumbersOrNone
      BY <1>0 DEF TypeOK
\* Steps that touch neither the rows nor the group in progress.
<1>a. ASSUME UNCHANGED <<ver, group, torn>>,
             pc' \notin {"create", "document", "items", "fetch", "replace", "store",
                         "record", "promote"}
      PROVE  FlagsInOrder' /\ GroupInOrder'
      BY <1>0, <1>a DEF FlagsInOrder, GroupInOrder, OneCurrentOrTorn, OneCurrent
\* Steps after which no group is in progress and which rewrite no row.
<1>b. ASSUME UNCHANGED <<ver, torn>>, group' = NoNumber, pc' \in {"idle", "groups"},
             group = NoNumber \/ OneCurrentOrTorn(group)
      PROVE  FlagsInOrder' /\ GroupInOrder'
      BY <1>0, <1>b, NumbersAssumption
      DEF FlagsInOrder, GroupInOrder, OneCurrentOrTorn, OneCurrent
\* Steps of _sync_one_version that rewrite no flag and no number.
<1>c. ASSUME \A i \in Items : /\ ver'[i].current = ver[i].current
                              /\ ver'[i].number = ver[i].number
                              /\ ver'[i].exists = ver[i].exists,
             UNCHANGED <<group, torn, listed>>,
             pc \in {"fetch", "replace", "store", "record"},
             \/ pc' \in {"fetch", "replace", "store", "record"} /\ UNCHANGED <<left, item>>
             \/ pc' = "items" /\ left' \subseteq left
      PROVE  FlagsInOrder' /\ GroupInOrder'
  <2>1. /\ Versions(group)' = Versions(group)
        /\ GroupOf(group)' = GroupOf(group)
        BY <1>c DEF Versions, GroupOf
  <2>2. FlagsInOrder'
        BY <1>0, <1>c, SameFlags DEF FlagsInOrder
  <2>3. Versions(group) \cap GroupOf(group) # {}
        BY <1>0, <1>c DEF GroupInOrder
  <2>4. GroupInOrder'
        BY <1>0, <1>c, <2>1, <2>3 DEF GroupInOrder
  <2> QED
        BY <2>2, <2>4
<1>1. CASE SharePoint
  <2>1. UNCHANGED <<ver, group, torn, pc, listed, left, item, chosen>>
        BY <1>1 DEF SharePoint, PutItem, WithdrawItem
  <2> QED
        BY <1>0, <2>1 DEF FlagsInOrder, GroupInOrder, OneCurrentOrTorn, OneCurrent,
          Versions, GroupOf
<1>2. ASSUME NEW limit \in BOOLEAN, StartRun(limit)
      PROVE  FlagsInOrder' /\ GroupInOrder'
      BY <1>2, <1>a DEF StartRun
<1>3. ASSUME NEW i \in Items, ListItem(i)
      PROVE  FlagsInOrder' /\ GroupInOrder'
      BY <1>3, <1>a DEF ListItem
<1>4. CASE FinishListing
      BY <1>4, <1>a DEF FinishListing
<1>5. ASSUME NEW n \in Numbers, BeginGroup(n)
      PROVE  FlagsInOrder' /\ GroupInOrder'
  <2>1. group = NoNumber
        BY <1>0, <1>5 DEF BeginGroup, TypeOK
  <2>2. \A m \in Numbers : OneCurrentOrTorn(m)
        BY <1>0, <2>1, NumbersAssumption DEF FlagsInOrder
  <2>3. UNCHANGED <<ver, torn>> /\ group' = n /\ pc' = "create"
        BY <1>5 DEF BeginGroup
  <2> QED
        BY <1>0, <2>2, <2>3 DEF FlagsInOrder, GroupInOrder, OneCurrentOrTorn, OneCurrent
<1>6. CASE GetOrCreateDocument
  <2>1. UNCHANGED <<ver, torn, group>> /\ pc = "create" /\ pc' = "document"
        BY <1>6 DEF GetOrCreateDocument
  <2> QED
        BY <1>0, <2>1 DEF FlagsInOrder, GroupInOrder, OneCurrentOrTorn, OneCurrent
<1>7. CASE SaveDocument
  <2>1. /\ UNCHANGED <<ver, torn, group, listed>>
        /\ pc = "document" /\ pc' = "items" /\ left' = GroupOf(group)
        BY <1>7 DEF SaveDocument
  <2> QED
        BY <1>0, <2>1 DEF FlagsInOrder, GroupInOrder, OneCurrentOrTorn, OneCurrent,
          Versions, GroupOf
<1>8. ASSUME NEW i \in Items, RejectVersion(i)
      PROVE  FlagsInOrder' /\ GroupInOrder'
  <2>1. /\ UNCHANGED <<ver, torn, group, listed>>
        /\ pc = "items" /\ pc' = "items" /\ left' \subseteq left
        BY <1>8 DEF RejectVersion, ItemFails
  <2> QED
        BY <1>0, <2>1 DEF FlagsInOrder, GroupInOrder, OneCurrentOrTorn, OneCurrent,
          Versions, GroupOf
<1>9. ASSUME NEW i \in Items, UpsertVersion(i)
      PROVE  FlagsInOrder' /\ GroupInOrder'
  <2>1. /\ ver' = [ver EXCEPT ![i] = UpsertedRow(i)]
        /\ UNCHANGED <<torn, group, listed>>
        /\ pc = "items"
        /\ i \in left
        /\ \/ pc' = "fetch" /\ item' = i /\ left' = left
           \/ pc' = "items" /\ left' = left \ {i}
        BY <1>9 DEF UpsertVersion
  <2>2. /\ ver'[i] = UpsertedRow(i)
        /\ \A j \in Items \ {i} : ver'[j] = ver[j]
        BY <1>v, <2>1
  <2>3. ver'[i].exists /\ ver'[i].number = group
        BY <2>2 DEF UpsertedRow
  <2>4. group # NoNumber
        BY <1>0, <2>1 DEF TypeOK
  <2>5. \A n \in Numbers : n # group => OneCurrentOrTorn(n)'
    <3> SUFFICES ASSUME NEW n \in Numbers, n # group, n \notin torn
                 PROVE  OneCurrent(n)'
        BY <2>1 DEF OneCurrentOrTorn
    <3>1. OneCurrent(n)
          BY <1>0 DEF FlagsInOrder, OneCurrentOrTorn
    <3> QED
        BY <3>1, <2>2, <2>3 DEF OneCurrent
  <2>6. FlagsInOrder'
        BY <1>0, <2>1, <2>2, <2>3, <2>4, <2>5 DEF FlagsInOrder
  <2>7. left \subseteq GroupOf(group) /\ GroupOf(group)' = GroupOf(group)
        BY <1>0, <2>1 DEF GroupInOrder, GroupOf
  <2>8. i \in (Versions(group) \cap GroupOf(group))'
        BY <2>1, <2>3, <2>7 DEF Versions
  <2>9. GroupInOrder'
        BY <2>1, <2>7, <2>8 DEF GroupInOrder
  <2> QED
        BY <2>6, <2>9
<1>10. CASE Fetch
       BY <1>10, <1>c DEF Fetch
<1>11. CASE FetchFails
       BY <1>11, <1>c DEF FetchFails, ItemFails
<1>12. CASE DeleteOldFile
       BY <1>12, <1>c DEF DeleteOldFile
<1>13. CASE StoreFile
       BY <1>13, <1>c DEF StoreFile
<1>14. CASE StoreFails
       BY <1>14, <1>c DEF StoreFails, ItemFails
<1>15. CASE RecordFile
  <2>1. /\ ver' = [ver EXCEPT ![item] = RecordedRow(item)]
        /\ UNCHANGED <<group, torn, listed>>
        /\ pc = "record" /\ pc' = "items" /\ left' \subseteq left
        BY <1>15 DEF RecordFile
  <2>2. \A i \in Items : /\ ver'[i].current = ver[i].current
                         /\ ver'[i].number = ver[i].number
                         /\ ver'[i].exists = ver[i].exists
        BY <1>v, <2>1 DEF RecordedRow, VersionRow
  <2> QED
        BY <2>1, <2>2, <1>c
<1>16. CASE NoCandidate
  <2>1. OneCurrentOrTorn(group)
        BY <1>0, <1>16, NoCandidates DEF NoCandidate, GroupInOrder
  <2> QED
        BY <1>16, <2>1, <1>b DEF NoCandidate, GroupOver
<1>17. CASE DemoteOthers
  <2>1. PICK c \in Best(group) : chosen' = c /\ ver' = Demoted(c)
        BY <1>17 DEF DemoteOthers
  <2>2. UNCHANGED <<torn, group>> /\ pc' = "promote"
        BY <1>17 DEF DemoteOthers
  <2>3. \A i \in Items : /\ ver'[i].exists = ver[i].exists
                         /\ ver'[i].number = ver[i].number
                         /\ ver'[i].current => ver[i].current
                         /\ i \in Versions(group) /\ i # c => ~ver'[i].current
        BY <1>v, <2>1 DEF Demoted, VersionRow
  <2>4. FlagsInOrder'
        BY <1>0, <2>2, <2>3 DEF FlagsInOrder, OneCurrentOrTorn, OneCurrent
  <2>5. c \in Versions(group)
        BY <2>1, CandidatesAreRows DEF Best
  <2>6. GroupInOrder'
        BY <2>1, <2>2, <2>3, <2>5 DEF GroupInOrder, Versions
  <2> QED
        BY <2>4, <2>6
<1>18. CASE PromoteChosen
  <2>1. /\ ver' = [ver EXCEPT ![chosen].current = TRUE]
        /\ torn' = torn \ {group}
        /\ pc = "promote" /\ pc' = "groups" /\ group' = NoNumber
        BY <1>18 DEF PromoteChosen, GroupOver
  <2>2. group \in Numbers /\ chosen \in Items
        BY <1>0, <1>v, <2>1 DEF TypeOK, NumbersOrNone
  <2>3. chosen \in Versions(group) /\ \A j \in Versions(group) : ver[j].current => j = chosen
        BY <1>0, <2>1 DEF GroupInOrder
  <2>4. /\ \A j \in Items : ver'[j].exists = ver[j].exists /\ ver'[j].number = ver[j].number
        /\ \A j \in Items \ {chosen} : ver'[j].current = ver[j].current
        BY <1>v, <2>1 DEF VersionRow
  <2>5. ver[chosen].exists /\ ver[chosen].number = group
        BY <2>3 DEF Versions
  <2>g. PICK g \in Numbers : g = group
        BY <2>2
  <2>6. OneCurrent(g)'
    <3>1. ASSUME NEW j \in Items, ver'[j].current, ver'[j].number = g
          PROVE  j = chosen
      <4>1. CASE j # chosen
        <5>1. ver[j].current /\ ver[j].number = group
              BY <2>4, <2>g, <3>1, <4>1
        <5>2. ver[j].exists
              BY <1>0, <5>1 DEF FlagsInOrder
        <5> QED
            BY <2>3, <5>1, <5>2 DEF Versions
      <4> QED
          BY <4>1
    <3> QED
        BY <3>1 DEF OneCurrent
  <2>7. \A n \in Numbers : n # group => OneCurrentOrTorn(n)'
        BY <1>0, <2>1, <2>4, <2>5 DEF FlagsInOrder, OneCurrentOrTorn, OneCurrent
  <2>8. FlagsInOrder'
    <3>1. \A i \in Items : ver'[i].current => ver'[i].exists /\ ver'[i].number # NoNumber
      <4> SUFFICES ASSUME NEW i \in Items, ver'[i].current
                   PROVE  ver'[i].exists /\ ver'[i].number # NoNumber
          OBVIOUS
      <4>1. CASE i = chosen
            BY <2>2, <2>4, <2>5, <4>1, NumbersAssumption
      <4>2. CASE i # chosen
            BY <1>0, <2>4, <4>2 DEF FlagsInOrder
      <4> QED
          BY <4>1, <4>2
    <3>2. \A n \in Numbers : OneCurrentOrTorn(n)'
          BY <2>6, <2>7, <2>g DEF OneCurrentOrTorn
    <3> QED
        BY <3>1, <3>2 DEF FlagsInOrder
  <2>9. GroupInOrder'
        BY <2>1 DEF GroupInOrder
  <2> QED
        BY <2>8, <2>9
<1>19. CASE FinishRun
       BY <1>19, <1>a DEF FinishRun, RunOver
<1>20. CASE ListingFails
       BY <1>20, <1>a DEF ListingFails, RunOver
<1>21. CASE GroupFails
  <2>1. CASE pc \in {"create", "document"}
    <3>1. OneCurrentOrTorn(group)
          BY <1>0, <2>1 DEF GroupInOrder
    <3> QED
        BY <1>21, <2>1, <3>1, <1>b DEF GroupFails, GroupOver
  <2>2. CASE pc \notin {"create", "document"}
    <3>1. UNCHANGED ver /\ group' = NoNumber /\ pc' = "groups" /\ torn' = torn \cup {group}
          BY <1>21, <2>2 DEF GroupFails, GroupOver
    <3>2. FlagsInOrder'
          BY <1>0, <3>1, NumbersAssumption DEF FlagsInOrder, OneCurrentOrTorn, OneCurrent
    <3>3. GroupInOrder'
          BY <3>1 DEF GroupInOrder
    <3> QED
        BY <3>2, <3>3
  <2> QED
      BY <2>1, <2>2
<1>22. CASE Crash
  <2>1. /\ UNCHANGED ver /\ group' = NoNumber /\ pc' = "idle"
        /\ torn \subseteq torn'
        /\ group = NoNumber \/ group \in torn'
        BY <1>22 DEF Crash, RunOver
  <2>2. FlagsInOrder'
        BY <1>0, <2>1, NumbersAssumption DEF FlagsInOrder, OneCurrentOrTorn, OneCurrent
  <2>3. GroupInOrder'
        BY <2>1 DEF GroupInOrder
  <2> QED
        BY <2>2, <2>3
<1>23. CASE UNCHANGED vars
       BY <1>0, <1>23 DEF vars, FlagsInOrder, GroupInOrder, OneCurrentOrTorn, OneCurrent,
         Versions, GroupOf
<1> QED
  BY <1>1, <1>2, <1>3, <1>4, <1>5, <1>6, <1>7, <1>8, <1>9, <1>10, <1>11, <1>12, <1>13, <1>14,
     <1>15, <1>16, <1>17, <1>18, <1>19, <1>20, <1>21, <1>22, <1>23
  DEF Next, RunStep, Fault

\* However the two UPDATEs of _set_current_version interleave with crashes, exceptions
\* and edits in SharePoint, two current versions of one document only ever meet in
\* the group being processed or in one that a crash, or an exception outside the loop
\* over the items, cut short.
THEOREM OneCurrentVersion == Spec => []AtMostOneCurrent
<1>1. FlagInv => AtMostOneCurrent
  <2> SUFFICES ASSUME FlagInv, NEW i \in Items, NEW j \in Items,
                      ver[i].current, ver[j].current, ver[i].number = ver[j].number,
                      ver[i].number \notin torn \cup {group}
               PROVE  i = j
      BY DEF AtMostOneCurrent
  <2>1. ver[i].number \in Numbers
        BY DEF FlagInv, FlagsInOrder, TypeOK, VersionRow, NumbersOrNone
  <2> QED
      BY <2>1 DEF FlagInv, FlagsInOrder, OneCurrentOrTorn, OneCurrent
<1> QED
    BY <1>1, FlagInit, FlagStep, PTL DEF Spec

-----------------------------------------------------------------------------
(* Why a document is switched off. *)

\* Only a run that is reading its listing has pages left to fetch.
ListingInv == TypeOK /\ (pc # "listing" => unread = {})

LEMMA ListingStep == ListingInv /\ [Next]_vars => ListingInv'
<1> SUFFICES ASSUME ListingInv, [Next]_vars
             PROVE  pc' # "listing" => unread' = {}
    BY TypeStep DEF ListingInv
<1> USE DEF ListingInv
<1>1. CASE SharePoint
      BY <1>1 DEF SharePoint, PutItem, WithdrawItem
<1>2. ASSUME NEW limit \in BOOLEAN, StartRun(limit)
      PROVE  pc' # "listing" => unread' = {}
      BY <1>2 DEF StartRun
<1>3. ASSUME NEW i \in Items, ListItem(i) \/ RejectVersion(i) \/ UpsertVersion(i)
      PROVE  pc' # "listing" => unread' = {}
      BY <1>3 DEF ListItem, RejectVersion, UpsertVersion, ItemFails
<1>4. ASSUME NEW n \in Numbers, BeginGroup(n)
      PROVE  pc' # "listing" => unread' = {}
      BY <1>4 DEF BeginGroup
<1>5. CASE FinishListing \/ FinishRun \/ ListingFails \/ Crash
      BY <1>5 DEF FinishListing, FinishRun, ListingFails, Crash, RunOver
<1>6. CASE GetOrCreateDocument \/ SaveDocument \/ NoCandidate \/ DemoteOthers \/ PromoteChosen
             \/ GroupFails
      BY <1>6 DEF GetOrCreateDocument, SaveDocument, NoCandidate, DemoteOthers, PromoteChosen,
        GroupFails, GroupOver
<1>7. CASE Fetch \/ FetchFails \/ DeleteOldFile \/ StoreFile \/ StoreFails \/ RecordFile
      BY <1>7 DEF Fetch, FetchFails, DeleteOldFile, StoreFile, StoreFails, RecordFile, ItemFails
<1>8. CASE UNCHANGED vars
      BY <1>8 DEF vars
<1> QED
    BY <1>1, <1>2, <1>3, <1>4, <1>5, <1>6, <1>7, <1>8 DEF Next, RunStep, Fault

\* What DeactivationJustified says of one step.
Justified ==
  \A n \in Numbers : doc[n].active /\ ~doc'[n].active =>
    \/ \E i \in Newest(GroupOf(n)) : ~listed[i].valid
    \/ unread = {} /\ ~limited /\ GroupOf(n) = {}

LEMMA StepJustified == ListingInv /\ [Next]_vars => Justified
<1> SUFFICES ASSUME ListingInv, [Next]_vars
             PROVE  Justified
    OBVIOUS
<1>d. doc \in [Numbers -> DocumentRow] /\ group \in NumbersOrNone
      BY DEF ListingInv, TypeOK
<1>1. CASE UNCHANGED doc
      BY <1>1 DEF Justified
<1>2. CASE GetOrCreateDocument
      BY <1>d, <1>2 DEF GetOrCreateDocument, Justified
<1>3. CASE SaveDocument
  <2>1. PICK i \in Newest(GroupOf(group)) : doc' = [doc EXCEPT ![group] = SavedDocument(i)]
        BY <1>3 DEF SaveDocument
  <2>2. SavedDocument(i).active = listed[i].valid
        BY DEF SavedDocument
  <2>3. ASSUME NEW n \in Numbers, doc[n].active, ~doc'[n].active
        PROVE  \E j \in Newest(GroupOf(n)) : ~listed[j].valid
    <3>1. n = group
          BY <1>d, <2>1, <2>3
    <3>2. doc'[n] = SavedDocument(i)
          BY <1>d, <2>1, <3>1
    <3> QED
        BY <2>1, <2>2, <2>3, <3>1, <3>2
  <2> QED
      BY <2>3 DEF Justified
<1>4. CASE FinishRun
  <2>1. ASSUME NEW n \in Numbers, doc[n].active, ~doc'[n].active
        PROVE  unread = {} /\ ~limited /\ GroupOf(n) = {}
    <3>1. ~limited /\ n \in Unseen
          BY <1>d, <1>4, <2>1 DEF FinishRun
    <3>2. n \notin ListedNumbers
          BY <1>4, <3>1 DEF FinishRun, Unseen
    <3>3. unread = {}
          BY <1>4 DEF FinishRun, ListingInv
    <3> QED
        BY <3>1, <3>2, <3>3 DEF ListedNumbers
  <2> QED
      BY <2>1 DEF Justified
<1>5. ASSUME NEW i \in Items, ListItem(i) \/ RejectVersion(i) \/ UpsertVersion(i)
      PROVE  UNCHANGED doc
      BY <1>5 DEF ListItem, RejectVersion, UpsertVersion
<1>6. ASSUME NEW n \in Numbers, BeginGroup(n)
      PROVE  UNCHANGED doc
      BY <1>6 DEF BeginGroup
<1>7. ASSUME NEW limit \in BOOLEAN, StartRun(limit)
      PROVE  UNCHANGED doc
      BY <1>7 DEF StartRun
<1>8. CASE FinishListing \/ Fetch \/ FetchFails \/ DeleteOldFile \/ StoreFile \/ RecordFile
             \/ NoCandidate \/ DemoteOthers \/ PromoteChosen
      BY <1>1, <1>8 DEF FinishListing, Fetch, FetchFails, DeleteOldFile, StoreFile, RecordFile,
        NoCandidate, DemoteOthers, PromoteChosen
<1>9. CASE SharePoint \/ Fault \/ UNCHANGED vars
      BY <1>1, <1>9 DEF SharePoint, PutItem, WithdrawItem, Fault, ListingFails, GroupFails,
        StoreFails, Crash, vars
<1> QED
    BY <1>1, <1>2, <1>3, <1>4, <1>5, <1>6, <1>7, <1>8, <1>9 DEF Next, RunStep

\* No failure, no crash and no limited run switches a document off: only its newest
\* listed item, or a complete listing that does not mention it, does.
THEOREM DeactivationsJustified == Spec => DeactivationJustified
<1>1. Init => ListingInv
      BY TypeInit DEF Init, ListingInv
<1>2. Justified => [\A n \in Numbers : doc[n].active /\ ~doc'[n].active =>
                      \/ \E i \in Newest(GroupOf(n)) : ~listed[i].valid
                      \/ unread = {} /\ ~limited /\ GroupOf(n) = {}]_vars
      BY DEF Justified
<1> QED
    BY <1>1, <1>2, ListingStep, StepJustified, PTL DEF Spec, DeactivationJustified

-----------------------------------------------------------------------------
(* What a completed group shows. *)

InLoop == {"items", "fetch", "replace", "store", "record"}

\* A group in progress has been seen and is not settled yet; nothing is settled while
\* the listing still grows.
Books ==
  /\ pc \in {"idle", "listing"} => settled = {}
  /\ settled \subseteq seen
  /\ group # NoNumber => group \in seen \ settled

\* The unique index on (document, version_label).
LabelsUnique ==
  \A i, j \in Items :
    ver[i].exists /\ ver[j].exists /\ ver[i].number = ver[j].number
      /\ ver[i].label = ver[j].label => i = j

\* The items of the group that are neither to be done nor failed have a row with the
\* document, their listed label and a file.
HandledAreStored ==
  /\ pc \in InLoop =>
       \A i \in GroupOf(group) \ (left \cup failed) :
         i \in Versions(group) /\ ver[i].label = listed[i].label /\ ver[i].file
  /\ pc \in {"fetch", "replace", "store", "record"} =>
       item \in left /\ ver[item].label = listed[item].label

\* What makes the chosen row the right one.
ChosenWell ==
  pc = "promote" =>
    /\ ver[chosen].file \/ \A i \in Versions(group) \cap GroupOf(group) : ~ver[i].file
    /\ GroupOf(group) \cap failed = {} => Newest(GroupOf(group)) = {chosen}

GroupInv ==
  /\ FlagInv
  /\ Books
  /\ LabelsUnique
  /\ HandledAreStored
  /\ ChosenWell
  /\ ReadablePreferred
  /\ CleanGroupShowsNewest

\* Completed groups keep what they show while another one is worked on: only rows of the
\* group in progress change, or rows of its items, which no other group lists.
LEMMA SettledStay ==
  ASSUME GroupInv, group \in Numbers,
         listed' = listed, settled' = settled, failed \subseteq failed',
         \A i \in Items :
           \/ ver'[i] = ver[i]
           \/ /\ ver'[i].number = group
              /\ ver[i].number = group \/ i \in GroupOf(group)
  PROVE  ReadablePreferred' /\ CleanGroupShowsNewest'
<1>1. ASSUME NEW n \in settled
      PROVE  /\ n # group
             /\ GroupOf(n)' = GroupOf(n)
             /\ Newest(GroupOf(n))' = Newest(GroupOf(n))
             /\ Versions(n)' \subseteq Versions(n)
             /\ \A i \in Versions(n) : i \notin Versions(n)' => i \notin GroupOf(n)
             /\ \A i \in Versions(n)' : ver'[i] = ver[i]
  <2>1. n # group
        BY <1>1, NumbersAssumption DEF GroupInv, Books
  <2>2. GroupOf(n)' = GroupOf(n) /\ Newest(GroupOf(n))' = Newest(GroupOf(n))
        BY DEF GroupOf, Newest
  <2>3. \A i \in Versions(n)' : ver'[i] = ver[i]
        BY <2>1 DEF Versions
  <2>4. Versions(n)' \subseteq Versions(n)
        BY <2>3 DEF Versions
  <2>5. \A i \in Versions(n) : i \notin Versions(n)' => i \notin GroupOf(n)
        BY <2>1 DEF Versions, GroupOf
  <2> QED
      BY <2>1, <2>2, <2>3, <2>4, <2>5
<1>2. ReadablePreferred'
  <2> SUFFICES ASSUME NEW n \in settled, NEW c \in Versions(n)',
                      ver'[c].current, ~ver'[c].file,
                      NEW i \in (Versions(n) \cap GroupOf(n))'
               PROVE  ~ver'[i].file
      BY DEF ReadablePreferred
  <2>1. c \in Versions(n) /\ ver[c].current /\ ~ver[c].file
        BY <1>1
  <2>2. i \in Versions(n) \cap GroupOf(n) /\ ver'[i] = ver[i]
        BY <1>1
  <2> QED
      BY <2>1, <2>2 DEF GroupInv, ReadablePreferred
<1>3. CleanGroupShowsNewest'
  <2> SUFFICES ASSUME NEW n \in settled, GroupOf(n)' \cap failed' = {}
               PROVE  {i \in Versions(n)' : ver'[i].current} = Newest(GroupOf(n))'
      BY DEF CleanGroupShowsNewest
  <2>1. {i \in Versions(n) : ver[i].current} = Newest(GroupOf(n))
        BY <1>1 DEF GroupInv, CleanGroupShowsNewest
  <2>2. Newest(GroupOf(n)) \subseteq GroupOf(n)
        BY DEF Newest
  <2>3. \A i \in Versions(n) : ver[i].current => i \in Versions(n)'
        BY <1>1, <2>1, <2>2
  <2>4. {i \in Versions(n)' : ver'[i].current} = {i \in Versions(n) : ver[i].current}
        BY <1>1, <2>3
  <2> QED
      BY <1>1, <2>1, <2>4
<1> QED
    BY <1>2, <1>3

\* A group whose items were all stored is decided by the listed labels.
LEMMA NewestIsBest ==
  ASSUME GroupInv, pc = "items", left = {}, GroupOf(group) \cap failed = {},
         NEW c \in Best(group)
  PROVE  Newest(GroupOf(group)) = {c}
<1>1. \A i \in GroupOf(group) :
        i \in Versions(group) /\ ver[i].label = listed[i].label /\ ver[i].file
      BY DEF GroupInv, HandledAreStored, InLoop
<1>2. Candidates(group) = GroupOf(group)
  <2>1. Candidates(group) \subseteq GroupOf(group)
        BY CandidatesAreRows
  <2>2. ASSUME NEW i \in GroupOf(group)
        PROVE  i \in Candidates(group)
        BY <1>1, <2>2 DEF Candidates
  <2> QED
      BY <2>1, <2>2
<1>3. c \in GroupOf(group) /\ \A j \in GroupOf(group) : listed[j].label <= listed[c].label
      BY <1>1, <1>2 DEF Best
<1>4. ASSUME NEW i \in GroupOf(group), \A j \in GroupOf(group) : listed[j].label <= listed[i].label
      PROVE  i = c
  <2>1. listed[i].label \in Nat /\ listed[c].label \in Nat
        BY <1>3, <1>4 DEF GroupInv, FlagInv, TypeOK, RemoteItem, GroupOf
  <2>2. listed[i].label = listed[c].label
        BY <1>3, <1>4, <2>1
  <2>3. ver[i].label = ver[c].label /\ i \in Versions(group) /\ c \in Versions(group)
        BY <1>1, <1>3, <1>4, <2>2
  <2> QED
      BY <2>3 DEF GroupInv, LabelsUnique, Versions
<1> QED
    BY <1>3, <1>4 DEF Newest

LEMMA GroupInit == Init => GroupInv
<1> SUFFICES ASSUME Init PROVE GroupInv
    OBVIOUS
<1>1. Books /\ LabelsUnique /\ HandledAreStored /\ ChosenWell
      BY DEF Init, Books, LabelsUnique, HandledAreStored, ChosenWell, NoVersion, InLoop
<1>2. ReadablePreferred /\ CleanGroupShowsNewest
      BY DEF Init, ReadablePreferred, CleanGroupShowsNewest
<1> QED
    BY <1>1, <1>2, FlagInit DEF GroupInv

LEMMA GroupStep == GroupInv /\ [Next]_vars => GroupInv'
<1> SUFFICES ASSUME GroupInv, [Next]_vars
             PROVE  /\ Books' /\ LabelsUnique' /\ HandledAreStored' /\ ChosenWell'
                    /\ ReadablePreferred' /\ CleanGroupShowsNewest'
    BY FlagStep DEF GroupInv
<1> DEFINE Goal == /\ Books' /\ LabelsUnique' /\ HandledAreStored' /\ ChosenWell'
                   /\ ReadablePreferred' /\ CleanGroupShowsNewest'
<1>t. TypeOK /\ TypeOK'
      BY TypeStep DEF GroupInv, FlagInv
<1>v. ver \in [Items -> VersionRow] /\ listed \in [Items -> RemoteItem] /\ left \subseteq Items
      BY <1>t DEF TypeOK
<1>g. pc \in InLoop \cup {"create", "document", "promote"} => group \in Numbers
      BY <1>t DEF TypeOK, NumbersOrNone, InLoop
<1>p. GroupInOrder
      BY DEF GroupInv, FlagInv
\* Steps after which nothing is settled and no group in progress.
<1>a. ASSUME UNCHANGED ver, settled' = {}, group' = NoNumber,
             pc' \in {"idle", "listing", "groups"}
      PROVE  Goal
  <2>1. Books' /\ HandledAreStored' /\ ChosenWell' /\ ReadablePreferred' /\ CleanGroupShowsNewest'
        BY <1>a DEF Books, HandledAreStored, ChosenWell, ReadablePreferred,
          CleanGroupShowsNewest, InLoop
  <2>2. LabelsUnique'
        BY <1>a DEF GroupInv, LabelsUnique
  <2> QED
      BY <2>1, <2>2
\* Steps that keep the rows, the listing and the history.
<1>b. ASSUME UNCHANGED <<ver, listed, failed, settled>>
      PROVE  LabelsUnique' /\ ReadablePreferred' /\ CleanGroupShowsNewest'
      BY <1>b DEF GroupInv, LabelsUnique, ReadablePreferred, CleanGroupShowsNewest, Versions,
        GroupOf, Newest
\* The work on an item is given up.
<1>c. ASSUME NEW i \in Items, pc \in InLoop, ItemFails(i),
             UNCHANGED <<ver, listed, settled, seen, group>>
      PROVE  Goal
  <2>1. ReadablePreferred' /\ CleanGroupShowsNewest'
        BY <1>c, <1>g, SettledStay DEF ItemFails
  <2>2. Books' /\ LabelsUnique' /\ ChosenWell'
        BY <1>c DEF ItemFails, GroupInv, Books, LabelsUnique, ChosenWell, InLoop
  <2>3. HandledAreStored'
        BY <1>c DEF ItemFails, GroupInv, HandledAreStored, InLoop, Versions, GroupOf
  <2> QED
      BY <2>1, <2>2, <2>3
<1>1. CASE SharePoint
  <2>1. UNCHANGED <<ver, listed, failed, settled, seen, group, pc, left, item, chosen>>
        BY <1>1 DEF SharePoint, PutItem, WithdrawItem
  <2>2. Books' /\ HandledAreStored' /\ ChosenWell'
        BY <2>1 DEF GroupInv, Books, HandledAreStored, ChosenWell, Versions, GroupOf, Newest
  <2> QED
      BY <1>b, <2>1, <2>2
<1>2. ASSUME NEW limit \in BOOLEAN, StartRun(limit)
      PROVE  Goal
      BY <1>a, <1>t, <1>2 DEF StartRun, TypeOK, GroupInv, Books
<1>3. ASSUME NEW i \in Items, ListItem(i)
      PROVE  Goal
      BY <1>a, <1>t, <1>3 DEF ListItem, TypeOK, GroupInv, Books
<1>4. CASE FinishListing
      BY <1>a, <1>t, <1>4 DEF FinishListing, TypeOK, GroupInv, Books
<1>5. ASSUME NEW n \in Numbers, BeginGroup(n)
      PROVE  Goal
  <2>1. UNCHANGED <<ver, listed, failed, settled>>
        BY <1>5 DEF BeginGroup
  <2>2. Books' /\ HandledAreStored' /\ ChosenWell'
        BY <1>5 DEF BeginGroup, GroupInv, Books, HandledAreStored, ChosenWell, InLoop
  <2> QED
      BY <1>b, <2>1, <2>2
<1>6. CASE GetOrCreateDocument
  <2>1. UNCHANGED <<ver, listed, failed, settled>>
        BY <1>6 DEF GetOrCreateDocument
  <2>2. Books' /\ HandledAreStored' /\ ChosenWell'
        BY <1>6 DEF GetOrCreateDocument, GroupInv, Books, HandledAreStored, ChosenWell, InLoop
  <2> QED
      BY <1>b, <2>1, <2>2
<1>7. CASE SaveDocument
  <2>1. UNCHANGED <<ver, listed, failed, settled, group>> /\ left' = GroupOf(group)
        BY <1>7 DEF SaveDocument
  <2>2. GroupOf(group)' = GroupOf(group)
        BY <2>1 DEF GroupOf
  <2>3. Books' /\ HandledAreStored' /\ ChosenWell'
        BY <1>7, <2>1, <2>2 DEF SaveDocument, GroupInv, Books, HandledAreStored, ChosenWell,
          InLoop
  <2> QED
      BY <1>b, <2>1, <2>3
<1>8. ASSUME NEW i \in Items, RejectVersion(i)
      PROVE  Goal
      BY <1>c, <1>8 DEF RejectVersion, InLoop
<1>9. ASSUME NEW i \in Items, UpsertVersion(i)
      PROVE  Goal
  <2>1. /\ pc = "items" /\ i \in left /\ ~LabelTaken(i)
        /\ ver' = [ver EXCEPT ![i] = UpsertedRow(i)]
        /\ UNCHANGED <<listed, failed, settled, seen, group>>
        BY <1>9 DEF UpsertVersion
  <2>2. /\ ver'[i] = UpsertedRow(i)
        /\ \A j \in Items \ {i} : ver'[j] = ver[j]
        BY <1>v, <2>1
  <2>3. /\ ver'[i].exists /\ ver'[i].number = group /\ ver'[i].label = listed[i].label
        /\ ver'[i].file = ver[i].file
        BY <2>2 DEF UpsertedRow
  <2>4. i \in GroupOf(group) /\ group \in Numbers
        BY <1>g, <1>p, <2>1 DEF GroupInOrder, InLoop
  <2>5. ReadablePreferred' /\ CleanGroupShowsNewest'
    <3>1. \A j \in Items :
            \/ ver'[j] = ver[j]
            \/ ver'[j].number = group /\ (ver[j].number = group \/ j \in GroupOf(group))
          BY <2>2, <2>3, <2>4
    <3> QED
        BY <2>1, <2>4, <3>1, SettledStay
  <2>6. LabelsUnique'
    <3>1. ASSUME NEW j \in Items \ {i}, ver[j].exists, ver[j].number = group
          PROVE  ver[j].label # listed[i].label
          BY <2>1, <3>1 DEF LabelTaken, Versions
    <3>2. ASSUME NEW j \in Items, NEW k \in Items, ver'[j].exists, ver'[k].exists,
                 ver'[j].number = ver'[k].number, ver'[j].label = ver'[k].label
          PROVE  j = k
      <4>1. CASE j # i /\ k # i
            BY <2>2, <3>2, <4>1 DEF GroupInv, LabelsUnique
      <4>2. CASE j = i /\ k # i
            BY <2>2, <2>3, <3>1, <3>2, <4>2
      <4>3. CASE j # i /\ k = i
            BY <2>2, <2>3, <3>1, <3>2, <4>3
      <4> QED
          BY <4>1, <4>2, <4>3
    <3> QED
        BY <3>2 DEF LabelsUnique
  <2>7. \/ pc' = "fetch" /\ item' = i /\ left' = left
        \/ pc' = "items" /\ left' = left \ {i} /\ ver[i].file
        BY <1>9 DEF UpsertVersion
  <2>8. GroupOf(group)' = GroupOf(group)
        BY <2>1 DEF GroupOf
  <2>9. \A j \in GroupOf(group) \ (left \cup failed) :
          j \in Versions(group)' /\ ver'[j].label = listed[j].label /\ ver'[j].file
    <3> SUFFICES ASSUME NEW j \in GroupOf(group) \ (left \cup failed)
                 PROVE  j \in Versions(group)' /\ ver'[j].label = listed[j].label /\ ver'[j].file
        OBVIOUS
    <3>1. j \in Versions(group) /\ ver[j].label = listed[j].label /\ ver[j].file
          BY <2>1 DEF GroupInv, HandledAreStored, InLoop
    <3>2. j # i /\ j \in Items
          BY <2>1, <3>1 DEF Versions
    <3>3. ver'[j] = ver[j]
          BY <2>2, <3>2
    <3> QED
        BY <2>1, <3>1, <3>3 DEF Versions
  <2>10. i \in Versions(group)'
        BY <2>1, <2>3 DEF Versions
  <2>11. HandledAreStored'
        BY <2>1, <2>3, <2>7, <2>8, <2>9, <2>10 DEF HandledAreStored, InLoop
  <2>12. Books' /\ ChosenWell'
        BY <2>1, <2>7 DEF GroupInv, Books, ChosenWell
  <2> QED
      BY <2>5, <2>6, <2>11, <2>12
<1>10. CASE Fetch \/ DeleteOldFile \/ StoreFile
  <2>1. /\ UNCHANGED <<ver, listed, failed, settled, seen, group, left, item>>
        /\ pc \in {"fetch", "replace", "store", "record"}
        /\ pc' \in {"fetch", "replace", "store", "record"}
        BY <1>10 DEF Fetch, DeleteOldFile, StoreFile
  <2>2. Books' /\ HandledAreStored' /\ ChosenWell'
        BY <2>1 DEF GroupInv, Books, HandledAreStored, ChosenWell, InLoop, Versions, GroupOf
  <2> QED
      BY <1>b, <2>1, <2>2
<1>11. CASE FetchFails
       BY <1>c, <1>t, <1>11 DEF FetchFails, InLoop, TypeOK
<1>12. CASE StoreFails
       BY <1>c, <1>t, <1>12 DEF StoreFails, InLoop, TypeOK
<1>13. CASE RecordFile
  <2>1. /\ pc = "record" /\ pc' = "items" /\ left' = left \ {item}
        /\ ver' = [ver EXCEPT ![item] = RecordedRow(item)]
        /\ UNCHANGED <<listed, failed, settled, seen, group>>
        BY <1>13 DEF RecordFile
  <2>2. item \in Items /\ group \in Numbers /\ item \in Versions(group) \cap GroupOf(group)
        BY <1>g, <1>p, <1>t, <2>1 DEF GroupInOrder, TypeOK, InLoop
  <2>3. /\ \A j \in Items : /\ ver'[j].exists = ver[j].exists
                            /\ ver'[j].number = ver[j].number
                            /\ ver'[j].label = ver[j].label
        /\ ver'[item].file
        /\ \A j \in Items \ {item} : ver'[j] = ver[j]
        BY <1>v, <2>1, <2>2 DEF RecordedRow, VersionRow
  <2>4. ReadablePreferred' /\ CleanGroupShowsNewest'
    <3>1. ver[item].number = group
          BY <2>2 DEF Versions
    <3>2. \A j \in Items :
            \/ ver'[j] = ver[j]
            \/ ver'[j].number = group /\ (ver[j].number = group \/ j \in GroupOf(group))
          BY <2>3, <3>1
    <3> QED
        BY <2>1, <2>2, <3>2, SettledStay
  <2>5. LabelsUnique'
        BY <2>3 DEF GroupInv, LabelsUnique
  <2>6. Versions(group)' = Versions(group) /\ GroupOf(group)' = GroupOf(group)
        BY <2>1, <2>3 DEF Versions, GroupOf
  <2>7. \A j \in GroupOf(group) \ (left \cup failed) :
          j \in Versions(group) /\ ver[j].label = listed[j].label /\ ver[j].file
        BY <2>1 DEF GroupInv, HandledAreStored, InLoop
  <2>8. ver[item].label = listed[item].label
        BY <2>1 DEF GroupInv, HandledAreStored
  <2>9. \A j \in GroupOf(group) \ (left' \cup failed) :
          j \in Versions(group) /\ ver'[j].label = listed[j].label /\ ver'[j].file
    <3> SUFFICES ASSUME NEW j \in GroupOf(group) \ (left' \cup failed)
                 PROVE  j \in Versions(group) /\ ver'[j].label = listed[j].label /\ ver'[j].file
        OBVIOUS
    <3>1. CASE j = item
          BY <2>2, <2>3, <2>8, <3>1
    <3>2. CASE j # item
      <4>1. j \in Versions(group) /\ ver[j].label = listed[j].label /\ ver[j].file
            BY <2>1, <2>7, <3>2
      <4>2. ver'[j] = ver[j]
            BY <2>3, <3>2, <4>1 DEF Versions
      <4> QED
          BY <4>1, <4>2
    <3> QED
        BY <3>1, <3>2
  <2>10. HandledAreStored'
        BY <2>1, <2>6, <2>9 DEF HandledAreStored
  <2>11. Books' /\ ChosenWell'
        BY <2>1 DEF GroupInv, Books, ChosenWell
  <2> QED
      BY <2>4, <2>5, <2>10, <2>11
<1>14. CASE NoCandidate \/ GroupFails
  <2>1. UNCHANGED <<ver, listed, failed, settled, seen>> /\ group' = NoNumber /\ pc' = "groups"
        BY <1>14 DEF NoCandidate, GroupFails, GroupOver
  <2>2. Books' /\ HandledAreStored' /\ ChosenWell'
        BY <2>1 DEF GroupInv, Books, HandledAreStored, ChosenWell, InLoop
  <2> QED
      BY <1>b, <2>1, <2>2
<1>15. CASE DemoteOthers
  <2>1. PICK c \in Best(group) : chosen' = c /\ ver' = Demoted(c)
        BY <1>15 DEF DemoteOthers
  <2>2. /\ pc = "items" /\ left = {} /\ pc' = "promote"
        /\ UNCHANGED <<listed, failed, settled, seen, group>>
        BY <1>15 DEF DemoteOthers
  <2>3. \A j \in Items : /\ ver'[j].exists = ver[j].exists
                         /\ ver'[j].number = ver[j].number
                         /\ ver'[j].label = ver[j].label
                         /\ ver'[j].file = ver[j].file
                         /\ j \notin Versions(group) => ver'[j] = ver[j]
        BY <1>v, <2>1 DEF Demoted, VersionRow
  <2>4. Versions(group)' = Versions(group) /\ GroupOf(group)' = GroupOf(group)
          /\ Newest(GroupOf(group))' = Newest(GroupOf(group))
        BY <2>2, <2>3 DEF Versions, GroupOf, Newest
  <2>5. ReadablePreferred' /\ CleanGroupShowsNewest'
    <3>1. \A j \in Items :
            \/ ver'[j] = ver[j]
            \/ ver'[j].number = group /\ (ver[j].number = group \/ j \in GroupOf(group))
          BY <2>3 DEF Versions
    <3> QED
        BY <1>g, <2>2, <3>1, SettledStay DEF InLoop
  <2>6. LabelsUnique'
        BY <2>3 DEF GroupInv, LabelsUnique
  <2>7. ver[c].file \/ \A i \in Versions(group) \cap GroupOf(group) : ~ver[i].file
        BY <2>1 DEF Best, Candidates
  <2>8. GroupOf(group) \cap failed = {} => Newest(GroupOf(group)) = {c}
        BY <2>1, <2>2, NewestIsBest
  <2>9. c \in Versions(group)
        BY <2>1, CandidatesAreRows DEF Best
  <2>10. ChosenWell'
    <3>1. ver'[c].file = ver[c].file
          BY <2>3, <2>9 DEF Versions
    <3>2. \A i \in Versions(group) : ver'[i].file = ver[i].file
          BY <2>3 DEF Versions
    <3> QED
        BY <2>1, <2>2, <2>4, <2>7, <2>8, <3>1, <3>2 DEF ChosenWell
  <2>11. Books' /\ HandledAreStored'
        BY <2>2 DEF GroupInv, Books, HandledAreStored, InLoop
  <2> QED
      BY <2>5, <2>6, <2>10, <2>11
<1>16. CASE PromoteChosen
  <2>1. /\ pc = "promote" /\ pc' = "groups" /\ group' = NoNumber
        /\ ver' = [ver EXCEPT ![chosen].current = TRUE]
        /\ settled' = settled \cup {group}
        /\ UNCHANGED <<listed, failed, seen>>
        BY <1>16 DEF PromoteChosen, GroupOver
  <2>2. /\ chosen \in Items /\ group \in Numbers /\ chosen \in Versions(group)
        /\ \A j \in Versions(group) : ver[j].current => j = chosen
        BY <1>g, <1>p, <1>t, <2>1 DEF GroupInOrder, TypeOK
  <2>3. /\ \A j \in Items : /\ ver'[j].exists = ver[j].exists
                            /\ ver'[j].number = ver[j].number
                            /\ ver'[j].label = ver[j].label
                            /\ ver'[j].file = ver[j].file
        /\ \A j \in Items \ {chosen} : ver'[j] = ver[j]
        /\ ver'[chosen].current
        BY <1>v, <2>1, <2>2 DEF VersionRow
  <2>g. PICK g \in Numbers : g = group
        BY <2>2
  <2>4. \A n \in Numbers : /\ Versions(n)' = Versions(n)
                           /\ GroupOf(n)' = GroupOf(n)
                           /\ Newest(GroupOf(n))' = Newest(GroupOf(n))
        BY <2>1, <2>3 DEF Versions, GroupOf, Newest
  <2>5. /\ ver[chosen].file \/ \A i \in Versions(g) \cap GroupOf(g) : ~ver[i].file
        /\ GroupOf(g) \cap failed = {} => Newest(GroupOf(g)) = {chosen}
        BY <2>1, <2>g DEF GroupInv, ChosenWell
  <2>6. {i \in Versions(g) : ver'[i].current} = {chosen}
    <3>1. \A i \in Versions(g) : ver'[i].current => i = chosen
          BY <2>2, <2>3, <2>g DEF Versions
    <3> QED
        BY <2>2, <2>3, <2>g, <3>1
  <2>n. settled \subseteq Numbers
        BY <1>t DEF TypeOK
  <2>7. ASSUME NEW n \in settled
        PROVE  \A i \in Versions(n) : ver'[i] = ver[i]
    <3>1. n # group
          BY <2>2, NumbersAssumption DEF GroupInv, Books
    <3>2. chosen \notin Versions(n)
          BY <2>2, <3>1 DEF Versions
    <3> QED
        BY <2>3, <3>2 DEF Versions
  <2>8. ReadablePreferred'
    <3> SUFFICES ASSUME NEW n \in settled', NEW c \in Versions(n)', ver'[c].current,
                        ~ver'[c].file, NEW i \in (Versions(n) \cap GroupOf(n))'
                 PROVE  ~ver'[i].file
        BY DEF ReadablePreferred
    <3>1. CASE n = g
      <4>1. c = chosen
            BY <2>4, <2>6, <3>1
      <4>2. ~ver[chosen].file
            BY <2>2, <2>3, <4>1
      <4> QED
          BY <2>3, <2>4, <2>5, <3>1, <4>2 DEF Versions
    <3>2. CASE n # g
      <4>1. n \in settled
            BY <2>1, <2>g, <3>2
      <4>2. c \in Versions(n) /\ i \in Versions(n) \cap GroupOf(n)
            BY <2>4, <2>n, <4>1
      <4>3. ver'[c] = ver[c] /\ ver'[i] = ver[i]
            BY <2>7, <4>1, <4>2
      <4> QED
          BY <4>1, <4>2, <4>3 DEF GroupInv, ReadablePreferred
    <3> QED
        BY <3>1, <3>2
  <2>9. CleanGroupShowsNewest'
    <3> SUFFICES ASSUME NEW n \in settled', GroupOf(n)' \cap failed' = {}
                 PROVE  {i \in Versions(n)' : ver'[i].current} = Newest(GroupOf(n))'
        BY DEF CleanGroupShowsNewest
    <3>1. CASE n = g
          BY <2>1, <2>4, <2>5, <2>6, <3>1
    <3>2. CASE n # g
      <4>1. n \in settled
            BY <2>1, <2>g, <3>2
      <4>2. n \in Numbers /\ GroupOf(n) \cap failed = {}
            BY <2>1, <2>4, <2>n, <4>1
      <4>3. {i \in Versions(n) : ver[i].current} = Newest(GroupOf(n))
            BY <4>1, <4>2 DEF GroupInv, CleanGroupShowsNewest
      <4>4. {i \in Versions(n) : ver'[i].current} = {i \in Versions(n) : ver[i].current}
            BY <2>7, <4>1
      <4> QED
          BY <2>4, <4>2, <4>3, <4>4
    <3> QED
        BY <3>1, <3>2
  <2>10. LabelsUnique'
        BY <2>3 DEF GroupInv, LabelsUnique
  <2>11. Books' /\ HandledAreStored' /\ ChosenWell'
        BY <2>1, <2>2, NumbersAssumption DEF GroupInv, Books, HandledAreStored, ChosenWell, InLoop
  <2> QED
      BY <2>8, <2>9, <2>10, <2>11
<1>17. CASE FinishRun \/ ListingFails
       BY <1>a, <1>t, <1>17 DEF FinishRun, ListingFails, RunOver, TypeOK
<1>18. CASE Crash
       BY <1>a, <1>18 DEF Crash, RunOver
<1>19. CASE UNCHANGED vars
  <2>1. UNCHANGED <<ver, listed, failed, settled, seen, group, pc, left, item, chosen>>
        BY <1>19 DEF vars
  <2>2. Books' /\ HandledAreStored' /\ ChosenWell'
        BY <2>1 DEF GroupInv, Books, HandledAreStored, ChosenWell, Versions, GroupOf, Newest
  <2> QED
      BY <1>b, <2>1, <2>2
<1> QED
  BY <1>1, <1>2, <1>3, <1>4, <1>5, <1>6, <1>7, <1>8, <1>9, <1>10, <1>11, <1>12, <1>13, <1>14,
     <1>15, <1>16, <1>17, <1>18, <1>19
  DEF Next, RunStep, Fault

\* A group none of whose items failed ends with its newest listed item as the only
\* current version, whatever other groups, edits in SharePoint and crashes do.
THEOREM CleanGroupsShowNewest == Spec => []CleanGroupShowsNewest
<1>1. GroupInv => CleanGroupShowsNewest
      BY DEF GroupInv
<1> QED
    BY <1>1, GroupInit, GroupStep, PTL DEF Spec

\* A completed group shows a version without a file only if no listed version of the
\* document has one: failed downloads do not take a readable document away.
THEOREM ReadableIsPreferred == Spec => []ReadablePreferred
<1>1. GroupInv => ReadablePreferred
      BY DEF GroupInv
<1> QED
    BY <1>1, GroupInit, GroupStep, PTL DEF Spec

=============================================================================
