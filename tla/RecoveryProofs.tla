---------------------------- MODULE RecoveryProofs ----------------------------
(***************************************************************************)
(* Theorems about Recovery, for every set of items and numbers, every      *)
(* catalogue and every bound.                                              *)
(***************************************************************************)
EXTENDS Recovery, DocumentSyncProofs, FiniteSetTheorems

USE DEF db, listing, work, ghost

-----------------------------------------------------------------------------
(* What one undisturbed run achieves. *)

\* The groups begun are among the listed ones, and there are none before the listing ends.
SeenInv ==
  /\ TypeOK
  /\ pc \in {"idle", "listing"} => seen = {}
  /\ seen \subseteq ListedNumbers

\* A file is never newer than the item at SharePoint.
DiskInv == FileInv /\ \A i \in Items : disk[i] <= remote[i].etag

\* What the run has read is still so.
Snapshot ==
  /\ ~limited
  /\ pc # "idle" =>
       \A i \in Items \ unread : listed[i] = IF remote[i].present THEN remote[i] ELSE NotListed

\* The items the run is done with.
Handled ==
  {i \in Items \ failed :
     /\ listed[i].present /\ listed[i].number \in seen
     /\ listed[i].number = group => pc \notin {"create", "document"} /\ i \notin left}

UpToDate(i) ==
  /\ ver[i].exists /\ ver[i].file
  /\ ver[i].number = listed[i].number /\ ver[i].label = listed[i].label
  /\ ver[i].etag = listed[i].etag /\ disk[i] = listed[i].etag

SavedAsListed(n) == \E k \in Newest(GroupOf(n)) : doc[n] = SavedDocument(k)

Underway ==
  /\ pc # "idle"
  /\ \A i \in Handled : UpToDate(i)
  /\ \A n \in seen \ {group} : n \in settled \/ GroupOf(n) \cap failed # {}
  /\ \A n \in seen : (n = group => pc \notin {"create", "document"}) => SavedAsListed(n)
  /\ pc = "promote" => left = {}

\* Item k is the newest one of document n and all that the tables show of it.
Shows(n, k) ==
  /\ k \in Published(n) /\ \A j \in Published(n) : remote[j].label <= remote[k].label
  /\ doc[n] = [exists |-> TRUE, active |-> remote[k].valid]
  /\ ver[k].current /\ \A j \in Versions(n) : ver[j].current => j = k

Complete ==
  /\ pc \notin {"fetch", "replace", "store", "record"}
  /\ \A i \in Items : remote[i].present /\ remote[i].number # NoNumber => Mirrored(i)
  /\ \A n \in Numbers : IF Published(n) = {} THEN ~doc[n].active ELSE \E k \in Items : Shows(n, k)
  /\ pc = "promote" => ver[chosen].current

RepairInv ==
  /\ GroupInv /\ ListingInv /\ SeenInv /\ DiskInv
  /\ repair \in {"none", "underway", "complete"}
  /\ repair # "none" => Snapshot
  /\ repair = "underway" => Underway
  /\ repair = "complete" => Complete

LEMMA RStepIsStep == [RNext]_rvars => [Next]_vars
<1> SUFFICES ASSUME [RNext]_rvars PROVE [Next]_vars
  OBVIOUS
<1>1. CASE RNext
  <2>1. StartRun(TRUE) \/ StartRun(FALSE) => \E limit \in BOOLEAN : StartRun(limit)
    OBVIOUS
  <2> QED BY <1>1, <2>1 DEF RNext, Next
<1>2. CASE UNCHANGED rvars
  BY <1>2 DEF rvars, vars
<1> QED BY <1>1, <1>2

LEMMA SeenStep == SeenInv /\ [Next]_vars => SeenInv'
<1> SUFFICES ASSUME SeenInv, [Next]_vars
             PROVE  (pc' \in {"idle", "listing"} => seen' = {}) /\ seen' \subseteq ListedNumbers'
  BY TypeStep DEF SeenInv
<1> USE DEF SeenInv
<1>a. UNCHANGED <<listed, seen>> => seen' \subseteq ListedNumbers'
  BY DEF ListedNumbers, GroupOf
<1>1. CASE SharePoint
  BY <1>a, <1>1 DEF SharePoint, PutItem, WithdrawItem
<1>2. ASSUME NEW limit \in BOOLEAN, StartRun(limit)
      PROVE  (pc' \in {"idle", "listing"} => seen' = {}) /\ seen' \subseteq ListedNumbers'
  BY <1>a, <1>2 DEF StartRun
<1>3. ASSUME NEW i \in Items, ListItem(i)
      PROVE  (pc' \in {"idle", "listing"} => seen' = {}) /\ seen' \subseteq ListedNumbers'
  BY <1>3 DEF ListItem
<1>4. ASSUME NEW i \in Items, RejectVersion(i) \/ UpsertVersion(i)
      PROVE  (pc' \in {"idle", "listing"} => seen' = {}) /\ seen' \subseteq ListedNumbers'
  BY <1>a, <1>4 DEF RejectVersion, UpsertVersion, ItemFails
<1>5. ASSUME NEW n \in Numbers, BeginGroup(n)
      PROVE  (pc' \in {"idle", "listing"} => seen' = {}) /\ seen' \subseteq ListedNumbers'
  <2>1. ListedNumbers' = ListedNumbers
    BY <1>5 DEF BeginGroup, ListedNumbers, GroupOf
  <2> QED BY <1>5, <2>1 DEF BeginGroup
<1>6. CASE FinishRun \/ ListingFails \/ Crash
  BY <1>6 DEF FinishRun, ListingFails, Crash, RunOver
<1>7. CASE FinishListing \/ GetOrCreateDocument \/ SaveDocument \/ NoCandidate \/ DemoteOthers
             \/ PromoteChosen \/ GroupFails
  BY <1>a, <1>7 DEF FinishListing, GetOrCreateDocument, SaveDocument, NoCandidate,
    DemoteOthers, PromoteChosen, GroupFails, GroupOver
<1>8. CASE Fetch \/ FetchFails \/ DeleteOldFile \/ StoreFile \/ StoreFails \/ RecordFile
  BY <1>a, <1>8 DEF Fetch, FetchFails, DeleteOldFile, StoreFile, StoreFails, RecordFile, ItemFails
<1>9. CASE UNCHANGED vars
  BY <1>a, <1>9 DEF vars
<1> QED
  BY <1>1, <1>2, <1>3, <1>4, <1>5, <1>6, <1>7, <1>8, <1>9 DEF Next, RunStep, Fault

LEMMA DiskStep == DiskInv /\ [Next]_vars => DiskInv'
<1> SUFFICES ASSUME DiskInv, [Next]_vars, NEW i \in Items
             PROVE  disk'[i] <= remote'[i].etag
  BY FileStep DEF DiskInv
<1>t. TypeOK /\ TypeOK' /\ FileInv /\ disk[i] <= remote[i].etag
  BY TypeStep DEF DiskInv, FileInv
<1>n. /\ remote[i] \in RemoteItem /\ disk[i] \in Nat /\ content \in Nat
      /\ remote \in [Items -> RemoteItem] /\ disk \in [Items -> Nat]
  BY <1>t DEF TypeOK
<1>e. remote[i].etag \in Nat
  BY <1>n DEF RemoteItem
<1>a. UNCHANGED <<remote, disk>> => disk'[i] <= remote'[i].etag
  BY <1>t
<1>1. CASE SharePoint
  <2>1. remote'[i].etag \in {remote[i].etag, remote[i].etag + 1} /\ disk' = disk
    BY <1>1, <1>n DEF SharePoint, PutItem, WithdrawItem, RemoteItem
  <2> QED BY <1>e, <1>n, <1>t, <2>1
<1>2. CASE DeleteOldFile \/ StoreFile \/ RecordFile
  <2>1. /\ remote' = remote
        /\ disk' \in {disk, [disk EXCEPT ![item] = 0], [disk EXCEPT ![item] = content]}
    BY <1>2 DEF DeleteOldFile, StoreFile, RecordFile
  <2>2. StoreFile \/ RecordFile => content <= remote[item].etag
    BY <1>t DEF StoreFile, RecordFile, FileInv, WorkOutdated
  <2>3. disk'[i] \in {disk[i], 0} \/ (i = item /\ disk'[i] = content /\ (StoreFile \/ RecordFile))
    BY <1>2, <1>n DEF DeleteOldFile, StoreFile, RecordFile
  <2> QED BY <1>e, <1>t, <2>1, <2>2, <2>3
<1>3. ASSUME NEW k \in Items, ListItem(k) \/ RejectVersion(k) \/ UpsertVersion(k)
      PROVE  UNCHANGED <<remote, disk>>
  BY <1>3 DEF ListItem, RejectVersion, UpsertVersion
<1>4. ASSUME NEW n \in Numbers, BeginGroup(n) PROVE UNCHANGED <<remote, disk>>
  BY <1>4 DEF BeginGroup
<1>5. ASSUME NEW limit \in BOOLEAN, StartRun(limit) PROVE UNCHANGED <<remote, disk>>
  BY <1>5 DEF StartRun
<1>6. CASE FinishListing \/ GetOrCreateDocument \/ SaveDocument \/ Fetch \/ FetchFails \/ NoCandidate
             \/ DemoteOthers \/ PromoteChosen \/ FinishRun
  BY <1>a, <1>6 DEF FinishListing, GetOrCreateDocument, SaveDocument, Fetch, FetchFails,
    NoCandidate, DemoteOthers, PromoteChosen, FinishRun
<1>7. CASE Fault \/ UNCHANGED vars
  BY <1>a, <1>7 DEF Fault, ListingFails, GroupFails, StoreFails, Crash, vars
<1> QED
  BY <1>a, <1>1, <1>2, <1>3, <1>4, <1>5, <1>6, <1>7 DEF Next, RunStep

\* Only edits and limited runs get between a run and what it has read.
LEMMA SnapshotStep ==
  ASSUME TypeOK, ListingInv, Snapshot \/ StartRun(FALSE), RunStep \/ Fault \/ StartRun(FALSE)
  PROVE  Snapshot'
<1>1. CASE StartRun(FALSE)
  BY <1>1 DEF StartRun, Snapshot
<1> SUFFICES ASSUME Snapshot, RunStep \/ Fault
             PROVE  Snapshot'
  BY <1>1
<1>a. ASSUME UNCHANGED <<remote, limited, unread, listed>>, pc # "idle"
      PROVE  Snapshot'
  BY <1>a DEF Snapshot
<1>2. ASSUME NEW i \in Items, ListItem(i) PROVE Snapshot'
  BY <1>2 DEF ListItem, Snapshot, TypeOK
<1>3. ASSUME NEW i \in Items, RejectVersion(i) \/ UpsertVersion(i) PROVE Snapshot'
  BY <1>a, <1>3 DEF RejectVersion, UpsertVersion
<1>4. ASSUME NEW n \in Numbers, BeginGroup(n) PROVE Snapshot'
  BY <1>a, <1>4 DEF BeginGroup
<1>5. CASE FinishListing
  BY <1>a, <1>5 DEF FinishListing, Snapshot
<1>6. CASE FinishRun \/ ListingFails \/ Crash
  BY <1>6 DEF FinishRun, ListingFails, Crash, RunOver, Snapshot
<1>7. CASE GetOrCreateDocument \/ SaveDocument \/ NoCandidate \/ DemoteOthers \/ PromoteChosen
             \/ GroupFails
  BY <1>a, <1>7 DEF GetOrCreateDocument, SaveDocument, NoCandidate, DemoteOthers,
    PromoteChosen, GroupFails
<1>8. CASE Fetch \/ FetchFails \/ DeleteOldFile \/ StoreFile \/ StoreFails \/ RecordFile
  BY <1>a, <1>8 DEF Fetch, FetchFails, DeleteOldFile, StoreFile, StoreFails, RecordFile
<1> QED
  BY <1>2, <1>3, <1>4, <1>5, <1>6, <1>7, <1>8 DEF RunStep, Fault

\* What the run has read of the library, once it has read everything.
LEMMA ListedIsRemote ==
  ASSUME TypeOK, ListingInv, Snapshot, pc \notin {"idle", "listing"}, NEW i \in Items
  PROVE  /\ listed[i].present <=> remote[i].present
         /\ listed[i].present => listed[i] = remote[i]
<1>1. listed[i] = IF remote[i].present THEN remote[i] ELSE NotListed
  BY DEF Snapshot, ListingInv
<1>2. NotListed.present = FALSE
  BY DEF NotListed
<1>3. remote[i].present \in BOOLEAN /\ listed[i].present \in BOOLEAN
  BY DEF TypeOK, RemoteItem
<1> QED BY <1>1, <1>2, <1>3

LEMMA PublishedIsGroup ==
  ASSUME TypeOK, ListingInv, Snapshot, pc \notin {"idle", "listing"}, NEW n
  PROVE  Published(n) = GroupOf(n)
<1>1. ASSUME NEW i \in Items PROVE i \in Published(n) <=> i \in GroupOf(n)
  BY <1>1, ListedIsRemote DEF Published, GroupOf
<1> QED BY <1>1 DEF Published, GroupOf

\* Rows and items whose files and labels are up to date stay so as long as nothing of
\* them but the flag changes.
LEMMA StaysUpToDate ==
  ASSUME NEW i, UpToDate(i), listed' = listed, disk'[i] = disk[i],
         ver'[i].exists = ver[i].exists, ver'[i].file = ver[i].file,
         ver'[i].number = ver[i].number, ver'[i].label = ver[i].label,
         ver'[i].etag = ver[i].etag
  PROVE  UpToDate(i)'
BY DEF UpToDate

\* Two documents' groups share no item, and the item in hand is not handled yet.
LEMMA NotYetHandled ==
  ASSUME TypeOK, GroupInOrder, pc \in InLoop, NEW i \in left
  PROVE  i \in Items /\ i \notin Handled /\ i \in GroupOf(group) /\ group \in Numbers
BY DEF TypeOK, GroupInOrder, InLoop, Handled, GroupOf, NumbersOrNone

\* A step of the run that does not end it.
LEMMA UnderwayStep ==
  ASSUME GroupInv, ListingInv, SeenInv, DiskInv, Snapshot, Underway, RunStep, pc' # "idle"
  PROVE  Underway'
<1>t. TypeOK /\ TypeOK' /\ GroupInOrder /\ WorkOutdated
  BY TypeStep DEF GroupInv, FlagInv, DiskInv, FileInv, Next
<1>v. /\ ver \in [Items -> VersionRow]
      /\ disk \in [Items -> Nat]
      /\ doc \in [Numbers -> DocumentRow]
      /\ seen \subseteq Numbers /\ settled \subseteq Numbers /\ failed \subseteq Items
      /\ NoNumber \notin Numbers /\ seen \subseteq ListedNumbers
  BY <1>t, NumbersAssumption DEF TypeOK, SeenInv
<1>b. group # NoNumber => group \in seen \ settled
  BY DEF GroupInv, Books
<1>u. /\ \A i \in Handled : UpToDate(i)
      /\ \A n \in seen \ {group} : n \in settled \/ GroupOf(n) \cap failed # {}
      /\ \A n \in seen : (n = group => pc \notin {"create", "document"}) => SavedAsListed(n)
      /\ pc = "promote" => left = {}
  BY DEF Underway
\* While the run reads, nothing has been handled.
<1>0. ASSUME seen' = {}, pc' # "promote" PROVE Underway'
  BY <1>0 DEF Underway, Handled
<1>d. ASSUME UNCHANGED listed, NEW n, doc'[n] = doc[n], SavedAsListed(n)
      PROVE  SavedAsListed(n)'
  BY <1>d DEF SavedAsListed, SavedDocument, Newest, GroupOf
<1>s. ASSUME UNCHANGED <<listed, doc>>
      PROVE  \A n \in Numbers : SavedAsListed(n) => SavedAsListed(n)'
  BY <1>d, <1>s
<1>g. listed' = listed => \A n : GroupOf(n)' = GroupOf(n)
  BY DEF GroupOf
\* Steps within the loop over the items of a group.
<1>l. ASSUME pc \in InLoop, pc' \in InLoop, UNCHANGED <<listed, doc, seen, group, settled>>,
             failed \subseteq failed',
             NEW i \in left, left' \in {left, left \ {i}},
             \A k \in Items \ {i} : ver'[k] = ver[k] /\ disk'[k] = disk[k],
             i \in left' \cup failed' \/ UpToDate(i)'
      PROVE  Underway'
  <2>1. i \in Items /\ i \notin Handled /\ i \in GroupOf(group) /\ group \in Numbers
    BY <1>l, <1>t, NotYetHandled
  <2>2. Handled' \subseteq Handled \cup {i}
    BY <1>l DEF Handled, InLoop
  <2>3. i \in Handled' => i \notin left' \cup failed'
    BY <1>l, <2>1 DEF Handled, GroupOf
  <2>4. ASSUME NEW k \in Handled' PROVE UpToDate(k)'
    <3>1. CASE k = i
      BY <1>l, <2>3, <2>4, <3>1
    <3>2. CASE k # i
      <4>1. k \in Handled /\ k \in Items /\ ver'[k] = ver[k] /\ disk'[k] = disk[k]
        BY <1>l, <2>2, <2>4, <3>2 DEF Handled
      <4> QED BY <1>l, <1>u, <4>1, StaysUpToDate
    <3> QED BY <3>1, <3>2
  <2>5. \A n \in seen \ {group} : n \in settled' \/ GroupOf(n)' \cap failed' # {}
    BY <1>g, <1>l, <1>u
  <2>6. \A n \in seen : SavedAsListed(n)'
    BY <1>l, <1>s, <1>u, <1>v DEF InLoop
  <2> QED BY <1>l, <2>4, <2>5, <2>6 DEF Underway, InLoop
<1>1. ASSUME NEW i \in Items, ListItem(i) PROVE Underway'
  BY <1>0, <1>1 DEF ListItem, SeenInv
<1>2. CASE FinishListing
  BY <1>0, <1>2 DEF FinishListing, SeenInv
<1>3. ASSUME NEW n \in Numbers, BeginGroup(n) PROVE Underway'
  <2>1. /\ seen' = seen \cup {n} /\ group' = n /\ pc' = "create" /\ pc = "groups" /\ n \notin seen
        /\ UNCHANGED <<listed, doc, ver, disk, failed, settled>>
    BY <1>3 DEF BeginGroup
  <2>2. group = NoNumber
    BY <1>t, <2>1 DEF TypeOK
  <2>3. Handled' \subseteq Handled
    BY <1>v, <2>1, <2>2 DEF Handled
  <2>4. \A i \in Handled' : UpToDate(i)'
    BY <1>u, <2>1, <2>3, StaysUpToDate
  <2>5. \A m \in seen' \ {n} : m \in settled' \/ GroupOf(m)' \cap failed' # {}
    BY <1>g, <1>u, <1>v, <2>1, <2>2
  <2>6. \A m \in seen : SavedAsListed(m)'
    BY <1>s, <1>u, <1>v, <2>1
  <2> QED BY <2>1, <2>4, <2>5, <2>6 DEF Underway
<1>4. CASE GetOrCreateDocument
  <2>1. /\ pc = "create" /\ pc' = "document" /\ \A n \in Numbers \ {group} : doc'[n] = doc[n]
        /\ UNCHANGED <<listed, ver, disk, failed, settled, seen, group, left>>
    BY <1>4, <1>v DEF GetOrCreateDocument
  <2>2. Handled' \subseteq Handled
    BY <2>1 DEF Handled
  <2>3. \A i \in Handled' : UpToDate(i)'
    BY <1>u, <2>1, <2>2, StaysUpToDate
  <2>4. \A n \in seen \ {group} : SavedAsListed(n)'
    BY <1>d, <1>u, <1>v, <2>1
  <2> QED BY <1>g, <1>u, <2>1, <2>3, <2>4 DEF Underway
<1>5. CASE SaveDocument
  <2>1. /\ pc = "document" /\ pc' = "items" /\ left' = GroupOf(group)
        /\ UNCHANGED <<listed, ver, disk, failed, settled, seen, group>>
    BY <1>5 DEF SaveDocument
  <2>2. PICK k \in Newest(GroupOf(group)) : doc' = [doc EXCEPT ![group] = SavedDocument(k)]
    BY <1>5 DEF SaveDocument
  <2>3. group \in Numbers
    BY <1>t, <2>1 DEF TypeOK, NumbersOrNone
  <2>4. doc'[group] = SavedDocument(k) /\ \A n \in Numbers \ {group} : doc'[n] = doc[n]
    BY <1>v, <2>2, <2>3
  <2>5. Handled' \subseteq Handled
    BY <2>1 DEF Handled, GroupOf
  <2>6. \A i \in Handled' : UpToDate(i)'
    BY <1>u, <2>1, <2>5, StaysUpToDate
  <2>7. \A n \in seen \ {group} : SavedAsListed(n)'
    BY <1>d, <1>u, <1>v, <2>1, <2>4
  <2>8. SavedAsListed(group)'
    BY <2>1, <2>4 DEF SavedAsListed, SavedDocument, Newest, GroupOf
  <2> QED BY <1>g, <1>u, <2>1, <2>6, <2>7, <2>8 DEF Underway
<1>6. ASSUME NEW i \in Items, RejectVersion(i) PROVE Underway'
  BY <1>l, <1>6 DEF RejectVersion, ItemFails, InLoop
<1>7. ASSUME NEW i \in Items, UpsertVersion(i) PROVE Underway'
  <2>1. /\ pc = "items" /\ pc' \in {"items", "fetch"} /\ i \in left
        /\ left' \in {left, left \ {i}} /\ ver' = [ver EXCEPT ![i] = UpsertedRow(i)]
        /\ UNCHANGED <<listed, doc, disk, seen, group, settled, failed, remote>>
    BY <1>7 DEF UpsertVersion
  <2>2. i \notin left' => ver[i].exists /\ ver[i].etag = listed[i].etag /\ ver[i].file
    BY <1>7, <2>1 DEF UpsertVersion, EtagChanged
  <2>3. ver'[i] = UpsertedRow(i) /\ \A k \in Items \ {i} : ver'[k] = ver[k]
    BY <1>v, <2>1
  <2>4. listed[i].number = group /\ listed[i].present
    BY <1>t, <2>1, NotYetHandled DEF GroupOf, InLoop
  <2>5. listed[i].etag = remote[i].etag
    BY <1>t, <2>1, <2>4, ListedIsRemote
  <2>6. ASSUME i \notin left' PROVE UpToDate(i)'
    <3>1. disk[i] = listed[i].etag
      <4>1. /\ disk[i] \in Nat /\ disk[i] <= remote[i].etag /\ remote[i].etag \in Nat
        BY <1>t, <1>v DEF DiskInv, TypeOK, RemoteItem
      <4>2. disk[i] # 0 /\ ver[i].etag <= disk[i]
        BY <2>2, <2>5, <2>6, <4>1 DEF DiskInv, FileInv, LostFileIsRefetched, FileNotOlderThanEtag
      <4> QED BY <2>2, <2>5, <2>6, <4>1, <4>2
    <3> QED BY <2>1, <2>2, <2>3, <2>4, <2>6, <3>1 DEF UpToDate, UpsertedRow
  <2> QED BY <1>l, <2>1, <2>3, <2>6 DEF InLoop
<1>8. CASE Fetch \/ DeleteOldFile \/ StoreFile
  <2>1. /\ pc \in {"fetch", "replace", "store"} /\ pc' \in InLoop
        /\ \A k \in Items \ {item} : disk'[k] = disk[k]
        /\ UNCHANGED <<listed, doc, ver, seen, group, settled, failed, left>>
    BY <1>8, <1>v DEF Fetch, DeleteOldFile, StoreFile, InLoop
  <2>2. item \in left
    BY <2>1 DEF GroupInv, HandledAreStored
  <2> QED BY <1>l, <2>1, <2>2 DEF InLoop
<1>9. CASE FetchFails
  <2>1. item \in left
    BY <1>9 DEF GroupInv, HandledAreStored, FetchFails
  <2> QED BY <1>l, <1>9, <2>1 DEF FetchFails, ItemFails, InLoop
<1>10. CASE RecordFile
  <2>1. /\ pc = "record" /\ pc' = "items" /\ left' = left \ {item}
        /\ ver' = [ver EXCEPT ![item] = RecordedRow(item)]
        /\ disk' = [disk EXCEPT ![item] = content]
        /\ UNCHANGED <<listed, doc, seen, group, settled, failed>>
    BY <1>10 DEF RecordFile
  <2>2. item \in left /\ ver[item].label = listed[item].label
    BY <2>1 DEF GroupInv, HandledAreStored
  <2>3. item \in Versions(group) \cap GroupOf(group)
    BY <1>t, <2>1 DEF GroupInOrder
  <2>4. /\ item \in Items /\ listed[item].present /\ listed[item].number = group
        /\ ver[item].exists /\ ver[item].number = group
    BY <2>3 DEF Versions, GroupOf
  <2>5. content = listed[item].etag
    <3>1. listed[item].etag <= content /\ content <= remote[item].etag
      BY <1>t, <2>1 DEF WorkOutdated
    <3>2. listed[item].etag = remote[item].etag
      BY <1>t, <2>1, <2>4, ListedIsRemote
    <3>3. remote[item].etag \in Nat /\ content \in Nat
      BY <1>t, <2>4 DEF TypeOK, RemoteItem
    <3> QED BY <3>1, <3>2, <3>3
  <2>6. /\ ver'[item] = RecordedRow(item) /\ disk'[item] = content
        /\ \A k \in Items \ {item} : ver'[k] = ver[k] /\ disk'[k] = disk[k]
    BY <1>v, <2>1, <2>4
  <2>i. PICK i \in Items : i = item
    BY <2>4
  <2>7. UpToDate(i)'
    <3>1. /\ ver'[item].exists /\ ver'[item].file /\ ver'[item].etag = listed[item].etag
          /\ ver'[item].number = group /\ ver'[item].label = listed[item].label
      <4>1. ver[item] \in VersionRow
        BY <1>v, <2>4
      <4> QED BY <2>2, <2>4, <2>6, <4>1 DEF RecordedRow, VersionRow
    <3> QED BY <2>1, <2>4, <2>5, <2>6, <2>i, <3>1 DEF UpToDate
  <2> QED BY <1>l, <2>1, <2>2, <2>6, <2>7, <2>i DEF InLoop
<1>11. CASE NoCandidate
  <2>1. /\ pc = "items" /\ pc' = "groups" /\ left = {} /\ left' = {} /\ group' = NoNumber
        /\ Candidates(group) = {}
        /\ UNCHANGED <<listed, doc, ver, disk, failed, settled, seen>>
    BY <1>11 DEF NoCandidate, GroupOver
  <2>2. Handled' \subseteq Handled
    BY <2>1 DEF Handled
  <2>3. \A i \in Handled' : UpToDate(i)'
    BY <1>u, <2>1, <2>2, StaysUpToDate
  <2>4. group \in ListedNumbers
    BY <1>b, <1>t, <1>v, <2>1 DEF TypeOK
  <2>5. GroupOf(group) \cap failed # {}
    <3>1. Versions(group) \cap GroupOf(group) = {}
      BY <2>1, NoCandidates
    <3>2. PICK i : i \in GroupOf(group)
      BY <2>4 DEF ListedNumbers
    <3> QED BY <2>1, <3>1, <3>2 DEF GroupInv, HandledAreStored, InLoop
  <2>6. \A n \in seen : n \in settled' \/ GroupOf(n)' \cap failed' # {}
    BY <1>g, <1>u, <2>1, <2>5
  <2>7. \A n \in seen : SavedAsListed(n)'
    BY <1>s, <1>u, <1>v, <2>1
  <2> QED BY <2>1, <2>3, <2>6, <2>7 DEF Underway
<1>12. CASE DemoteOthers
  <2>1. PICK c : ver' = Demoted(c)
    BY <1>12 DEF DemoteOthers
  <2>2. /\ pc = "items" /\ pc' = "promote" /\ left = {}
        /\ UNCHANGED <<listed, doc, disk, failed, settled, seen, group, left>>
    BY <1>12 DEF DemoteOthers
  <2>3. \A i \in Items : /\ ver'[i].exists = ver[i].exists /\ ver'[i].file = ver[i].file
                       /\ ver'[i].number = ver[i].number /\ ver'[i].label = ver[i].label
                       /\ ver'[i].etag = ver[i].etag
    BY <1>v, <2>1 DEF Demoted, VersionRow
  <2>4. Handled' \subseteq Handled
    BY <2>2 DEF Handled
  <2>5. ASSUME NEW i \in Handled' PROVE UpToDate(i)'
    <3>1. i \in Handled /\ i \in Items
      BY <2>4 DEF Handled
    <3> QED BY <1>u, <2>2, <2>3, <3>1, StaysUpToDate
  <2>6. \A n \in seen : SavedAsListed(n)'
    BY <1>s, <1>u, <1>v, <2>2
  <2> QED BY <1>g, <1>u, <2>2, <2>5, <2>6 DEF Underway
<1>13. CASE PromoteChosen
  <2>1. /\ pc = "promote" /\ pc' = "groups" /\ left' = {} /\ group' = NoNumber
        /\ ver' = [ver EXCEPT ![chosen].current = TRUE]
        /\ settled' = settled \cup {group}
        /\ UNCHANGED <<listed, doc, disk, failed, seen>>
    BY <1>13 DEF PromoteChosen, GroupOver
  <2>2. \A i \in Items : /\ ver'[i].exists = ver[i].exists /\ ver'[i].file = ver[i].file
                       /\ ver'[i].number = ver[i].number /\ ver'[i].label = ver[i].label
                       /\ ver'[i].etag = ver[i].etag
    BY <1>v, <2>1 DEF VersionRow
  <2>3. Handled' \subseteq Handled
    BY <1>u, <2>1 DEF Handled
  <2>4. ASSUME NEW i \in Handled' PROVE UpToDate(i)'
    <3>1. i \in Handled /\ i \in Items
      BY <2>3 DEF Handled
    <3> QED BY <1>u, <2>1, <2>2, <3>1, StaysUpToDate
  <2>5. \A n \in seen : n \in settled' \/ GroupOf(n)' \cap failed' # {}
    BY <1>g, <1>u, <2>1
  <2>6. \A n \in seen : SavedAsListed(n)'
    BY <1>s, <1>u, <1>v, <2>1
  <2> QED BY <2>1, <2>4, <2>5, <2>6 DEF Underway
<1>14. CASE FinishRun
  BY <1>14 DEF FinishRun, RunOver
<1> QED
  BY <1>1, <1>2, <1>3, <1>4, <1>5, <1>6, <1>7, <1>8, <1>9, <1>10, <1>11, <1>12, <1>13, <1>14
  DEF RunStep

\* A run that ends without an error leaves everything in line.
LEMMA Completes ==
  ASSUME GroupInv, ListingInv, SeenInv, Snapshot, Underway, FinishRun, failed = {}
  PROVE  Complete'
<1>t. TypeOK /\ pc = "groups" /\ ~limited /\ group = NoNumber
  BY DEF SeenInv, FinishRun, TypeOK, Snapshot
<1>v. /\ doc \in [Numbers -> DocumentRow] /\ remote \in [Items -> RemoteItem]
      /\ listed \in [Items -> RemoteItem] /\ seen \subseteq Numbers /\ NoNumber \notin Numbers
  BY <1>t, NumbersAssumption DEF TypeOK
<1>1. /\ pc' = "idle" /\ UNCHANGED <<remote, ver, disk>> /\ ListedNumbers \subseteq seen
      /\ doc' = [n \in Numbers |->
                   IF n \in Unseen THEN [doc[n] EXCEPT !.active = FALSE] ELSE doc[n]]
  BY <1>t DEF FinishRun, RunOver
<1>2. ASSUME NEW i \in Items, NEW n \in Numbers, i \in GroupOf(n)
      PROVE  Mirrored(i) /\ UpToDate(i) /\ listed[i] = remote[i]
  <2>1. n \in seen /\ n # group /\ listed[i].present /\ listed[i].number = n
    BY <1>1, <1>2, <1>t, <1>v DEF ListedNumbers, GroupOf
  <2>2. UpToDate(i)
    BY <2>1 DEF Underway, Handled
  <2>3. listed[i] = remote[i]
    BY <1>t, <2>1, ListedIsRemote
  <2> QED BY <2>2, <2>3 DEF UpToDate, Mirrored
<1>3. ASSUME NEW i \in Items, remote[i].present, remote[i].number # NoNumber
      PROVE  Mirrored(i)'
  <2>1. listed[i].present /\ listed[i] = remote[i] /\ remote[i] \in RemoteItem
    BY <1>3, <1>t, <1>v, ListedIsRemote
  <2>2. remote[i].number \in Numbers /\ i \in GroupOf(remote[i].number)
    BY <1>3, <2>1 DEF GroupOf, RemoteItem, NumbersOrNone
  <2> QED BY <1>1, <1>2, <2>2 DEF Mirrored
<1>4. ASSUME NEW n \in Numbers, Published(n) = {}
      PROVE  ~doc'[n].active
  <2>1. n \notin seen
    BY <1>4, <1>t, PublishedIsGroup DEF SeenInv, ListedNumbers
  <2>2. /\ doc[n] \in DocumentRow
        /\ doc'[n] = IF doc[n].active THEN [doc[n] EXCEPT !.active = FALSE] ELSE doc[n]
    BY <1>1, <1>v, <2>1 DEF Unseen
  <2> QED BY <2>2 DEF DocumentRow
<1>5. ASSUME NEW n \in Numbers, Published(n) # {}
      PROVE  \E k \in Items : Shows(n, k)'
  <2>1. GroupOf(n) = Published(n)
    BY <1>t, PublishedIsGroup
  <2>2. n \in seen /\ n \in settled
    BY <1>1, <1>5, <1>t, <1>v, <2>1 DEF ListedNumbers, Underway
  <2>3. {i \in Versions(n) : ver[i].current} = Newest(GroupOf(n))
    BY <2>2 DEF GroupInv, CleanGroupShowsNewest
  <2>4. PICK k \in Newest(GroupOf(n)) : doc[n] = SavedDocument(k)
    BY <1>t, <1>v, <2>2 DEF Underway, SavedAsListed
  <2>5. k \in Items /\ k \in GroupOf(n) /\ \A j \in GroupOf(n) : listed[j].label <= listed[k].label
    BY DEF Newest, GroupOf
  <2>6. \A j \in GroupOf(n) :
          j \in Items /\ Mirrored(j) /\ listed[j] = remote[j] /\ listed[j].label \in Nat
    BY <1>2, <1>v DEF GroupOf, RemoteItem
  <2>7. doc'[n] = doc[n]
    BY <1>1, <2>2 DEF Unseen
  <2>8. ASSUME NEW j \in Versions(n), ver[j].current PROVE j = k
    <3>1. j \in GroupOf(n) /\ listed[k].label <= listed[j].label
      BY <2>3, <2>5, <2>8 DEF Newest
    <3>2. listed[j].label = listed[k].label
      BY <2>5, <2>6, <3>1
    <3>3. /\ j \in Items /\ ver[j].exists /\ ver[k].exists /\ ver[j].label = ver[k].label
          /\ ver[j].number = n /\ ver[k].number = n
      BY <2>5, <2>6, <3>1, <3>2 DEF Mirrored, GroupOf
    <3> QED BY <2>5, <3>3 DEF GroupInv, LabelsUnique
  <2>9. Published(n)' = Published(n) /\ Versions(n)' = Versions(n)
    BY <1>1 DEF Published, Versions
  <2>10. ver[k].current
    BY <2>3, <2>4
  <2>11. Shows(n, k)'
    <3>1. k \in Published(n)' /\ \A j \in Published(n)' : remote'[j].label <= remote'[k].label
      BY <1>1, <2>1, <2>5, <2>6, <2>9
    <3>2. doc'[n] = [exists |-> TRUE, active |-> remote'[k].valid]
      BY <1>1, <2>4, <2>5, <2>6, <2>7 DEF SavedDocument
    <3>3. ver'[k].current /\ \A j \in Versions(n)' : ver'[j].current => j = k
      BY <1>1, <2>8, <2>9, <2>10
    <3> QED BY <3>1, <3>2, <3>3 DEF Shows
  <2> QED BY <2>5, <2>11
<1>6. \A n \in Numbers : Published(n)' = Published(n)
  BY <1>1 DEF Published
<1> QED BY <1>1, <1>3, <1>4, <1>5, <1>6 DEF Complete

\* What has been completed depends on the library, the tables and the files alone.
LEMMA SameComplete ==
  ASSUME Complete, remote' = remote, disk' = disk,
         \A i \in Items : ver'[i] = ver[i], \A n \in Numbers : doc'[n] = doc[n],
         pc' \notin {"fetch", "replace", "store", "record"},
         pc' = "promote" => ver'[chosen'].current
  PROVE  Complete'
<1>1. ASSUME NEW i \in Items PROVE Mirrored(i)' <=> Mirrored(i)
  BY DEF Mirrored
<1>2. \A n \in Numbers : Published(n)' = Published(n) /\ Versions(n)' = Versions(n)
  BY DEF Published, Versions
<1>3. ASSUME NEW n \in Numbers, NEW k \in Items PROVE Shows(n, k)' <=> Shows(n, k)
  BY <1>2, <1>3 DEF Shows, Versions
<1> QED BY <1>1, <1>2, <1>3 DEF Complete

\* The group in hand when everything has been completed already.
LEMMA CompleteGroup ==
  ASSUME GroupInv, ListingInv, SeenInv, Snapshot, Complete,
         pc \notin {"idle", "listing", "groups"}
  PROVE  /\ group \in Numbers
         /\ \A i \in GroupOf(group) : Mirrored(i) /\ listed[i] = remote[i]
         /\ \E k \in Items : Shows(group, k) /\ Newest(GroupOf(group)) = {k}
<1>t. TypeOK /\ group \in Numbers /\ remote \in [Items -> RemoteItem] /\ NoNumber \notin Numbers
  BY NumbersAssumption DEF SeenInv, TypeOK, NumbersOrNone
<1>1. group \in ListedNumbers
  BY <1>t DEF GroupInv, Books, SeenInv
<1>2. GroupOf(group) = Published(group)
  BY <1>t, PublishedIsGroup
<1>3. ASSUME NEW i \in GroupOf(group)
      PROVE  i \in Items /\ Mirrored(i) /\ listed[i] = remote[i] /\ remote[i].number = group
  BY <1>2, <1>t, ListedIsRemote DEF Complete, Published, GroupOf
<1>4. PICK k \in Items : Shows(group, k)
  BY <1>1, <1>2, <1>t DEF Complete, ListedNumbers
<1>5. k \in Newest(GroupOf(group))
  BY <1>2, <1>3, <1>4 DEF Shows, Newest
<1>6. ASSUME NEW i \in Newest(GroupOf(group)) PROVE i = k
  <2>1. i \in GroupOf(group) /\ k \in GroupOf(group)
    BY <1>5 DEF Newest
  <2>2. remote[i].label = remote[k].label
    <3>1. remote[i].label <= remote[k].label /\ remote[k].label <= remote[i].label
      BY <1>3, <1>5, <2>1 DEF Newest
    <3>2. remote[i].label \in Nat /\ remote[k].label \in Nat
      BY <1>3, <1>t, <2>1 DEF RemoteItem
    <3> QED BY <3>1, <3>2
  <2> QED BY <1>3, <2>1, <2>2 DEF GroupInv, LabelsUnique, Mirrored
<1> QED BY <1>t, <1>3, <1>4, <1>5, <1>6

\* Neither a run nor a failure undoes what has been completed.
LEMMA CompleteStep ==
  ASSUME GroupInv, ListingInv, SeenInv, Snapshot, Complete, RunStep \/ Fault \/ StartRun(FALSE)
  PROVE  Complete'
<1>t. TypeOK /\ chosen \in Items \cup {NoItem}
  BY DEF SeenInv, TypeOK
<1>v. ver \in [Items -> VersionRow] /\ doc \in [Numbers -> DocumentRow]
  BY <1>t DEF TypeOK
<1>c. /\ pc \notin {"fetch", "replace", "store", "record"}
      /\ pc = "promote" => ver[chosen].current
  BY DEF Complete
<1>1. CASE StartRun(FALSE) \/ FinishListing \/ ListingFails
  BY <1>1, SameComplete DEF StartRun, FinishListing, ListingFails, RunOver
<1>2. CASE NoCandidate \/ GroupFails \/ Crash
  BY <1>2, SameComplete DEF NoCandidate, GroupFails, Crash, GroupOver, RunOver
<1>3. ASSUME NEW i \in Items, ListItem(i) PROVE Complete'
  BY <1>3, SameComplete DEF ListItem
<1>4. ASSUME NEW n \in Numbers, BeginGroup(n) PROVE Complete'
  BY <1>4, SameComplete DEF BeginGroup
<1>5. CASE GetOrCreateDocument
  <2>1. PICK k \in Items : Shows(group, k)
    BY <1>5, CompleteGroup DEF GetOrCreateDocument
  <2> QED BY <1>5, <2>1, SameComplete DEF GetOrCreateDocument, Shows
<1>6. CASE SaveDocument
  <2>1. PICK k \in Items : Shows(group, k) /\ Newest(GroupOf(group)) = {k}
    BY <1>6, CompleteGroup DEF SaveDocument
  <2>2. doc' = [doc EXCEPT ![group] = SavedDocument(k)] /\ k \in GroupOf(group)
    BY <1>6, <2>1 DEF SaveDocument, Newest
  <2>3. SavedDocument(k) = doc[group]
    BY <1>6, <2>1, <2>2, CompleteGroup DEF SaveDocument, SavedDocument, Shows
  <2>4. \A n \in Numbers : doc'[n] = doc[n]
    BY <1>v, <2>2, <2>3
  <2> QED BY <1>6, <2>4, SameComplete DEF SaveDocument
<1>7. ASSUME NEW i \in Items, RejectVersion(i) \/ UpsertVersion(i) PROVE Complete'
  <2>1. pc = "items" /\ i \in left
    BY <1>7 DEF RejectVersion, UpsertVersion
  <2>2. i \in GroupOf(group) /\ group \in Numbers
    BY <1>t, <2>1, NotYetHandled DEF GroupInv, FlagInv, InLoop
  <2>3. /\ ver[i].exists /\ ver[i].number = group /\ ver[i].label = listed[i].label
        /\ ver[i].file /\ ver[i].etag = listed[i].etag /\ ver[i] \in VersionRow
    BY <1>v, <2>1, <2>2, CompleteGroup DEF Mirrored, GroupOf
  <2>4. ~LabelTaken(i)
    BY <2>3 DEF LabelTaken, Versions, GroupInv, LabelsUnique
  <2>5. UpsertedRow(i) = ver[i]
    BY <2>3 DEF UpsertedRow, VersionRow
  <2>6. /\ \A k \in Items : ver'[k] = ver[k]
        /\ UNCHANGED <<remote, doc, disk, pc>>
    BY <1>7, <1>v, <2>1, <2>3, <2>4, <2>5 DEF RejectVersion, UpsertVersion, EtagChanged, ItemFails
  <2> QED BY <2>1, <2>6, SameComplete
<1>8. CASE Fetch \/ FetchFails \/ DeleteOldFile \/ StoreFile \/ StoreFails \/ RecordFile
  BY <1>8, <1>c DEF Fetch, FetchFails, DeleteOldFile, StoreFile, StoreFails, RecordFile
<1>9. CASE DemoteOthers
  <2>1. PICK c \in Best(group) : chosen' = c /\ ver' = Demoted(c)
    BY <1>9 DEF DemoteOthers
  <2>2. PICK k \in Items : Shows(group, k) /\ Newest(GroupOf(group)) = {k}
    BY <1>9, CompleteGroup DEF DemoteOthers
  <2>3. \A i \in GroupOf(group) : /\ i \in Versions(group) /\ ver[i].file
                                /\ ver[i].label = listed[i].label
    BY <1>9, CompleteGroup DEF DemoteOthers, Mirrored, Versions, GroupOf
  <2>4. Candidates(group) = GroupOf(group)
    <3>1. Versions(group) \cap GroupOf(group) = GroupOf(group)
      BY <2>3
    <3>2. {i \in GroupOf(group) : ver[i].file} = GroupOf(group)
      BY <2>3
    <3> QED BY <3>1, <3>2 DEF Candidates
  <2>5. c = k
    BY <2>1, <2>2, <2>3, <2>4 DEF Best, Newest
  <2>6. ASSUME NEW i \in Items PROVE ver'[i] = ver[i]
    <3>1. CASE i \in Versions(group) \ {k}
      <4>1. ver[i] \in VersionRow /\ ver[i].current = FALSE
        BY <1>v, <2>2, <3>1 DEF Shows, VersionRow
      <4>2. [ver[i] EXCEPT !.current = FALSE] = ver[i]
        BY <4>1 DEF VersionRow
      <4> QED BY <2>1, <2>5, <3>1, <4>2 DEF Demoted
    <3>2. CASE i \notin Versions(group) \ {k}
      BY <2>1, <2>5, <3>2 DEF Demoted
    <3> QED BY <3>1, <3>2
  <2>7. ver'[chosen'].current
    BY <2>1, <2>2, <2>5, <2>6 DEF Shows
  <2> QED BY <1>9, <2>6, <2>7, SameComplete DEF DemoteOthers
<1>10. CASE PromoteChosen
  <2>1. pc = "promote" /\ pc' = "groups" /\ UNCHANGED <<remote, doc, disk>>
        /\ ver' = [ver EXCEPT ![chosen].current = TRUE]
    BY <1>10 DEF PromoteChosen, GroupOver
  <2>2. chosen \in Items /\ ver[chosen] \in VersionRow /\ ver[chosen].current = TRUE
    BY <1>c, <1>t, <1>v, <2>1 DEF TypeOK, VersionRow
  <2>3. [ver[chosen] EXCEPT !.current = TRUE] = ver[chosen]
    BY <2>2 DEF VersionRow
  <2>4. \A i \in Items : ver'[i] = ver[i]
    BY <1>v, <2>1, <2>2, <2>3
  <2> QED BY <2>1, <2>4, SameComplete
<1>11. CASE FinishRun
  <2>1. /\ pc = "groups" /\ pc' = "idle" /\ ListedNumbers \subseteq seen
        /\ UNCHANGED <<remote, ver, disk>>
        /\ doc' = IF limited THEN doc
                  ELSE [n \in Numbers |-> IF n \in Unseen THEN [doc[n] EXCEPT !.active = FALSE]
                                                           ELSE doc[n]]
    BY <1>11 DEF FinishRun, RunOver
  <2>2. ASSUME NEW n \in Numbers PROVE n \notin Unseen
    <3>1. n \notin seen => Published(n) = {}
      BY <1>t, <2>1, PublishedIsGroup DEF ListedNumbers
    <3> QED BY <3>1 DEF Complete, Unseen
  <2>3. \A n \in Numbers : doc'[n] = doc[n]
    BY <2>1, <2>2
  <2> QED BY <2>1, <2>3, SameComplete
<1> QED
  BY <1>1, <1>2, <1>3, <1>4, <1>5, <1>6, <1>7, <1>8, <1>9, <1>10, <1>11 DEF RunStep, Fault

LEMMA OnlyFinishRunEnds == RunStep /\ pc # "idle" /\ pc' = "idle" => FinishRun
BY DEF RunStep, ListItem, FinishListing, BeginGroup, GetOrCreateDocument, SaveDocument,
  RejectVersion, UpsertVersion, ItemFails, Fetch, FetchFails, DeleteOldFile, StoreFile,
  RecordFile, NoCandidate, DemoteOthers, PromoteChosen, GroupOver

LEMMA RepairInit == RInit => RepairInv
<1> SUFFICES ASSUME RInit PROVE RepairInv
  OBVIOUS
<1>1. GroupInv /\ FileInv /\ TypeOK
  BY GroupInit, FileInit, TypeInit DEF RInit
<1>2. SeenInv /\ ListingInv
  BY <1>1 DEF RInit, Init, SeenInv, ListingInv
<1>3. DiskInv
  BY <1>1 DEF RInit, Init, DiskInv, NotListed
<1> QED BY <1>1, <1>2, <1>3 DEF RInit, RepairInv

LEMMA RepairStep == RepairInv /\ [RNext]_rvars => RepairInv'
<1> SUFFICES ASSUME RepairInv, [RNext]_rvars PROVE RepairInv'
  OBVIOUS
<1>1. GroupInv' /\ ListingInv' /\ SeenInv' /\ DiskInv'
  BY RStepIsStep, GroupStep, ListingStep, SeenStep, DiskStep DEF RepairInv
<1>2. TypeOK /\ TypeOK'
  BY <1>1 DEF RepairInv, SeenInv
<1>3. CASE repair' = "none"
  BY <1>1, <1>3 DEF RepairInv
<1>4. CASE StartRun(FALSE) /\ repair' = (IF repair = "complete" THEN repair ELSE "underway")
  <2>1. Snapshot'
    BY <1>2, <1>4, SnapshotStep DEF RepairInv
  <2>2. repair = "complete" => Complete'
    BY <1>4, CompleteStep DEF RepairInv
  <2>3. repair' = "underway" => Underway'
    BY <1>4 DEF RepairInv, SeenInv, StartRun, Underway, Handled
  <2> QED BY <1>1, <1>4, <2>1, <2>2, <2>3 DEF RepairInv
<1>5. CASE RunStep /\ repair' = AfterRunStep /\ repair' # "none"
  <2>1. repair # "none" /\ Snapshot /\ repair \in {"none", "underway", "complete"}
    BY <1>5 DEF RepairInv, AfterRunStep
  <2>2. Snapshot'
    BY <1>2, <1>5, <2>1, SnapshotStep DEF RepairInv
  <2>3. repair = "complete" => Complete' /\ repair' = "complete"
    BY <1>5, <2>1, CompleteStep DEF RepairInv, AfterRunStep
  <2>4. CASE repair = "underway" /\ pc' # "idle"
    <3>1. Underway' /\ repair' = "underway"
      BY <1>5, <2>1, <2>4, UnderwayStep DEF RepairInv, AfterRunStep
    <3> QED BY <1>1, <2>2, <3>1 DEF RepairInv
  <2>5. CASE repair = "underway" /\ pc' = "idle"
    <3>1. repair' = "complete" /\ failed = {} /\ pc # "idle"
      BY <1>5, <2>5 DEF AfterRunStep, RepairInv, Underway
    <3>2. FinishRun
      BY <1>5, <2>5, <3>1, OnlyFinishRunEnds
    <3>3. Complete'
      BY <2>1, <2>5, <3>1, <3>2, Completes DEF RepairInv
    <3> QED BY <1>1, <2>2, <3>1, <3>3 DEF RepairInv
  <2> QED BY <1>1, <2>1, <2>2, <2>3, <2>4, <2>5 DEF RepairInv
<1>6. CASE Fault /\ repair = "complete" /\ repair' = "complete"
  BY <1>1, <1>2, <1>6, SnapshotStep, CompleteStep DEF RepairInv
<1>7. CASE UNCHANGED rvars
  <2>1. UNCHANGED <<vars, repair>>
    BY <1>7 DEF rvars
  <2>2. Snapshot' <=> Snapshot
    BY <2>1 DEF vars, Snapshot
  <2>3. Underway' <=> Underway
    BY <2>1 DEF vars, Underway, Handled, UpToDate, SavedAsListed, SavedDocument, Newest, GroupOf
  <2>4. Complete => Complete'
    BY <2>1, SameComplete DEF vars, Complete
  <2> QED BY <1>1, <2>1, <2>2, <2>3, <2>4 DEF RepairInv
<1> QED
  BY <1>3, <1>4, <1>5, <1>6, <1>7 DEF RNext

LEMMA CompleteIsInLine == GroupInv /\ Complete => InLine
<1> SUFFICES ASSUME GroupInv, Complete, NEW n \in Numbers
             PROVE  HighestIsCurrent(n) /\ ActiveAsPublished(n)
  BY DEF InLine, Complete
<1>t. remote \in [Items -> RemoteItem]
  BY DEF GroupInv, FlagInv, TypeOK
<1>1. CASE Published(n) = {}
  BY <1>1 DEF Complete, HighestIsCurrent, ActiveAsPublished
<1>2. CASE Published(n) # {}
  <2>1. PICK k \in Items : Shows(n, k)
    BY <1>2 DEF Complete
  <2>2. k \in Versions(n)
    BY <2>1, NumbersAssumption DEF Complete, Mirrored, Shows, Published, Versions
  <2>3. {j \in Versions(n) : ver[j].current} = {k}
    BY <2>1, <2>2 DEF Shows
  <2>4. \A i \in Published(n) : remote[i].label \in Nat /\ i \in Items
    BY <1>t DEF Published, RemoteItem
  <2>5. HighestIsCurrent(n)
    BY <2>1, <2>3, <2>4 DEF HighestIsCurrent, Shows
  <2>6. ASSUME NEW i \in Published(n), remote[k].label <= remote[i].label PROVE i = k
    <3>1. Mirrored(i) /\ Mirrored(k) /\ remote[i].number = n /\ remote[k].number = n
      BY <2>1, NumbersAssumption DEF Complete, Shows, Published
    <3>2. remote[i].label = remote[k].label
      BY <2>1, <2>4, <2>6 DEF Shows
    <3> QED BY <2>4, <3>1, <3>2 DEF GroupInv, LabelsUnique, Mirrored
  <2>7. ActiveAsPublished(n)
    BY <2>1, <2>6 DEF ActiveAsPublished, Shows
  <2> QED BY <2>5, <2>7
<1> QED BY <1>1, <1>2

\* One undisturbed run without errors repairs everything, whatever state earlier runs,
\* crashes and failures left the tables and the files in.
THEOREM OneRunRepairsAlways == RSpec => []OneRunRepairs
<1>1. RepairInv => OneRunRepairs
  BY CompleteIsInLine DEF RepairInv, OneRunRepairs, SeenInv
<1> QED BY <1>1, RepairInit, RepairStep, PTL DEF RSpec

\* The history variable changes nothing of the sync: every theorem about DocumentSync
\* holds of Recovery too.
THEOREM RecoveryIsSync == RSpec => Spec
<1>1. RInit => Init
  BY DEF RInit
<1> QED BY <1>1, RStepIsStep, PTL DEF RSpec, Spec

-----------------------------------------------------------------------------
(* A run without faults, in a library where every version keeps its item. *)

\* The number and label of an item, of its listing and of its row are of its catalogue.
FromCatalogue(i, number, label) == \E f \in Catalogue[i] : f[1] = number /\ f[2] = label

LabelInv ==
  /\ TypeOK /\ GroupInOrder
  /\ \A i \in Items :
       /\ remote[i].present => FromCatalogue(i, remote[i].number, remote[i].label)
       /\ listed[i].present => FromCatalogue(i, listed[i].number, listed[i].label)
       /\ ver[i].exists => FromCatalogue(i, ver[i].number, ver[i].label)

LEMMA LabelStep == LabelInv /\ FlagInv /\ [Next]_vars => LabelInv'
<1> SUFFICES ASSUME LabelInv, FlagInv, [Next]_vars, NEW i \in Items
             PROVE  /\ remote'[i].present => FromCatalogue(i, remote'[i].number, remote'[i].label)
                    /\ listed'[i].present => FromCatalogue(i, listed'[i].number, listed'[i].label)
                    /\ ver'[i].exists => FromCatalogue(i, ver'[i].number, ver'[i].label)
  BY TypeStep, FlagStep DEF LabelInv, FlagInv
<1> DEFINE Goal == /\ remote'[i].present => FromCatalogue(i, remote'[i].number, remote'[i].label)
                   /\ listed'[i].present => FromCatalogue(i, listed'[i].number, listed'[i].label)
                   /\ ver'[i].exists => FromCatalogue(i, ver'[i].number, ver'[i].label)
<1>t. /\ remote \in [Items -> RemoteItem] /\ listed \in [Items -> RemoteItem]
      /\ ver \in [Items -> VersionRow] /\ left \subseteq Items
      /\ item # NoItem => item \in Items
  BY DEF LabelInv, TypeOK
<1>i. /\ remote[i].present => FromCatalogue(i, remote[i].number, remote[i].label)
      /\ listed[i].present => FromCatalogue(i, listed[i].number, listed[i].label)
      /\ ver[i].exists => FromCatalogue(i, ver[i].number, ver[i].label)
  BY DEF LabelInv
<1>a. ASSUME UNCHANGED <<remote, listed>>,
             ver'[i].exists = ver[i].exists, ver'[i].number = ver[i].number,
             ver'[i].label = ver[i].label
      PROVE  Goal
  BY <1>a, <1>i
<1>1. ASSUME NEW k \in Items, PutItem(k) PROVE Goal
  <2>1. PICK f \in Catalogue[k] : remote' = [remote EXCEPT ![k] =
          [present |-> TRUE, number |-> f[1], label |-> f[2], valid |-> f[3], etag |-> @.etag + 1]]
    BY <1>1 DEF PutItem
  <2>2. i = k => FromCatalogue(i, remote'[i].number, remote'[i].label)
    BY <1>t, <2>1 DEF FromCatalogue
  <2>3. i # k => remote'[i] = remote[i]
    BY <1>t, <2>1
  <2> QED BY <1>1, <1>i, <2>2, <2>3 DEF PutItem
<1>2. ASSUME NEW k \in Items, WithdrawItem(k) PROVE Goal
  <2>1. i # k => remote'[i] = remote[i]
    BY <1>2, <1>t DEF WithdrawItem
  <2>2. i = k => remote'[i].present = FALSE
    BY <1>2, <1>t DEF WithdrawItem, RemoteItem
  <2> QED BY <1>2, <1>i, <2>1, <2>2 DEF WithdrawItem
<1>3. ASSUME NEW k \in Items, ListItem(k) PROVE Goal
  BY <1>3, <1>i, <1>t DEF ListItem, NotListed
<1>4. ASSUME NEW k \in Items, RejectVersion(k) PROVE Goal
  BY <1>4, <1>a DEF RejectVersion
<1>5. ASSUME NEW k \in Items, UpsertVersion(k) PROVE Goal
  <2>1. /\ UNCHANGED <<remote, listed>> /\ ver' = [ver EXCEPT ![k] = UpsertedRow(k)]
        /\ k \in GroupOf(group)
    BY <1>5 DEF UpsertVersion, LabelInv, GroupInOrder
  <2>2. i = k => /\ listed[i].present /\ ver'[i].number = listed[i].number
                 /\ ver'[i].label = listed[i].label
    BY <1>t, <2>1 DEF UpsertedRow, GroupOf
  <2>3. i # k => ver'[i] = ver[i]
    BY <1>t, <2>1
  <2> QED BY <1>i, <2>1, <2>2, <2>3
<1>6. CASE RecordFile
  <2>1. UNCHANGED <<remote, listed>> /\ ver' = [ver EXCEPT ![item] = RecordedRow(item)]
    BY <1>6 DEF RecordFile
  <2> QED BY <1>a, <1>t, <2>1 DEF RecordedRow, VersionRow
<1>7. CASE DemoteOthers
  <2>1. PICK c : ver' = Demoted(c)
    BY <1>7 DEF DemoteOthers
  <2> QED BY <1>7, <1>a, <1>t, <2>1 DEF DemoteOthers, Demoted, VersionRow
<1>8. CASE PromoteChosen
  BY <1>8, <1>a, <1>t DEF PromoteChosen, VersionRow
<1>9. CASE FinishRun \/ ListingFails \/ Crash
  BY <1>9, <1>i DEF FinishRun, ListingFails, Crash, RunOver, NotListed
<1>10. ASSUME NEW n \in Numbers, BeginGroup(n) PROVE Goal
  BY <1>10, <1>a DEF BeginGroup
<1>11. ASSUME NEW limit \in BOOLEAN, StartRun(limit) PROVE Goal
  BY <1>11, <1>a DEF StartRun
<1>12. CASE FinishListing \/ GetOrCreateDocument \/ SaveDocument \/ NoCandidate \/ GroupFails
  BY <1>12, <1>a DEF FinishListing, GetOrCreateDocument, SaveDocument, NoCandidate, GroupFails
<1>13. CASE Fetch \/ FetchFails \/ DeleteOldFile \/ StoreFile \/ StoreFails
  BY <1>13, <1>a DEF Fetch, FetchFails, DeleteOldFile, StoreFile, StoreFails
<1>14. CASE UNCHANGED vars
  BY <1>14, <1>a DEF vars
<1> QED
  BY <1>1, <1>2, <1>3, <1>4, <1>5, <1>6, <1>7, <1>8, <1>9, <1>10, <1>11, <1>12, <1>13, <1>14
  DEF Next, SharePoint, RunStep, Fault

\* The unique index turns no listed item down.
LEMMA NoLabelTaken ==
  ASSUME Orderly, LabelInv, pc = "items", NEW i \in left
  PROVE  ~LabelTaken(i)
<1>1. i \in Items /\ group \in Numbers /\ listed[i].present /\ listed[i].number = group
  BY NotYetHandled DEF LabelInv, InLoop, GroupOf
<1>2. PICK f \in Catalogue[i] : f[1] = group /\ f[2] = listed[i].label
  BY <1>1 DEF LabelInv, FromCatalogue
<1>3. ASSUME NEW j \in Versions(group) \ {i}, ver[j].label = listed[i].label
      PROVE  FALSE
  <2>1. PICK g \in Catalogue[j] : g[1] = group /\ g[2] = listed[i].label
    BY <1>3 DEF LabelInv, FromCatalogue, Versions
  <2> QED BY <1>1, <1>2, <1>3, <2>1, NumbersAssumption DEF Orderly, Versions
<1> QED BY <1>3 DEF LabelTaken

\* A step of an undisturbed run that gives an item up is a fault.
LEMMA ItemsCostFaults ==
  ASSUME Orderly, LabelInv, ListingInv, GroupInv, repair # "none" => Snapshot, [RNext]_rvars,
         repair = "underway", ~(failed' \subseteq failed)
  PROVE  faults' = faults + 1
<1>1. CASE SharePoint
  BY <1>1 DEF SharePoint, PutItem, WithdrawItem
<1>2. CASE StartRun(TRUE) \/ StartRun(FALSE)
  BY <1>2 DEF StartRun
<1>3. CASE Fault
  BY <1>3 DEF Fault, ListingFails, GroupFails, StoreFails, Crash
<1>4. CASE RunStep
  <2>1. ASSUME NEW i \in Items, RejectVersion(i) PROVE faults' = faults + 1
    BY <2>1, NoLabelTaken DEF RejectVersion
  <2>2. CASE FetchFails
    <3>1. pc = "fetch" /\ item \in GroupOf(group)
      BY <2>2 DEF FetchFails, LabelInv, GroupInOrder
    <3>2. remote[item].present
      BY <3>1, ListedIsRemote DEF LabelInv, GroupOf
    <3> QED BY <2>2, <3>2 DEF FetchFails
  <2>3. ASSUME NEW i \in Items, ListItem(i) \/ UpsertVersion(i) PROVE failed' = failed
    BY <2>3 DEF ListItem, UpsertVersion
  <2>4. ASSUME NEW n \in Numbers, BeginGroup(n) PROVE failed' = failed
    BY <2>4 DEF BeginGroup
  <2>5. CASE FinishListing \/ GetOrCreateDocument \/ SaveDocument \/ NoCandidate \/ DemoteOthers
               \/ PromoteChosen
    BY <2>5 DEF FinishListing, GetOrCreateDocument, SaveDocument, NoCandidate, DemoteOthers,
      PromoteChosen
  <2>6. CASE Fetch \/ DeleteOldFile \/ StoreFile \/ RecordFile \/ FinishRun
    BY <2>6 DEF Fetch, DeleteOldFile, StoreFile, RecordFile, FinishRun, RunOver
  <2> QED
    BY <1>4, <2>1, <2>2, <2>3, <2>4, <2>5, <2>6 DEF RunStep
<1>5. CASE UNCHANGED rvars
  BY <1>5 DEF rvars, vars
<1> QED
  BY <1>1, <1>2, <1>3, <1>4, <1>5 DEF RNext

\* In a library where every version keeps its item, an undisturbed nightly run gives an
\* item up only when a request or the storage fails: the unique index is never in its way.
THEOREM OnlyFaultsCostAnItem ==
  ASSUME Orderly PROVE RSpec => OnlyFaultsCostItems
<1>1. RInit => LabelInv
  <2>1. RInit => TypeOK /\ GroupInOrder
    BY GroupInit DEF RInit, GroupInv, FlagInv
  <2> QED BY <2>1 DEF RInit, Init, LabelInv, NotListed, NoVersion
<1>2. RepairInv /\ LabelInv /\ [RNext]_rvars => LabelInv'
  BY RStepIsStep, LabelStep DEF RepairInv, GroupInv
<1>3. RepairInv /\ LabelInv /\ [RNext]_rvars =>
        [repair = "underway" /\ ~(failed' \subseteq failed) => faults' = faults + 1]_rvars
  BY ItemsCostFaults DEF RepairInv
<1> QED
  BY <1>1, <1>2, <1>3, RepairInit, RepairStep, PTL DEF RSpec, OnlyFaultsCostItems

-----------------------------------------------------------------------------
(* Every run comes to its end. *)

LEMMA ListedNumbersFinite ==
  ASSUME TypeOK PROVE IsFiniteSet(ListedNumbers)
<1> DEFINE S == {i \in Items : listed[i].present /\ listed[i].number \in Numbers}
           f == [i \in S |-> listed[i].number]
<1>1. IsFiniteSet(S)
  BY FS_Subset, ItemsAssumption
<1>2. f \in Surjection(S, ListedNumbers)
  BY DEF Surjection, ListedNumbers, GroupOf
<1> QED BY <1>1, <1>2, FS_Surjection

LEMMA SmallerSet ==
  ASSUME NEW S, IsFiniteSet(S), NEW x \in S
  PROVE  Cardinality(S \ {x}) < Cardinality(S) /\ Cardinality(S) \in Nat
<1>1. Cardinality(S) \in Nat /\ Cardinality(S \ {x}) = Cardinality(S) - 1
  BY FS_CardinalityType, FS_RemoveElement
<1> QED BY <1>1

\* The stages of a run and of an item, in numbers.
StageTable ==
  /\ pc = "idle" => Stage = 0
  /\ pc = "listing" => Stage = 0
  /\ pc = "groups" => Stage = 1 /\ ItemStage = 0
  /\ pc = "promote" => Stage = 2 /\ ItemStage = 0
  /\ pc = "items" => Stage = 3 /\ ItemStage = 4
  /\ pc = "fetch" => Stage = 3 /\ ItemStage = 3
  /\ pc = "replace" => Stage = 3 /\ ItemStage = 2
  /\ pc = "store" => Stage = 3 /\ ItemStage = 1
  /\ pc = "record" => Stage = 3 /\ ItemStage = 0
  /\ pc = "document" => Stage = 4
  /\ pc = "create" => Stage = 5

LEMMA Stages == StageTable /\ StageTable'
BY DEF StageTable, Stage, ItemStage

\* What makes one distance less than another: the first entry in which they differ.
LEMMA LessBy ==
  LET d == Distance'
      e == Distance
  IN  /\ d[1] < e[1] => Less(d, e)
      /\ d[1] = e[1] /\ d[2] < e[2] => Less(d, e)
      /\ d[1] = e[1] /\ d[2] = e[2] /\ d[3] < e[3] => Less(d, e)
      /\ d[1] = e[1] /\ d[2] = e[2] /\ d[3] = e[3] /\ d[4] < e[4] => Less(d, e)
      /\ d[1] = e[1] /\ d[2] = e[2] /\ d[3] = e[3] /\ d[4] = e[4] /\ d[5] < e[5] => Less(d, e)
BY DEF Less

\* A step after the listing, the entries of the distance being what they are.
LEMMA Nearer ==
  ASSUME pc # "listing", pc' # "listing", UNCHANGED <<listed, seen>>,
         \/ Stage' < Stage
         \/ Stage' = Stage /\ Cardinality(left') < Cardinality(left)
         \/ Stage' = Stage /\ left' = left /\ ItemStage' < ItemStage
  PROVE  Less(Distance', Distance)
<1>1. ListedNumbers' = ListedNumbers
  BY DEF ListedNumbers, GroupOf
<1> QED BY <1>1, LessBy DEF Distance

LEMMA StepNearer ==
  ASSUME GroupInv, ListingInv, SeenInv, RunStep \/ Fault
  PROVE  Less(Distance', Distance)
<1>t. TypeOK /\ unread \subseteq Items /\ left \subseteq Items
  BY DEF SeenInv, TypeOK
<1>f. IsFiniteSet(unread) /\ IsFiniteSet(left) /\ IsFiniteSet(ListedNumbers \ seen)
  BY <1>t, ListedNumbersFinite, FS_Subset, ItemsAssumption
<1>1. ASSUME NEW i \in Items, ListItem(i) PROVE Less(Distance', Distance)
  <2>1. Cardinality(unread') < Cardinality(unread) /\ Cardinality(unread) \in Nat
    BY <1>1, <1>f, SmallerSet DEF ListItem
  <2>2. Cardinality(unread') \in Nat
    BY <1>1, <1>f, FS_RemoveElement, FS_CardinalityType DEF ListItem
  <2> QED BY <1>1, <2>1, <2>2, LessBy DEF ListItem, Distance
<1>2. CASE FinishListing
  <2>1. Cardinality(unread) \in Nat
    BY <1>f, FS_CardinalityType
  <2> QED BY <1>2, <2>1, LessBy DEF FinishListing, Distance
<1>3. ASSUME NEW n \in Numbers, BeginGroup(n) PROVE Less(Distance', Distance)
  <2>1. /\ pc = "groups" /\ pc' = "create" /\ n \in ListedNumbers \ seen
        /\ ListedNumbers' = ListedNumbers /\ seen' = seen \cup {n}
    BY <1>3 DEF BeginGroup, ListedNumbers, GroupOf
  <2>2. ListedNumbers' \ seen' = (ListedNumbers \ seen) \ {n}
    BY <2>1
  <2>3. Cardinality(ListedNumbers' \ seen') < Cardinality(ListedNumbers \ seen)
    BY <1>f, <2>1, <2>2, SmallerSet
  <2> QED BY <2>1, <2>3, LessBy DEF Distance
<1>4. CASE GetOrCreateDocument
  BY <1>4, Stages, Nearer DEF StageTable, GetOrCreateDocument
<1>5. CASE SaveDocument
  BY <1>5, Stages, Nearer DEF StageTable, SaveDocument
<1>6. ASSUME NEW i \in Items, RejectVersion(i) \/ UpsertVersion(i)
      PROVE  Less(Distance', Distance)
  <2>1. /\ pc = "items" /\ i \in left /\ UNCHANGED <<listed, seen>>
        /\ \/ pc' = "items" /\ left' = left \ {i}
           \/ pc' = "fetch" /\ left' = left
    BY <1>6 DEF RejectVersion, UpsertVersion, ItemFails
  <2> QED BY <1>f, <2>1, SmallerSet, Stages, Nearer DEF StageTable
<1>7. CASE FetchFails \/ RecordFile
  <2>1. /\ pc \in {"fetch", "record"} /\ pc' = "items" /\ left' = left \ {item}
        /\ UNCHANGED <<listed, seen>>
    BY <1>7 DEF FetchFails, RecordFile, ItemFails
  <2>2. item \in left
    BY <2>1 DEF GroupInv, HandledAreStored
  <2> QED BY <1>f, <2>1, <2>2, SmallerSet, Stages, Nearer DEF StageTable
<1>8. CASE Fetch \/ DeleteOldFile \/ StoreFile
  BY <1>8, Stages, Nearer DEF StageTable, Fetch, DeleteOldFile, StoreFile
<1>9. CASE NoCandidate \/ DemoteOthers \/ PromoteChosen
  BY <1>9, Stages, Nearer DEF StageTable, NoCandidate, DemoteOthers, PromoteChosen, GroupOver
<1>10. CASE FinishRun \/ ListingFails \/ Crash
  <2>1. /\ pc # "idle" /\ pc' = "idle" /\ listed' = [i \in Items |-> NotListed]
    BY <1>10 DEF FinishRun, ListingFails, Crash, RunOver
  <2>2. ListedNumbers' \ seen' = {}
    BY <2>1 DEF ListedNumbers, GroupOf, NotListed
  <2>3. /\ Cardinality(ListedNumbers' \ seen') = 0 /\ Cardinality(ListedNumbers \ seen) \in Nat
        /\ Cardinality(unread) \in Nat
    BY <1>f, <2>2, FS_EmptySet, FS_CardinalityType
  <2>4. pc # "listing" => Stage' < Stage
    BY <1>t, <2>1, Stages DEF StageTable, TypeOK, Statements
  <2>5. CASE pc = "listing"
    BY <2>1, <2>3, <2>5, LessBy DEF Distance
  <2>6. CASE pc # "listing" /\ Cardinality(ListedNumbers \ seen) = 0
    BY <2>1, <2>3, <2>4, <2>6, LessBy DEF Distance
  <2>7. CASE pc # "listing" /\ Cardinality(ListedNumbers \ seen) # 0
    BY <2>1, <2>3, <2>7, LessBy DEF Distance
  <2> QED BY <2>5, <2>6, <2>7
<1>11. CASE GroupFails
  BY <1>11, Stages, Nearer DEF StageTable, GroupFails, GroupOver
<1>12. CASE StoreFails
  <2>1. item \in left
    BY <1>12 DEF GroupInv, HandledAreStored, StoreFails
  <2> QED BY <1>12, <1>f, <2>1, SmallerSet, Stages, Nearer DEF StageTable, StoreFails, ItemFails
<1> QED
  BY <1>1, <1>2, <1>3, <1>4, <1>5, <1>6, <1>7, <1>8, <1>9, <1>10, <1>11, <1>12 DEF RunStep, Fault

\* The distance counts: its entries are natural numbers, so it cannot fall for ever.
THEOREM DistancesAreNatural == Spec => [](Distance \in Nat \X Nat \X Nat \X Nat \X Nat)
<1>1. ASSUME TypeOK PROVE Distance \in Nat \X Nat \X Nat \X Nat \X Nat
  <2>1. /\ IsFiniteSet(unread) /\ IsFiniteSet(left) /\ IsFiniteSet(ListedNumbers \ seen)
    BY <1>1, ListedNumbersFinite, FS_Subset, ItemsAssumption DEF TypeOK
  <2>2. /\ Cardinality(unread) \in Nat /\ Cardinality(left) \in Nat
        /\ Cardinality(ListedNumbers \ seen) \in Nat
    BY <2>1, FS_CardinalityType
  <2>3. Stage \in Nat
    BY <1>1, Stages DEF StageTable, TypeOK, Statements
  <2>4. ItemStage \in Nat
    BY Stages DEF StageTable, ItemStage
  <2> QED BY <2>2, <2>3, <2>4 DEF Distance
<1>2. TypeOK => Distance \in Nat \X Nat \X Nat \X Nat \X Nat
  BY <1>1
<1> QED BY <1>2, TypeInit, TypeStep, PTL DEF Spec

\* No run goes on for ever, whatever fails and whatever the library does meanwhile: the
\* distance to the end of the run falls with every step of it, and only the next run
\* raises it again.
THEOREM EveryRunEnds == Spec => RunsComeToAnEnd
<1> DEFINE Inv == GroupInv /\ ListingInv /\ SeenInv
<1>1. Init => Inv
  BY GroupInit, TypeInit DEF Init, ListingInv, SeenInv
<1>2. Inv /\ [Next]_vars => Inv'
  BY GroupStep, ListingStep, SeenStep
<1>3. SharePoint => Distance' = Distance
  BY DEF SharePoint, PutItem, WithdrawItem, Distance, Stage, ItemStage, ListedNumbers, GroupOf
<1>4. Inv /\ [Next]_vars => [/\ RunStep \/ Fault => Less(Distance', Distance)
                             /\ SharePoint => Distance' = Distance]_vars
  BY <1>3, StepNearer
<1> QED
  BY <1>1, <1>2, <1>4, PTL DEF Spec, RunsComeToAnEnd

=============================================================================
