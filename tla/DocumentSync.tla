---------------------------- MODULE DocumentSync ----------------------------
(***************************************************************************)
(* The nightly mirror of the SharePoint library "Platne" into the local    *)
(* database and media directory (documents/sync.py).                       *)
(*                                                                         *)
(* One run of sync_documents reads the listing page by page, groups the    *)
(* items by document number, brings every group up to date item by item,   *)
(* and at last deactivates the documents the listing no longer holds.      *)
(* SharePoint changes at any moment, downloads and saves fail, and the     *)
(* worker can be killed between any two statements: nothing of a run is    *)
(* transactional, since the project runs Django in autocommit mode.        *)
(*                                                                         *)
(* What is abstracted: a version label is its rank under _version_key, an  *)
(* etag is a number that grows with every edit of the item, the content of *)
(* a file is the etag the item had when it was downloaded, and the stored  *)
(* metadata other than number, label and state is left out.                *)
(***************************************************************************)
EXTENDS Naturals, FiniteSets

CONSTANTS
  Items,       \* SharePoint list items: one item is one version of a document
  NoItem,      \* no item at all (Python's None)
  Numbers,     \* document numbers
  NoNumber,    \* the number of an item that has none yet
  Labels,      \* ranks of version labels under _version_key
  Catalogue,   \* the <<number, label, valid>> metadata each item may carry
  MaxEtag,     \* bound on the edits of one item
  MaxFaults    \* bound on failures, crashes and limited runs

ASSUME ItemsAssumption     == IsFiniteSet(Items) /\ NoItem \notin Items
ASSUME NumbersAssumption   == NoNumber \notin Numbers
ASSUME LabelsAssumption    == Labels \subseteq Nat
ASSUME CatalogueAssumption ==
  Catalogue \in [Items -> SUBSET ((Numbers \cup {NoNumber}) \X Labels \X BOOLEAN)]
ASSUME BoundsAssumption    == MaxEtag \in Nat /\ MaxFaults \in Nat

VARIABLES
  remote,   \* SharePoint: item -> what the library holds of it
  doc,      \* table Document, keyed by document_number
  ver,      \* table DocumentVersion, keyed by sharepoint_id
  disk,     \* media directory: item -> content of the file its row names, 0 if gone
  pc,       \* the statement the run is at
  limited,  \* the run was started with a limit
  unread,   \* items on pages not yet fetched
  listed,   \* the items read so far, as they were when their page was read
  seen,     \* seen_numbers
  group,    \* number of the group in progress
  left,     \* its items not yet handled
  item,     \* the item whose file is being replaced
  content,  \* pdf_bytes
  chosen,   \* the row _set_current_version picked
  failed,   \* items whose _sync_one_version raised in this run
  settled,  \* numbers whose _set_current_version completed in this run
  torn,     \* numbers whose group a crash or an exception cut short, not repaired since
  faults    \* failures, crashes and limited runs so far

db      == <<doc, ver, disk>>
listing == <<limited, unread, listed>>
work    == <<group, left, item, content, chosen>>
ghost   == <<failed, settled, torn>>
vars    == <<remote, db, pc, listing, seen, work, ghost, faults>>

-----------------------------------------------------------------------------
(* Data. *)

NumbersOrNone == Numbers \cup {NoNumber}

Statements == {"idle", "listing", "groups", "create", "document", "items", "fetch",
               "replace", "store", "record", "promote"}

RemoteItem == [present : BOOLEAN, number : NumbersOrNone, label : Nat,
               valid : BOOLEAN, etag : Nat]

DocumentRow == [exists : BOOLEAN, active : BOOLEAN]

VersionRow == [exists : BOOLEAN, number : NumbersOrNone, label : Nat,
               current : BOOLEAN, etag : Nat, file : BOOLEAN]

NotListed  == [present |-> FALSE, number |-> NoNumber, label |-> 0,
               valid |-> FALSE, etag |-> 0]
NoDocument == [exists |-> FALSE, active |-> FALSE]
NoVersion  == [exists |-> FALSE, number |-> NoNumber, label |-> 0,
               current |-> FALSE, etag |-> 0, file |-> FALSE]

\* The items of a listing that carry number n; items without a number form no group.
GroupOf(n) == {i \in Items : listed[i].present /\ listed[i].number = n}

ListedNumbers == {n \in Numbers : GroupOf(n) # {}}

\* The rows of document n.
Versions(n) == {i \in Items : ver[i].exists /\ ver[i].number = n}

\* max(group, key=_version_key)
Newest(S) == {i \in S : \A j \in S : listed[j].label <= listed[i].label}

\* Faulty variant: the best version may be one that left the library.
CandidatesEvenWithdrawn(n) ==
  LET withFile == {i \in Versions(n) : ver[i].file}
  IN  IF withFile # {} THEN withFile ELSE Versions(n)

\* Faulty variant: no preference for rows that have a file.
CandidatesEvenWithoutFile(n) == Versions(n) \cap GroupOf(n)

\* The stored rows of n that the listing holds, those with a file if there are any.
Candidates(n) ==
  LET rows == Versions(n) \cap GroupOf(n)
      withFile == {i \in rows : ver[i].file}
  IN  IF withFile # {} THEN withFile ELSE rows

\* The rows _set_current_version can pick.
Best(n) == {i \in Candidates(n) : \A j \in Candidates(n) : ver[j].label <= ver[i].label}

\* Faulty variant: the label alone is unique.
LabelTakenAnywhere(i) ==
  \E j \in Items \ {i} : ver[j].exists /\ ver[j].label = listed[i].label

\* unique_together (document, version_label): another row already has this label.
LabelTaken(i) == \E j \in Versions(group) \ {i} : ver[j].label = listed[i].label

\* Faulty variant: only a new row is downloaded.
EtagChangedIfNew(i) == ~ver[i].exists

EtagChanged(i) == ~ver[i].exists \/ ver[i].etag # listed[i].etag

\* Faulty variant: the etag is stored before the download.
UpsertedRowEtagFirst(i) ==
  [exists  |-> TRUE,
   number  |-> group,
   label   |-> listed[i].label,
   current |-> IF ver[i].exists THEN ver[i].current ELSE TRUE,
   etag    |-> listed[i].etag,
   file    |-> ver[i].file]

\* A new row starts as current; an existing one keeps its flag.
UpsertedRow(i) ==
  [exists  |-> TRUE,
   number  |-> group,
   label   |-> listed[i].label,
   current |-> IF ver[i].exists THEN ver[i].current ELSE TRUE,
   etag    |-> ver[i].etag,
   file    |-> ver[i].file]

\* Faulty variant: the etag is asked for again after the download.
RecordedRowLateEtag(i) == [ver[i] EXCEPT !.file = TRUE, !.etag = remote[i].etag]

\* The etag a finished download stores: that of the listing, not of the download.
RecordedRow(i) == [ver[i] EXCEPT !.file = TRUE, !.etag = listed[i].etag]

\* Document.is_active as a group's save sets it.
SavedDocument(i) == [exists |-> TRUE, active |-> listed[i].valid]

\* Faulty variant: a number counts as seen only once its group succeeded.
UnseenIfFailed == {n \in Numbers : doc[n].active /\ n \notin settled}

\* What the final bulk UPDATE turns off.
Unseen == {n \in Numbers : doc[n].active /\ n \notin seen}

-----------------------------------------------------------------------------
(* SharePoint, edited by people outside this program. *)

PutItem(i) ==
  /\ remote[i].etag < MaxEtag
  /\ \E fields \in Catalogue[i] :
       remote' = [remote EXCEPT ![i] =
         [present |-> TRUE, number |-> fields[1], label |-> fields[2],
          valid |-> fields[3], etag |-> @.etag + 1]]
  /\ UNCHANGED <<db, pc, listing, seen, work, ghost, faults>>

\* An item leaves the library: it was replaced by a revision or archived.
WithdrawItem(i) ==
  /\ remote[i].present
  /\ remote' = [remote EXCEPT ![i].present = FALSE]
  /\ UNCHANGED <<db, pc, listing, seen, work, ghost, faults>>

-----------------------------------------------------------------------------
(* sync_documents: reading the listing. *)

\* Limited runs are started by hand; they count among the faults, because a limit
\* that cuts a group in two can put an older version back until the next full run.
StartRun(limit) ==
  /\ pc = "idle"
  /\ pc' = "listing"
  /\ limited' = limit
  /\ unread' = Items
  /\ IF limit THEN faults < MaxFaults /\ faults' = faults + 1 ELSE UNCHANGED faults
  /\ UNCHANGED <<remote, db, listed, seen, work, ghost>>

\* The page that holds item i is fetched; an absent item is on no page.
ListItem(i) ==
  /\ pc = "listing"
  /\ i \in unread
  /\ unread' = unread \ {i}
  /\ listed' = [listed EXCEPT ![i] = IF remote[i].present THEN remote[i] ELSE NotListed]
  /\ UNCHANGED <<remote, db, pc, limited, seen, work, ghost, faults>>

FinishListing ==
  /\ pc = "listing"
  /\ unread = {} \/ limited
  /\ pc' = "groups"
  /\ unread' = {}
  /\ UNCHANGED <<remote, db, limited, listed, seen, work, ghost, faults>>

\* Local state of the run after it ended, with or without success.
RunOver ==
  /\ pc' = "idle"
  /\ limited' = FALSE
  /\ unread' = {}
  /\ listed' = [i \in Items |-> NotListed]
  /\ seen' = {}
  /\ failed' = {}
  /\ settled' = {}

\* Faulty variant: the chosen row of the previous group is kept.
GroupOverKeepsChosen ==
  /\ pc' = "groups"
  /\ group' = NoNumber
  /\ left' = {}
  /\ item' = NoItem
  /\ content' = 0
  /\ chosen' = chosen

GroupOver ==
  /\ pc' = "groups"
  /\ group' = NoNumber
  /\ left' = {}
  /\ item' = NoItem
  /\ content' = 0
  /\ chosen' = NoItem

\* An exception from the Graph client ends the run before it wrote anything.
ListingFails ==
  /\ pc = "listing"
  /\ faults < MaxFaults
  /\ faults' = faults + 1
  /\ RunOver
  /\ UNCHANGED <<remote, db, work, torn>>

-----------------------------------------------------------------------------
(* _sync_document_group *)

BeginGroup(n) ==
  /\ pc = "groups"
  /\ n \in ListedNumbers \ seen
  /\ pc' = "create"
  /\ seen' = seen \cup {n}
  /\ group' = n
  /\ UNCHANGED <<remote, db, listing, left, item, content, chosen, ghost, faults>>

\* Document.objects.get_or_create: a new document starts as active.
GetOrCreateDocument ==
  /\ pc = "create"
  /\ pc' = "document"
  /\ doc' = IF doc[group].exists
              THEN doc
              ELSE [doc EXCEPT ![group] = [exists |-> TRUE, active |-> TRUE]]
  /\ UNCHANGED <<remote, ver, disk, listing, seen, work, ghost, faults>>

\* document.save() with the metadata of the newest item of the group.
SaveDocument ==
  /\ pc = "document"
  /\ pc' = "items"
  /\ \E i \in Newest(GroupOf(group)) : doc' = [doc EXCEPT ![group] = SavedDocument(i)]
  /\ left' = GroupOf(group)
  /\ UNCHANGED <<remote, ver, disk, listing, seen, group, item, content, chosen, ghost, faults>>

\* A statement outside the loop over the items raises ("database is locked"): creating
\* or saving the document, or the query and the UPDATEs of _set_current_version, before
\* the first of them or between the two. sync_documents catches it, and the run goes on
\* with the next group. Once items were handled, the flags are left half changed.
GroupFails ==
  /\ \/ pc \in {"create", "document", "promote"}
     \/ pc = "items" /\ left = {}
  /\ faults < MaxFaults
  /\ faults' = faults + 1
  /\ torn' = IF pc \in {"create", "document"} THEN torn ELSE torn \cup {group}
  /\ GroupOver
  /\ UNCHANGED <<remote, db, listing, seen, failed, settled>>

-----------------------------------------------------------------------------
(* _sync_one_version *)

\* Faulty variant: an item that failed is tried again at once.
ItemFailsToBeRetried(i) ==
  /\ pc' = "items"
  /\ left' = left
  /\ item' = NoItem
  /\ content' = 0
  /\ failed' = failed \cup {i}

ItemFails(i) ==
  /\ pc' = "items"
  /\ left' = left \ {i}
  /\ item' = NoItem
  /\ content' = 0
  /\ failed' = failed \cup {i}

\* get_or_create or save violates the unique constraint, or the database fails: nothing
\* of the item is stored. (A failure between the two is FetchFails.)
RejectVersion(i) ==
  /\ pc = "items"
  /\ i \in left
  /\ \/ LabelTaken(i) /\ UNCHANGED faults
     \/ ~LabelTaken(i) /\ faults < MaxFaults /\ faults' = faults + 1
  /\ ItemFails(i)
  /\ UNCHANGED <<remote, db, listing, seen, group, chosen, settled, torn>>

\* The row is created or updated, and its file is fetched if the etag changed.
UpsertVersion(i) ==
  /\ pc = "items"
  /\ i \in left
  /\ ~LabelTaken(i)
  /\ ver' = [ver EXCEPT ![i] = UpsertedRow(i)]
  /\ IF EtagChanged(i) \/ ~ver[i].file
       THEN /\ pc' = "fetch"
            /\ item' = i
            /\ UNCHANGED left
       ELSE /\ left' = left \ {i}
            /\ UNCHANGED <<pc, item>>
  /\ UNCHANGED <<remote, doc, disk, listing, seen, group, content, chosen, ghost, faults>>

\* driveItem lookup and download: the bytes are those SharePoint has now.
Fetch ==
  /\ pc = "fetch"
  /\ remote[item].present
  /\ pc' = "replace"
  /\ content' = remote[item].etag
  /\ UNCHANGED <<remote, db, listing, seen, group, left, item, chosen, ghost, faults>>

\* The item was withdrawn since it was listed, or the request or the conversion fails.
FetchFails ==
  /\ pc = "fetch"
  /\ \/ ~remote[item].present /\ UNCHANGED faults
     \/ remote[item].present /\ faults < MaxFaults /\ faults' = faults + 1
  /\ ItemFails(item)
  /\ UNCHANGED <<remote, db, listing, seen, group, chosen, settled, torn>>

\* version.file_path.delete(save=False): the file goes, the row still names it.
DeleteOldFile ==
  /\ pc = "replace"
  /\ pc' = "store"
  /\ disk' = [disk EXCEPT ![item] = 0]
  /\ UNCHANGED <<remote, doc, ver, listing, seen, work, ghost, faults>>

\* version.file_path.save(..., save=False). The storage may give the new file the
\* name the row already holds, or another one (the label moved, or an orphan of an
\* earlier run has the name and Django adds a random suffix).
StoreFile ==
  /\ pc = "store"
  /\ pc' = "record"
  /\ \/ ver[item].file /\ disk' = [disk EXCEPT ![item] = content]
     \/ UNCHANGED disk
  /\ UNCHANGED <<remote, doc, ver, listing, seen, work, ghost, faults>>

\* Deleting the old file, writing the new one (the disk is full) or saving the row raises.
StoreFails ==
  /\ pc \in {"replace", "store", "record"}
  /\ faults < MaxFaults
  /\ faults' = faults + 1
  /\ ItemFails(item)
  /\ UNCHANGED <<remote, db, listing, seen, group, chosen, settled, torn>>

\* version.etag = item['etag']; version.save(): the row names the stored file.
\* reconcile_attachments follows; it changes no state of this module.
RecordFile ==
  /\ pc = "record"
  /\ pc' = "items"
  /\ ver' = [ver EXCEPT ![item] = RecordedRow(item)]
  /\ disk' = [disk EXCEPT ![item] = content]
  /\ left' = left \ {item}
  /\ item' = NoItem
  /\ content' = 0
  /\ UNCHANGED <<remote, doc, listing, seen, group, chosen, ghost, faults>>

-----------------------------------------------------------------------------
(* _set_current_version: two bulk UPDATEs, one after the other. *)

\* Faulty variant: rows that left the library keep their flag.
DemotedIfListed(c) ==
  [i \in Items |-> IF i \in (Versions(group) \cap GroupOf(group)) \ {c}
                     THEN [ver[i] EXCEPT !.current = FALSE]
                     ELSE ver[i]]

Demoted(c) ==
  [i \in Items |-> IF i \in Versions(group) \ {c}
                     THEN [ver[i] EXCEPT !.current = FALSE]
                     ELSE ver[i]]

\* No stored row of the listing belongs to the document: the flags stay as they are.
NoCandidate ==
  /\ pc = "items"
  /\ left = {}
  /\ Candidates(group) = {}
  /\ GroupOver
  /\ UNCHANGED <<remote, db, listing, seen, ghost, faults>>

DemoteOthers ==
  /\ pc = "items"
  /\ left = {}
  /\ \E c \in Best(group) :
       /\ chosen' = c
       /\ ver' = Demoted(c)
  /\ pc' = "promote"
  /\ UNCHANGED <<remote, doc, disk, listing, seen, group, left, item, content, ghost, faults>>

PromoteChosen ==
  /\ pc = "promote"
  /\ ver' = [ver EXCEPT ![chosen].current = TRUE]
  /\ settled' = settled \cup {group}
  /\ torn' = torn \ {group}
  /\ GroupOver
  /\ UNCHANGED <<remote, doc, disk, listing, seen, failed, faults>>

-----------------------------------------------------------------------------
(* The end of a run, and its sudden death. *)

\* A run without a limit turns off every document the listing did not mention.
FinishRun ==
  /\ pc = "groups"
  /\ ListedNumbers \subseteq seen
  /\ doc' = IF limited
              THEN doc
              ELSE [n \in Numbers |-> IF n \in Unseen
                                        THEN [doc[n] EXCEPT !.active = FALSE]
                                        ELSE doc[n]]
  /\ RunOver
  /\ UNCHANGED <<remote, ver, disk, work, torn, faults>>

\* The worker is killed: only the database and the media directory survive.
Crash ==
  /\ pc # "idle"
  /\ faults < MaxFaults
  /\ faults' = faults + 1
  /\ torn' = IF group = NoNumber THEN torn ELSE torn \cup {group}
  /\ RunOver
  /\ group' = NoNumber
  /\ left' = {}
  /\ item' = NoItem
  /\ content' = 0
  /\ chosen' = NoItem
  /\ UNCHANGED <<remote, db>>

-----------------------------------------------------------------------------

Init ==
  /\ remote = [i \in Items |-> NotListed]
  /\ doc = [n \in Numbers |-> NoDocument]
  /\ ver = [i \in Items |-> NoVersion]
  /\ disk = [i \in Items |-> 0]
  /\ pc = "idle"
  /\ limited = FALSE
  /\ unread = {}
  /\ listed = [i \in Items |-> NotListed]
  /\ seen = {}
  /\ group = NoNumber
  /\ left = {}
  /\ item = NoItem
  /\ content = 0
  /\ chosen = NoItem
  /\ failed = {}
  /\ settled = {}
  /\ torn = {}
  /\ faults = 0

SharePoint == \E i \in Items : PutItem(i) \/ WithdrawItem(i)

\* What the worker does by itself once a run has started.
RunStep ==
  \/ \E i \in Items : ListItem(i)
  \/ FinishListing
  \/ \E n \in Numbers : BeginGroup(n)
  \/ GetOrCreateDocument
  \/ SaveDocument
  \/ \E i \in Items : RejectVersion(i) \/ UpsertVersion(i)
  \/ Fetch
  \/ FetchFails
  \/ DeleteOldFile
  \/ StoreFile
  \/ RecordFile
  \/ NoCandidate
  \/ DemoteOthers
  \/ PromoteChosen
  \/ FinishRun

Fault == ListingFails \/ GroupFails \/ StoreFails \/ Crash

Next ==
  \/ SharePoint
  \/ \E limit \in BOOLEAN : StartRun(limit)
  \/ RunStep
  \/ Fault

Spec == Init /\ [][Next]_vars

\* Celery beat starts an unlimited run every night, whatever happened before, and
\* a worker that runs goes on to its next statement.
Fairness == WF_vars(RunStep) /\ WF_vars(StartRun(FALSE))

FairSpec == Spec /\ Fairness

-----------------------------------------------------------------------------
(* Properties. *)

\* Every variable keeps its type; the program counter tells which locals are set.
TypeOK ==
  /\ remote \in [Items -> RemoteItem]
  /\ doc \in [Numbers -> DocumentRow]
  /\ ver \in [Items -> VersionRow]
  /\ disk \in [Items -> Nat]
  /\ pc \in Statements
  /\ limited \in BOOLEAN
  /\ unread \in SUBSET Items
  /\ listed \in [Items -> RemoteItem]
  /\ seen \in SUBSET Numbers
  /\ group \in NumbersOrNone
  /\ left \in SUBSET Items
  /\ item \in Items \cup {NoItem}
  /\ content \in Nat
  /\ chosen \in Items \cup {NoItem}
  /\ failed \in SUBSET Items
  /\ settled \in SUBSET Numbers
  /\ torn \in SUBSET Numbers
  /\ faults \in 0..MaxFaults
  /\ group # NoNumber <=> pc \notin {"idle", "listing", "groups"}
  /\ item # NoItem <=> pc \in {"fetch", "replace", "store", "record"}
  /\ chosen # NoItem <=> pc = "promote"

\* A row that names a file which is no longer on disk has an outdated etag, so
\* the next run that lists the item downloads it again. This is what storing the
\* etag only after the download ("etag az po uspesnom stiahnuti") is for: between
\* the deletion of the old file and the last save any crash or error may strike.
LostFileIsRefetched ==
  \A i \in Items : ver[i].file /\ disk[i] = 0 => ver[i].etag < remote[i].etag

\* The file a row names is never older than the etag stored with it: an unchanged
\* etag really means that the downloaded content is up to date. The content may
\* be newer, since the item can be edited between the listing and the download.
FileNotOlderThanEtag ==
  \A i \in Items : ver[i].file /\ disk[i] # 0 => ver[i].etag <= disk[i]

\* A document has at most one current version, except the one being processed
\* (a new row starts as current) and those a crash or an exception outside the loop
\* over the items left half-way, which stay so until a later run completes their
\* group. A failure of an item, or before the first of them, is no such reason.
AtMostOneCurrent ==
  \A i, j \in Items :
    /\ ver[i].current /\ ver[j].current
    /\ ver[i].number = ver[j].number
    /\ ver[i].number \notin torn \cup {group}
    => i = j

\* A group none of whose items failed ends with its newest listed item, and
\* nothing else, as the current version of the document.
CleanGroupShowsNewest ==
  \A n \in settled :
    GroupOf(n) \cap failed = {} =>
      {i \in Versions(n) : ver[i].current} = Newest(GroupOf(n))

\* A failed download does not take a readable document away: the current version
\* of a completed group has a file whenever one of its listed versions has.
ReadablePreferred ==
  \A n \in settled : \A c \in Versions(n) :
    ver[c].current /\ ~ver[c].file =>
      \A i \in Versions(n) \cap GroupOf(n) : ~ver[i].file

\* A document is switched off for two reasons only: the newest item of its group
\* says so, or a complete listing does not mention it. An error in its group or a
\* limited run is never a reason.
DeactivationJustified ==
  [][\A n \in Numbers : doc[n].active /\ ~doc'[n].active =>
       \/ \E i \in Newest(GroupOf(n)) : ~listed[i].valid
       \/ unread = {} /\ ~limited /\ GroupOf(n) = {}]_vars

\* The mirror a row and its file amount to: what the stored etag says and what the
\* named file holds, if the row names one.
Copies == INSTANCE Mirror WITH
  Files <- Items,
  source <- [i \in Items |-> remote[i].etag],
  claim <- [i \in Items |-> IF ver[i].file THEN ver[i].etag ELSE 0],
  copy <- [i \in Items |-> IF ver[i].file THEN disk[i] ELSE 0]

\* Files are mirrored as Mirror promises: every step of the sync, of its failures and
\* of SharePoint's users is one of the mirror or leaves it as it was.
KeepsPromise == Copies!Spec

Published(n) == {i \in Items : remote[i].present /\ remote[i].number = n}

\* The local copy of item i is complete and up to date.
Mirrored(i) ==
  /\ ver[i].exists
  /\ ver[i].number = remote[i].number
  /\ ver[i].label = remote[i].label
  /\ ver[i].file
  /\ ver[i].etag = remote[i].etag
  /\ disk[i] = remote[i].etag

\* README: the current version is the highest letter present in Platne.
HighestIsCurrent(n) ==
  \A i \in Published(n) :
    (\A j \in Published(n) \ {i} : remote[j].label < remote[i].label)
      => {j \in Versions(n) : ver[j].current} = {i}

ActiveAsPublished(n) ==
  doc[n].active <=>
    \E i \in Published(n) :
      /\ remote[i].valid
      /\ \A j \in Published(n) : remote[j].label <= remote[i].label

\* The database and the media directory are as SharePoint has it.
InLine ==
  /\ \A i \in Items : remote[i].present /\ remote[i].number # NoNumber => Mirrored(i)
  /\ \A n \in Numbers : HighestIsCurrent(n) /\ ActiveAsPublished(n)

\* Once SharePoint is left alone and the faults cease, the nightly runs bring the
\* database and the media directory in line with it, and keep them so: no crash,
\* failed download or limited run leaves damage that lasts.
Converges == <>[]InLine

\* README.md: "aktualna verzia = najvyssie pismeno pritomne v Platnych". Once
\* SharePoint is left alone, the highest letter present becomes the current version.
HighestEventuallyCurrent == <>[](\A n \in Numbers : HighestIsCurrent(n))

=============================================================================
