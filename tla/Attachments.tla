----------------------------- MODULE Attachments -----------------------------
(***************************************************************************)
(* The attachments of one document (documents/sync.py): the nightly sync   *)
(* gives a downloaded version its rows (reconcile_attachments), the weekly *)
(* sweep brings those of the current version up to date in place           *)
(* (_sweep_one_document).                                                  *)
(*                                                                         *)
(* The two are separate tasks without a lock, the folder is edited at any  *)
(* moment, and either task may be killed or fail between two statements.   *)
(* What is abstracted: an etag is a number that grows with every edit of   *)
(* an attachment, the content of a file is the attachment and the etag it  *)
(* had when it was downloaded, and all attachments are saved under one     *)
(* name ("Zoznam.docx" and "Zoznam.xlsx" both become "Zoznam.pdf", and all *)
(* documents share one directory), so that the storage has to choose.      *)
(***************************************************************************)
EXTENDS Naturals, FiniteSets

CONSTANTS
  Items,      \* attachments, by sp_item_id
  NoItem,     \* no attachment at all
  Versions,   \* versions of the document; a number is the rank of the label as a string
  MaxCopies,  \* bound on the rows one attachment has in one version
  MaxNames,   \* bound on the random names in use at once
  MaxEvents   \* bound on edits, downloads of a version, changes of the flag and faults

ASSUME ItemsAssumption    == NoItem \notin Items
ASSUME VersionsAssumption == Versions \subseteq Nat \ {0}
ASSUME BoundsAssumption   ==
  MaxCopies \in Nat \ {0} /\ MaxNames \in Nat /\ MaxEvents \in Nat

VARIABLES
  folder,      \* SharePoint: attachment -> its etag, 0 while it is not in the folder
  newest,      \* the last etag SharePoint gave to an attachment
  row,         \* table Attachment: <<version, attachment, copy>> -> row
  disk,        \* media/attachments: name -> content
  current,     \* document.current_version
  downloaded,  \* the versions the sync has downloaded
  sweepable,   \* the document is active and linked (ac_dokument_id), and its current
               \* version has a file
  job,         \* the sync and the sweep: what they are at and what they have loaded
  torn,        \* names whose file a job deleted without saving the row that names it
  again,       \* versions reconciled more than once
  overlapped,  \* versions reconciled while the sweep was running
  events       \* events so far

remote == <<folder, newest>>
synced == <<current, downloaded, sweepable>>
ghost  == <<torn, again, overlapped>>
vars   == <<remote, row, disk, synced, job, ghost, events>>

Jobs  == {"sync", "sweep"}
Rows  == Versions \X Items \X (1..MaxCopies)
Names == 0..MaxNames   \* 0 is the name asked for, the others carry a random suffix

Nothing == [item |-> NoItem, etag |-> 0]
Content == [item : Items \cup {NoItem}, etag : Nat]

AttachmentRow == [exists : BOOLEAN, etag : Nat, name : Names]
NoRow         == [exists |-> FALSE, etag |-> 0, name |-> 0]

\* What a job remembers of a row it loaded: the copy, 0 for None, and the name.
Loaded     == [copy : 0..MaxCopies, name : Names]
NoneLoaded == [copy |-> 0, name |-> 0]

Job == [pc : {"idle", "items", "store", "record", "drop"},
        version : Versions \cup {0}, listing : [Items -> Nat], left : SUBSET Items,
        known : [Items -> Loaded], item : Items \cup {NoItem}, content : Content,
        name : Names]

NoJob == [pc |-> "idle", version |-> 0, listing |-> [i \in Items |-> 0], left |-> {},
          known |-> [i \in Items |-> NoneLoaded], item |-> NoItem, content |-> Nothing,
          name |-> 0]

-----------------------------------------------------------------------------
(* Queries. *)

RowsOf(v, i) == {r \in Rows : r[1] = v /\ r[2] = i /\ row[r].exists}

\* document.versions.exclude(pk=version.pk).order_by('-version_label').first(), 0 for None
Previous(v) ==
  LET others == downloaded \ {v}
  IN  IF others = {} THEN 0 ELSE CHOOSE w \in others : \A x \in others : x <= w

\* {a.sp_item_id: a for a in version.attachments.all()}: of two rows of one attachment
\* the dictionary keeps either, for the query has no order.
Dictionaries(v) ==
  {d \in [Items -> 0..MaxCopies] :
     \A i \in Items : IF RowsOf(v, i) = {} THEN d[i] = 0 ELSE <<v, i, d[i]>> \in RowsOf(v, i)}

Entry(v, i, copy) ==
  IF copy = 0 THEN NoneLoaded ELSE [copy |-> copy, name |-> row[<<v, i, copy>>].name]

\* Faulty variant: an attachment that has a row has not changed.
UnchangedIfStored(v, i, copy) == copy # 0 /\ folder[i] # 0

\* Whether the stored etag is that of the folder.
Unchanged(v, i, copy) == copy # 0 /\ row[<<v, i, copy>>].etag = folder[i]

\* Names no row and no job holds on to.
Unused == {n \in Names \ {0} : /\ disk[n] = Nothing
                               /\ \A r \in Rows : row[r].exists => row[r].name # n
                               /\ \A j \in Jobs : job[j].pc = "record" => job[j].name # n}

\* Faulty variant: the storage overwrites.
NewNameOverwrites == 0

\* FieldFile.save: the name asked for if no such file exists, else a new random one.
NewName == IF disk[0] = Nothing THEN 0 ELSE CHOOSE n \in Unused : TRUE

Present == {i \in Items : folder[i] # 0}

\* AttachmentFileView: what a reader of the attachment gets, Nothing for a 404 (no such
\* row) or a missing file. Readers are those who see the document; see Visibility.
Streamed(r) == IF row[r].exists THEN disk[row[r].name] ELSE Nothing

Event == events < MaxEvents /\ events' = events + 1

-----------------------------------------------------------------------------
(* The folder in acLibPrilohy and the document sync. *)

Put(i) ==
  /\ Event
  /\ newest' = [newest EXCEPT ![i] = @ + 1]
  /\ folder' = [folder EXCEPT ![i] = newest[i] + 1]
  /\ UNCHANGED <<row, disk, synced, job, ghost>>

Remove(i) ==
  /\ i \in Present
  /\ Event
  /\ folder' = [folder EXCEPT ![i] = 0]
  /\ UNCHANGED <<newest, row, disk, synced, job, ghost>>

\* _set_current_version moves the flag.
SetCurrent(v) ==
  /\ v \in downloaded \ {current}
  /\ Event
  /\ current' = v
  /\ UNCHANGED <<remote, row, disk, downloaded, sweepable, job, ghost>>

\* The sync or an administrator switches the document off or on, changes its link, or leaves
\* it without a current version, or that without a file, for a while.
SetSweepable ==
  /\ Event
  /\ sweepable' = ~sweepable
  /\ UNCHANGED <<remote, row, disk, current, downloaded, job, ghost>>

-----------------------------------------------------------------------------
(* Both jobs list the folder, load rows, and go from attachment to attachment. *)

\* reconcile_attachments: version v was downloaded and its etag saved. It reuses the
\* files of the other version whose etag has not changed; an empty folder ends it, and
\* so does a missing link, which may be why the document is not sweepable.
Reconcile(v) ==
  /\ job["sync"].pc = "idle"
  /\ Event
  /\ downloaded' = downloaded \cup {v}
  /\ again' = IF v \in downloaded THEN again \cup {v} ELSE again
  /\ overlapped' = IF job["sweep"].pc = "idle" THEN overlapped ELSE overlapped \cup {v}
  /\ \/ (Present = {} \/ ~sweepable) /\ UNCHANGED job
     \/ /\ Present # {}
        /\ \E d \in Dictionaries(Previous(v)) :
              job' = [job EXCEPT !["sync"] =
                [NoJob EXCEPT
                   !.pc = "items", !.version = v, !.listing = folder, !.left = Present,
                   !.known = [i \in Items |->
                      IF Unchanged(Previous(v), i, d[i]) THEN Entry(Previous(v), i, d[i])
                                                         ELSE NoneLoaded]]]
  /\ UNCHANGED <<remote, row, disk, current, sweepable, torn>>

\* sweep_attachments comes to the document, _sweep_one_document begins: left are the
\* attachments that are new or changed; known those that changed or are gone. A sweep that
\* finds nothing to do is not a step.
Sweep ==
  /\ job["sweep"].pc = "idle"
  /\ sweepable
  /\ \E d \in Dictionaries(current) :
       LET stale == {i \in Items : ~Unchanged(current, i, d[i])}
           todo  == {i \in stale : folder[i] # 0 \/ d[i] # 0}
       IN  /\ todo # {}
           /\ job' = [job EXCEPT !["sweep"] =
                [NoJob EXCEPT
                   !.pc = "items", !.version = current, !.listing = folder,
                   !.left = stale \cap Present,
                   !.known = [i \in Items |->
                      IF i \in todo THEN Entry(current, i, d[i]) ELSE NoneLoaded]]]
  /\ overlapped' = IF job["sync"].pc = "idle"
                     THEN overlapped
                     ELSE overlapped \cup {job["sync"].version}
  /\ UNCHANGED <<remote, row, disk, synced, torn, again, events>>

Known(j, i) == job[j].known[i].copy # 0

\* download_attachment: the bytes are those SharePoint has now. The sweep then deletes
\* the old file of an attachment it knows (existing.file_path.delete(save=False)).
Download(j, i) ==
  /\ job[j].pc = "items"
  /\ i \in job[j].left
  /\ j = "sync" => ~Known(j, i)
  /\ i \in Present
  /\ job' = [job EXCEPT ![j].pc = "store", ![j].left = @ \ {i}, ![j].item = i,
                        ![j].content = [item |-> i, etag |-> folder[i]]]
  /\ disk' = IF Known(j, i) THEN [disk EXCEPT ![job[j].known[i].name] = Nothing] ELSE disk
  /\ UNCHANGED <<remote, row, synced, ghost, events>>

\* The sync reads the file of the other version instead.
Copy(i) ==
  /\ job["sync"].pc = "items"
  /\ i \in job["sync"].left
  /\ Known("sync", i)
  /\ disk[job["sync"].known[i].name] # Nothing
  /\ job' = [job EXCEPT !["sync"].pc = "store", !["sync"].left = @ \ {i}, !["sync"].item = i,
                        !["sync"].content = disk[job["sync"].known[i].name]]
  /\ UNCHANGED <<remote, row, disk, synced, ghost, events>>

\* Faulty variant: an attachment taken over shares the file of the other version.
StoreShared(j) ==
  /\ job[j].pc = "store"
  /\ disk[0] = Nothing \/ Unused # {}
  /\ LET i == job[j].item
         shared == j = "sync" /\ Known(j, i)
     IN  /\ disk' = IF shared THEN disk ELSE [disk EXCEPT ![NewName] = job[j].content]
         /\ job' = [job EXCEPT ![j].pc = "record",
                               ![j].name = IF shared THEN job[j].known[i].name ELSE NewName]
  /\ UNCHANGED <<remote, row, synced, ghost, events>>

\* file_path.save writes the file ...
Store(j) ==
  /\ job[j].pc = "store"
  /\ disk[0] = Nothing \/ Unused # {}
  /\ disk' = [disk EXCEPT ![NewName] = job[j].content]
  /\ job' = [job EXCEPT ![j].pc = "record", ![j].name = NewName]
  /\ UNCHANGED <<remote, row, synced, ghost, events>>

FreeCopies(v, i) == {c \in 1..MaxCopies : ~row[<<v, i, c>>].exists}

\* Faulty variant: every save inserts a row.
TargetsNew(j) == FreeCopies(job[j].version, job[j].item)

\* The row that is saved: the sync always inserts, the sweep updates what it knows.
Targets(j) ==
  LET i == job[j].item
  IN  IF j = "sweep" /\ Known(j, i)
        THEN {job[j].known[i].copy}
        ELSE {c \in FreeCopies(job[j].version, i) :
                \A b \in FreeCopies(job[j].version, i) : c <= b}

\* Faulty variant: a job never ends.
NextItemOnly(j) ==
  job' = [job EXCEPT ![j].pc = "idle", ![j].item = NoItem, ![j].content = Nothing,
                     ![j].name = 0, ![j].known[job[j].item] = NoneLoaded]

\* The attachment in hand is done; the job ends with the last one.
NextItem(j) ==
  LET rest == [job[j] EXCEPT !.pc = "items", !.item = NoItem, !.content = Nothing,
                             !.name = 0, !.known[job[j].item] = NoneLoaded]
      over == rest.left = {} /\ (j = "sweep" => rest.known = NoJob.known)
  IN  job' = [job EXCEPT ![j] = IF over THEN NoJob ELSE rest]

\* ... and then the row, with the etag of the listing.
Record(j) ==
  /\ job[j].pc = "record"
  /\ \E c \in Targets(j) :
       row' = [row EXCEPT ![<<job[j].version, job[j].item, c>>] =
         [exists |-> TRUE, etag |-> job[j].listing[job[j].item], name |-> job[j].name]]
  /\ NextItem(j)
  /\ UNCHANGED <<remote, disk, synced, ghost, events>>

\* removed_ids: what the sweep found stored and not listed goes, the file first.
DropFile(i) ==
  /\ job["sweep"].pc = "items"
  /\ job["sweep"].left = {}
  /\ Known("sweep", i)
  /\ disk' = [disk EXCEPT ![job["sweep"].known[i].name] = Nothing]
  /\ job' = [job EXCEPT !["sweep"].pc = "drop", !["sweep"].item = i]
  /\ UNCHANGED <<remote, row, synced, ghost, events>>

\* Faulty variant: only the file goes.
DropRowKept ==
  /\ job["sweep"].pc = "drop"
  /\ UNCHANGED row
  /\ NextItem("sweep")
  /\ UNCHANGED <<remote, disk, synced, ghost, events>>

DropRow ==
  /\ job["sweep"].pc = "drop"
  /\ LET i == job["sweep"].item
     IN  row' = [row EXCEPT ![<<job["sweep"].version, i, job["sweep"].known[i].copy>>] = NoRow]
  /\ NextItem("sweep")
  /\ UNCHANGED <<remote, disk, synced, ghost, events>>

\* The name a row still carries although the sweep has deleted its file.
InHand ==
  LET s == job["sweep"]
  IN  IF s.pc \in {"store", "record", "drop"} /\ Known("sweep", s.item)
        THEN {s.known[s.item].name}
        ELSE {}

Abandon(j) ==
  /\ job' = [job EXCEPT ![j] = NoJob]
  /\ torn' = IF j = "sweep" THEN torn \cup InHand ELSE torn
  /\ UNCHANGED <<remote, row, disk, synced, again, overlapped>>

\* The attachment to download has left the folder, or the file to copy is gone: the
\* exception ends the work on this document.
GivesUp(j, i) ==
  /\ job[j].pc = "items"
  /\ i \in job[j].left
  /\ IF j = "sync" /\ Known(j, i) THEN disk[job[j].known[i].name] = Nothing ELSE folder[i] = 0
  /\ Abandon(j)
  /\ UNCHANGED events

\* A request or the storage fails, or the worker is killed.
Interrupted(j) ==
  /\ job[j].pc # "idle"
  /\ Event
  /\ Abandon(j)

-----------------------------------------------------------------------------

\* The first attachment got the name asked for, the others random ones.
FirstNames ==
  {f \in [Items -> Names] : /\ \A i, k \in Items : f[i] = f[k] => i = k
                            /\ \A i \in Items : f[i] < Cardinality(Items)}

\* One version has been downloaded with its attachments.
Init ==
  /\ folder = [i \in Items |-> 1]
  /\ newest = folder
  /\ current \in Versions
  /\ downloaded = {current}
  /\ sweepable = TRUE
  /\ \E name \in FirstNames :
       /\ row = [r \in Rows |-> IF r[1] = current /\ r[3] = 1
                                 THEN [exists |-> TRUE, etag |-> 1, name |-> name[r[2]]]
                                 ELSE NoRow]
       /\ disk = [n \in Names |-> IF \E i \in Items : name[i] = n
                                   THEN [item |-> CHOOSE i \in Items : name[i] = n, etag |-> 1]
                                   ELSE Nothing]
  /\ job = [j \in Jobs |-> NoJob]
  /\ torn = {}
  /\ again = {}
  /\ overlapped = {}
  /\ events = 0

Work(j) ==
  \/ \E i \in Items : Download(j, i) \/ GivesUp(j, i)
  \/ Store(j)
  \/ Record(j)
  \/ j = "sync" /\ \E i \in Items : Copy(i)
  \/ j = "sweep" /\ (DropRow \/ \E i \in Items : DropFile(i))

Next ==
  \/ \E i \in Items : Put(i) \/ Remove(i)
  \/ \E v \in Versions : SetCurrent(v) \/ Reconcile(v)
  \/ SetSweepable
  \/ Sweep
  \/ \E j \in Jobs : Work(j) \/ Interrupted(j)

Spec == Init /\ [][Next]_vars

\* Celery beat starts the sweep every week, and a job that runs goes on.
Fairness == WF_vars(Sweep) /\ \A j \in Jobs : WF_vars(Work(j))

FairSpec == Spec /\ Fairness

-----------------------------------------------------------------------------
(* Properties. *)

TypeOK ==
  /\ folder \in [Items -> Nat]
  /\ newest \in [Items -> Nat]
  /\ row \in [Rows -> AttachmentRow]
  /\ disk \in [Names -> Content]
  /\ current \in downloaded
  /\ downloaded \in SUBSET Versions
  /\ sweepable \in BOOLEAN
  /\ job \in [Jobs -> Job]
  /\ torn \in SUBSET Names
  /\ again \in SUBSET downloaded
  /\ overlapped \in SUBSET downloaded
  /\ events \in 0..MaxEvents
  /\ \A r \in Rows : row[r].exists => r[1] \in downloaded
  /\ \A j \in Jobs : /\ job[j].pc = "idle" => job[j] = NoJob
                     /\ job[j].item # NoItem <=> job[j].pc \notin {"idle", "items"}

\* Outside a replacement under way, every row has a file of its own: two rows name one
\* file, or a row names none, only if a replacement or a removal was interrupted between
\* the deletion of the file and the save of the row. Such a name is free for others
\* while the row still claims it.
FilesAreTheirOwn ==
  \A r \in Rows :
    row[r].exists /\ row[r].name \notin torn \cup InHand =>
      /\ Streamed(r) # Nothing
      /\ \A q \in Rows \ {r} : row[q].exists => row[q].name # row[r].name

\* As long as no replacement was interrupted and the two jobs did not overlap, a row
\* serves its own attachment, at least as new as its etag: copying from another version,
\* whichever the order of labels picks, is as good as a download.
FilesMatchEtags ==
  torn = {} /\ overlapped = {} =>
    \A r \in Rows : row[r].exists /\ row[r].name \notin InHand =>
      /\ Streamed(r).item = r[2]
      /\ Streamed(r).etag >= row[r].etag

\* A version has two rows of one attachment only if it was reconciled twice (its
\* document was edited without a new letter) or reconciled during a sweep.
DuplicatesExplained ==
  \A v \in Versions \ (again \cup overlapped), i \in Items :
    \A q, r \in RowsOf(v, i) : q = r

\* docs/PLAN.md: vanished attachments are deleted "len na aktualnej verzii (historicke
\* verzie si snapshot drzia)". Rows of a version the sweep is not working on stay as
\* they are, and so do their files, unless an interrupted replacement gave them away.
SnapshotsStay ==
  [][\A r \in Rows :
       row[r].exists /\ r[1] # job["sweep"].version =>
         /\ row'[r] = row[r]
         /\ row[r].name \notin torn => disk'[row[r].name] = disk[row[r].name]]_vars

\* If the document is active and linked for good, and its current version has a file, the
\* sweeps bring the rows of that version in line with the folder, whatever was
\* interrupted: every attachment has a row with its etag, and vanished ones have none.
\* Other documents the sweep does not come to.
SweepsConverge ==
  <>[]sweepable =>
    <>[](\A i \in Items :
           IF folder[i] # 0
             THEN \E r \in RowsOf(current, i) : row[r].etag = folder[i]
             ELSE RowsOf(current, i) = {})

=============================================================================
