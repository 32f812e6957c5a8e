--------------------------- MODULE OverlappingRuns ---------------------------
(***************************************************************************)
(* Two runs of sync_documents at once: the nightly task and the management *)
(* command, which no lock keeps apart (documents/sync.py). The module      *)
(* follows both through the group of one document; the rest of a run is    *)
(* the subject of DocumentSync.                                            *)
(*                                                                         *)
(* What one run by itself need not distinguish matters here: a run works   *)
(* on a copy of the row, deletes the file the copy names, and saves the    *)
(* whole copy, the flag included, however long the download took.          *)
(*                                                                         *)
(* Items are numbered by the rank of their version labels, an etag is a    *)
(* number that grows with every edit, and the content of a file is the     *)
(* etag its item had when it was downloaded.                               *)
(***************************************************************************)
EXTENDS Naturals, FiniteSets

CONSTANTS
  Items,      \* the SharePoint items of the document, by the rank of their labels
  MaxNames,   \* bound on the file names of one item in use at once
  MaxEvents   \* bound on edits, failures, crashes and runs started by hand

ASSUME ItemsAssumption  == Items \subseteq Nat \ {0} /\ IsFiniteSet(Items)
ASSUME BoundsAssumption == MaxNames \in Nat \ {0} /\ MaxEvents \in Nat

VARIABLES
  remote,   \* SharePoint: item -> whether the library holds it, and its last etag
  ver,      \* table DocumentVersion, keyed by sharepoint_id
  disk,     \* media directory: item -> name -> content, 0 if there is no such file
  run,      \* the two runs: where they are and what they hold
  contested,  \* items the runs got in each other's way with, not replaced by one alone since
  settled,    \* the last run to touch the document completed it, and alone
  events      \* events so far

ghost == <<contested, settled>>
vars  == <<remote, ver, disk, run, ghost, events>>

Runs  == {"nightly", "manual"}
Names == 1..MaxNames   \* 1 is the name asked for, the others carry a random suffix

RemoteItem == [present : BOOLEAN, etag : Nat]
VersionRow == [exists : BOOLEAN, current : BOOLEAN, etag : Nat, file : Names \cup {0}]
NoVersion  == [exists |-> FALSE, current |-> FALSE, etag |-> 0, file |-> 0]
NewVersion == [exists |-> TRUE, current |-> TRUE, etag |-> 0, file |-> 0]

Statements == {"idle", "items", "save", "fetch", "replace", "store", "record", "demote",
               "promote"}

\* listed: the etags of the listing, 0 for an item it does not hold; row: the copy;
\* shared: the other run had the item in hand too; alone: there was no other run yet.
Run == [pc : Statements, listed : [Items -> Nat], left : SUBSET Items,
        item : Items \cup {0}, row : VersionRow, content : Nat, chosen : Items \cup {0},
        shared : BOOLEAN, alone : BOOLEAN]

NoRun == [pc |-> "idle", listed |-> [i \in Items |-> 0], left |-> {}, item |-> 0,
          row |-> NoVersion, content |-> 0, chosen |-> 0, shared |-> FALSE, alone |-> FALSE]

Other(r) == CHOOSE q \in Runs : q # r

Present == {i \in Items : remote[i].present}

Event == events < MaxEvents /\ events' = events + 1

-----------------------------------------------------------------------------
(* SharePoint *)

PutItem(i) ==
  /\ Event
  /\ remote' = [remote EXCEPT ![i] = [present |-> TRUE, etag |-> @.etag + 1]]
  /\ UNCHANGED <<ver, disk, run, ghost>>

WithdrawItem(i) ==
  /\ i \in Present
  /\ Event
  /\ remote' = [remote EXCEPT ![i].present = FALSE]
  /\ UNCHANGED <<ver, disk, run, ghost>>

-----------------------------------------------------------------------------
(* _sync_document_group, from the listing on. *)

\* A listing without items of the document leaves its versions alone.
Begin(r) ==
  /\ run[r].pc = "idle"
  /\ Present # {}
  /\ IF r = "manual" THEN Event ELSE UNCHANGED events
  /\ run' = [q \in Runs |->
       IF q = r THEN [NoRun EXCEPT
                        !.pc = "items", !.left = Present,
                        !.listed = [i \in Items |->
                                      IF i \in Present THEN remote[i].etag ELSE 0],
                        !.alone = run[Other(r)].pc = "idle"]
                ELSE [run[q] EXCEPT !.alone = FALSE]]
  /\ settled' = FALSE
  /\ UNCHANGED <<remote, ver, disk, contested>>

\* get_or_create: the row as it is now, or a new one, which starts as current.
GetOrCreate(r, i) ==
  /\ run[r].pc = "items"
  /\ i \in run[r].left
  /\ LET row    == IF ver[i].exists THEN ver[i] ELSE NewVersion
         shared == run[Other(r)].item = i
     IN  /\ ver' = [ver EXCEPT ![i] = row]
         /\ run' = [q \in Runs |->
              IF q = r THEN [run[q] EXCEPT !.pc = "save", !.left = @ \ {i}, !.item = i,
                                           !.row = row, !.shared = shared]
                       ELSE [run[q] EXCEPT !.shared = @ \/ shared]]
         /\ contested' = IF shared THEN contested \cup {i} ELSE contested
  /\ UNCHANGED <<remote, disk, settled, events>>

\* Faulty variant: the copy outlives the work on the item.
NextItemKeepsCopy(r) ==
  run' = [run EXCEPT ![r] = [@ EXCEPT !.pc = "items", !.content = 0, !.shared = FALSE]]

\* The work on an item is over, with or without success.
NextItem(r) ==
  run' = [run EXCEPT ![r] = [@ EXCEPT !.pc = "items", !.item = 0, !.row = NoVersion,
                                      !.content = 0, !.shared = FALSE]]

\* The other run, with a newer listing, has already replaced the file.
Outdated(r) == run[r].listed[run[r].item] < run[r].row.etag

\* Faulty variant: the etag is saved with the other fields of the listing.
UpsertedRowEtagFirst(r) == [run[r].row EXCEPT !.etag = run[r].listed[run[r].item]]

\* The first version.save() writes every column of the copy back.
UpsertedRow(r) == run[r].row

SaveFields(r) ==
  /\ run[r].pc = "save"
  /\ ver' = [ver EXCEPT ![run[r].item] = UpsertedRow(r)]
  /\ IF run[r].row.etag = run[r].listed[run[r].item] /\ run[r].row.file # 0
       THEN NextItem(r) /\ UNCHANGED contested
       ELSE /\ run' = [run EXCEPT ![r].pc = "fetch"]
            /\ contested' = IF Outdated(r) THEN contested \cup {run[r].item} ELSE contested
  /\ UNCHANGED <<remote, disk, settled, events>>

Fetch(r) ==
  /\ run[r].pc = "fetch"
  /\ remote[run[r].item].present
  /\ run' = [run EXCEPT ![r].pc = "replace", ![r].content = remote[run[r].item].etag]
  /\ UNCHANGED <<remote, ver, disk, ghost, events>>

\* The item has left the library, a request fails, or the file cannot be written.
ItemFails(r) ==
  /\ \/ run[r].pc = "fetch" /\ ~remote[run[r].item].present /\ UNCHANGED events
     \/ run[r].pc \in {"fetch", "store"} /\ Event
  /\ NextItem(r)
  /\ UNCHANGED <<remote, ver, disk, ghost>>

\* version.file_path.delete: the file the copy names, whoever stored it.
DeleteOldFile(r) ==
  /\ run[r].pc = "replace"
  /\ disk' = IF run[r].row.file = 0 THEN disk
                                    ELSE [disk EXCEPT ![run[r].item][run[r].row.file] = 0]
  /\ run' = [run EXCEPT ![r].pc = "store"]
  /\ UNCHANGED <<remote, ver, ghost, events>>

\* Random names that no row and no run holds on to; a file nobody names does not count.
Unused(i) ==
  {n \in Names \ {1} :
     n # ver[i].file /\ \A r \in Runs : run[r].item = i => run[r].row.file # n}

\* The name asked for, unless there is such a file.
NewName(i) ==
  IF disk[i][1] = 0 THEN 1 ELSE CHOOSE n \in Unused(i) : TRUE

\* version.file_path.save, and the etag of the listing for the copy.
StoreFile(r) ==
  LET i == run[r].item
  IN  /\ run[r].pc = "store"
      /\ disk[i][1] = 0 \/ Unused(i) # {}
      /\ disk' = [disk EXCEPT ![i][NewName(i)] = run[r].content]
      /\ run' = [run EXCEPT ![r] =
           [@ EXCEPT !.pc = "record", !.content = 0,
                     !.row = [run[r].row EXCEPT !.file = NewName(i),
                                              !.etag = run[r].listed[i]]]]
      /\ UNCHANGED <<remote, ver, ghost, events>>

\* The second version.save(): again the whole copy.
RecordFile(r) ==
  /\ run[r].pc = "record"
  /\ ver' = [ver EXCEPT ![run[r].item] = run[r].row]
  /\ contested' = IF run[r].shared THEN contested ELSE contested \ {run[r].item}
  /\ NextItem(r)
  /\ UNCHANGED <<remote, disk, settled, events>>

-----------------------------------------------------------------------------
(* _set_current_version *)

\* Faulty variant: every stored row, listed or not.
CandidatesEverStored(r) == {i \in Items : ver[i].exists}

\* The stored rows of the listing, those with a file if there are any.
Candidates(r) ==
  LET rows == {i \in Items : run[r].listed[i] # 0 /\ ver[i].exists}
      withFile == {i \in rows : ver[i].file # 0}
  IN  IF withFile # {} THEN withFile ELSE rows

Choose(r) ==
  /\ run[r].pc = "items"
  /\ run[r].left = {}
  /\ \E c \in Candidates(r) :
       /\ \A i \in Candidates(r) : i <= c
       /\ run' = [run EXCEPT ![r].pc = "demote", ![r].chosen = c]
  /\ UNCHANGED <<remote, ver, disk, ghost, events>>

\* Faulty variant: only rows of the listing lose the flag.
DemotedIfListed(r) ==
  [i \in Items |-> IF i = run[r].chosen \/ run[r].listed[i] = 0
                     THEN ver[i] ELSE [ver[i] EXCEPT !.current = FALSE]]

Demoted(r) ==
  [i \in Items |-> IF i = run[r].chosen THEN ver[i] ELSE [ver[i] EXCEPT !.current = FALSE]]

DemoteOthers(r) ==
  /\ run[r].pc = "demote"
  /\ ver' = Demoted(r)
  /\ run' = [run EXCEPT ![r] = [NoRun EXCEPT !.pc = "promote", !.chosen = run[r].chosen,
                                             !.alone = run[r].alone]]
  /\ UNCHANGED <<remote, disk, ghost, events>>

PromoteChosen(r) ==
  /\ run[r].pc = "promote"
  /\ ver' = [ver EXCEPT ![run[r].chosen].current = TRUE]
  /\ settled' = run[r].alone
  /\ run' = [run EXCEPT ![r] = NoRun]
  /\ UNCHANGED <<remote, disk, contested, events>>

Crash(r) ==
  /\ run[r].pc # "idle"
  /\ Event
  /\ run' = [run EXCEPT ![r] = NoRun]
  /\ UNCHANGED <<remote, ver, disk, ghost>>

-----------------------------------------------------------------------------

\* A run that had the document to itself has mirrored some items; some came or changed
\* since.
Init ==
  \E mirrored \in SUBSET Items, since \in SUBSET Items :
    /\ remote = [i \in Items |-> [present |-> i \in mirrored \cup since,
                                  etag |-> CASE i \in mirrored \cap since -> 2
                                             [] i \notin mirrored \cup since -> 0
                                             [] OTHER -> 1]]
    /\ ver = [i \in Items |->
                IF i \in mirrored
                  THEN [exists |-> TRUE, current |-> \A j \in mirrored : j <= i,
                        etag |-> 1, file |-> 1]
                  ELSE NoVersion]
    /\ disk = [i \in Items |-> [n \in Names |-> IF n = 1 /\ i \in mirrored THEN 1 ELSE 0]]
  /\ run = [r \in Runs |-> NoRun]
  /\ contested = {}
  /\ settled = FALSE
  /\ events = 0

Work(r) ==
  \/ \E i \in Items : GetOrCreate(r, i)
  \/ SaveFields(r) \/ Fetch(r) \/ ItemFails(r)
  \/ DeleteOldFile(r) \/ StoreFile(r) \/ RecordFile(r)
  \/ Choose(r) \/ DemoteOthers(r) \/ PromoteChosen(r)

Next ==
  \/ \E i \in Items : PutItem(i) \/ WithdrawItem(i)
  \/ \E r \in Runs : Begin(r) \/ Work(r) \/ Crash(r)

Spec == Init /\ [][Next]_vars

\* Beat starts a run every night, and a run that works goes on.
Fairness == WF_vars(Begin("nightly")) /\ \A r \in Runs : WF_vars(Work(r))

FairSpec == Spec /\ Fairness

-----------------------------------------------------------------------------
(* Properties. *)

TypeOK ==
  /\ remote \in [Items -> RemoteItem]
  /\ ver \in [Items -> VersionRow]
  /\ disk \in [Items -> [Names -> Nat]]
  /\ run \in [Runs -> Run]
  /\ contested \in SUBSET Items
  /\ settled \in BOOLEAN
  /\ events \in 0..MaxEvents
  /\ \A r \in Runs :
       /\ run[r].item # 0 <=> run[r].pc \in {"save", "fetch", "replace", "store", "record"}
       /\ run[r].chosen # 0 <=> run[r].pc \in {"demote", "promote"}
       /\ run[r].item # 0 => ver[run[r].item].exists

\* A lost file, or one older than its etag says, is damage no later run repairs unless
\* the etag gives it away. Two runs in one document do it only to an item both had in
\* hand at once, or that the run with the older listing came to last: however else they
\* overlap is harmless.
DamageNeedsRace ==
  \A i \in Items \ contested :
    ver[i].file # 0 =>
      IF disk[i][ver[i].file] = 0 THEN ver[i].etag < remote[i].etag
                                  ELSE ver[i].etag <= disk[i][ver[i].file]

\* After a run that had the document to itself, one version is current, and stays the
\* only one until the next run begins: no late save of the other run brings an old flag
\* back.
SettledShowsOne == settled => Cardinality({i \in Items : ver[i].current}) = 1

\* In the end the highest label present is the current version, the only one, and every
\* uncontested item is mirrored, whatever overlapped and crashed before.
RunsRecover ==
  <>[](/\ Present # {} => \A i \in Items :
            ver[i].current <=> i \in Present /\ \A j \in Present : j <= i
       /\ \A i \in Present \ contested :
            ver[i].file # 0 /\ ver[i].etag = remote[i].etag
              /\ disk[i][ver[i].file] = remote[i].etag)

=============================================================================
