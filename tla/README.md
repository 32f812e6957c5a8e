# Formal models of the MIDo application

MIDo mirrors controlled documents from a SharePoint library, shows them to
employees on kiosks, and records who has acknowledged ("signed") which version.
This directory holds TLA+ models of that program, the TLC configurations that
check them, and TLAPS proofs. Paths below are relative to the repository
(`documents/sync.py` is `src/documents/sync.py`).

1. [The system](#1-the-system): inventory
2. [The modules](#2-the-modules): how state and actions correspond to the code
3. [The runs](#3-the-runs): what is checked, with which bounds
4. [The proofs](#4-the-proofs)
5. [What the runs found](#5-what-the-runs-found)
6. [Not modelled](#6-not-modelled), [7. Plan](#7-plan), [8. Running](#8-running)

## 1. The system

A Django project, one database, a media directory, and a Celery worker with beat.
There is no `transaction.atomic` and no `ATOMIC_REQUESTS`: every ORM statement
commits by itself, so *any* two statements of any two requests or tasks can be
interleaved, and a dead worker leaves whatever it had already committed. The
Django admin site is the exception: its views run in a transaction.

| Component | State it keeps | Operations | Talks to |
|---|---|---|---|
| Document sync, `documents/sync.py` | `Document`, `DocumentVersion`, files in the media directory | `sync_documents`, `_sync_document_group`, `_sync_one_version`, `_set_current_version` | the Graph client (listing, downloads); its tables are read by everything below |
| Attachments, same file | `Attachment`, its files | `reconcile_attachments` (inside the sync), weekly `sweep_attachments` | the Graph client |
| Visibility, `documents/services.py`, `documents/models.py` | `DocumentAssignment` and its many-to-many tables | queries: visible documents, assigned versions and users, required users | read by the API, the kiosk, signing, notifications |
| Signing, `signatures/` | `Signature` | `SignView.post`, `create_signature`; reports | Visibility's queries, sync's tables, RFID sessions |
| RFID sessions, `rfid_auth/` | `RfidSession`, `Device` | login, logout, authentication of a request, nightly cleanup | `User` |
| Kiosk, `kiosk/` | the token in the browser's Django session | login, logout, pages, the middleware that admits | RFID sessions, Visibility, Signing |
| Users, `users/` | `User` (card, active flag, unit, profession) | `PATCH /api/users/<id>/`, admin site | read by login and by the matchers |
| Notifications, `notifications/` | `Notification` | notify about a document, daily reminder, mark as read | Visibility, Signing |
| Graph client, `integrations/` | a cached access token | listing, driveItem lookup, download as PDF | SharePoint |
| Beat schedule, `config/` | - | cleanup at 2:30, sync at 3:00, reminders at 6:00, sweep on Sundays at 4:00 | starts the tasks |

What is hard about each, and what makes it correct:

- **Sync.** The sync is a sequence of small commits against a remote that changes
  while it is read, with downloads that fail and a worker that can die. Correct
  means: a lost file is always downloaded again, an unchanged etag means up-to-date
  content, one current version per document and a readable one when there is
  one, no document switched off by an error, and in the end the local copy equals
  SharePoint.
- **Signing.** A sign request checks objects it loaded earlier, while the sync
  moves flags and administrators move assignments; users double tap. Correct
  means: one signature per user and version however requests overlap, a revision
  must be signed again, and only interference explains a signature for
  something that is no longer current.
- **RFID sessions, kiosk, users.** Login is find user, revoke, create; logout is
  load, save; a PATCH is load, save the whole row. Correct means: a login supersedes
  the user's other sessions, a deactivated user is shut out, nothing ends a
  session without a reason, a PATCH changes what it names.
- **Visibility.** The same question - does this assignment apply to this user - is
  answered by three pieces of code, two of them queries with NULLs and empty
  conditions; the time window is written twice. Correct means: they agree, at the first and
  the last instant of a window too.
- **Overlapping runs.** Nothing keeps a sync started by hand from running during the
  nightly one. Each works on copies of rows and deletes the file its copy names.
  Correct means: damage no later run repairs needs two runs with the same item in
  hand, and everything else is repaired.
- **Attachments.** The sync gives a downloaded version its attachments, the weekly
  sweep updates those of the current version in place; both save a file and a row in
  separate statements, and attachments of all documents share one directory, so a
  freed name is given to somebody else. Correct means: a row has a file of its own, of
  its own attachment and as new as its etag; history stays; the sweeps converge.
- **Notifications.** Syncs, the reminder task and the reminder command each make half a
  dozen queries and then insert; nothing keeps two of them apart. Correct means: nobody is
  told more often than jobs overlap, nobody is told of a document he cannot see unless the
  tables moved under the queries, nobody stays untold, and report, reminders and the
  users' own lists agree on who has not signed.

`PROJECT.json` lists the hazards one by one at their lines, with the properties
that cover them, or the reason none does.

## 2. The modules

```
Mirror  <--- implemented by --- DocumentSync  <--- extended by --- Signing, Recovery
MirrorProofs                    DocumentSyncProofs     SigningProofs  RecoveryProofs
                                MCDocumentSync         MCSigning      MCRecovery

Visibility  <--- extended by --- Notifications
MCVisibility                     MCNotifications
                                 NotificationsProofs (about both)

RfidSessions         OverlappingRuns         Attachments
RfidSessionsProofs   OverlappingRunsProofs   AttachmentsProofs
MCRfidSessions       MCOverlappingRuns       MCAttachments
```

The arrows are compositions: Signing puts sign requests between the steps of the
sync, Notifications puts the queries of its jobs and the signatures between the changes
of the assignments. DocumentSync has one run at a time; OverlappingRuns follows two of them
through one document, and keeps apart what one run need not: the copy of the row, the
names of files. Attachments is the part of the sync that DocumentSync leaves out;
of the other tables it needs only which versions were downloaded and which is current.

Definitions named "Faulty variant" in a comment are not part of a specification:
each is a plausible bug of the operator defined after it, kept to see that
the properties notice it.

### DocumentSync

The mirror of the library "Platne", statement by statement. An action is one
statement that commits, together with the in-memory work up to the next one.

| Code | Model |
|---|---|
| SharePoint list item (one version of a document) | `remote[i]`: present, number, label, valid, etag |
| `Document`, by `document_number` | `doc[n]`: exists, active |
| `DocumentVersion`, by `sharepoint_id` | `ver[i]`: exists, number, label, current, etag, file (the row names one) |
| media directory | `disk[i]`: content of the file the row names, 0 when it is gone |
| locals of a run | `pc`, `limited`, `unread`, `listed`, `seen`, `group`, `left`, `item`, `content`, `chosen` |
| `sync_documents` | `StartRun`, `ListItem`, `FinishListing`, `ListingFails`, `BeginGroup`, `FinishRun` |
| `_sync_document_group` | `GetOrCreateDocument`, `SaveDocument`, `GroupFails` |
| `_sync_one_version` | `RejectVersion`, `UpsertVersion`, `Fetch`, `FetchFails`, `DeleteOldFile`, `StoreFile`, `StoreFails`, `RecordFile` |
| `_set_current_version` | `NoCandidate`, `DemoteOthers`, `PromoteChosen` |
| the worker dies | `Crash`: locals gone, tables and files stay |
| people editing SharePoint | `PutItem`, `WithdrawItem`, at any moment |

Abstractions: a label is its rank under `_version_key`; an etag is a number that
grows with every edit; the content of a file is the etag the item had when it was
downloaded. The unique index on (document, version_label) is kept: `LabelTaken`
decides between `RejectVersion` and `UpsertVersion`. `failed`, `settled`
and `torn` are history variables of the properties; no guard reads them. `GroupFails` is
the `except` of `sync_documents`: it catches what is raised outside the loop over the
items, before it (creating and saving the document) and after it (the query and the two
UPDATEs of `_set_current_version`), and the run goes on with the next group. In the latter
case the flags stay half changed, so the group is `torn`, just as after a `Crash` there.
`StoreFile` is nondeterministic where Django's storage is: the new file may or may
not get the name the row already holds.

### Mirror

What the sync promises of a file, without requests, rows, failures or the order of
steps: a source, the version the mirror *claims*, the version of the *copy* it can hand
out. A copy may be given up only while the source is ahead of the claim, and a claim
never goes back or exceeds the copy. DocumentSync maps its remote etags, its stored
etags and its files to these (`Copies`); `KeepsPromise`, which is `Copies!Spec`, says
that the sync implements it. Most statements of the sync are stuttering steps.

### Recovery

DocumentSync again, with the history variable `repair` and nothing else: every step is
one of DocumentSync's (`RecoveryIsSync`). `repair` is "underway" while an unlimited run
has met no edit and no fault since it began, and "complete" from the end of such a run,
if it logged no error, to the next edit or limited run; faults of later nightly runs do
not end it. The module says why the sync converges in terms of single steps, which
can be proved, where `Converges` needs fairness: `Distance` counts what a run still has
to do (pages, groups, the stage of the group, its items, the stage of the item), and
`OneRunRepairs` says what one run achieves. `Orderly` is a condition on the library: no
<<number, letter>> pair is ever used by two items.

### OverlappingRuns

`run[r]` is the nightly run or one started by hand: its statement, its listing, the
copy of the row it works on. `GetOrCreate`, `SaveFields`, `Fetch`, `DeleteOldFile`,
`StoreFile`, `RecordFile` are `_sync_one_version`, now with whole-row saves
(`version.save()` writes `is_current` and `file_path` of the copy too); `Choose`,
`DemoteOthers`, `PromoteChosen` are `_set_current_version`. Files have names, because
which file a run deletes is the point: the one its copy names. Items are numbered by
the rank of their labels and never change document, which DocumentSync covers. Two
history variables: `contested`, items that both runs had in hand at once or that the
run with the older listing came to last, until one run alone replaces them; `settled`,
the last run to touch the document completed it and had it to itself.

### Attachments

| Code | Model |
|---|---|
| folder of the document in acLibPrilohy | `folder[i]`, `newest[i]`: etag, 0 while absent, and the last one given |
| `Attachment` | `row[<<version, item, copy>>]`: nothing forbids several rows for one item |
| `media/attachments/` | `disk[name]`: which attachment, and which etag of it |
| `reconcile_attachments` | `Reconcile` (list, previous version, what is unchanged), `Copy` or `Download`, `Store`, `Record` |
| `_sweep_one_document` | `Sweep`, `Download` (with the deletion of the old file), `Store`, `Record`, `DropFile`, `DropRow` |
| an exception that ends the work on the document | `GivesUp` |
| a failed request, a killed worker | `Interrupted` |
| `_set_current_version`, people editing the folder | `SetCurrent`, `Put`, `Remove` |
| which documents `sweep_attachments` comes to | `sweepable`: active, linked, with a current version that has a file; changed by `SetSweepable` |
| `AttachmentFileView` | `Streamed` |

All attachments ask for one file name, so that the storage has to choose: name 0 if it is
free, a random one else. History variables: `torn`, names deleted without the row being
saved; `again`, versions downloaded more than once; `overlapped`, versions reconciled
while the sweep ran. Versions are numbered by the string order of `previous_version`;
the properties hold whichever version it picks.

### Signing

Extends DocumentSync with the `Signature` table and sign requests, so that every
step of the sync can fall between two statements of a request: `LoadVersion`
(`get_object_or_404` with `select_related`: flags are *copied* into the
request), `RefuseCard`, `RefuseVersion`, `PassChecks` (the flags of the copy and
the visible documents at that moment), `InsertSignature` (the unique index
decides). `assigned` is the outcome of the Visibility queries, changed by
`Assign` and `Unassign`. `disturbed` is a history field: something the request was
based on changed since it was loaded. `Served` is who can open a version's file.

### RfidSessions

Terminals (API clients, and kiosks, which differ in how they are admitted) send one
request at a time. Login is three steps, `Authenticate` (one of the `Holders` of the
card), `RevokeOthers`, `CreateSession`; logout two, `AskLogout` and `SaveLogout` or
`LogoutFails`, which is the `DatabaseError` of `save(update_fields=...)` on a deleted
row. `Admitted` says who gets in: the API looks at `is_active`, the kiosk middleware
does not. `Cleanup` is `delete_stale_sessions`. `PatchCard`, `PatchActive` and
`SavePatch` are the two halves of a user PATCH, which saves every column it loaded;
`overtaken` records that another PATCH of the user was saved in between. Sessions are
numbered in order of creation; `auth` and `after` in a session row record when its login
looked the user up and which sessions existed when it revoked, for the properties only,
like `since`.

### Visibility

One document, its versions, assignments, users and the clock. `MatchesUserQ` is
`_assignment_matches_user_q`, `MatchesUser` is `DocumentAssignment.matches_user`,
`MatchingUserQ` is `matching_user_q`, whose `Q()` is modelled as "no condition"
because `Q() | X` is `X`. `TimeWindowQ` is `_time_window_q` and `ActiveNow` is `active_now`,
two translations of one rule. `Visible`, `AssignedVersions`, `AssignedUsers` and
`RequiredUsers` are the queries, each as if all its reads fell on one moment; where they do
not, Notifications takes them apart. The actions only move the tables: `SaveAssignment` (one step, the admin form is transactional, and rejects
targets without members), `RemoveAssignment`, `SyncVersion`, `SyncDocument`,
`EditUser`, `Tick`. Any combination of current flags is reachable, as it is in
the code between two statements of the sync.

### Notifications

Extends Visibility with the `Notification` and `Signature` tables and `Jobs`, processes
that can work on the document at once: the nightly sync, one started by hand, the reminder
task, the command. `Begin` makes a process one of the two kinds, `After` gives the order of
its queries, and every query is an action:

| Code | Model |
|---|---|
| `current = document.current_version`, `active_now().exists()` (notifications/services.py:40-41, 87-88) | `ReadCurrent`, `PassGate` |
| `get_required_users`: the same two questions again (documents/services.py:90-91), the loop of `get_assigned_users` | `ReadVersion`, `ReadRules`: nothing found stands for everybody |
| `already_notified_ids`: last but one in the sync, first in a reminder | `ReadTold`; `Told` is by document, not by version, kind or whether it was read |
| `get_signed_users_for_document`, in reminders | `ReadSigned` |
| evaluation of the users' query | `ReadUsers`: the types of the rules are those that were read, members, units and `is_active` those of now, since Django compiles the assignments' members into subqueries |
| `bulk_create` | `Insert` |
| an exception, a kill | `Fails` |

A rule whose row is deleted loses its members (`KeptRules`). No job looks at `is_active`
once it is at the document, so `Begin` has no such guard. The history field `disturbed` says
that assignments, flags or the clock moved since the first query for the recipients.
`UnsignedReport`, `UnsignedUsers` and `Listed` are the three answers to who has not signed,
each at one moment. `BeatName` and `TaskName` are the names under which beat sends the
tasks and under which they are registered; those of the reminders differ.

## 3. The runs

| Run | Question | Instance |
|---|---|---|
| `sync_safety` | what may the tables and files look like during and after syncs; does the sync implement Mirror | 2 items contending for 2 numbers and 2 letters, one of them able to lose its number; 2 edits each, 2 faults |
| `sync_live` | does every run end; what does one undisturbed run repair; do the nightly runs repair everything | 2 items, each (number, letter) used by one item; 2 edits each, 1 fault |
| `overlap` | what can two runs at once damage, and what is repaired | 2 items of one document, 4 file names, 2 events (edits, faults, manual runs), any mixture of mirrored and new items at first |
| `attachments` | what rows and files may look like; do the sweeps converge | 2 attachments that want one name, 2 versions, 3 rows per item and version, 6 random names, 3 events |
| `signing` | what can be stored, answered, listed as unsigned, opened | a version and its revision, 1 user, 2 requests, 1 fault of the sync |
| `sessions` | which sessions stay usable, and for whom | 2 users, 1 card, an API client and a kiosk, 2 PATCHes in flight, 2 sessions, 2 PATCHes in all, clock up to 3 |
| `visibility` | do the queries agree | 2 users, 2 versions, 2 assignments, 7 targets (every type, also with members their type ignores), windows that begin and that end |
| `notifications` | who is told, of what, how often, and who has not signed | 2 users, 2 versions with any flags at first, 1 assignment at a time, to everybody or to one user, 2 jobs of either kind, 2 events (changes of the tables, readings, signatures, failures) |
| `sync_reupload`, `signing_display`, `assigned_union`, `reminders` | claims the code does not keep, see section 5 | the smallest instance with a counterexample; for `reminders` that of `notifications` |

**sync_safety.** `LostFileIsRefetched`: a row naming a file that is gone has an
outdated etag. `FileNotOlderThanEtag`: content is at least as new as the etag
stored with it. `AtMostOneCurrent`, with its exact exceptions: the group in
progress (a new row starts as current) and groups that a crash, or an exception in
`_set_current_version`, cut short. A failure of an item, or before the first one, excuses
nothing.
`CleanGroupShowsNewest`: a group without failures ends with its newest item as the
only current one. `ReadablePreferred`: failed downloads do not take a readable
document away. `DeactivationJustified`: only the newest item's own state or a
complete listing without the document switches it off. `KeepsPromise`: every step
is one of Mirror or changes nothing Mirror sees.

**sync_live.** `RunsComeToAnEnd`: every statement, failure and crash of a run brings it
nearer to its end and edits do not move it away; nothing is tried twice in a run.
`OneRunRepairs`: once one undisturbed run without errors has ended, the library, the
tables and the files agree, and stay so through later nightly runs that fail or are
killed anywhere. `OnlyFaultsCostItems`: with one item per number and letter such a
run loses an item only to a failed request or a full disk; `sync_reupload` shows what
happens otherwise. `Converges`: in the end every published item is mirrored, the highest
letter is current, `is_active` is right - for good.

**overlap.** `DamageNeedsRace`: a file that is lost, or older than its etag says, with
an etag that hides it, belongs to a contested item; runs that overlap in any other way
do no harm. This damage is real and lasts until the item is edited. `SettledShowsOne`:
after a run that was alone one version is current, and no late save of the other run's copy
brings an old flag back. `RunsRecover`: in the end the highest letter is current,
and every uncontested item is mirrored. That the sync may be repeated at will
(docs/PLAN.md:96) is thus true of runs one after the other.

**attachments.** `FilesAreTheirOwn`: a row has a file and shares it with no row, except
where a replacement was interrupted between deletion and save: then the name is
free, and the row shows whatever attachment gets it. `FilesMatchEtags`: without
interruptions and overlaps, a row serves its own attachment, as new as its etag, also
when it was copied from another version. `DuplicatesExplained`: two rows of one attachment in
one version come from a second download of the version or from an overlap.
`SnapshotsStay`: rows and files of versions the sweep is not at stay as they are.
`SweepsConverge`: if the document stays active and linked and its current version keeps a
file (sync.py:226-231), the rows of that version end up with the folder's etags. It is
about rows and etags; what a row with the right etag serves is `FilesMatchEtags`.

**signing.** `OneRowPerAnswer`: one row per user and version, and exactly the
requests answered 201 stored one. `RevisionReappears`: a readable, assigned, unsigned
current version is on the unsigned list whatever older versions were signed, except
while the sync works on the document or after a crash or an exception cut that short (two
current versions: a signature of the older one then hides the newer one). `UndisturbedIsValid`: a
signature of a version that is not current, or not visible, always has an
interfering change between its load and its insert. `ListedCanBeOpened`: what the
unsigned list leads to has a file, or one the next sync fetches again.

**sessions.** `LoginSupersedes`: two usable sessions of one user come from
overlapping logins. `DeactivationHolds`: the API admits no inactive user, a
kiosk only one whose login preceded the deactivation. `SessionsEndForAReason`: only the
clock, a logout with that session, or a login of its own user ends it.
`PatchLosesOnlyOverlaps`: a PATCH leaves the field it does not name alone unless another
PATCH of that user was saved since it loaded the row - then a deactivated user can be
active again. README.md:173 promises one active session per user; `LoginSupersedes`
says exactly when there are two.

**visibility.** `MatchersAgree`: the three matchers agree, NULLs included.
`VisibleIffAssigned`: query and loop agree, each with its own time window. It makes an
unassigned document visible to nobody, as the code does; section 5 names the test that
expects otherwise.

**notifications.** `AtMostOncePerJob`: the rows a user has of a document, and the jobs that
looked for them too early and may still insert one, are together at most as many as jobs
can run at once; two syncs, say, leave two rows of one kind. `UndisturbedToldCanSee`: whom a
job selects of a published document can see it, unless assignments, flags or the clock
moved between its queries; without that premise TLC finds the run in which everybody is
told. `ListsAgree`: while one version is current and its
assignments are of one kind, report, reminders and the users' lists agree; with
assignments to everybody *and* to others they do not (`assigned_union`).
`RecipientsAreTold`: who stays a recipient of a published document is told of it.

`CHECK_DEADLOCK FALSE` in `sessions`, `overlap` and `attachments`: clock, sessions,
PATCHes and events are bounded, so the model (not the program) comes to an end. The
other runs check for deadlock.

**Bounds, and why they are enough.** `MaxEtag` bounds the edits of one item: 2 allow
an edit after the first download, so that file, etag and listing can all
differ. `MaxFaults` bounds failures, crashes and limited runs together: 2 allow
a fault during the recovery from another one. Two items suffice for every
relation between versions of a group (newer or older, colliding, moving to the
other document, one failing and one not). Runs of the sync are *not* bounded.
`MaxEvents` of OverlappingRuns and Attachments bounds edits,
faults and started runs together. In `overlap`, 2 allow an edit and a manual run, which
the races need; the edits that came before the two runs are in the initial states. In
`attachments`, 3 allow an edit of the folder, a download of the other version and a
kill. File names and copies are bounded above what these events can use, so that no
step waits for a name. `MaxSessions` 2 is the least that shows a superseded session;
`MaxTime` 3 with `Ttl` 1 and `Retention` 0 lets a session expire and be deleted while a
logout of it is under way. In `notifications` one assignment slot, which may be replaced
at any time, keeps the instance small: combinations of assignments are the subject of
`visibility`. Two jobs are the least that overlap, and 2 events allow an assignment to end
and another to begin, or a flag to move and a job to fail, between two queries; what jobs
do by themselves is not bounded. The theorems of section 4 lift these bounds for the properties they cover.
Symmetry is used only where the symmetric values are interchangeable and no
liveness is checked.

**Fairness.** A worker that runs goes on to its next statement, and beat starts each
task again, whatever became of the previous run (`config/settings.py`):
`WF(RunStep)` and `WF(StartRun(FALSE))` in `sync_live` and `sync_reupload`, `WF(Work(r))`
and `WF(Begin("nightly"))` in `overlap`, `WF(Work(j))` and `WF(Sweep)` in `attachments`,
`WF(Work(j))` and `ComesAgain(k)` in `notifications`. `ComesAgain(k)` is
`SF(published /\ \E j : Begin(j, k))`: jobs of the other kind may take the process that
has become free, but a task that beat queues every day is taken in the end. It is
assumed of the reminders only if beat's name for the task were the registered one; it
is not, so `RecipientsAreTold` rests on the sync alone. `reminders` grants the reminders
what beat does not give them, since an administrator may run the command daily. The sync
comes again only while the document is published, for then it is in every listing. Nothing is assumed of people: manual runs, edits, requests and
assignments happen or not, and the bounds make edits and faults cease, which the
convergence properties need as their premise.

## 4. The proofs

Proved by TLAPS for all values of the constants that meet the modules' assumptions
(finitely many items with a catalogue of well-typed metadata; NULL values are not
values; natural bounds).

| Theorem | Argument |
|---|---|
| `DocumentSyncProofs!TypeCorrect` | inductive by itself, one step per action |
| `DocumentSyncProofs!LostFilesAreRefetched`, `FilesNotOlderThanEtags` | `FileInv` |
| `DocumentSyncProofs!SyncKeepsPromise` | initial states map to initial states, and under `FileInv` every step to a step of Mirror or a stutter |
| `MirrorProofs!MirrorsAreHonest` | `HonestInv`; what any implementation of Mirror inherits |
| `DocumentSyncProofs!OneCurrentVersion` | `FlagInv` |
| `DocumentSyncProofs!DeactivationsJustified` | `ListingInv`: pages are unread only while the listing is read |
| `DocumentSyncProofs!CleanGroupsShowNewest`, `ReadableIsPreferred` | `GroupInv` |
| `RecoveryProofs!OneRunRepairsAlways` | `RepairInv` |
| `RecoveryProofs!EveryRunEnds`, `DistancesAreNatural` | case by case, from `GroupInv` and the finiteness of `Items` |
| `RecoveryProofs!OnlyFaultsCostAnItem` | `LabelInv`: numbers and letters of items, listings and rows are of the item's catalogue |
| `RecoveryProofs!RecoveryIsSync` | step by step |
| `SigningProofs!SigningTypeCorrect`, `OneRowForEachAnswer` | inductive by themselves |
| `SigningProofs!RevisionsReappear`, `ListedCanAlwaysBeOpened` | from the invariants of the sync, which sign requests do not disturb |
| `SigningProofs!UndisturbedIsAlwaysValid` | `OpenUpToDate`: the copies of an undisturbed request equal the tables |
| `RfidSessionsProofs!TypeCorrect` | inductive by itself |
| `RfidSessionsProofs!LoginsSupersede` | `SessionInv` |
| `RfidSessionsProofs!DeactivationsHold` | `AccessInv` |
| `RfidSessionsProofs!PatchesLoseOnlyOverlaps` | `PatchInv`: a PATCH not overtaken carries the row as it is |
| `RfidSessionsProofs!SessionsEndOnlyForAReason` | from the types alone, one case per action |
| `NotificationsProofs!TypeCorrect` (of Visibility) | inductive by itself |
| `NotificationsProofs!MatchersAlwaysAgree`, `VisibleAlwaysIffAssigned` | lemmas on the queries, from `TypeOK` alone |
| `NotificationsProofs!UndisturbedToldCanAlwaysSee` | `QuietInv`: what an undisturbed job has read is still so |
| `NotificationsProofs!NTypeCorrect`, `ListsAlwaysAgree` | types, and lemmas on the queries: an unmixed union is complete |
| `NotificationsProofs!ToldOncePerJob` | inductive with the types: rows and jobs that may still insert one, counted together |
| `AttachmentsProofs!AttachmentsTyped` | `TypeInv` |
| `AttachmentsProofs!FilesBelongToOneRow`, `HistoryStays` | `FileInv` |
| `AttachmentsProofs!DuplicatesAreExplained` | `RowInv` |
| `AttachmentsProofs!FilesAreAsNewAsTheirRows` | `MatchInv` |
| `OverlappingRunsProofs!RunsTyped` | `TypeInv`: the copy in hand is one of a stored row |
| `OverlappingRunsProofs!OnlyRacesDamage` | `RaceInv` |
| `OverlappingRunsProofs!SettledShowsOneVersion` | `AloneInv` |

*FileInv.* The two file properties say nothing about the moment between deleting a file
and recording the new one, nor how the listing relates to the remote item. The
invariant adds: stored and listed etags never exceed the remote one; the
item being replaced was listed with an etag newer than the row's, or its row has no
file; the downloaded content is at least as new as the listed etag. Then a crash
after `DeleteOldFile` leaves an outdated etag, and `RecordFile` stores
an etag that the content is not older than.

*FlagInv.* Two current rows of a document are possible inside the group in
progress. The invariant adds what makes the exception end: the document is still in
order before the loop, so a group that raises there leaves it so; it is also in order
while no listed item has a row with the document, so a group without candidates does
too; and after `DemoteOthers` no row but the chosen one is current. Only a crash, or an
exception in `_set_current_version`, leaves it open.

*SessionInv.* `LoginsInOrder` ties sessions to the logins they come from, those still
under way included: every session of the user that existed when the login revoked is
over, and stays over. `CreateSession` hands this on to the new row.

*AccessInv.* `LookupsInOrder`: if the user of a session, or of a login under way, is
inactive, the login found the user no later than the last deactivation, `since`.

*Visibility* needs no strengthening: the queries are functions of the tables, and the
lemmas `QueryMatchesMethod` and `MethodMatchesUserQuery` hold for every well-typed
target. `WindowsAgree` joins the two time windows.

*QuietInv.* As long as nothing a job has read changed, the version it holds is the first
current one, that version has an assignment in force once the gate is passed, and the
rules it holds are those in force (`Quiet`). `QuietSelectsViewers` then shows that whom they
select the document is visible to: assigned users are a subset of those some assignment in
force applies to, even though the union loses members (section 5). That something is
assigned at the second question too is what an undisturbed job may rely on and a
disturbed one may not.

*ToldOncePerJob.* Once a user has a row, a job that asks who was told finds him
(`NobodyElseTells`), so `MayTell(u)` only shrinks; each insert takes one job from it and adds
one row (`CountStep`). Before the first row there are at most as many such jobs as jobs.

*GroupInv* follows the loop over a group: every item done without a failure has a row with
the document, its listed label and a file, and letters are unique in a document.
`NewestIsBest` then turns the candidate `_set_current_version` picks into the newest
item, and `SettledStay` keeps a completed group as it is while others are worked on.

*RepairInv* joins the invariants above with three predicates. `Snapshot`: while nothing
was edited since the run began, what it has read is still so. `Underway`: every item the
run is done with (`Handled`) is up to date - here an unchanged etag must mean an
up-to-date file, which is `FileInv` - every group it has left is settled or had a
failure, and every document it has begun is saved as its newest item says. At the end of
a run without failures `GroupInv` turns this into `Complete`, which says of each
document which item it shows. `Complete` then is what every further step of a
run or fault finds already done: rows are saved as they are, no etag differs, the choice
falls on the row that is current, nothing is switched off.

*Distance.* No invariant of its own: each statement lowers one entry of the tuple and
leaves those before it alone. That an item in hand is still among those left, so that
a failure takes it off, is part of `GroupInv`. Edits do not touch the distance
because a run reads each page once. With `OneRunRepairs` and `OnlyFaultsCostItems` this
is the safety half of `Converges`: runs end, and the first one that meets no fault, edit or
failed item repairs everything for good. The other half, that such a run does come, is
fairness.

*Attachments.* `FileInv` adds to the property that two claims - a row's name, or the name
a job has stored and not yet recorded - never meet outside `torn`, that what the sweep
knows of a row is still so, and that what is about to be stored is a file.
`RowInv` adds that an insert under way is for an attachment without a row, unless the
version is in `again` or `overlapped`. `MatchInv` carries, while nothing is torn or
overlapped, that each file, each content in hand and each file the sync takes over
is of the right attachment and at least as new as the etag it is recorded with.

*OverlappingRuns.* `RaceInv` adds that two runs with one item in hand both know it as
shared, that a run which holds an item alone has a copy that still equals the row, or
has stored the file it is about to record, and that a run replaces a file of an
uncontested item only with a newer listing. Recording then puts an uncontested item in
order, and no step of the other run can reach it in between. `AloneInv` adds that beside a
run that is alone the other one has not begun, so what it demoted stays demoted until it
promotes its choice.

Only model-checked: the liveness properties `Converges`, `SweepsConverge`,
`RunsRecover` and `RecipientsAreTold`, since liveness under fairness is outside what the
installed provers handle. Of `Converges` the steps of the argument are theorems
(`RecoveryProofs`); what is left to TLC is that fairness makes a run begin and go on.

## 5. What the runs found

Each is a counterexample TLC produces against a sentence of the repository.

- `sync_reupload`: a document withdrawn and uploaded again under the same letter is
  a new list item; the unique index rejects it in every run and the withdrawn version
  stays current. README.md:98 promises the highest letter present.
- `signing_display`: a version can be signed before its file was downloaded.
  docs/PLAN.md:10 promises that a signed version can always be displayed.
- `assigned_union`: an assignment to everybody (`Q()`) is lost from
  `get_assigned_users` once the version has another assignment in force, so
  reports, notifications and reminders miss users who do see the document.
- `reminders`: a user who got the notification of a document is never reminded of it,
  because the reminders skip everybody with any row of the document.
  remind_unsigned.py:7 promises reminders to sign what is not signed yet.

Two more disagreements follow from the models, without a run of their own:

- *Unassigned documents.* `get_visible_documents` filters on a matching assignment
  (documents/services.py:55; the annotation `_has_assignments` beside it is not used), so a
  document without an assignment is visible to nobody, and `VisibleIffAssigned` says so.
  documents/tests.py:390-392 (`test_document_without_restrictions_is_visible`) asserts the
  opposite, signatures/tests.py:41-43 expects 201 for the signature of a document nobody is
  assigned to, and docs/PLAN.md:151 restricts visibility only where there are inclusion
  rules. The models follow the code.
- *Everybody is told.* If the assignments of a document end, or its flags move, after
  `create_notifications_for_document` asked whether there are any
  (notifications/services.py:40-41) and before `get_required_users` asks again
  (documents/services.py:90-91), the latter returns all active users, and they are all
  notified, contrary to the docstring at notifications/services.py:37-38 ("all active users
  assigned to the current document version"). `UndisturbedToldCanSee` says that nothing else
  leads there.

## 6. Not modelled

- *Graph client*: HTTP transport and token caching. Its failures are the failed
  listings and downloads of the models.
- *At most 200 attachments*: only the first page of a folder is read; the models list
  folders whole.
- *Document API, serializers, templates*: read-only apart from the file views, which are
  `Served` and `Streamed`. `AttachmentDetailView` and `AttachmentsOverviewView` are
  reached from no URL.
- *Devices and throttling*: they only gate a login and keep no relation to sessions.
- *Admin edits of documents, versions, sessions and users*: a whole-row save like the
  PATCH of RfidSessions, against tables that the sync owns.
- *Notifications of invalid documents*: that the sync announces a document listed as
  invalid to people who cannot see it follows from the code at once.
- *Creating users and the columns of `User` no property mentions*; `sync_users` is
  empty in the repository.
- *Text*: card numbers, labels, file names and messages are values without
  structure. That the kiosk upper-cases a card number and the API does not is a
  matter of data that the models do not see.
- `.tmp_chrome_profile/` and other stray files are not part of the program.

## 7. Plan

The safety core of convergence is proved for the sync (`OneRunRepairs`). What is left of
the same kind, in order: that an undisturbed sweep leaves the rows of the current version
in line with the folder, the core of `SweepsConverge`; and that an undisturbed run after
overlapping ones leaves every file its own, the core of the recovery in `OverlappingRuns`.

What an extension of the models would add: admin edits of versions and users as whole-row
saves; the attachments' sync as a part of DocumentSync's loop, with the etag saved before
it; devices and their activation.

## 8. Running

```
tlc -workers 2 -config sync_safety.cfg MCDocumentSync.tla
tlapm DocumentSyncProofs.tla
```

The module of each configuration is in `PROJECT.json`. The largest runs
(`sync_safety`, 5.4 million distinct states, `signing` and `sessions`, 4.5 million each) take about a
minute and a half each, the proofs a few minutes together, AttachmentsProofs the longest.
