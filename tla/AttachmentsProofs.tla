--------------------------- MODULE AttachmentsProofs ---------------------------
(***************************************************************************)
(* Theorems about Attachments, for any attachments, versions and bounds:   *)
(* whose file a row names while the sync and the sweep store, replace and  *)
(* delete files under names that the storage hands out again, how many     *)
(* rows an attachment gets, and how new the file behind a row is.          *)
(***************************************************************************)
EXTENDS Attachments, TLAPS

USE DEF remote, synced, ghost

-----------------------------------------------------------------------------
(* Types. *)

\* A job works on a version that was downloaded.
TypeInv == TypeOK /\ \A j \in Jobs : job[j].pc # "idle" => job[j].version \in downloaded

LEMMA NothingTyped ==
  Nothing \in Content /\ NoRow \in AttachmentRow /\ NoneLoaded \in Loaded /\ NoJob \in Job
BY BoundsAssumption
DEF Nothing, Content, NoRow, AttachmentRow, NoneLoaded, Loaded, NoJob, Job, Names

\* What a job loads is typed, and is what the row says.
LEMMA EntryTyped ==
  ASSUME TypeOK, NEW v, NEW d \in Dictionaries(v), NEW i \in Items
  PROVE  /\ Entry(v, i, d[i]) \in Loaded
         /\ Entry(v, i, d[i]).copy # 0 =>
              LET r == <<v, i, Entry(v, i, d[i]).copy>>
              IN  r \in Rows /\ row[r].exists /\ row[r].name = Entry(v, i, d[i]).name
<1>1. d[i] \in 0..MaxCopies
  BY DEF Dictionaries
<1>2. CASE d[i] = 0
  BY <1>2, NothingTyped DEF Entry, NoneLoaded
<1>3. CASE d[i] # 0
  <2>1. <<v, i, d[i]>> \in RowsOf(v, i)
    BY <1>3 DEF Dictionaries
  <2>2. <<v, i, d[i]>> \in Rows /\ row[<<v, i, d[i]>>].exists
    BY <2>1 DEF RowsOf
  <2>3. row[<<v, i, d[i]>>].name \in Names
    BY <2>2 DEF TypeOK, AttachmentRow
  <2>4. Entry(v, i, d[i]) = [copy |-> d[i], name |-> row[<<v, i, d[i]>>].name]
    BY <1>3 DEF Entry
  <2> QED BY <1>1, <2>2, <2>3, <2>4 DEF Loaded
<1> QED BY <1>2, <1>3

LEMMA NewNameIsName ==
  ASSUME disk[0] = Nothing \/ Unused # {}
  PROVE  NewName \in Names /\ disk[NewName] = Nothing
<1>1. CASE disk[0] = Nothing
  BY <1>1, BoundsAssumption DEF NewName, Names
<1>2. CASE disk[0] # Nothing
  <2>1. PICK n \in Unused : TRUE
    BY <1>2
  <2>2. NewName \in Unused
    BY <1>2, <2>1 DEF NewName
  <2> QED BY <2>2 DEF Unused
<1> QED BY <1>1, <1>2

LEMMA TypeInit == Init => TypeInv
<1> SUFFICES ASSUME Init PROVE TypeInv
  OBVIOUS
<1> USE BoundsAssumption, VersionsAssumption
<1>1. PICK name \in FirstNames :
        /\ row = [r \in Rows |-> IF r[1] = current /\ r[3] = 1
                                   THEN [exists |-> TRUE, etag |-> 1, name |-> name[r[2]]]
                                   ELSE NoRow]
        /\ disk = [n \in Names |-> IF \E i \in Items : name[i] = n
                                     THEN [item |-> CHOOSE i \in Items : name[i] = n, etag |-> 1]
                                     ELSE Nothing]
  BY DEF Init
<1>2. name \in [Items -> Names]
  BY DEF FirstNames
<1>3. row \in [Rows -> AttachmentRow]
  <2>1. ASSUME NEW r \in Rows
        PROVE  row[r] \in AttachmentRow
    <3>1. name[r[2]] \in Names
      BY <1>2 DEF Rows
    <3> QED BY <1>1, <3>1, NothingTyped DEF AttachmentRow
  <2> QED BY <1>1, <2>1
<1>4. disk \in [Names -> Content]
  <2>1. ASSUME NEW n \in Names
        PROVE  disk[n] \in Content
    <3>1. CASE \E i \in Items : name[i] = n
      <4>1. (CHOOSE i \in Items : name[i] = n) \in Items
        BY <3>1
      <4> QED BY <1>1, <3>1, <4>1 DEF Content
    <3>2. CASE ~\E i \in Items : name[i] = n
      BY <1>1, <3>2, NothingTyped
    <3> QED BY <3>1, <3>2
  <2> QED BY <1>1, <2>1
<1>5. \A r \in Rows : row[r].exists => r[1] \in downloaded
  BY <1>1 DEF Init, NoRow
<1>6. job \in [Jobs -> Job] /\ \A j \in Jobs : job[j] = NoJob
  BY NothingTyped DEF Init
<1>7. /\ folder \in [Items -> Nat] /\ newest \in [Items -> Nat]
      /\ current \in downloaded /\ downloaded \in SUBSET Versions /\ sweepable \in BOOLEAN
      /\ torn = {} /\ again = {} /\ overlapped = {} /\ events = 0
  BY DEF Init
<1> QED BY <1>3, <1>4, <1>5, <1>6, <1>7 DEF TypeInv, TypeOK, NoJob

\* The job that a step of j leaves behind keeps its type.
LEMMA AfterItem ==
  ASSUME TypeInv, NEW j \in Jobs, job[j].item \in Items, NextItem(j)
  PROVE  /\ job' \in [Jobs -> Job]
         /\ \A k \in Jobs \ {j} : job'[k] = job[k]
         /\ \/ job'[j] = NoJob
            \/ /\ job'[j].pc = "items" /\ job'[j].item = NoItem
               /\ job'[j].version = job[j].version /\ job'[j].left = job[j].left
               /\ job'[j].listing = job[j].listing
               /\ \A i \in Items : job'[j].known[i] =
                     IF i = job[j].item THEN NoneLoaded ELSE job[j].known[i]
<1> DEFINE rest == [job[j] EXCEPT !.pc = "items", !.item = NoItem, !.content = Nothing,
                                  !.name = 0, !.known[job[j].item] = NoneLoaded]
<1>1. job[j] \in Job /\ job \in [Jobs -> Job]
  BY DEF TypeInv, TypeOK
<1>2. rest.known \in [Items -> Loaded]
  <2>1. job[j].known \in [Items -> Loaded]
    BY <1>1 DEF Job
  <2>2. rest.known = [job[j].known EXCEPT ![job[j].item] = NoneLoaded]
    BY <1>1 DEF Job
  <2> QED BY <2>1, <2>2, NothingTyped
<1>3. rest \in Job /\ rest.pc = "items" /\ rest.item = NoItem /\ rest.version = job[j].version
      /\ rest.left = job[j].left /\ rest.listing = job[j].listing
      /\ \A i \in Items : rest.known[i] = IF i = job[j].item THEN NoneLoaded ELSE job[j].known[i]
  <2>1. 0 \in Names
    BY BoundsAssumption DEF Names
  <2> QED BY <1>1, <1>2, <2>1, NothingTyped DEF Job
<1>4. job' = [job EXCEPT ![j] = NoJob] \/ job' = [job EXCEPT ![j] = rest]
  BY DEF NextItem
<1> HIDE DEF rest
<1>5. CASE job' = [job EXCEPT ![j] = NoJob]
  BY <1>1, <1>5, NothingTyped DEF NoJob
<1>6. CASE job' = [job EXCEPT ![j] = rest]
  BY <1>1, <1>3, <1>6
<1> QED BY <1>4, <1>5, <1>6

LEMMA TypeStep == TypeInv /\ [Next]_vars => TypeInv'
<1> SUFFICES ASSUME TypeInv, [Next]_vars
             PROVE  TypeInv'
  OBVIOUS
<1> USE BoundsAssumption, VersionsAssumption, ItemsAssumption, NothingTyped
<1>t. /\ folder \in [Items -> Nat] /\ newest \in [Items -> Nat]
      /\ row \in [Rows -> AttachmentRow] /\ disk \in [Names -> Content]
      /\ job \in [Jobs -> Job]
      /\ current \in downloaded /\ downloaded \subseteq Versions /\ sweepable \in BOOLEAN
      /\ torn \subseteq Names /\ events \in 0..MaxEvents
  BY DEF TypeInv, TypeOK
<1>1. ASSUME NEW i \in Items, Put(i) \/ Remove(i)
      PROVE  TypeInv'
  <2>1. folder' \in [Items -> Nat] /\ newest' \in [Items -> Nat] /\ events' \in 0..MaxEvents
    BY <1>1, <1>t DEF Put, Remove, Event
  <2>2. UNCHANGED <<row, disk, synced, job, ghost>>
    BY <1>1 DEF Put, Remove
  <2> QED BY <2>1, <2>2 DEF TypeInv, TypeOK
<1>2. ASSUME SetSweepable \/ \E v \in Versions : SetCurrent(v)
      PROVE  TypeInv'
  <2>1. current' \in downloaded /\ sweepable' \in BOOLEAN
    BY <1>2, <1>t DEF SetCurrent, SetSweepable
  <2>3. Event
    BY <1>2 DEF SetCurrent, SetSweepable
  <2>4. events' \in 0..MaxEvents
    BY <2>3, <1>t DEF Event
  <2>2. UNCHANGED <<remote, row, disk, downloaded, job, ghost>>
    BY <1>2 DEF SetCurrent, SetSweepable
  <2> QED BY <2>1, <2>2, <2>4 DEF TypeInv, TypeOK
<1>3. ASSUME NEW v \in Versions, Reconcile(v)
      PROVE  TypeInv'
  <2>1. /\ downloaded' = downloaded \cup {v} /\ again' \subseteq downloaded'
        /\ overlapped' \subseteq downloaded' /\ events' \in 0..MaxEvents
    <3>1. again \subseteq downloaded /\ overlapped \subseteq downloaded
      BY DEF TypeInv, TypeOK
    <3>2. downloaded' = downloaded \cup {v} /\ Event
      BY <1>3 DEF Reconcile
    <3>3. again' \subseteq downloaded'
      BY <1>3, <3>1, <3>2 DEF Reconcile
    <3>4. overlapped' \subseteq downloaded'
      BY <1>3, <3>1, <3>2 DEF Reconcile
    <3>5. events' \in 0..MaxEvents
      BY <1>t, <3>2 DEF Event
    <3> QED BY <3>2, <3>3, <3>4, <3>5
  <2>2. \/ UNCHANGED job
        \/ \E J \in Job : /\ job' = [job EXCEPT !["sync"] = J]
                          /\ J.pc = "items" /\ J.version = v /\ J.item = NoItem
    <3>1. CASE UNCHANGED job
      BY <3>1
    <3>2. CASE ~UNCHANGED job
      <4>1. PICK d \in Dictionaries(Previous(v)) :
              job' = [job EXCEPT !["sync"] =
                [NoJob EXCEPT
                   !.pc = "items", !.version = v, !.listing = folder, !.left = Present,
                   !.known = [i \in Items |->
                      IF Unchanged(Previous(v), i, d[i]) THEN Entry(Previous(v), i, d[i])
                                                         ELSE NoneLoaded]]]
        BY <1>3, <3>2 DEF Reconcile
      <4> DEFINE K == [i \in Items |->
                      IF Unchanged(Previous(v), i, d[i]) THEN Entry(Previous(v), i, d[i])
                                                         ELSE NoneLoaded]
                 J == [NoJob EXCEPT !.pc = "items", !.version = v, !.listing = folder,
                                    !.left = Present, !.known = K]
      <4>2. K \in [Items -> Loaded]
        BY EntryTyped DEF TypeInv
      <4>3. J \in Job /\ J.pc = "items" /\ J.version = v /\ J.item = NoItem
        BY <1>t, <4>2 DEF Job, NoJob, Present
      <4> QED BY <4>1, <4>3
    <3> QED BY <3>1, <3>2
  <2>3. UNCHANGED <<remote, row, disk, current, sweepable, torn>>
    BY <1>3 DEF Reconcile
  <2>4. /\ job' \in [Jobs -> Job]
        /\ \A j \in Jobs : job'[j] = job[j] \/ (job'[j].pc = "items" /\ job'[j].version = v
                                                  /\ job'[j].item = NoItem)
    BY <1>t, <2>2 DEF Jobs
  <2> QED BY <1>t, <2>1, <2>3, <2>4 DEF TypeInv, TypeOK
<1>4. CASE Sweep
  <2>1. PICK d \in Dictionaries(current) : \E todo \in SUBSET Items, stale \in SUBSET Items :
          job' = [job EXCEPT !["sweep"] =
                [NoJob EXCEPT
                   !.pc = "items", !.version = current, !.listing = folder,
                   !.left = stale \cap Present,
                   !.known = [i \in Items |->
                      IF i \in todo THEN Entry(current, i, d[i]) ELSE NoneLoaded]]]
    BY <1>4 DEF Sweep
  <2>2. PICK todo \in SUBSET Items, stale \in SUBSET Items :
          job' = [job EXCEPT !["sweep"] =
                [NoJob EXCEPT
                   !.pc = "items", !.version = current, !.listing = folder,
                   !.left = stale \cap Present,
                   !.known = [i \in Items |->
                      IF i \in todo THEN Entry(current, i, d[i]) ELSE NoneLoaded]]]
    BY <2>1
  <2> DEFINE K == [i \in Items |-> IF i \in todo THEN Entry(current, i, d[i]) ELSE NoneLoaded]
             J == [NoJob EXCEPT !.pc = "items", !.version = current, !.listing = folder,
                                !.left = stale \cap Present, !.known = K]
  <2>3. K \in [Items -> Loaded]
    BY EntryTyped DEF TypeInv
  <2>4. J \in Job /\ J.pc = "items" /\ J.version = current /\ J.item = NoItem
    BY <1>t, <2>3 DEF Job, NoJob, Present
  <2>5. /\ job' \in [Jobs -> Job]
        /\ \A j \in Jobs : job'[j] = job[j] \/ (job'[j].pc = "items" /\ job'[j].version = current
                                                  /\ job'[j].item = NoItem)
    BY <1>t, <2>2, <2>4 DEF Jobs
  <2>6. /\ UNCHANGED <<remote, row, disk, synced, torn, again, events>>
        /\ overlapped' \subseteq downloaded
    <3>1. job["sync"].pc # "idle" => job["sync"].version \in downloaded
      BY DEF TypeInv, Jobs
    <3> QED BY <1>4, <3>1 DEF Sweep, TypeInv, TypeOK
  <2> QED BY <1>t, <2>5, <2>6 DEF TypeInv, TypeOK
<1>5. ASSUME NEW j \in Jobs, NEW i \in Items, Download(j, i)
      PROVE  TypeInv'
  <2> DEFINE J == [job[j] EXCEPT !.pc = "store", !.left = @ \ {i}, !.item = i,
                                 !.content = [item |-> i, etag |-> folder[i]]]
  <2>1. job' = [job EXCEPT ![j] = J] /\ job[j].pc = "items"
    BY <1>t, <1>5 DEF Download
  <2>2. J \in Job /\ J.pc = "store" /\ J.item = i /\ J.version = job[j].version
    BY <1>t DEF Job, Content
  <2>3. disk' \in [Names -> Content]
    BY <1>t, <1>5 DEF Download
  <2>4. UNCHANGED <<remote, row, synced, ghost, events>>
    BY <1>5 DEF Download
  <2> QED BY <1>t, <2>1, <2>2, <2>3, <2>4 DEF TypeInv, TypeOK
<1>6. ASSUME NEW i \in Items, Copy(i)
      PROVE  TypeInv'
  <2> DEFINE C == disk[job["sync"].known[i].name]
             J == [job["sync"] EXCEPT !.pc = "store", !.left = @ \ {i}, !.item = i, !.content = C]
  <2>1. job' = [job EXCEPT !["sync"] = J] /\ job["sync"].pc = "items"
    BY <1>t, <1>6 DEF Copy, Jobs
  <2>2. job["sync"] \in Job
    BY <1>t DEF Jobs
  <2>3. C \in Content
    BY <1>t, <2>2 DEF Job, Loaded
  <2>4. J \in Job /\ J.pc = "store" /\ J.item = i /\ J.version = job["sync"].version
    BY <2>2, <2>3 DEF Job
  <2>5. UNCHANGED <<remote, row, disk, synced, ghost, events>>
    BY <1>6 DEF Copy
  <2>6. /\ job' \in [Jobs -> Job]
        /\ \A j \in Jobs : job'[j] = job[j] \/ (job'[j].pc = "store" /\ job'[j].item = i
                                               /\ job'[j].version = job["sync"].version)
    BY <1>t, <2>1, <2>4 DEF Jobs
  <2> QED BY <1>t, <2>1, <2>5, <2>6 DEF TypeInv, TypeOK, Jobs
<1>7. ASSUME NEW j \in Jobs, Store(j)
      PROVE  TypeInv'
  <2> DEFINE J == [job[j] EXCEPT !.pc = "record", !.name = NewName]
  <2>1. job' = [job EXCEPT ![j] = J] /\ job[j].pc = "store"
    BY <1>t, <1>7 DEF Store
  <2>2. job[j] \in Job /\ NewName \in Names
    BY <1>t, <1>7, NewNameIsName DEF Store
  <2>3. J \in Job /\ J.pc = "record" /\ J.item = job[j].item /\ J.version = job[j].version
    BY <2>2 DEF Job
  <2>4. disk' \in [Names -> Content]
    BY <1>t, <1>7, <2>2 DEF Store, Job
  <2>5. UNCHANGED <<remote, row, synced, ghost, events>>
    BY <1>7 DEF Store
  <2> QED BY <1>t, <2>1, <2>3, <2>4, <2>5 DEF TypeInv, TypeOK
<1>8. ASSUME NEW j \in Jobs, Record(j)
      PROVE  TypeInv'
  <2>1. job[j] \in Job /\ job[j].item \in Items /\ job[j].version \in downloaded
    BY <1>t, <1>8 DEF Record, TypeInv, TypeOK, Job
  <2>2. PICK c \in Targets(j) :
          row' = [row EXCEPT ![<<job[j].version, job[j].item, c>>] =
            [exists |-> TRUE, etag |-> job[j].listing[job[j].item], name |-> job[j].name]]
    BY <1>8 DEF Record
  <2>3. [exists |-> TRUE, etag |-> job[j].listing[job[j].item], name |-> job[j].name]
          \in AttachmentRow
    BY <2>1 DEF Job, AttachmentRow
  <2>4. row' \in [Rows -> AttachmentRow]
    BY <1>t, <2>2, <2>3
  <2>5. \A r \in Rows : row'[r].exists => r[1] \in downloaded
    BY <1>t, <2>1, <2>2 DEF TypeInv, TypeOK
  <2>6. /\ job' \in [Jobs -> Job]
        /\ \A k \in Jobs \ {j} : job'[k] = job[k]
        /\ \/ job'[j] = NoJob
           \/ /\ job'[j].pc = "items" /\ job'[j].item = NoItem
              /\ job'[j].version = job[j].version
    BY <1>8, <2>1, AfterItem DEF Record
  <2>7. UNCHANGED <<remote, disk, synced, ghost, events>>
    BY <1>8 DEF Record
  <2> QED BY <1>t, <2>1, <2>4, <2>5, <2>6, <2>7 DEF TypeInv, TypeOK, NoJob
<1>9. ASSUME NEW i \in Items, DropFile(i)
      PROVE  TypeInv'
  <2> DEFINE J == [job["sweep"] EXCEPT !.pc = "drop", !.item = i]
  <2>1. job' = [job EXCEPT !["sweep"] = J] /\ job["sweep"].pc = "items"
    BY <1>t, <1>9 DEF DropFile, Jobs
  <2>2. job["sweep"] \in Job
    BY <1>t DEF Jobs
  <2>3. J \in Job /\ J.pc = "drop" /\ J.item = i /\ J.version = job["sweep"].version
    BY <2>2 DEF Job
  <2>4. disk' \in [Names -> Content]
    BY <1>t, <1>9 DEF DropFile
  <2>5. UNCHANGED <<remote, row, synced, ghost, events>>
    BY <1>9 DEF DropFile
  <2>6. /\ job' \in [Jobs -> Job]
        /\ \A j \in Jobs : job'[j] = job[j] \/ (job'[j].pc = "drop" /\ job'[j].item = i
                                               /\ job'[j].version = job["sweep"].version)
    BY <1>t, <2>1, <2>3 DEF Jobs
  <2> QED BY <1>t, <2>1, <2>4, <2>5, <2>6 DEF TypeInv, TypeOK, Jobs
<1>10. CASE DropRow
  <2>1. "sweep" \in Jobs /\ job["sweep"].item \in Items /\ job["sweep"].version \in downloaded
    BY <1>t, <1>10 DEF DropRow, TypeInv, TypeOK, Job, Jobs
  <2>2. /\ job' \in [Jobs -> Job]
        /\ \A k \in Jobs \ {"sweep"} : job'[k] = job[k]
        /\ \/ job'["sweep"] = NoJob
           \/ /\ job'["sweep"].pc = "items" /\ job'["sweep"].item = NoItem
              /\ job'["sweep"].version = job["sweep"].version
    BY <1>10, <2>1, AfterItem DEF DropRow
  <2>3. PICK gone : row' = [row EXCEPT ![gone] = NoRow]
    BY <1>10 DEF DropRow
  <2>4. row' \in [Rows -> AttachmentRow] /\ \A r \in Rows : row'[r].exists => r[1] \in downloaded
    BY <1>t, <2>3 DEF TypeInv, TypeOK, NoRow
  <2>5. UNCHANGED <<remote, disk, synced, ghost, events>>
    BY <1>10 DEF DropRow
  <2> QED BY <1>t, <2>1, <2>2, <2>4, <2>5 DEF TypeInv, TypeOK, NoJob
<1>11. ASSUME NEW j \in Jobs, Abandon(j), events' \in 0..MaxEvents
       PROVE  TypeInv'
  <2>1. InHand \subseteq Names
    <3>1. job["sweep"] \in Job
      BY <1>t DEF Jobs
    <3>2. job["sweep"].pc \in {"store", "record", "drop"} => job["sweep"].item \in Items
      BY <3>1 DEF TypeInv, TypeOK, Jobs, Job
    <3>3. \A i \in Items : job["sweep"].known[i].name \in Names
      BY <3>1 DEF Job, Loaded
    <3> QED BY <3>2, <3>3 DEF InHand
  <2>2. torn' \subseteq Names /\ job' = [job EXCEPT ![j] = NoJob]
    BY <1>t, <1>11, <2>1 DEF Abandon
  <2>3. UNCHANGED <<remote, row, disk, synced, again, overlapped>>
    BY <1>11 DEF Abandon
  <2> QED BY <1>t, <1>11, <2>2, <2>3 DEF TypeInv, TypeOK, NoJob
<1>12. ASSUME NEW j \in Jobs, NEW i \in Items, GivesUp(j, i)
       PROVE  TypeInv'
  BY <1>t, <1>11, <1>12 DEF GivesUp
<1>13. ASSUME NEW j \in Jobs, Interrupted(j)
       PROVE  TypeInv'
  BY <1>t, <1>11, <1>13 DEF Interrupted, Event
<1>14. CASE UNCHANGED vars
  BY <1>14 DEF vars, TypeInv, TypeOK
<1> QED BY <1>1, <1>2, <1>3, <1>4, <1>5, <1>6, <1>7, <1>8, <1>9, <1>10, <1>12, <1>13, <1>14
        DEF Next, Work

\* Every reachable state has well-typed tables and jobs: rows belong to downloaded
\* versions, an idle job holds nothing, and an attachment is in hand exactly between the
\* statements that store, record or drop it.
THEOREM AttachmentsTyped == Spec => []TypeOK
<1>1. TypeInv => TypeOK
  BY DEF TypeInv
<1> QED BY <1>1, TypeInit, TypeStep, PTL DEF Spec

-----------------------------------------------------------------------------
(* Files. A row claims its name except while the sweep has it in hand, between the      *)
(* deletion of its file and its save; a job claims the name it has stored and not yet   *)
(* recorded. Two claims share a name, or claim one without a file, only if it is torn.  *)

InHandRow ==
  LET s == job["sweep"]
  IN  IF s.pc \in {"store", "record", "drop"} /\ Known("sweep", s.item)
        THEN {<<s.version, s.item, s.known[s.item].copy>>}
        ELSE {}

Claiming  == {r \in Rows : row[r].exists /\ r \notin InHandRow}
Recording == {j \in Jobs : job[j].pc = "record"}

OwnFiles ==
  /\ \A r \in Claiming : row[r].name \notin torn =>
       /\ disk[row[r].name] # Nothing
       /\ \A q \in Claiming \ {r} : row[q].name # row[r].name
  /\ \A j \in Recording : job[j].name \notin torn =>
       /\ disk[job[j].name] # Nothing
       /\ \A r \in Claiming : row[r].name # job[j].name
       /\ \A k \in Recording \ {j} : job[k].name # job[j].name

\* The rows the sweep has loaded are there and carry the name it has loaded.
KnownRows ==
  \A i \in Items : Known("sweep", i) =>
    LET r == <<job["sweep"].version, i, job["sweep"].known[i].copy>>
    IN  r \in Rows /\ row[r].exists /\ row[r].name = job["sweep"].known[i].name

\* What is about to be stored is a file.
ContentReal == \A j \in Jobs : job[j].pc = "store" => job[j].content # Nothing

FileInv == TypeInv /\ OwnFiles /\ KnownRows /\ ContentReal

\* A step that makes no new claim and leaves the claimed files alone.
LEMMA ClaimsKept ==
  ASSUME OwnFiles,
         \A r \in Claiming' : row'[r].name \notin torn' =>
            r \in Claiming /\ row'[r].name = row[r].name /\ disk'[row[r].name] # Nothing,
         \A j \in Recording' : job'[j].name \notin torn' =>
            j \in Recording /\ job'[j].name = job[j].name /\ disk'[job[j].name] # Nothing,
         torn \subseteq torn'
  PROVE  OwnFiles'
<1>1. ASSUME NEW r \in Claiming', row'[r].name \notin torn'
      PROVE  /\ disk'[row'[r].name] # Nothing
             /\ \A q \in Claiming' \ {r} : row'[q].name # row'[r].name
  BY <1>1 DEF OwnFiles
<1>2. ASSUME NEW j \in Recording', job'[j].name \notin torn'
      PROVE  /\ disk'[job'[j].name] # Nothing
             /\ \A r \in Claiming' : row'[r].name # job'[j].name
             /\ \A k \in Recording' \ {j} : job'[k].name # job'[j].name
  BY <1>2 DEF OwnFiles
<1>3. Nothing' = Nothing
  BY DEF Nothing
<1> QED BY <1>1, <1>2, <1>3 DEF OwnFiles

\* The same if the sweep's row in hand stays the same and no row changes.
LEMMA NoClaimChanges ==
  ASSUME FileInv, UNCHANGED <<row, disk, torn>>, job'["sweep"] = job["sweep"],
         job'["sync"].pc # "record" \/ job'["sync"] = job["sync"]
  PROVE  OwnFiles' /\ KnownRows'
<1>1. InHandRow' = InHandRow
  BY DEF InHandRow, Known
<1>2. Claiming' = Claiming
  BY <1>1 DEF Claiming
<1>3. \A j \in Recording' : j \in Recording /\ job'[j].name = job[j].name
  BY DEF Recording, Jobs
<1>4. OwnFiles'
  BY <1>2, <1>3, ClaimsKept DEF FileInv, OwnFiles
<1>5. KnownRows'
  BY DEF FileInv, KnownRows, Known
<1> QED BY <1>4, <1>5

\* The sweep deletes the file of a row it has loaded, and takes the row in hand.
LEMMA Emptied ==
  ASSUME FileInv, NEW i \in Items, Known("sweep", i), job["sweep"].pc = "items",
         UNCHANGED <<row, torn>>, job'["sync"] = job["sync"],
         job'["sweep"].pc \in {"store", "drop"}, job'["sweep"].item = i,
         job'["sweep"].version = job["sweep"].version,
         job'["sweep"].known = job["sweep"].known,
         disk' = [disk EXCEPT ![job["sweep"].known[i].name] = Nothing]
  PROVE  OwnFiles' /\ KnownRows'
<1> DEFINE t == <<job["sweep"].version, i, job["sweep"].known[i].copy>>
<1>1. t \in Rows /\ row[t].exists /\ row[t].name = job["sweep"].known[i].name
  BY DEF FileInv, KnownRows
<1>2. InHandRow = {} /\ InHandRow' = {t}
  BY DEF InHandRow, Known
<1> HIDE DEF t
<1>3. t \in Claiming /\ Claiming' = Claiming \ {t}
  BY <1>1, <1>2 DEF Claiming
<1>4. \A j \in Recording' : j \in Recording /\ job'[j] = job[j]
  BY DEF Recording, Jobs
<1>5. disk \in [Names -> Content] /\ \A r \in Rows : row[r].name \in Names
  BY DEF FileInv, TypeInv, TypeOK, AttachmentRow
<1>6. \A n : n # row[t].name /\ disk[n] # Nothing => disk'[n] # Nothing \/ n \notin Names
  BY <1>1, <1>5
<1>7. ASSUME NEW r \in Claiming', row'[r].name \notin torn'
      PROVE  r \in Claiming /\ row'[r].name = row[r].name /\ disk'[row[r].name] # Nothing
  <2>1. r \in Claiming /\ r # t /\ row[r].name \notin torn /\ r \in Rows
    BY <1>3, <1>7 DEF Claiming
  <2>2. row[t].name # row[r].name /\ disk[row[r].name] # Nothing
    BY <1>3, <2>1 DEF FileInv, OwnFiles
  <2> QED BY <1>5, <1>6, <2>1, <2>2
<1>8. ASSUME NEW j \in Recording', job'[j].name \notin torn'
      PROVE  j \in Recording /\ job'[j].name = job[j].name /\ disk'[job[j].name] # Nothing
  <2>1. j \in Recording /\ job'[j] = job[j] /\ job[j].name \notin torn
    BY <1>4, <1>8
  <2>2. row[t].name # job[j].name /\ disk[job[j].name] # Nothing
    BY <1>3, <2>1 DEF FileInv, OwnFiles
  <2>3. job[j].name \in Names
    BY <2>1 DEF FileInv, TypeInv, TypeOK, Job, Recording
  <2> QED BY <1>6, <2>1, <2>2, <2>3
<1>9. OwnFiles'
  BY <1>7, <1>8, ClaimsKept DEF FileInv
<1>10. KnownRows'
  BY DEF FileInv, KnownRows, Known, Rows
<1> QED BY <1>9, <1>10

LEMMA FileInit == Init => FileInv
<1> SUFFICES ASSUME Init PROVE FileInv
  OBVIOUS
<1> USE BoundsAssumption, VersionsAssumption, ItemsAssumption
<1>1. PICK name \in FirstNames :
        /\ row = [r \in Rows |-> IF r[1] = current /\ r[3] = 1
                                   THEN [exists |-> TRUE, etag |-> 1, name |-> name[r[2]]]
                                   ELSE NoRow]
        /\ disk = [n \in Names |-> IF \E i \in Items : name[i] = n
                                     THEN [item |-> CHOOSE i \in Items : name[i] = n, etag |-> 1]
                                     ELSE Nothing]
  BY DEF Init
<1>2. name \in [Items -> Names] /\ \A i, k \in Items : name[i] = name[k] => i = k
  BY DEF FirstNames
<1>3. \A j \in Jobs : job[j] = NoJob
  BY DEF Init
<1>4. Recording = {} /\ ContentReal /\ InHandRow = {} /\ KnownRows
  BY <1>3 DEF Recording, ContentReal, InHandRow, KnownRows, Known, NoJob, NoneLoaded, Jobs
<1>5. ASSUME NEW r \in Rows, row[r].exists
      PROVE  /\ r = <<current, r[2], 1>> /\ r[2] \in Items
             /\ row[r].name = name[r[2]] /\ disk[row[r].name] # Nothing
  <2>1. row[r].name = name[r[2]] /\ r = <<current, r[2], 1>> /\ r[2] \in Items
    BY <1>1, <1>5 DEF NoRow, Rows
  <2>2. (CHOOSE i \in Items : name[i] = name[r[2]]) \in Items
    BY <2>1
  <2>3. disk[name[r[2]]] # Nothing
    BY <1>1, <1>2, <2>1, <2>2 DEF Nothing
  <2> QED BY <2>1, <2>3
<1>6. OwnFiles
  BY <1>2, <1>4, <1>5 DEF OwnFiles, Claiming
<1> QED BY <1>4, <1>6, TypeInit DEF FileInv

LEMMA FileStep == FileInv /\ [Next]_vars => FileInv'
<1> SUFFICES ASSUME FileInv, [Next]_vars
             PROVE  FileInv'
  OBVIOUS
<1> USE BoundsAssumption, VersionsAssumption, ItemsAssumption
<1>t. TypeInv'
  BY TypeStep DEF FileInv
<1>u. /\ row \in [Rows -> AttachmentRow] /\ disk \in [Names -> Content]
      /\ job \in [Jobs -> Job]
  BY DEF FileInv, TypeInv, TypeOK
<1>v. \A r \in Rows : row[r].name \in Names
  BY <1>u DEF AttachmentRow
<1>c. OwnFiles /\ KnownRows /\ ContentReal
  BY DEF FileInv
<1>1. ASSUME UNCHANGED <<row, disk, torn, job>>
      PROVE  FileInv'
  BY <1>1, <1>t, <1>c, NoClaimChanges DEF FileInv, ContentReal, Nothing
<1>2. ASSUME NEW v \in Versions, Reconcile(v)
      PROVE  FileInv'
  <2>1. UNCHANGED <<row, disk, torn>>
    BY <1>2 DEF Reconcile
  <2>2. job'["sweep"] = job["sweep"] /\ (job'["sync"] = job["sync"] \/ job'["sync"].pc = "items")
    <3>1. CASE job' = job
      BY <1>2, <3>1 DEF Reconcile
    <3>2. CASE job' # job
      BY <1>2, <1>u, <3>2 DEF Reconcile, NoJob, Jobs
    <3> QED BY <3>1, <3>2
  <2>3. ContentReal'
    BY <1>c, <2>2 DEF ContentReal, Jobs, Nothing
  <2> QED BY <1>t, <2>1, <2>2, <2>3, NoClaimChanges DEF FileInv
<1>3. CASE Sweep
  <2>1. PICK d \in Dictionaries(current) : \E todo \in SUBSET Items, stale \in SUBSET Items :
          job' = [job EXCEPT !["sweep"] =
                [NoJob EXCEPT
                   !.pc = "items", !.version = current, !.listing = folder,
                   !.left = stale \cap Present,
                   !.known = [i \in Items |->
                      IF i \in todo THEN Entry(current, i, d[i]) ELSE NoneLoaded]]]
    BY <1>3 DEF Sweep
  <2>2. PICK todo \in SUBSET Items, stale \in SUBSET Items :
          job' = [job EXCEPT !["sweep"] =
                [NoJob EXCEPT
                   !.pc = "items", !.version = current, !.listing = folder,
                   !.left = stale \cap Present,
                   !.known = [i \in Items |->
                      IF i \in todo THEN Entry(current, i, d[i]) ELSE NoneLoaded]]]
    BY <2>1
  <2>3. /\ job'["sync"] = job["sync"] /\ job'["sweep"].pc = "items"
        /\ job'["sweep"].version = current
        /\ \A i \in Items : job'["sweep"].known[i] =
                              IF i \in todo THEN Entry(current, i, d[i]) ELSE NoneLoaded
    BY <1>u, <2>2 DEF Jobs, NoJob
  <2>4. UNCHANGED <<row, disk, torn>> /\ job["sweep"].pc = "idle"
    BY <1>3 DEF Sweep
  <2>5. Claiming' = Claiming /\ \A j \in Recording' : j \in Recording /\ job'[j] = job[j]
    BY <2>3, <2>4 DEF Claiming, InHandRow, Recording, Jobs
  <2>6. OwnFiles'
    BY <1>c, <2>4, <2>5, ClaimsKept DEF OwnFiles
  <2>7. KnownRows'
    <3>1. ASSUME NEW i \in Items, job'["sweep"].known[i].copy # 0
          PROVE  LET r == <<current, i, job'["sweep"].known[i].copy>>
                 IN  r \in Rows /\ row[r].exists /\ row[r].name = job'["sweep"].known[i].name
      <4>1. job'["sweep"].known[i] = Entry(current, i, d[i])
        BY <2>3, <3>1 DEF NoneLoaded
      <4> QED BY <3>1, <4>1, EntryTyped DEF FileInv, TypeInv
    <3> QED BY <2>3, <2>4, <3>1 DEF KnownRows, Known, Rows
  <2>8. ContentReal'
    BY <1>c, <2>3 DEF ContentReal, Jobs, Nothing
  <2> QED BY <1>t, <2>6, <2>7, <2>8 DEF FileInv
<1>4. ASSUME NEW j \in Jobs, NEW i \in Items, Download(j, i)
      PROVE  FileInv'
  <2>1. /\ UNCHANGED <<row, torn>> /\ job[j].pc = "items" /\ (j = "sync" => ~Known(j, i))
        /\ disk' = IF Known(j, i) THEN [disk EXCEPT ![job[j].known[i].name] = Nothing] ELSE disk
    BY <1>4 DEF Download
  <2>2. job[j] \in Job
    BY <1>u
  <2>3. /\ job'[j].pc = "store" /\ job'[j].item = i /\ job'[j].version = job[j].version
        /\ job'[j].known = job[j].known /\ job'[j].content = [item |-> i, etag |-> folder[i]]
        /\ \A k \in Jobs \ {j} : job'[k] = job[k]
    BY <1>4, <1>u, <2>2 DEF Download, Job
  <2>4. ContentReal'
    <3>1. job'[j].content # Nothing
      BY <2>3 DEF Nothing
    <3> QED BY <1>c, <2>3, <3>1 DEF ContentReal, Nothing
  <2>5. CASE Known(j, i)
    <3>1. j = "sweep"
      BY <2>1, <2>5 DEF Jobs
    <3>2. OwnFiles' /\ KnownRows'
      BY <2>1, <2>3, <2>5, <3>1, Emptied DEF Jobs
    <3> QED BY <1>t, <2>4, <3>2 DEF FileInv
  <2>6. CASE ~Known(j, i)
    <3>1. InHandRow' = InHandRow
      BY <2>1, <2>3, <2>6 DEF InHandRow, Known, Jobs
    <3>2. Claiming' = Claiming /\ \A k \in Recording' : k \in Recording /\ job'[k] = job[k]
      BY <2>1, <2>3, <3>1 DEF Claiming, Recording
    <3>3. OwnFiles'
      BY <1>c, <2>1, <2>6, <3>2, ClaimsKept DEF OwnFiles
    <3>4. KnownRows'
      BY <1>c, <2>1, <2>3 DEF KnownRows, Known, Jobs, Rows
    <3> QED BY <1>t, <2>4, <3>3, <3>4 DEF FileInv
  <2> QED BY <2>5, <2>6
<1>5. ASSUME NEW i \in Items, Copy(i)
      PROVE  FileInv'
  <2>1. /\ UNCHANGED <<row, disk, torn>>
        /\ disk[job["sync"].known[i].name] # Nothing
    BY <1>5 DEF Copy
  <2>2. /\ job'["sync"].pc = "store" /\ job'["sweep"] = job["sweep"]
        /\ job'["sync"].content = disk[job["sync"].known[i].name]
    <3>1. job["sync"] \in Job
      BY <1>u DEF Jobs
    <3> QED BY <1>5, <1>u, <3>1 DEF Copy, Job, Jobs
  <2>3. ContentReal'
    BY <1>c, <2>1, <2>2 DEF ContentReal, Nothing, Jobs
  <2> QED BY <1>t, <2>1, <2>2, <2>3, NoClaimChanges DEF FileInv
<1>6. ASSUME NEW j \in Jobs, Store(j)
      PROVE  FileInv'
  <2>1. /\ UNCHANGED <<row, torn>> /\ job[j].pc = "store"
        /\ disk' = [disk EXCEPT ![NewName] = job[j].content]
    BY <1>6 DEF Store
  <2>2. NewName \in Names /\ disk[NewName] = Nothing /\ job[j].content # Nothing
    BY <1>6, <1>c, NewNameIsName DEF Store, ContentReal
  <2>3. /\ job'[j].pc = "record" /\ job'[j].name = NewName /\ job'[j].item = job[j].item
        /\ job'[j].version = job[j].version /\ job'[j].known = job[j].known
        /\ \A k \in Jobs \ {j} : job'[k] = job[k]
    <3>1. job[j] \in Job
      BY <1>u
    <3> QED BY <1>6, <1>u, <3>1 DEF Store, Job
  <2>4. InHandRow' = InHandRow
    BY <2>1, <2>3 DEF InHandRow, Known, Jobs
  <2>5. Claiming' = Claiming /\ Recording' = Recording \cup {j} /\ j \notin Recording
    BY <2>1, <2>3, <2>4 DEF Claiming, Recording
  <2>6. /\ disk'[NewName] # Nothing
        /\ \A n \in Names : disk[n] # Nothing => disk'[n] # Nothing /\ n # NewName
    BY <1>u, <2>1, <2>2
  <2>7. ASSUME NEW r \in Claiming, row[r].name \notin torn
        PROVE  /\ disk'[row[r].name] # Nothing /\ row[r].name # NewName
               /\ \A q \in Claiming \ {r} : row[q].name # row[r].name
    BY <1>c, <1>v, <2>6, <2>7 DEF OwnFiles, Claiming
  <2>8. ASSUME NEW k \in Recording, job[k].name \notin torn
        PROVE  /\ disk'[job[k].name] # Nothing /\ job[k].name # NewName
               /\ \A r \in Claiming : row[r].name # job[k].name
               /\ \A l \in Recording \ {k} : job[l].name # job[k].name
    <3>1. job[k].name \in Names
      BY <1>u DEF Job, Recording
    <3> QED BY <1>c, <2>6, <2>8, <3>1 DEF OwnFiles
  <2>9. \A k \in Recording : job'[k].name = job[k].name
    BY <2>3, <2>5 DEF Recording
  <2>10. Nothing' = Nothing
    BY DEF Nothing
  <2>11. OwnFiles'
    <3>1. ASSUME NEW r \in Claiming', row'[r].name \notin torn'
          PROVE  /\ disk'[row'[r].name] # Nothing
                 /\ \A q \in Claiming' \ {r} : row'[q].name # row'[r].name
      BY <2>1, <2>5, <2>7, <3>1
    <3>2. ASSUME NEW k \in Recording', job'[k].name \notin torn'
          PROVE  /\ disk'[job'[k].name] # Nothing
                 /\ \A r \in Claiming' : row'[r].name # job'[k].name
                 /\ \A l \in Recording' \ {k} : job'[l].name # job'[k].name
      <4>1. CASE k = j
        BY <2>1, <2>3, <2>5, <2>6, <2>7, <2>8, <2>9, <3>2, <4>1
      <4>2. CASE k # j
        BY <2>1, <2>3, <2>5, <2>8, <2>9, <3>2, <4>2
      <4> QED BY <4>1, <4>2
    <3> QED BY <2>10, <3>1, <3>2 DEF OwnFiles
  <2>12. KnownRows'
    BY <1>c, <2>1, <2>3 DEF KnownRows, Known, Jobs, Rows
  <2>13. ContentReal'
    BY <1>c, <2>3, <2>10 DEF ContentReal
  <2> QED BY <1>t, <2>11, <2>12, <2>13 DEF FileInv
<1>7. ASSUME NEW j \in Jobs, Record(j)
      PROVE  FileInv'
  <2>1. /\ UNCHANGED <<disk, torn>> /\ job[j].pc = "record" /\ NextItem(j)
        /\ job[j] \in Job /\ job[j].item \in Items /\ job[j].version \in Versions
    BY <1>7, <1>u DEF Record, FileInv, TypeInv, TypeOK, Job
  <2>2. PICK c \in Targets(j) :
          row' = [row EXCEPT ![<<job[j].version, job[j].item, c>>] =
            [exists |-> TRUE, etag |-> job[j].listing[job[j].item], name |-> job[j].name]]
    BY <1>7 DEF Record
  <2> DEFINE t == <<job[j].version, job[j].item, c>>
  <2>3. /\ t \in Rows /\ (j = "sync" => ~row[t].exists)
        /\ j = "sweep" => InHandRow = {t} \/ (InHandRow = {} /\ ~row[t].exists)
    <3>1. CASE j = "sweep" /\ Known(j, job[j].item)
      <4>1. c = job["sweep"].known[job["sweep"].item].copy
        BY <2>2, <3>1 DEF Targets
      <4>2. InHandRow = {t}
        BY <2>1, <3>1, <4>1 DEF InHandRow
      <4> QED BY <1>c, <2>1, <3>1, <4>1, <4>2 DEF KnownRows
    <3>2. CASE ~(j = "sweep" /\ Known(j, job[j].item))
      <4>1. c \in FreeCopies(job[j].version, job[j].item)
        BY <2>2, <3>2 DEF Targets
      <4>2. t \in Rows /\ ~row[t].exists
        BY <2>1, <4>1 DEF FreeCopies, Rows
      <4>3. j = "sweep" => InHandRow = {}
        BY <3>2 DEF InHandRow
      <4> QED BY <4>2, <4>3
    <3> QED BY <3>1, <3>2
  <2>4. /\ \A k \in Jobs \ {j} : job'[k] = job[k]
        /\ job'[j].pc \in {"idle", "items"}
        /\ \A i \in Items : \/ job'[j].known[i].copy = 0
                             \/ /\ i # job[j].item /\ job'[j].version = job[j].version
                                /\ job'[j].known[i] = job[j].known[i]
    BY <2>1, AfterItem DEF FileInv, NoneLoaded, NoJob
  <2>5. /\ row'[t].exists /\ row'[t].name = job[j].name
        /\ \A r \in Rows \ {t} : row'[r] = row[r]
    BY <1>u, <2>2, <2>3
  <2>6. InHandRow' = IF j = "sweep" THEN {} ELSE InHandRow
    BY <2>4 DEF InHandRow, Known, Jobs
  <2>7. \A r \in InHandRow : r \in Rows /\ row[r].exists
    BY <1>c DEF InHandRow, KnownRows, FileInv, TypeInv, TypeOK, Job, Known, Jobs
  <2> HIDE DEF t
  <2>8. Claiming' = Claiming \cup {t} /\ t \notin Claiming
    BY <2>3, <2>5, <2>6, <2>7 DEF Claiming, Rows, Jobs
  <2>9. /\ Recording' = Recording \ {j} /\ j \in Recording
        /\ \A k \in Recording' : job'[k] = job[k]
    BY <2>1, <2>4 DEF Recording
  <2>10. Nothing' = Nothing /\ torn' = torn /\ disk' = disk
    BY <2>1 DEF Nothing
  <2>11. OwnFiles'
    <3>1. \A r \in Claiming : row'[r] = row[r]
      BY <2>5, <2>8 DEF Claiming
    <3>2. ASSUME NEW r \in Claiming', row'[r].name \notin torn'
          PROVE  /\ disk'[row'[r].name] # Nothing
                 /\ \A q \in Claiming' \ {r} : row'[q].name # row'[r].name
      <4>1. CASE r = t
        BY <1>c, <2>5, <2>8, <2>9, <2>10, <3>1, <3>2, <4>1 DEF OwnFiles
      <4>2. CASE r # t
        <5>1. r \in Claiming /\ row'[r] = row[r] /\ row[r].name \notin torn
          BY <2>8, <2>10, <3>1, <3>2, <4>2
        <5>2. job[j].name # row[r].name
          BY <1>c, <2>9, <5>1 DEF OwnFiles
        <5> QED BY <1>c, <2>5, <2>8, <2>10, <3>1, <5>1, <5>2 DEF OwnFiles
      <4> QED BY <4>1, <4>2
    <3>3. ASSUME NEW k \in Recording', job'[k].name \notin torn'
          PROVE  /\ disk'[job'[k].name] # Nothing
                 /\ \A r \in Claiming' : row'[r].name # job'[k].name
                 /\ \A l \in Recording' \ {k} : job'[l].name # job'[k].name
      BY <1>c, <2>5, <2>8, <2>9, <2>10, <3>1, <3>3 DEF OwnFiles
    <3> QED BY <2>10, <3>2, <3>3 DEF OwnFiles
  <2>12. KnownRows'
    <3>1. ASSUME NEW i \in Items, job'["sweep"].known[i].copy # 0
          PROVE  LET r == <<job'["sweep"].version, i, job'["sweep"].known[i].copy>>
                 IN  r \in Rows /\ row'[r].exists /\ row'[r].name = job'["sweep"].known[i].name
      <4> DEFINE r == <<job["sweep"].version, i, job["sweep"].known[i].copy>>
      <4>1. /\ job'["sweep"].version = job["sweep"].version
            /\ job'["sweep"].known[i] = job["sweep"].known[i]
            /\ j = "sweep" => i # job[j].item
        BY <2>4, <3>1 DEF Jobs
      <4>2. r \in Rows /\ row[r].exists /\ row[r].name = job["sweep"].known[i].name
        BY <1>c, <3>1, <4>1 DEF KnownRows, Known
      <4>3. r # t
        BY <2>3, <4>1, <4>2 DEF t, Jobs
      <4> QED BY <2>5, <4>1, <4>2, <4>3
    <3> QED BY <3>1 DEF KnownRows, Known, Rows
  <2>13. ContentReal'
    BY <1>c, <2>4, <2>10 DEF ContentReal
  <2> QED BY <1>t, <2>11, <2>12, <2>13 DEF FileInv
<1>8. ASSUME NEW i \in Items, DropFile(i)
      PROVE  FileInv'
  <2>1. /\ UNCHANGED <<row, torn>> /\ job["sweep"].pc = "items" /\ Known("sweep", i)
        /\ disk' = [disk EXCEPT ![job["sweep"].known[i].name] = Nothing]
    BY <1>8 DEF DropFile
  <2>2. /\ job'["sweep"].pc = "drop" /\ job'["sweep"].item = i
        /\ job'["sweep"].version = job["sweep"].version
        /\ job'["sweep"].known = job["sweep"].known /\ job'["sync"] = job["sync"]
    <3>1. job["sweep"] \in Job
      BY <1>u DEF Jobs
    <3> QED BY <1>8, <1>u, <3>1 DEF DropFile, Job, Jobs
  <2>3. ContentReal'
    BY <1>c, <2>2 DEF ContentReal, Nothing, Jobs
  <2> QED BY <1>t, <2>1, <2>2, <2>3, Emptied DEF FileInv
<1>9. CASE DropRow
  <2>1. /\ UNCHANGED <<disk, torn>> /\ job["sweep"].pc = "drop" /\ NextItem("sweep")
        /\ "sweep" \in Jobs /\ job["sweep"].item \in Items
    BY <1>9, <1>u DEF DropRow, FileInv, TypeInv, TypeOK, Job, Jobs
  <2> DEFINE t == <<job["sweep"].version, job["sweep"].item,
                    job["sweep"].known[job["sweep"].item].copy>>
  <2>2. row' = [row EXCEPT ![t] = NoRow]
    BY <1>9 DEF DropRow
  <2>3. /\ job'["sweep"].pc \in {"idle", "items"} /\ job'["sync"] = job["sync"]
        /\ \A i \in Items : \/ job'["sweep"].known[i].copy = 0
                             \/ /\ i # job["sweep"].item
                                /\ job'["sweep"].version = job["sweep"].version
                                /\ job'["sweep"].known[i] = job["sweep"].known[i]
    BY <2>1, AfterItem DEF FileInv, Jobs, NoneLoaded, NoJob
  <2>4. /\ InHandRow' = {} /\ InHandRow = IF Known("sweep", job["sweep"].item) THEN {t} ELSE {}
    BY <2>1, <2>3 DEF InHandRow
  <2>5. t \in Rows => Known("sweep", job["sweep"].item)
    BY DEF Known, Rows
  <2>6. \A r \in Rows : row'[r] = IF r = t THEN NoRow ELSE row[r]
    BY <1>u, <2>2
  <2> HIDE DEF t
  <2>7. Claiming' = Claiming
    BY <2>4, <2>5, <2>6 DEF Claiming, NoRow, Rows
  <2>8. \A r \in Claiming : row'[r] = row[r]
    BY <2>4, <2>5, <2>6 DEF Claiming
  <2>9. \A k \in Recording' : k \in Recording /\ job'[k] = job[k]
    BY <2>3 DEF Recording, Jobs
  <2>10. OwnFiles'
    BY <1>c, <2>1, <2>7, <2>8, <2>9, ClaimsKept DEF OwnFiles
  <2>11. KnownRows'
    <3>1. ASSUME NEW i \in Items, job'["sweep"].known[i].copy # 0
          PROVE  LET r == <<job'["sweep"].version, i, job'["sweep"].known[i].copy>>
                 IN  r \in Rows /\ row'[r].exists /\ row'[r].name = job'["sweep"].known[i].name
      <4> DEFINE r == <<job["sweep"].version, i, job["sweep"].known[i].copy>>
      <4>1. /\ i # job["sweep"].item /\ job'["sweep"].version = job["sweep"].version
            /\ job'["sweep"].known[i] = job["sweep"].known[i]
        BY <2>3, <3>1
      <4>2. r \in Rows /\ row[r].exists /\ row[r].name = job["sweep"].known[i].name
        BY <1>c, <3>1, <4>1 DEF KnownRows, Known
      <4>3. r # t
        BY <4>1 DEF t
      <4> QED BY <2>6, <4>1, <4>2, <4>3
    <3> QED BY <3>1 DEF KnownRows, Known, Rows
  <2>12. ContentReal'
    BY <1>c, <2>3 DEF ContentReal, Nothing, Jobs
  <2> QED BY <1>t, <2>10, <2>11, <2>12 DEF FileInv
<1>10. ASSUME NEW j \in Jobs, Abandon(j)
      PROVE  FileInv'
  <2>1. /\ UNCHANGED <<row, disk>> /\ job'[j] = NoJob /\ \A k \in Jobs \ {j} : job'[k] = job[k]
        /\ torn' = IF j = "sweep" THEN torn \cup InHand ELSE torn
    BY <1>10, <1>u DEF Abandon
  <2>2. ContentReal'
    BY <1>c, <2>1 DEF ContentReal, NoJob, Nothing
  <2>3. KnownRows'
    BY <1>c, <2>1 DEF KnownRows, Known, NoJob, NoneLoaded, Jobs, Rows
  <2>4. ASSUME NEW r \in Claiming', row'[r].name \notin torn'
        PROVE  r \in Claiming
    <3>1. CASE j = "sync"
      BY <2>1, <2>4, <3>1 DEF Claiming, InHandRow, Known, Jobs
    <3>2. CASE j = "sweep" /\ r \in InHandRow
      <4>1. row[r].name \in InHand
        BY <1>c, <3>2 DEF InHandRow, InHand, KnownRows, FileInv, TypeInv, TypeOK, Job, Known, Jobs
      <4> QED BY <2>1, <2>4, <3>2, <4>1
    <3> QED BY <2>1, <2>4, <3>1, <3>2 DEF Claiming, Jobs
  <2>5. \A k \in Recording' : k \in Recording /\ job'[k] = job[k]
    BY <2>1 DEF Recording, NoJob
  <2>6. torn \subseteq torn'
    BY <2>1
  <2>7. OwnFiles'
    BY <1>c, <2>1, <2>4, <2>5, <2>6, ClaimsKept DEF OwnFiles
  <2> QED BY <1>t, <2>2, <2>3, <2>7 DEF FileInv
<1> QED
  BY <1>1, <1>2, <1>3, <1>4, <1>5, <1>6, <1>7, <1>8, <1>9, <1>10
  DEF Next, Work, vars, Put, Remove, SetCurrent, SetSweepable, GivesUp, Interrupted

\* Outside a replacement under way, every row has a file of its own unless an interrupted
\* replacement or removal tore its name: no sequence of downloads, copies, sweeps and
\* failures lets two rows share a file, although the storage reuses names.
THEOREM FilesBelongToOneRow == Spec => []FilesAreTheirOwn
<1>1. FileInv => FilesAreTheirOwn
  <2> SUFFICES ASSUME FileInv,
                      NEW r \in Rows, row[r].exists, row[r].name \notin torn \cup InHand
               PROVE  /\ Streamed(r) # Nothing
                      /\ \A q \in Rows \ {r} : row[q].exists => row[q].name # row[r].name
    BY DEF FilesAreTheirOwn
  <2>1. \A q \in InHandRow : row[q].name \in InHand
    BY DEF InHandRow, InHand, FileInv, KnownRows, TypeInv, TypeOK, Job, Known, Jobs
  <2>2. r \in Claiming
    BY <2>1 DEF Claiming
  <2>3. \A q \in Rows : row[q].exists => q \in Claiming \/ row[q].name \in InHand
    BY <2>1 DEF Claiming
  <2> QED BY <2>2, <2>3 DEF FileInv, OwnFiles, Streamed
<1> QED BY <1>1, FileInit, FileStep, PTL DEF Spec

\* The rows and the files of the versions the sweep is not working on stay as they are.
THEOREM HistoryStays == Spec => SnapshotsStay
<1> DEFINE Stays == \A r \in Rows :
                      row[r].exists /\ r[1] # job["sweep"].version =>
                        /\ row'[r] = row[r]
                        /\ row[r].name \notin torn => disk'[row[r].name] = disk[row[r].name]
<1>1. FileInv /\ [Next]_vars => [Stays]_vars
  <2> SUFFICES ASSUME FileInv, Next, NEW r \in Rows, row[r].exists,
                      r[1] # job["sweep"].version
               PROVE  /\ row'[r] = row[r]
                      /\ row[r].name \notin torn => disk'[row[r].name] = disk[row[r].name]
    OBVIOUS
  <2> USE BoundsAssumption, VersionsAssumption, ItemsAssumption
  <2>u. /\ row \in [Rows -> AttachmentRow] /\ disk \in [Names -> Content] /\ job \in [Jobs -> Job]
        /\ OwnFiles /\ KnownRows /\ row[r].name \in Names
    BY DEF FileInv, TypeInv, TypeOK, AttachmentRow
  <2>v. r \in Claiming
    BY DEF Claiming, InHandRow
  <2> DEFINE Kept == /\ row'[r] = row[r]
                     /\ row[r].name \notin torn => disk'[row[r].name] = disk[row[r].name]
  <2>1. ASSUME UNCHANGED <<row, disk>>
        PROVE  row'[r] = row[r] /\ disk'[row[r].name] = disk[row[r].name]
    BY <2>1
  <2>2. ASSUME NEW i \in Items, Known("sweep", i), UNCHANGED row, job["sweep"].pc = "items",
               disk' = [disk EXCEPT ![job["sweep"].known[i].name] = Nothing]
        PROVE  Kept
    <3> DEFINE t == <<job["sweep"].version, i, job["sweep"].known[i].copy>>
    <3>1. t \in Rows /\ row[t].exists /\ row[t].name = job["sweep"].known[i].name /\ t # r
      BY <2>u, <2>2 DEF KnownRows
    <3>2. t \in Claiming
      BY <2>2, <3>1 DEF Claiming, InHandRow
    <3>3. row[r].name \notin torn => row[t].name # row[r].name
      BY <2>u, <2>v, <3>1, <3>2 DEF OwnFiles
    <3> QED BY <2>u, <2>2, <3>1, <3>3
  <2>3. ASSUME NEW j \in Jobs, NEW i \in Items, Download(j, i)
        PROVE  Kept
    <3>1. CASE Known(j, i)
      <4>1. j = "sweep"
        BY <2>3, <3>1 DEF Download, Jobs
      <4> QED BY <2>2, <2>3, <3>1, <4>1 DEF Download
    <3>2. CASE ~Known(j, i)
      BY <2>1, <2>3, <3>2 DEF Download
    <3> QED BY <3>1, <3>2
  <2>4. ASSUME NEW i \in Items, DropFile(i)
        PROVE  Kept
    BY <2>2, <2>4 DEF DropFile
  <2>5. ASSUME NEW j \in Jobs, Store(j)
        PROVE  Kept
    <3>1. NewName \in Names /\ disk[NewName] = Nothing
      BY <2>5, NewNameIsName DEF Store
    <3>2. row[r].name \notin torn => row[r].name # NewName
      BY <2>u, <2>v, <3>1 DEF OwnFiles
    <3> QED BY <2>5, <2>u, <3>2 DEF Store
  <2>6. ASSUME NEW j \in Jobs, Record(j)
        PROVE  row'[r] = row[r] /\ disk'[row[r].name] = disk[row[r].name]
    <3>1. PICK c \in Targets(j) :
            row' = [row EXCEPT ![<<job[j].version, job[j].item, c>>] =
              [exists |-> TRUE, etag |-> job[j].listing[job[j].item], name |-> job[j].name]]
      BY <2>6 DEF Record
    <3>2. r # <<job[j].version, job[j].item, c>>
      BY <3>1 DEF Targets, FreeCopies, Jobs
    <3> QED BY <2>6, <2>u, <3>1, <3>2 DEF Record
  <2>7. CASE DropRow
    BY <2>7, <2>u DEF DropRow
  <2> QED
    BY <2>1, <2>3, <2>4, <2>5, <2>6, <2>7
    DEF Next, Work, Put, Remove, SetCurrent, SetSweepable, Reconcile, Sweep, Copy, GivesUp, Interrupted, Abandon
<1> QED BY <1>1, FileInit, FileStep, PTL DEF Spec, SnapshotsStay

-----------------------------------------------------------------------------
(* Rows. While the two jobs run at once the version of the sync is overlapped. On the    *)
(* other versions a job inserts a row only for an attachment that has none, once.        *)

Alone == job["sync"].pc # "idle" /\ job["sweep"].pc # "idle" => job["sync"].version \in overlapped

AtMostOne ==
  \A v \in Versions \ (again \cup overlapped), i \in Items : \A q, r \in RowsOf(v, i) : q = r

\* The attachments job j still has to insert a row for.
Awaited(j) ==
  {i \in Items : /\ i \in job[j].left \/ (job[j].pc \in {"store", "record"} /\ i = job[j].item)
                 /\ ~(j = "sweep" /\ Known(j, i))}

InsertsOnce ==
  \A j \in Jobs : job[j].version \notin again \cup overlapped =>
    \A i \in Awaited(j) : RowsOf(job[j].version, i) = {}

ItemOnce == \A j \in Jobs : job[j].item \notin job[j].left

RowInv == FileInv /\ Alone /\ AtMostOne /\ InsertsOnce /\ ItemOnce

\* A step that inserts no row.
LEMMA NoInsert ==
  ASSUME RowInv, \A r \in Rows : row'[r].exists => row[r].exists,
         again \subseteq again', overlapped \subseteq overlapped',
         \A j \in Jobs : \A i \in Awaited(j)' :
            i \in Awaited(j) /\ job'[j].version = job[j].version
  PROVE  AtMostOne' /\ InsertsOnce'
<1>1. \A v, i : RowsOf(v, i)' \subseteq RowsOf(v, i)
  BY DEF RowsOf, Rows
<1>2. AtMostOne'
  BY <1>1 DEF RowInv, AtMostOne
<1>3. InsertsOnce'
  BY <1>1 DEF RowInv, InsertsOnce
<1> QED BY <1>2, <1>3

\* A step of the job j at one attachment, which it may have picked from those left.
LEMMA StepOfJob ==
  ASSUME RowInv, NEW j \in Jobs, UNCHANGED ghost,
         \A r \in Rows : row'[r].exists => row[r].exists,
         \A k \in Jobs \ {j} : job'[k] = job[k],
         job[j].pc # "idle", job'[j].version = job[j].version,
         Awaited(j)' \subseteq Awaited(j), job'[j].item \notin job'[j].left
  PROVE  Alone' /\ AtMostOne' /\ InsertsOnce' /\ ItemOnce'
<1>1. \A k \in Jobs \ {j} : Awaited(k)' = Awaited(k)
  BY DEF Awaited, Known
<1>2. AtMostOne' /\ InsertsOnce'
  BY <1>1, NoInsert
<1>3. Alone' /\ ItemOnce'
  BY DEF RowInv, Alone, ItemOnce, Jobs
<1> QED BY <1>2, <1>3

LEMMA RowInit == Init => RowInv
<1> SUFFICES ASSUME Init PROVE RowInv
  OBVIOUS
<1>1. \A j \in Jobs : job[j] = NoJob
  BY DEF Init
<1>2. Alone /\ InsertsOnce /\ ItemOnce
  BY <1>1, ItemsAssumption DEF Alone, InsertsOnce, ItemOnce, Awaited, NoJob, Jobs
<1>3. AtMostOne
  <2>1. ASSUME NEW r \in Rows, row[r].exists
        PROVE  r[1] = current /\ r[3] = 1
    BY <2>1 DEF Init, NoRow
  <2> QED BY <2>1 DEF AtMostOne, RowsOf, Rows
<1> QED BY <1>2, <1>3, FileInit DEF RowInv

LEMMA RowStep == RowInv /\ [Next]_vars => RowInv'
<1> SUFFICES ASSUME RowInv, [Next]_vars
             PROVE  RowInv'
  OBVIOUS
<1> USE BoundsAssumption, VersionsAssumption, ItemsAssumption
<1>t. FileInv /\ FileInv'
  BY FileStep DEF RowInv
<1>u. /\ row \in [Rows -> AttachmentRow] /\ job \in [Jobs -> Job] /\ KnownRows
      /\ downloaded \subseteq Versions /\ current \in downloaded
      /\ \A r \in Rows : row[r].exists => r[1] \in downloaded
      /\ \A j \in Jobs : job[j].pc = "idle" => job[j] = NoJob
      /\ \A j \in Jobs : job[j].item # NoItem <=> job[j].pc \notin {"idle", "items"}
  BY <1>t DEF FileInv, TypeInv, TypeOK
<1>c. Alone /\ AtMostOne /\ InsertsOnce /\ ItemOnce
  BY DEF RowInv
<1>1. ASSUME UNCHANGED <<row, job, ghost>>
      PROVE  RowInv'
  <2>1. AtMostOne' /\ InsertsOnce'
    BY <1>1, NoInsert DEF Awaited, Known
  <2>2. Alone' /\ ItemOnce'
    BY <1>1, <1>c DEF Alone, ItemOnce
  <2> QED BY <1>t, <2>1, <2>2 DEF RowInv
<1>2. ASSUME NEW v \in Versions, Reconcile(v)
      PROVE  RowInv'
  <2>1. /\ UNCHANGED row /\ job["sync"].pc = "idle" /\ job'["sweep"] = job["sweep"]
        /\ again' = IF v \in downloaded THEN again \cup {v} ELSE again
        /\ overlapped' = IF job["sweep"].pc = "idle" THEN overlapped ELSE overlapped \cup {v}
    <3>1. CASE job' = job
      BY <1>2, <3>1 DEF Reconcile
    <3>2. CASE job' # job
      BY <1>2, <1>u, <3>2 DEF Reconcile, Jobs
    <3> QED BY <3>1, <3>2
  <2>2. \/ job'["sync"] = NoJob
        \/ job'["sync"].pc = "items" /\ job'["sync"].version = v /\ job'["sync"].item = NoItem
           /\ job'["sync"].left \subseteq Items
    <3>1. CASE job' = job
      BY <1>2, <1>u, <3>1 DEF Reconcile, Jobs
    <3>2. CASE job' # job
      <4>1. PICK d \in Dictionaries(Previous(v)) :
              job' = [job EXCEPT !["sync"] =
                [NoJob EXCEPT
                   !.pc = "items", !.version = v, !.listing = folder, !.left = Present,
                   !.known = [i \in Items |->
                      IF Unchanged(Previous(v), i, d[i]) THEN Entry(Previous(v), i, d[i])
                                                         ELSE NoneLoaded]]]
        BY <1>2, <3>2 DEF Reconcile
      <4>2. /\ job'["sync"].pc = "items" /\ job'["sync"].version = v
            /\ job'["sync"].item = NoItem /\ job'["sync"].left = Present
        BY <1>u, <4>1 DEF NoJob, Jobs
      <4> QED BY <4>2 DEF Present
    <3> QED BY <3>1, <3>2
  <2>3. Alone' /\ ItemOnce'
    BY <1>c, <2>1, <2>2 DEF Alone, ItemOnce, NoJob, Jobs
  <2>4. AtMostOne'
    BY <1>c, <2>1 DEF AtMostOne, RowsOf
  <2>5. ASSUME NEW j \in Jobs, job'[j].version \notin (again \cup overlapped)',
               NEW i \in Awaited(j)'
        PROVE  RowsOf(job[j].version, i)' = {}
    <3>1. CASE j = "sweep"
      BY <1>c, <2>1, <2>5, <3>1 DEF InsertsOnce, Awaited, Known, RowsOf
    <3>2. CASE j = "sync" /\ job'["sync"].version = v
      <4>1. v \notin downloaded
        BY <2>1, <2>5, <3>2
      <4>2. \A r \in Rows : row'[r].exists => r[1] # v
        BY <1>u, <2>1, <4>1
      <4> QED BY <3>2, <4>2 DEF RowsOf, Rows
    <3>3. CASE j = "sync" /\ job'["sync"] = NoJob
      BY <2>5, <3>3 DEF Awaited, NoJob
    <3> QED BY <2>2, <3>1, <3>2, <3>3 DEF Jobs
  <2>6. InsertsOnce'
    BY <2>5 DEF InsertsOnce
  <2> QED BY <1>t, <2>3, <2>4, <2>6 DEF RowInv
<1>3. CASE Sweep
  <2>1. PICK d \in Dictionaries(current) :
          LET stale == {i \in Items : ~Unchanged(current, i, d[i])}
              todo  == {i \in stale : folder[i] # 0 \/ d[i] # 0}
          IN  job' = [job EXCEPT !["sweep"] =
                [NoJob EXCEPT
                   !.pc = "items", !.version = current, !.listing = folder,
                   !.left = stale \cap Present,
                   !.known = [i \in Items |->
                      IF i \in todo THEN Entry(current, i, d[i]) ELSE NoneLoaded]]]
    BY <1>3 DEF Sweep
  <2> DEFINE stale == {i \in Items : ~Unchanged(current, i, d[i])}
             todo  == {i \in stale : folder[i] # 0 \/ d[i] # 0}
  <2>2. /\ job'["sync"] = job["sync"] /\ job'["sweep"].pc = "items"
        /\ job'["sweep"].version = current /\ job'["sweep"].item = NoItem
        /\ job'["sweep"].left = stale \cap Present
        /\ \A i \in Items : job'["sweep"].known[i] =
                              IF i \in todo THEN Entry(current, i, d[i]) ELSE NoneLoaded
    BY <1>u, <2>1 DEF Jobs, NoJob
  <2>3. /\ UNCHANGED <<row, again>>
        /\ overlapped' = IF job["sync"].pc = "idle" THEN overlapped
                                                   ELSE overlapped \cup {job["sync"].version}
    BY <1>3 DEF Sweep
  <2>4. ASSUME NEW i \in Awaited("sweep")'
        PROVE  RowsOf(current, i) = {}
    <3>1. i \in todo /\ i \in Items /\ ~Known("sweep", i)'
      BY <2>2, <2>4 DEF Awaited, Present
    <3>2. Entry(current, i, d[i]).copy = 0
      BY <2>2, <3>1 DEF Known
    <3>3. d[i] = 0
      BY <3>2 DEF Entry, NoneLoaded
    <3>4. RowsOf(current, i) # {} => <<current, i, d[i]>> \in RowsOf(current, i)
      BY <3>1 DEF Dictionaries
    <3>5. <<current, i, d[i]>> \notin RowsOf(current, i)
      BY <3>3 DEF RowsOf, Rows
    <3> QED BY <3>4, <3>5
  <2>5. AtMostOne' /\ Alone' /\ ItemOnce'
    BY <1>c, <2>2, <2>3 DEF AtMostOne, RowsOf, Alone, ItemOnce, Jobs
  <2>6. ASSUME NEW j \in Jobs, job'[j].version \notin (again \cup overlapped)',
               NEW i \in Awaited(j)'
        PROVE  RowsOf(job[j].version, i)' = {}
    <3>1. CASE j = "sync"
      <4>1. i \in Awaited(j) /\ job[j].version \notin again \cup overlapped
        BY <2>2, <2>3, <2>6, <3>1 DEF Awaited, Known
      <4> QED BY <1>c, <2>2, <2>3, <3>1, <4>1 DEF InsertsOnce, RowsOf
    <3>2. CASE j = "sweep"
      <4>1. RowsOf(current, i) = {}
        BY <2>4, <2>6, <3>2
      <4> QED BY <2>2, <2>3, <3>2, <4>1 DEF RowsOf
    <3> QED BY <3>1, <3>2 DEF Jobs
  <2>7. InsertsOnce'
    BY <2>6 DEF InsertsOnce
  <2> QED BY <1>t, <2>5, <2>7 DEF RowInv
<1>4. ASSUME NEW j \in Jobs, NEW i \in Items, Download(j, i)
      PROVE  RowInv'
  <2>1. job[j] \in Job /\ job[j].pc = "items" /\ i \in job[j].left /\ UNCHANGED <<row, ghost>>
    BY <1>4, <1>u DEF Download
  <2>2. /\ job'[j].pc = "store" /\ job'[j].item = i /\ job'[j].left = job[j].left \ {i}
        /\ job'[j].version = job[j].version /\ job'[j].known = job[j].known
        /\ \A k \in Jobs \ {j} : job'[k] = job[k]
    BY <1>4, <1>u, <2>1 DEF Download, Job
  <2>3. Awaited(j)' \subseteq Awaited(j)
    BY <2>1, <2>2 DEF Awaited, Known
  <2> QED BY <1>t, <2>1, <2>2, <2>3, StepOfJob DEF RowInv
<1>5. ASSUME NEW i \in Items, Copy(i)
      PROVE  RowInv'
  <2>1. /\ "sync" \in Jobs /\ job["sync"] \in Job /\ job["sync"].pc = "items"
        /\ i \in job["sync"].left /\ UNCHANGED <<row, ghost>>
    BY <1>5, <1>u DEF Copy, Jobs
  <2>2. /\ job'["sync"].pc = "store" /\ job'["sync"].item = i
        /\ job'["sync"].left = job["sync"].left \ {i}
        /\ job'["sync"].version = job["sync"].version /\ job'["sync"].known = job["sync"].known
        /\ \A k \in Jobs \ {"sync"} : job'[k] = job[k]
    BY <1>5, <1>u, <2>1 DEF Copy, Job
  <2>3. Awaited("sync")' \subseteq Awaited("sync")
    BY <2>1, <2>2 DEF Awaited, Known
  <2> QED BY <1>t, <2>1, <2>2, <2>3, StepOfJob DEF RowInv
<1>6. ASSUME NEW j \in Jobs, Store(j)
      PROVE  RowInv'
  <2>1. job[j] \in Job /\ job[j].pc = "store" /\ UNCHANGED <<row, ghost>>
    BY <1>6, <1>u DEF Store
  <2>2. /\ job'[j].pc = "record" /\ job'[j].item = job[j].item /\ job'[j].left = job[j].left
        /\ job'[j].version = job[j].version /\ job'[j].known = job[j].known
        /\ \A k \in Jobs \ {j} : job'[k] = job[k]
    BY <1>6, <1>u, <2>1 DEF Store, Job
  <2>3. Awaited(j)' \subseteq Awaited(j) /\ job'[j].item \notin job'[j].left
    BY <1>c, <2>1, <2>2 DEF Awaited, Known, ItemOnce
  <2> QED BY <1>t, <2>1, <2>2, <2>3, StepOfJob DEF RowInv
<1>8. ASSUME NEW i \in Items, DropFile(i)
      PROVE  RowInv'
  <2>1. /\ "sweep" \in Jobs /\ job["sweep"] \in Job /\ job["sweep"].pc = "items"
        /\ job["sweep"].left = {} /\ UNCHANGED <<row, ghost>>
    BY <1>8, <1>u DEF DropFile, Jobs
  <2>2. /\ job'["sweep"].pc = "drop" /\ job'["sweep"].left = job["sweep"].left
        /\ job'["sweep"].version = job["sweep"].version
        /\ \A k \in Jobs \ {"sweep"} : job'[k] = job[k]
    BY <1>8, <1>u, <2>1 DEF DropFile, Job
  <2>3. Awaited("sweep")' \subseteq Awaited("sweep")
    BY <2>1, <2>2 DEF Awaited
  <2> QED BY <1>t, <2>1, <2>2, <2>3, StepOfJob DEF RowInv
<1>9. CASE DropRow
  <2>1. /\ "sweep" \in Jobs /\ job["sweep"].item \in Items /\ NextItem("sweep")
        /\ job["sweep"].pc = "drop" /\ UNCHANGED ghost
    BY <1>9, <1>u DEF DropRow, Jobs, Job
  <2>2. PICK r : row' = [row EXCEPT ![r] = NoRow]
    BY <1>9 DEF DropRow
  <2>3. \A q \in Rows : row'[q].exists => row[q].exists
    BY <1>u, <2>2 DEF NoRow
  <2>4. /\ \A k \in Jobs \ {"sweep"} : job'[k] = job[k]
        /\ job'["sweep"].item = NoItem /\ job'["sweep"].pc \in {"idle", "items"}
    BY <1>t, <1>u, <2>1, AfterItem DEF FileInv, NoJob
  <2>5. CASE job'["sweep"] = NoJob
    <3>1. \A k \in Jobs : \A i \in Awaited(k)' :
            i \in Awaited(k) /\ job'[k].version = job[k].version
      BY <2>4, <2>5 DEF Awaited, Known, NoJob
    <3>2. AtMostOne' /\ InsertsOnce'
      BY <2>1, <2>3, <3>1, NoInsert
    <3>3. Alone' /\ ItemOnce'
      BY <1>c, <2>1, <2>4, <2>5 DEF Alone, ItemOnce, NoJob, Jobs
    <3> QED BY <1>t, <3>2, <3>3 DEF RowInv
  <2>6. CASE job'["sweep"] # NoJob
    <3>1. /\ job'["sweep"].pc = "items" /\ job'["sweep"].left = job["sweep"].left
          /\ job'["sweep"].version = job["sweep"].version
          /\ \A i \in Items : i # job["sweep"].item =>
                job'["sweep"].known[i] = job["sweep"].known[i]
      BY <1>t, <2>1, <2>6, AfterItem DEF FileInv
    <3>2. job["sweep"] \in Job /\ job["sweep"].item \notin job["sweep"].left
      BY <1>c, <1>u, <2>1 DEF ItemOnce
    <3>3. Awaited("sweep")' \subseteq Awaited("sweep")
      BY <3>1, <3>2 DEF Awaited, Known
    <3>4. job'["sweep"].item \notin job'["sweep"].left
      BY <2>4, <3>1, <3>2 DEF Job
    <3>5. UNCHANGED ghost /\ job["sweep"].pc # "idle"
      BY <2>1
    <3> QED BY <1>t, <2>1, <2>3, <2>4, <3>1, <3>3, <3>4, <3>5, StepOfJob DEF RowInv
  <2> QED BY <2>5, <2>6
<1>7. ASSUME NEW j \in Jobs, Record(j)
      PROVE  RowInv'
  <2>1. /\ job[j].pc = "record" /\ NextItem(j) /\ UNCHANGED ghost
        /\ job[j] \in Job /\ job[j].item \in Items /\ job[j].version \in Versions
    BY <1>7, <1>t, <1>u DEF Record, FileInv, TypeInv, TypeOK, Job
  <2>2. PICK c \in Targets(j) :
          row' = [row EXCEPT ![<<job[j].version, job[j].item, c>>] =
            [exists |-> TRUE, etag |-> job[j].listing[job[j].item], name |-> job[j].name]]
    BY <1>7 DEF Record
  <2>v. PICK v \in Versions, i \in Items : v = job[j].version /\ i = job[j].item
    BY <2>1
  <2> DEFINE t == <<v, i, c>>
  <2>w. /\ \A k \in Jobs \ {j} : job'[k] = job[k]
        /\ \/ job'[j] = NoJob
           \/ /\ job'[j].pc = "items" /\ job'[j].item = NoItem
              /\ job'[j].version = job[j].version /\ job'[j].left = job[j].left
              /\ \A k \in Items : job'[j].known[k] =
                    IF k = job[j].item THEN NoneLoaded ELSE job[j].known[k]
    BY <1>t, <2>1, AfterItem DEF FileInv
  <2>3. /\ \A k \in Jobs \ {j} : job'[k] = job[k]
        /\ job'[j].item = NoItem /\ job'[j].pc \in {"idle", "items"}
        /\ \/ job'[j] = NoJob
           \/ /\ job'[j].version = v /\ job'[j].left = job[j].left
              /\ \A k \in Items : k # i => job'[j].known[k] = job[j].known[k]
    BY <2>v, <2>w DEF NoJob
  <2>4. t \in Rows
    <3>1. CASE j = "sweep" /\ Known(j, i)
      BY <2>v, <1>u, <2>1, <2>2, <3>1 DEF Targets, KnownRows
    <3>2. CASE ~(j = "sweep" /\ Known(j, i))
      BY <2>v, <2>1, <2>2, <3>2 DEF Targets, FreeCopies, Rows
    <3> QED BY <2>v, <3>1, <3>2
  <2>5. \A r \in Rows : r # t => row'[r] = row[r]
    BY <2>v, <1>u, <2>2
  \* The other attachments and versions keep their rows, and this one gets at most one.
  <2>6. \A w, k : <<w, k>> # <<v, i>> => RowsOf(w, k)' = RowsOf(w, k)
    BY <2>v, <2>4, <2>5 DEF RowsOf, Rows
  <2>7. v \notin again \cup overlapped => \A q, r \in RowsOf(v, i)' : q = r
    <3>1. CASE j = "sweep" /\ Known(j, i)
      <4>1. row[t].exists
        BY <2>v, <1>u, <2>1, <2>2, <3>1 DEF Targets, KnownRows
      <4>2. RowsOf(v, i)' \subseteq RowsOf(v, i)
        BY <2>v, <2>4, <2>5, <4>1 DEF RowsOf
      <4> QED BY <2>v, <1>c, <2>1, <4>2 DEF AtMostOne
    <3>2. CASE ~(j = "sweep" /\ Known(j, i))
      <4>1. i \in Awaited(j)
        BY <2>v, <2>1, <3>2 DEF Awaited
      <4>2. v \notin again \cup overlapped => RowsOf(v, i) = {}
        BY <2>v, <1>c, <4>1 DEF InsertsOnce
      <4>3. RowsOf(v, i)' \subseteq RowsOf(v, i) \cup {t}
        BY <2>v, <2>5 DEF RowsOf
      <4> QED BY <2>v, <4>2, <4>3
    <3> QED BY <2>v, <3>1, <3>2
  <2> HIDE DEF t
  <2>8. AtMostOne'
    <3>1. ASSUME NEW w \in Versions \ (again \cup overlapped), NEW k \in Items,
                 NEW q \in RowsOf(w, k)', NEW r \in RowsOf(w, k)'
          PROVE  q = r
      <4>1. CASE <<w, k>> = <<v, i>>
        BY <2>v, <2>7, <3>1, <4>1
      <4>2. CASE <<w, k>> # <<v, i>>
        BY <2>v, <1>c, <2>6, <3>1, <4>2 DEF AtMostOne
      <4> QED BY <2>v, <4>1, <4>2
    <3> QED BY <2>v, <2>1, <3>1 DEF AtMostOne
  <2>9. Alone' /\ ItemOnce'
    <3>1. job'[j].item \notin job'[j].left
      BY <2>v, <1>u, <2>1, <2>3 DEF NoJob, Job
    <3> QED BY <2>v, <1>c, <2>1, <2>3, <3>1 DEF Alone, ItemOnce, Jobs, NoJob
  <2>10. ASSUME NEW k \in Jobs, job'[k].version \notin (again \cup overlapped)',
                NEW m \in Awaited(k)'
         PROVE  RowsOf(job[k].version, m)' = {}
    <3>1. CASE k = j
      <4>1. job'[j] # NoJob
        BY <2>v, <2>10, <3>1 DEF Awaited, NoJob
      <4>2. job'[j].version = v /\ m \in job[j].left /\ m \in Items
        BY <2>v, <2>3, <2>10, <3>1, <4>1 DEF Awaited
      <4>3. m # i
        BY <2>v, <1>c, <4>2 DEF ItemOnce
      <4>4. m \in Awaited(j)
        BY <2>v, <2>3, <2>10, <3>1, <4>1, <4>2, <4>3 DEF Awaited, Known
      <4>5. RowsOf(v, m) = {}
        BY <2>v, <1>c, <2>1, <2>10, <3>1, <4>2, <4>4 DEF InsertsOnce
      <4> QED BY <2>v, <2>6, <3>1, <4>2, <4>3, <4>5
    <3>2. CASE k # j
      <4>1. job'[k] = job[k] /\ m \in Awaited(k)
        BY <2>v, <2>3, <2>10, <3>2 DEF Awaited, Known
      <4>2. RowsOf(job[k].version, m) = {}
        BY <2>v, <1>c, <2>1, <2>10, <4>1 DEF InsertsOnce
      <4>3. job[k].version # v
        <5>1. job[k].pc # "idle"
          BY <2>v, <1>u, <4>1 DEF Awaited, NoJob
        <5>2. job["sync"].version \in overlapped
          BY <2>v, <1>c, <2>1, <3>2, <5>1 DEF Alone, Jobs
        <5> QED BY <2>v, <2>1, <2>10, <3>2, <4>1, <5>2 DEF Jobs
      <4> QED BY <2>v, <2>6, <4>1, <4>2, <4>3
    <3> QED BY <2>v, <3>1, <3>2
  <2>11. InsertsOnce'
    BY <2>10 DEF InsertsOnce
  <2> QED BY <1>t, <2>8, <2>9, <2>11 DEF RowInv
<1>10. ASSUME NEW j \in Jobs, Abandon(j)
      PROVE  RowInv'
  <2>1. /\ UNCHANGED <<row, again, overlapped>> /\ job'[j] = NoJob
        /\ \A k \in Jobs \ {j} : job'[k] = job[k]
    BY <1>10, <1>u DEF Abandon
  <2>2. \A k \in Jobs : \A i \in Awaited(k)' : i \in Awaited(k) /\ job'[k].version = job[k].version
    BY <2>1 DEF Awaited, Known, NoJob
  <2>3. AtMostOne' /\ InsertsOnce'
    BY <2>1, <2>2, NoInsert
  <2>4. Alone' /\ ItemOnce'
    BY <1>c, <2>1 DEF Alone, ItemOnce, NoJob, Jobs
  <2> QED BY <1>t, <2>3, <2>4 DEF RowInv
<1> QED
  BY <1>1, <1>2, <1>3, <1>4, <1>5, <1>6, <1>7, <1>8, <1>9, <1>10
  DEF Next, Work, vars, Put, Remove, SetCurrent, SetSweepable, GivesUp, Interrupted

\* A version has two rows of one attachment only if it was reconciled twice or during a
\* sweep: however the two jobs fail and are repeated, they insert no row twice.
THEOREM DuplicatesAreExplained == Spec => []DuplicatesExplained
<1>1. RowInv => DuplicatesExplained
  BY DEF RowInv, AtMostOne, DuplicatesExplained
<1> QED BY <1>1, RowInit, RowStep, PTL DEF Spec

-----------------------------------------------------------------------------
(* Contents. An etag only grows, so what is downloaded or copied is at least as new as   *)
(* the listing, and the file of a row stays as it was stored.                            *)

Etags == \A i \in Items : /\ folder[i] \in {0, newest[i]}
                          /\ \A j \in Jobs : job[j].listing[i] <= newest[i]

\* The file content is good for attachment i with etag e.
Serves(content, i, e) == content.item = i /\ content.etag >= e

RowsServed == \A r \in Claiming : Serves(disk[row[r].name], r[2], row[r].etag)

JobsServe ==
  \A j \in Jobs : /\ job[j].pc = "store" =>
                       Serves(job[j].content, job[j].item, job[j].listing[job[j].item])
                  /\ job[j].pc = "record" =>
                       Serves(disk[job[j].name], job[j].item, job[j].listing[job[j].item])

\* What the sync takes over is a row of the listing's etag.
TakenOver ==
  \A i \in Items : Known("sync", i) =>
    \E r \in Claiming : /\ r[2] = i /\ row[r].etag = job["sync"].listing[i]
                        /\ row[r].name = job["sync"].known[i].name

Undisturbed == torn = {} /\ overlapped = {}

MatchInv ==
  /\ FileInv
  /\ Alone
  /\ Etags
  /\ Undisturbed => RowsServed /\ JobsServe /\ TakenOver

\* A step that leaves the claimed rows, files and jobs alone or gives some up.
LEMMA ServedKept ==
  ASSUME MatchInv, Undisturbed,
         \A r \in Claiming' : r \in Claiming /\ row'[r] = row[r]
                                /\ disk'[row[r].name] = disk[row[r].name],
         \A j \in Recording' : j \in Recording /\ job'[j] = job[j]
                                /\ disk'[job[j].name] = disk[job[j].name],
         \A j \in Jobs : job'[j].pc = "store" =>
            Serves(job'[j].content, job'[j].item, job'[j].listing[job'[j].item]),
         \A i \in Items : Known("sync", i)' =>
            /\ Known("sync", i) /\ Claiming \subseteq Claiming'
            /\ job'["sync"].known[i] = job["sync"].known[i]
            /\ job'["sync"].listing[i] = job["sync"].listing[i]
  PROVE  RowsServed' /\ JobsServe' /\ TakenOver'
<1>1. RowsServed'
  BY DEF MatchInv, RowsServed, Serves
<1>2. JobsServe'
  <2>1. ASSUME NEW j \in Jobs, job'[j].pc = "record"
        PROVE  Serves(disk'[job'[j].name], job'[j].item, job'[j].listing[job'[j].item])
    BY <2>1 DEF MatchInv, JobsServe, Recording
  <2> QED BY <2>1 DEF JobsServe, Serves
<1>3. TakenOver'
  BY DEF MatchInv, TakenOver
<1> QED BY <1>1, <1>2, <1>3

LEMMA EtagsKept ==
  ASSUME MatchInv, UNCHANGED remote,
         \A j \in Jobs : job'[j].listing \in {job[j].listing, folder, NoJob.listing}
  PROVE  Etags'
<1>1. ASSUME NEW j \in Jobs, NEW i \in Items
      PROVE  job'[j].listing[i] <= newest[i]
  <2>1. newest[i] \in Nat /\ folder[i] \in {0, newest[i]} /\ job[j].listing[i] <= newest[i]
    BY DEF MatchInv, Etags, FileInv, TypeInv, TypeOK
  <2>2. NoJob.listing[i] = 0
    BY DEF NoJob
  <2> QED BY <2>1, <2>2
<1> QED BY <1>1 DEF MatchInv, Etags

LEMMA AloneKept ==
  ASSUME Alone, overlapped \subseteq overlapped',
         \A j \in Jobs : \/ job'[j].pc = "idle"
                         \/ job[j].pc # "idle" /\ job'[j].version = job[j].version
  PROVE  Alone'
BY DEF Alone, Jobs

LEMMA MatchInit == Init => MatchInv
<1> SUFFICES ASSUME Init PROVE MatchInv
  OBVIOUS
<1> USE ItemsAssumption, BoundsAssumption, VersionsAssumption
<1>1. \A j \in Jobs : job[j] = NoJob
  BY DEF Init
<1>2. Alone /\ Etags /\ JobsServe /\ TakenOver /\ InHandRow = {}
  BY <1>1 DEF Init, Alone, Etags, JobsServe, TakenOver, Known, InHandRow, NoJob, NoneLoaded, Jobs
<1>3. RowsServed
  <2>1. PICK name \in FirstNames :
        /\ row = [r \in Rows |-> IF r[1] = current /\ r[3] = 1
                                   THEN [exists |-> TRUE, etag |-> 1, name |-> name[r[2]]]
                                   ELSE NoRow]
        /\ disk = [n \in Names |-> IF \E i \in Items : name[i] = n
                                     THEN [item |-> CHOOSE i \in Items : name[i] = n, etag |-> 1]
                                     ELSE Nothing]
    BY DEF Init
  <2>2. name \in [Items -> Names] /\ \A i, k \in Items : name[i] = name[k] => i = k
    BY DEF FirstNames
  <2>3. ASSUME NEW r \in Claiming
        PROVE  Serves(disk[row[r].name], r[2], row[r].etag)
    <3>1. /\ r \in Rows /\ r[2] \in Items
          /\ row[r] = [exists |-> TRUE, etag |-> 1, name |-> name[r[2]]]
      BY <2>1, <2>3 DEF Claiming, Rows, NoRow
    <3>2. (CHOOSE i \in Items : name[i] = name[r[2]]) = r[2]
      BY <2>2, <3>1
    <3>3. disk[name[r[2]]] = [item |-> r[2], etag |-> 1]
      BY <2>1, <2>2, <3>1, <3>2
    <3> QED BY <3>1, <3>3 DEF Serves
  <2> QED BY <2>3 DEF RowsServed
<1> QED BY <1>2, <1>3, FileInit DEF MatchInv

LEMMA MatchStep == MatchInv /\ [Next]_vars => MatchInv'
<1> SUFFICES ASSUME MatchInv, [Next]_vars
             PROVE  MatchInv'
  OBVIOUS
<1> USE BoundsAssumption, VersionsAssumption, ItemsAssumption
<1>t. FileInv /\ FileInv'
  BY FileStep DEF MatchInv
<1>u. /\ row \in [Rows -> AttachmentRow] /\ disk \in [Names -> Content] /\ job \in [Jobs -> Job]
      /\ folder \in [Items -> Nat] /\ newest \in [Items -> Nat]
      /\ KnownRows /\ ContentReal /\ OwnFiles /\ \A r \in Rows : row[r].name \in Names
      /\ \A j \in Jobs : job[j].pc = "idle" => job[j] = NoJob
  BY <1>t DEF FileInv, TypeInv, TypeOK, AttachmentRow
<1>c. /\ Alone /\ Etags
      /\ Undisturbed => RowsServed /\ JobsServe /\ TakenOver
  BY DEF MatchInv
<1>1. ASSUME NEW i \in Items, Put(i) \/ Remove(i)
      PROVE  MatchInv'
  <2>1. UNCHANGED <<row, disk, job, ghost>>
    BY <1>1 DEF Put, Remove
  <2>2. \A k \in Items : newest'[k] >= newest[k] /\ folder'[k] \in {0, newest'[k]}
    BY <1>1, <1>u, <1>c DEF Put, Remove, Etags
  <2>3. \A j \in Jobs, k \in Items : job[j].listing[k] \in Nat
    BY <1>u DEF Job
  <2>4. Etags'
    <3>1. \A j \in Jobs, k \in Items : job'[j].listing[k] <= newest'[k]
      <4>1. ASSUME NEW j \in Jobs, NEW k \in Items
            PROVE  job[j].listing[k] <= newest'[k]
        <5>1. newest'[k] \in Nat /\ newest[k] \in Nat
          BY <1>t, <1>u DEF FileInv, TypeInv, TypeOK
        <5> QED BY <1>c, <2>2, <2>3, <5>1 DEF Etags
      <4> QED BY <2>1, <4>1
    <3> QED BY <2>2, <3>1 DEF Etags
  <2>5. Alone' /\ (Undisturbed' => RowsServed' /\ JobsServe' /\ TakenOver')
    BY <1>c, <2>1
    DEF Alone, Undisturbed, RowsServed, JobsServe, TakenOver, Claiming, InHandRow, Known, Serves
  <2> QED BY <1>t, <2>4, <2>5 DEF MatchInv
<1>2. ASSUME UNCHANGED <<remote, row, disk, job, ghost>>
      PROVE  MatchInv'
  BY <1>2, <1>t, <1>c
  DEF MatchInv, Alone, Etags, Undisturbed, RowsServed, JobsServe, TakenOver, Claiming, InHandRow,
      Known, Serves
<1>3. ASSUME NEW v \in Versions, Reconcile(v)
      PROVE  MatchInv'
  <2>1. /\ UNCHANGED <<remote, row, disk, torn>> /\ job["sync"].pc = "idle"
        /\ job'["sweep"] = job["sweep"]
        /\ overlapped' = IF job["sweep"].pc = "idle" THEN overlapped ELSE overlapped \cup {v}
    <3>1. CASE job' = job
      BY <1>3, <3>1 DEF Reconcile
    <3>2. CASE job' # job
      BY <1>3, <1>u, <3>2 DEF Reconcile, Jobs
    <3> QED BY <3>1, <3>2
  <2>2. CASE job' = job
    <3>1. UNCHANGED job
      BY <1>3, <2>2 DEF Reconcile
    <3>2. Undisturbed' => Undisturbed
      BY <2>1 DEF Undisturbed
    <3>3. Alone' /\ Etags'
      BY <1>c, <2>1, <3>1 DEF Alone, Etags
    <3>4. Undisturbed' => RowsServed' /\ JobsServe' /\ TakenOver'
      BY <1>c, <2>1, <3>1, <3>2
      DEF RowsServed, JobsServe, TakenOver, Claiming, InHandRow, Known, Serves
    <3> QED BY <1>t, <3>3, <3>4 DEF MatchInv
  <2>3. CASE job' # job
    <3>1. PICK d \in Dictionaries(Previous(v)) :
            job' = [job EXCEPT !["sync"] =
              [NoJob EXCEPT
                 !.pc = "items", !.version = v, !.listing = folder, !.left = Present,
                 !.known = [i \in Items |->
                    IF Unchanged(Previous(v), i, d[i]) THEN Entry(Previous(v), i, d[i])
                                                       ELSE NoneLoaded]]]
      BY <1>3, <2>3 DEF Reconcile
    <3>2. /\ job'["sync"].pc = "items" /\ job'["sync"].version = v
          /\ job'["sync"].listing = folder
          /\ \A i \in Items : job'["sync"].known[i] =
                IF Unchanged(Previous(v), i, d[i]) THEN Entry(Previous(v), i, d[i])
                                                   ELSE NoneLoaded
      BY <1>u, <3>1 DEF NoJob, Jobs
    <3>3. Alone'
      BY <1>c, <2>1, <3>2 DEF Alone
    <3>4. Etags'
      BY <1>c, <1>u, <2>1, <3>2 DEF Etags, Jobs
    <3>5. ASSUME Undisturbed'
          PROVE  RowsServed' /\ JobsServe' /\ TakenOver'
      <4>1. Undisturbed /\ job["sweep"].pc = "idle"
        BY <2>1, <3>5 DEF Undisturbed
      <4>2. Claiming' = Claiming /\ Claiming = {r \in Rows : row[r].exists}
        BY <2>1, <4>1 DEF Claiming, InHandRow, Known
      <4>3. RowsServed' /\ JobsServe'
        BY <1>c, <2>1, <3>2, <4>1, <4>2 DEF RowsServed, JobsServe, Jobs, Serves
      <4>4. ASSUME NEW i \in Items, Known("sync", i)'
            PROVE  \E r \in Claiming : /\ r[2] = i /\ row[r].etag = folder[i]
                                       /\ row[r].name = job'["sync"].known[i].name
        <5>1. /\ Unchanged(Previous(v), i, d[i])
              /\ job'["sync"].known[i] = Entry(Previous(v), i, d[i])
              /\ Entry(Previous(v), i, d[i]).copy # 0
          BY <3>2, <4>4 DEF Known, NoneLoaded
        <5>2. Entry(Previous(v), i, d[i]).copy = d[i]
          BY <5>1 DEF Entry, Unchanged
        <5>3. LET r == <<Previous(v), i, d[i]>>
              IN  r \in Claiming /\ row[r].etag = folder[i]
                    /\ row[r].name = job'["sync"].known[i].name
          BY <1>t, <4>2, <5>1, <5>2, EntryTyped DEF FileInv, TypeInv, Unchanged
        <5> QED BY <5>3
      <4>5. TakenOver'
        BY <2>1, <3>2, <4>2, <4>4 DEF TakenOver
      <4> QED BY <4>3, <4>5
    <3> QED BY <1>t, <3>3, <3>4, <3>5 DEF MatchInv
  <2> QED BY <2>2, <2>3
<1>4. CASE Sweep
  <2>1. PICK d \in Dictionaries(current) : \E todo \in SUBSET Items, stale \in SUBSET Items :
          job' = [job EXCEPT !["sweep"] =
                [NoJob EXCEPT
                   !.pc = "items", !.version = current, !.listing = folder,
                   !.left = stale \cap Present,
                   !.known = [i \in Items |->
                      IF i \in todo THEN Entry(current, i, d[i]) ELSE NoneLoaded]]]
    BY <1>4 DEF Sweep
  <2>2. /\ job'["sync"] = job["sync"] /\ job'["sweep"].pc = "items"
        /\ job'["sweep"].listing = folder
    BY <1>u, <2>1 DEF Jobs, NoJob
  <2>3. /\ UNCHANGED <<remote, row, disk, torn>> /\ job["sweep"].pc = "idle"
        /\ overlapped' = IF job["sync"].pc = "idle" THEN overlapped
                                                   ELSE overlapped \cup {job["sync"].version}
    BY <1>4 DEF Sweep
  <2>4. Etags' /\ Alone'
    <3>1. Etags'
      BY <2>2, <2>3, EtagsKept DEF Jobs
    <3>2. Alone'
      BY <1>c, <2>2, <2>3 DEF Alone
    <3> QED BY <3>1, <3>2
  <2>5. ASSUME Undisturbed'
        PROVE  RowsServed' /\ JobsServe' /\ TakenOver'
    <3>1. Undisturbed /\ job["sync"].pc = "idle"
      BY <2>3, <2>5 DEF Undisturbed
    <3>2. Claiming' = Claiming
      BY <2>2, <2>3 DEF Claiming, InHandRow
    <3>3. \A i \in Items : ~Known("sync", i)'
      BY <1>u, <2>2, <3>1 DEF Known, NoJob, NoneLoaded, Jobs
    <3> QED BY <2>2, <2>3, <3>1, <3>2, <3>3, <1>u, ServedKept DEF Recording, Jobs, NoJob
  <2> QED BY <1>t, <2>4, <2>5 DEF MatchInv
<1>5. ASSUME NEW j \in Jobs, NEW i \in Items, Download(j, i)
      PROVE  MatchInv'
  <2>1. /\ job[j] \in Job /\ job[j].pc = "items" /\ i \in Present
        /\ j = "sync" => ~Known(j, i)
        /\ UNCHANGED <<remote, row, ghost>>
        /\ disk' = IF Known(j, i) THEN [disk EXCEPT ![job[j].known[i].name] = Nothing] ELSE disk
    BY <1>5, <1>u DEF Download
  <2>2. /\ job'[j].pc = "store" /\ job'[j].item = i /\ job'[j].listing = job[j].listing
        /\ job'[j].version = job[j].version /\ job'[j].known = job[j].known
        /\ job'[j].content = [item |-> i, etag |-> folder[i]]
        /\ \A k \in Jobs \ {j} : job'[k] = job[k]
    BY <1>5, <1>u, <2>1 DEF Download, Job
  <2>3. Etags' /\ Alone'
    <3>1. Etags'
      BY <2>1, <2>2, EtagsKept
    <3>2. Alone'
      BY <1>c, <2>1, <2>2, AloneKept
    <3> QED BY <3>1, <3>2
  <2>4. Serves(job'[j].content, job'[j].item, job'[j].listing[job'[j].item])
    <3>1. folder[i] >= job[j].listing[i]
      <4>1. /\ folder[i] \in Nat /\ folder[i] # 0 /\ folder[i] \in {0, newest[i]}
            /\ job[j].listing[i] <= newest[i]
        BY <1>u, <1>c, <2>1 DEF Present, Etags
      <4>2. job[j].listing[i] \in Nat
        BY <2>1 DEF Job
      <4> QED BY <4>1, <4>2
    <3> QED BY <2>2, <3>1 DEF Serves
  <2>5. ASSUME Undisturbed'
        PROVE  RowsServed' /\ JobsServe' /\ TakenOver'
    <3>1. Undisturbed
      BY <2>1, <2>5 DEF Undisturbed
    <3>2. \A k \in Recording' : k \in Recording /\ job'[k] = job[k] /\ job[k].name \in Names
      BY <1>u, <2>1, <2>2 DEF Recording, Job
    <3>3. \A k \in Jobs : job'[k].pc = "store" =>
            Serves(job'[k].content, job'[k].item, job'[k].listing[job'[k].item])
      BY <1>c, <2>2, <2>4, <3>1 DEF JobsServe
    <3>4. CASE Known(j, i)
      <4>1. j = "sweep"
        BY <2>1, <3>4 DEF Jobs
      <4> DEFINE t == <<job[j].version, i, job[j].known[i].copy>>
      <4>2. t \in Rows /\ row[t].exists /\ row[t].name = job[j].known[i].name
        BY <1>u, <3>4, <4>1 DEF KnownRows
      <4>3. InHandRow = {} /\ InHandRow' = {t}
        BY <2>1, <2>2, <3>4, <4>1 DEF InHandRow, Known
      <4> HIDE DEF t
      <4>4. Claiming' = Claiming \ {t} /\ t \in Claiming
        BY <2>1, <4>2, <4>3 DEF Claiming
      <4>5. \A n \in Names : n # row[t].name => disk'[n] = disk[n]
        BY <1>u, <2>1, <3>4, <4>2
      <4>6. \A r \in Claiming' : r \in Claiming /\ row'[r] = row[r]
                                /\ disk'[row[r].name] = disk[row[r].name]
        BY <1>u, <2>1, <3>1, <4>4, <4>5 DEF OwnFiles, Undisturbed, Claiming
      <4>7. \A k \in Recording' : disk'[job[k].name] = disk[job[k].name]
        BY <1>u, <3>1, <3>2, <4>4, <4>5 DEF OwnFiles, Undisturbed
      <4>8. \A k \in Items : ~Known("sync", k)'
        <5>1. job["sync"].pc = "idle"
          BY <1>c, <2>1, <3>1, <4>1 DEF Alone, Undisturbed
        <5> QED BY <1>u, <2>2, <4>1, <5>1 DEF Known, NoJob, NoneLoaded, Jobs
      <4> QED BY <3>1, <3>2, <3>3, <4>6, <4>7, <4>8, ServedKept
    <3>5. CASE ~Known(j, i)
      <4>1. InHandRow' = InHandRow
        BY <2>1, <2>2, <3>5 DEF InHandRow, Known, Jobs
      <4>2. Claiming' = Claiming
        BY <2>1, <4>1 DEF Claiming
      <4>3. \A k \in Items : Known("sync", k)' =>
              /\ Known("sync", k) /\ job'["sync"].known[k] = job["sync"].known[k]
              /\ job'["sync"].listing[k] = job["sync"].listing[k]
        BY <2>2 DEF Known, Jobs
      <4> QED BY <2>1, <3>1, <3>2, <3>3, <3>5, <4>2, <4>3, ServedKept
    <3> QED BY <3>4, <3>5
  <2> QED BY <1>t, <2>3, <2>5 DEF MatchInv
<1>6. ASSUME NEW i \in Items, Copy(i)
      PROVE  MatchInv'
  <2>1. /\ "sync" \in Jobs /\ job["sync"] \in Job /\ job["sync"].pc = "items"
        /\ Known("sync", i) /\ UNCHANGED <<remote, row, disk, ghost>>
    BY <1>6, <1>u DEF Copy, Jobs
  <2>2. /\ job'["sync"].pc = "store" /\ job'["sync"].item = i
        /\ job'["sync"].listing = job["sync"].listing
        /\ job'["sync"].version = job["sync"].version /\ job'["sync"].known = job["sync"].known
        /\ job'["sync"].content = disk[job["sync"].known[i].name]
        /\ \A k \in Jobs \ {"sync"} : job'[k] = job[k]
    BY <1>6, <1>u, <2>1 DEF Copy, Job
  <2>3. Etags' /\ Alone'
    <3>1. Etags'
      BY <2>1, <2>2, EtagsKept
    <3>2. Alone'
      BY <1>c, <2>1, <2>2, AloneKept
    <3> QED BY <3>1, <3>2
  <2>4. ASSUME Undisturbed'
        PROVE  RowsServed' /\ JobsServe' /\ TakenOver'
    <3>1. Undisturbed
      BY <2>1, <2>4 DEF Undisturbed
    <3>2. Claiming' = Claiming
      BY <2>1, <2>2 DEF Claiming, InHandRow, Known, Jobs
    <3>3. \A k \in Recording' : k \in Recording /\ job'[k] = job[k]
      BY <2>1, <2>2 DEF Recording
    <3>4. Serves(job'["sync"].content, i, job["sync"].listing[i])
      <4>1. PICK r \in Claiming : /\ r[2] = i /\ row[r].etag = job["sync"].listing[i]
                                 /\ row[r].name = job["sync"].known[i].name
        BY <1>c, <2>1, <3>1 DEF TakenOver
      <4> QED BY <1>c, <2>2, <3>1, <4>1 DEF RowsServed
    <3>5. \A k \in Jobs : job'[k].pc = "store" =>
            Serves(job'[k].content, job'[k].item, job'[k].listing[job'[k].item])
      BY <1>c, <2>2, <3>1, <3>4 DEF JobsServe
    <3> QED BY <2>1, <2>2, <3>1, <3>2, <3>3, <3>5, ServedKept DEF Known
  <2> QED BY <1>t, <2>3, <2>4 DEF MatchInv
<1>7. ASSUME NEW j \in Jobs, Store(j)
      PROVE  MatchInv'
  <2>1. /\ job[j] \in Job /\ job[j].pc = "store" /\ UNCHANGED <<remote, row, ghost>>
        /\ disk' = [disk EXCEPT ![NewName] = job[j].content]
    BY <1>7, <1>u DEF Store
  <2>2. /\ job'[j].pc = "record" /\ job'[j].item = job[j].item /\ job'[j].name = NewName
        /\ job'[j].version = job[j].version /\ job'[j].known = job[j].known
        /\ job'[j].listing = job[j].listing
        /\ \A k \in Jobs \ {j} : job'[k] = job[k]
    BY <1>7, <1>u, <2>1 DEF Store, Job
  <2>3. Etags' /\ Alone'
    <3>1. Etags'
      BY <2>1, <2>2, EtagsKept
    <3>2. Alone'
      BY <1>c, <2>1, <2>2, AloneKept
    <3> QED BY <3>1, <3>2
  <2>4. NewName \in Names /\ disk[NewName] = Nothing
    BY <1>7, NewNameIsName DEF Store
  <2>5. disk'[NewName] = job[j].content /\ \A n \in Names : n # NewName => disk'[n] = disk[n]
    BY <1>u, <2>1, <2>4
  <2>6. ASSUME Undisturbed'
        PROVE  RowsServed' /\ JobsServe' /\ TakenOver'
    <3>1. Undisturbed
      BY <2>1, <2>6 DEF Undisturbed
    <3>2. Claiming' = Claiming
      <4>1. InHandRow' = InHandRow
        BY <2>1, <2>2 DEF InHandRow, Known, Jobs
      <4> QED BY <2>1, <4>1 DEF Claiming
    <3>3. \A r \in Claiming : disk'[row[r].name] = disk[row[r].name]
      BY <1>u, <2>4, <2>5, <3>1 DEF OwnFiles, Undisturbed, Claiming
    <3>4. ASSUME NEW k \in Jobs, k # j, job[k].pc = "record"
          PROVE  disk'[job[k].name] = disk[job[k].name]
      <4>1. job[k].name \in Names /\ k \in Recording
        BY <1>u, <3>4 DEF Job, Recording
      <4> QED BY <1>u, <2>4, <2>5, <3>1, <4>1 DEF OwnFiles, Undisturbed
    <3>5. RowsServed'
      BY <1>c, <2>1, <3>1, <3>2, <3>3 DEF RowsServed, Serves
    <3>6. JobsServe'
      <4>1. Serves(disk'[job'[j].name], job'[j].item, job'[j].listing[job'[j].item])
        BY <1>c, <2>1, <2>2, <2>5, <3>1 DEF JobsServe
      <4>2. ASSUME NEW k \in Jobs, k # j
            PROVE  /\ job'[k].pc = "store" =>
                         Serves(job'[k].content, job'[k].item, job'[k].listing[job'[k].item])
                   /\ job'[k].pc = "record" =>
                         Serves(disk'[job'[k].name], job'[k].item, job'[k].listing[job'[k].item])
        BY <1>c, <2>2, <3>1, <3>4, <4>2 DEF JobsServe
      <4> QED BY <2>2, <4>1, <4>2 DEF JobsServe, Serves
    <3>7. TakenOver'
      <4>1. \A k \in Items : Known("sync", k)' =>
              /\ Known("sync", k) /\ job'["sync"].known[k] = job["sync"].known[k]
              /\ job'["sync"].listing[k] = job["sync"].listing[k]
        BY <2>2 DEF Known, Jobs
      <4> QED BY <1>c, <2>1, <3>1, <3>2, <4>1 DEF TakenOver
    <3> QED BY <3>5, <3>6, <3>7
  <2> QED BY <1>t, <2>3, <2>6 DEF MatchInv
<1>8. ASSUME NEW j \in Jobs, Record(j)
      PROVE  MatchInv'
  <2>1. /\ job[j].pc = "record" /\ NextItem(j) /\ UNCHANGED <<remote, disk, ghost>>
        /\ job[j] \in Job /\ job[j].item \in Items /\ job[j].version \in Versions
    BY <1>8, <1>t, <1>u DEF Record, FileInv, TypeInv, TypeOK, Job
  <2>2. PICK c \in Targets(j) :
          row' = [row EXCEPT ![<<job[j].version, job[j].item, c>>] =
            [exists |-> TRUE, etag |-> job[j].listing[job[j].item], name |-> job[j].name]]
    BY <1>8 DEF Record
  <2> DEFINE t == <<job[j].version, job[j].item, c>>
  <2>3. /\ t \in Rows /\ (j = "sync" => ~row[t].exists)
        /\ j = "sweep" => InHandRow = {t} \/ (InHandRow = {} /\ ~row[t].exists)
    <3>1. CASE j = "sweep" /\ Known(j, job[j].item)
      <4>1. c = job["sweep"].known[job["sweep"].item].copy
        BY <2>2, <3>1 DEF Targets
      <4>2. InHandRow = {t}
        BY <2>1, <3>1, <4>1 DEF InHandRow
      <4> QED BY <1>u, <2>1, <3>1, <4>1, <4>2 DEF KnownRows
    <3>2. CASE ~(j = "sweep" /\ Known(j, job[j].item))
      <4>1. c \in FreeCopies(job[j].version, job[j].item)
        BY <2>2, <3>2 DEF Targets
      <4>2. t \in Rows /\ ~row[t].exists
        BY <2>1, <4>1 DEF FreeCopies, Rows
      <4>3. j = "sweep" => InHandRow = {}
        BY <3>2 DEF InHandRow
      <4> QED BY <4>2, <4>3
    <3> QED BY <3>1, <3>2
  <2>4. /\ \A k \in Jobs \ {j} : job'[k] = job[k]
        /\ job'[j].pc \in {"idle", "items"}
        /\ job'[j].pc = "idle" \/ job'[j].version = job[j].version
        /\ job'[j].listing \in {job[j].listing, NoJob.listing}
        /\ \A i \in Items : \/ job'[j].known[i].copy = 0
                             \/ /\ job'[j].known[i] = job[j].known[i]
                                /\ job'[j].listing = job[j].listing
    BY <1>t, <2>1, AfterItem DEF FileInv, NoneLoaded, NoJob
  <2>5. /\ row'[t].exists /\ row'[t].name = job[j].name
        /\ row'[t].etag = job[j].listing[job[j].item] /\ t[2] = job[j].item
        /\ \A r \in Rows \ {t} : row'[r] = row[r]
    BY <1>u, <2>2, <2>3
  <2>6. InHandRow' = IF j = "sweep" THEN {} ELSE InHandRow
    BY <2>4 DEF InHandRow, Known, Jobs
  <2>7. \A r \in InHandRow : r \in Rows /\ row[r].exists
    BY <1>t, <1>u DEF InHandRow, KnownRows, FileInv, TypeInv, TypeOK, Job, Known, Jobs
  <2> HIDE DEF t
  <2>8. Claiming' = Claiming \cup {t} /\ \A r \in Claiming : row'[r] = row[r]
    BY <2>3, <2>5, <2>6, <2>7 DEF Claiming, Rows, Jobs
  <2>9. Etags' /\ Alone'
    <3>1. Etags'
      BY <2>1, <2>4, EtagsKept
    <3>2. Alone'
      BY <1>c, <2>1, <2>4, AloneKept
    <3> QED BY <3>1, <3>2
  <2>10. ASSUME Undisturbed'
         PROVE  RowsServed' /\ JobsServe' /\ TakenOver'
    <3>1. Undisturbed
      BY <2>1, <2>10 DEF Undisturbed
    <3>2. Serves(disk[row'[t].name], t[2], row'[t].etag)
      BY <1>c, <2>1, <2>5, <3>1 DEF JobsServe
    <3>3. RowsServed'
      BY <1>c, <2>1, <2>8, <3>1, <3>2 DEF RowsServed, Serves
    <3>4. JobsServe'
      BY <1>c, <2>1, <2>4, <3>1 DEF JobsServe, Serves
    <3>5. TakenOver'
      <4>1. \A k \in Items : Known("sync", k)' =>
              /\ Known("sync", k) /\ job'["sync"].known[k] = job["sync"].known[k]
              /\ job'["sync"].listing[k] = job["sync"].listing[k]
        BY <2>4 DEF Known, Jobs
      <4> QED BY <1>c, <2>8, <3>1, <4>1 DEF TakenOver
    <3> QED BY <3>3, <3>4, <3>5
  <2> QED BY <1>t, <2>9, <2>10 DEF MatchInv
<1>9. ASSUME NEW i \in Items, DropFile(i)
      PROVE  MatchInv'
  <2>1. /\ "sweep" \in Jobs /\ job["sweep"] \in Job /\ job["sweep"].pc = "items"
        /\ Known("sweep", i) /\ UNCHANGED <<remote, row, ghost>>
        /\ disk' = [disk EXCEPT ![job["sweep"].known[i].name] = Nothing]
    BY <1>9, <1>u DEF DropFile, Jobs
  <2>2. /\ job'["sweep"].pc = "drop" /\ job'["sweep"].item = i
        /\ job'["sweep"].listing = job["sweep"].listing
        /\ job'["sweep"].version = job["sweep"].version
        /\ job'["sweep"].known = job["sweep"].known /\ job'["sync"] = job["sync"]
    BY <1>9, <1>u, <2>1 DEF DropFile, Job, Jobs
  <2>3. Etags' /\ Alone'
    <3>1. Etags'
      BY <2>1, <2>2, EtagsKept DEF Jobs
    <3>2. Alone'
      BY <1>c, <2>1, <2>2 DEF Alone
    <3> QED BY <3>1, <3>2
  <2>4. ASSUME Undisturbed'
        PROVE  RowsServed' /\ JobsServe' /\ TakenOver'
    <3>1. Undisturbed
      BY <2>1, <2>4 DEF Undisturbed
    <3> DEFINE t == <<job["sweep"].version, i, job["sweep"].known[i].copy>>
    <3>2. t \in Rows /\ row[t].exists /\ row[t].name = job["sweep"].known[i].name
      BY <1>u, <2>1 DEF KnownRows
    <3>3. InHandRow = {} /\ InHandRow' = {t}
      BY <2>1, <2>2 DEF InHandRow, Known
    <3> HIDE DEF t
    <3>4. Claiming' = Claiming \ {t} /\ t \in Claiming
      BY <2>1, <3>2, <3>3 DEF Claiming
    <3>5. \A n \in Names : n # row[t].name => disk'[n] = disk[n]
      BY <1>u, <2>1, <3>2
    <3>6. \A r \in Claiming' : r \in Claiming /\ row'[r] = row[r]
                              /\ disk'[row[r].name] = disk[row[r].name]
      BY <1>u, <2>1, <3>1, <3>4, <3>5 DEF OwnFiles, Undisturbed, Claiming
    <3>7. job["sync"].pc = "idle"
      BY <1>c, <2>1, <3>1 DEF Alone, Undisturbed
    <3>8. \A k \in Items : ~Known("sync", k)'
      BY <1>u, <2>2, <3>7 DEF Known, NoJob, NoneLoaded, Jobs
    <3>9. Recording' = {} /\ \A k \in Jobs : job'[k].pc # "store"
      BY <2>2, <3>7 DEF Recording, Jobs
    <3> QED BY <3>1, <3>6, <3>8, <3>9, ServedKept
  <2> QED BY <1>t, <2>3, <2>4 DEF MatchInv
<1>10. CASE DropRow
  <2>1. /\ job["sweep"].pc = "drop" /\ NextItem("sweep") /\ "sweep" \in Jobs
        /\ job["sweep"].item \in Items /\ UNCHANGED <<remote, disk, ghost>>
    BY <1>10, <1>t, <1>u DEF DropRow, FileInv, TypeInv, TypeOK, Job, Jobs
  <2> DEFINE t == <<job["sweep"].version, job["sweep"].item,
                    job["sweep"].known[job["sweep"].item].copy>>
  <2>2. row' = [row EXCEPT ![t] = NoRow]
    BY <1>10 DEF DropRow
  <2>3. /\ job'["sweep"].pc \in {"idle", "items"} /\ job'["sync"] = job["sync"]
        /\ job'["sweep"].pc = "idle" \/ job'["sweep"].version = job["sweep"].version
        /\ job'["sweep"].listing \in {job["sweep"].listing, NoJob.listing}
    BY <1>t, <2>1, AfterItem DEF FileInv, Jobs, NoJob
  <2>4. /\ InHandRow' = {} /\ InHandRow = IF Known("sweep", job["sweep"].item) THEN {t} ELSE {}
    BY <2>1, <2>3 DEF InHandRow
  <2>5. t \in Rows => Known("sweep", job["sweep"].item)
    BY DEF Known, Rows
  <2>6. \A r \in Rows : row'[r] = IF r = t THEN NoRow ELSE row[r]
    BY <1>u, <2>2
  <2> HIDE DEF t
  <2>7. Claiming' = Claiming /\ \A r \in Claiming : row'[r] = row[r]
    BY <2>4, <2>5, <2>6 DEF Claiming, NoRow, Rows
  <2>8. Etags' /\ Alone'
    <3>1. Etags'
      BY <2>1, <2>3, EtagsKept DEF Jobs
    <3>2. Alone'
      BY <1>c, <2>1, <2>3, AloneKept DEF Jobs, Alone
    <3> QED BY <3>1, <3>2
  <2>9. ASSUME Undisturbed'
        PROVE  RowsServed' /\ JobsServe' /\ TakenOver'
    <3>1. Undisturbed
      BY <2>1, <2>9 DEF Undisturbed
    <3>2. \A k \in Recording' : k \in Recording /\ job'[k] = job[k]
      BY <2>3 DEF Recording, Jobs
    <3>3. \A k \in Jobs : job'[k].pc = "store" =>
            Serves(job'[k].content, job'[k].item, job'[k].listing[job'[k].item])
      BY <1>c, <2>3, <3>1 DEF JobsServe, Jobs
    <3>4. \A k \in Items : Known("sync", k)' =>
            /\ Known("sync", k) /\ job'["sync"].known[k] = job["sync"].known[k]
            /\ job'["sync"].listing[k] = job["sync"].listing[k]
      BY <2>3 DEF Known
    <3> QED BY <2>1, <2>7, <3>1, <3>2, <3>3, <3>4, ServedKept
  <2> QED BY <1>t, <2>8, <2>9 DEF MatchInv
<1>11. ASSUME NEW j \in Jobs, Abandon(j)
      PROVE  MatchInv'
  <2>1. /\ UNCHANGED <<remote, row, disk, overlapped>> /\ job'[j] = NoJob
        /\ \A k \in Jobs \ {j} : job'[k] = job[k]
        /\ torn' = IF j = "sweep" THEN torn \cup InHand ELSE torn
    BY <1>11, <1>u DEF Abandon
  <2>2. Etags' /\ Alone'
    <3>1. Etags'
      BY <2>1, EtagsKept
    <3>2. Alone'
      BY <1>c, <2>1, AloneKept DEF NoJob, Alone, Jobs
    <3> QED BY <3>1, <3>2
  <2>3. ASSUME Undisturbed'
        PROVE  RowsServed' /\ JobsServe' /\ TakenOver'
    <3>1. Undisturbed /\ (j = "sweep" => InHand = {})
      BY <2>1, <2>3 DEF Undisturbed
    <3>2. Claiming' = Claiming
      <4>1. InHandRow' = InHandRow
        <5>1. CASE j = "sync"
          BY <2>1, <5>1 DEF InHandRow, Known, Jobs
        <5>2. CASE j = "sweep"
          <6>1. InHandRow = {}
            BY <3>1, <5>2 DEF InHandRow, InHand
          <6>2. job'["sweep"].pc = "idle"
            BY <2>1, <5>2 DEF NoJob
          <6>3. InHandRow' = {}
            BY <6>2 DEF InHandRow
          <6> QED BY <6>1, <6>3
        <5> QED BY <5>1, <5>2 DEF Jobs
      <4> QED BY <2>1, <4>1 DEF Claiming
    <3>3. \A k \in Recording' : k \in Recording /\ job'[k] = job[k]
      BY <2>1 DEF Recording, NoJob
    <3>4. \A k \in Jobs : job'[k].pc = "store" =>
            Serves(job'[k].content, job'[k].item, job'[k].listing[job'[k].item])
      BY <1>c, <2>1, <3>1 DEF JobsServe, NoJob
    <3>5. \A k \in Items : Known("sync", k)' =>
            /\ Known("sync", k) /\ job'["sync"].known[k] = job["sync"].known[k]
            /\ job'["sync"].listing[k] = job["sync"].listing[k]
      BY <2>1 DEF Known, NoJob, NoneLoaded, Jobs
    <3> QED BY <2>1, <3>1, <3>2, <3>3, <3>4, <3>5, ServedKept
  <2> QED BY <1>t, <2>2, <2>3 DEF MatchInv
<1> QED
  BY <1>1, <1>2, <1>3, <1>4, <1>5, <1>6, <1>7, <1>8, <1>9, <1>10, <1>11
  DEF Next, Work, vars, SetCurrent, SetSweepable, GivesUp, Interrupted

\* As long as no replacement was interrupted and the two jobs did not overlap, every row
\* serves its own attachment, at least as new as its etag: copying the file of another
\* version is as good as downloading it, whatever the order of edits and failures.
THEOREM FilesAreAsNewAsTheirRows == Spec => []FilesMatchEtags
<1>1. MatchInv => FilesMatchEtags
  <2> SUFFICES ASSUME MatchInv, Undisturbed,
                      NEW r \in Rows, row[r].exists, row[r].name \notin InHand
               PROVE  Streamed(r).item = r[2] /\ Streamed(r).etag >= row[r].etag
    BY DEF FilesMatchEtags, Undisturbed
  <2>1. \A q \in InHandRow : row[q].name \in InHand
    BY DEF MatchInv, InHandRow, InHand, FileInv, KnownRows, TypeInv, TypeOK, Job, Known, Jobs
  <2>2. r \in Claiming
    BY <2>1 DEF Claiming
  <2> QED BY <2>2 DEF MatchInv, RowsServed, Serves, Streamed
<1> QED BY <1>1, MatchInit, MatchStep, PTL DEF Spec

=============================================================================
