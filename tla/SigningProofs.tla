---------------------------- MODULE SigningProofs ----------------------------
(***************************************************************************)
(* Theorems about Signing, for any users, requests, items and numbers: one *)
(* row for each successful answer, a new version reappears among the       *)
(* unsigned, and only a stale read can get a signature past the checks.    *)
(***************************************************************************)
EXTENDS Signing, DocumentSyncProofs

USE DEF signing, db, listing, work, ghost

-----------------------------------------------------------------------------
(* What the sync keeps for a request. *)

\* Every stored version belongs to a document.
RowsNumbered == \A i \in Items : ver[i].exists => ver[i].number \in Numbers

LEMMA RowsNumberedStep == TypeOK /\ RowsNumbered /\ [Next]_vars => RowsNumbered'
<1> SUFFICES ASSUME TypeOK, RowsNumbered, [Next]_vars, NEW i \in Items, ver'[i].exists
             PROVE  ver'[i].number \in Numbers
    BY DEF RowsNumbered
<1>v. ver \in [Items -> VersionRow]
    BY DEF TypeOK
<1>1. CASE ver'[i].exists = ver[i].exists /\ ver'[i].number = ver[i].number
    BY <1>1 DEF RowsNumbered
<1>2. ASSUME NEW k \in Items, UpsertVersion(k)
      PROVE  ver'[i].number \in Numbers
  <2>1. group \in Numbers
        BY <1>2 DEF TypeOK, UpsertVersion, NumbersOrNone
  <2>2. CASE k = i
        BY <1>2, <1>v, <2>1, <2>2 DEF UpsertVersion, UpsertedRow
  <2>3. CASE k # i
        BY <1>2, <1>v, <2>3 DEF UpsertVersion, RowsNumbered
  <2> QED
        BY <2>2, <2>3
<1>3. CASE RecordFile
  <2>1. item \in Items
        BY <1>3 DEF TypeOK, RecordFile
  <2>2. ver'[i].exists = ver[i].exists /\ ver'[i].number = ver[i].number
        BY <1>3, <1>v, <2>1 DEF RecordFile, RecordedRow, VersionRow
  <2> QED
        BY <1>1, <2>2
<1>4. CASE DemoteOthers
  <2>1. \A c : Demoted(c)[i].exists = ver[i].exists /\ Demoted(c)[i].number = ver[i].number
        BY <1>v DEF Demoted, VersionRow
  <2>2. ver'[i].exists = ver[i].exists /\ ver'[i].number = ver[i].number
        BY <1>4, <2>1 DEF DemoteOthers
  <2> QED
        BY <1>1, <2>2
<1>5. CASE PromoteChosen
  <2>1. ver'[i].exists = ver[i].exists /\ ver'[i].number = ver[i].number
        BY <1>5, <1>v DEF PromoteChosen, VersionRow
  <2> QED
        BY <1>1, <2>1
<1>6. CASE UNCHANGED ver
      BY <1>1, <1>6
<1> QED
    BY <1>2, <1>3, <1>4, <1>5, <1>6
    DEF Next, SharePoint, RunStep, Fault, vars, PutItem, WithdrawItem, StartRun, ListItem,
      FinishListing, BeginGroup, GetOrCreateDocument, SaveDocument, RejectVersion, Fetch,
      FetchFails, DeleteOldFile, StoreFile, NoCandidate, FinishRun, ListingFails,
      GroupFails, StoreFails, Crash

SyncInv == FlagInv /\ RowsNumbered

LEMMA SyncInit == SigningInit => SyncInv
BY FlagInit DEF SigningInit, SyncInv, RowsNumbered, Init, NoVersion

\* Whatever the requests and the administrators do, the sync's invariant holds.
LEMMA SyncInvStep == SyncInv /\ [SigningNext]_<<vars, signing>> => SyncInv'
<1> SUFFICES ASSUME SyncInv, [SigningNext]_<<vars, signing>> PROVE SyncInv'
    OBVIOUS
<1>1. [Next]_vars
      BY DEF SigningNext, SyncStep, Assign, Unassign, LoadVersion, RefuseCard,
        RefuseVersion, PassChecks, InsertSignature
<1> QED
    BY <1>1, FlagStep, RowsNumberedStep DEF SyncInv, FlagInv

-----------------------------------------------------------------------------
(* Types. *)

LEMMA SigningTypeInit == SigningInit => SigningTypeOK
BY DEF SigningInit, SigningTypeOK, NoRequest, NumbersOrNone, Answers, Request

LEMMA SigningTypeStep ==
  SyncInv /\ SigningTypeOK /\ [SigningNext]_<<vars, signing>> => SigningTypeOK'
<1> SUFFICES ASSUME SyncInv, SigningTypeOK, [SigningNext]_<<vars, signing>>
             PROVE  SigningTypeOK'
    OBVIOUS
<1> USE DEF SigningTypeOK
\* Only pc, or only the ghost field, of a request changes, and pc not back to "new".
<1>a. ASSUME NEW r \in Requests, NEW answer \in {"checked"} \cup Answers,
             req[r].pc # "new", Answer(r, answer)
      PROVE  /\ req' \in [Requests -> Request]
             /\ \A q \in Requests : req'[q].pc # "new" =>
                  req'[q].user \in Users /\ req'[q].version \in Items /\ req'[q].number \in Numbers
  <2>1. [req[r] EXCEPT !.pc = answer] \in Request
        BY DEF Request
  <2>2. req' \in [Requests -> Request]
        BY <1>a, <2>1 DEF Answer
  <2>3. \A q \in Requests : /\ req'[q].user = req[q].user
                            /\ req'[q].version = req[q].version
                            /\ req'[q].number = req[q].number
                            /\ req'[q].pc # "new" => req[q].pc # "new"
        BY <1>a DEF Answer, Request
  <2> QED
        BY <2>2, <2>3
<1>b. ASSUME DisturbOpen
      PROVE  /\ req' \in [Requests -> Request]
             /\ \A q \in Requests : req'[q].pc # "new" =>
                  req'[q].user \in Users /\ req'[q].version \in Items /\ req'[q].number \in Numbers
  <2>1. \A r \in Requests : [req[r] EXCEPT !.disturbed = @ \/ Open(r)] \in Request
        BY DEF Open, Request
  <2>2. req' \in [Requests -> Request]
        BY <1>b, <2>1 DEF DisturbOpen
  <2>3. \A q \in Requests : /\ req'[q].user = req[q].user
                            /\ req'[q].version = req[q].version
                            /\ req'[q].number = req[q].number
                            /\ req'[q].pc = req[q].pc
        BY <1>b DEF DisturbOpen, Request
  <2> QED
        BY <2>2, <2>3
<1>1. CASE SyncStep
      BY <1>1, <1>b DEF SyncStep
<1>2. ASSUME NEW u \in Users, NEW i \in Items, Assign(u, i) \/ Unassign(u, i)
      PROVE  SigningTypeOK'
  <2>1. CASE Assign(u, i)
    <3>1. assigned' \in SUBSET (Users \X Items)
      <4>1. assigned' = assigned \cup {<<u, i>>}
            BY <2>1 DEF Assign
      <4> QED
          BY <4>1
    <3>2. UNCHANGED <<signatures, req>>
          BY <2>1 DEF Assign
    <3> QED
        BY <3>1, <3>2
  <2>2. CASE Unassign(u, i)
        BY <1>b, <2>2 DEF Unassign
  <2> QED
        BY <1>2, <2>1, <2>2
<1>3. ASSUME NEW r \in Requests, NEW u \in Users, NEW i \in Items, LoadVersion(r, u, i)
      PROVE  SigningTypeOK'
  <2>1. ver[i].number \in Numbers /\ ver[i].current \in BOOLEAN
        BY <1>3 DEF LoadVersion, SyncInv, RowsNumbered, FlagInv, TypeOK, VersionRow
  <2>2. doc[ver[i].number].active \in BOOLEAN
        BY <2>1 DEF SyncInv, FlagInv, TypeOK, DocumentRow
  <2> QED
        BY <1>3, <2>1, <2>2 DEF LoadVersion, NumbersOrNone, Request
<1>4. ASSUME NEW r \in Requests, RefuseCard(r) \/ RefuseVersion(r) \/ PassChecks(r)
      PROVE  SigningTypeOK'
      BY <1>4, <1>a DEF RefuseCard, RefuseVersion, PassChecks, Answers
<1>5. ASSUME NEW r \in Requests, InsertSignature(r)
      PROVE  SigningTypeOK'
  <2>1. CASE Duplicate(r)
        BY <1>5, <1>a, <2>1 DEF InsertSignature, Answers
  <2>2. CASE ~Duplicate(r)
    <3>1. [user |-> req[r].user, version |-> req[r].version, request |-> r] \in
            [user : Users, version : Items, request : Requests]
          BY <1>5 DEF InsertSignature
    <3>2. signatures' \in SUBSET [user : Users, version : Items, request : Requests]
          BY <1>5, <2>2, <3>1 DEF InsertSignature
    <3> QED
        BY <1>5, <1>a, <2>2, <3>2 DEF InsertSignature, Answers
  <2> QED
        BY <2>1, <2>2
<1>6. CASE UNCHANGED signing
      BY <1>6
<1> QED
    BY <1>1, <1>2, <1>3, <1>4, <1>5, <1>6 DEF SigningNext

\* The assignments, the signatures and the requests keep their types.
THEOREM SigningTypeCorrect == SigningSpec => []SigningTypeOK
<1> QED
    BY SyncInit, SyncInvStep, SigningTypeInit, SigningTypeStep, PTL DEF SigningSpec

-----------------------------------------------------------------------------
(* One row for each successful answer. *)

\* A row of the table carries the request that inserted it; only an insertion counts.
LEMMA OneRowStep ==
  SigningTypeOK /\ OneRowPerAnswer /\ [SigningNext]_<<vars, signing>> => OneRowPerAnswer'
<1> SUFFICES ASSUME SigningTypeOK, OneRowPerAnswer, [SigningNext]_<<vars, signing>>
             PROVE  OneRowPerAnswer'
    OBVIOUS
\* Requests that do not become, and do not cease to be, "created".
<1>a. ASSUME UNCHANGED signatures,
             \A r \in Requests : req'[r].pc = "created" <=> req[r].pc = "created"
      PROVE  OneRowPerAnswer'
      BY <1>a DEF OneRowPerAnswer
<1>b. ASSUME UNCHANGED signatures, DisturbOpen
      PROVE  OneRowPerAnswer'
      BY <1>a, <1>b DEF DisturbOpen, SigningTypeOK, Request
<1>1. CASE SyncStep
      BY <1>1, <1>a, <1>b DEF SyncStep
<1>2. ASSUME NEW u \in Users, NEW i \in Items, Assign(u, i) \/ Unassign(u, i)
      PROVE  OneRowPerAnswer'
      BY <1>2, <1>a, <1>b DEF Assign, Unassign
<1>3. ASSUME NEW r \in Requests, NEW u \in Users, NEW i \in Items, LoadVersion(r, u, i)
      PROVE  OneRowPerAnswer'
      BY <1>3, <1>a DEF LoadVersion, SigningTypeOK
<1>4. ASSUME NEW r \in Requests, RefuseCard(r) \/ RefuseVersion(r) \/ PassChecks(r)
      PROVE  OneRowPerAnswer'
      BY <1>4, <1>a DEF RefuseCard, RefuseVersion, PassChecks, Answer, SigningTypeOK, Request
<1>5. ASSUME NEW r \in Requests, InsertSignature(r)
      PROVE  OneRowPerAnswer'
  <2>1. CASE Duplicate(r)
        BY <1>5, <1>a, <2>1 DEF InsertSignature, Answer, SigningTypeOK, Request
  <2>2. CASE ~Duplicate(r)
    <3> DEFINE new == [user |-> req[r].user, version |-> req[r].version, request |-> r]
    <3>1. signatures' = signatures \cup {new} /\ Answer(r, "created")
          BY <1>5, <2>2 DEF InsertSignature
    <3>2. \A s \in signatures : ~(s.user = new.user /\ s.version = new.version)
          BY <2>2 DEF Duplicate, Signed
    <3>3. \A s, t \in signatures' : s.user = t.user /\ s.version = t.version => s = t
          BY <3>1, <3>2 DEF OneRowPerAnswer
    <3>4. \A q \in Requests : req'[q].pc = "created" <=> q = r \/ req[q].pc = "created"
          BY <3>1 DEF Answer, SigningTypeOK
    <3>5. \A q \in Requests :
            (\E s \in signatures' : s.request = q) <=> q = r \/ \E s \in signatures : s.request = q
      <4> SUFFICES ASSUME NEW q \in Requests
                   PROVE  (\E s \in signatures' : s.request = q)
                            <=> q = r \/ \E s \in signatures : s.request = q
          OBVIOUS
      <4>1. new \in signatures' /\ new.request = r
            BY <3>1
      <4>2. \A s \in signatures' : s \in signatures \/ s = new
            BY <3>1
      <4>3. signatures \subseteq signatures'
            BY <3>1
      <4> HIDE DEF new
      <4> QED
          BY <4>1, <4>2, <4>3
    <3> QED
        BY <3>3, <3>4, <3>5 DEF OneRowPerAnswer
  <2> QED
        BY <2>1, <2>2
<1>6. CASE UNCHANGED signing
      BY <1>6, <1>a
<1> QED
    BY <1>1, <1>2, <1>3, <1>4, <1>5, <1>6 DEF SigningNext

\* However requests overlap, a user signs a version once, and exactly the requests
\* answered with 201 left a row.
THEOREM OneRowForEachAnswer == SigningSpec => []OneRowPerAnswer
<1>1. SigningInit => OneRowPerAnswer
      BY DEF SigningInit, OneRowPerAnswer, NoRequest
<1> QED
    BY <1>1, OneRowStep, SigningTypeCorrect, PTL DEF SigningSpec

-----------------------------------------------------------------------------
(* A new version reappears. *)

\* At most one current version per document, outside the group in progress and those a
\* crash or an exception cut short, leaves no signature of an older one to hide it.
THEOREM RevisionsReappear == SigningSpec => []RevisionReappears
<1>1. SyncInv => RevisionReappears
  <2> SUFFICES ASSUME SyncInv, NEW u \in Users, NEW i \in Items,
                      ver[i].current, ver[i].file,
                      ver[i].number \notin torn \cup {group},
                      doc[ver[i].number].active, <<u, i>> \in assigned, ~Signed(u, i)
               PROVE  ver[i].number \in Unsigned(u)
      BY DEF RevisionReappears
  <2>1. ver[i].exists /\ ver[i].number \in Numbers
        BY DEF SyncInv, FlagInv, FlagsInOrder, RowsNumbered
  <2>2. i \in CurrentVersions(ver[i].number)
        BY <2>1 DEF CurrentVersions, Versions
  <2>3. OneCurrent(ver[i].number)
        BY <2>1 DEF SyncInv, FlagInv, FlagsInOrder, OneCurrentOrTorn
  <2>4. \A j \in CurrentVersions(ver[i].number) : j = i
        BY <2>3 DEF OneCurrent, CurrentVersions, Versions
  <2> QED
        BY <2>1, <2>2, <2>4 DEF Unsigned, Visible
<1> QED
    BY <1>1, SyncInit, SyncInvStep, PTL DEF SigningSpec

\* A document on the unsigned list has one current version, outside the group in progress
\* and those a crash or an exception cut short; it has the file the list asks for, and a
\* file that is gone is fetched again.
THEOREM ListedCanAlwaysBeOpened == SigningSpec => []ListedCanBeOpened
<1>1. SyncInv /\ FileInv => ListedCanBeOpened
  <2> SUFFICES ASSUME SyncInv, FileInv, NEW u \in Users,
                      NEW n \in Unsigned(u) \ (torn \cup {group}),
                      NEW i \in CurrentVersions(n)
               PROVE  Served(u, i) /\ (disk[i] = 0 => ver[i].etag < remote[i].etag)
      BY DEF ListedCanBeOpened
  <2>1. n \in Numbers /\ Visible(u, n)
        BY DEF Unsigned
  <2>2. PICK j \in CurrentVersions(n) : ver[j].file
        BY DEF Unsigned
  <2>3. OneCurrent(n)
        BY <2>1 DEF SyncInv, FlagInv, FlagsInOrder, OneCurrentOrTorn
  <2>4. i = j /\ i \in Items /\ ver[i].exists /\ ver[i].number = n
        BY <2>3 DEF OneCurrent, CurrentVersions, Versions
  <2> QED
      BY <2>1, <2>2, <2>4 DEF Served, FileInv, LostFileIsRefetched
<1>2. SigningInit => FileInv
      BY FileInit DEF SigningInit
<1>3. FileInv /\ [SigningNext]_<<vars, signing>> => FileInv'
  <2>1. [SigningNext]_<<vars, signing>> => [Next]_vars
        BY DEF SigningNext, SyncStep, Assign, Unassign, LoadVersion, RefuseCard,
          RefuseVersion, PassChecks, InsertSignature
  <2> QED
      BY <2>1, FileStep
<1> QED
    BY <1>1, <1>2, <1>3, SyncInit, SyncInvStep, PTL DEF SigningSpec

-----------------------------------------------------------------------------
(* Only stale reads get past the checks. *)

\* While nobody changed documents, versions or assignments under an open request, its
\* objects are those of the database and its checks still hold.
UpToDate(r) ==
  /\ ver[req[r].version].number = req[r].number
  /\ req[r].current => ver[req[r].version].current
  /\ req[r].pc = "checked" => req[r].current /\ Visible(req[r].user, req[r].number)

OpenUpToDate == \A r \in Requests : Open(r) /\ ~req[r].disturbed => UpToDate(r)

LEMMA UpToDateStep ==
  SigningTypeOK /\ OpenUpToDate /\ [SigningNext]_<<vars, signing>> => OpenUpToDate'
<1> SUFFICES ASSUME SigningTypeOK, OpenUpToDate, [SigningNext]_<<vars, signing>>,
                    NEW q \in Requests, Open(q)', ~req'[q].disturbed
             PROVE  UpToDate(q)'
    BY DEF OpenUpToDate
\* A request that is not touched, over tables that keep what it relies on.
<1>a. ASSUME UNCHANGED <<doc, ver>>, assigned \subseteq assigned', req'[q] = req[q]
      PROVE  UpToDate(q)'
  <2>1. UpToDate(q)
        BY <1>a DEF OpenUpToDate, Open
  <2> QED
        BY <1>a, <2>1 DEF UpToDate, Visible, CurrentVersions, Versions
<1>b. ASSUME DisturbOpen
      PROVE  UpToDate(q)'
      BY <1>b DEF DisturbOpen, Open, SigningTypeOK, Request
<1>1. CASE SyncStep
  <2>1. CASE <<doc, ver>>' = <<doc, ver>>
        BY <1>1, <1>a, <2>1 DEF SyncStep
  <2> QED
        BY <1>1, <1>b, <2>1 DEF SyncStep
<1>2. ASSUME NEW u \in Users, NEW i \in Items, Assign(u, i)
      PROVE  UpToDate(q)'
      BY <1>2, <1>a DEF Assign, vars
<1>3. ASSUME NEW u \in Users, NEW i \in Items, Unassign(u, i)
      PROVE  UpToDate(q)'
      BY <1>3, <1>b DEF Unassign
<1>4. ASSUME NEW r \in Requests, NEW u \in Users, NEW i \in Items, LoadVersion(r, u, i)
      PROVE  UpToDate(q)'
  <2>1. CASE r = q
        BY <1>4, <2>1 DEF LoadVersion, UpToDate, SigningTypeOK, vars
  <2>2. CASE r # q
    <3>1. UNCHANGED <<doc, ver, assigned>> /\ req'[q] = req[q]
          BY <1>4, <2>2 DEF LoadVersion, SigningTypeOK, vars
    <3> QED
        BY <1>a, <3>1
  <2> QED
        BY <2>1, <2>2
<1>5. ASSUME NEW r \in Requests,
             RefuseCard(r) \/ RefuseVersion(r) \/ PassChecks(r) \/ InsertSignature(r)
      PROVE  UpToDate(q)'
  <2>1. UNCHANGED <<doc, ver, assigned>>
        BY <1>5 DEF RefuseCard, RefuseVersion, PassChecks, InsertSignature, vars
  <2>2. CASE r = q
    <3>1. PassChecks(q)
      <4>1. ASSUME NEW answer \in Answers, Answer(q, answer)
            PROVE  FALSE
            BY <4>1 DEF Answer, Open, Answers, SigningTypeOK, Request
      <4> QED
          BY <1>5, <2>2, <4>1
          DEF RefuseCard, RefuseVersion, InsertSignature, Answers
    <3>2. UpToDate(q) /\ MayPass(q) /\ req'[q] = [req[q] EXCEPT !.pc = "checked"]
          BY <3>1 DEF OpenUpToDate, Open, PassChecks, Answer, SigningTypeOK
    <3>3. /\ req'[q].user = req[q].user /\ req'[q].version = req[q].version
          /\ req'[q].number = req[q].number /\ req'[q].current = req[q].current
          BY <3>2 DEF SigningTypeOK
    <3> QED
        BY <2>1, <3>2, <3>3 DEF UpToDate, MayPass, Visible, CurrentVersions, Versions
  <2>3. CASE r # q
    <3>1. req'[q] = req[q]
          BY <1>5, <2>3
          DEF RefuseCard, RefuseVersion, PassChecks, InsertSignature, Answer, SigningTypeOK
    <3> QED
        BY <1>a, <2>1, <3>1
  <2> QED
        BY <2>2, <2>3
<1>6. CASE UNCHANGED <<vars, signing>>
      BY <1>6, <1>a DEF vars
<1> QED
    BY <1>1, <1>2, <1>3, <1>4, <1>5, <1>6 DEF SigningNext

\* A signature made while nobody changed documents, versions or assignments under the
\* request is for a current version the user can see.
THEOREM UndisturbedIsAlwaysValid == SigningSpec => UndisturbedIsValid
<1> DEFINE Valid(r) ==
      req[r].pc = "checked" /\ req'[r].pc = "created" /\ ~req[r].disturbed =>
        /\ ver[req[r].version].current
        /\ Visible(req[r].user, ver[req[r].version].number)
<1>1. SigningInit => OpenUpToDate
      BY DEF SigningInit, OpenUpToDate, Open, NoRequest
<1>2. ASSUME OpenUpToDate, NEW r \in Requests
      PROVE  Valid(r)
      BY <1>2 DEF OpenUpToDate, Open, UpToDate
<1>3. OpenUpToDate => \A r \in Requests : Valid(r)
      BY <1>2
<1> QED
    BY <1>1, <1>3, UpToDateStep, SigningTypeCorrect, PTL DEF SigningSpec, UndisturbedIsValid

=============================================================================
