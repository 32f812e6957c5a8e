---------------------------- MODULE Notifications ----------------------------
(***************************************************************************)
(* Who is told that a document waits for a signature: the notifications    *)
(* the sync creates after each group, the reminders of the send_reminders  *)
(* task and of the remind_unsigned command, and the reports of who has not *)
(* signed. The tables of assignments, users and flags are those of         *)
(* Visibility and change at any moment.                                    *)
(*                                                                         *)
(* A job is a process that comes to the document: the nightly sync or one  *)
(* started by hand, the task or the command. It makes one query after the  *)
(* other and inserts its rows in one statement; the jobs know nothing of   *)
(* each other, and a job that raises or is killed leaves nothing behind.   *)
(***************************************************************************)
EXTENDS Visibility, Sequences

CONSTANTS
  Jobs,      \* processes that can work on the document at once
  MaxEvents  \* bound on what administrators, users and failures do

ASSUME JobsAssumption   == IsFiniteSet(Jobs)
ASSUME EventsAssumption == MaxEvents \in Nat

VARIABLES
  inbox,   \* table Notification: user -> the rows of this document, oldest first
  signed,  \* table Signature: <<user, version>>
  job,     \* what each job has read so far
  events   \* number of changes, readings, signatures and failures so far

nvars == <<vars, inbox, signed, job, events>>

Kinds == {"sync", "reminders"}

NotificationRow == [kind : Kinds, read : BOOLEAN]

\* The query a job makes next.
Queries == {"idle", "current", "gate", "signed", "version", "rules", "told", "users", "insert"}

JobRecord ==
  [kind : Kinds,
   next : Queries,
   version : Versions \cup {0},        \* a current version, 0 stands for None
   signedOf : Versions \cup {0},       \* the version whose signatures are excluded
   all : BOOLEAN,                      \* no condition on the users has been found
   rules : SUBSET (Slots \X Types),    \* or these assignments, with the types they had
   told : SUBSET Users,                \* already_notified_ids
   rows : SUBSET Users,                \* whose rows are about to be inserted
   disturbed : BOOLEAN]                \* the tables have changed since the first of the
                                       \* queries for the recipients

Idle ==
  [kind |-> "sync", next |-> "idle", version |-> 0, signedOf |-> 0, all |-> FALSE,
   rules |-> {}, told |-> {}, rows |-> {}, disturbed |-> FALSE]

-----------------------------------------------------------------------------
(* Who has not signed? The answers of queries between which nothing changes. *)

\* get_signed_users_for_document
HasSigned(u) == \E v \in Versions : IsFirstCurrent(v) /\ <<u, v>> \in signed

\* Of whom get_unsigned_users_for_document asks who has signed: nobody, if the current
\* version is not assigned now.
Recipients ==
  {u \in RequiredUsers : \E v \in Versions : IsFirstCurrent(v) /\ ActiveNow(v) # {}}

\* get_unsigned_users_for_document
UnsignedUsers == {u \in Recipients : ~HasSigned(u)}

\* UnsignedReportView: without a version everybody is required and nobody has signed.
UnsignedReport == {u \in RequiredUsers : ~HasSigned(u)}

\* get_unsigned_documents, the user's own list (which the file is left out of here)
Listed(u) == Visible(u) /\ \A v \in CurrentVersions : <<u, v>> \notin signed

-----------------------------------------------------------------------------
(* The jobs, query by query. *)

\* create_notifications_for_document asks whether anything is assigned, for the required
\* users and at last who was told; create_reminder_notification_for_document asks that
\* first, and besides who has signed. The users themselves come with the last query,
\* into which the query sets built before it are compiled.
After ==
  [sync |-> [current |-> "gate", gate |-> "version", version |-> "rules",
             rules |-> "told", told |-> "users"],
   reminders |-> [told |-> "current", current |-> "gate", gate |-> "signed",
                  signed |-> "version", version |-> "rules", rules |-> "users"]]

\* Nobody looks at is_active: the sync comes to every document of the listing, invalid
\* ones included, the command takes any number.
Begin(j, k) ==
  /\ job[j].next = "idle"
  /\ job' = [job EXCEPT ![j] =
       [Idle EXCEPT !.kind = k, !.next = IF k = "sync" THEN "current" ELSE "told"]]
  /\ UNCHANGED <<vars, inbox, signed, events>>

\* document.current_version, once per use
FirstCurrent == {v \in Versions : IsFirstCurrent(v)}

CurrentOrNone == IF FirstCurrent = {} THEN {0} ELSE FirstCurrent

\* current = document.current_version; if current is None: return
ReadCurrent(j) ==
  /\ job[j].next = "current"
  /\ \E v \in CurrentOrNone :
       job' = [job EXCEPT ![j] =
                 IF v = 0 THEN Idle
                 ELSE [job[j] EXCEPT !.next = After[job[j].kind]["current"], !.version = v,
                                !.disturbed = FALSE]]
  /\ UNCHANGED <<vars, inbox, signed, events>>

\* Faulty variant: nobody asks whether the version is assigned at all.
PassGateUnasked(j) ==
  /\ job[j].next = "gate"
  /\ job' = [job EXCEPT ![j] =
       [job[j] EXCEPT !.next = After[job[j].kind]["gate"], !.version = 0]]
  /\ UNCHANGED <<vars, inbox, signed, events>>

\* if not current.assignments.active_now().exists(): return
PassGate(j) ==
  /\ job[j].next = "gate"
  /\ job' = [job EXCEPT ![j] =
       IF ActiveNow(job[j].version) = {} THEN Idle
       ELSE [job[j] EXCEPT !.next = After[job[j].kind]["gate"], !.version = 0]]
  /\ UNCHANGED <<vars, inbox, signed, events>>

\* get_signed_users_for_document, whose signatures are a part of the last query
ReadSigned(j) ==
  /\ job[j].next = "signed"
  /\ \E v \in CurrentOrNone :
       job' = [job EXCEPT ![j] =
                 [job[j] EXCEPT !.next = After[job[j].kind]["signed"], !.signedOf = v]]
  /\ UNCHANGED <<vars, inbox, signed, events>>

\* get_required_users: current = document.current_version
ReadVersion(j) ==
  /\ job[j].next = "version"
  /\ \E v \in CurrentOrNone :
       job' = [job EXCEPT ![j] =
                 [job[j] EXCEPT !.next = After[job[j].kind]["version"], !.version = v]]
  /\ UNCHANGED <<vars, inbox, signed, events>>

\* The rest of get_required_users and the loop of get_assigned_users: without a version or
\* an assignment in force, everybody; a rule without a condition is neutral to |. Both ask
\* for the assignments; whichever finds none selects everybody, so one read stands for two.
ReadRules(j) ==
  LET found == {a \in ActiveNow(job[j].version) : assignment[a].target.type # "ALL"}
  IN  /\ job[j].next = "rules"
      /\ job' = [job EXCEPT ![j] =
           [job[j] EXCEPT !.next = After[job[j].kind]["rules"],
                     !.version = 0,
                     !.all = found = {},
                     !.rules = {<<a, assignment[a].target.type>> : a \in found}]]
      /\ UNCHANGED <<vars, inbox, signed, events>>

\* Faulty variant: what has been read is forgotten.
ToldUnread(u) == \E n \in DOMAIN inbox[u] : ~inbox[u][n].read

\* already_notified_ids: by document, whatever the kind, the version and the flag.
Told(u) == inbox[u] # << >>

ReadTold(j) ==
  /\ job[j].next = "told"
  /\ job' = [job EXCEPT ![j] =
       [job[j] EXCEPT !.next = After[job[j].kind]["told"],
                      !.told = {u \in Users : Told(u)}]]
  /\ UNCHANGED <<vars, inbox, signed, events>>

\* Whom the rules a job has read select among the active users of now. The members of an
\* assignment are looked up now, by the type it had.
Selected(j) ==
  {u \in Users :
     /\ active[u]
     /\ \/ job[j].all
        \/ \E r \in job[j].rules :
             u \in MatchingUserQ([assignment[r[1]].target EXCEPT !.type = r[2]]).holds}

\* Faulty variant: a document somebody was told of is done.
AddresseesOnce(j) ==
  {u \in Selected(j) : job[j].told = {} /\ <<u, job[j].signedOf>> \notin signed}

\* A reminder goes only to those who got no notification either.
Addressees(j) ==
  {u \in Selected(j) : u \notin job[j].told /\ <<u, job[j].signedOf>> \notin signed}

\* A job that finds nobody ends.
ReadUsers(j) ==
  /\ job[j].next = "users"
  /\ job' = [job EXCEPT ![j] =
       IF Addressees(j) = {} THEN Idle
       ELSE [Idle EXCEPT !.kind = job[j].kind, !.next = "insert", !.rows = Addressees(j)]]
  /\ UNCHANGED <<vars, inbox, signed, events>>

\* bulk_create
Insert(j) ==
  /\ job[j].next = "insert"
  /\ inbox' = [u \in Users |->
       IF u \in job[j].rows
         THEN Append(inbox[u], [kind |-> job[j].kind, read |-> FALSE])
         ELSE inbox[u]]
  /\ job' = [job EXCEPT ![j] = Idle]
  /\ UNCHANGED <<vars, signed, events>>

Work(j) ==
  \/ ReadCurrent(j) \/ PassGate(j) \/ ReadSigned(j) \/ ReadVersion(j) \/ ReadRules(j)
  \/ ReadTold(j) \/ ReadUsers(j) \/ Insert(j)

-----------------------------------------------------------------------------
(* What happens beside the jobs. *)

\* An exception, which the sync catches for the group and the task does not, or a kill.
Fails(j) ==
  /\ job[j].next # "idle"
  /\ job' = [job EXCEPT ![j] = Idle]
  /\ UNCHANGED <<vars, inbox, signed>>

\* A row of a job is deleted: it has no members any more, whoever gets its slot.
KeptRules(j) == {r \in job[j].rules : assignment'[r[1]].exists}

\* The tables change under the jobs.
TablesChange ==
  /\ Next
  /\ job' = [j \in Jobs |->
       [job[j] EXCEPT
          !.rules = KeptRules(j),
          !.disturbed = @ \/ /\ job[j].next \notin {"idle", "insert"}
                             /\ <<now, assignment, current>>' # <<now, assignment, current>>]]
  /\ UNCHANGED <<inbox, signed>>

\* MarkAsReadView and the page of the kiosk
MarkAsRead(u) ==
  /\ \E n \in DOMAIN inbox[u] :
       /\ ~inbox[u][n].read
       /\ inbox' = [inbox EXCEPT ![u][n].read = TRUE]
  /\ UNCHANGED <<vars, signed, job>>

\* create_signature of a version the user has in front of him
Sign(u, v) ==
  /\ v \in CurrentVersions
  /\ Visible(u)
  /\ signed' = signed \cup {<<u, v>>}
  /\ UNCHANGED <<vars, inbox, job>>

Event ==
  /\ events < MaxEvents
  /\ events' = events + 1

NInit ==
  /\ Init
  /\ inbox = [u \in Users |-> << >>]
  /\ signed = {}
  /\ job = [j \in Jobs |-> Idle]
  /\ events = 0

NNext ==
  \/ \E j \in Jobs : Work(j) \/ \E k \in Kinds : Begin(j, k)
  \/ /\ Event
     /\ \/ TablesChange
        \/ \E j \in Jobs : Fails(j)
        \/ \E u \in Users : MarkAsRead(u) \/ \E v \in Versions : Sign(u, v)

NSpec == NInit /\ [][NNext]_nvars

\* The name beat sends for a task and the name the task is registered under: the worker
\* discards a message whose name it does not know.
BeatName == [sync |-> "documents.sync_documents", reminders |-> "notifications.send_reminders"]
TaskName == [sync |-> "documents.sync_documents", reminders |-> "send_reminders"]

\* A task that beat sends every day comes to the document, while it is published, whenever
\* a process is free again.
ComesAgain(k) == SF_nvars(published /\ \E j \in Jobs : Begin(j, k))

\* A job that runs goes on, and beat starts the tasks whose names agree.
Fairness ==
  /\ \A j \in Jobs : WF_nvars(Work(j))
  /\ \A k \in Kinds : BeatName[k] = TaskName[k] => ComesAgain(k)

NFairSpec == NSpec /\ Fairness

\* Were the names to agree, or an administrator to give the command every day.
NRemindedSpec == NFairSpec /\ ComesAgain("reminders")

-----------------------------------------------------------------------------
(* Properties. *)

NTypeOK ==
  /\ TypeOK
  /\ inbox \in [Users -> Seq(NotificationRow)]
  /\ signed \subseteq Users \X Versions
  /\ job \in [Jobs -> JobRecord]
  /\ \A j \in Jobs :
       /\ \A r \in job[j].rules : assignment[r[1]].exists
       /\ job[j].next \notin {"idle", "insert"} =>
            job[j].next \in DOMAIN After[job[j].kind] \cup {"users"}
  /\ events \in 0..MaxEvents

\* The jobs that have asked who was told, were not answered u, and have not inserted yet.
MayTell(u) ==
  {j \in Jobs :
     \/ job[j].next = "insert" /\ u \in job[j].rows
     \/ job[j].next = "users" /\ u \notin job[j].told
     \/ /\ job[j].kind = "reminders"
        /\ job[j].next \in {"current", "gate", "signed", "version", "rules"}
        /\ u \notin job[j].told}

\* Nobody is told more often than jobs overlap: a second row comes only from a job that
\* looked before the first was inserted (services.py:46 and 105), whatever is read, signed
\* or reassigned later. Nothing but the number of processes bounds the rows of one kind.
AtMostOncePerJob ==
  \A u \in Users : Told(u) => Len(inbox[u]) + Cardinality(MayTell(u)) <= Cardinality(Jobs)

\* Whoever a job selects of a published document can see it, as the docstrings at
\* services.py:37 and documents/services.py:84 have it, unless assignments, flags or the
\* clock moved since the job began to ask: get_required_users reads the current version
\* and its assignments again and takes nothing assigned for everybody. Changes of the
\* users are no excuse, and neither are two current versions.
UndisturbedToldCanSee ==
  [][\A j \in Jobs : ReadUsers(j) /\ published /\ ~job[j].disturbed =>
       \A u \in job'[j].rows : Visible(u)]_nvars

\* Everybody and somebody in particular: a mixture get_assigned_users does not add up
\* (AssignedIsUnion).
Mixed(v) ==
  /\ \E a \in ActiveNow(v) : assignment[a].target.type = "ALL"
  /\ \E a \in ActiveNow(v) : assignment[a].target.type # "ALL"

\* While one version is current, and assigned to everybody or to chosen targets but not
\* to both, the report, the reminders and the users' own lists give the same answer to
\* who has not signed.
ListsAgree ==
  \A v \in Versions :
    published /\ CurrentVersions = {v} /\ ActiveNow(v) # {} /\ ~Mixed(v) =>
      /\ UnsignedReport = UnsignedUsers
      /\ UnsignedUsers = {u \in Users : active[u] /\ Listed(u)}

\* Whoever stays among the recipients of a published document is told of it, if not by
\* the sync then by a reminder, however often jobs miss him because the tables move under
\* them or they fail. Events cease, by their bound; while they go on for ever, every job
\* may be interfered with.
RecipientsAreTold ==
  \A u \in Users : <>[](published /\ u \in Recipients) => <>Told(u)

\* remind_unsigned.py: "Posiela pripomienky na podpis dokumentov, ktore este neboli
\* podpisane." Whoever leaves a published document unsigned is reminded of it.
UnsignedAreReminded ==
  \A u \in Users :
    <>[](published /\ u \in UnsignedUsers) =>
      <>(\E n \in DOMAIN inbox[u] : inbox[u][n].kind = "reminders")

=============================================================================
