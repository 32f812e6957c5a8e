------------------------- MODULE NotificationsProofs -------------------------
(***************************************************************************)
(* Proofs about Visibility and Notifications. For any users, targets and   *)
(* windows the three matchers agree and the visible documents are those of *)
(* the assigned versions; for any number of jobs, whoever is told by one   *)
(* that nothing disturbed can see the document, nobody is told more often  *)
(* than jobs overlap, and the reports, the reminders and the users' lists  *)
(* agree on who has not signed.                                            *)
(***************************************************************************)
EXTENDS Notifications, TLAPS, FiniteSetTheorems, SequenceTheorems

USE DEF Types

-----------------------------------------------------------------------------
(* Visibility. *)

LEMMA TargetTyped ==
  ASSUME TypeOK, NEW a \in Slots
  PROVE  assignment[a].target \in TargetRecord
<1>1. NoTarget \in TargetRecord
  BY DEF NoTarget, TargetRecord
<1> QED BY <1>1, TargetsAssumption DEF TypeOK

\* The query over assignments and the method of one assignment agree.
LEMMA QueryMatchesMethod ==
  ASSUME NEW x \in TargetRecord, NEW u
  PROVE  MatchesUserQ(x, u) <=> MatchesUser(x, u)
BY DEF TargetRecord, MatchesUserQ, MatchesUser

\* The method agrees with the query over users.
LEMMA MethodMatchesUserQuery ==
  ASSUME NEW x \in TargetRecord, NEW u \in Users
  PROVE  MatchesUser(x, u) <=> u \in MatchingUserQ(x).holds
<1>1. unit[u] \in x.units => unit[u] # NoUnit
  BY NullsAssumption DEF TargetRecord
<1>2. profession[u] \in x.professions => profession[u] # NoProfession
  BY NullsAssumption DEF TargetRecord
<1>3. CASE x.type = "ALL"
  BY <1>3 DEF MatchesUser, MatchingUserQ, NoCondition
<1>4. CASE x.type = "BUSINESS_UNIT"
  BY <1>1, <1>4 DEF MatchesUser, MatchingUserQ, Condition
<1>5. CASE x.type = "PROFESSION_CATEGORY"
  BY <1>2, <1>5 DEF MatchesUser, MatchingUserQ, Condition
<1>6. CASE x.type = "BOTH"
  BY <1>1, <1>2, <1>6 DEF MatchesUser, MatchingUserQ, Condition
<1>7. CASE x.type = "USER"
  BY <1>7 DEF MatchesUser, MatchingUserQ, Condition
<1> QED BY <1>3, <1>4, <1>5, <1>6, <1>7 DEF TargetRecord

-----------------------------------------------------------------------------

\* A fresh database has the types.
LEMMA TypeInit == Init => TypeOK
<1> SUFFICES ASSUME Init PROVE TypeOK
  OBVIOUS
<1>1. assignment \in
        [Slots -> [exists : BOOLEAN, version : Versions \cup {0},
                   target : Targets \cup {NoTarget},
                   window : Windows \cup {<<NoTime, NoTime>>}]]
  BY DEF Init, NoAssignment
<1> QED BY <1>1, ClockAssumption DEF Init, TypeOK

\* Every change of a table keeps them.
LEMMA TypeStep == TypeOK /\ [Next]_vars => TypeOK'
<1> SUFFICES ASSUME TypeOK, [Next]_vars PROVE TypeOK'
  OBVIOUS
<1> USE DEF TypeOK
<1>1. ASSUME NEW a \in Slots, NEW v \in Versions, NEW x \in Targets, NEW w \in Windows,
             SaveAssignment(a, v, x, w)
      PROVE  TypeOK'
  BY <1>1 DEF SaveAssignment
<1>2. ASSUME NEW a \in Slots, RemoveAssignment(a)
      PROVE  TypeOK'
  BY <1>2 DEF RemoveAssignment, NoAssignment
<1>3. ASSUME NEW v \in Versions, SyncVersion(v)
      PROVE  TypeOK'
  BY <1>3 DEF SyncVersion
<1>4. CASE SyncDocument
  BY <1>4 DEF SyncDocument
<1>5. ASSUME NEW u \in Users, EditUser(u)
      PROVE  TypeOK'
  BY <1>5 DEF EditUser
<1>6. CASE Tick
  BY <1>6, ClockAssumption DEF Tick
<1>7. CASE UNCHANGED vars
  BY <1>7 DEF vars
<1> QED BY <1>1, <1>2, <1>3, <1>4, <1>5, <1>6, <1>7 DEF Next

\* The tables keep their types, and a deleted assignment leaves nothing behind.
THEOREM TypeCorrect == Spec => []TypeOK
BY TypeInit, TypeStep, PTL DEF Spec

\* The three places that decide whether an assignment applies to a user agree.
THEOREM MatchersAlwaysAgree == Spec => []MatchersAgree
<1>1. TypeOK => MatchersAgree
  BY TargetTyped, QueryMatchesMethod, MethodMatchesUserQuery DEF MatchersAgree
<1> QED BY <1>1, TypeCorrect, PTL

\* The two translations of the time window, the query of get_visible_documents and
\* active_now, select the same assignments.
LEMMA WindowsAgree ==
  ASSUME TypeOK, NEW v \in Versions, NEW a \in Slots
  PROVE  a \in ActiveNow(v) <=> /\ assignment[a].exists
                                /\ assignment[a].version = v
                                /\ TimeWindowQ(assignment[a].window)
<1>1. /\ assignment[a].window[1] \in Nat \cup {NoTime}
      /\ assignment[a].window[2] \in Nat \cup {NoTime}
  BY WindowsAssumption DEF TypeOK
<1>2. now \in Nat
  BY ClockAssumption DEF TypeOK
<1> QED BY <1>1, <1>2 DEF ActiveNow, TimeWindowQ

LEMMA VisibleIsActive ==
  ASSUME TypeOK, NEW u
  PROVE  Visible(u) <=>
           /\ published
           /\ \E v \in CurrentVersions : \E a \in ActiveNow(v) :
                MatchesUserQ(assignment[a].target, u)
<1>1. \A v \in CurrentVersions, a \in Slots :
        a \in ActiveNow(v) <=> a \in CurrentAssignments /\ assignment[a].version = v
  BY WindowsAgree DEF CurrentVersions, CurrentAssignments
<1>2. \A v : ActiveNow(v) \subseteq Slots
  BY DEF ActiveNow
<1>3. \A a \in CurrentAssignments : a \in Slots /\ assignment[a].version \in CurrentVersions
  BY DEF CurrentAssignments
<1> QED BY <1>1, <1>2, <1>3 DEF Visible

\* The visible documents are exactly those with a current assigned version.
THEOREM VisibleAlwaysIffAssigned == Spec => []VisibleIffAssigned
<1>1. TypeOK => VisibleIffAssigned
  <2> SUFFICES ASSUME TypeOK, NEW u \in Users
               PROVE  Visible(u) <=> AssignedVersions(u) \cap CurrentVersions # {}
    BY DEF VisibleIffAssigned
  <2>1. \A v \in Versions : \A a \in ActiveNow(v) :
          MatchesUserQ(assignment[a].target, u) <=> MatchesUser(assignment[a].target, u)
    BY TargetTyped, QueryMatchesMethod DEF ActiveNow
  <2> QED BY <2>1, VisibleIsActive DEF AssignedVersions, CurrentVersions
<1> QED BY <1>1, TypeCorrect, PTL

-----------------------------------------------------------------------------
(* Notifications. *)

\* A step of the tables below keeps their types, whatever the jobs do.
LEMMA TablesStep == TypeOK /\ [NNext]_nvars => TypeOK'
<1> SUFFICES ASSUME TypeOK, [NNext]_nvars PROVE TypeOK'
  OBVIOUS
<1>1. ASSUME NEW j \in Jobs, Work(j)
      PROVE  [Next]_vars
  BY <1>1 DEF Work, ReadCurrent, PassGate, ReadSigned, ReadVersion, ReadRules, ReadTold,
              ReadUsers, Insert
<1>2. [Next]_vars
  BY <1>1 DEF NNext, nvars, Begin, TablesChange, Fails, MarkAsRead, Sign
<1> QED BY <1>2, TypeStep

\* Whatever a job does next, its kind knows what comes after.
LEMMA AfterTyped ==
  ASSUME NEW k \in Kinds, NEW q \in DOMAIN After[k]
  PROVE  /\ After[k][q] \in Queries \ {"idle", "insert"}
         /\ After[k][q] \in DOMAIN After[k] \cup {"users"}
<1>1. CASE k = "sync"
  BY <1>1 DEF After, Queries
<1>2. CASE k = "reminders"
  BY <1>2 DEF After, Queries
<1> QED BY <1>1, <1>2 DEF Kinds

\* What NTypeOK says of one job.
JobOK(r) ==
  /\ r \in JobRecord
  /\ \A x \in r.rules : assignment[x[1]].exists
  /\ r.next \notin {"idle", "insert"} => r.next \in DOMAIN After[r.kind] \cup {"users"}

LEMMA IdleTyped == JobOK(Idle)
BY DEF Idle, JobOK, JobRecord, Kinds, Queries

LEMMA OneJobChanges ==
  ASSUME NTypeOK, UNCHANGED <<vars, inbox, signed, events>>,
         NEW j \in Jobs, NEW r, JobOK(r), job' = [job EXCEPT ![j] = r]
  PROVE  NTypeOK'
<1>1. \A i \in Jobs : JobOK(job[i])
  BY DEF NTypeOK, JobOK
<1>2. \A i \in Jobs : JobOK(job'[i])
  BY <1>1 DEF NTypeOK
<1>3. job' \in [Jobs -> JobRecord]
  BY DEF NTypeOK, JobOK
<1>4. TypeOK' /\ assignment' = assignment
  BY DEF NTypeOK, TypeOK, vars
<1> QED BY <1>2, <1>3, <1>4 DEF NTypeOK, JobOK

LEMMA NTypeInit == NInit => NTypeOK
BY TypeInit, IdleTyped, EventsAssumption DEF NInit, NTypeOK, JobOK

\* Every query leaves the job with what the next one needs.
LEMMA WorkTyped ==
  ASSUME NTypeOK, NEW j \in Jobs, Work(j)
  PROVE  NTypeOK'
<1> DEFINE k == job[j].kind
<1>t. JobOK(job[j]) /\ k \in Kinds
  BY DEF NTypeOK, JobOK, JobRecord
<1>n. ASSUME NEW q \in {"current", "gate", "signed", "version", "rules", "told"},
             job[j].next = q
      PROVE  /\ After[k][q] \in Queries \ {"idle", "insert"}
             /\ After[k][q] \in DOMAIN After[k] \cup {"users"}
  <2>1. q \in DOMAIN After[k]
    BY <1>t, <1>n DEF JobOK
  <2> QED BY <1>t, <2>1, AfterTyped
<1>v. CurrentOrNone \subseteq Versions \cup {0}
  BY DEF CurrentOrNone, FirstCurrent
<1>1. CASE ReadCurrent(j)
  <2>1. PICK v \in CurrentOrNone :
          job' = [job EXCEPT ![j] =
                    IF v = 0 THEN Idle
                    ELSE [job[j] EXCEPT !.next = After[k]["current"], !.version = v,
                                        !.disturbed = FALSE]]
    BY <1>1 DEF ReadCurrent
  <2>2. JobOK([job[j] EXCEPT !.next = After[k]["current"], !.version = v, !.disturbed = FALSE])
    BY <1>t, <1>n, <1>v, <1>1 DEF ReadCurrent, JobOK, JobRecord
  <2> QED BY <1>1, <2>1, <2>2, IdleTyped, OneJobChanges DEF ReadCurrent
<1>2. CASE PassGate(j)
  <2>1. JobOK([job[j] EXCEPT !.next = After[k]["gate"], !.version = 0])
    BY <1>t, <1>n, <1>2 DEF PassGate, JobOK, JobRecord
  <2> QED BY <1>2, <2>1, IdleTyped, OneJobChanges DEF PassGate
<1>3. CASE ReadSigned(j)
  <2>1. PICK v \in CurrentOrNone :
          job' = [job EXCEPT ![j] =
                    [job[j] EXCEPT !.next = After[k]["signed"], !.signedOf = v]]
    BY <1>3 DEF ReadSigned
  <2>2. JobOK([job[j] EXCEPT !.next = After[k]["signed"], !.signedOf = v])
    BY <1>t, <1>n, <1>v, <1>3 DEF ReadSigned, JobOK, JobRecord
  <2> QED BY <1>3, <2>1, <2>2, OneJobChanges DEF ReadSigned
<1>4. CASE ReadVersion(j)
  <2>1. PICK v \in CurrentOrNone :
          job' = [job EXCEPT ![j] =
                    [job[j] EXCEPT !.next = After[k]["version"], !.version = v]]
    BY <1>4 DEF ReadVersion
  <2>2. JobOK([job[j] EXCEPT !.next = After[k]["version"], !.version = v])
    BY <1>t, <1>n, <1>v, <1>4 DEF ReadVersion, JobOK, JobRecord
  <2> QED BY <1>4, <2>1, <2>2, OneJobChanges DEF ReadVersion
<1>5. CASE ReadRules(j)
  <2> DEFINE found == {a \in ActiveNow(job[j].version) : assignment[a].target.type # "ALL"}
             rules == {<<a, assignment[a].target.type>> : a \in found}
  <2>1. \A a \in found : /\ a \in Slots /\ assignment[a].exists
                         /\ assignment[a].target.type \in Types
    BY TargetTyped DEF ActiveNow, NTypeOK, TargetRecord
  <2>2. rules \subseteq Slots \X Types /\ \A x \in rules : assignment[x[1]].exists
    BY <2>1
  <2>3. JobOK([job[j] EXCEPT !.next = After[k]["rules"], !.version = 0,
                             !.all = found = {}, !.rules = rules])
    <3> HIDE DEF found, rules
    <3> QED BY <1>t, <1>n, <1>5, <2>2 DEF ReadRules, JobOK, JobRecord
  <2> QED BY <1>5, <2>3, OneJobChanges DEF ReadRules
<1>6. CASE ReadTold(j)
  <2>1. JobOK([job[j] EXCEPT !.next = After[k]["told"], !.told = {u \in Users : Told(u)}])
    BY <1>t, <1>n, <1>6 DEF ReadTold, JobOK, JobRecord
  <2> QED BY <1>6, <2>1, OneJobChanges DEF ReadTold
<1>7. CASE ReadUsers(j)
  <2>1. Addressees(j) \subseteq Users
    BY DEF Addressees, Selected
  <2>2. JobOK([Idle EXCEPT !.kind = k, !.next = "insert", !.rows = Addressees(j)])
    BY <1>t, <2>1 DEF Idle, JobOK, JobRecord, Queries
  <2> QED BY <1>7, <2>2, IdleTyped, OneJobChanges DEF ReadUsers
<1>8. CASE Insert(j)
  <2>1. [kind |-> k, read |-> FALSE] \in NotificationRow
    BY <1>t DEF NotificationRow
  <2>2. inbox' \in [Users -> Seq(NotificationRow)]
    BY <1>8, <2>1 DEF Insert, NTypeOK
  <2>3. job' = [job EXCEPT ![j] = Idle] /\ UNCHANGED <<vars, signed, events>>
    BY <1>8 DEF Insert
  <2>4. \A i \in Jobs : JobOK(job'[i])
    BY <2>3, IdleTyped DEF NTypeOK, JobOK
  <2>5. TypeOK' /\ assignment' = assignment
    BY <2>3 DEF NTypeOK, TypeOK, vars
  <2> QED BY <2>2, <2>3, <2>4, <2>5 DEF NTypeOK, JobOK
<1> QED BY <1>1, <1>2, <1>3, <1>4, <1>5, <1>6, <1>7, <1>8 DEF Work

\* The rows and the jobs keep their types.
LEMMA NTypeStep == NTypeOK /\ [NNext]_nvars => NTypeOK'
<1> SUFFICES ASSUME NTypeOK, [NNext]_nvars PROVE NTypeOK'
  OBVIOUS
<1>t. TypeOK'
  BY TablesStep DEF NTypeOK
<1>e. ASSUME Event
      PROVE  events' \in 0..MaxEvents
  BY <1>e, EventsAssumption DEF Event, NTypeOK
<1>1. ASSUME NEW j \in Jobs, Work(j)
      PROVE  NTypeOK'
  BY <1>1, WorkTyped
<1>2. ASSUME NEW j \in Jobs, NEW k \in Kinds, Begin(j, k)
      PROVE  NTypeOK'
  <2> DEFINE q == IF k = "sync" THEN "current" ELSE "told"
  <2>1. q \in Queries /\ q \in DOMAIN After[k]
    BY DEF Queries, After, Kinds
  <2>2. JobOK([Idle EXCEPT !.kind = k, !.next = q])
    BY <2>1 DEF Idle, JobOK, JobRecord
  <2> QED BY <1>2, <2>2, OneJobChanges DEF Begin
<1>3. CASE Event /\ TablesChange
  <2>1. ASSUME NEW i \in Jobs
        PROVE  /\ job'[i] \in JobRecord
               /\ \A x \in job'[i].rules : assignment'[x[1]].exists
               /\ job'[i].next = job[i].next /\ job'[i].kind = job[i].kind
    <3>1. job[i] \in JobRecord
      BY DEF NTypeOK
    <3>2. job'[i] = [job[i] EXCEPT
            !.rules = KeptRules(i),
            !.disturbed = @ \/ /\ job[i].next \notin {"idle", "insert"}
                               /\ <<now, assignment, current>>' # <<now, assignment, current>>]
      BY <1>3 DEF TablesChange
    <3>3. KeptRules(i) \subseteq job[i].rules
      BY DEF KeptRules
    <3>4. (job[i].disturbed \/ /\ job[i].next \notin {"idle", "insert"}
                               /\ <<now, assignment, current>>' # <<now, assignment, current>>)
            \in BOOLEAN
      BY <3>1 DEF JobRecord
    <3>5. \A x \in KeptRules(i) : assignment'[x[1]].exists
      BY DEF KeptRules
    <3> QED BY <3>1, <3>2, <3>3, <3>4, <3>5 DEF JobRecord
  <2>2. job' \in [Jobs -> JobRecord]
    BY <1>3, <2>1 DEF TablesChange
  <2> QED BY <1>t, <1>e, <1>3, <2>1, <2>2 DEF NTypeOK, TablesChange
<1>4. ASSUME Event, NEW j \in Jobs, Fails(j)
      PROVE  NTypeOK'
  <2>1. \A i \in Jobs : JobOK(job'[i])
    BY <1>4, IdleTyped DEF Fails, NTypeOK, JobOK
  <2>2. job' \in [Jobs -> JobRecord]
    BY <1>4, <2>1 DEF Fails, NTypeOK, JobOK
  <2>3. assignment' = assignment
    BY <1>4 DEF Fails, vars
  <2> QED BY <1>t, <1>e, <1>4, <2>1, <2>2, <2>3 DEF Fails, NTypeOK, JobOK
<1>5. ASSUME Event, NEW u \in Users, MarkAsRead(u)
      PROVE  NTypeOK'
  <2>1. PICK n \in DOMAIN inbox[u] : inbox' = [inbox EXCEPT ![u][n].read = TRUE]
    BY <1>5 DEF MarkAsRead
  <2>2. inbox[u] \in Seq(NotificationRow)
    BY DEF NTypeOK
  <2>3. inbox[u] \in [1..Len(inbox[u]) -> NotificationRow] /\ n \in 1..Len(inbox[u])
    BY <2>2
  <2>4. [inbox[u] EXCEPT ![n].read = TRUE] \in [1..Len(inbox[u]) -> NotificationRow]
    BY <2>3 DEF NotificationRow
  <2>5. [inbox[u] EXCEPT ![n].read = TRUE] \in Seq(NotificationRow)
    BY <2>2, <2>4, SeqDef
  <2>6. inbox' \in [Users -> Seq(NotificationRow)]
    BY <2>1, <2>5 DEF NTypeOK
  <2>7. assignment' = assignment
    BY <1>5 DEF MarkAsRead, vars
  <2> QED BY <1>t, <1>e, <1>5, <2>6, <2>7 DEF MarkAsRead, NTypeOK
<1>6. ASSUME Event, NEW u \in Users, NEW v \in Versions, Sign(u, v)
      PROVE  NTypeOK'
  <2>1. assignment' = assignment
    BY <1>6 DEF Sign, vars
  <2> QED BY <1>t, <1>e, <1>6, <2>1 DEF Sign, NTypeOK
<1>7. CASE UNCHANGED nvars
  <2>1. assignment' = assignment
    BY <1>7 DEF nvars, vars
  <2> QED BY <1>t, <1>7, <2>1 DEF nvars, NTypeOK
<1> QED BY <1>1, <1>2, <1>3, <1>4, <1>5, <1>6, <1>7 DEF NNext

\* The tables, the inboxes and what the jobs have read keep their types.
THEOREM NTypeCorrect == NSpec => []NTypeOK
BY NTypeInit, NTypeStep, PTL DEF NSpec

-----------------------------------------------------------------------------
(* Nobody is told more often than jobs overlap. *)

\* Jobs come and go, and finitely many of them may tell a user.
LEMMA MayTellFinite ==
  ASSUME NEW u
  PROVE  /\ IsFiniteSet(MayTell(u))
         /\ Cardinality(MayTell(u)) \in Nat
         /\ Cardinality(Jobs) \in Nat
         /\ Cardinality(MayTell(u)) <= Cardinality(Jobs)
BY JobsAssumption, FS_Subset, FS_CardinalityType DEF MayTell

\* Only reminders ask who has signed.
LEMMA OnlyRemindersExclude ==
  ASSUME NTypeOK, NEW j \in Jobs, job[j].next = "signed"
  PROVE  job[j].kind = "reminders"
<1>1. "signed" \in DOMAIN After[job[j].kind] /\ job[j].kind \in Kinds
  BY DEF NTypeOK, JobRecord
<1> QED BY <1>1 DEF After, Kinds

\* Once a user has a row, no further job comes to tell him: whoever looks now finds it.
LEMMA NobodyElseTells ==
  ASSUME NTypeOK, [NNext]_nvars, NEW w \in Users, Told(w)
  PROVE  MayTell(w)' \subseteq MayTell(w)
<1> SUFFICES ASSUME NEW i \in Jobs, i \in MayTell(w)'
             PROVE  i \in MayTell(w)
  BY DEF MayTell
<1> USE DEF NTypeOK, MayTell
<1>t. job[i] \in JobRecord /\ job[i].kind \in Kinds
  BY DEF JobRecord
<1>1. ASSUME NEW j \in Jobs, Work(j), j # i
      PROVE  job'[i] = job[i]
  BY <1>1 DEF Work, ReadCurrent, PassGate, ReadSigned, ReadVersion, ReadRules, ReadTold,
              ReadUsers, Insert
<1>2. CASE Work(i)
  <2>1. CASE ReadCurrent(i)
    BY <1>t, <2>1 DEF ReadCurrent, After, Idle, Kinds, JobRecord
  <2>2. CASE PassGate(i)
    BY <1>t, <2>2 DEF PassGate, After, Idle, Kinds, JobRecord
  <2>3. CASE ReadSigned(i)
    <3>1. PICK v \in CurrentOrNone :
            job' = [job EXCEPT ![i] =
                      [job[i] EXCEPT !.next = After[job[i].kind]["signed"], !.signedOf = v]]
      BY <2>3 DEF ReadSigned
    <3>2. /\ job[i].next = "signed"
          /\ job'[i].next = After[job[i].kind]["signed"]
          /\ job'[i].kind = job[i].kind /\ job'[i].told = job[i].told
      BY <1>t, <2>3, <3>1 DEF ReadSigned, JobRecord
    <3>3. job[i].kind = "reminders"
      BY <3>2, OnlyRemindersExclude
    <3> QED BY <3>2, <3>3 DEF After
  <2>4. CASE ReadVersion(i)
    BY <1>t, <2>4 DEF ReadVersion, After, Kinds, JobRecord
  <2>5. CASE ReadRules(i)
    BY <1>t, <2>5 DEF ReadRules, After, Kinds, JobRecord
  <2>6. CASE ReadTold(i)
    <3>1. job'[i].told = {u \in Users : Told(u)}
      BY <1>t, <2>6 DEF ReadTold, JobRecord
    <3>2. job'[i].next # "insert"
      BY <1>t, <2>6 DEF ReadTold, JobRecord, After, Kinds
    <3> QED BY <3>1, <3>2
  <2>7. CASE ReadUsers(i)
    BY <1>t, <2>7 DEF ReadUsers, Addressees, Idle, JobRecord
  <2>8. CASE Insert(i)
    BY <2>8 DEF Insert, Idle
  <2> QED BY <1>2, <2>1, <2>2, <2>3, <2>4, <2>5, <2>6, <2>7, <2>8 DEF Work
<1>3. ASSUME NEW j \in Jobs, NEW k \in Kinds, Begin(j, k)
      PROVE  i \in MayTell(w)
  BY <1>3 DEF Begin, Idle, Kinds
<1>4. CASE TablesChange
  <2>1. /\ job'[i].kind = job[i].kind /\ job'[i].next = job[i].next
        /\ job'[i].told = job[i].told /\ job'[i].rows = job[i].rows
    BY <1>t, <1>4 DEF TablesChange, JobRecord
  <2> QED BY <2>1
<1>5. ASSUME NEW j \in Jobs, Fails(j)
      PROVE  i \in MayTell(w)
  BY <1>5 DEF Fails, Idle
<1>6. CASE job' = job
  BY <1>6
<1> QED BY <1>1, <1>2, <1>3, <1>4, <1>5, <1>6 DEF NNext, nvars, MarkAsRead, Sign

\* The count of rows and of jobs that may still insert one does not grow.
LEMMA CountStep == NTypeOK /\ AtMostOncePerJob /\ [NNext]_nvars => AtMostOncePerJob'
<1> SUFFICES ASSUME NTypeOK, AtMostOncePerJob, [NNext]_nvars, NEW w \in Users, Told(w)'
             PROVE  (Len(inbox[w]) + Cardinality(MayTell(w)) <= Cardinality(Jobs))'
  BY DEF AtMostOncePerJob
<1> DEFINE rows == Len(inbox[w])
           due == Cardinality(MayTell(w))
<1>t. inbox[w] \in Seq(NotificationRow) /\ rows \in Nat
  BY DEF NTypeOK
<1>f. /\ IsFiniteSet(MayTell(w)) /\ due \in Nat /\ Cardinality(Jobs) \in Nat
      /\ due <= Cardinality(Jobs)
  BY MayTellFinite
<1>g. due' \in Nat
  <2>1. MayTell(w)' \subseteq Jobs
    BY DEF MayTell
  <2> QED BY <2>1, JobsAssumption, FS_Subset, FS_CardinalityType
<1>c. Told(w) => rows + due <= Cardinality(Jobs)
  BY DEF AtMostOncePerJob
<1>1. CASE Told(w) /\ rows' = rows
  <2>1. MayTell(w)' \subseteq MayTell(w)
    BY <1>1, NobodyElseTells
  <2>2. due' <= due
    BY <1>f, <2>1, FS_Subset
  <2> QED BY <1>1, <1>t, <1>f, <1>g, <1>c, <2>2
<1>2. ASSUME NEW j \in Jobs, Insert(j), w \in job[j].rows
      PROVE  rows' + due' <= Cardinality(Jobs)
  <2>1. rows' = rows + 1
    BY <1>2, <1>t DEF Insert
  <2>2. j \in MayTell(w) /\ MayTell(w)' = MayTell(w) \ {j}
    BY <1>2 DEF Insert, MayTell, Idle, NTypeOK
  <2>3. due' = due - 1
    BY <1>f, <2>2, FS_RemoveElement
  <2>4. CASE Told(w)
    BY <1>t, <1>f, <1>c, <2>1, <2>3, <2>4
  <2>5. CASE ~Told(w)
    <3>1. rows = 0
      BY <2>5 DEF Told
    <3> QED BY <1>f, <2>1, <2>3, <3>1
  <2> QED BY <2>4, <2>5
<1>3. ASSUME NEW u \in Users, MarkAsRead(u)
      PROVE  Told(w) /\ rows' = rows
  <2>1. PICK n \in DOMAIN inbox[u] : inbox' = [inbox EXCEPT ![u][n].read = TRUE]
    BY <1>3 DEF MarkAsRead
  <2> QED BY <1>t, <2>1 DEF Told, NTypeOK
<1>4. ASSUME NEW j \in Jobs, Insert(j), w \notin job[j].rows
      PROVE  inbox'[w] = inbox[w]
  BY <1>4 DEF Insert
<1>5. CASE inbox'[w] = inbox[w]
  BY <1>1, <1>5 DEF Told
<1>6. ASSUME NEW j \in Jobs, Work(j), ~Insert(j)
      PROVE  inbox' = inbox
  BY <1>6 DEF Work, ReadCurrent, PassGate, ReadSigned, ReadVersion, ReadRules, ReadTold,
              ReadUsers
<1> QED BY <1>1, <1>2, <1>3, <1>4, <1>5, <1>6
        DEF NNext, nvars, Work, Begin, TablesChange, Fails, Sign

\* However many syncs, reminders and commands overlap, a user has at most one row from
\* each, and a further one only from a job that looked before the first was inserted.
THEOREM ToldOncePerJob == NSpec => []AtMostOncePerJob
<1>1. NInit => AtMostOncePerJob
  BY DEF NInit, AtMostOncePerJob, Told
<1> QED BY <1>1, CountStep, NTypeCorrect, PTL DEF NSpec

-----------------------------------------------------------------------------
(* Whom an undisturbed job selects. *)

\* What the tables say of what a job has read, while nothing disturbed it.
Quiet(j) ==
  LET r == job[j]
  IN  /\ r.next = "gate" => IsFirstCurrent(r.version)
      /\ r.next \in {"signed", "version"} =>
           \E v \in Versions : IsFirstCurrent(v) /\ ActiveNow(v) # {}
      /\ r.next = "rules" => IsFirstCurrent(r.version) /\ ActiveNow(r.version) # {}
      /\ r.next = "users" \/ (r.next = "told" /\ r.kind = "sync") =>
           \E v \in Versions :
             /\ IsFirstCurrent(v)
             /\ r.all => \E a \in ActiveNow(v) : assignment[a].target.type = "ALL"
             /\ \A x \in r.rules : /\ x[1] \in ActiveNow(v)
                                   /\ x[2] = assignment[x[1]].target.type

QuietInv == \A j \in Jobs : ~job[j].disturbed => Quiet(j)

\* There is at most one first version.
LEMMA FirstIsUnique ==
  ASSUME NEW v \in Versions, NEW w \in Versions, IsFirstCurrent(v), IsFirstCurrent(w)
  PROVE  v = w
BY VersionsAssumption DEF IsFirstCurrent

LEMMA FirstOrNone ==
  ASSUME NEW v \in CurrentOrNone, NEW w \in Versions, IsFirstCurrent(w)
  PROVE  v = w
<1>1. w \in FirstCurrent
  BY DEF FirstCurrent
<1>2. v \in Versions /\ IsFirstCurrent(v)
  BY <1>1 DEF CurrentOrNone, FirstCurrent
<1> QED BY <1>2, FirstIsUnique

\* The tables a job reads do not change while it reads.
LEMMA TablesStay ==
  ASSUME UNCHANGED <<now, assignment, current>>
  PROVE  /\ \A v : IsFirstCurrent(v)' <=> IsFirstCurrent(v)
         /\ \A v : ActiveNow(v)' = ActiveNow(v)
BY DEF IsFirstCurrent, CurrentVersions, ActiveNow

LEMMA QuietStep == NTypeOK /\ QuietInv /\ [NNext]_nvars => QuietInv'
<1> SUFFICES ASSUME NTypeOK, QuietInv, [NNext]_nvars, NEW i \in Jobs, ~job'[i].disturbed
             PROVE  Quiet(i)'
  BY DEF QuietInv
<1>t. job[i] \in JobRecord /\ job[i].kind \in Kinds
  BY DEF NTypeOK, JobRecord
<1>q. ~job[i].disturbed => Quiet(i)
  BY DEF QuietInv
<1>1. CASE UNCHANGED <<now, assignment, current>> /\ job'[i] = job[i]
  BY <1>1, <1>q, TablesStay DEF Quiet
<1>2. ASSUME job'[i].next \in {"idle", "insert", "current"}
      PROVE  Quiet(i)'
  BY <1>2 DEF Quiet
<1>r. ASSUME job'[i].next = "told", job'[i].kind = "reminders"
      PROVE  Quiet(i)'
  BY <1>r DEF Quiet
<1>3. CASE Work(i)
  <2> USE DEF JobRecord
  <2>i. Idle.next = "idle"
    BY DEF Idle
  <2>1. CASE ReadCurrent(i)
    <3>1. PICK v \in CurrentOrNone :
            job' = [job EXCEPT ![i] =
                      IF v = 0 THEN Idle
                      ELSE [job[i] EXCEPT !.next = After[job[i].kind]["current"], !.version = v,
                                          !.disturbed = FALSE]]
      BY <2>1 DEF ReadCurrent
    <3>2. CASE v = 0
      <4>1. job'[i] = Idle
        BY <3>1, <3>2 DEF NTypeOK
      <4> QED BY <1>2, <2>i, <4>1
    <3>3. CASE v # 0
      <4>1. job'[i].next = "gate" /\ job'[i].version = v
        BY <1>t, <3>1, <3>3 DEF NTypeOK, After, Kinds
      <4>2. IsFirstCurrent(v)
        BY <3>3 DEF CurrentOrNone, FirstCurrent
      <4>3. IsFirstCurrent(v)'
        BY <2>1, <4>2, TablesStay DEF ReadCurrent, vars
      <4> QED BY <4>1, <4>3 DEF Quiet
    <3> QED BY <3>2, <3>3
  <2>2. CASE PassGate(i)
    <3>1. CASE ActiveNow(job[i].version) = {}
      <4>1. job'[i] = Idle
        BY <2>2, <3>1 DEF PassGate, NTypeOK
      <4> QED BY <1>2, <2>i, <4>1
    <3>2. CASE ActiveNow(job[i].version) # {}
      <4>1. job'[i] = [job[i] EXCEPT !.next = After[job[i].kind]["gate"], !.version = 0]
        BY <2>2, <3>2 DEF PassGate, NTypeOK
      <4>2. job'[i].next \in {"signed", "version"} /\ ~job[i].disturbed
        BY <1>t, <4>1 DEF After, Kinds
      <4>3. IsFirstCurrent(job[i].version)
        BY <1>q, <2>2, <4>2 DEF Quiet, PassGate
      <4>4. job[i].version \in Versions
        BY <4>3 DEF IsFirstCurrent, CurrentVersions
      <4>5. \E v \in Versions : IsFirstCurrent(v)' /\ ActiveNow(v)' # {}
        BY <2>2, <3>2, <4>3, <4>4, TablesStay DEF PassGate, vars
      <4> QED BY <4>2, <4>5 DEF Quiet
    <3> QED BY <3>1, <3>2
  <2>3. CASE ReadSigned(i)
    <3>1. PICK v \in CurrentOrNone :
            job' = [job EXCEPT ![i] =
                      [job[i] EXCEPT !.next = After[job[i].kind]["signed"], !.signedOf = v]]
      BY <2>3 DEF ReadSigned
    <3>2. job'[i].next = After[job[i].kind]["signed"] /\ ~job[i].disturbed
      BY <1>t, <3>1 DEF NTypeOK
    <3>3. job[i].kind = "reminders"
      BY <2>3, OnlyRemindersExclude DEF ReadSigned
    <3>4. job'[i].next = "version"
      BY <3>2, <3>3 DEF After
    <3>5. \E v1 \in Versions : IsFirstCurrent(v1) /\ ActiveNow(v1) # {}
      BY <1>q, <2>3, <3>2 DEF Quiet, ReadSigned
    <3>6. \E v1 \in Versions : IsFirstCurrent(v1)' /\ ActiveNow(v1)' # {}
      BY <2>3, <3>5, TablesStay DEF ReadSigned, vars
    <3> QED BY <3>4, <3>6 DEF Quiet
  <2>4. CASE ReadVersion(i)
    <3>1. PICK v \in CurrentOrNone :
            job' = [job EXCEPT ![i] =
                      [job[i] EXCEPT !.next = After[job[i].kind]["version"], !.version = v]]
      BY <2>4 DEF ReadVersion
    <3>2. job'[i].next = "rules" /\ job'[i].version = v /\ ~job[i].disturbed
      BY <1>t, <3>1 DEF NTypeOK, After, Kinds
    <3>3. PICK w \in Versions : IsFirstCurrent(w) /\ ActiveNow(w) # {}
      BY <1>q, <2>4, <3>2 DEF Quiet, ReadVersion
    <3>4. v = w
      BY <3>3, FirstOrNone
    <3>5. IsFirstCurrent(v)' /\ ActiveNow(v)' # {}
      BY <2>4, <3>3, <3>4, TablesStay DEF ReadVersion, vars
    <3> QED BY <3>2, <3>5 DEF Quiet
  <2>5. CASE ReadRules(i)
    <3>w. PICK w : w = job[i].version
      OBVIOUS
    <3> DEFINE found == {a \in ActiveNow(w) : assignment[a].target.type # "ALL"}
               rules == {<<a, assignment[a].target.type>> : a \in found}
    <3>1. job'[i] = [job[i] EXCEPT !.next = After[job[i].kind]["rules"], !.version = 0,
                                   !.all = found = {}, !.rules = rules]
      BY <2>5, <3>w DEF ReadRules, NTypeOK
    <3>2. /\ job'[i].next \in {"users", "told"}
          /\ job'[i].next = "told" => job'[i].kind = "sync"
          /\ job'[i].all = (found = {}) /\ job'[i].rules = rules
          /\ ~job[i].disturbed
      <4> HIDE DEF found, rules
      <4> QED BY <1>t, <3>1 DEF After, Kinds
    <3>3. IsFirstCurrent(w) /\ ActiveNow(w) # {}
      BY <1>q, <2>5, <3>2, <3>w DEF Quiet, ReadRules
    <3>4. w \in Versions
      BY <3>3 DEF IsFirstCurrent, CurrentVersions
    <3>5. found = {} => \E a \in ActiveNow(w) : assignment[a].target.type = "ALL"
      BY <3>3
    <3>6. \A x \in rules : x[1] \in ActiveNow(w) /\ x[2] = assignment[x[1]].target.type
      OBVIOUS
    <3>7. UNCHANGED <<now, assignment, current>>
      BY <2>5 DEF ReadRules, vars
    <3>8. /\ IsFirstCurrent(w)'
          /\ job'[i].all => \E a \in ActiveNow(w)' : assignment'[a].target.type = "ALL"
          /\ \A x \in job'[i].rules : x[1] \in ActiveNow(w)'
                                      /\ x[2] = assignment'[x[1]].target.type
      <4> HIDE DEF found, rules
      <4> QED BY <3>2, <3>3, <3>5, <3>6, <3>7, TablesStay
    <3> QED BY <3>2, <3>4, <3>8 DEF Quiet
  <2>6. CASE ReadTold(i)
    <3>1. job'[i] = [job[i] EXCEPT !.next = After[job[i].kind]["told"],
                                   !.told = {u \in Users : Told(u)}]
      BY <2>6 DEF ReadTold, NTypeOK
    <3>2. CASE job[i].kind = "reminders"
      <4>1. After["reminders"]["told"] = "current"
        BY DEF After
      <4>2. job'[i].next = "current"
        BY <1>t, <3>1, <3>2, <4>1
      <4> QED BY <1>2, <4>2
    <3>3. CASE job[i].kind = "sync"
      <4>1. /\ job'[i].next = "users" /\ job'[i].all = job[i].all
            /\ job'[i].rules = job[i].rules /\ ~job[i].disturbed
        BY <1>t, <3>1, <3>3 DEF After
      <4>2. Quiet(i) /\ job[i].next = "told"
        BY <1>q, <2>6, <4>1 DEF ReadTold
      <4>3. UNCHANGED <<now, assignment, current>>
        BY <2>6 DEF ReadTold, vars
      <4> QED BY <3>3, <4>1, <4>2, <4>3, TablesStay DEF Quiet
    <3> QED BY <1>t, <3>2, <3>3 DEF Kinds
  <2>7. CASE ReadUsers(i)
    <3>1. job'[i].next \in {"idle", "insert"}
      BY <2>7 DEF ReadUsers, Idle, NTypeOK
    <3> QED BY <1>2, <3>1
  <2>8. CASE Insert(i)
    <3>1. job'[i] = Idle
      BY <2>8 DEF Insert, NTypeOK
    <3> QED BY <1>2, <2>i, <3>1
  <2> QED BY <1>3, <2>1, <2>2, <2>3, <2>4, <2>5, <2>6, <2>7, <2>8 DEF Work
<1>4. ASSUME NEW j \in Jobs, Work(j), j # i
      PROVE  Quiet(i)'
  <2>1. job'[i] = job[i]
    BY <1>4 DEF Work, ReadCurrent, PassGate, ReadSigned, ReadVersion, ReadRules, ReadTold,
                ReadUsers, Insert, NTypeOK
  <2>2. UNCHANGED vars
    BY <1>4 DEF Work, ReadCurrent, PassGate, ReadSigned, ReadVersion, ReadRules, ReadTold,
                ReadUsers, Insert
  <2> QED BY <1>1, <2>1, <2>2 DEF vars
<1>5. ASSUME NEW j \in Jobs, NEW k \in Kinds, Begin(j, k)
      PROVE  Quiet(i)'
  <2>1. CASE j = i
    <3>1. /\ job'[i].kind = k
          /\ job'[i].next = IF k = "sync" THEN "current" ELSE "told"
      BY <1>5, <2>1 DEF Begin, Idle, NTypeOK
    <3> QED BY <1>2, <1>r, <3>1 DEF Kinds
  <2>2. CASE j # i
    BY <1>1, <1>5, <2>2 DEF Begin, vars
  <2> QED BY <2>1, <2>2
<1>6. CASE TablesChange
  <2>1. job'[i] = [job[i] EXCEPT
          !.rules = KeptRules(i),
          !.disturbed = @ \/ /\ job[i].next \notin {"idle", "insert"}
                             /\ <<now, assignment, current>>' # <<now, assignment, current>>]
    BY <1>6 DEF TablesChange
  <2>2. /\ job'[i].next = job[i].next /\ job'[i].kind = job[i].kind
        /\ job'[i].version = job[i].version /\ job'[i].all = job[i].all
        /\ job'[i].rules = KeptRules(i)
        /\ ~job[i].disturbed
        /\ \/ job[i].next \in {"idle", "insert"}
           \/ UNCHANGED <<now, assignment, current>>
    BY <1>t, <2>1 DEF JobRecord
  <2>3. KeptRules(i) \subseteq job[i].rules
    BY DEF KeptRules
  <2>4. CASE job[i].next \in {"idle", "insert"}
    <3>1. job'[i].next \in {"idle", "insert"}
      BY <2>2, <2>4
    <3> QED BY <1>2, <3>1
  <2>5. CASE UNCHANGED <<now, assignment, current>>
    BY <1>q, <2>2, <2>3, <2>5, TablesStay DEF Quiet
  <2> QED BY <2>2, <2>4, <2>5
<1>7. ASSUME NEW j \in Jobs, Fails(j)
      PROVE  Quiet(i)'
  <2>1. CASE j = i
    <3>1. job'[i].next = "idle"
      BY <1>7, <2>1 DEF Fails, Idle, NTypeOK
    <3> QED BY <1>2, <3>1
  <2>2. CASE j # i
    BY <1>1, <1>7, <2>2 DEF Fails, vars
  <2> QED BY <2>1, <2>2
<1>8. CASE UNCHANGED <<vars, job>>
  BY <1>1, <1>8 DEF vars
<1> QED BY <1>3, <1>4, <1>5, <1>6, <1>7, <1>8 DEF NNext, nvars, MarkAsRead, Sign

\* The rules an undisturbed job has read are those in force, so whom it selects the
\* document is visible to.
LEMMA QuietSelectsViewers ==
  ASSUME NTypeOK, NEW j \in Jobs, Quiet(j), job[j].next = "users", published,
         NEW u \in Addressees(j)
  PROVE  Visible(u)
<1>1. u \in Users /\ u \in Selected(j)
  BY DEF Addressees, Selected
<1>2. PICK v \in Versions :
        /\ IsFirstCurrent(v)
        /\ job[j].all => \E a \in ActiveNow(v) : assignment[a].target.type = "ALL"
        /\ \A x \in job[j].rules : /\ x[1] \in ActiveNow(v)
                                   /\ x[2] = assignment[x[1]].target.type
  BY DEF Quiet
<1>3. v \in CurrentVersions
  BY <1>2 DEF IsFirstCurrent
<1>4. \E a \in ActiveNow(v) : MatchesUserQ(assignment[a].target, u)
  <2>1. CASE job[j].all
    BY <1>2, <2>1 DEF MatchesUserQ
  <2>2. CASE ~job[j].all
    <3>1. PICK r \in job[j].rules :
            u \in MatchingUserQ([assignment[r[1]].target EXCEPT !.type = r[2]]).holds
      BY <1>1, <2>2 DEF Selected
    <3>2. r[1] \in ActiveNow(v) /\ r[1] \in Slots /\ r[2] = assignment[r[1]].target.type
      BY <1>2 DEF ActiveNow
    <3>3. assignment[r[1]].target \in TargetRecord
      BY <3>2, TargetTyped DEF NTypeOK
    <3>4. [assignment[r[1]].target EXCEPT !.type = r[2]] = assignment[r[1]].target
      BY <3>2, <3>3 DEF TargetRecord
    <3>5. u \in MatchingUserQ(assignment[r[1]].target).holds
      BY <3>1, <3>4
    <3>6. MatchesUserQ(assignment[r[1]].target, u)
      BY <1>1, <3>3, <3>5, QueryMatchesMethod, MethodMatchesUserQuery
    <3> QED BY <3>2, <3>6
  <2> QED BY <2>1, <2>2
<1> QED BY <1>3, <1>4, VisibleIsActive DEF NTypeOK

\* Whoever a job selects of a published document can see it, unless assignments, flags or
\* the clock moved since the job began to ask; for any targets and any current flags.
THEOREM UndisturbedToldCanAlwaysSee == NSpec => UndisturbedToldCanSee
<1>1. NInit => QuietInv
  BY DEF NInit, QuietInv, Quiet, Idle
<1>2. NTypeOK /\ QuietInv =>
        \A j \in Jobs : ReadUsers(j) /\ published /\ ~job[j].disturbed =>
          \A u \in job'[j].rows : Visible(u)
  <2> SUFFICES ASSUME NTypeOK, QuietInv, NEW j \in Jobs, ReadUsers(j), published,
                      ~job[j].disturbed, NEW u \in job'[j].rows
               PROVE  Visible(u)
    OBVIOUS
  <2>1. u \in Addressees(j)
    BY DEF ReadUsers, Idle, NTypeOK
  <2> QED BY <2>1, QuietSelectsViewers DEF QuietInv, ReadUsers
<1> QED BY <1>1, <1>2, QuietStep, NTypeCorrect, PTL DEF NSpec, UndisturbedToldCanSee

-----------------------------------------------------------------------------
(* Who has not signed: three implementations. *)

\* While everybody and somebody are not mixed, joining the conditions with | adds them
\* up.
LEMMA UnmixedIsUnion ==
  ASSUME TypeOK, NEW v \in Versions, ActiveNow(v) # {}, ~Mixed(v)
  PROVE  AssignedUsers(v) =
           {u \in Users : active[u] /\ \E a \in ActiveNow(v) :
                                          MatchesUserQ(assignment[a].target, u)}
<1> DEFINE conditions == {MatchingUserQ(assignment[a].target) : a \in ActiveNow(v)}
           chosen == {p \in conditions : ~p.empty}
<1>1. \A a \in ActiveNow(v) : assignment[a].target \in TargetRecord
  BY TargetTyped DEF ActiveNow
<1>2. \A a \in ActiveNow(v), u \in Users :
        MatchesUserQ(assignment[a].target, u) <=> u \in MatchingUserQ(assignment[a].target).holds
  BY <1>1, QueryMatchesMethod, MethodMatchesUserQuery
<1>3. \A a \in ActiveNow(v) :
        LET q == MatchingUserQ(assignment[a].target)
        IN  /\ q.empty <=> assignment[a].target.type = "ALL"
            /\ q.holds \subseteq Users
            /\ q.empty => q.holds = Users
  <2> SUFFICES ASSUME NEW a \in ActiveNow(v), NEW x \in TargetRecord,
                      x = assignment[a].target
               PROVE  LET q == MatchingUserQ(x)
                      IN  /\ q.empty <=> x.type = "ALL"
                          /\ q.holds \subseteq Users
                          /\ q.empty => q.holds = Users
    BY <1>1
  <2>1. CASE x.type = "ALL"
    BY <2>1 DEF MatchingUserQ, NoCondition
  <2>2. CASE x.type = "BUSINESS_UNIT"
    BY <2>2 DEF MatchingUserQ, Condition
  <2>3. CASE x.type = "PROFESSION_CATEGORY"
    BY <2>3 DEF MatchingUserQ, Condition
  <2>4. CASE x.type = "BOTH"
    BY <2>4 DEF MatchingUserQ, Condition
  <2>5. CASE x.type = "USER"
    BY <2>5 DEF TargetRecord, MatchingUserQ, Condition
  <2> QED BY <2>1, <2>2, <2>3, <2>4, <2>5 DEF TargetRecord, Types
<1>4. PICK b \in ActiveNow(v) : TRUE
  OBVIOUS
<1>5. CASE assignment[b].target.type = "ALL"
  <2>1. \A q \in conditions : q.empty
    BY <1>3, <1>5 DEF Mixed
  <2>2. AssignedUsers(v) = {u \in Users : active[u]}
    BY <2>1 DEF AssignedUsers
  <2>3. \A u \in Users : MatchesUserQ(assignment[b].target, u)
    BY <1>5 DEF MatchesUserQ
  <2> QED BY <1>4, <2>2, <2>3
<1>6. CASE assignment[b].target.type # "ALL"
  <2>1. \A q \in conditions : ~q.empty
    BY <1>3, <1>6 DEF Mixed
  <2>2. ~ \A q \in conditions : q.empty
    BY <1>4, <2>1
  <2>3. AssignedUsers(v) = {u \in UNION {q.holds : q \in chosen} : active[u]}
    BY <2>2 DEF AssignedUsers
  <2>4. UNION {q.holds : q \in chosen} =
          {u \in Users : \E a \in ActiveNow(v) : u \in MatchingUserQ(assignment[a].target).holds}
    BY <1>3, <2>1
  <2> QED BY <1>2, <2>3, <2>4
<1> QED BY <1>5, <1>6

\* The report, the reminders and the users' own lists name the same users.
THEOREM ListsAlwaysAgree == NSpec => []ListsAgree
<1>1. TypeOK => ListsAgree
  <2> SUFFICES ASSUME TypeOK, NEW v \in Versions, published, CurrentVersions = {v},
                      ActiveNow(v) # {}, ~Mixed(v)
               PROVE  /\ UnsignedReport = UnsignedUsers
                      /\ UnsignedUsers = {u \in Users : active[u] /\ Listed(u)}
    BY DEF ListsAgree
  <2>1. \A w \in Versions : IsFirstCurrent(w) <=> w = v
    BY VersionsAssumption DEF IsFirstCurrent
  <2>2. Recipients = RequiredUsers
    BY <2>1 DEF Recipients
  <2>3. RequiredUsers = {u \in Users : active[u] /\ u \in AssignedUsers(v)}
    BY <2>1 DEF RequiredUsers
  <2>4. RequiredUsers = {u \in Users : active[u] /\ Visible(u)}
    BY <2>3, UnmixedIsUnion, VisibleIsActive
  <2>5. \A u : HasSigned(u) <=> <<u, v>> \in signed
    BY <2>1 DEF HasSigned
  <2> QED BY <2>2, <2>4, <2>5 DEF UnsignedReport, UnsignedUsers, Listed
<1> QED BY <1>1, NTypeCorrect, PTL DEF NTypeOK

=============================================================================
