----------------------------- MODULE Visibility -----------------------------
(***************************************************************************)
(* Which assignments make a document visible to whom: the queries of       *)
(* documents/services.py and documents/models.py over one document, while  *)
(* administrators edit assignments and users, the sync moves the is_current*)
(* flag between the versions and time passes.                              *)
(*                                                                         *)
(* The code answers the question "does this assignment apply to this user" *)
(* in three places: a query over assignments for one user, a method on one *)
(* assignment, and a query over users for one assignment.                  *)
(***************************************************************************)
EXTENDS Naturals, FiniteSets

CONSTANTS
  Users,        \* employees
  Units,        \* business units
  NoUnit,       \* NULL
  Professions,  \* profession categories
  NoProfession, \* NULL
  Versions,     \* versions of the document, by their rank in the default ordering
  Slots,        \* assignments that can exist at once
  NoTime,       \* NULL
  Targets,      \* what an assignment may aim at
  Windows,      \* <<valid_from, valid_to>> pairs
  MaxTime       \* bound on the clock

Types == {"ALL", "BUSINESS_UNIT", "PROFESSION_CATEGORY", "BOTH", "USER"}

TargetRecord ==
  [type : Types, units : SUBSET Units, professions : SUBSET Professions,
   users : SUBSET Users]

ASSUME NullsAssumption    == NoUnit \notin Units /\ NoProfession \notin Professions
ASSUME VersionsAssumption == Versions \subseteq Nat \ {0}
ASSUME TargetsAssumption  == Targets \subseteq TargetRecord
ASSUME WindowsAssumption  ==
  /\ NoTime \notin Nat
  /\ Windows \subseteq (Nat \cup {NoTime}) \X (Nat \cup {NoTime})
ASSUME ClockAssumption    == MaxTime \in Nat

VARIABLES
  now,         \* the clock
  assignment,  \* table DocumentAssignment with its many-to-many tables
  current,     \* DocumentVersion.is_current
  published,   \* Document.is_active
  unit,        \* User.business_unit
  profession,  \* User.profession_code
  active       \* User.is_active

vars == <<now, assignment, current, published, unit, profession, active>>

NoTarget == [type |-> "ALL", units |-> {}, professions |-> {}, users |-> {}]

NoAssignment == [exists |-> FALSE, version |-> 0, target |-> NoTarget,
                 window |-> <<NoTime, NoTime>>]

-----------------------------------------------------------------------------
(* Does a target apply to a user? *)

\* _assignment_matches_user_q, a query over assignments
MatchesUserQ(x, u) ==
  \/ x.type = "ALL"
  \/ x.type = "USER" /\ u \in x.users
  \/ unit[u] # NoUnit /\ x.type = "BUSINESS_UNIT" /\ unit[u] \in x.units
  \/ /\ profession[u] # NoProfession
     /\ x.type = "PROFESSION_CATEGORY"
     /\ profession[u] \in x.professions
  \/ /\ unit[u] # NoUnit /\ profession[u] # NoProfession
     /\ x.type = "BOTH"
     /\ unit[u] \in x.units /\ profession[u] \in x.professions

\* Faulty variant: one of the two conditions is enough.
MatchesUserEither(x, u) ==
  LET unitOk == x.type \in {"BUSINESS_UNIT", "BOTH"} => unit[u] \in x.units
      professionOk ==
        x.type \in {"PROFESSION_CATEGORY", "BOTH"} => profession[u] \in x.professions
  IN  IF x.type = "USER" THEN u \in x.users ELSE unitOk \/ professionOk

\* DocumentAssignment.matches_user
MatchesUser(x, u) ==
  LET unitOk == x.type \in {"BUSINESS_UNIT", "BOTH"} =>
                  unit[u] # NoUnit /\ unit[u] \in x.units
      professionOk == x.type \in {"PROFESSION_CATEGORY", "BOTH"} =>
                        profession[u] # NoProfession /\ profession[u] \in x.professions
  IN  IF x.type = "USER" THEN u \in x.users ELSE unitOk /\ professionOk

\* DocumentAssignment.matching_user_q, a condition on users. Q() carries no condition
\* at all, which is not the same as a condition everybody meets.
NoCondition == [empty |-> TRUE, holds |-> Users]

Condition(S) == [empty |-> FALSE, holds |-> S]

MatchingUserQ(x) ==
  CASE x.type = "ALL" -> NoCondition
    [] x.type = "BUSINESS_UNIT" -> Condition({u \in Users : unit[u] \in x.units})
    [] x.type = "PROFESSION_CATEGORY" ->
         Condition({u \in Users : profession[u] \in x.professions})
    [] x.type = "BOTH" ->
         Condition({u \in Users : unit[u] \in x.units /\ profession[u] \in x.professions})
    [] x.type = "USER" -> Condition(x.users)

-----------------------------------------------------------------------------
(* Queries. *)

\* Faulty variant: the last instant is out.
TimeWindowOpen(w) ==
  /\ w[1] = NoTime \/ w[1] <= now
  /\ w[2] = NoTime \/ now < w[2]

\* _time_window_q, with which documents are found
TimeWindowQ(w) ==
  /\ w[1] = NoTime \/ w[1] <= now
  /\ w[2] = NoTime \/ now <= w[2]

\* active_now, the rule once more, with which everything else is found
ActiveNow(v) ==
  {a \in Slots :
     /\ assignment[a].exists
     /\ assignment[a].version = v
     /\ assignment[a].window[1] # NoTime => assignment[a].window[1] <= now
     /\ assignment[a].window[2] # NoTime => assignment[a].window[2] >= now}

CurrentVersions == {v \in Versions : current[v]}

\* The assignments get_visible_documents looks at
CurrentAssignments ==
  {a \in Slots : /\ assignment[a].exists
                 /\ assignment[a].version \in CurrentVersions
                 /\ TimeWindowQ(assignment[a].window)}

\* get_visible_documents
Visible(u) ==
  /\ published
  /\ \E a \in CurrentAssignments : MatchesUserQ(assignment[a].target, u)

\* get_assigned_versions
AssignedVersions(u) ==
  {v \in Versions :
     published /\ \E a \in ActiveNow(v) : MatchesUser(assignment[a].target, u)}

\* get_assigned_users: the conditions are joined with |, to which Q() is neutral.
AssignedUsers(v) ==
  LET conditions == {MatchingUserQ(assignment[a].target) : a \in ActiveNow(v)}
      combined == IF \A q \in conditions : q.empty
                    THEN Users
                    ELSE UNION {q.holds : q \in {p \in conditions : ~p.empty}}
  IN  {u \in combined : active[u]}

\* Faulty variant: the first version, current or not.
IsFirst(v) == v \in Versions /\ \A w \in Versions : v <= w

\* document.current_version: the first current version in the default ordering.
IsFirstCurrent(v) == v \in CurrentVersions /\ \A w \in CurrentVersions : v <= w

\* get_required_users, all its reads at one moment: without a current version that is
\* assigned now, everybody.
RequiredUsers ==
  {u \in Users :
     /\ active[u]
     /\ \A v \in Versions :
          IsFirstCurrent(v) /\ ActiveNow(v) # {} => u \in AssignedUsers(v)}

-----------------------------------------------------------------------------
(* Changes. *)

\* DocumentAssignmentForm.clean: a target names members for its type.
WellAimed(x) ==
  /\ x.type = "USER" => x.users # {}
  /\ x.type \in {"BUSINESS_UNIT", "BOTH"} => x.units # {}
  /\ x.type \in {"PROFESSION_CATEGORY", "BOTH"} => x.professions # {}

\* An administrator adds or edits an assignment; the form is saved in a transaction.
SaveAssignment(a, v, x, w) ==
  /\ WellAimed(x)
  /\ assignment' = [assignment EXCEPT ![a] =
       [exists |-> TRUE, version |-> v, target |-> x, window |-> w]]
  /\ UNCHANGED <<now, current, published, unit, profession, active>>

\* Faulty variant: the rows of the many-to-many tables stay.
RemoveAssignmentOnly(a) ==
  /\ assignment[a].exists
  /\ assignment' = [assignment EXCEPT ![a].exists = FALSE]
  /\ UNCHANGED <<now, current, published, unit, profession, active>>

RemoveAssignment(a) ==
  /\ assignment[a].exists
  /\ assignment' = [assignment EXCEPT ![a] = NoAssignment]
  /\ UNCHANGED <<now, current, published, unit, profession, active>>

\* The sync or an administrator sets or clears the flag of one version, or of the
\* document.
SyncVersion(v) ==
  /\ current' = [current EXCEPT ![v] = ~@]
  /\ UNCHANGED <<now, assignment, published, unit, profession, active>>

SyncDocument ==
  /\ published' = ~published
  /\ UNCHANGED <<now, assignment, current, unit, profession, active>>

\* PATCH /api/users/<id>/
EditUser(u) ==
  /\ \/ /\ unit' \in {[unit EXCEPT ![u] = b] : b \in Units \cup {NoUnit}}
        /\ UNCHANGED <<profession, active>>
     \/ /\ profession' \in {[profession EXCEPT ![u] = p] : p \in Professions \cup {NoProfession}}
        /\ UNCHANGED <<unit, active>>
     \/ /\ active' = [active EXCEPT ![u] = ~@]
        /\ UNCHANGED <<unit, profession>>
  /\ UNCHANGED <<now, assignment, current, published>>

Tick ==
  /\ now < MaxTime
  /\ now' = now + 1
  /\ UNCHANGED <<assignment, current, published, unit, profession, active>>

Init ==
  /\ now = 0
  /\ assignment = [a \in Slots |-> NoAssignment]
  /\ current \in [Versions -> BOOLEAN]
  /\ published = TRUE
  /\ unit \in [Users -> Units \cup {NoUnit}]
  /\ profession \in [Users -> Professions \cup {NoProfession}]
  /\ active = [u \in Users |-> TRUE]

Next ==
  \/ \E a \in Slots, v \in Versions, x \in Targets, w \in Windows : SaveAssignment(a, v, x, w)
  \/ \E a \in Slots : RemoveAssignment(a)
  \/ \E v \in Versions : SyncVersion(v)
  \/ SyncDocument
  \/ \E u \in Users : EditUser(u)
  \/ Tick

Spec == Init /\ [][Next]_vars

-----------------------------------------------------------------------------
(* Properties. *)

\* Deleting an assignment deletes its rows of the many-to-many tables.
TypeOK ==
  /\ now \in 0..MaxTime
  /\ assignment \in
       [Slots -> [exists : BOOLEAN, version : Versions \cup {0},
                  target : Targets \cup {NoTarget},
                  window : Windows \cup {<<NoTime, NoTime>>}]]
  /\ current \in [Versions -> BOOLEAN]
  /\ published \in BOOLEAN
  /\ unit \in [Users -> Units \cup {NoUnit}]
  /\ profession \in [Users -> Professions \cup {NoProfession}]
  /\ active \in [Users -> BOOLEAN]
  /\ \A a \in Slots : ~assignment[a].exists => assignment[a] = NoAssignment

\* The three places agree on whom an assignment applies to, users without a business
\* unit or a profession included.
MatchersAgree ==
  \A a \in Slots, u \in Users :
    LET x == assignment[a].target
    IN  /\ MatchesUserQ(x, u) <=> MatchesUser(x, u)
        /\ MatchesUser(x, u) <=> u \in MatchingUserQ(x).holds

\* A document is visible to a user exactly if one of its current versions is among
\* those assigned to the user: the query with _time_window_q and the loop with active_now
\* give the same answer, at the first and the last instant of a window too. It follows
\* that a document nobody is assigned to is visible to nobody, as services.py:55 has it.
\* documents/tests.py:390-392 (test_document_without_restrictions_is_visible) expects it to
\* be visible to everybody, which the code contradicts.
VisibleIffAssigned ==
  \A u \in Users : Visible(u) <=> AssignedVersions(u) \cap CurrentVersions # {}

\* documents/models.py: "Vsetci aktivni pouzivatelia, ktorym je dana verzia dokumentu
\* priradena (OR cez vsetky aktivne priradenia verzie)". The assigned users of an
\* assigned version are those some assignment in force applies to.
AssignedIsUnion ==
  \A v \in Versions : ActiveNow(v) # {} =>
    AssignedUsers(v) =
      {u \in Users : active[u] /\ \E a \in ActiveNow(v) : MatchesUser(assignment[a].target, u)}

=============================================================================
