------------------------------- MODULE Signing -------------------------------
(***************************************************************************)
(* Signing a document version on a kiosk while the sync of DocumentSync    *)
(* rewrites the tables underneath (signatures/services.py, views.py,       *)
(* documents/services.py).                                                 *)
(*                                                                         *)
(* A sign request loads the version and its document into objects, checks  *)
(* the objects and the user's visible documents, and inserts the signature.*)
(* The three are separate statements outside any transaction, so the sync, *)
(* an administrator and other requests run in between.                     *)
(*                                                                         *)
(* Which users an assignment matches, and when, is the subject of the      *)
(* module Visibility; here <<user, version>> is in "assigned" while some   *)
(* assignment of the version matches the user.                             *)
(***************************************************************************)
EXTENDS DocumentSync

CONSTANTS
  Users,      \* employees
  Requests    \* sign requests, each sent once

ASSUME RequestsAssumption == IsFiniteSet(Requests)

VARIABLES
  assigned,     \* pairs <<user, item>>: an assignment of the version matches the user
  signatures,   \* table Signature
  req           \* the sign requests

signing == <<assigned, signatures, req>>

NoRequest == [pc |-> "new", user |-> NoItem, version |-> NoItem, current |-> FALSE,
              active |-> FALSE, number |-> NoNumber, disturbed |-> FALSE]

Answers == {"created", "bad card", "not available", "already signed"}

Request == [pc : {"new", "loaded", "checked"} \cup Answers,
            user : Users \cup {NoItem}, version : Items \cup {NoItem}, current : BOOLEAN,
            active : BOOLEAN, number : NumbersOrNone, disturbed : BOOLEAN]

-----------------------------------------------------------------------------
(* Queries of documents/services.py. *)

CurrentVersions(n) == {i \in Versions(n) : ver[i].current}

\* get_visible_documents: an active document with an assignment of a current version.
Visible(u, n) ==
  doc[n].active /\ \E i \in CurrentVersions(n) : <<u, i>> \in assigned

Signed(u, i) == \E s \in signatures : s.user = u /\ s.version = i

\* DocumentVersionFileView answers with the file, or with 404: a version of a document
\* the user sees, old versions included, whose row names a file.
Served(u, i) == ver[i].exists /\ Visible(u, ver[i].number) /\ ver[i].file

\* Faulty variant: it is enough that some version has a file.
UnsignedOnceStored(u) ==
  {n \in Numbers : /\ Visible(u, n)
                   /\ \E i \in Versions(n) : ver[i].file
                   /\ \A i \in CurrentVersions(n) : ~Signed(u, i)}

\* Faulty variant: a signature of any version of the document counts.
UnsignedByDocument(u) ==
  {n \in Numbers : /\ Visible(u, n)
                   /\ \E i \in CurrentVersions(n) : ver[i].file
                   /\ \A i \in Versions(n) : ~Signed(u, i)}

\* get_unsigned_documents
Unsigned(u) ==
  {n \in Numbers : /\ Visible(u, n)
                   /\ \E i \in CurrentVersions(n) : ver[i].file
                   /\ \A i \in CurrentVersions(n) : ~Signed(u, i)}

-----------------------------------------------------------------------------
(* SignView.post and create_signature. *)

\* Work on the request is between loading the version and inserting the signature.
Open(r) == req[r].pc \in {"loaded", "checked"}

Answer(r, answer) == req' = [req EXCEPT ![r].pc = answer]

\* Faulty variant: the document of the version is not kept.
LoadVersionAlone(r, u, i) ==
  /\ req[r].pc = "new"
  /\ ver[i].exists
  /\ req' = [req EXCEPT ![r] =
       [pc |-> "loaded", user |-> u, version |-> i, current |-> ver[i].current,
        active |-> doc[ver[i].number].active, number |-> NoNumber,
        disturbed |-> FALSE]]
  /\ UNCHANGED <<vars, assigned, signatures>>

\* select_related('document'): the version and its document as they are now.
LoadVersion(r, u, i) ==
  /\ req[r].pc = "new"
  /\ ver[i].exists
  /\ req' = [req EXCEPT ![r] =
       [pc |-> "loaded", user |-> u, version |-> i, current |-> ver[i].current,
        active |-> doc[ver[i].number].active, number |-> ver[i].number,
        disturbed |-> FALSE]]
  /\ UNCHANGED <<vars, assigned, signatures>>

\* The card tapped for the signature belongs to somebody else.
RefuseCard(r) ==
  /\ req[r].pc = "loaded"
  /\ Answer(r, "bad card")
  /\ UNCHANGED <<vars, assigned, signatures>>

\* Faulty variant: the flag of the loaded version is not looked at.
MayPassAnyVersion(r) ==
  req[r].active /\ Visible(req[r].user, req[r].number)

\* The checks on the loaded objects and on the user's visible documents.
MayPass(r) ==
  /\ req[r].current
  /\ req[r].active
  /\ Visible(req[r].user, req[r].number)

RefuseVersion(r) ==
  /\ req[r].pc = "loaded"
  /\ ~MayPass(r)
  /\ Answer(r, "not available")
  /\ UNCHANGED <<vars, assigned, signatures>>

PassChecks(r) ==
  /\ req[r].pc = "loaded"
  /\ MayPass(r)
  /\ Answer(r, "checked")
  /\ UNCHANGED <<vars, assigned, signatures>>

\* Faulty variant: no unique index.
DuplicateNever(r) == FALSE

\* unique_together (user, document_version)
Duplicate(r) == Signed(req[r].user, req[r].version)

InsertSignature(r) ==
  /\ req[r].pc = "checked"
  /\ IF Duplicate(r)
       THEN Answer(r, "already signed") /\ UNCHANGED signatures
       ELSE /\ Answer(r, "created")
            /\ signatures' = signatures \cup
                 {[user |-> req[r].user, version |-> req[r].version, request |-> r]}
  /\ UNCHANGED <<vars, assigned>>

-----------------------------------------------------------------------------
(* The others. *)

\* What the checks of an open request were based on has changed since.
DisturbOpen ==
  req' = [r \in Requests |-> [req[r] EXCEPT !.disturbed = @ \/ Open(r)]]

SyncStep ==
  /\ Next
  /\ IF <<doc, ver>>' = <<doc, ver>> THEN UNCHANGED req ELSE DisturbOpen
  /\ UNCHANGED <<assigned, signatures>>

\* An administrator adds an assignment, or one starts to apply.
Assign(u, i) ==
  /\ ver[i].exists
  /\ <<u, i>> \notin assigned
  /\ assigned' = assigned \cup {<<u, i>>}
  /\ UNCHANGED <<vars, signatures, req>>

\* An administrator removes an assignment, or its time is over.
Unassign(u, i) ==
  /\ <<u, i>> \in assigned
  /\ assigned' = assigned \ {<<u, i>>}
  /\ DisturbOpen
  /\ UNCHANGED <<vars, signatures>>

SigningInit ==
  /\ Init
  /\ assigned = {}
  /\ signatures = {}
  /\ req = [r \in Requests |-> NoRequest]

SigningNext ==
  \/ SyncStep
  \/ \E u \in Users, i \in Items : Assign(u, i) \/ Unassign(u, i)
  \/ \E r \in Requests, u \in Users, i \in Items : LoadVersion(r, u, i)
  \/ \E r \in Requests :
       RefuseCard(r) \/ RefuseVersion(r) \/ PassChecks(r) \/ InsertSignature(r)

SigningSpec == SigningInit /\ [][SigningNext]_<<vars, signing>>

-----------------------------------------------------------------------------
(* Properties. *)

SigningTypeOK ==
  /\ assigned \in SUBSET (Users \X Items)
  /\ signatures \in SUBSET [user : Users, version : Items, request : Requests]
  /\ req \in [Requests -> Request]
  /\ \A r \in Requests : req[r].pc # "new" =>
       req[r].user \in Users /\ req[r].version \in Items /\ req[r].number \in Numbers

\* README: a new version has to be signed again. A document whose readable current
\* version is assigned to the user and unsigned is on the user's unsigned list,
\* whatever older versions the user signed; only while the sync is at work on its
\* group, or after a crash or an exception between its two UPDATEs or before them, can
\* an old current version hide it.
RevisionReappears ==
  \A u \in Users, i \in Items :
    /\ ver[i].current /\ ver[i].file
    /\ ver[i].number \notin torn \cup {group}
    /\ doc[ver[i].number].active
    /\ <<u, i>> \in assigned
    /\ ~Signed(u, i)
    => ver[i].number \in Unsigned(u)

\* documents/services.py: "kiosk nikdy neukaze neotvoritelny dokument". What the list of
\* unsigned documents leads to, the current version, can be opened; its file is lost only
\* until the next sync lists the item, and two versions are current only while the sync
\* is at work on the group or after a crash or an exception in it.
ListedCanBeOpened ==
  \A u \in Users : \A n \in Unsigned(u) \ (torn \cup {group}) :
    \A i \in CurrentVersions(n) :
      Served(u, i) /\ (disk[i] = 0 => ver[i].etag < remote[i].etag)

\* However requests overlap (a double tap, two kiosks), a user signs a version once,
\* and exactly the requests answered with 201 left a row.
OneRowPerAnswer ==
  /\ \A s, t \in signatures : s.user = t.user /\ s.version = t.version => s = t
  /\ \A r \in Requests :
       req[r].pc = "created" <=> \E s \in signatures : s.request = r

\* A signature made while nobody changed documents, versions or assignments under
\* the request is for a current version of an active, visible document: stale
\* reads across the statements are the only way around the checks.
UndisturbedIsValid ==
  [][\A r \in Requests :
       req[r].pc = "checked" /\ req'[r].pc = "created" /\ ~req[r].disturbed =>
         LET i == req[r].version
         IN  /\ ver[i].current
             /\ Visible(req[r].user, ver[i].number)]_<<vars, signing>>

\* docs/PLAN.md: "podpisana verzia je vzdy zobrazitelna, aj ked ju SharePoint neskor
\* zmeni". Whoever signed a version can have it shown.
SignedIsDisplayable ==
  \A s \in signatures : ver[s.version].file /\ disk[s.version] # 0

=============================================================================
