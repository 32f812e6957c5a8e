---------------------------- MODULE RfidSessions ----------------------------
(***************************************************************************)
(* Card logins, their sessions and the administration of users             *)
(* (rfid_auth/, kiosk/views.py, kiosk/middleware.py, users/views.py).      *)
(*                                                                         *)
(* A terminal is an API client or a kiosk browser that sends one request   *)
(* at a time; requests of different terminals, administrators' PATCHes and *)
(* the cleanup task interleave between any two database statements.        *)
(* Sessions are numbered in the order of their creation; the number stands *)
(* for the token as well.  Devices are left out: they only gate the login. *)
(***************************************************************************)
EXTENDS Naturals, FiniteSets

CONSTANTS
  Users,        \* employees
  NoUser,       \* None
  Cards,        \* values of rfid_uid
  NoCard,       \* NULL, the card of many users at once
  Terminals,    \* clients of the API and kiosk browsers
  Kiosks,       \* the terminals that are kiosk browsers
  Admins,       \* PATCH requests of administrators in flight
  Ttl,          \* RFID_SESSION_TTL
  Retention,    \* the days argument of the cleanup
  MaxTime,      \* bound on the clock
  MaxSessions,  \* bound on the sessions ever created
  MaxEdits      \* bound on the PATCH requests

ASSUME PeopleAssumption   == NoUser \notin Users /\ NoCard \notin Cards
ASSUME KiosksAssumption   == Kiosks \subseteq Terminals
ASSUME DurationAssumption == Ttl \in Nat \ {0} /\ Retention \in Nat
ASSUME LimitsAssumption   == MaxTime \in Nat /\ MaxSessions \in Nat /\ MaxEdits \in Nat

VARIABLES
  now,      \* the clock
  card,     \* User.rfid_uid
  active,   \* User.is_active
  session,  \* table RfidSession
  next,     \* the number of the next session
  term,     \* what each terminal is doing and the token it holds
  patch,    \* the PATCH requests in flight
  edits,    \* PATCH requests so far
  since     \* when a user was last deactivated

people == <<card, active, since>>
vars   == <<now, people, session, next, term, patch, edits>>

Keys == 1..MaxSessions

\* revoked is 0 for NULL; auth and after tell when the login looked the user up,
\* and which sessions existed when it revoked the others. A PATCH is overtaken when
\* another one saves the user it has loaded.
NoSession  == [exists |-> FALSE, user |-> NoUser, expires |-> 0, revoked |-> 0,
               auth |-> 0, after |-> 0]

SessionRow == [exists : BOOLEAN, user : Users \cup {NoUser}, expires : Nat, revoked : Nat,
               auth : Nat, after : Nat]

TerminalRow == [pc : {"idle", "known", "revoked", "leaving"}, user : Users \cup {NoUser},
                auth : Nat, after : Nat, token : 0..MaxSessions]

PatchRow == [pc : {"none", "loaded"}, user : Users \cup {NoUser}, field : {"card", "active"},
             card : Cards \cup {NoCard}, active : BOOLEAN, overtaken : BOOLEAN]

NoTerminal == [pc |-> "idle", user |-> NoUser, auth |-> 0, after |-> 0, token |-> 0]

NoPatch    == [pc |-> "none", user |-> NoUser, field |-> "card", card |-> NoCard,
               active |-> FALSE, overtaken |-> FALSE]

\* RfidSession.is_valid and the filters of the login and of the middleware
Usable(k) ==
  session[k].exists /\ session[k].revoked = 0 /\ session[k].expires > now

\* RfidSessionAuthentication looks at the user's is_active; RfidSessionMiddleware,
\* which guards the kiosk pages, does not.
Admitted(t) ==
  LET k == term[t].token
  IN  k \in Keys /\ Usable(k) /\ (t \in Kiosks \/ active[session[k].user])

-----------------------------------------------------------------------------
(* Login: RfidLoginView.post and KioskView.post. *)

\* Faulty variant: inactive users are found, too.
HoldersEvenInactive(c) == {u \in Users : card[u] = c}

\* RfidBackend.authenticate
Holders(c) == {u \in Users : card[u] = c /\ active[u]}

\* The active user the card belongs to. If there is none, or the number is not
\* well-formed, the terminal is told so and nothing changes.
Authenticate(t, c) ==
  /\ term[t].pc = "idle"
  /\ \E u \in Holders(c) :
       term' = [term EXCEPT ![t].pc = "known", ![t].user = u, ![t].auth = now]
  /\ UNCHANGED <<now, people, session, next, patch, edits>>

\* Faulty variant: only the session this terminal holds is revoked.
ToRevokeHere(t) == {k \in Keys : Usable(k) /\ k = term[t].token}

\* The sessions the bulk UPDATE selects.
ToRevoke(t) == {k \in Keys : Usable(k) /\ session[k].user = term[t].user}

RevokeOthers(t) ==
  /\ term[t].pc = "known"
  /\ session' = [k \in Keys |-> IF k \in ToRevoke(t)
                                  THEN [session[k] EXCEPT !.revoked = now]
                                  ELSE session[k]]
  /\ term' = [term EXCEPT ![t].pc = "revoked", ![t].after = next]
  /\ UNCHANGED <<now, people, next, patch, edits>>

\* The terminal forgets the token it had; the session behind it stays as it is.
CreateSession(t) ==
  /\ term[t].pc = "revoked"
  /\ next \in Keys
  /\ session' = [session EXCEPT ![next] =
       [exists |-> TRUE, user |-> term[t].user, expires |-> now + Ttl, revoked |-> 0,
        auth |-> term[t].auth, after |-> term[t].after]]
  /\ next' = next + 1
  /\ term' = [term EXCEPT ![t] = [NoTerminal EXCEPT !.token = next]]
  /\ UNCHANGED <<now, people, patch, edits>>

-----------------------------------------------------------------------------
(* Logout: RfidLogoutView.post and LogoutView.get. *)

\* The session is read when the request is authenticated.
AskLogout(t) ==
  /\ term[t].pc = "idle"
  /\ Admitted(t)
  /\ term' = [term EXCEPT ![t].pc = "leaving"]
  /\ UNCHANGED <<now, people, session, next, patch, edits>>

\* It is saved unconditionally, even if it was revoked in the meantime.
SaveLogout(t) ==
  /\ term[t].pc = "leaving"
  /\ session[term[t].token].exists
  /\ session' = [session EXCEPT ![term[t].token].revoked = now]
  /\ term' = [term EXCEPT ![t] = NoTerminal]
  /\ UNCHANGED <<now, people, next, patch, edits>>

\* The row is gone: save(update_fields=...) raises and the request ends with 500.
LogoutFails(t) ==
  /\ term[t].pc = "leaving"
  /\ ~session[term[t].token].exists
  /\ term' = [term EXCEPT ![t].pc = "idle"]
  /\ UNCHANGED <<now, people, session, next, patch, edits>>

\* Faulty variant: another request of the same terminal can be under way.
DropTokenAnytime(t) ==
  /\ t \in Kiosks
  /\ term[t].token # 0
  /\ ~Admitted(t)
  /\ term' = [term EXCEPT ![t].token = 0]
  /\ UNCHANGED <<now, people, session, next, patch, edits>>

\* A kiosk whose session is not valid any more just drops its token.
DropToken(t) ==
  /\ t \in Kiosks
  /\ term[t].pc = "idle"
  /\ term[t].token # 0
  /\ ~Admitted(t)
  /\ term' = [term EXCEPT ![t] = NoTerminal]
  /\ UNCHANGED <<now, people, session, next, patch, edits>>

-----------------------------------------------------------------------------
(* delete_stale_sessions *)

\* Faulty variant: NULL counts as a time long ago.
StaleIfNull(k) ==
  /\ session[k].exists
  /\ \/ session[k].expires + Retention < now
     \/ session[k].revoked + Retention < now

\* Q(expires_at__lt=cutoff) | Q(revoked_at__lt=cutoff)
Stale(k) ==
  /\ session[k].exists
  /\ \/ session[k].expires + Retention < now
     \/ session[k].revoked # 0 /\ session[k].revoked + Retention < now

Cleanup ==
  /\ session' = [k \in Keys |-> IF Stale(k) THEN NoSession ELSE session[k]]
  /\ session' # session
  /\ UNCHANGED <<now, people, next, term, patch, edits>>

Tick ==
  /\ now < MaxTime
  /\ now' = now + 1
  /\ UNCHANGED <<people, session, next, term, patch, edits>>

-----------------------------------------------------------------------------
(* UserDetailView.patch *)

CardFree(c, u) == c = NoCard \/ \A v \in Users \ {u} : card[v] # c

StartPatch(a, u, field, c, act) ==
  /\ patch[a].pc = "none"
  /\ edits < MaxEdits
  /\ edits' = edits + 1
  /\ patch' = [patch EXCEPT ![a] =
       [pc |-> "loaded", user |-> u, field |-> field, card |-> c, active |-> act,
        overtaken |-> FALSE]]
  /\ UNCHANGED <<now, people, session, next, term>>

\* Faulty variant: the card that is not sent takes its default.
PatchActiveOnly(a, u, act) == StartPatch(a, u, "active", NoCard, act)

\* PATCH {rfid_uid}: the row is loaded, the card validated as unused, and the new
\* value set on the loaded object.
PatchCard(a, u, c) ==
  CardFree(c, u) /\ StartPatch(a, u, "card", c, active[u])

\* PATCH {is_active}
PatchActive(a, u, act) == StartPatch(a, u, "active", card[u], act)

\* instance.save() writes every column of the row as it was loaded, not only those
\* the PATCH names. The unique index on rfid_uid may refuse it.
SavePatch(a) ==
  LET p == patch[a]
  IN  /\ p.pc = "loaded"
      /\ IF CardFree(p.card, p.user)
           THEN /\ card' = [card EXCEPT ![p.user] = p.card]
                /\ active' = [active EXCEPT ![p.user] = p.active]
                /\ since' = IF active[p.user] /\ ~p.active
                              THEN [since EXCEPT ![p.user] = now]
                              ELSE since
                /\ patch' = [b \in Admins |->
                     IF b = a THEN NoPatch
                     ELSE IF patch[b].user = p.user THEN [patch[b] EXCEPT !.overtaken = TRUE]
                     ELSE patch[b]]
           ELSE UNCHANGED people /\ patch' = [patch EXCEPT ![a] = NoPatch]
      /\ UNCHANGED <<now, session, next, term, edits>>

-----------------------------------------------------------------------------

\* Every card starts with at most one user; the clock starts at 1, so that 0 is no time.
Init ==
  /\ now = 1
  /\ card \in [Users -> Cards \cup {NoCard}]
  /\ \A u, v \in Users : card[u] = card[v] /\ card[u] # NoCard => u = v
  /\ active = [u \in Users |-> TRUE]
  /\ session = [k \in Keys |-> NoSession]
  /\ next = 1
  /\ term = [t \in Terminals |-> NoTerminal]
  /\ patch = [a \in Admins |-> NoPatch]
  /\ edits = 0
  /\ since = [u \in Users |-> 0]

TerminalStep(t) ==
  \/ \E c \in Cards : Authenticate(t, c)
  \/ RevokeOthers(t)
  \/ CreateSession(t)
  \/ AskLogout(t)
  \/ SaveLogout(t)
  \/ LogoutFails(t)
  \/ DropToken(t)

AdminStep(a) ==
  \/ \E u \in Users, c \in Cards \cup {NoCard} : PatchCard(a, u, c)
  \/ \E u \in Users, act \in BOOLEAN : PatchActive(a, u, act)
  \/ SavePatch(a)

Next ==
  \/ \E t \in Terminals : TerminalStep(t)
  \/ \E a \in Admins : AdminStep(a)
  \/ Cleanup
  \/ Tick

Spec == Init /\ [][Next]_vars

-----------------------------------------------------------------------------
(* Properties. *)

TypeOK ==
  /\ now \in Nat
  /\ card \in [Users -> Cards \cup {NoCard}]
  /\ active \in [Users -> BOOLEAN]
  /\ session \in [Keys -> SessionRow]
  /\ next \in 1..(MaxSessions + 1)
  /\ term \in [Terminals -> TerminalRow]
  /\ patch \in [Admins -> PatchRow]
  /\ edits \in 0..MaxEdits
  /\ since \in [Users -> Nat]
  /\ \A k \in Keys : session[k].exists => k < next /\ session[k].user \in Users
  /\ \A t \in Terminals : /\ term[t].pc \in {"known", "revoked"} <=> term[t].user \in Users
                          /\ term[t].pc = "leaving" => term[t].token # 0

\* A login ends all earlier sessions of its user: two usable sessions of one user
\* come from logins that overlapped, the later one having revoked before the
\* earlier one was created.
LoginSupersedes ==
  \A j, k \in Keys :
    Usable(j) /\ Usable(k) /\ session[j].user = session[k].user /\ j < k
      => session[k].after <= j

\* What a deactivated user can still do: the API admits nobody, a kiosk only with a
\* session whose login found the user before the deactivation (and thus, apart from
\* a login that was under way, not longer than Ttl after it).
DeactivationHolds ==
  \A t \in Terminals : Admitted(t) =>
    LET k == term[t].token
    IN  \/ active[session[k].user]
        \/ t \in Kiosks /\ session[k].auth <= since[session[k].user]

\* Nothing but the clock, a logout with the session itself or a login of its own
\* user ends a usable session: neither the cleanup, nor an administrator, nor other
\* people's logins and logouts do, however they interleave.
SessionsEndForAReason ==
  [][\A k \in Keys : Usable(k) /\ ~Usable(k)' =>
       \/ now' > now
       \/ \E t \in Terminals :
            /\ term[t].pc = "leaving" /\ term[t].token = k
            /\ term'[t].pc = "idle"
       \/ \E t \in Terminals :
            /\ term[t].pc = "known" /\ term[t].user = session[k].user
            /\ term'[t].pc = "revoked"]_vars

\* users/views.py: "bez PUT (nechceme plnu vymenu)". A PATCH leaves the field it does
\* not name alone unless another PATCH of the same user was saved since it loaded the
\* row: then it brings back what it had loaded, a deactivated user included.
PatchLosesOnlyOverlaps ==
  [][\A a \in Admins :
       patch[a].pc = "loaded" /\ patch'[a].pc = "none" /\ ~patch[a].overtaken =>
         IF patch[a].field = "card" THEN active' = active ELSE card' = card]_vars

=============================================================================
