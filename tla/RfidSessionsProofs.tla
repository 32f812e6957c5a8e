------------------------- MODULE RfidSessionsProofs -------------------------
(***************************************************************************)
(* Proofs about RfidSessions: for any terminals, users and clocks, a login *)
(* supersedes the earlier sessions of its user, and a deactivation holds.  *)
(***************************************************************************)
EXTENDS RfidSessions, TLAPS

\* A session that is over stays so: its row has an end, and the end has passed.
Over(k) == session[k].exists => session[k].revoked # 0 \/ session[k].expires <= now

\* Every session of u among the first keys is over.
OverBefore(n, u) == \A j \in Keys : j < n /\ session[j].user = u => Over(j)

\* A login that passed its revoke step has ended what existed then, and whatever
\* session comes of it remembers when that was.
LoginsInOrder ==
  /\ now # 0
  /\ \A k \in Keys : session[k].exists =>
       session[k].after <= next /\ OverBefore(session[k].after, session[k].user)
  /\ \A t \in Terminals : term[t].pc = "revoked" =>
       term[t].after <= next /\ OverBefore(term[t].after, term[t].user)

SessionInv == TypeOK /\ LoginsInOrder

\* A login that found u precedes the last deactivation of u, if u is inactive.
FoundActive(u, time) == time <= now /\ (~active[u] => time <= since[u])

LookupsInOrder ==
  /\ \A k \in Keys : session[k].exists => FoundActive(session[k].user, session[k].auth)
  /\ \A t \in Terminals :
       term[t].pc \in {"known", "revoked"} => FoundActive(term[t].user, term[t].auth)

AccessInv == TypeOK /\ LookupsInOrder

USE DEF Keys

-----------------------------------------------------------------------------

LEMMA InitTyped == Init => TypeOK
<1> SUFFICES ASSUME Init PROVE TypeOK
  OBVIOUS
<1>1. session \in [Keys -> SessionRow]
  BY DEF Init, NoSession, SessionRow
<1>2. term \in [Terminals -> TerminalRow]
  BY LimitsAssumption DEF Init, NoTerminal, TerminalRow
<1>3. patch \in [Admins -> PatchRow]
  BY DEF Init, NoPatch, PatchRow
<1>4. \A k \in Keys : ~session[k].exists
  BY DEF Init, NoSession
<1>5. \A t \in Terminals : term[t].pc = "idle" /\ term[t].user = NoUser
  BY DEF Init, NoTerminal
<1> QED
  BY <1>1, <1>2, <1>3, <1>4, <1>5, PeopleAssumption, LimitsAssumption DEF Init, TypeOK

LEMMA StepTyped == TypeOK /\ [Next]_vars => TypeOK'
<1> SUFFICES ASSUME TypeOK, [Next]_vars PROVE TypeOK'
  OBVIOUS
<1> USE DEF TypeOK
<1>1. ASSUME NEW t \in Terminals, NEW c \in Cards, Authenticate(t, c)
      PROVE  TypeOK'
  <2>1. PICK u \in Users :
          term' = [term EXCEPT ![t].pc = "known", ![t].user = u, ![t].auth = now]
    BY <1>1 DEF Authenticate, Holders
  <2>2. term' \in [Terminals -> TerminalRow]
    <3> DEFINE row == [term[t] EXCEPT !.pc = "known", !.user = u, !.auth = now]
    <3>1. term' = [term EXCEPT ![t] = row]
      BY <2>1
    <3>2. row \in TerminalRow
      BY DEF TerminalRow
    <3> QED BY <3>1, <3>2
  <2>3. \A s \in Terminals \ {t} : term'[s] = term[s]
    BY <2>1
  <2>4. term'[t].pc = "known" /\ term'[t].user = u
    BY <2>1 DEF TerminalRow
  <2> QED BY <1>1, <2>2, <2>3, <2>4 DEF Authenticate, Holders, people
<1>2. ASSUME NEW t \in Terminals, RevokeOthers(t)
      PROVE  TypeOK'
  <2>1. term' \in [Terminals -> TerminalRow]
    <3> DEFINE row == [term[t] EXCEPT !.pc = "revoked", !.after = next]
    <3>1. term' = [term EXCEPT ![t] = row]
      BY <1>2 DEF RevokeOthers
    <3>2. term[t] \in TerminalRow /\ next \in Nat
      BY LimitsAssumption
    <3>3. row \in TerminalRow
      BY ONLY <3>2 DEF TerminalRow
    <3> QED BY <3>1, <3>3
  <2>2. session' \in [Keys -> SessionRow]
    <3>1. \A k \in Keys : [session[k] EXCEPT !.revoked = now] \in SessionRow
      BY DEF SessionRow
    <3> QED BY <1>2, <3>1 DEF RevokeOthers
  <2>3. \A k \in Keys : session'[k].exists = session[k].exists /\ session'[k].user = session[k].user
    BY <1>2 DEF RevokeOthers, SessionRow
  <2>4. \A s \in Terminals : term'[s].user = term[s].user /\ term'[s].token = term[s].token
    BY <1>2 DEF RevokeOthers, TerminalRow
  <2>5. \A s \in Terminals : s # t => term'[s] = term[s]
    BY <1>2 DEF RevokeOthers
  <2>6. term[t].pc = "known" /\ term'[t].pc = "revoked"
    BY <1>2 DEF RevokeOthers, TerminalRow
  <2> QED BY <1>2, <2>1, <2>2, <2>3, <2>4, <2>5, <2>6 DEF RevokeOthers, people
<1>3. ASSUME NEW t \in Terminals, CreateSession(t)
      PROVE  TypeOK'
  <2>1. term' \in [Terminals -> TerminalRow]
    <3>1. next \in 0..MaxSessions
      BY <1>3, LimitsAssumption DEF CreateSession
    <3>2. [NoTerminal EXCEPT !.token = next] \in TerminalRow
      BY <3>1 DEF TerminalRow, NoTerminal
    <3> QED BY <1>3, <3>2 DEF CreateSession
  <2>2. term[t].user \in Users
    BY <1>3 DEF CreateSession
  <2>3. session' \in [Keys -> SessionRow]
    BY <1>3, <2>2, DurationAssumption DEF CreateSession, TerminalRow, SessionRow
  <2>4. next' \in 1..(MaxSessions + 1)
    BY <1>3, LimitsAssumption DEF CreateSession
  <2>5. \A k \in Keys : session'[k].exists => k < next' /\ session'[k].user \in Users
    BY <1>3, <2>2, LimitsAssumption DEF CreateSession
  <2>6. \A s \in Terminals : /\ term'[s].pc \in {"known", "revoked"} <=> term'[s].user \in Users
                             /\ term'[s].pc = "leaving" => term'[s].token # 0
    BY <1>3, PeopleAssumption DEF CreateSession, NoTerminal
  <2> QED BY <1>3, <2>1, <2>3, <2>4, <2>5, <2>6 DEF CreateSession, people
<1>4. ASSUME NEW t \in Terminals, AskLogout(t)
      PROVE  TypeOK'
  <2>1. term' \in [Terminals -> TerminalRow]
    <3>1. [term[t] EXCEPT !.pc = "leaving"] \in TerminalRow
      BY DEF TerminalRow
    <3> QED BY <1>4, <3>1 DEF AskLogout
  <2>2. \A s \in Terminals : term'[s].user = term[s].user /\ term'[s].token = term[s].token
    BY <1>4 DEF AskLogout, TerminalRow
  <2>3. \A s \in Terminals \ {t} : term'[s] = term[s]
    BY <1>4 DEF AskLogout
  <2>4. term[t].pc = "idle" /\ term'[t].pc = "leaving" /\ term[t].token # 0
    BY <1>4 DEF AskLogout, Admitted, TerminalRow
  <2> QED BY <1>4, <2>1, <2>2, <2>3, <2>4 DEF AskLogout, people
<1>5. ASSUME NEW t \in Terminals, term' = [term EXCEPT ![t] = NoTerminal]
      PROVE  /\ term' \in [Terminals -> TerminalRow]
             /\ \A s \in Terminals : /\ term'[s].pc \in {"known", "revoked"} <=> term'[s].user \in Users
                                     /\ term'[s].pc = "leaving" => term'[s].token # 0
  <2>1. NoTerminal \in TerminalRow
    BY LimitsAssumption DEF NoTerminal, TerminalRow
  <2> QED BY <1>5, <2>1, PeopleAssumption DEF NoTerminal
<1>6. ASSUME NEW t \in Terminals, SaveLogout(t)
      PROVE  TypeOK'
  <2>1. session' \in [Keys -> SessionRow]
    <3>1. \A k \in Keys : [session[k] EXCEPT !.revoked = now] \in SessionRow
      BY DEF SessionRow
    <3> QED BY <1>6, <3>1 DEF SaveLogout
  <2>2. \A k \in Keys : session'[k].exists = session[k].exists /\ session'[k].user = session[k].user
    BY <1>6 DEF SaveLogout, SessionRow
  <2> QED BY <1>5, <1>6, <2>1, <2>2 DEF SaveLogout, people
<1>7. ASSUME NEW t \in Terminals, LogoutFails(t)
      PROVE  TypeOK'
  <2>1. term' \in [Terminals -> TerminalRow]
    BY <1>7 DEF LogoutFails, TerminalRow
  <2>2. \A s \in Terminals : term'[s].user = term[s].user /\ term'[s].token = term[s].token
    BY <1>7 DEF LogoutFails, TerminalRow
  <2>3. \A s \in Terminals \ {t} : term'[s] = term[s]
    BY <1>7 DEF LogoutFails
  <2>4. term[t].pc = "leaving" /\ term'[t].pc = "idle"
    BY <1>7 DEF LogoutFails, TerminalRow
  <2> QED BY <1>7, <2>1, <2>2, <2>3, <2>4 DEF LogoutFails, people
<1>8. ASSUME NEW t \in Terminals, DropToken(t)
      PROVE  TypeOK'
  BY <1>5, <1>8 DEF DropToken, people
<1>9. ASSUME NEW a \in Admins, NEW u \in Users, NEW f \in {"card", "active"},
             NEW c \in Cards \cup {NoCard}, NEW act \in BOOLEAN, StartPatch(a, u, f, c, act)
      PROVE  TypeOK'
  <2>1. patch' \in [Admins -> PatchRow]
    BY <1>9 DEF StartPatch, PatchRow
  <2> QED BY <1>9, <2>1, LimitsAssumption DEF StartPatch, people
<1>10. ASSUME NEW a \in Admins, SavePatch(a)
       PROVE  TypeOK'
  <2>1. patch' \in [Admins -> PatchRow]
    <3>1. NoPatch \in PatchRow
      BY DEF NoPatch, PatchRow
    <3>2. \A b \in Admins : [patch[b] EXCEPT !.overtaken = TRUE] \in PatchRow
      BY DEF PatchRow
    <3>3. CASE CardFree(patch[a].card, patch[a].user)
      <4>1. patch' = [b \in Admins |->
              IF b = a THEN NoPatch
              ELSE IF patch[b].user = patch[a].user THEN [patch[b] EXCEPT !.overtaken = TRUE]
              ELSE patch[b]]
        BY <1>10, <3>3 DEF SavePatch
      <4>2. \A b \in Admins : patch'[b] \in PatchRow
        BY <3>1, <3>2, <4>1
      <4> QED BY <4>1, <4>2
    <3>4. CASE ~CardFree(patch[a].card, patch[a].user)
      BY <1>10, <3>1, <3>4 DEF SavePatch
    <3> QED BY <3>3, <3>4
  <2>2. /\ card' \in [Users -> Cards \cup {NoCard}]
        /\ active' \in [Users -> BOOLEAN]
        /\ since' \in [Users -> Nat]
    BY <1>10 DEF SavePatch, PatchRow, people
  <2> QED BY <1>10, <2>1, <2>2 DEF SavePatch
<1>11. CASE Cleanup
  <2>1. \A k \in Keys : session'[k] \in {session[k], NoSession}
    BY <1>11 DEF Cleanup
  <2>2. session' \in [Keys -> SessionRow]
    BY <1>11 DEF Cleanup, NoSession, SessionRow
  <2> QED BY <1>11, <2>1, <2>2 DEF Cleanup, people, NoSession
<1>12. CASE Tick
  BY <1>12 DEF Tick, people
<1>13. CASE UNCHANGED vars
  BY <1>13 DEF vars, people
<1> QED
  BY <1>1, <1>2, <1>3, <1>4, <1>6, <1>7, <1>8, <1>9, <1>10, <1>11, <1>12, <1>13
  DEF Next, TerminalStep, AdminStep, PatchCard, PatchActive

\* Tables and requests keep their types.
THEOREM TypeCorrect == Spec => []TypeOK
BY InitTyped, StepTyped, PTL DEF Spec


-----------------------------------------------------------------------------

\* What a step may do to a session that exists: revoke it or delete it.
Wear(k) ==
  \/ session'[k] = session[k]
  \/ session'[k] = [session[k] EXCEPT !.revoked = now]
  \/ session'[k] = NoSession

\* Sessions that are over stay over under such steps.
LEMMA OverStays ==
  ASSUME TypeOK, now # 0, now' \in Nat, now' >= now, \A k \in Keys : Wear(k)
  PROVE  \A n \in Nat, u \in Users : OverBefore(n, u) => OverBefore(n, u)'
<1> SUFFICES ASSUME NEW n \in Nat, NEW u \in Users, OverBefore(n, u),
                    NEW j \in Keys, j < n, session'[j].user = u, session'[j].exists
             PROVE  session'[j].revoked # 0 \/ session'[j].expires <= now'
  BY DEF OverBefore, Over
<1>1. session[j] \in SessionRow /\ now \in Nat
  BY DEF TypeOK
<1>2. session'[j] # NoSession
  BY DEF NoSession
<1>3. CASE session'[j] = session[j]
  BY <1>1, <1>3 DEF OverBefore, Over, SessionRow
<1>4. CASE session'[j] = [session[j] EXCEPT !.revoked = now]
  BY <1>1, <1>4 DEF SessionRow
<1> QED BY <1>2, <1>3, <1>4 DEF Wear

LEMMA RowsStayInOrder ==
  ASSUME TypeOK, LoginsInOrder, now' \in Nat, now' >= now, next' = next,
         \A k \in Keys : Wear(k)
  PROVE  \A k \in Keys : session'[k].exists =>
           session'[k].after <= next' /\ OverBefore(session[k].after, session[k].user)'
<1> SUFFICES ASSUME NEW k \in Keys, session'[k].exists
             PROVE  session'[k].after <= next' /\ OverBefore(session[k].after, session[k].user)'
  OBVIOUS
<1>1. session[k] \in SessionRow /\ now # 0
  BY DEF TypeOK, LoginsInOrder
<1>2. session'[k].after = session[k].after /\ session'[k].user = session[k].user
      /\ session[k].exists
  <2>1. session'[k] # NoSession
    BY DEF NoSession
  <2>2. CASE session'[k] = session[k]
    BY <2>2
  <2>3. CASE session'[k] = [session[k] EXCEPT !.revoked = now]
    BY <1>1, <2>3 DEF SessionRow
  <2> QED BY <2>1, <2>2, <2>3 DEF Wear
<1>3. session[k].after \in Nat /\ session[k].user \in Users
  BY <1>1, <1>2 DEF TypeOK, SessionRow
<1>4. session[k].after <= next /\ OverBefore(session[k].after, session[k].user)
  BY <1>2 DEF LoginsInOrder
<1>5. \A n \in Nat, u \in Users : OverBefore(n, u) => OverBefore(n, u)'
  BY <1>1, OverStays
<1> QED BY <1>2, <1>3, <1>4, <1>5 DEF OverBefore, Over

LEMMA QuietStep ==
  ASSUME TypeOK, LoginsInOrder, now' \in Nat, now' >= now, next' = next,
         \A k \in Keys : Wear(k),
         \A t \in Terminals : term'[t].pc = "revoked" => term'[t] = term[t]
  PROVE  LoginsInOrder'
<1>1. \A k \in Keys : session'[k].exists =>
        session'[k].after <= next' /\ OverBefore(session[k].after, session[k].user)'
  BY RowsStayInOrder
<1>2. ASSUME NEW t \in Terminals, term'[t].pc = "revoked"
      PROVE  term'[t].after <= next' /\ OverBefore(term[t].after, term[t].user)'
  <2>1. term'[t] = term[t]
    BY <1>2
  <2>2. term[t].after \in Nat /\ term[t].user \in Users
    BY <1>2, <2>1 DEF TypeOK, TerminalRow
  <2>3. term[t].after <= next /\ OverBefore(term[t].after, term[t].user)
    BY <1>2, <2>1 DEF LoginsInOrder
  <2>4. \A n \in Nat, u \in Users : OverBefore(n, u) => OverBefore(n, u)'
    BY OverStays DEF LoginsInOrder
  <2> QED BY <2>1, <2>2, <2>3, <2>4 DEF OverBefore, Over
<1>3. now' # 0
  BY DEF LoginsInOrder, TypeOK
<1> QED BY <1>1, <1>2, <1>3 DEF LoginsInOrder

LEMMA InitInOrder == Init => SessionInv
<1> SUFFICES ASSUME Init PROVE LoginsInOrder
  BY InitTyped DEF SessionInv
<1> QED BY DEF Init, LoginsInOrder, NoSession, NoTerminal

LEMMA StepInOrder == SessionInv /\ [Next]_vars => SessionInv'
<1> SUFFICES ASSUME TypeOK, LoginsInOrder, [Next]_vars PROVE LoginsInOrder'
  BY StepTyped DEF SessionInv
<1>1. now \in Nat /\ next \in Nat /\ now # 0
  BY LimitsAssumption DEF TypeOK, LoginsInOrder
<1>2. ASSUME UNCHANGED <<now, session, next>>,
             \A t \in Terminals : term'[t].pc = "revoked" => term'[t] = term[t]
      PROVE  LoginsInOrder'
  BY <1>1, <1>2, QuietStep DEF Wear
<1>3. ASSUME NEW t \in Terminals, NEW c \in Cards, Authenticate(t, c)
      PROVE  LoginsInOrder'
  <2>1. \A s \in Terminals : s # t => term'[s] = term[s]
    BY <1>3 DEF Authenticate, Holders, TypeOK
  <2>2. term'[t].pc # "revoked"
    BY <1>3 DEF Authenticate, Holders, TypeOK, TerminalRow
  <2> QED BY <1>2, <1>3, <2>1, <2>2 DEF Authenticate, Holders
<1>4. ASSUME NEW t \in Terminals, RevokeOthers(t)
      PROVE  LoginsInOrder'
  <2>1. next' = next /\ now' = now
    BY <1>4 DEF RevokeOthers
  <2>2. \A k \in Keys : Wear(k)
    BY <1>4 DEF RevokeOthers, Wear
  <2>3. \A k \in Keys : session'[k].exists =>
          session'[k].after <= next' /\ OverBefore(session[k].after, session[k].user)'
    BY <1>1, <1>4, <2>2, RowsStayInOrder DEF RevokeOthers
  <2>4. term'[t].after = next /\ term'[t].user = term[t].user
    BY <1>4 DEF RevokeOthers, TypeOK, TerminalRow
  <2>5. ASSUME NEW j \in Keys, session'[j].user = term[t].user, session'[j].exists
        PROVE  session'[j].revoked # 0 \/ session'[j].expires <= now
    <3>1. session[j] \in SessionRow
      BY DEF TypeOK
    <3>2. session[j].user = term[t].user /\ session[j].exists
      BY <1>4, <2>5, <3>1 DEF RevokeOthers, SessionRow
    <3>3. CASE Usable(j)
      <4>1. session'[j] = [session[j] EXCEPT !.revoked = now]
        BY <1>4, <3>2, <3>3 DEF RevokeOthers, ToRevoke
      <4> QED BY <1>1, <3>1, <4>1 DEF SessionRow
    <3>4. CASE ~Usable(j)
      <4>1. session'[j] = session[j]
        BY <1>4, <3>4 DEF RevokeOthers, ToRevoke
      <4> QED BY <1>1, <3>1, <3>2, <3>4, <4>1 DEF Usable, SessionRow
    <3> QED BY <3>3, <3>4
  <2>6. OverBefore(term[t].after, term[t].user)'
    BY <1>4, <2>4, <2>5 DEF RevokeOthers, OverBefore, Over
  <2>7. ASSUME NEW s \in Terminals, s # t, term'[s].pc = "revoked"
        PROVE  term'[s].after <= next' /\ OverBefore(term[s].after, term[s].user)'
    <3>1. term'[s] = term[s]
      BY <1>4, <2>7 DEF RevokeOthers, TypeOK
    <3>2. term[s].after \in Nat /\ term[s].user \in Users
      BY <2>7, <3>1 DEF TypeOK, TerminalRow
    <3>3. term[s].after <= next /\ OverBefore(term[s].after, term[s].user)
      BY <2>7, <3>1 DEF LoginsInOrder
    <3>4. \A n \in Nat, u \in Users : OverBefore(n, u) => OverBefore(n, u)'
      BY <1>1, <1>4, <2>2, OverStays DEF RevokeOthers
    <3> QED BY <2>1, <3>1, <3>2, <3>3, <3>4 DEF OverBefore, Over
  <2> QED BY <1>1, <2>3, <2>4, <2>6, <2>7, <2>1 DEF LoginsInOrder
<1>5. ASSUME NEW t \in Terminals, CreateSession(t)
      PROVE  LoginsInOrder'
  <2> DEFINE n == term[t].after
             u == term[t].user
  <2>1. n \in Nat /\ u \in Users
    BY <1>5 DEF CreateSession, TypeOK, TerminalRow
  <2>2. n <= next /\ OverBefore(n, u)
    BY <1>5 DEF CreateSession, LoginsInOrder
  <2>3. /\ next \in Keys /\ next' = next + 1 /\ now' = now
        /\ session'[next].after = n /\ session'[next].user = u
        /\ \A k \in Keys : k # next => session'[k] = session[k]
    BY <1>5 DEF CreateSession, TypeOK
  <2>4. ASSUME NEW m \in Nat, NEW v \in Users, m <= next, OverBefore(m, v)
        PROVE  OverBefore(m, v)'
    BY <1>1, <2>3, <2>4 DEF OverBefore, Over
  <2>5. ASSUME NEW k \in Keys, session'[k].exists
        PROVE  session'[k].after <= next' /\ OverBefore(session[k].after, session[k].user)'
    <3>1. CASE k = next
      <4>1. \A m \in Nat, v \in Users : m = n /\ v = u => OverBefore(m, v)'
        BY <2>2, <2>4
      <4> QED BY <1>1, <2>1, <2>2, <2>3, <3>1, <4>1 DEF OverBefore, Over
    <3>2. CASE k # next
      <4>1. session'[k] = session[k]
        BY <2>3, <3>2
      <4>2. session[k].after \in Nat /\ session[k].user \in Users
        BY <2>5, <4>1 DEF TypeOK, SessionRow
      <4>3. session[k].after <= next /\ OverBefore(session[k].after, session[k].user)
        BY <2>5, <4>1 DEF LoginsInOrder
      <4> QED BY <1>1, <2>3, <2>4, <4>1, <4>2, <4>3 DEF OverBefore, Over
    <3> QED BY <3>1, <3>2
  <2>6. ASSUME NEW s \in Terminals, term'[s].pc = "revoked"
        PROVE  term'[s].after <= next' /\ OverBefore(term[s].after, term[s].user)'
    <3>1. s # t /\ term'[s] = term[s]
      BY <1>5, <2>6 DEF CreateSession, NoTerminal, TypeOK
    <3>2. term[s].after \in Nat /\ term[s].user \in Users
      BY <2>6, <3>1 DEF TypeOK, TerminalRow
    <3>3. term[s].after <= next /\ OverBefore(term[s].after, term[s].user)
      BY <2>6, <3>1 DEF LoginsInOrder
    <3> QED BY <1>1, <2>3, <2>4, <3>1, <3>2, <3>3 DEF OverBefore, Over
  <2> QED BY <1>1, <2>3, <2>5, <2>6 DEF LoginsInOrder
<1>6. ASSUME NEW t \in Terminals, AskLogout(t) \/ LogoutFails(t) \/ DropToken(t)
      PROVE  LoginsInOrder'
  <2>1. \A s \in Terminals : s # t => term'[s] = term[s]
    BY <1>6 DEF AskLogout, LogoutFails, DropToken, TypeOK
  <2>2. term'[t].pc # "revoked"
    BY <1>6 DEF AskLogout, LogoutFails, DropToken, NoTerminal, TypeOK, TerminalRow
  <2> QED BY <1>2, <1>6, <2>1, <2>2 DEF AskLogout, LogoutFails, DropToken
<1>7. ASSUME NEW t \in Terminals, SaveLogout(t)
      PROVE  LoginsInOrder'
  <2>1. \A s \in Terminals : term'[s].pc = "revoked" => term'[s] = term[s]
    BY <1>7 DEF SaveLogout, NoTerminal, TypeOK
  <2>2. \A k \in Keys : Wear(k)
    BY <1>7 DEF SaveLogout, TypeOK, Wear
  <2> QED BY <1>1, <1>7, <2>1, <2>2, QuietStep DEF SaveLogout
<1>8. ASSUME NEW a \in Admins, AdminStep(a)
      PROVE  LoginsInOrder'
  BY <1>2, <1>8 DEF AdminStep, PatchCard, PatchActive, StartPatch, SavePatch
<1>9. CASE Cleanup
  <2>1. \A k \in Keys : Wear(k)
    BY <1>9 DEF Cleanup, Wear
  <2> QED BY <1>1, <1>9, <2>1, QuietStep DEF Cleanup
<1>10. CASE Tick
  BY <1>1, <1>10, QuietStep DEF Tick, Wear
<1>11. CASE UNCHANGED vars
  BY <1>2, <1>11 DEF vars
<1> QED
  BY <1>3, <1>4, <1>5, <1>6, <1>7, <1>8, <1>9, <1>10, <1>11 DEF Next, TerminalStep

\* Two usable sessions of one user come from logins that overlapped.
THEOREM LoginsSupersede == Spec => []LoginSupersedes
<1>1. SessionInv => LoginSupersedes
  <2> SUFFICES ASSUME SessionInv, NEW j \in Keys, NEW k \in Keys, Usable(j), Usable(k),
                      session[j].user = session[k].user
               PROVE  session[k].after <= j
    BY DEF LoginSupersedes
  <2>1. session[j] \in SessionRow /\ session[k] \in SessionRow /\ now \in Nat
    BY DEF SessionInv, TypeOK
  <2>2. ~Over(j)
    BY <2>1 DEF Usable, Over, SessionRow
  <2>3. OverBefore(session[k].after, session[k].user)
    BY DEF Usable, SessionInv, LoginsInOrder
  <2>4. ~(j < session[k].after)
    BY <2>2, <2>3 DEF OverBefore
  <2> QED BY <2>1, <2>4 DEF SessionRow
<1> QED BY <1>1, InitInOrder, StepInOrder, PTL DEF Spec

-----------------------------------------------------------------------------

\* Whoever was found active before the last deactivation stays so, whatever an
\* administrator saves.
LEMMA PatchKeepsFound ==
  ASSUME TypeOK, NEW a \in Admins, SavePatch(a)
  PROVE  \A u \in Users, time \in Nat : FoundActive(u, time) => FoundActive(u, time)'
<1> SUFFICES ASSUME NEW u \in Users, NEW time \in Nat, FoundActive(u, time), ~active'[u]
             PROVE  time <= since'[u]
  BY DEF FoundActive, SavePatch
<1>1. now \in Nat /\ since \in [Users -> Nat] /\ active \in [Users -> BOOLEAN]
  BY DEF TypeOK
<1>2. CASE active[u]
  <2>1. since'[u] = now
    BY <1>1, <1>2 DEF SavePatch, people
  <2> QED BY <1>1, <2>1 DEF FoundActive
<1>3. CASE ~active[u]
  <2>1. since'[u] = since[u]
    BY <1>1, <1>3 DEF SavePatch, people
  <2> QED BY <1>3, <2>1 DEF FoundActive
<1> QED BY <1>2, <1>3

\* A step that adds no session and lets no login begin, and under which whoever was
\* found active stays so, keeps the order of lookups and deactivations.
LEMMA LookupsStay ==
  ASSUME TypeOK, LookupsInOrder,
         \A u \in Users, time \in Nat : FoundActive(u, time) => FoundActive(u, time)',
         \A k \in Keys : session'[k].exists =>
           /\ session[k].exists
           /\ session'[k].user = session[k].user /\ session'[k].auth = session[k].auth,
         \A t \in Terminals : term'[t].pc \in {"known", "revoked"} =>
           /\ term[t].pc \in {"known", "revoked"}
           /\ term'[t].user = term[t].user /\ term'[t].auth = term[t].auth
  PROVE  LookupsInOrder'
<1>1. ASSUME NEW k \in Keys, session'[k].exists
      PROVE  FoundActive(session[k].user, session[k].auth)'
  <2>1. session[k].user \in Users /\ session[k].auth \in Nat
    BY <1>1 DEF TypeOK, SessionRow
  <2>2. FoundActive(session[k].user, session[k].auth)
    BY <1>1 DEF LookupsInOrder
  <2> QED BY <1>1, <2>1, <2>2 DEF FoundActive
<1>2. ASSUME NEW t \in Terminals, term'[t].pc \in {"known", "revoked"}
      PROVE  FoundActive(term[t].user, term[t].auth)'
  <2>1. term[t].user \in Users /\ term[t].auth \in Nat
    BY <1>2 DEF TypeOK, TerminalRow
  <2>2. FoundActive(term[t].user, term[t].auth)
    BY <1>2 DEF LookupsInOrder
  <2> QED BY <1>2, <2>1, <2>2 DEF FoundActive
<1> QED BY <1>1, <1>2 DEF LookupsInOrder

LEMMA InitAccess == Init => AccessInv
<1> SUFFICES ASSUME Init PROVE LookupsInOrder
  BY InitTyped DEF AccessInv
<1> QED BY DEF Init, LookupsInOrder, NoSession, NoTerminal

LEMMA StepAccess == AccessInv /\ [Next]_vars => AccessInv'
<1> SUFFICES ASSUME TypeOK, LookupsInOrder, [Next]_vars PROVE LookupsInOrder'
  BY StepTyped DEF AccessInv
<1>1. now \in Nat
  BY DEF TypeOK
<1>2. ASSUME now' \in Nat, now' >= now, UNCHANGED people
      PROVE  \A u \in Users, time \in Nat : FoundActive(u, time) => FoundActive(u, time)'
  BY <1>1, <1>2 DEF people, FoundActive
<1>3. ASSUME NEW t \in Terminals, NEW c \in Cards, Authenticate(t, c)
      PROVE  LookupsInOrder'
  <2>1. PICK u \in Users :
          active[u] /\ term' = [term EXCEPT ![t].pc = "known", ![t].user = u, ![t].auth = now]
    BY <1>3 DEF Authenticate, Holders
  <2>2. UNCHANGED <<now, people, session>>
    BY <1>3 DEF Authenticate, Holders
  <2>3. term'[t].user = u /\ term'[t].auth = now
    BY <2>1 DEF TypeOK, TerminalRow
  <2>4. \A s \in Terminals : s # t => term'[s] = term[s]
    BY <2>1 DEF TypeOK
  <2>5. ASSUME NEW s \in Terminals, term'[s].pc \in {"known", "revoked"}
        PROVE  FoundActive(term[s].user, term[s].auth)'
    <3>1. CASE s = t
      BY <1>1, <2>1, <2>2, <2>3, <3>1 DEF FoundActive, people
    <3>2. CASE s # t
      BY <2>2, <2>4, <2>5, <3>2 DEF LookupsInOrder, FoundActive, people
    <3> QED BY <3>1, <3>2
  <2>6. ASSUME NEW k \in Keys, session'[k].exists
        PROVE  FoundActive(session[k].user, session[k].auth)'
    BY <2>2, <2>6 DEF LookupsInOrder, FoundActive, people
  <2> QED BY <2>5, <2>6 DEF LookupsInOrder
<1>4. ASSUME NEW t \in Terminals, RevokeOthers(t)
      PROVE  LookupsInOrder'
  <2>1. \A k \in Keys : session'[k].exists = session[k].exists
                        /\ session'[k].user = session[k].user /\ session'[k].auth = session[k].auth
    BY <1>4 DEF RevokeOthers, TypeOK, SessionRow
  <2>2. \A s \in Terminals : term'[s].user = term[s].user /\ term'[s].auth = term[s].auth
    BY <1>4 DEF RevokeOthers, TypeOK, TerminalRow
  <2>3. \A s \in Terminals : s # t => term'[s] = term[s]
    BY <1>4 DEF RevokeOthers, TypeOK
  <2>4. term[t].pc = "known" /\ now' = now /\ UNCHANGED people
    BY <1>4 DEF RevokeOthers
  <2> QED BY <1>1, <1>2, <2>1, <2>2, <2>3, <2>4, LookupsStay
<1>5. ASSUME NEW t \in Terminals, CreateSession(t)
      PROVE  LookupsInOrder'
  <2>1. UNCHANGED <<now, people>> /\ next \in Keys
    BY <1>5 DEF CreateSession
  <2>2. session'[next].user = term[t].user /\ session'[next].auth = term[t].auth
    BY <1>5, <2>1 DEF CreateSession, TypeOK
  <2>3. \A k \in Keys : k # next => session'[k] = session[k]
    BY <1>5 DEF CreateSession, TypeOK
  <2>4. FoundActive(term[t].user, term[t].auth)
    BY <1>5 DEF CreateSession, LookupsInOrder
  <2>5. \A s \in Terminals : term'[s].pc \in {"known", "revoked"} => term'[s] = term[s]
    BY <1>5 DEF CreateSession, NoTerminal, TypeOK
  <2> QED BY <2>1, <2>2, <2>3, <2>4, <2>5 DEF LookupsInOrder, FoundActive, people
<1>6. ASSUME NEW t \in Terminals, AskLogout(t) \/ LogoutFails(t) \/ DropToken(t)
      PROVE  LookupsInOrder'
  <2>1. \A s \in Terminals : s # t => term'[s] = term[s]
    BY <1>6 DEF AskLogout, LogoutFails, DropToken, TypeOK
  <2>2. term'[t].pc \notin {"known", "revoked"}
    BY <1>6 DEF AskLogout, LogoutFails, DropToken, NoTerminal, TypeOK, TerminalRow
  <2>3. UNCHANGED <<now, people, session>>
    BY <1>6 DEF AskLogout, LogoutFails, DropToken
  <2> QED BY <1>1, <1>2, <2>1, <2>2, <2>3, LookupsStay
<1>7. ASSUME NEW t \in Terminals, SaveLogout(t)
      PROVE  LookupsInOrder'
  <2>1. \A s \in Terminals : term'[s].pc \in {"known", "revoked"} => term'[s] = term[s]
    BY <1>7 DEF SaveLogout, NoTerminal, TypeOK
  <2>2. \A k \in Keys : session'[k].exists = session[k].exists
                        /\ session'[k].user = session[k].user /\ session'[k].auth = session[k].auth
    BY <1>7 DEF SaveLogout, TypeOK, SessionRow
  <2>3. UNCHANGED <<now, people>>
    BY <1>7 DEF SaveLogout
  <2> QED BY <1>1, <1>2, <2>1, <2>2, <2>3, LookupsStay
<1>8. ASSUME NEW a \in Admins, AdminStep(a)
      PROVE  LookupsInOrder'
  <2>1. UNCHANGED <<now, session, term>>
    BY <1>8 DEF AdminStep, PatchCard, PatchActive, StartPatch, SavePatch
  <2>2. CASE SavePatch(a)
    BY <2>1, <2>2, PatchKeepsFound, LookupsStay
  <2>3. CASE UNCHANGED people
    BY <1>1, <1>2, <2>1, <2>3, LookupsStay
  <2> QED BY <1>8, <2>2, <2>3 DEF AdminStep, PatchCard, PatchActive, StartPatch
<1>9. CASE Cleanup
  <2>1. \A k \in Keys : session'[k] = session[k] \/ ~session'[k].exists
    BY <1>9 DEF Cleanup, NoSession
  <2>2. UNCHANGED <<now, people, term>>
    BY <1>9 DEF Cleanup
  <2> QED BY <1>1, <1>2, <2>1, <2>2, LookupsStay
<1>10. CASE Tick
  BY <1>1, <1>2, <1>10, LookupsStay DEF Tick
<1>11. CASE UNCHANGED vars
  BY <1>1, <1>2, <1>11, LookupsStay DEF vars
<1> QED
  BY <1>3, <1>4, <1>5, <1>6, <1>7, <1>8, <1>9, <1>10, <1>11 DEF Next, TerminalStep

\* The API admits no inactive user; a kiosk only with a session whose login looked the
\* user up before the deactivation.
THEOREM DeactivationsHold == Spec => []DeactivationHolds
<1>1. AccessInv => DeactivationHolds
  BY DEF AccessInv, LookupsInOrder, FoundActive, DeactivationHolds, Admitted, Usable, TypeOK
<1> QED BY <1>1, InitAccess, StepAccess, PTL DEF Spec

-----------------------------------------------------------------------------

\* A PATCH nobody has overtaken still carries the values of the table in the field it
\* does not name.
CarriesTheRow ==
  \A a \in Admins : patch[a].pc = "loaded" =>
    /\ patch[a].user \in Users
    /\ ~patch[a].overtaken =>
         IF patch[a].field = "card" THEN patch[a].active = active[patch[a].user]
                                    ELSE patch[a].card = card[patch[a].user]

PatchInv == TypeOK /\ CarriesTheRow

LEMMA StartCarries ==
  ASSUME PatchInv, NEW a \in Admins, NEW u \in Users, NEW f \in {"card", "active"},
         NEW c \in Cards \cup {NoCard}, NEW act \in BOOLEAN, StartPatch(a, u, f, c, act),
         IF f = "card" THEN act = active[u] ELSE c = card[u]
  PROVE  CarriesTheRow'
<1> DEFINE row == [pc |-> "loaded", user |-> u, field |-> f, card |-> c, active |-> act,
                   overtaken |-> FALSE]
<1>1. patch' = [patch EXCEPT ![a] = row] /\ UNCHANGED <<card, active>>
  BY DEF StartPatch, people
<1>2. patch'[a] = row
  BY <1>1 DEF PatchInv, TypeOK
<1>3. \A b \in Admins \ {a} : patch'[b] = patch[b]
  BY <1>1 DEF PatchInv, TypeOK
<1> QED BY <1>1, <1>2, <1>3 DEF PatchInv, CarriesTheRow

LEMMA SaveCarries ==
  ASSUME PatchInv, NEW a \in Admins, SavePatch(a)
  PROVE  CarriesTheRow'
<1> DEFINE p == patch[a]
<1>1. CASE ~CardFree(p.card, p.user)
  <2>1. patch' = [patch EXCEPT ![a] = NoPatch] /\ UNCHANGED <<card, active>>
    BY <1>1 DEF SavePatch, people
  <2> QED BY <2>1 DEF PatchInv, TypeOK, CarriesTheRow, NoPatch
<1>2. CASE CardFree(p.card, p.user)
  <2>1. /\ card' = [card EXCEPT ![p.user] = p.card]
        /\ active' = [active EXCEPT ![p.user] = p.active]
        /\ patch' = [b \in Admins |->
             IF b = a THEN NoPatch
             ELSE IF patch[b].user = p.user THEN [patch[b] EXCEPT !.overtaken = TRUE]
             ELSE patch[b]]
    BY <1>2 DEF SavePatch
  <2>2. SUFFICES ASSUME NEW b \in Admins, patch'[b].pc = "loaded"
                 PROVE  /\ patch'[b].user \in Users
                        /\ ~patch'[b].overtaken =>
                             IF patch'[b].field = "card"
                               THEN patch'[b].active = active'[patch'[b].user]
                               ELSE patch'[b].card = card'[patch'[b].user]
    BY DEF CarriesTheRow
  <2>3. b # a
    BY <2>1, <2>2 DEF NoPatch
  <2>4. CASE patch[b].user = p.user
    <3>1. patch'[b] = [patch[b] EXCEPT !.overtaken = TRUE] /\ patch[b] \in PatchRow
      BY <2>1, <2>3, <2>4 DEF PatchInv, TypeOK
    <3>2. patch'[b].overtaken /\ patch'[b].user = patch[b].user /\ patch[b].pc = "loaded"
      BY <2>2, <3>1 DEF PatchRow
    <3> QED BY <3>2 DEF PatchInv, CarriesTheRow
  <2>5. CASE patch[b].user # p.user
    <3>1. patch'[b] = patch[b]
      BY <2>1, <2>3, <2>5
    <3>2. patch[b].user \in Users
      BY <2>2, <3>1 DEF PatchInv, CarriesTheRow
    <3>3. card'[patch[b].user] = card[patch[b].user] /\ active'[patch[b].user] = active[patch[b].user]
      BY <2>1, <2>5, <3>2 DEF PatchInv, TypeOK
    <3> QED BY <2>2, <3>1, <3>3 DEF PatchInv, CarriesTheRow
  <2> QED BY <2>4, <2>5
<1> QED BY <1>1, <1>2

LEMMA StepCarries == PatchInv /\ [Next]_vars => CarriesTheRow'
<1> SUFFICES ASSUME PatchInv, [Next]_vars PROVE CarriesTheRow'
  OBVIOUS
<1>1. ASSUME UNCHANGED <<card, active, patch>>
      PROVE  CarriesTheRow'
  BY <1>1 DEF PatchInv, CarriesTheRow
<1>2. ASSUME NEW t \in Terminals, TerminalStep(t)
      PROVE  CarriesTheRow'
  BY <1>1, <1>2 DEF TerminalStep, Authenticate, Holders, RevokeOthers, CreateSession, AskLogout,
                    SaveLogout, LogoutFails, DropToken, people
<1>3. ASSUME NEW a \in Admins, NEW u \in Users, NEW c \in Cards \cup {NoCard},
             PatchCard(a, u, c)
      PROVE  CarriesTheRow'
  <2>1. active[u] \in BOOLEAN
    BY DEF PatchInv, TypeOK
  <2> QED BY <1>3, <2>1, StartCarries DEF PatchCard
<1>4. ASSUME NEW a \in Admins, NEW u \in Users, NEW act \in BOOLEAN, PatchActive(a, u, act)
      PROVE  CarriesTheRow'
  <2>1. card[u] \in Cards \cup {NoCard}
    BY DEF PatchInv, TypeOK
  <2> QED BY <1>4, <2>1, StartCarries DEF PatchActive
<1>5. ASSUME NEW a \in Admins, SavePatch(a)
      PROVE  CarriesTheRow'
  BY <1>5, SaveCarries
<1>6. CASE Cleanup
  BY <1>1, <1>6 DEF Cleanup, people
<1>7. CASE Tick
  BY <1>1, <1>7 DEF Tick, people
<1>8. CASE UNCHANGED vars
  BY <1>1, <1>8 DEF vars, people
<1> QED BY <1>2, <1>3, <1>4, <1>5, <1>6, <1>7, <1>8 DEF Next, AdminStep

\* A request that is loaded and is not any more was saved; what it saved in the other
\* field is what the table had.
LEMMA SavedAsLoaded ==
  ASSUME PatchInv, [Next]_vars, NEW a \in Admins, patch[a].pc = "loaded",
         patch'[a].pc = "none", ~patch[a].overtaken
  PROVE  IF patch[a].field = "card" THEN active' = active ELSE card' = card
<1> DEFINE p == patch[a]
<1>1. ASSUME NEW b \in Admins, SavePatch(b)
      PROVE  b = a
  <2> SUFFICES ASSUME b # a PROVE FALSE
    OBVIOUS
  <2>1. patch'[a] \in {patch[a], [patch[a] EXCEPT !.overtaken = TRUE]}
    BY <1>1 DEF SavePatch, PatchInv, TypeOK
  <2>2. patch'[a].pc = patch[a].pc
    BY <2>1 DEF PatchInv, TypeOK, PatchRow
  <2> QED BY <2>2
<1>2. CASE SavePatch(a)
  <2>1. CASE CardFree(p.card, p.user)
    <3>1. card' = [card EXCEPT ![p.user] = p.card] /\ active' = [active EXCEPT ![p.user] = p.active]
      BY <1>2, <2>1 DEF SavePatch
    <3> QED BY <3>1 DEF PatchInv, TypeOK, CarriesTheRow
  <2>2. CASE ~CardFree(p.card, p.user)
    BY <1>2, <2>2 DEF SavePatch, people
  <2> QED BY <2>1, <2>2
<1>3. ASSUME UNCHANGED <<card, active>>
      PROVE  IF p.field = "card" THEN active' = active ELSE card' = card
  BY <1>3
<1>4. CASE UNCHANGED vars
  BY <1>3, <1>4 DEF vars, people
<1>5. CASE Cleanup \/ Tick
  BY <1>3, <1>5 DEF Cleanup, Tick, people
<1>6. ASSUME NEW t \in Terminals, TerminalStep(t)
      PROVE  UNCHANGED <<card, active>>
  BY <1>6 DEF TerminalStep, Authenticate, Holders, RevokeOthers, CreateSession, AskLogout,
              SaveLogout, LogoutFails, DropToken, people
<1>7. ASSUME NEW b \in Admins, NEW u \in Users, NEW f, NEW c, NEW act, StartPatch(b, u, f, c, act)
      PROVE  UNCHANGED <<card, active>>
  BY <1>7 DEF StartPatch, people
<1> QED BY <1>1, <1>2, <1>3, <1>4, <1>5, <1>6, <1>7
        DEF Next, AdminStep, PatchCard, PatchActive

\* A PATCH changes only the field it names unless another PATCH of the same user was
\* saved after it had loaded the row.
THEOREM PatchesLoseOnlyOverlaps == Spec => PatchLosesOnlyOverlaps
<1>1. Init => CarriesTheRow
  BY DEF Init, NoPatch, CarriesTheRow
<1>2. Init => PatchInv
  BY <1>1, InitTyped DEF PatchInv
<1>3. PatchInv /\ [Next]_vars => PatchInv'
  BY StepTyped, StepCarries DEF PatchInv
<1>4. PatchInv /\ [Next]_vars =>
        [\A a \in Admins :
           patch[a].pc = "loaded" /\ patch'[a].pc = "none" /\ ~patch[a].overtaken =>
             IF patch[a].field = "card" THEN active' = active ELSE card' = card]_vars
  BY SavedAsLoaded
<1> QED BY <1>2, <1>3, <1>4, PTL DEF Spec, PatchLosesOnlyOverlaps

-----------------------------------------------------------------------------
(* Why a session ends. *)

\* What SessionsEndForAReason says of session k.
HasReason(k) ==
  \/ now' > now
  \/ \E t \in Terminals :
       term[t].pc = "leaving" /\ term[t].token = k /\ term'[t].pc = "idle"
  \/ \E t \in Terminals :
       term[t].pc = "known" /\ term[t].user = session[k].user /\ term'[t].pc = "revoked"

\* Neither of the cleanup's two comparisons holds for a usable session.
LEMMA UsableNotStale ==
  ASSUME TypeOK, NEW k \in Keys, Usable(k)
  PROVE  ~Stale(k)
<1>1. session[k].expires \in Nat /\ now \in Nat /\ Retention \in Nat
  BY DurationAssumption DEF TypeOK, SessionRow
<1> QED BY <1>1 DEF Usable, Stale

LEMMA EndHasReason ==
  ASSUME TypeOK, [Next]_vars, NEW k \in Keys, Usable(k), ~Usable(k)'
  PROVE  HasReason(k)
<1>0. /\ session \in [Keys -> SessionRow]
      /\ term \in [Terminals -> TerminalRow]
      /\ now \in Nat
  BY DEF TypeOK
<1>s. ~(session'[k] = session[k] /\ now' = now)
  BY DEF Usable
<1>1. ASSUME NEW t \in Terminals, RevokeOthers(t)
      PROVE  HasReason(k)
  <2>1. k \in ToRevoke(t)
    BY <1>0, <1>1, <1>s DEF RevokeOthers
  <2>2. term'[t].pc = "revoked"
    BY <1>0, <1>1 DEF RevokeOthers, TerminalRow
  <2> QED BY <1>1, <2>1, <2>2 DEF RevokeOthers, ToRevoke, HasReason
<1>2. ASSUME NEW t \in Terminals, CreateSession(t)
      PROVE  FALSE
  <2>1. k = next
    BY <1>0, <1>2, <1>s DEF CreateSession
  <2> QED BY <2>1 DEF Usable, TypeOK, Keys
<1>3. ASSUME NEW t \in Terminals, SaveLogout(t)
      PROVE  HasReason(k)
  <2>1. term[t].token = k
    BY <1>0, <1>3, <1>s DEF SaveLogout
  <2>2. term'[t].pc = "idle"
    BY <1>0, <1>3 DEF SaveLogout, NoTerminal
  <2> QED BY <1>3, <2>1, <2>2 DEF SaveLogout, HasReason
<1>4. CASE Cleanup
  <2>1. session'[k] = session[k]
    BY <1>4, UsableNotStale DEF Cleanup
  <2> QED BY <1>4, <1>s, <2>1 DEF Cleanup
<1>5. CASE Tick
  BY <1>0, <1>5 DEF Tick, HasReason
<1>6. ASSUME NEW t \in Terminals, NEW c \in Cards, Authenticate(t, c)
      PROVE  FALSE
  BY <1>s, <1>6 DEF Authenticate
<1>7. ASSUME NEW t \in Terminals, AskLogout(t) \/ LogoutFails(t) \/ DropToken(t)
      PROVE  FALSE
  BY <1>s, <1>7 DEF AskLogout, LogoutFails, DropToken
<1>8. ASSUME NEW a \in Admins, AdminStep(a)
      PROVE  FALSE
  BY <1>s, <1>8 DEF AdminStep, PatchCard, PatchActive, StartPatch, SavePatch
<1>9. CASE UNCHANGED vars
  BY <1>s, <1>9 DEF vars
<1> QED BY <1>1, <1>2, <1>3, <1>4, <1>5, <1>6, <1>7, <1>8, <1>9 DEF Next, TerminalStep

\* A usable session ends with the clock, with its own logout or with a login of its
\* user, for any number of terminals and administrators and any retention.
THEOREM SessionsEndOnlyForAReason == Spec => SessionsEndForAReason
<1>1. TypeOK /\ [Next]_vars =>
        [\A k \in Keys : Usable(k) /\ ~Usable(k)' =>
           \/ now' > now
           \/ \E t \in Terminals :
                /\ term[t].pc = "leaving" /\ term[t].token = k
                /\ term'[t].pc = "idle"
           \/ \E t \in Terminals :
                /\ term[t].pc = "known" /\ term[t].user = session[k].user
                /\ term'[t].pc = "revoked"]_vars
  BY EndHasReason DEF HasReason
<1> QED BY <1>1, InitTyped, StepTyped, PTL DEF Spec, SessionsEndForAReason

=============================================================================
