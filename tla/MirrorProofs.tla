---------------------------- MODULE MirrorProofs -----------------------------
(***************************************************************************)
(* Whatever keeps the promise of Mirror is honest: nothing else is needed  *)
(* to rely on what a mirror claims.                                        *)
(***************************************************************************)
EXTENDS Mirror, TLAPS

Typed ==
  /\ source \in [Files -> Nat]
  /\ claim \in [Files -> Nat]
  /\ copy \in [Files -> Nat]

HonestInv == Typed /\ Honest

LEMMA HonestStep == HonestInv /\ [Next]_mirrorVars => HonestInv'
<1> SUFFICES ASSUME HonestInv, [Next]_mirrorVars PROVE HonestInv'
  OBVIOUS
<1> USE DEF HonestInv, Typed, Honest
<1>1. ASSUME NEW f \in Files, Edit(f)
      PROVE  HonestInv'
  <2>1. source[f] + 1 \in Nat
    OBVIOUS
  <2>2. source' \in [Files -> Nat] /\ UNCHANGED <<claim, copy>>
    BY <1>1, <2>1 DEF Edit
  <2>3. \A g \in Files : source[g] <= source'[g] /\ (g # f => source'[g] = source[g])
    BY <1>1, <2>1 DEF Edit
  <2> QED BY <2>2, <2>3
<1>2. ASSUME NEW f \in Files, Receive(f)
      PROVE  HonestInv'
  <2>1. PICK c \in claim[f]..source[f] : copy' = [copy EXCEPT ![f] = c]
    BY <1>2 DEF Receive
  <2>2. c \in Nat /\ claim[f] <= c /\ c <= source[f]
    BY <2>1
  <2> QED BY <1>2, <2>1, <2>2 DEF Receive
<1>3. ASSUME NEW f \in Files, GiveUp(f)
      PROVE  HonestInv'
  BY <1>3 DEF GiveUp
<1>4. ASSUME NEW f \in Files, Claim(f)
      PROVE  HonestInv'
  <2>1. PICK c \in claim[f]..source[f] : \E e \in claim[f]..c :
          claim' = [claim EXCEPT ![f] = e] /\ copy' = [copy EXCEPT ![f] = c]
    BY <1>4 DEF Claim
  <2>2. PICK e \in claim[f]..c : claim' = [claim EXCEPT ![f] = e]
                                 /\ copy' = [copy EXCEPT ![f] = c]
    BY <2>1
  <2>3. /\ c \in Nat /\ c <= source[f]
        /\ e \in Nat /\ e <= c
    BY <2>1, <2>2
  <2> QED BY <1>4, <2>2, <2>3 DEF Claim
<1>5. CASE UNCHANGED mirrorVars
  BY <1>5 DEF mirrorVars
<1> QED BY <1>1, <1>2, <1>3, <1>4, <1>5 DEF Next

\* A mirror that takes only the steps of Mirror never claims a version newer than its
\* copy, and a claim it cannot back with a copy is out of date at the source.
THEOREM MirrorsAreHonest == Spec => []Honest
<1>1. Init => HonestInv
  BY DEF Init, HonestInv, Typed, Honest
<1>2. HonestInv => Honest
  BY DEF HonestInv
<1> QED BY <1>1, <1>2, HonestStep, PTL DEF Spec

=============================================================================
