------------------------------- MODULE Mirror --------------------------------
(***************************************************************************)
(* What a mirror of versioned files promises: it never claims to hold a    *)
(* version newer than the copy it has, it gives a copy up only while the   *)
(* source has a newer one, and it never falls back behind its claim.       *)
(*                                                                         *)
(* Nothing is said of requests, rows, failures or the order of steps:      *)
(* DocumentSync shows that the nightly sync keeps this promise.            *)
(***************************************************************************)
EXTENDS Naturals

CONSTANT Files  \* what is mirrored

VARIABLES
  source,  \* the version of each file at the source
  claim,   \* the version the mirror says it has, 0 if none
  copy     \* the version of the copy it can hand out, 0 if it cannot

mirrorVars == <<source, claim, copy>>

Init ==
  /\ source = [f \in Files |-> 0]
  /\ claim = [f \in Files |-> 0]
  /\ copy = [f \in Files |-> 0]

Edit(f) ==
  /\ source' = [source EXCEPT ![f] = @ + 1]
  /\ UNCHANGED <<claim, copy>>

\* A copy arrives, before the mirror says so.
Receive(f) ==
  /\ \E c \in claim[f]..source[f] : copy' = [copy EXCEPT ![f] = c]
  /\ UNCHANGED <<source, claim>>

\* The old copy makes room for a newer one.
GiveUp(f) ==
  /\ claim[f] < source[f]
  /\ copy' = [copy EXCEPT ![f] = 0]
  /\ UNCHANGED <<source, claim>>

\* The mirror has a copy, and says that it has this version or an older one.
Claim(f) ==
  /\ \E c \in claim[f]..source[f] : \E e \in claim[f]..c :
       /\ claim' = [claim EXCEPT ![f] = e]
       /\ copy' = [copy EXCEPT ![f] = c]
  /\ UNCHANGED source

Next == \E f \in Files : Edit(f) \/ Receive(f) \/ GiveUp(f) \/ Claim(f)

Spec == Init /\ [][Next]_mirrorVars

\* A copy is as new as the claim, and a claim without a copy is out of date.
Honest ==
  \A f \in Files :
    /\ claim[f] <= source[f] /\ copy[f] <= source[f]
    /\ IF copy[f] = 0 THEN claim[f] = 0 \/ claim[f] < source[f] ELSE claim[f] <= copy[f]

=============================================================================
