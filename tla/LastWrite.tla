----------------------------- MODULE LastWrite -----------------------------
(***************************************************************************)
(* What a list that all servers keep a copy of promises of one entry: the  *)
(* copies are of versions that somebody made, a later version replaces an  *)
(* earlier one, and a version is one state of the entry.  How versions get *)
(* from server to server, who sends what again to whom and what is lost on *)
(* the way is left to Gline and Shun, that implement this.                 *)
(***************************************************************************)
EXTENDS Naturals, TLAPS

CONSTANT Servers

VARIABLES
    copy,   \* copy[s]: the version that server s has
    known   \* the versions that a server has or that are under way

vars == <<copy, known>>

None == [at |-> 0, on |-> FALSE]
Version == [at : Nat, on : BOOLEAN]

Init == copy = [s \in Servers |-> None] /\ known = {None}

(* A change on s makes a version later than all that there are.            *)
Write(s) ==
    \E v \in known' :
        /\ v \in Version
        /\ \A w \in known : w.at < v.at
        /\ copy' = [copy EXCEPT ![s] = v]
        /\ known' \subseteq known \cup {v}

(* s hears of a later version than its own.                                *)
Learn(s) ==
    \E v \in known :
        /\ v.at > copy[s].at
        /\ copy' = [copy EXCEPT ![s] = v]
        /\ known' \subseteq known

(* A version that no server has any more is lost on the way.               *)
Forget == UNCHANGED copy /\ known' \subseteq known

(* The versions that servers have are not lost.                            *)
Held == \A s \in Servers : copy[s] \in known

Next == Held' /\ (Forget \/ \E s \in Servers : Write(s) \/ Learn(s))

Spec == Init /\ [][Next]_vars

-----------------------------------------------------------------------------
(* Versions of the same time are the same state of the entry: m_gline.c    *)
(* and m_shun.c may drop a message whose time is the one they have.        *)
OneStatePerVersion ==
    /\ known \subseteq Version
    /\ \A v, w \in known : v.at = w.at => v = w

(* No server goes back to an earlier version.                              *)
CopiesForward == \A s \in Servers : copy'[s].at >= copy[s].at

IInv == OneStatePerVersion /\ Held /\ copy \in [Servers -> Version]

(* Both follow from the invariant that servers have versions that exist.   *)
LEMMA IInvHolds == Spec => []IInv
<1>1. Init => IInv
  BY DEF Init, IInv, Held, OneStatePerVersion, Version, None
<1>2. IInv /\ [Next]_vars => IInv'
  <2> SUFFICES ASSUME IInv, [Next]_vars PROVE IInv'
    OBVIOUS
  <2>1. ASSUME known' \subseteq known PROVE OneStatePerVersion'
    BY <2>1 DEF IInv, OneStatePerVersion
  <2>2. ASSUME NEW s \in Servers, Write(s) PROVE OneStatePerVersion'
    <3>1. PICK v \in Version : /\ \A w \in known : w.at < v.at
                               /\ known' \subseteq known \cup {v}
      BY <2>2 DEF Write
    <3>2. \A w \in known : w.at # v.at
      BY <3>1 DEF IInv, OneStatePerVersion, Version
    <3> QED
      BY <3>1, <3>2 DEF IInv, OneStatePerVersion
  <2>3. OneStatePerVersion'
    BY <2>1, <2>2 DEF Next, Learn, Forget, vars
  <2>4. Held'
    BY DEF Next, IInv, Held, vars
  <2>5. copy' \in [Servers -> Version]
    BY DEF Next, Write, Learn, Forget, IInv, OneStatePerVersion, vars
  <2> QED
    BY <2>3, <2>4, <2>5 DEF IInv
<1> QED
  BY <1>1, <1>2, PTL DEF Spec

(* The versions that are made are never made again with another state, by  *)
(* whatever servers and in whatever order they learn of them (ms_gline and *)
(* ms_shun compare times only).                                            *)
THEOREM OneStatePerVersionHolds == Spec => []OneStatePerVersion
<1>1. IInv => OneStatePerVersion
  BY DEF IInv
<1> QED
  BY <1>1, IInvHolds, PTL

(* "modification time that must be monotonically increasing": no server's  *)
(* copy goes back, whoever makes the next version.                         *)
THEOREM CopiesForwardHolds == Spec => [][CopiesForward]_vars
<1>1. IInv /\ [Next]_vars => [CopiesForward]_vars
  <2> SUFFICES ASSUME IInv, Next, NEW t \in Servers
               PROVE copy'[t].at >= copy[t].at
    BY DEF CopiesForward
  <2>1. copy \in [Servers -> Version] /\ copy[t].at \in Nat
    BY DEF IInv, Version
  <2>2. CASE Forget
    BY <2>1, <2>2 DEF Forget
  <2>3. ASSUME NEW s \in Servers, Write(s) PROVE copy'[t].at >= copy[t].at
    <3>1. PICK v \in Version : /\ \A w \in known : w.at < v.at
                               /\ copy' = [copy EXCEPT ![s] = v]
      BY <2>3 DEF Write
    <3>2. copy[s] \in known /\ v.at \in Nat
      BY <3>1 DEF IInv, Held, Version
    <3> QED
      BY <3>1, <3>2, <2>1
  <2>4. ASSUME NEW s \in Servers, Learn(s) PROVE copy'[t].at >= copy[t].at
    <3>1. PICK v \in known : /\ v.at > copy[s].at
                             /\ copy' = [copy EXCEPT ![s] = v]
      BY <2>4 DEF Learn
    <3>2. v.at \in Nat
      BY <3>1 DEF IInv, OneStatePerVersion, Version
    <3> QED
      BY <3>1, <3>2, <2>1
  <2> QED
    BY <2>2, <2>3, <2>4 DEF Next
<1> QED
  BY <1>1, IInvHolds, PTL DEF Spec
=============================================================================
