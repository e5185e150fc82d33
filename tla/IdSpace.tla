------------------------------ MODULE IdSpace ------------------------------
(***************************************************************************)
(* What the backward-edge protection needs of the IDs it compares: an ID   *)
(* is handed out once, to one owner, and an owner that has its ID keeps    *)
(* it.  IDs are taken from a counter that only grows; gaps are allowed.    *)
(***************************************************************************)
EXTENDS Naturals

CONSTANT Owner    \* whatever is numbered

VARIABLES idOf,   \* the owners numbered so far, with their IDs
          next    \* the first ID that has never been handed out

vars == <<idOf, next>>

Init == idOf = [o \in {} |-> 0] /\ next \in Nat

\* An owner without an ID receives an unused one.
Claim(o) ==
    /\ o \notin DOMAIN idOf
    /\ DOMAIN idOf' = DOMAIN idOf \cup {o}
    /\ \A p \in DOMAIN idOf : idOf'[p] = idOf[p]
    /\ next <= idOf'[o]
    /\ next' > idOf'[o]

\* The counter may skip IDs.
Skip == next' > next /\ UNCHANGED idOf

Next == Skip \/ \E o \in Owner : Claim(o)

Spec == Init /\ [][Next]_vars

\* No ID has two owners.
OneOwner == \A o, p \in DOMAIN idOf : idOf[o] = idOf[p] => o = p
=============================================================================
