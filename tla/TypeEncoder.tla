---------------------------- MODULE TypeEncoder ----------------------------
(***************************************************************************)
(* SDEncoder: the IDs of function types.  SDReturnAddress owns the encoder *)
(* and SDReturnRange goes on using it, so that a function whose address is *)
(* taken and an indirect call of its type meet in one ID.  Type IDs are    *)
(* handed out downwards from the top of the 19-bit space whose bottom the  *)
(* function IDs fill.                                                      *)
(***************************************************************************)
EXTENDS Naturals, TypeEncoding

CONSTANT StartTypeID    \* 0x7FFFE in the code

ASSUME StartTypeIDAssumption == StartTypeID \in Nat \ {0}

VARIABLES EncodingToTypeID,    \* encoding -> type ID
          NextTypeID           \* the next type ID to hand out

encoderVars == <<EncodingToTypeID, NextTypeID>>

EncoderInit ==
    /\ EncodingToTypeID = [e \in {} |-> 0]
    /\ NextTypeID = StartTypeID

\* Mutant: an encoding that has an ID is given another one.
AlwaysNextID(F, id) ==
    /\ NextTypeID > 0
    /\ id = NextTypeID
    /\ EncodingToTypeID' =
           [x \in DOMAIN EncodingToTypeID \cup {Precise(F)} |->
               IF x = Precise(F) THEN NextTypeID ELSE EncodingToTypeID[x]]
    /\ NextTypeID' = NextTypeID - 1

\* getTypeID answers id for the function type F; a new encoding takes the next
\* one.  NextTypeID is unsigned: the model stops where it would wrap.
getTypeID(F, id) ==
    LET e == Precise(F)
    IN  \/ /\ e \in DOMAIN EncodingToTypeID
           /\ id = EncodingToTypeID[e]
           /\ UNCHANGED encoderVars
        \/ /\ e \notin DOMAIN EncodingToTypeID
           /\ NextTypeID > 0
           /\ id = NextTypeID
           /\ EncodingToTypeID' =
                  [x \in DOMAIN EncodingToTypeID \cup {e} |->
                      IF x = e THEN NextTypeID ELSE EncodingToTypeID[x]]
           /\ NextTypeID' = NextTypeID - 1
=============================================================================
