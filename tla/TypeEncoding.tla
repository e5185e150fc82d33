---------------------------- MODULE TypeEncoding ----------------------------
(***************************************************************************)
(* SDEncoding: the number that stands for a function type.  Indirect calls *)
(* and address-taken functions are matched by it, so two types may share a *)
(* number only if the scheme means to treat them alike.                    *)
(*                                                                         *)
(* An LLVM type is a record with a kind; an integer has its bits, a        *)
(* pointer the type it points to.  A function type has ret and params.     *)
(* MaxParams is 8 in the code; a smaller value keeps TLC's integers small. *)
(***************************************************************************)
EXTENDS Naturals, Sequences

CONSTANT MaxParams    \* a function with so many parameters is not encoded
ASSUME MaxParamsAssumption == MaxParams \in Nat \ {0}

Base == 32    \* every code of a type is below it

\* What encodeType answers for a type when it does not look behind a pointer.
Flat(T) ==
    CASE T.kind = "void" -> 1
      [] T.kind = "integer" -> CASE T.bits <= 1 -> 2
                                 [] T.bits \in 2..8 -> 3
                                 [] T.bits \in 9..16 -> 4
                                 [] T.bits \in 17..32 -> 5
                                 [] OTHER -> 6
      [] T.kind = "half" -> 7
      [] T.kind = "float" -> 8
      [] T.kind = "double" -> 9
      [] T.kind = "longdouble" -> 10
      [] T.kind = "pointer" -> 11
      [] T.kind = "struct" -> 12
      [] T.kind = "array" -> 13
      [] OTHER -> 14

encodeType(T, recurse) ==
    IF T.kind = "pointer" /\ recurse THEN 16 + Flat(T.element) ELSE Flat(T)

\* The code of the return type, where there is one to encode.
encodeReturn(F, encodePointers, encodeReturnType) ==
    IF encodeReturnType THEN encodeType(F.ret, encodePointers) ELSE Base

\* Mutant: the codes of two parameters overlap.
encodeOverlapping(F, encodePointers, encodeReturnType) ==
    LET encoding[n \in 0..Len(F.params)] ==
            IF n = 0 THEN encodeReturn(F, encodePointers, encodeReturnType)
            ELSE encodeType(F.params[n], TRUE) + encoding[n - 1] * 4
    IN  IF Len(F.params) >= MaxParams THEN Base ELSE encoding[Len(F.params)]

\* The codes as the digits of a number, after n parameters.  encodePointers reaches
\* only the return type: the parameters are always encoded with their pointers.
encodeFunction(F, encodePointers, encodeReturnType) ==
    LET encoding[n \in 0..Len(F.params)] ==
            IF n = 0 THEN encodeReturn(F, encodePointers, encodeReturnType)
            ELSE encodeType(F.params[n], TRUE) + encoding[n - 1] * Base
    IN  IF Len(F.params) >= MaxParams THEN Base ELSE encoding[Len(F.params)]

\* The encoding that decides which indirect calls a function accepts.
Precise(F) == encodeFunction(F, TRUE, TRUE)
-----------------------------------------------------------------------------
\* Only integers and pointers have more to them than their kind.
IsType(T) ==
    /\ T.kind = "integer" => T.bits \in Nat
    /\ T.kind = "pointer" /\ T.element.kind = "integer" => T.element.bits \in Nat

IsFunctionType(F) ==
    /\ IsType(F.ret)
    /\ Len(F.params) \in Nat /\ DOMAIN F.params = 1..Len(F.params)
    /\ \A i \in DOMAIN F.params : IsType(F.params[i])

\* What an encoding is meant to keep of a type: the class of a scalar, one level
\* of pointers, and nothing of a function with many parameters.
Width(bits) == IF bits > 32 THEN 64
               ELSE CHOOSE w \in {1, 8, 16, 32} :
                       bits <= w /\ \A v \in {1, 8, 16, 32} : bits <= v => w <= v
Known == {"void", "half", "float", "double", "longdouble", "pointer", "struct", "array"}
Class(T) == IF T.kind = "integer" THEN <<"integer", Width(T.bits)>>
            ELSE IF T.kind \in Known THEN <<T.kind, 0>>
            ELSE <<"other", 0>>
Shape(T) == IF T.kind = "pointer" THEN <<"pointer", Class(T.element)>>
            ELSE <<"value", Class(T)>>
SameShape(s, t) ==
    \/ Len(s.params) >= MaxParams /\ Len(t.params) >= MaxParams
    \/ /\ Len(s.params) < MaxParams
       /\ Len(s.params) = Len(t.params)
       /\ Shape(s.ret) = Shape(t.ret)
       /\ \A i \in DOMAIN s.params : Shape(s.params[i]) = Shape(t.params[i])
=============================================================================
