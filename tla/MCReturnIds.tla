---------------------------- MODULE MCReturnIds ----------------------------
(***************************************************************************)
(* ReturnIds over all modules of three functions of every kind, and over   *)
(* pairs of address-taken functions of all kinds of types.                 *)
(***************************************************************************)
EXTENDS ReturnIds

Int(bits) == [kind |-> "integer", bits |-> bits]
Type(kind) == [kind |-> kind]
Pointer(T) == [kind |-> "pointer", element |-> T]
Signature(ret, params) == [ret |-> ret, params |-> params]

Plain == Signature(Type("void"), <<>>)
WithInt == Signature(Int(32), <<Int(32)>>)

\* The IDs of the virtual functions: method i of the module has ID i, and a
\* method of another class, with two slots, has 4 and 5.
Other == <<"other", 0>>

\* A function of a library class, which has no metadata and so no ID.
Library == <<"library", 0>>

Function(i, kind, taken, thunkOf, type) ==
    [name |-> <<"function", i>>, kind |-> kind, addressTaken |-> taken,
     thunkOf |-> thunkOf, type |-> type]

FunctionsOf(i) ==
    {Function(i, k, taken, Other, t) : k \in Kinds, taken \in BOOLEAN, t \in {Plain, WithInt}}
    \cup {Function(i, "thunk", TRUE, <<"function", 1>>, Plain),
          Function(i, "thunk", FALSE, Library, Plain)}

\* Function 1 may have a virtual ID, the others are numbered by the module.
KindModules ==
    {[functions |-> <<f, g, h>>, maxID |-> 6,
      virtualIDs |-> [n \in {<<"function", 1>>, Other} |->
                        IF n = Other THEN <<4, 5>> ELSE <<1>>]]
        : f \in {x \in FunctionsOf(1) : x.kind \in {"cxx", "thunk", "constructor"}},
          g \in FunctionsOf(2), h \in {x \in FunctionsOf(3) : x.kind \notin {"constructor"}}}

Parameters == {Int(1), Int(8), Int(9), Int(32), Int(64), Type("float"), Type("struct"),
               Pointer(Int(8)), Pointer(Type("struct")), Pointer(Pointer(Int(8))), Type("vector")}
Signatures ==
    {Signature(r, <<>>) : r \in Parameters}
    \cup {Signature(Type("void"), <<p>>) : p \in Parameters}
    \cup {Signature(Int(32), <<p, q>>) : p, q \in {Int(1), Pointer(Int(8)), Pointer(Type("vector"))}}
    \cup {Signature(Type("void"), <<p, p, p>>) : p \in {Int(1), Int(32)}}

TypeModules ==
    {[functions |-> <<Function(1, "plain", TRUE, Other, s), Function(2, "plain", TRUE, Other, t)>>,
      maxID |-> 1, virtualIDs |-> [n \in {} |-> <<>>]] : s, t \in Signatures}

AllModules == KindModules \cup TypeModules
=============================================================================
