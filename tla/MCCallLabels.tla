---------------------------- MODULE MCCallLabels ----------------------------
(***************************************************************************)
(* CallLabels over all modules of three calls that share two source        *)
(* locations or have none.                                                 *)
(***************************************************************************)
EXTENDS CallLabels

Type(kind) == [kind |-> kind]
Signature(ret, params) == [ret |-> ret, params |-> params]
Void == Signature(Type("void"), <<>>)
Float == Signature(Type("float"), <<Type("float")>>)

Call(kind, loc, found, ranges, blacklisted, calleeID, tail, type) ==
    [kind |-> kind, loc |-> loc, found |-> found, ranges |-> ranges, blacklisted |-> blacklisted,
     calleeID |-> calleeID, tail |-> tail, type |-> type]

Virtual(loc, found, ranges, tail) == Call("virtual", loc, found, ranges, FALSE, 0, tail, Void)
Direct(loc, blacklisted, calleeID) ==
    Call("direct", loc, FALSE, <<>>, blacklisted, calleeID, FALSE, Void)
Indirect(loc, tail, type) == Call("indirect", loc, FALSE, <<>>, FALSE, 0, tail, type)
Other(kind, loc) == Call(kind, loc, FALSE, <<>>, FALSE, 0, FALSE, Void)

CallsAt(l) ==
    {Virtual(l, TRUE, <<<<1, 3>>>>, FALSE), Virtual(l, TRUE, <<<<2, 2>>, <<4, 5>>>>, TRUE),
     Virtual(l, TRUE, <<>>, FALSE), Virtual(l, FALSE, <<<<1, 1>>>>, TRUE),
     Direct(l, FALSE, 6), Direct(l, FALSE, 0), Direct(l, TRUE, 7),
     Indirect(l, TRUE, Void), Indirect(l, FALSE, Void), Indirect(l, FALSE, Float),
     Other("cast", l), Other("address", l)}

Locations == {NoLoc, <<"a.cpp", 1>>, <<"a.cpp", 2>>}

AllPrograms ==
    {<<c, d, e>> : c \in CallsAt(NoLoc) \cup CallsAt(<<"a.cpp", 1>>),
                   d \in UNION {CallsAt(l) : l \in Locations},
                   e \in {Virtual(l, TRUE, <<<<4, 5>>>>, FALSE) : l \in Locations}
                         \cup {Direct(l, FALSE, 7) : l \in Locations}
                         \cup {Indirect(l, FALSE, Float) : l \in Locations}
                         \cup {Other("address", NoLoc)}}
=============================================================================
