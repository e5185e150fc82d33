--------------------------- MODULE MCReturnChecks ---------------------------
(***************************************************************************)
(* ReturnChecks with IDs of four bits and words of six: IDs up to 6, type  *)
(* IDs 13 and 14, every range, and every kind of return site.              *)
(***************************************************************************)
EXTENDS ReturnChecks

FunctionIDs == 1..6
TypeIDs == {13, 14}

Fn(list, ids, typeID, taken, returns, external) ==
    [list |-> list, ids |-> ids, typeID |-> typeID, addressTaken |-> taken,
     returns |-> returns, external |-> external]

\* Up to three IDs: a virtual function that overrides in several sub-vtables.
VirtualIDs == {<<a>> : a \in FunctionIDs} \cup {<<a, b>> : a, b \in FunctionIDs}
              \cup {<<>>, <<5, 2, 1>>, <<6, 3, 4>>}

SmallFunctions ==
    {Fn("virtual", ids, t, taken, 1, FALSE) : ids \in VirtualIDs, t \in {NoType, 14}, taken \in BOOLEAN}
    \cup {Fn("static", <<id>>, t, taken, n, external) :
            id \in FunctionIDs, t \in {NoType, 14}, taken \in BOOLEAN, n \in 0..2, external \in BOOLEAN}
    \cup {Fn("virtual", <<3>>, 14, TRUE, n, external) : n \in 0..2, external \in BOOLEAN}
    \cup {Fn(l, <<>>, NoType, FALSE, 1, FALSE) : l \in {"blacklist", "none"}}

Site(kind, lo, hi, first, second, far) ==
    [kind |-> kind, lo |-> lo, hi |-> hi, first |-> first, second |-> second, far |-> far]

\* What follows a call that has no second NOP, or none at all.
CodeBytes == {0, 14, 15, 16, 63}

SmallSites ==
    {Site("virtual", lo, lo + w, Mark(lo), Mark(w), FALSE) : lo \in FunctionIDs, w \in 0..3}
    \cup {Site("direct", id, id, Mark(id), w, FALSE) : id \in FunctionIDs, w \in {0, 17, 63}}
    \cup {Site("indirect", t, t, Mark(t), w, FALSE) : t \in TypeIDs, w \in {0, 17, 63}}
    \cup {Site("unknown", 0, 0, unknownID, w, FALSE) : w \in {0, 63}}
    \cup {Site("unlabelled", 0, 0, v, w, far) : v, w \in CodeBytes, far \in BOOLEAN}

=============================================================================
