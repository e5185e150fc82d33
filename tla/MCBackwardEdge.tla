--------------------------- MODULE MCBackwardEdge ---------------------------
(***************************************************************************)
(* BackwardEdge over small C++ programs: hierarchies laid out by           *)
(* CxxHierarchy, the functions and thunks that their vtables hold, three   *)
(* functions that are no methods, and calls of every kind.                 *)
(*                                                                         *)
(* Methods 3 and 4 of a class are the two slots of its destructor.  Both   *)
(* carry the name of the base destructor in the metadata.  The functions   *)
(* in them are others: the deleting destructor and, unless the compiler    *)
(* or SDFix has put the base destructor there, the complete one.           *)
(***************************************************************************)
EXTENDS BackwardEdge, CxxHierarchy, CloudGraph
LOCAL INSTANCE SequencesExt
LOCAL INSTANCE FiniteSetsExt

Class(bases, vbases, declares) ==
    [bases |-> bases, vbases |-> vbases, declares |-> declares]

Hierarchies ==
    {<<Class(<<>>, {}, {1}), Class(<<1>>, {}, {1, 2}), Class(<<1>>, {}, {1})>>,
     <<Class(<<>>, {}, {1}), Class(<<>>, {}, {2}), Class(<<2, 1>>, {}, {1})>>,
     <<Class(<<>>, {}, {1}), Class(<<>>, {}, {2}), Class(<<1, 2>>, {}, {1, 2}), Class(<<3>>, {}, {2})>>,
     <<Class(<<>>, {}, {1}), Class(<<>>, {1}, {1}), Class(<<>>, {1}, {2}), Class(<<2, 3>>, {}, {1})>>,
     <<Class(<<>>, {}, {3, 4}), Class(<<1>>, {}, {3, 4})>>,
     <<Class(<<>>, {}, {3, 4}), Class(<<>>, {}, {3, 4}), Class(<<1, 2>>, {}, {3, 4})>>}

Complete(h) == \E c \in h.classes : \E e \in h.functions[<<c, 0>>] : e.functionName[2] = 3

\* Both slots of a destructor have one name in the metadata.
Named(h) ==
    LET name(n) == IF n[2] = 4 THEN <<n[1], 3>> ELSE n
    IN  [h EXCEPT !.functions =
            [v \in h.vtables |-> {[e EXCEPT !.functionName = name(@)] : e \in h.functions[v]}]]

\* The function in the slot of a method; own tells that complete destructors
\* are functions of their own.
SlotFunction(n, own) ==
    CASE n[2] = 3 -> IF own THEN <<n[1], 5>> ELSE n
      [] n[2] = 4 -> <<n[1], 6>>
      [] OTHER    -> n

\* A vtable of class c that is not below the primary vtable of the class that
\* overrides the method holds a thunk, named for the sub-vtable it serves.
Home(h, v, n) == CHOOSE j \in 0..9 :
    /\ <<n[1], j>> \in h.vtables /\ v \in Below(h.children, <<n[1], j>>)
    /\ \A k \in 0..9 : <<n[1], k>> \in h.vtables /\ v \in Below(h.children, <<n[1], k>>) => j <= k

Callable(h, v, n, own) ==
    LET j == Home(h, v, n)
    IN  IF j = 0 THEN SlotFunction(n, own) ELSE SlotFunction(n, own) \o <<j>>

\* The elements of a set, in some order.
Listed(S) == FoldSet(LAMBDA x, seq : Append(seq, x), <<>>, S)

Void == [ret |-> [kind |-> "void"], params |-> <<>>]
Float == [ret |-> [kind |-> "float"], params |-> <<>>]

Fn(name, kind, taken, thunkOf, type) ==
    [name |-> name, kind |-> kind, addressTaken |-> taken, thunkOf |-> thunkOf, type |-> type]

InVtables(h, own) ==
    UNION {{<<Callable(h, v, e.functionName, own), e.functionName>> : e \in h.functions[v]} : v \in h.vtables}

FunctionsOf(D, h, own) ==
    LET layout == SubVTables(D)
        virtual(fn) == layout[fn[1]][fn[3] + 1].key # NonVirtual
        slot(p) == IF Len(p[1]) = 2 THEN Fn(p[1], "cxx", TRUE, <<>>, Void)
                   ELSE Fn(p[1], IF virtual(p[1]) THEN "cxx" ELSE "thunk", TRUE,
                           SlotFunction(p[2], own), Void)
        base == IF own THEN {Fn(<<c, 3>>, "cxx", FALSE, <<>>, Void) : c \in {d \in DOMAIN D : 3 \in D[d].declares}}
                ELSE {}
    IN  {slot(p) : p \in InVtables(h, own)} \cup base
        \cup {Fn(<<0, 1>>, "plain", TRUE, <<>>, Void), Fn(<<0, 2>>, "plain", TRUE, <<>>, Float),
              Fn(<<0, 3>>, "blacklisted", FALSE, <<>>, Void)}

Call0(kind, method, class, callee, tail, type, callees) ==
    [kind |-> kind, loc |-> NoLoc, found |-> kind = "virtual", method |-> method, class |-> class,
     blacklisted |-> FALSE, callee |-> callee, tail |-> tail, type |-> type, callees |-> callees]

\* The functions in the slot that a call of method n names.
Reached(h, n, own) ==
    LET slot == (CHOOSE e \in h.functions[<<n[1], 0>>] : e.functionName = n).offsetInVTable
    IN  UNION {{Callable(h, v, e.functionName, own)
                  : e \in {g \in h.functions[v] : g.offsetInVTable = slot}}
                : v \in Below(h.children, <<n[1], 0>>)}

\* The virtual calls are those of one method in the classes that declare it.
CallsOf(D, h, own, functions, method) ==
    LET methods == {<<c, method>> : c \in {d \in DOMAIN D : method \in D[d].declares}}
        name(n) == IF n[2] = 4 THEN <<n[1], 3>> ELSE n
        virtual == {Call0("virtual", name(n), n[1], <<>>, FALSE, Void, Reached(h, n, own)) : n \in methods}
        last == Len(D)
        direct == {Call0("direct", <<>>, 0, SlotFunction(n, own), FALSE, Void, {SlotFunction(n, own)})
                     : n \in {k \in methods : k[1] = last}}
        indirect == {Call0("indirect", <<>>, 0, <<>>, tail, Void,
                           {fn.name : fn \in {g \in functions : g.addressTaken /\ g.type = Void}})
                       : tail \in BOOLEAN}
        all == Listed(virtual \cup direct \cup indirect)
    IN  [i \in DOMAIN all |-> [all[i] EXCEPT !.loc = IF i % 3 = 0 THEN NoLoc ELSE <<"a.cpp", i>>]]

TopologicalOrders(h) ==
    {s \in SetToSeqs(h.classes) :
        \A i, j \in DOMAIN s : (\E v \in h.children[<<s[i], 0>>] : v[1] = s[j]) => i < j}

ProgramOf(D, h, own, o, method) ==
    LET functions == FunctionsOf(D, h, own)
    IN  [cha |-> Named(h), order |-> o, functions |-> Listed(functions),
         calls |-> CallsOf(D, h, own, functions, method)]

SmallSystems ==
    UNION {LET h == Hierarchy(ClassInfos(D))
           IN  {ProgramOf(D, h, own, o, method) :
                   own \in {TRUE, ~Complete(h)}, o \in TopologicalOrders(h),
                   method \in UNION {D[c].declares : c \in DOMAIN D}}
             : D \in Hierarchies}
=============================================================================
