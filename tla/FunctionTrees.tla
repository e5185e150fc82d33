--------------------------- MODULE FunctionTrees ---------------------------
(***************************************************************************)
(* What the numbering of FunctionInfo is for: the range that a virtual     *)
(* call is annotated with covers every function that the call may run.     *)
(* Where the primitive vtables form trees, which they do in programs       *)
(* without virtual bases, the range of an entry is its subtree.            *)
(***************************************************************************)
EXTENDS FunctionInfo, CloudGraph

-----------------------------------------------------------------------------
(* What clang's class metadata and the class order of topoSort() look      *)
(* like, h being the vtable graph of a program and o the order.            *)

\* A class is listed once, and after its bases.
Position(o, c) == CHOOSE i \in DOMAIN o : o[i] = c

BasesFirst(h, o) ==
    /\ h.vtables \subseteq h.classes \X Nat
    /\ h.classes = {o[i] : i \in DOMAIN o}
    /\ \A i, j \in DOMAIN o : o[i] = o[j] => i = j
    /\ \A v \in h.vtables : \A w \in h.children[v] : Position(o, v[1]) < Position(o, w[1])

\* A slot of a vtable holds one function, and is a slot of the vtables below.
SlotsInherited(h) ==
    /\ \A v \in h.vtables : \A f, g \in h.functions[v] :
          /\ f.offsetInVTable \in Nat
          /\ f.offsetInVTable = g.offsetInVTable => f = g
    /\ \A v \in h.vtables : \A w \in h.children[v] : \A f \in h.functions[v] :
          \E g \in h.functions[w] : g.offsetInVTable = f.offsetInVTable

\* A function may have several slots of a vtable: sd_generateSubvtableInfo
\* gives both destructors one name, and a covariant override has two slots.
FirstSlot(h, f) ==
    \A g \in h.functions[f.vTable] :
        g.functionName = f.functionName => f.offsetInVTable <= g.offsetInVTable

\* A slot keeps the base's function or runs one of the derived class, which
\* overrides in all the slots of a function, the first one first.
SlotsOverridden(h) ==
    \A v \in h.vtables : \A w \in h.children[v] :
        \A f \in h.functions[v] : \A g \in h.functions[w] :
            g.offsetInVTable = f.offsetInVTable =>
                /\ g.functionName # f.functionName => g.functionName[1] = w[1]
                /\ FirstSlot(h, f) => FirstSlot(h, g)

\* Two slots of a class that run the same function run the same function in
\* every class derived from it, whose vtables hold those of the base.
SlotsParallel(h) ==
    \A v, u \in h.vtables : v[1] = u[1] =>
        \A f \in h.functions[v] : \A e \in h.functions[u] : e.functionName = f.functionName =>
            \A w \in h.children[v] : \A g \in h.functions[w] :
                g.offsetInVTable = f.offsetInVTable =>
                    \E x \in h.children[u] : \E y \in h.functions[x] :
                        /\ x[1] = w[1]
                        /\ y.offsetInVTable = e.offsetInVTable
                        /\ y.functionName = g.functionName

\* A function is named by the class that declares it, which is the class of
\* the vtable or a base, and has a slot in the primary vtable of that class.
Declared(h, o) ==
    \A v \in h.vtables : \A f \in h.functions[v] :
        /\ f.functionName[1] \in h.classes
        /\ Position(o, f.functionName[1]) <= Position(o, v[1])
        /\ \E g \in h.functions[<<f.functionName[1], 0>>] : g.functionName = f.functionName

Laid(p) ==
    /\ BasesFirst(p.cha, p.order)
    /\ SlotsInherited(p.cha)
    /\ SlotsOverridden(p.cha)
    /\ SlotsParallel(p.cha)
    /\ Declared(p.cha, p.order)

ASSUME LaidAssumption == \A p \in Programs : Laid(p)

\* A program whose primitive vtables form trees.
Tree(p) == IsForest(p.cha.children)

-----------------------------------------------------------------------------
\* The entries of one slot, in a vtable and the vtables below it.
EntriesBelow(h, v, slot) ==
    UNION {{g \in h.functions[w] : g.offsetInVTable = slot} : w \in Below(h.children, v)}

InRange(range, e) ==
    e \in DOMAIN functionIDMap /\ functionIDMap[e] \in range[1]..range[2]

\* Once numbered, the range of an entry holds the IDs of the entries in the
\* same slot at or below its vtable and no other ID.
RangesAreSubtrees ==
    Finished /\ IsForest(cha.children) => \A e \in DOMAIN functionRangeMap :
        {f \in DOMAIN functionIDMap : InRange(functionRangeMap[e], f)} =
        EntriesBelow(cha, e.vTable, e.offsetInVTable)

\* SDReturnRange annotates a virtual call of a method with the first range of
\* <<function, declaring class>>.  Whatever vtable the object has, the function
\* its slot runs has an ID that is not below that range and, in a forest, is in
\* it: a legitimate return is accepted.  (A vtable with two parents is numbered
\* again for the second one, its ID may leave the range of the first.)
CallsCovered ==
    Finished => \A c \in cha.classes : \A f \in cha.functions[<<c, 0>>] :
        f.functionName[1] = c =>
            LET ranges == getFunctionRange(f.functionName, c)
            IN  /\ ranges # <<>>
                /\ \A v \in Below(cha.children, <<c, 0>>) : \A g \in cha.functions[v] :
                      g.offsetInVTable = f.offsetInVTable =>
                          \E id \in getFunctionID(g.functionName) :
                              /\ ranges[1][1] <= id
                              /\ IsForest(cha.children) => id <= ranges[1][2]

\* The IDs of the virtual functions are handed out as from an ID space.
AllEntries == UNION {UNION {p.cha.functions[v] : v \in p.cha.vtables} : p \in Programs}
ids == INSTANCE IdSpace WITH Owner <- AllEntries, idOf <- functionIDMap, next <- currentID
ImplementsIdSpace == ids!Spec
=============================================================================
