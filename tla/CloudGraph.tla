----------------------------- MODULE CloudGraph -----------------------------
(***************************************************************************)
(* The primitive-vtable graph of a program, read directly off its class    *)
(* metadata: what SDBuildCHA::buildClouds must have built once it has seen *)
(* every class, in whatever order the linker stored the metadata.  A       *)
(* primitive vtable (vtbl_t) is the pair <<class, sub-vtable index>>.      *)
(***************************************************************************)
EXTENDS Naturals, FiniteSets, Sequences
LOCAL INSTANCE CxxHierarchy

Vtables(infos) ==
    UNION {{<<i.className, k - 1>> : k \in DOMAIN i.subVTables} : i \in infos}

InfoOf(infos, v) == CHOOSE i \in infos : i.className = v[1]
SubOf(infos, v) == InfoOf(infos, v).subVTables[v[2] + 1]

\* A vtable without a parent has NoParent (an empty name) in the metadata.
Parentless(sub) == NoParent \in sub.parents
Parents(sub) == sub.parents \ {NoParent}

ParentsIn(infos, v) == Parents(SubOf(infos, v))
ChildrenIn(infos, v) == {w \in Vtables(infos) : v \in ParentsIn(infos, w)}
RootsIn(infos) ==
    {i.className : i \in {j \in infos : Parentless(j.subVTables[1])}}

\* The FunctionEntry records of a vtable: name, vtable and slot.
EntriesIn(infos, v) ==
    {[functionName |-> f.name, vTable |-> v, offsetInVTable |-> f.off]
        : f \in SubOf(infos, v).functions}

\* The vtables at or below a vtable, by recursion into its children.
Below(children, v) ==
    LET below[w \in DOMAIN children] == {w} \cup UNION {below[c] : c \in children[w]}
    IN  below[v]

\* Every vtable is reached along one path only: no vtable has two parents.
IsForest(children) ==
    \A v, w \in DOMAIN children : v # w => children[v] \cap children[w] = {}

\* What the numbering and the layout passes read of SDBuildCHA.
Hierarchy(infos) ==
    [classes   |-> {i.className : i \in infos},
     roots     |-> RootsIn(infos),
     vtables   |-> Vtables(infos),
     children  |-> [v \in Vtables(infos) |-> ChildrenIn(infos, v)],
     functions |-> [v \in Vtables(infos) |-> EntriesIn(infos, v)]]

\* What SDLayoutBuilder reads: the root a vtable is below, its layout class,
\* its address point and its extent in the vtable group of its class.
LayoutQueries(infos) ==
    LET h == Hierarchy(infos)
        Ancestor(v) == CHOOSE r \in h.roots : v \in Below(h.children, <<r, 0>>)
    IN  [roots       |-> h.roots,
         children    |-> h.children,
         ancestor    |-> [v \in h.vtables |-> Ancestor(v)],
         layoutClass |-> [v \in h.vtables |->
             IF ParentsIn(infos, v) = {} THEN v[1]
             ELSE Ancestor(CHOOSE p \in ParentsIn(infos, v) : TRUE)],
         addrPt      |-> [v \in h.vtables |-> SubOf(infos, v).addressPoint],
         range       |-> [v \in h.vtables |-> <<SubOf(infos, v).start, SubOf(infos, v).end>>]]
=============================================================================
