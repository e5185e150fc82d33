--------------------------- MODULE MCBuildCHA -----------------------------
(***************************************************************************)
(* BuildCHA over the linked modules of small programs.                     *)
(***************************************************************************)
EXTENDS BuildCHA, CxxHierarchy, CloudGraph
LOCAL INSTANCE SequencesExt

Class(bases, vbases, declares) ==
    [bases |-> bases, vbases |-> vbases, declares |-> declares]

\* Four classes with single, multiple and secondary inheritance, no virtual bases.
PlainPrograms ==
    {<<Class(<<>>, {}, {1}), Class(b2, {}, {2}), Class(b3, {}, {1}), Class(b4, {}, {3})>> :
        b2 \in {<<>>, <<1>>}, b3 \in {<<>>, <<1>>, <<1, 2>>, <<2, 1>>},
        b4 \in {<<2>>, <<3>>, <<2, 3>>, <<3, 1>>}}

\* Classes 2 and 3 share the virtual base 1, which class 4 joins.
DiamondPrograms ==
    {<<Class(<<>>, {}, {1}), Class(<<>>, {1}, {2}), Class(<<>>, {1}, d3), Class(<<2, 3>>, {}, d4)>> :
        d3 \in {{2}, {1, 3}}, d4 \in {{}, {1}}}

\* A class with a virtual base and no virtual method of its own: its primary
\* sub-vtable has no functions and ends before its address point.
EmptyPrograms ==
    {<<Class(<<>>, {}, {1}), Class(<<>>, {1}, d2), Class(<<2>>, {}, {2})>> : d2 \in {{}, {1}}}

BasesOf(d) == [c \in DOMAIN d |-> ToSet(d[c].bases) \cup d[c].vbases]

\* sd_insertVtableMD attaches the metadata of a class together with that of
\* all its bases.
WithBases(d, c) ==
    LET up[n \in 0..Len(d)] ==
            IF n = 0 THEN {c} ELSE up[n - 1] \cup UNION {BasesOf(d)[b] : b \in up[n - 1]}
    IN  up[Len(d)]

\* The modules linked from units that each emit the vtable of one class, the
\* class of every unit in defined; the node of a class has an info of each
\* unit that mentions it.
ModuleOf(d, defined) ==
    LET layout == SubVTables(d)
        units(c) == {u \in defined : c \in WithBases(d, u)}
        node(c) == [i \in 1..Cardinality(units(c)) |-> ClassInfo(layout, c)]
    IN  [emitted  |-> defined,
         declared |-> [c \in DOMAIN d |-> c],
         nodes    |-> {node(c) : c \in {k \in DOMAIN d : units(k) # {}}}]

ModulesOf(decls, defs) == {ModuleOf(d, e) : d \in decls, e \in defs}

PlainModules == ModulesOf(PlainPrograms, {{4}, {2, 4}, {1, 3, 4}, 1..4})
DiamondModules == ModulesOf(DiamondPrograms, {{3, 4}, {4}, 1..4})
EmptyModules == ModulesOf(EmptyPrograms, {1..3})
AllModules == PlainModules \cup DiamondModules \cup EmptyModules

\* What topoSort may be run on: the class graphs of all these modules.
SortInputs ==
    {LET h == Hierarchy(Clouds!InfosOf(m))
     IN  [classes  |-> h.classes,
          roots    |-> h.roots,
          children |-> [c \in h.classes |-> {v[1] : v \in h.children[<<c, 0>>]}],
          declared |-> [c \in h.classes |-> m.declared[c]]]
        : m \in AllModules}
=============================================================================
