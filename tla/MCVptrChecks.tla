---------------------------- MODULE MCVptrChecks ----------------------------
(***************************************************************************)
(* VptrChecks over the clouds of small programs, which MCBuildCHA shows to *)
(* be what SDBuildCHA holds after reading their metadata.                  *)
(***************************************************************************)
EXTENDS VptrChecks, CxxHierarchy, CloudGraph
LOCAL INSTANCE SequencesExt
LOCAL INSTANCE TLC

Class(bases, vbases, declares) ==
    [bases |-> bases, vbases |-> vbases, declares |-> declares]

\* Four classes with single, multiple and secondary inheritance, no virtual bases.
PlainPrograms ==
    {<<Class(<<>>, {}, {1}), Class(b2, {}, {2}), Class(b3, {}, {1}), Class(b4, {}, {3})>> :
        b2 \in {<<>>, <<1>>}, b3 \in {<<>>, <<1>>, <<1, 2>>, <<2, 1>>},
        b4 \in {<<2>>, <<3>>, <<2, 3>>, <<3, 1>>}}

\* Classes 2 and 3 share the virtual base 1, which class 4 joins.
DiamondPrograms ==
    {<<Class(<<>>, {}, {1}), Class(<<>>, {1}, {2}), Class(<<>>, {1}, d3), Class(<<2, 3>>, {}, d4)>> :
        d3 \in {{2}, {1, 3}}, d4 \in {{}, {1}}}

\* And classes that derive from the virtual base without sharing it, one or two.
Plain5 == Class(<<1>>, {}, {4})
MixedPrograms == {Append(d, Plain5) : d \in DiamondPrograms}
WidePrograms == {d \o <<Plain5, Plain5>> : d \in DiamondPrograms}

\* The classes at or above c.
Bases(d, c) ==
    LET up[n \in 0..Len(d)] ==
            IF n = 0 THEN {c}
            ELSE LET nearer == up[n - 1]
                 IN  nearer \cup UNION {ToSet(d[b].bases) \cup d[b].vbases : b \in nearer}
    IN  up[Len(d)]

\* The calls that may be made on every class: the method is that of the most
\* derived class that declares it, of which the object has one subobject.
CallSites(d, layout, children) ==
    LET declaring(s, m) == {c \in Bases(d, s) : m \in d[c].declares}
        final(s, m) == {t \in declaring(s, m) : declaring(s, m) \subseteq Bases(d, t)}
        once(s, t) == Cardinality({v \in Below(children, <<t, 0>>) : v[1] = s}) = 1
        slot(t, m) == (CHOOSE f \in layout[t][1].functions : f.name[2] = m).off
    IN  UNION {{[className |-> t, offset |-> slot(t, m), preciseClassName |-> s]
                  : t \in {u \in final(s, m) : once(s, u)}} : s \in DOMAIN d, m \in 1..4}

\* What is read of program d, given its layout and what SDBuildCHA says of it.
Read(d, layout, queries) ==
    [callSites |-> CallSites(d, layout, queries.children),
     cha |-> [roots       |-> queries.roots,
              children    |-> queries.children,
              ancestor    |-> queries.ancestor,
              layoutClass |-> queries.layoutClass,
              addrPt      |-> queries.addrPt,
              range       |-> queries.range,
              thunks      |-> [v \in DOMAIN queries.children |->
                                  VirtualThunks(layout, v[1])[v[2] + 1]]]]

InputOf(d) ==
    LET OfLayout(layout) ==
            Read(d, layout, LayoutQueries({ClassInfo(layout, c) : c \in DOMAIN d}))
    IN  OfLayout(SubVTables(d))

\* Of a program's vtables some are not emitted, and its names are in some order.
Variants(programs, undefineds, ranks, interleaves) ==
    [program : programs, undefined : undefineds, rank : ranks, interleave : interleaves]

InputsOf(variants) ==
    LET Varied(input, v) ==
            [interleave |-> v.interleave,
             callSites  |-> input.callSites,
             cha        |-> [undefined |-> v.undefined, rank |-> v.rank] @@ input.cha]
    IN  {Varied(InputOf(v.program), v) : v \in variants}

PlainVariants ==
    Variants(PlainPrograms, {{}, {1}, {2}, {1, 3}}, {<<1, 2, 3, 4>>, <<4, 3, 2, 1>>}, BOOLEAN)
DiamondVariants ==
    Variants(DiamondPrograms, {{}, {1}, {2}}, {<<1, 2, 3, 4>>, <<4, 3, 2, 1>>}, BOOLEAN)
\* The fifth class comes before or after the classes that share its base.
MixedVariants ==
    Variants(MixedPrograms, {{}}, {<<2, 3, 4, 5, 1>>, <<1, 2, 3, 4, 5>>}, BOOLEAN)
AllInputs == InputsOf(PlainVariants \cup DiamondVariants \cup MixedVariants)

\* It comes between them, and so does a sixth before them.
BetweenInputs == InputsOf(Variants(MixedPrograms, {{}}, {<<1, 2, 4, 5, 3>>}, {TRUE}))
GapInputs == InputsOf(Variants(WidePrograms, {{}}, {<<1, 3, 5, 6, 2, 4>>}, {FALSE}))
=============================================================================
