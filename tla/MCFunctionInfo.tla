--------------------------- MODULE MCFunctionInfo ---------------------------
(***************************************************************************)
(* FunctionInfo over class hierarchies laid out by CxxHierarchy.           *)
(***************************************************************************)
EXTENDS FunctionTrees, CxxHierarchy
LOCAL INSTANCE SequencesExt

Class(bases, vbases, declares) ==
    [bases |-> bases, vbases |-> vbases, declares |-> declares]

(***************************************************************************)
(* Programs of four classes without virtual inheritance.  Class 1 declares *)
(* method 1, class 2 declares method 2 and may override 1; the other two   *)
(* inherit, override or add, and class 4 may be a secondary base's heir.   *)
(***************************************************************************)
OverridePatterns == SUBSET {1, 2}
PlainPrograms ==
    {<<Class(<<>>, {}, {1}), Class(b2, {}, d2), Class(b3, {}, d3), Class(b4, {}, d4)>> :
        b2 \in {<<>>, <<1>>}, b3 \in {<<1>>, <<2>>, <<1, 2>>, <<2, 1>>},
        b4 \in {<<2>>, <<3>>, <<2, 3>>, <<3, 1>>},
        d2 \in {{2}, {1, 2}}, d3 \in OverridePatterns, d4 \in {{}, {1, 2}}}

\* The class orders topoSort may return: every class before those derived from it.
TopologicalOrders(h) ==
    {s \in SetToSeqs(h.classes) :
        \A i, j \in DOMAIN s : (\E v \in h.children[<<s[i], 0>>] : v[1] = s[j]) => i < j}

ProgramsOf(hierarchies) ==
    UNION {{[cha |-> h, order |-> o] : o \in TopologicalOrders(h)} : h \in hierarchies}

\* Programs whose only methods are virtual destructors, which have two slots
\* (the complete and the deleting one) and in the metadata one name.
DestructorPrograms ==
    {<<Class(<<>>, {}, {1, 2}), Class(b2, {}, {1, 2}), Class(b3, {}, d3), Class(b4, {}, d4)>> :
        b2 \in {<<>>, <<1>>}, b3 \in {<<1>>, <<1, 2>>, <<2, 1>>}, b4 \in {<<3>>, <<2, 3>>},
        d3 \in {{}, {1, 2}}, d4 \in {{}, {1, 2}}}

OneName(h) ==
    [h EXCEPT !.functions = [v \in h.vtables |->
        {[f EXCEPT !.functionName = <<f.functionName[1], 1>>] : f \in h.functions[v]}]]

PlainInputs ==
    ProgramsOf({Hierarchy(ClassInfos(d)) : d \in PlainPrograms}
               \cup {OneName(Hierarchy(ClassInfos(d))) : d \in DestructorPrograms})
=============================================================================
