----------------------------- MODULE VptrChecks -----------------------------
(***************************************************************************)
(* SDUpdateIndices and SDSubstModule: once the vtables have their new      *)
(* layout (VTableLayout), every virtual call reads its function at the new *)
(* index, and checks the vptr before against the ranges of address points  *)
(* of the vtables it may see.                                              *)
(*                                                                         *)
(* A call site knows the class whose method it calls, the slot of the      *)
(* method from the address point of that class's primary vtable, and the   *)
(* static class of the object.                                             *)
(***************************************************************************)
EXTENDS VTableLayout

CONSTANT Words    \* how many words can be addressed, a power of two
ASSUME WordsAssumption == Words \in Nat \ {0}

\* A call site names a class that declares the method, in a slot of its vtable.
ASSUME CallSitesAssumption ==
    \A input \in Inputs : \A s \in input.callSites :
        LET v == <<s.className, 0>>
        IN  /\ v \in DOMAIN input.cha.children /\ s.offset \in Int
            /\ input.cha.addrPt[v] + s.offset \in input.cha.range[v][1]..input.cha.range[v][2]

VARIABLES
    callSites,  \* the virtual calls of the module
    vtblIndex,  \* call site -> new index (sd_subst_vtbl_index)
    checks,     \* call site -> the range checks before it (sd_subst_check_range)
    loadedAt    \* root -> where the linker has put its new array

checkVars == <<callSites, vtblIndex, checks, loadedAt>>

ChecksInit ==
    /\ \E input \in Inputs : InitFrom(input) /\ callSites = input.callSites
    /\ vtblIndex = <<>> /\ checks = <<>> /\ loadedAt = <<>>

-----------------------------------------------------------------------------
(* SDUpdateIndices, while the layout builder still has its results.        *)

knowsAbout(v) == v \in vtables

\* parentMap, read off the children.
isAncestor(v, w) == w \in Range(preorder(v))

\* The only sub-vtable of derived at or below base's primary one, or -1.
getSubVTableIndex(derived, b) ==
    LET inds == {v[2] : v \in {w \in vtables : w[1] = derived /\ isAncestor(<<b, 0>>, w)}}
    IN  IF Cardinality(inds) = 1 THEN Min(inds) ELSE -1

\* handleSDGetVtblIndex
handleSDGetVtblIndex ==
    /\ verified # "pending" /\ vtblIndex = <<>>
    /\ vtblIndex' = [s \in callSites |-> translateVtblInd(<<s.className, 0>>, s.offset)]
    /\ UNCHANGED <<vars, callSites, checks, loadedAt>>

\* Mutant: the static class of the object is not looked at.
CheckedByMethod(s) == <<s.className, 0>>

\* Mutant: the sub-vtable that was found is forgotten.
CheckedPrimary(s) ==
    IF knowsAbout(<<s.className, 0>>) /\ getSubVTableIndex(s.preciseClassName, s.className) # -1
    THEN <<s.preciseClassName, 0>> ELSE <<s.className, 0>>

\* The vtable a call site may see at most: the sub-vtable of the static class
\* for the class of the method, or the other way round.
CheckedVtable(s) ==
    LET down == getSubVTableIndex(s.preciseClassName, s.className)
        up == getSubVTableIndex(s.className, s.preciseClassName)
    IN  IF ~ knowsAbout(<<s.className, 0>>) \/ s.preciseClassName = s.className
        THEN <<s.className, 0>>
        ELSE IF down # -1 THEN <<s.preciseClassName, down>>
        ELSE IF up # -1 THEN <<s.className, up>>
        ELSE <<s.className, 0>>

\* The checks of a site, widest range first; a site that has none always traps.
RangeChecks(s) ==
    LET v == CheckedVtable(s)
        ranges == memRangeMap[v]
        Before(i, j) == \/ ranges[i][2] > ranges[j][2]
                        \/ ranges[i][2] = ranges[j][2] /\ i < j
        order == Sorted(DOMAIN ranges,
                        {p \in (DOMAIN ranges) \X (DOMAIN ranges) : Before(p[1], p[2])})
    IN  IF v \notin DOMAIN memRangeMap THEN <<>>
        ELSE [i \in DOMAIN order |-> [start     |-> ranges[order[i]][1],
                                      width     |-> ranges[order[i]][2],
                                      alignment |-> alignmentMap[cha.ancestor[v]]]]

handleSDGetCheckedVtbl ==
    /\ vtblIndex # <<>> /\ checks = <<>>
    /\ checks' = [s \in callSites |-> RangeChecks(s)]
    /\ UNCHANGED <<vars, callSites, vtblIndex, loadedAt>>

-----------------------------------------------------------------------------
(* The program that is linked.                                             *)

\* The arrays lie one after the other in any order, each aligned.
Link ==
    /\ checks # <<>> /\ loadedAt = <<>>
    /\ \E order \in Bijection(1..Cardinality(cha.roots), cha.roots) :
        LET Up(a, n) == n * ((a + n - 1) \div n)
            at[i \in DOMAIN order] ==
                Up(IF i = 1 THEN 1 ELSE at[i - 1] + Len(newVTables[order[i - 1]]),
                   alignmentMap[order[i]])
        IN  loadedAt' = [r \in cha.roots |-> at[CHOOSE i \in DOMAIN order : order[i] = r]]
    /\ UNCHANGED <<vars, callSites, vtblIndex, checks>>

Linked == loadedAt # <<>>
AddressOf(a) == (loadedAt[a[1]] + a[2]) % Words

\* d rotated right by the bits of the alignment.
Ror(d, alignment) == (d \div alignment) + (d % alignment) * (Words \div alignment)

\* The comparison SDSubstModule puts in place of sd_subst_check_range.
InRange(check, vptr) ==
    LET diff == (vptr - AddressOf(check.start) + Words) % Words
    IN  IF check.width > 1 THEN Ror(diff, check.alignment) <= check.width ELSE diff = 0

\* validConstVptr: a pointer known to be an address in the array of the range.
validConstVptr(check, a) ==
    a[1] = check.start[1] /\ check.start[2] <= a[2] /\ a[2] < check.start[2] + check.width

\* What the fast checks of a call site let through; the rest is trapped.
Passes(s, a) == \E i \in DOMAIN checks[s] : InRange(checks[s][i], AddressOf(a))

ChecksDone == Linked /\ UNCHANGED <<vars, checkVars>>

ChecksNext ==
    \/ LayoutNext /\ UNCHANGED checkVars
    \/ handleSDGetVtblIndex \/ handleSDGetCheckedVtbl \/ Link
    \/ ChecksDone

ChecksSpec == ChecksInit /\ [][ChecksNext]_<<vars, checkVars>>

-----------------------------------------------------------------------------
(* What the calls may rely on.                                             *)

\* The vtables that objects of the static class, or of one derived from it,
\* have for the class of the method.
Targets(s) ==
    {v \in DOMAIN vptrs : \E w \in vtables :
        /\ w[1] = s.preciseClassName /\ isAncestor(<<s.className, 0>>, w)
        /\ isAncestor(w, v)}

\* No call of the program is trapped: the vptr of every object it may be made on
\* is in one of the ranges.
LegalCallsPass ==
    Linked => \A s \in callSites : \A v \in Targets(s) : Passes(s, vptrs[v])

\* And it reads the function that it read in the old vtable, although the index
\* is that of another class, or, if that class has no vtable, of another one.
CallsKeepTheirSlots ==
    Linked => \A s \in callSites : \A v \in Targets(s) :
        LET at == vptrs[v][2] + vtblIndex[s]
            array == newVTables[vptrs[v][1]]
        IN  /\ at + 1 \in DOMAIN array
            /\ array[at + 1].of = <<v, cha.addrPt[v] + s.offset>>

\* "Note: the added range checks reflect the contents of this global variable":
\* the vptr of any other class is trapped, unless it is the address right behind
\* a range of more than one vtable, which the comparison with the width admits.
\* A vptr that is known when compiling passes only if it would when running.
OthersAreTrapped ==
    Linked => \A s \in callSites : \A v \in DOMAIN vptrs \ Targets(s) : \A i \in DOMAIN checks[s] :
        LET check == checks[s][i]
        IN  /\ InRange(check, AddressOf(vptrs[v])) =>
                  /\ check.width > 1
                  /\ AddressOf(vptrs[v]) = AddressOf(check.start) + check.width * check.alignment
            /\ validConstVptr(check, vptrs[v]) => InRange(check, AddressOf(vptrs[v]))
=============================================================================
