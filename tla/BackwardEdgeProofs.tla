------------------------- MODULE BackwardEdgeProofs -------------------------
(***************************************************************************)
(* The protection of returns from end to end, for every program.  What is  *)
(* proved of the parts is used as it stands, by an instance of each part's *)
(* module of proofs.                                                       *)
(***************************************************************************)
EXTENDS FiniteSetTheorems, BackwardEdge, SequenceLemmas, TLAPS

\* The hierarchies that SDBuildCHA numbers.
InfoPrograms == {[cha |-> p.cha, order |-> p.order] : p \in Systems}

InfoP == INSTANCE FunctionTreesProofs WITH Programs <- InfoPrograms
AddressP == INSTANCE ReturnIdsProofs WITH Modules <- {NoModule}
LabelsP == INSTANCE CallLabelsProofs WITH Programs <- {<<>>}

-----------------------------------------------------------------------------
(* The parts, as their proofs see them.                                    *)

LEMMA SameLaid ==
    ASSUME NEW p, NEW q, p.cha = q.cha, p.order = q.order, Info!Laid(p)
    PROVE  InfoP!Laid(q)
BY DEF Info!Laid, InfoP!Laid, Info!BasesFirst, InfoP!BasesFirst, Info!Position, InfoP!Position,
       Info!SlotsInherited, InfoP!SlotsInherited, Info!SlotsOverridden, InfoP!SlotsOverridden,
       Info!FirstSlot, InfoP!FirstSlot, Info!SlotsParallel, InfoP!SlotsParallel,
       Info!Declared, InfoP!Declared

LEMMA InfoAssumed ==
    /\ \A p \in InfoPrograms : InfoP!WellFormed(p.cha) /\ p.order \in Seq(p.cha.classes)
    /\ \A p \in InfoPrograms : InfoP!Laid(p)
<1> SUFFICES ASSUME NEW p \in InfoPrograms
             PROVE  /\ InfoP!WellFormed(p.cha) /\ p.order \in Seq(p.cha.classes)
                    /\ InfoP!Laid(p)
    OBVIOUS
<1>1. PICK s \in Systems : p = [cha |-> s.cha, order |-> s.order]
    BY DEF InfoPrograms
<1>2. Info!WellFormed(s.cha) /\ s.order \in Seq(s.cha.classes) /\ Info!Laid(s)
    BY SystemsAssumption DEF Classes
<1>3. InfoP!WellFormed(p.cha) /\ p.order \in Seq(p.cha.classes)
    BY <1>1, <1>2 DEF Info!WellFormed, InfoP!WellFormed
<1>4. InfoP!Laid(p)
    BY <1>1, <1>2, SameLaid
<1>5. QED
    BY <1>3, <1>4

LEMMA InfoStarts ==
    ASSUME Init
    PROVE  /\ InfoP!TypeOK /\ InfoP!UniqueIDs /\ InfoP!RangeConsistent /\ InfoP!RangesOrdered
           /\ InfoP!IInv
<1>1. Info!NumberingInit /\ program \in Systems /\ cha = program.cha /\ order = program.order
    BY DEF Init
<1>2. InfoP!NumberingInit
    BY <1>1 DEF Info!NumberingInit, InfoP!NumberingInit, Info!NoMap, InfoP!NoMap
<1>3. InfoP!Init
    <2>1. [cha |-> program.cha, order |-> program.order] \in InfoPrograms
        BY <1>1 DEF InfoPrograms
    <2>2. \E p \in InfoPrograms : cha = p.cha /\ order = p.order
        BY <1>1, <2>1
    <2>3. QED
        BY <1>2, <2>2 DEF InfoP!Init
<1>4. InfoP!TypeOK /\ InfoP!IInv /\ InfoP!RangesOrdered
    BY <1>2, <1>3, InfoAssumed, InfoP!InitType, InfoP!InitTree, InfoP!InitOrdered
<1>5. InfoP!UniqueIDs /\ InfoP!RangeConsistent
    BY <1>2 DEF InfoP!NumberingInit, InfoP!NoMap, InfoP!UniqueIDs, InfoP!RangeConsistent
<1>6. QED
    BY <1>4, <1>5

LEMMA InfoSteps ==
    ASSUME InfoP!TypeOK, InfoP!UniqueIDs, InfoP!RangeConsistent, InfoP!RangesOrdered, InfoP!IInv,
           Info!Next \/ UNCHANGED infoVars
    PROVE  /\ InfoP!TypeOK' /\ InfoP!UniqueIDs' /\ InfoP!RangeConsistent' /\ InfoP!RangesOrdered'
           /\ InfoP!IInv'
<1>1. [InfoP!Next]_(InfoP!vars)
    <2>1. Info!Next => InfoP!Next
        BY DEF Info!Next, InfoP!Next, Info!NextClass, InfoP!NextClass, Info!NewImpl, InfoP!NewImpl,
               Info!KnownImpl, InfoP!KnownImpl, Info!NumberBase, InfoP!NumberBase,
               Info!SkipNumbered, InfoP!SkipNumbered, Info!NumberChild, InfoP!NumberChild,
               Info!FinishFunction, InfoP!FinishFunction, Info!Done, InfoP!Done, Info!vars, InfoP!vars,
               Info!numberVars, InfoP!numberVars, Info!collectVars, InfoP!collectVars,
               Info!Enter, InfoP!Enter, Info!Call, InfoP!Call, Info!Top, InfoP!Top,
               Info!Caller, InfoP!Caller, Info!Put, InfoP!Put, Info!FuncAndClass, InfoP!FuncAndClass,
               Info!ImplEntries, InfoP!ImplEntries, Info!Entries, InfoP!Entries,
               Info!IsNextSlot, InfoP!IsNextSlot, Info!Collected, InfoP!Collected,
               Info!Finished, InfoP!Finished
    <2>2. UNCHANGED infoVars => UNCHANGED InfoP!vars
        BY DEF infoVars, InfoP!vars
    <2>3. QED
        BY <2>1, <2>2
<1>2. QED
    BY <1>1, InfoAssumed, InfoP!NextType, InfoP!NextUnique, InfoP!NextConsistent, InfoP!NextOrdered,
       InfoP!NextTree

-----------------------------------------------------------------------------
(* What SDBuildCHA knows.                                                  *)

ChaInv ==
    /\ program \in Systems /\ phase \in {"cha", "address", "range", "return"}
    /\ cha = program.cha
    /\ InfoP!TypeOK /\ InfoP!UniqueIDs /\ InfoP!RangeConsistent /\ InfoP!RangesOrdered
    /\ InfoP!IInv
    /\ phase # "cha" => Info!Finished

LEMMA InitCha == Init => ChaInv
<1> SUFFICES ASSUME Init PROVE ChaInv
    OBVIOUS
<1>1. program \in Systems /\ phase = "cha" /\ cha = program.cha
    BY DEF Init
<1>2. QED
    BY <1>1, InfoStarts DEF ChaInv

LEMMA NextCha == ChaInv /\ [Next]_vars => ChaInv'
<1> SUFFICES ASSUME ChaInv, [Next]_vars PROVE ChaInv'
    OBVIOUS
<1>1. UNCHANGED infoVars \/ buildFunctionInfo
    BY DEF Next, runReturnAddress, assignIDs, runReturnRange, describeCalls, emitNops,
           runReturnChecks, generateChecks, returnToCall, runChecks, Done, vars
<1>2. CASE buildFunctionInfo
    <2>1. Info!Next /\ phase = "cha" /\ UNCHANGED <<program, phase>>
        BY <1>2 DEF buildFunctionInfo
    <2>2. UNCHANGED cha
        BY <2>1 DEF Info!Next, Info!NextClass, Info!NewImpl, Info!KnownImpl, Info!NumberBase,
                    Info!SkipNumbered, Info!NumberChild, Info!FinishFunction, Info!Done, Info!vars
    <2>3. QED
        BY <2>1, <2>2, InfoSteps DEF ChaInv
<1>3. CASE UNCHANGED infoVars
    <2>1. UNCHANGED program
        BY DEF Next, buildFunctionInfo, runReturnAddress, assignIDs, runReturnRange, describeCalls,
               emitNops, runReturnChecks, generateChecks, returnToCall, runChecks, Done, vars
    <2>2. /\ phase' \in {"cha", "address", "range", "return"}
          /\ phase' # "cha" => phase # "cha" \/ Info!Finished
        BY DEF Next, buildFunctionInfo, runReturnAddress, assignIDs, runReturnRange, describeCalls,
               emitNops, runReturnChecks, generateChecks, returnToCall, runChecks, Done, vars, ChaInv
    <2>3. Info!Finished' = Info!Finished /\ cha' = cha
        BY <1>3 DEF infoVars, Info!Finished, Info!Collected
    <2>4. QED
        BY <1>3, <2>1, <2>2, <2>3, InfoSteps DEF ChaInv
<1>4. QED
    BY <1>1, <1>2, <1>3

-----------------------------------------------------------------------------
(* The IDs that SDBuildCHA answers for a name.                             *)

\* Entries that their slots tell apart can be listed in the order of the slots.
LEMMA Slots ==
    ASSUME NEW S, IsFiniteSet(S),
           \A x \in S : x.vTable[2] \in Nat /\ x.offsetInVTable \in Nat,
           \A x, y \in S : /\ x.vTable[2] = y.vTable[2] /\ x.offsetInVTable = y.offsetInVTable
                           => x = y
    PROVE  /\ Cardinality(S) \in Nat /\ DOMAIN InOrder(S) = 1..Cardinality(S)
           /\ \A i \in DOMAIN InOrder(S) : InOrder(S)[i] \in S
           /\ \A x \in S : \E i \in DOMAIN InOrder(S) : InOrder(S)[i] = x
<1> DEFINE n == Cardinality(S)
           Lower(x) == {y \in S : Before(y, x)}
           r == [x \in S |-> Cardinality(Lower(x)) + 1]
           Sorted(s) == \A i, j \in DOMAIN s : i < j => Before(s[i], s[j])
<1>1. n \in Nat /\ IsFiniteSet(1..n) /\ Cardinality(1..n) = n
    BY FS_CardinalityType, FS_Interval
<1>2. /\ \A x \in S : ~Before(x, x)
      /\ \A x, y \in S : x = y \/ Before(x, y) \/ Before(y, x)
      /\ \A x, y \in S : ~(Before(x, y) /\ Before(y, x))
      /\ \A x, y, z \in S : Before(x, y) /\ Before(y, z) => Before(x, z)
    BY DEF Before
<1>3. ASSUME NEW x \in S PROVE IsFiniteSet(Lower(x)) /\ Cardinality(Lower(x)) \in 0..(n - 1)
    <2>1. Lower(x) \in SUBSET (S \ {x})
        BY <1>2
    <2>2. IsFiniteSet(S \ {x}) /\ Cardinality(S \ {x}) = n - 1
        BY FS_RemoveElement
    <2> HIDE DEF Lower
    <2>3. IsFiniteSet(Lower(x)) /\ Cardinality(Lower(x)) <= n - 1
        BY <2>1, <2>2, FS_Subset
    <2>4. Cardinality(Lower(x)) \in Nat
        BY <2>3, FS_CardinalityType
    <2>5. QED
        BY <1>1, <2>3, <2>4
<1>4. ASSUME NEW x \in S, NEW y \in S, Before(x, y) PROVE r[x] < r[y]
    <2>1. Lower(x) \cup {x} \in SUBSET Lower(y) /\ x \notin Lower(x)
        BY <1>2, <1>4
    <2> HIDE DEF Lower
    <2>2. Cardinality(Lower(x) \cup {x}) = Cardinality(Lower(x)) + 1
        BY <1>3, <2>1, FS_AddElement
    <2>3. Cardinality(Lower(x) \cup {x}) <= Cardinality(Lower(y))
        BY <1>3, <2>1, FS_Subset
    <2>4. Cardinality(Lower(x)) \in Nat /\ Cardinality(Lower(y)) \in Nat
        BY <1>3
    <2>5. QED
        BY <2>2, <2>3, <2>4
<1>5. r \in [S -> 1..n]
    <2> HIDE DEF Lower
    <2>1. \A x \in S : Cardinality(Lower(x)) + 1 \in 1..n
        BY <1>1, <1>3
    <2>2. QED
        BY <2>1
<1> HIDE DEF r
<1>6. r \in Surjection(S, 1..n)
    <2>1. \A x, y \in S : r[x] = r[y] => x = y
        <3> TAKE x \in S, y \in S
        <3>1. r[x] \in Nat /\ r[y] \in Nat
            BY <1>1, <1>5
        <3>2. QED
            BY <1>2, <1>4, <3>1
    <2>2. r \in Injection(S, 1..n)
        BY <1>5, <2>1 DEF Injection, IsInjective
    <2>3. QED
        BY <1>1, <2>2, FS_Injection
<1>7. \E s \in [1..n -> S] : Sorted(s)
    <2> DEFINE t == [i \in 1..n |-> CHOOSE x \in S : r[x] = i]
    <2>1. \A i \in 1..n : t[i] \in S /\ r[t[i]] = i
        BY <1>6 DEF Surjection
    <2>2. t \in [1..n -> S] /\ DOMAIN t = 1..n
        BY <2>1
    <2> HIDE DEF t
    <2>3. ASSUME NEW i \in 1..n, NEW j \in 1..n, i < j PROVE Before(t[i], t[j])
        <3>1. t[i] # t[j] /\ ~(r[t[j]] < r[t[i]])
            BY <1>1, <2>1, <2>3
        <3>2. QED
            BY <1>2, <1>4, <2>1, <3>1
    <2>4. QED
        BY <2>2, <2>3
<1>8. PICK s : s = InOrder(S)
    OBVIOUS
<1>9. s \in [1..n -> S] /\ Sorted(s)
    BY <1>7, <1>8 DEF InOrder
<1>10. s \in Surjection(1..n, S)
    <2>1. \A i, j \in 1..n : s[i] = s[j] => i = j
        <3> SUFFICES ASSUME NEW i \in 1..n, NEW j \in 1..n, s[i] = s[j], i # j PROVE FALSE
            OBVIOUS
        <3>1. i < j \/ j < i
            BY <1>1
        <3>2. Before(s[i], s[j]) \/ Before(s[j], s[i])
            BY <1>9, <3>1
        <3>3. QED
            BY <1>2, <1>9, <3>2
    <2>2. s \in Injection(1..n, S)
        BY <1>9, <2>1 DEF Injection, IsInjective
    <2>3. QED
        BY <1>1, <2>2, FS_Injection
<1>11. QED
    BY <1>1, <1>8, <1>9, <1>10 DEF Surjection

\* The entries of the program and the names that have been implemented.
LEMMA EntriesKnown ==
    ASSUME ChaInv
    PROVE  /\ \A e \in DOMAIN functionIDMap :
                 /\ e.vTable \in cha.vtables /\ e \in cha.functions[e.vTable]
                 /\ e.vTable[2] \in Nat /\ e.offsetInVTable \in Nat
                 /\ functionIDMap[e] \in 1..(currentID - 1)
           /\ \A e, g \in DOMAIN functionIDMap :
                 e.vTable = g.vTable /\ e.offsetInVTable = g.offsetInVTable => e = g
           /\ IsFiniteSet(DOMAIN functionIDMap)
           /\ currentID \in Nat \ {0}
           /\ \A n \in DOMAIN functionImplMap :
                 /\ n \in MethodNames(cha)
                 /\ \A e, g \in functionImplMap[n] : e.vTable[1] = g.vTable[1]
<1>1. PICK p \in InfoPrograms : InfoP!PInv(p)
    BY DEF ChaInv, InfoP!IInv
<1>2. cha = p.cha /\ InfoP!Laid(p) /\ InfoP!WellFormed(cha)
    BY <1>1, InfoAssumed DEF InfoP!PInv, InfoP!LaidInv, InfoP!Reading
<1>3. currentID \in Nat \ {0} /\ functionIDMap \in [DOMAIN functionIDMap -> 1..(currentID - 1)]
    BY DEF ChaInv, InfoP!TypeOK, InfoP!Ids
<1>4. ASSUME NEW e \in DOMAIN functionIDMap
      PROVE  /\ e.vTable \in cha.vtables /\ e \in cha.functions[e.vTable]
             /\ e.vTable[2] \in Nat /\ e.offsetInVTable \in Nat
    <2>1. PICK v \in cha.vtables : e \in cha.functions[v]
        BY DEF ChaInv, InfoP!TypeOK, InfoP!Entries
    <2>2. e.vTable = v
        BY <1>2, <2>1 DEF InfoP!WellFormed
    <2>3. v \in cha.classes \X Nat /\ e.offsetInVTable \in Nat
        BY <1>2, <2>1 DEF InfoP!Laid, InfoP!BasesFirst, InfoP!SlotsInherited
    <2>4. QED
        BY <2>1, <2>2, <2>3
<1>5. \A e, g \in DOMAIN functionIDMap :
          e.vTable = g.vTable /\ e.offsetInVTable = g.offsetInVTable => e = g
    BY <1>2, <1>4 DEF InfoP!Laid, InfoP!SlotsInherited
<1>6. IsFiniteSet(DOMAIN functionIDMap)
    <2>1. functionIDMap \in Injection(DOMAIN functionIDMap, 1..(currentID - 1))
        BY <1>3 DEF ChaInv, InfoP!UniqueIDs, Injection, IsInjective
    <2>2. IsFiniteSet(1..(currentID - 1))
        BY <1>3, FS_Interval
    <2>3. QED
        BY <2>1, <2>2, FS_Injection
<1>7. ASSUME NEW n \in DOMAIN functionImplMap
      PROVE  /\ n \in MethodNames(cha)
             /\ \A e, g \in functionImplMap[n] : e.vTable[1] = g.vTable[1]
    <2>1. PICK h \in cha.functions[<<n[1], 0>>] :
              /\ n[1] \in cha.classes /\ h.functionName = n
              /\ functionImplMap[n] = InfoP!ImplEntries(h)
        BY <1>1 DEF InfoP!PInv, InfoP!LaidInv, InfoP!Implemented
    <2>2. <<n[1], 0>> \in cha.vtables
        BY <1>2, <2>1 DEF InfoP!WellFormed
    <2>3. n \in MethodNames(cha)
        BY <2>1, <2>2 DEF MethodNames
    <2>4. \A e \in functionImplMap[n] : e.vTable[1] = h.vTable[1]
        BY <2>1 DEF InfoP!ImplEntries
    <2>5. QED
        BY <2>3, <2>4
<1>8. QED
    BY <1>3, <1>4, <1>5, <1>6, <1>7

\* A name's IDs are listed, each once, and are IDs of virtual functions.
LEMMA IDsListed ==
    ASSUME ChaInv, NEW n \in DOMAIN functionImplMap
    PROVE  /\ FunctionIDs(n) \in Seq(1..(currentID - 1))
           /\ \A id \in Info!getFunctionID(n) :
                 \E i \in DOMAIN FunctionIDs(n) : FunctionIDs(n)[i] = id
<1> DEFINE S == functionImplMap[n] \cap DOMAIN functionIDMap
           ids == FunctionIDs(n)
<1>1. IsFiniteSet(S)
    BY EntriesKnown, FS_Intersection
<1>2. /\ \A x \in S : x.vTable[2] \in Nat /\ x.offsetInVTable \in Nat
      /\ \A x, y \in S : /\ x.vTable[2] = y.vTable[2] /\ x.offsetInVTable = y.offsetInVTable
                         => x = y
    <2>1. \A x \in S : x.vTable[2] \in Nat /\ x.offsetInVTable \in Nat
        BY EntriesKnown
    <2>2. ASSUME NEW x \in S, NEW y \in S,
                 x.vTable[2] = y.vTable[2], x.offsetInVTable = y.offsetInVTable
          PROVE  x = y
        <3>1. x.vTable[1] = y.vTable[1]
            BY EntriesKnown
        <3>2. PICK C : cha.vtables \subseteq C \X Nat
            <4>1. PICK p \in InfoPrograms : InfoP!PInv(p)
                BY DEF ChaInv, InfoP!IInv
            <4>2. cha = p.cha /\ InfoP!Laid(p)
                BY <4>1, InfoAssumed DEF InfoP!PInv, InfoP!LaidInv, InfoP!Reading
            <4>3. QED
                BY <4>2 DEF InfoP!Laid, InfoP!BasesFirst
        <3>3. x.vTable \in C \X Nat /\ y.vTable \in C \X Nat
            BY <3>2, EntriesKnown
        <3>4. x.vTable = y.vTable
            BY <2>2, <3>1, <3>3
        <3>5. QED
            BY <2>2, <3>4, EntriesKnown
    <2>3. QED
        BY <2>1, <2>2
<1>3. PICK s : s = InOrder(S)
    OBVIOUS
<1> HIDE DEF S
<1>4. /\ Cardinality(S) \in Nat /\ DOMAIN s = 1..Cardinality(S)
      /\ \A i \in DOMAIN s : s[i] \in S
      /\ \A x \in S : \E i \in DOMAIN s : s[i] = x
    BY <1>1, <1>2, <1>3, Slots
<1>5. ids = [i \in DOMAIN s |-> functionIDMap[s[i]]]
    BY <1>3 DEF FunctionIDs, S
<1> HIDE DEF ids
<1>6. ids \in Seq(1..(currentID - 1))
    <2> DEFINE I == 1..(currentID - 1)
    <2>1. \A i \in DOMAIN s : functionIDMap[s[i]] \in I
        BY <1>4, EntriesKnown DEF S
    <2> HIDE DEF I
    <2>2. ids \in [1..Cardinality(S) -> I]
        BY <1>4, <1>5, <2>1
    <2>3. ids \in Seq(I)
        BY <1>4, <2>2
    <2>4. QED
        BY <2>3 DEF I
<1>7. \A id \in Info!getFunctionID(n) : \E i \in DOMAIN ids : ids[i] = id
    <2> TAKE id \in Info!getFunctionID(n)
    <2>1. PICK e \in S : id = functionIDMap[e]
        BY DEF Info!getFunctionID, S
    <2>2. QED
        BY <1>4, <1>5, <2>1
<1>8. QED
    BY <1>6, <1>7 DEF ids

\* The range of a virtual call, and an ID of every function that it may reach.
LEMMA CallReaches ==
    ASSUME ChaInv, Info!Finished, NEW c \in cha.classes, NEW e \in cha.functions[<<c, 0>>],
           e.functionName[1] = c, NEW ranges, ranges = Info!getFunctionRange(e.functionName, c)
    PROVE  /\ ranges # <<>>
           /\ ranges[1][1] \in 1..(currentID - 1) /\ ranges[1][2] \in 1..(currentID - 1)
           /\ ranges[1][1] <= ranges[1][2]
           /\ \A n \in DOMAIN functionImplMap : InSlot(cha, c, e.offsetInVTable, n) =>
                 \E i \in DOMAIN FunctionIDs(n) : ranges[1][1] <= FunctionIDs(n)[i]
<1>1. InfoP!Finished
    BY DEF Info!Finished, InfoP!Finished, Info!Collected, InfoP!Collected
<1>2. PICK p \in InfoPrograms : InfoP!PInv(p)
    BY DEF ChaInv, InfoP!IInv
<1>3. InfoP!TypeOK /\ InfoP!LaidInv(p) /\ InfoP!HeapInv(p) /\ cha = p.cha
    BY <1>2 DEF ChaInv, InfoP!PInv, InfoP!LaidInv, InfoP!Reading
<1>4. ranges = InfoP!getFunctionRange(e.functionName, c)
    BY DEF Info!getFunctionRange, InfoP!getFunctionRange
<1>5. PICK h \in InfoP!ProgramEntries(p) :
          /\ h \in DOMAIN functionRangeMap /\ ranges # <<>> /\ ranges[1] = functionRangeMap[h]
    BY <1>1, <1>3, <1>4, InfoAssumed, InfoP!CalledRange
<1>6. /\ functionRangeMap[h] \in (1..(currentID - 1)) \X (1..(currentID - 1))
      /\ functionRangeMap[h][1] <= functionRangeMap[h][2]
    BY <1>5 DEF ChaInv, InfoP!TypeOK, InfoP!Ids, InfoP!RangesOrdered
<1>7. ASSUME NEW n \in DOMAIN functionImplMap, InSlot(cha, c, e.offsetInVTable, n)
      PROVE  \E i \in DOMAIN FunctionIDs(n) : ranges[1][1] <= FunctionIDs(n)[i]
    <2>1. InfoP!CallsCovered
        BY InfoAssumed, InfoP!CoversCalls DEF ChaInv
    <2>2. PICK v \in Info!Below(cha.children, <<c, 0>>) : \E g \in cha.functions[v] :
              g.offsetInVTable = e.offsetInVTable /\ g.functionName = n
        BY <1>7, EntriesKnown DEF InSlot
    <2>3. Info!Below(cha.children, <<c, 0>>) = InfoP!Below(cha.children, <<c, 0>>)
        BY DEF Info!Below, InfoP!Below
    <2>4. \E id \in InfoP!getFunctionID(n) : ranges[1][1] <= id
        BY <1>1, <1>4, <2>1, <2>2, <2>3 DEF InfoP!CallsCovered
    <2>5. InfoP!getFunctionID(n) = Info!getFunctionID(n)
        BY DEF Info!getFunctionID, InfoP!getFunctionID
    <2>6. QED
        BY <2>4, <2>5, IDsListed
<1>8. QED
    BY <1>5, <1>6, <1>7

-----------------------------------------------------------------------------
(* What SDReturnAddress stores, and the encoder.                           *)

Asked ==
    [functions |-> program.functions, maxID |-> currentID,
     virtualIDs |-> [n \in DOMAIN functionImplMap |-> FunctionIDs(n)]]

AddressInv ==
    /\ phase = "cha" =>
          /\ module = NoModule /\ DOMAIN FunctionIDMap = {} /\ DOMAIN funcInfo = {}
          /\ DOMAIN EncodingToTypeID = {} /\ NextTypeID = StartTypeID
    /\ phase # "cha" =>
          module = Asked /\ AddressP!TInv /\ AddressP!IInv /\ AddressP!Outcomes
    /\ phase \in {"range", "return"} => todo = <<>>

LEMMA AddressAssumed ==
    /\ \A m \in {NoModule} : AddressP!WellFormed(m)
    /\ StartTypeID \in Nat \ {0} /\ MaxParams \in Nat \ {0}
<1>1. AddressP!WellFormed(NoModule)
    <2>1. <<>> \in Seq({<<>>[i] : i \in DOMAIN <<>>}) /\ DOMAIN <<>> = {}
        OBVIOUS
    <2>2. QED
        BY <2>1 DEF AddressP!WellFormed, NoModule, NoMap
<1>2. QED
    BY <1>1, ConstantsAssumption

LEMMA AddressStarts ==
    AddressP!Started => AddressP!IInv /\ AddressP!TInv /\ AddressP!Outcomes
BY AddressAssumed, AddressP!InitInv, AddressP!InitTypes, AddressP!InitOutcomes

LEMMA AddressStartsNext ==
    AddressP!Started' => AddressP!IInv' /\ AddressP!TInv' /\ AddressP!Outcomes'
BY AddressStarts, PTL

LEMMA AddressSteps ==
    ASSUME AddressP!TInv, AddressP!IInv, AddressP!Outcomes, Address!Next
    PROVE  AddressP!TInv' /\ AddressP!IInv' /\ AddressP!Outcomes' /\ module' = module
<1>1. AddressP!Next
    BY DEF Address!Next, AddressP!Next, Address!BlackListFunction, AddressP!BlackListFunction,
           Address!processVirtualFunction, AddressP!processVirtualFunction,
           Address!FailedThunk, AddressP!FailedThunk,
           Address!processStaticFunction, AddressP!processStaticFunction,
           Address!Done, AddressP!Done, Address!Finished, AddressP!Finished,
           Address!vars, AddressP!vars, Address!encoderVars, AddressP!encoderVars,
           Address!Process, AddressP!Process, Address!Store, AddressP!Store,
           Address!CallableIDs, AddressP!CallableIDs, Address!VirtualIDs, AddressP!VirtualIDs,
           Address!isVirtualFunction, AddressP!isVirtualFunction, Address!F, AddressP!F,
           Address!Put, AddressP!Put, Address!NoType, AddressP!NoType,
           Address!getTypeID, AddressP!getTypeID, Address!Precise, AddressP!Precise,
           Address!encodeFunction, AddressP!encodeFunction,
           Address!encodeReturn, AddressP!encodeReturn, Address!encodeType, AddressP!encodeType,
           Address!Flat, AddressP!Flat, Address!Base, AddressP!Base
<1>2. module' = module
    BY <1>1 DEF AddressP!Next, AddressP!BlackListFunction, AddressP!processVirtualFunction,
                AddressP!FailedThunk, AddressP!processStaticFunction, AddressP!Process,
                AddressP!Done, AddressP!vars
<1>3. QED
    BY <1>1, <1>2, AddressAssumed, AddressP!NextInv, AddressP!NextTypes, AddressP!NextOutcomes

\* The encoder goes on learning types when SDReturnAddress is done.
LEMMA EncoderSteps ==
    ASSUME AddressP!TInv, AddressP!IInv, AddressP!Outcomes, UNCHANGED addressVars,
           UNCHANGED encoderVars \/ \E T, id : AddressP!getTypeID(T, id)
    PROVE  AddressP!TInv' /\ AddressP!IInv' /\ AddressP!Outcomes'
<1>1. UNCHANGED <<module, todo, functionID, FunctionIDMap, funcInfo>>
    BY DEF addressVars
<1>2. \A e \in DOMAIN EncodingToTypeID :
          e \in DOMAIN EncodingToTypeID' /\ EncodingToTypeID'[e] = EncodingToTypeID[e]
    BY AddressAssumed, AddressP!EncoderKeeps DEF encoderVars
<1>3. AddressP!Counted'
    BY AddressAssumed, AddressP!EncoderCounts
       DEF AddressP!IInv, AddressP!Counted, encoderVars
<1>4. NextTypeID' \in 0..StartTypeID
    <2>1. NextTypeID \in 0..StartTypeID /\ StartTypeID \in Nat
        BY AddressAssumed DEF AddressP!TInv, AddressP!TypeOK
    <2>2. NextTypeID' = NextTypeID \/ (NextTypeID > 0 /\ NextTypeID' = NextTypeID - 1)
        BY DEF AddressP!getTypeID, AddressP!encoderVars, encoderVars
    <2>3. QED
        BY <2>1, <2>2
<1>5. AddressP!IInv'
    <2>1. \A n : AddressP!Ids(n)' = AddressP!Ids(n)
        BY <1>1 DEF AddressP!Ids
    <2>2. AddressP!Numbered'
        BY <1>1, <2>1 DEF AddressP!IInv, AddressP!Numbered
    <2>3. AddressP!StaticIDsAreOwn'
        BY <1>1, <2>1 DEF AddressP!IInv, AddressP!StaticIDsAreOwn, AddressP!StaticNames
    <2>4. QED
        BY <1>3, <2>2, <2>3 DEF AddressP!IInv
<1>6. AddressP!TInv'
    BY <1>1, <1>4 DEF AddressP!TInv, AddressP!TypeOK, AddressP!Fresh, AddressP!Ids,
                      AddressP!StaticNames
<1>7. AddressP!Outcomes'
    <2>1. ASSUME NEW fn, AddressP!Outcome(fn) PROVE AddressP!Outcome(fn)'
        <3>1. module.maxID \in Nat /\ functionID \in Nat
            BY DEF AddressP!IInv, AddressP!Numbered
        <3>2. fn.name \in DOMAIN funcInfo
            BY <2>1 DEF AddressP!Outcome
        <3>3. QED
            BY <1>1, <1>2, <2>1, <3>1, <3>2, AddressAssumed, AddressP!OutcomeStays
    <2>2. ASSUME NEW i \in DOMAIN module.functions, NEW fn, fn = module.functions[i]
          PROVE  (\E j \in DOMAIN todo : todo[j] = fn) \/ AddressP!Outcome(fn)'
        BY <2>1, <2>2 DEF AddressP!Outcomes
    <2>3. \A i \in DOMAIN module.functions :
              (\E j \in DOMAIN todo : todo[j] = module.functions[i])
                  \/ AddressP!Outcome(module.functions[i])'
        <3> TAKE i \in DOMAIN module.functions
        <3>1. PICK fn : fn = module.functions[i]
            OBVIOUS
        <3>2. module'.functions[i] = fn
            BY <1>1, <3>1
        <3>3. QED
            BY <2>2, <3>1, <3>2
    <2>4. QED
        BY <1>1, <2>3 DEF AddressP!Outcomes
<1>8. QED
    BY <1>5, <1>6, <1>7

\* Every function of the module has a name of its own, and its IDs are known.
LEMMA AskedWellFormed ==
    ASSUME ChaInv
    PROVE  AddressP!WellFormed(Asked)
<1>1. Functions(program)
    BY SystemsAssumption DEF ChaInv
<1>2. currentID \in Nat
    BY EntriesKnown
<1>3. ASSUME NEW n \in DOMAIN functionImplMap PROVE FunctionIDs(n) \in Seq(0..(currentID - 1))
    <2> DEFINE I == 1..(currentID - 1)
               J == 0..(currentID - 1)
    <2>1. FunctionIDs(n) \in Seq(I) /\ I \subseteq J
        BY IDsListed
    <2> HIDE DEF I, J
    <2>2. FunctionIDs(n) \in Seq(J)
        BY <2>1
    <2>3. QED
        BY <2>2 DEF J
<1>4. QED
    BY <1>1, <1>2, <1>3 DEF Functions, Asked, AddressP!WellFormed, Address!Kinds, AddressP!Kinds,
                            Address!IsFunctionType, AddressP!IsFunctionType,
                            Address!IsType, AddressP!IsType

LEMMA InitAddress == Init => AddressInv
<1> SUFFICES ASSUME Init PROVE AddressInv
    OBVIOUS
<1>1. phase = "cha" /\ Address!Init
    BY DEF Init
<1>2. QED
    BY <1>1 DEF AddressInv, Address!Init, Address!EncoderInit

LEMMA SamePrecise ==
    \A T : Labels!Precise(T) = AddressP!Precise(T) /\ LabelsP!Precise(T) = AddressP!Precise(T)
<1> TAKE T
<1>1. Labels!Precise(T) = AddressP!Precise(T)
    BY DEF Labels!Precise, AddressP!Precise, Labels!encodeFunction, AddressP!encodeFunction,
           Labels!encodeReturn, AddressP!encodeReturn, Labels!encodeType, AddressP!encodeType,
           Labels!Flat, AddressP!Flat, Labels!Base, AddressP!Base
<1>2. LabelsP!Precise(T) = AddressP!Precise(T)
    BY DEF LabelsP!Precise, AddressP!Precise, LabelsP!encodeFunction, AddressP!encodeFunction,
           LabelsP!encodeReturn, AddressP!encodeReturn, LabelsP!encodeType, AddressP!encodeType,
           LabelsP!Flat, AddressP!Flat, LabelsP!Base, AddressP!Base
<1>3. QED
    BY <1>1, <1>2

\* What the steps of SDReturnRange do to the encoder.
LEMMA LabelsEncode ==
    ASSUME Labels!Next
    PROVE  UNCHANGED encoderVars \/ \E T, id : AddressP!getTypeID(T, id)
<1>1. CASE Labels!addIndirectCallSite
    <2>1. \E T, id : Labels!getTypeID(T, id)
        BY <1>1 DEF Labels!addIndirectCallSite
    <2>2. \A T, id : Labels!getTypeID(T, id) => AddressP!getTypeID(T, id)
        BY SamePrecise DEF Labels!getTypeID, AddressP!getTypeID, Labels!encoderVars, AddressP!encoderVars
    <2>3. QED
        BY <2>1, <2>2
<1>2. CASE ~Labels!addIndirectCallSite
    BY <1>2 DEF Labels!Next, Labels!addVirtualCallSite, Labels!SkipVirtualCallSite,
       Labels!addDirectCallSite, Labels!SkipDirectCallSite, Labels!addTailCallSite,
       Labels!IgnoreCall, Labels!encoderVars, encoderVars
<1>3. QED
    BY <1>1, <1>2

LEMMA NextAddress == ChaInv /\ AddressInv /\ [Next]_vars => AddressInv'
<1> SUFFICES ASSUME ChaInv, AddressInv, [Next]_vars PROVE AddressInv'
    OBVIOUS
<1>1. phase \in {"cha", "address", "range", "return"}
    BY DEF ChaInv
<1>2. ASSUME UNCHANGED <<program, infoVars, addressVars>>,
             UNCHANGED encoderVars \/ \E T, id : AddressP!getTypeID(T, id),
             phase # "cha", phase' # "cha", phase' \in {"range", "return"} => todo = <<>>
      PROVE  AddressInv'
    <2>1. Asked' = Asked /\ UNCHANGED <<module, todo>>
        BY <1>2 DEF Asked, FunctionIDs, infoVars, addressVars
    <2>2. module = Asked /\ AddressP!TInv /\ AddressP!IInv /\ AddressP!Outcomes
        BY <1>2 DEF AddressInv
    <2>3. AddressP!TInv' /\ AddressP!IInv' /\ AddressP!Outcomes'
        BY <1>2, <2>2, EncoderSteps
    <2>4. QED
        BY <1>2, <2>1, <2>2, <2>3 DEF AddressInv
<1>3. CASE buildFunctionInfo
    <2>1. phase = "cha" /\ UNCHANGED <<phase, addressVars, encoderVars>>
        BY <1>3 DEF buildFunctionInfo
    <2>2. QED
        BY <2>1 DEF AddressInv, addressVars, encoderVars
<1>4. CASE runReturnAddress
    <2>1. /\ phase = "cha" /\ phase' = "address"
          /\ module' = Asked /\ todo' = program.functions /\ functionID' = currentID + 1
          /\ UNCHANGED <<program, infoVars, FunctionIDMap, funcInfo, encoderVars>>
        BY <1>4 DEF runReturnAddress, Asked, Info!getMaxID
    <2>2. Asked' = Asked
        BY <2>1 DEF Asked, FunctionIDs, infoVars
    <2>3. /\ DOMAIN FunctionIDMap' = {} /\ DOMAIN funcInfo' = {}
          /\ DOMAIN EncodingToTypeID' = {} /\ NextTypeID' = StartTypeID
        BY <2>1 DEF AddressInv, encoderVars
    <2>4. todo' = module'.functions /\ functionID' = module'.maxID + 1
        BY <2>1 DEF Asked
    <2>5. AddressP!WellFormed(module')
        BY <2>1, AskedWellFormed
    <2>6. AddressP!Started'
        BY <2>3, <2>4, <2>5 DEF AddressP!Started, AddressP!WellFormed, AddressP!Kinds
    <2>7. AddressP!IInv' /\ AddressP!TInv' /\ AddressP!Outcomes'
        BY <2>6, AddressStartsNext
    <2>8. QED
        BY <2>1, <2>2, <2>7 DEF AddressInv
<1>5. CASE assignIDs
    <2>1. phase = "address" /\ Address!Next /\ UNCHANGED <<program, phase, infoVars>>
        BY <1>5 DEF assignIDs
    <2>2. module = Asked /\ Asked' = Asked
        BY <2>1 DEF AddressInv, Asked, FunctionIDs, infoVars
    <2>3. QED
        BY <2>1, <2>2, AddressSteps DEF AddressInv
<1>6. CASE runReturnRange
    <2>1. /\ phase = "address" /\ phase' = "range" /\ Address!Finished
          /\ UNCHANGED <<program, infoVars, addressVars, encoderVars>>
        BY <1>6 DEF runReturnRange
    <2>2. QED
        BY <1>2, <2>1 DEF Address!Finished
<1>7. CASE describeCalls
    <2>1. /\ phase = "range" /\ Labels!Next
          /\ UNCHANGED <<program, phase, infoVars, addressVars>>
        BY <1>7 DEF describeCalls
    <2>2. QED
        BY <1>2, <2>1, LabelsEncode DEF AddressInv
<1>8. CASE emitNops
    <2>1. phase = "range" /\ UNCHANGED <<program, phase, infoVars, addressVars, encoderVars>>
        BY <1>8 DEF emitNops, Labels!storeCallSites, Labels!vars, Labels!encoderVars, encoderVars
    <2>2. QED
        BY <1>2, <2>1 DEF AddressInv
<1>9. CASE runReturnChecks
    <2>1. /\ phase = "range" /\ phase' = "return"
          /\ UNCHANGED <<program, infoVars, addressVars, encoderVars>>
        BY <1>9 DEF runReturnChecks
    <2>2. QED
        BY <1>2, <2>1 DEF AddressInv
<1>10. CASE generateChecks \/ returnToCall \/ runChecks
    <2>1. /\ phase = "return" /\ UNCHANGED <<program, phase, infoVars, addressVars, encoderVars>>
        BY <1>10 DEF generateChecks, returnToCall, runChecks
    <2>2. QED
        BY <1>2, <2>1 DEF AddressInv
<1>11. CASE UNCHANGED vars
    <2>1. UNCHANGED <<program, phase, infoVars, addressVars, encoderVars>>
        BY <1>11 DEF vars
    <2>2. CASE phase = "cha"
        BY <2>1, <2>2 DEF AddressInv, addressVars, encoderVars
    <2>3. QED
        BY <1>1, <1>2, <2>1, <2>2 DEF AddressInv
<1>12. QED
    BY <1>3, <1>4, <1>5, <1>6, <1>7, <1>8, <1>9, <1>10, <1>11 DEF Next, Done

-----------------------------------------------------------------------------
(* What SDReturnRange files and the code generator emits.                  *)

LabelsInv ==
    /\ phase \in {"cha", "address"} =>
          /\ scan = 1 /\ pseudoDebugLoc = 1 /\ VirtualCallSites = {}
          /\ CallSiteDebugLocsVirtual = <<>> /\ CallSiteDebugLocsStatic = <<>>
          /\ machineCalls = <<>> /\ nops = <<>> /\ ~loaded
    /\ phase \in {"range", "return"} =>
          calls = [i \in DOMAIN program.calls |-> CallOf(program.calls[i])] /\ LabelsP!MInv
    /\ phase = "return" => LabelsP!Generated

LEMMA LabelsAssumed ==
    /\ NoLoc \notin LabelsP!PseudoLocs
    /\ \A p \in {<<>>} : /\ p \in Seq({p[i] : i \in DOMAIN p})
                         /\ \A i \in DOMAIN p : p[i].loc \notin LabelsP!PseudoLocs
    /\ StartTypeID \in Nat \ {0} /\ MaxParams \in Nat \ {0}
<1>1. NoLoc \notin LabelsP!PseudoLocs
    BY SystemsAssumption DEF Labels!PseudoLocs, LabelsP!PseudoLocs
<1>2. <<>> \in Seq({<<>>[i] : i \in DOMAIN <<>>}) /\ DOMAIN <<>> = {}
    OBVIOUS
<1>3. QED
    BY <1>1, <1>2, ConstantsAssumption

LEMMA LabelsStart == LabelsP!Started => LabelsP!MInv
BY LabelsAssumed, LabelsP!InitMachine

LEMMA LabelsStartNext == LabelsP!Started' => LabelsP!MInv'
BY LabelsStart, PTL

LEMMA SameLabelSteps ==
    /\ Labels!Next => LabelsP!Next
    /\ Labels!storeCallSites => LabelsP!storeCallSites
    /\ Labels!Machine!MachineNext => LabelsP!Machine!MachineNext
<1>1. ASSUME Labels!addIndirectCallSite PROVE LabelsP!addIndirectCallSite
    <2>1. \A T, id : Labels!getTypeID(T, id) => LabelsP!getTypeID(T, id)
        BY SamePrecise DEF Labels!getTypeID, LabelsP!getTypeID, Labels!encoderVars, LabelsP!encoderVars
    <2>2. QED
        BY <1>1, <2>1 DEF Labels!addIndirectCallSite, LabelsP!addIndirectCallSite,
           Labels!Scan, LabelsP!Scan, Labels!IsIndirect, LabelsP!IsIndirect, Labels!C, LabelsP!C,
           Labels!getOrCreateDebugLoc, LabelsP!getOrCreateDebugLoc, Labels!LocOf, LabelsP!LocOf,
           Labels!PseudoLoc, LabelsP!PseudoLoc, Labels!File, LabelsP!File
<1>2. Labels!Next => LabelsP!Next
    BY <1>1 DEF Labels!Next, LabelsP!Next, Labels!addVirtualCallSite, LabelsP!addVirtualCallSite,
       Labels!SkipVirtualCallSite, LabelsP!SkipVirtualCallSite,
       Labels!addDirectCallSite, LabelsP!addDirectCallSite,
       Labels!SkipDirectCallSite, LabelsP!SkipDirectCallSite,
       Labels!addTailCallSite, LabelsP!addTailCallSite, Labels!IgnoreCall, LabelsP!IgnoreCall,
       Labels!Scan, LabelsP!Scan, Labels!IsIndirect, LabelsP!IsIndirect, Labels!C, LabelsP!C,
       Labels!getOrCreateDebugLoc, LabelsP!getOrCreateDebugLoc, Labels!LocOf, LabelsP!LocOf,
       Labels!PseudoLoc, LabelsP!PseudoLoc, Labels!File, LabelsP!File,
       Labels!encoderVars, LabelsP!encoderVars
<1>3. Labels!storeCallSites => LabelsP!storeCallSites
    BY DEF Labels!storeCallSites, LabelsP!storeCallSites, Labels!Finished, LabelsP!Finished,
       Labels!vars, LabelsP!vars, Labels!siteVars, LabelsP!siteVars,
       Labels!encoderVars, LabelsP!encoderVars
<1>4. Labels!Machine!MachineNext => LabelsP!Machine!MachineNext
    BY DEF Labels!Machine!MachineNext, LabelsP!Machine!MachineNext,
       Labels!Machine!LoadCallSiteData, LabelsP!Machine!LoadCallSiteData,
       Labels!Machine!processVirtualCallSite, LabelsP!Machine!processVirtualCallSite,
       Labels!Machine!processStaticCallSite, LabelsP!Machine!processStaticCallSite,
       Labels!Machine!processTailCallSite, LabelsP!Machine!processTailCallSite,
       Labels!Machine!processUnknownCallSite, LabelsP!Machine!processUnknownCallSite,
       Labels!Machine!IgnoreSymbolCall, LabelsP!Machine!IgnoreSymbolCall,
       Labels!Machine!SkipCall, LabelsP!Machine!SkipCall,
       Labels!Machine!Load, LabelsP!Machine!Load, Labels!Machine!MI, LabelsP!Machine!MI,
       Labels!Machine!Emit, LabelsP!Machine!Emit, Labels!Machine!Looked, LabelsP!Machine!Looked,
       Labels!Machine!KnownVirtual, LabelsP!Machine!KnownVirtual,
       Labels!Machine!KnownStatic, LabelsP!Machine!KnownStatic,
       Labels!Machine!Unknown, LabelsP!Machine!Unknown,
       Labels!Machine!Mark, LabelsP!Machine!Mark,
       Labels!Machine!unknownID, LabelsP!Machine!unknownID
<1>5. QED
    BY <1>2, <1>3, <1>4

LEMMA InitLabels == Init => LabelsInv
<1> SUFFICES ASSUME Init PROVE LabelsInv
    OBVIOUS
<1>1. phase = "cha" /\ Labels!LabelsInit
    BY DEF Init
<1>2. QED
    BY <1>1 DEF LabelsInv, Labels!LabelsInit, Labels!Init, Labels!SitesInit,
                Labels!Machine!MachineInit

\* SDReturnRange starts on the calls of the program.
LEMMA CallsAsked ==
    ASSUME ChaInv, LabelsInv, runReturnRange
    PROVE  LabelsP!Started' /\ calls' = [i \in DOMAIN program'.calls |-> CallOf(program.calls[i])']
<1>1. /\ phase = "address" /\ UNCHANGED <<program, infoVars, addressVars, scan, pseudoDebugLoc>>
      /\ UNCHANGED <<VirtualCallSites, CallSiteDebugLocsVirtual, CallSiteDebugLocsStatic, machineVars>>
      /\ calls' = [i \in DOMAIN program.calls |-> CallOf(program.calls[i])]
      /\ uses' = {i \in DOMAIN program.calls : program.calls[i].kind = "virtual"}
      /\ debugLoc' = [i \in DOMAIN program.calls |-> program.calls[i].loc]
    BY DEF runReturnRange
<1>2. Calls(program)
    BY SystemsAssumption DEF ChaInv
<1>3. PICK cs : cs = program.calls
    OBVIOUS
<1>4. cs \in Seq({cs[i] : i \in DOMAIN cs})
    BY <1>2, <1>3 DEF Calls
<1>5. Len(cs) \in Nat /\ DOMAIN cs = 1..Len(cs)
    BY <1>4
<1>6. Listed(calls') /\ DOMAIN calls' = DOMAIN cs
    <2> DEFINE t == [i \in 1..Len(cs) |-> CallOf(cs[i])]
               T == {t[i] : i \in DOMAIN t}
    <2>1. calls' = t
        BY <1>1, <1>3, <1>5
    <2>2. t \in [1..Len(cs) -> T] /\ DOMAIN t = 1..Len(cs)
        OBVIOUS
    <2> HIDE DEF t, T
    <2>3. t \in Seq(T)
        BY <1>5, <2>2
    <2>4. QED
        BY <1>5, <2>1, <2>2, <2>3 DEF Listed, T
<1>7. \A i \in DOMAIN calls' : calls'[i].kind = cs[i].kind /\ calls'[i].loc = cs[i].loc
    BY <1>1, <1>3 DEF CallOf
<1>8. \A i \in DOMAIN calls' : calls'[i].loc \notin LabelsP!PseudoLocs
    BY <1>2, <1>3, <1>6, <1>7 DEF Calls, Labels!PseudoLocs, LabelsP!PseudoLocs
<1>9. /\ scan' = 1 /\ pseudoDebugLoc' = 1 /\ VirtualCallSites' = {}
      /\ CallSiteDebugLocsVirtual' = <<>> /\ CallSiteDebugLocsStatic' = <<>>
      /\ machineCalls' = <<>> /\ nops' = <<>> /\ ~loaded'
    BY <1>1 DEF LabelsInv, machineVars
<1>10. /\ uses' = {i \in DOMAIN calls' : calls'[i].kind = "virtual"}
       /\ debugLoc' = [i \in DOMAIN calls' |-> calls'[i].loc]
    BY <1>1, <1>3, <1>6, <1>7
<1>11. LabelsP!Started'
    BY <1>6, <1>8, <1>9, <1>10 DEF LabelsP!Started, LabelsP!Listed, Listed, LabelsP!PseudoLocs
<1>12. \A c : CallOf(c)' = CallOf(c)
    BY <1>1 DEF CallOf, Info!getFunctionRange, infoVars, addressVars
<1>13. QED
    BY <1>1, <1>11, <1>12

LEMMA NextLabels == ChaInv /\ LabelsInv /\ [Next]_vars => LabelsInv'
<1> SUFFICES ASSUME ChaInv, LabelsInv, [Next]_vars PROVE LabelsInv'
    OBVIOUS
<1>1. phase \in {"cha", "address", "range", "return"}
    BY DEF ChaInv
\* The passes that come before.
<1>2. ASSUME phase \in {"cha", "address"}, phase' \in {"cha", "address"},
             UNCHANGED <<siteVars, machineVars>>
      PROVE  LabelsInv'
    BY <1>2 DEF LabelsInv, siteVars, machineVars
\* A step of SDReturnRange or the code generator, or of what comes later.
<1>3. ASSUME phase \in {"range", "return"}, phase' \in {"range", "return"},
             [LabelsP!LabelsNext]_<<LabelsP!vars, LabelsP!machineVars>>,
             UNCHANGED <<program, infoVars, addressVars, calls>>,
             phase' = "return" => LabelsP!Generated'
      PROVE  LabelsInv'
    <2>1. \A c : CallOf(c)' = CallOf(c)
        BY <1>3 DEF CallOf, Info!getFunctionRange, infoVars, addressVars
    <2>2. LabelsP!MInv'
        BY <1>3, LabelsAssumed, LabelsP!NextMachine DEF LabelsInv
    <2>3. calls' = [i \in DOMAIN program'.calls |-> CallOf(program.calls[i])']
        BY <1>3, <2>1 DEF LabelsInv
    <2>4. QED
        BY <1>3, <2>2, <2>3 DEF LabelsInv
<1>4. CASE buildFunctionInfo \/ runReturnAddress \/ assignIDs
    <2>1. phase \in {"cha", "address"} /\ phase' \in {"cha", "address"}
        BY <1>4 DEF buildFunctionInfo, runReturnAddress, assignIDs
    <2>2. UNCHANGED <<siteVars, machineVars>>
        BY <1>4 DEF buildFunctionInfo, runReturnAddress, assignIDs
    <2>3. QED
        BY <1>2, <2>1, <2>2
<1>5. CASE runReturnRange
    <2>1. phase' = "range"
        BY <1>5 DEF runReturnRange
    <2>2. QED
        BY <1>5, <2>1, CallsAsked, LabelsStartNext DEF LabelsInv
<1>6. CASE describeCalls
    <2>1. /\ phase = "range" /\ Labels!Next
          /\ UNCHANGED <<program, phase, infoVars, addressVars, machineVars>>
        BY <1>6 DEF describeCalls
    <2>2. UNCHANGED calls
        BY <2>1 DEF Labels!Next, Labels!addVirtualCallSite, Labels!SkipVirtualCallSite,
           Labels!addDirectCallSite, Labels!SkipDirectCallSite, Labels!addTailCallSite,
           Labels!addIndirectCallSite, Labels!IgnoreCall, Labels!Scan
    <2>3. LabelsP!LabelsNext
        BY <2>1, SameLabelSteps DEF LabelsP!LabelsNext, machineVars, LabelsP!machineVars
    <2>4. QED
        BY <1>3, <2>1, <2>2, <2>3
<1>7. CASE emitNops
    <2>1. /\ phase = "range" /\ UNCHANGED <<program, phase, infoVars, addressVars>>
          /\ \/ Labels!storeCallSites
             \/ Labels!Machine!MachineNext /\ UNCHANGED <<siteVars, encoderVars>>
        BY <1>7 DEF emitNops
    <2>2. UNCHANGED calls
        BY <2>1 DEF Labels!storeCallSites, Labels!vars, Labels!siteVars, siteVars
    <2>3. LabelsP!LabelsNext
        BY <2>1, SameLabelSteps DEF LabelsP!LabelsNext, LabelsP!vars, LabelsP!siteVars,
           LabelsP!encoderVars, siteVars, encoderVars
    <2>4. QED
        BY <1>3, <2>1, <2>2, <2>3
<1>8. CASE runReturnChecks \/ generateChecks \/ returnToCall \/ runChecks
    <2>1. /\ phase \in {"range", "return"} /\ phase' = "return"
          /\ UNCHANGED <<program, infoVars, addressVars, encoderVars, siteVars, machineVars>>
          /\ phase = "return" \/ Labels!Generated
        BY <1>8 DEF runReturnChecks, generateChecks, returnToCall, runChecks
    <2>2. UNCHANGED <<LabelsP!vars, LabelsP!machineVars, calls>>
        BY <2>1 DEF LabelsP!vars, LabelsP!siteVars, LabelsP!encoderVars, LabelsP!machineVars,
           siteVars, encoderVars, machineVars
    <2>3. LabelsP!Generated
        BY <2>1 DEF LabelsInv, Labels!Generated, LabelsP!Generated, Labels!Finished, LabelsP!Finished
    <2>4. LabelsP!Generated'
        BY <2>1, <2>3 DEF LabelsP!Generated, LabelsP!Finished, siteVars, machineVars
    <2>5. QED
        BY <1>3, <2>1, <2>2, <2>4
<1>9. CASE UNCHANGED vars
    <2>1. UNCHANGED <<program, phase, infoVars, addressVars, encoderVars, siteVars, machineVars>>
        BY <1>9 DEF vars
    <2>2. UNCHANGED <<LabelsP!vars, LabelsP!machineVars, calls>>
        BY <2>1 DEF LabelsP!vars, LabelsP!siteVars, LabelsP!encoderVars, LabelsP!machineVars,
           siteVars, encoderVars, machineVars
    <2>3. LabelsP!Generated' = LabelsP!Generated
        BY <2>1 DEF LabelsP!Generated, LabelsP!Finished, siteVars, machineVars
    <2>4. CASE phase \in {"cha", "address"}
        BY <1>2, <2>1, <2>4
    <2>5. CASE phase \in {"range", "return"}
        <3>1. phase' \in {"range", "return"} /\ (phase' = "return" => LabelsP!Generated')
            BY <2>1, <2>3, <2>5 DEF LabelsInv
        <3>2. QED
            BY <1>3, <2>1, <2>2, <2>5, <3>1
    <2>6. QED
        BY <1>1, <2>4, <2>5
<1>10. QED
    BY <1>4, <1>5, <1>6, <1>7, <1>8, <1>9 DEF Next, Done

-----------------------------------------------------------------------------
(* What the checks of a function have compared when they run.              *)

\* The function that returns is one of the program, with its metadata.
Chosen ==
    /\ f.name \in {program.functions[i].name : i \in DOMAIN program.functions}
    /\ f.list = funcInfo[f.name].list /\ f.ids = funcInfo[f.name].ids
    /\ f.typeID = funcInfo[f.name].typeID
    /\ f.returns = 1 /\ f.external = FALSE

\* What is read back of the metadata: a static function without a type's ID
\* loses its ID.
Read ==
    /\ f.list = "virtual" => IDs = f.ids
    /\ f.list = "static" => IDs \in {<<>>, f.ids}
    /\ f.list \notin {"virtual", "static"} => IDs = <<>>
    /\ TypeID = -1 \/ (TypeID = f.typeID /\ TypeID # 0)

Classified ==
    /\ Type = CASE f.list = "virtual" -> "Virtual"
                [] f.list = "static" -> "Static"
                [] OTHER -> "BlackListed"
    /\ NumberOfChecks = IF IDs = <<>> THEN 0 ELSE 1
    /\ Flags \subseteq {"NoReturn", "External"}

\* The k-th ID is not in the range that is read at the site.
Outside(k) == ~(Checks!Sub(Checks!Mark(IDs[k]), site.first) <= site.second)

\* All IDs have been compared, and more checks follow.
Missed ==
    /\ IDs # <<>>
    /\ f.list = "virtual" => \A k \in DOMAIN IDs : Outside(k)
    /\ f.list # "virtual" => Checks!Mark(IDs[1]) = site.first

Admitted ==
    f.addressTaken /\ (site.far \/ site.first = TypeID \/ site.first = Checks!unknownMagic)

Compared ==
    /\ block = "range" =>
          /\ IDs # <<>> /\ f.list = "virtual" /\ next \in DOMAIN IDs
          /\ \A k \in 1..(next - 1) : Outside(k)
    /\ block = "compare" => IDs # <<>> /\ f.list = "static"
    /\ block \in {"external", "indirect", "indirect2"} => Missed /\ f.addressTaken
    /\ block = "fail" => Missed
    /\ failed => Missed /\ block \in {"return", "returned"}
    /\ block \in {"return", "returned"} /\ ~failed => IDs = <<>> \/ ~Missed \/ Admitted

Blocks == {"load", "process", "body", "range", "compare", "external", "indirect",
           "indirect2", "fail", "return", "returned"}

ChecksInv ==
    /\ phase # "return" =>
          /\ f = NoFunction /\ IDs = <<>> /\ TypeID = -1 /\ Type = "None" /\ Flags = {}
          /\ NumberOfChecks = 0 /\ site = Checks!NoSite /\ block = "load" /\ next = 1 /\ ~failed
    /\ phase = "return" =>
          /\ Chosen /\ block \in Blocks
          /\ block # "load" => Read
          /\ block \in {"load", "process"} => Type = "None" /\ Flags = {} /\ NumberOfChecks = 0
          /\ block \notin {"load", "process"} => Classified
          /\ block \in {"load", "process", "body"} => site = Checks!NoSite /\ ~failed /\ next = 1
          /\ block = "load" => IDs = <<>> /\ TypeID = -1
          /\ block \notin {"load", "process", "body"} =>
                /\ site.call \in DOMAIN calls /\ site \in SitesOf(site.call)
                /\ Compared

LEMMA InitChecks == Init => ChecksInv
<1> SUFFICES ASSUME Init PROVE ChecksInv
    OBVIOUS
<1>1. phase = "cha" /\ Checks!Init
    BY DEF Init
<1>2. QED
    BY <1>1 DEF Checks!Init, ChecksInv

\* The functions are known when the checks are generated.
LEMMA FunctionKnown ==
    ASSUME ChaInv, AddressInv, phase \in {"range", "return"},
           NEW i \in DOMAIN program.functions, NEW fn, fn = program.functions[i]
    PROVE  /\ AddressP!Outcome(fn)
           /\ funcInfo[fn.name].ids \in Seq(Nat)
           /\ funcInfo[fn.name].list \in {"virtual", "static", "blacklist"}
           /\ funcInfo[fn.name].typeID \in 0..StartTypeID
           /\ funcInfo[fn.name].list = "static" =>
                 \E id \in Nat : id > currentID /\ funcInfo[fn.name].ids = <<id>>
           /\ funcInfo[fn.name].list = "virtual" =>
                 funcInfo[fn.name].ids = AddressP!Callable(fn)
           /\ todo = <<>> /\ module = Asked
<1>1. module = Asked /\ AddressP!TInv /\ AddressP!IInv /\ AddressP!Outcomes /\ todo = <<>>
    BY DEF AddressInv
<1>2. AddressP!Outcome(fn)
    <2>1. module.functions = program.functions
        BY <1>1 DEF Asked
    <2>2. QED
        BY <1>1, <2>1 DEF AddressP!Outcomes
<1>3. fn.name \in DOMAIN funcInfo
    BY <1>2 DEF AddressP!Outcome
<1>4. funcInfo[fn.name].typeID \in 0..StartTypeID
    BY <1>1, <1>3 DEF AddressP!TInv, AddressP!TypeOK
<1>5. currentID \in Nat /\ module.maxID = currentID /\ functionID \in Nat
    BY <1>1, EntriesKnown DEF Asked, AddressP!IInv, AddressP!Numbered
<1>6. AddressP!Callable(fn) \in Seq(Nat)
    <2>1. \A n : AddressP!VirtualIDs(module, n) \in Seq(Nat)
        <3> SUFFICES ASSUME NEW n PROVE AddressP!VirtualIDs(module, n) \in Seq(Nat)
            OBVIOUS
        <3> DEFINE S == 0..(module.maxID - 1)
        <3>1. \A k \in DOMAIN module.virtualIDs : module.virtualIDs[k] \in Seq(S)
            BY <1>1 DEF AddressP!IInv, AddressP!Numbered
        <3>2. S \subseteq Nat
            BY <1>5
        <3> HIDE DEF S
        <3>3. AddressP!VirtualIDs(module, n) \in Seq(S)
            BY <3>1 DEF AddressP!VirtualIDs
        <3>4. PICK s \in Seq(S) : s = AddressP!VirtualIDs(module, n)
            BY <3>3
        <3>5. s \in Seq(Nat)
            BY <3>2, <3>4, SeqWidens
        <3>6. QED
            BY <3>4, <3>5
    <2>2. QED
        BY <2>1 DEF AddressP!Callable
<1>7. CASE funcInfo[fn.name].list = "static"
    <2>1. PICK id \in (module.maxID + 1)..(functionID - 1) : funcInfo[fn.name].ids = <<id>>
        BY <1>2, <1>7 DEF AddressP!Outcome
    <2>2. id \in Nat /\ id > currentID
        BY <1>5, <2>1
    <2>3. QED
        BY <1>1, <1>2, <1>4, <1>7, <2>1, <2>2
<1>8. CASE funcInfo[fn.name].list # "static"
    <2>1. funcInfo[fn.name].ids = <<>> \/ funcInfo[fn.name].ids = AddressP!Callable(fn)
        BY <1>2, <1>8 DEF AddressP!Outcome
    <2>2. funcInfo[fn.name].list \in {"virtual", "blacklist"}
        BY <1>2, <1>8 DEF AddressP!Outcome
    <2>3. funcInfo[fn.name].list = "virtual" => funcInfo[fn.name].ids = AddressP!Callable(fn)
        BY <1>2 DEF AddressP!Outcome
    <2>4. funcInfo[fn.name].ids \in Seq(Nat)
        <3>1. <<>> \in Seq(Nat)
            OBVIOUS
        <3>2. QED
            BY <1>6, <2>1, <3>1, Zenon
    <2>5. QED
        BY <1>1, <1>2, <1>4, <1>8, <2>2, <2>3, <2>4
<1>9. QED
    BY <1>7, <1>8

\* The operands of a static and of a virtual function, with the type's ID or
\* without.
LEMMA StaticOperands ==
    ASSUME NEW S, NEW o \in Seq(S), NEW g, NEW n, n = 1, Len(g) = 1, NEW t, t = 0 \/ t = 1,
           Len(o) = n + Len(g) + t, SubSeq(o, n + 1, n + Len(g)) = g
    PROVE  (Len(o) = 2 \/ Len(o) = 3) /\ o[2] = g[1]
<1>1. Len(o) = 2 \/ Len(o) = 3
    OBVIOUS
<1>2. SubSeq(o, 2, 2) = g
    <2>1. n + 1 = 2 /\ n + Len(g) = 2
        OBVIOUS
    <2>2. QED
        BY <2>1
<1>3. o[2] = SubSeq(o, 2, 2)[1]
    BY <1>1
<1>4. QED
    BY <1>1, <1>2, <1>3

LEMMA VirtualOperands ==
    ASSUME NEW o, NEW h, NEW g, NEW typed, NEW n, NEW m \in Nat, n = 2, h[2] = m,
           Len(o) = n + m + Len(typed),
           \A k \in 1..n : o[k] = h[k],
           \A k \in 1..Len(typed) : o[n + m + k] = typed[k],
           SubSeq(o, n + 1, n + m) = g
    PROVE  /\ Len(o) = 2 + m + Len(typed) /\ o[2] = m
           /\ SubSeq(o, 3, 2 + m) = g
           /\ Len(typed) = 1 => o[3 + m] = typed[1]
<1>1. n + 1 = 3 /\ n + m = 2 + m /\ 2 \in 1..n
    OBVIOUS
<1>2. Len(typed) = 1 => 1 \in 1..Len(typed) /\ n + m + 1 = 3 + m
    OBVIOUS
<1>3. QED
    BY <1>1, <1>2

\* What the pass reads back is what was stored, or nothing.
LEMMA LoadReads ==
    ASSUME Checks!loadFunctionData, f.ids \in Seq(Nat), f.typeID \in Nat,
           f.list = "static" => \E id \in Nat : f.ids = <<id>>
    PROVE  Read' /\ UNCHANGED f
<1> DEFINE S == Nat \cup {"name"}
<1>1. PICK o, num, ids :
          /\ o = Checks!Operands /\ num = Len(o)
          /\ ids = CASE num <= 2 -> <<>>
                     [] f.list = "static" -> <<o[2]>>
                     [] OTHER -> SubSeq(o, 3, 2 + o[2])
          /\ IDs' = ids
          /\ TypeID' = CASE f.list = "static" /\ num > 3 -> o[3]
                         [] f.list = "virtual" /\ num > 2 /\ Len(ids) + 2 < num -> o[3 + Len(ids)]
                         [] OTHER -> -1
    BY DEF Checks!loadFunctionData
<1>2. UNCHANGED f
    BY DEF Checks!loadFunctionData
<1>3. PICK typed : typed = IF f.typeID = Checks!NoType THEN <<>> ELSE <<f.typeID>>
    OBVIOUS
<1>4. "name" \in S /\ Nat \subseteq S /\ f.typeID \in S /\ f.ids \in Seq(S)
    BY SeqWidens
<1> HIDE DEF S
<1>5. typed \in Seq(S) /\ (Len(typed) = 0 \/ Len(typed) = 1)
    <2>1. CASE f.typeID = 0
        BY <1>3, <1>4, <2>1, ShortSeqs DEF Checks!NoType
    <2>2. CASE f.typeID # 0
        BY <1>3, <1>4, <2>2, ShortSeqs DEF Checks!NoType
    <2>3. QED
        BY <2>1, <2>2
<1>6. Len(typed) = 1 => typed[1] = f.typeID /\ f.typeID # 0
    BY <1>3, ShortSeqs DEF Checks!NoType
<1>7. CASE f.list = "static"
    <2>1. PICK id \in Nat : f.ids = <<id>>
        BY <1>7
    <2>2. PICK h, g : h = <<"name">> /\ g = <<id>>
        OBVIOUS
    <2>3. (num = 2 \/ num = 3) /\ o[2] = id
        <3>1. /\ h \in Seq(S) /\ Len(h) = 1
              /\ g \in Seq(S) /\ Len(g) = 1 /\ g[1] = id
            BY <1>4, <2>2, ShortSeqs
        <3>2. o = (h \o g) \o typed
            BY <1>1, <1>3, <1>7, <2>1, <2>2 DEF Checks!Operands
        <3>3. h \in Seq(S) /\ g \in Seq(S) /\ typed \in Seq(S)
            BY <1>5, <3>1
        <3>4. /\ o \in Seq(S) /\ Len(o) = Len(h) + Len(g) + Len(typed)
              /\ SubSeq(o, Len(h) + 1, Len(h) + Len(g)) = g
            BY <3>2, <3>3, Middle
        <3>5. (Len(o) = 2 \/ Len(o) = 3) /\ o[2] = g[1]
            BY <1>5, <3>1, <3>4, StaticOperands, Zenon
        <3>6. QED
            BY <1>1, <3>1, <3>5, Zenon
    <2>4. ids \in {<<>>, <<id>>}
        BY <1>1, <1>7, <2>3
    <2>5. TypeID' = -1
        BY <1>1, <1>7, <2>3
    <2>6. QED
        BY <1>1, <1>2, <1>7, <2>1, <2>4, <2>5 DEF Read
<1>8. CASE f.list = "virtual" /\ f.ids # <<>>
    <2>1. PICK g \in Seq(S) : g = f.ids /\ Len(g) \in Nat \ {0}
        BY <1>4, <1>8
    <2>2. PICK h : h = <<"name", Len(g)>>
        OBVIOUS
    <2>3. /\ num = 2 + Len(g) + Len(typed) /\ o[2] = Len(g)
          /\ SubSeq(o, 3, 2 + Len(g)) = g
          /\ Len(typed) = 1 => o[3 + Len(g)] = typed[1]
        <3>1. h \in Seq(S) /\ Len(h) = 2 /\ h[2] = Len(g)
            BY <1>4, <2>1, <2>2, ShortSeqs
        <3>2. o = (h \o g) \o typed
            BY <1>1, <1>3, <1>8, <2>1, <2>2 DEF Checks!Operands
        <3>3. h \in Seq(S) /\ typed \in Seq(S)
            BY <1>5, <3>1
        <3>4. /\ Len(o) = Len(h) + Len(g) + Len(typed)
              /\ \A k \in 1..Len(h) : o[k] = h[k]
              /\ \A k \in 1..Len(typed) : o[Len(h) + Len(g) + k] = typed[k]
              /\ SubSeq(o, Len(h) + 1, Len(h) + Len(g)) = g
            BY <3>2, <3>3, Middle
        <3>5. /\ Len(o) = 2 + Len(g) + Len(typed) /\ o[2] = Len(g)
              /\ SubSeq(o, 3, 2 + Len(g)) = g
              /\ Len(typed) = 1 => o[3 + Len(g)] = typed[1]
            BY <2>1, <3>1, <3>4, VirtualOperands
        <3>6. QED
            BY <1>1, <3>5, Zenon
    <2>4. ids = g
        <3>1. ~(num <= 2)
            BY <1>5, <2>1, <2>3
        <3>2. QED
            BY <1>1, <1>8, <2>3, <3>1
    <2>5. TypeID' = -1 \/ (TypeID' = f.typeID /\ f.typeID # 0)
        <3>1. CASE Len(typed) = 0
            <4>1. ~(Len(ids) + 2 < num)
                BY <2>1, <2>3, <2>4, <3>1
            <4>2. QED
                BY <1>1, <1>8, <4>1
        <3>2. CASE Len(typed) = 1
            <4>1. num > 2 /\ Len(ids) + 2 < num /\ o[3 + Len(ids)] = typed[1]
                BY <2>1, <2>3, <2>4, <3>2
            <4>2. TypeID' = typed[1]
                BY <1>1, <1>8, <4>1
            <4>3. QED
                BY <1>6, <3>2, <4>2
        <3>3. QED
            BY <1>5, <3>1, <3>2
    <2>6. QED
        BY <1>1, <1>2, <1>8, <2>1, <2>4, <2>5 DEF Read
<1>9. CASE f.list # "static" /\ ~(f.list = "virtual" /\ f.ids # <<>>)
    <2>1. o = <<"name">>
        BY <1>1, <1>9 DEF Checks!Operands
    <2>2. num = 1
        BY <1>1, <1>4, <2>1, ShortSeqs
    <2>3. ids = <<>> /\ TypeID' = -1
        BY <1>1, <1>9, <2>2
    <2>4. QED
        BY <1>1, <1>2, <1>9, <2>3 DEF Read
<1>10. QED
    BY <1>7, <1>8, <1>9

\* What the checks of the function rest on while they run.
ChecksFixed ==
    /\ phase = "return" /\ phase' = "return"
    /\ UNCHANGED <<program, infoVars, addressVars, encoderVars, siteVars, machineVars>>

LEMMA FixedSites ==
    ASSUME ChecksFixed
    PROVE  UNCHANGED <<program, funcInfo, calls, nops>>
BY DEF ChecksFixed, infoVars, addressVars, siteVars, machineVars

LEMMA ChosenKnown ==
    ASSUME ChaInv, AddressInv, phase = "return", Chosen
    PROVE  /\ f.ids \in Seq(Nat) /\ f.typeID \in 0..StartTypeID
           /\ f.list \in {"virtual", "static", "blacklist"}
           /\ f.list = "static" => \E id \in Nat : id > currentID /\ f.ids = <<id>>
<1>1. PICK i \in DOMAIN program.functions : f.name = program.functions[i].name
    BY DEF Chosen
<1>2. PICK fn : fn = program.functions[i]
    OBVIOUS
<1>3. /\ funcInfo[fn.name].ids \in Seq(Nat)
      /\ funcInfo[fn.name].list \in {"virtual", "static", "blacklist"}
      /\ funcInfo[fn.name].typeID \in 0..StartTypeID
      /\ funcInfo[fn.name].list = "static" =>
            \E id \in Nat : id > currentID /\ funcInfo[fn.name].ids = <<id>>
    BY <1>2, FunctionKnown
<1>4. /\ f.list = funcInfo[fn.name].list /\ f.ids = funcInfo[fn.name].ids
      /\ f.typeID = funcInfo[fn.name].typeID
    BY <1>1, <1>2 DEF Chosen
<1>5. QED
    BY <1>3, <1>4

LEMMA GenerateKeeps ==
    ASSUME ChaInv, AddressInv, ChecksInv, generateChecks
    PROVE  ChecksInv'
<1>1. ChecksFixed
    BY DEF generateChecks, ChecksFixed
<1>2. UNCHANGED <<program, funcInfo, calls>>
    BY <1>1, FixedSites
<1>3. Chosen /\ phase' = "return"
    BY <1>1 DEF ChecksFixed, ChecksInv
<1>6. /\ f.ids \in Seq(Nat) /\ f.typeID \in 0..StartTypeID
      /\ f.list = "static" => \E id \in Nat : id > currentID /\ f.ids = <<id>>
    BY <1>1, <1>3, ChosenKnown DEF ChecksFixed
<1>7. CASE Checks!loadFunctionData
    <2>1. /\ block = "load" /\ block' = "process"
          /\ UNCHANGED <<f, Type, Flags, NumberOfChecks, site, next, failed>>
        BY <1>7 DEF Checks!loadFunctionData
    <2>2. Read'
        <3>1. f.typeID \in Nat /\ (f.list = "static" => \E id \in Nat : f.ids = <<id>>)
            BY <1>6, ConstantsAssumption
        <3>2. QED
            BY <1>6, <1>7, <3>1, LoadReads
    <2>3. Chosen'
        BY <1>2, <1>3, <2>1 DEF Chosen
    <2>4. QED
        BY <1>1, <2>1, <2>2, <2>3 DEF ChecksFixed, ChecksInv, Blocks
<1>8. CASE Checks!processFunction
    <2>1. /\ block = "process" /\ block' = "body"
          /\ f.list \in {"static", "virtual"}
          /\ Type' = IF f.list = "static" THEN "Static" ELSE "Virtual"
          /\ NumberOfChecks' = IF IDs = <<>> THEN 0 ELSE f.returns
          /\ Flags' \subseteq {"NoReturn", "External"}
          /\ UNCHANGED <<f, IDs, TypeID, site, next, failed>>
        BY <1>8 DEF Checks!processFunction, Checks!ChecksOf
    <2>2. Chosen' /\ Read'
        BY <1>1, <1>2, <1>3, <2>1 DEF Chosen, Read, ChecksInv, ChecksFixed
    <2>3. Classified'
        BY <1>3, <2>1 DEF Classified, Chosen
    <2>4. QED
        BY <1>1, <2>1, <2>2, <2>3 DEF ChecksFixed, ChecksInv, Blocks
<1>9. CASE Checks!processOther
    <2>1. /\ block = "process" /\ block' = "body"
          /\ f.list \notin {"static", "virtual"} /\ Type' = "BlackListed"
          /\ UNCHANGED <<f, IDs, TypeID, Flags, NumberOfChecks, site, next, failed>>
        BY <1>9 DEF Checks!processOther
    <2>2. Chosen' /\ Read'
        BY <1>1, <1>2, <1>3, <2>1 DEF Chosen, Read, ChecksInv, ChecksFixed
    <2>3. IDs = <<>> /\ NumberOfChecks = 0 /\ Flags = {}
        BY <1>1, <2>1 DEF Read, ChecksInv, ChecksFixed
    <2>4. Classified'
        BY <2>1, <2>3 DEF Classified
    <2>5. QED
        BY <1>1, <2>1, <2>2, <2>4 DEF ChecksFixed, ChecksInv, Blocks
<1>10. QED
    BY <1>7, <1>8, <1>9 DEF generateChecks

LEMMA ReturnKeeps ==
    ASSUME ChaInv, AddressInv, ChecksInv, returnToCall
    PROVE  ChecksInv'
<1>1. ChecksFixed
    BY DEF returnToCall, ChecksFixed
<1>2. UNCHANGED <<program, funcInfo, calls, nops>>
    BY <1>1, FixedSites
<1>3. PICK i \in DOMAIN calls : \E s \in SitesOf(i) : Checks!ReturnTo(s)
    BY DEF returnToCall
<1> PICK s \in SitesOf(i) : Checks!ReturnTo(s)
    BY <1>3
<1>4. /\ block = "body" /\ site' = s /\ UNCHANGED <<f, IDs, TypeID, Type, Flags, NumberOfChecks, next, failed>>
      /\ block' = IF NumberOfChecks = 0 THEN "return"
                  ELSE IF Type = "Virtual" THEN "range" ELSE "compare"
    BY DEF Checks!ReturnTo, Checks!passVars
<1>5. /\ Chosen /\ Read /\ Classified /\ ~failed /\ next = 1
    BY <1>1, <1>4 DEF ChecksInv, ChecksFixed
<1>6. Chosen' /\ Read' /\ Classified'
    BY <1>2, <1>4, <1>5 DEF Chosen, Read, Classified
<1>7. s.call = i
    BY DEF SitesOf
<1>8. f.ids \in Seq(Nat)
    BY <1>1, <1>5, ChosenKnown DEF ChecksFixed
<1>9. Compared'
    <2>1. CASE IDs = <<>>
        <3>1. NumberOfChecks = 0
            BY <1>5, <2>1 DEF Classified
        <3>2. block' = "return" /\ IDs' = <<>> /\ ~failed'
            BY <1>4, <1>5, <2>1, <3>1
        <3>3. QED
            BY <3>2 DEF Compared
    <2>2. CASE IDs # <<>> /\ f.list = "virtual"
        <3>1. block' = "range" /\ IDs' # <<>> /\ ~failed' /\ next' = 1 /\ f'.list = "virtual"
            BY <1>4, <1>5, <2>2 DEF Classified
        <3>2. 1 \in DOMAIN IDs'
            <4>1. PICK g \in Seq(Nat) : g = f.ids
                BY <1>8
            <4>2. IDs' = g /\ g # <<>>
                BY <1>4, <1>5, <2>2, <4>1 DEF Read
            <4>3. QED
                BY <4>2
        <3>3. QED
            BY <3>1, <3>2 DEF Compared
    <2>3. CASE IDs # <<>> /\ f.list # "virtual"
        <3>1. f.list = "static"
            BY <1>5, <2>3 DEF Read
        <3>2. block' = "compare" /\ IDs' # <<>> /\ ~failed' /\ f'.list = "static"
            BY <1>4, <1>5, <2>3, <3>1 DEF Classified
        <3>3. QED
            BY <3>2 DEF Compared
    <2>4. QED
        BY <2>1, <2>2, <2>3
<1>10. block' \in {"return", "range", "compare"}
    BY <1>4
<1>11. site'.call \in DOMAIN calls' /\ (site \in SitesOf(site.call))'
    BY <1>2, <1>3, <1>4, <1>7 DEF SitesOf
<1>12. QED
    BY <1>1, <1>6, <1>9, <1>10, <1>11 DEF ChecksFixed, ChecksInv, Blocks

LEMMA RunKeeps ==
    ASSUME ChaInv, AddressInv, ChecksInv, runChecks
    PROVE  ChecksInv'
<1>1. ChecksFixed
    BY DEF runChecks, ChecksFixed
<1>2. UNCHANGED <<program, funcInfo, calls, nops>>
    BY <1>1, FixedSites
<1>3. /\ UNCHANGED <<f, IDs, TypeID, Type, Flags, NumberOfChecks, site>>
      /\ block \notin {"load", "process", "body"} /\ block' \in Blocks \ {"load", "process", "body"}
    BY DEF runChecks, Checks!RangeBlock, Checks!CompareBlock, Checks!ExternalBlock,
           Checks!IndirectBlock, Checks!UnknownBlock, Checks!FailBlock, Checks!Leave,
           Checks!Goto, Checks!AfterIDs, Checks!passVars, Blocks
<1>4. /\ Chosen /\ Read /\ Classified /\ Compared
      /\ site.call \in DOMAIN calls /\ site \in SitesOf(site.call)
    BY <1>1, <1>3 DEF ChecksInv, ChecksFixed
<1>5. Chosen' /\ Read' /\ Classified'
    BY <1>2, <1>3, <1>4 DEF Chosen, Read, Classified
<1>6. (site.call \in DOMAIN calls /\ site \in SitesOf(site.call))'
    BY <1>2, <1>3, <1>4 DEF SitesOf
<1>7. Missed' = Missed /\ Admitted' = Admitted /\ \A k : Outside(k)' = Outside(k)
    BY <1>3 DEF Missed, Admitted, Outside, Checks!Sub, Checks!Mark, Checks!unknownMagic
<1>8. f.ids \in Seq(Nat)
    BY <1>1, <1>4, ChosenKnown DEF ChecksFixed
<1>9. CASE Checks!RangeBlock
    <2>1. /\ block = "range" /\ next' = next + 1 /\ failed' = failed
          /\ block' = IF ~Outside(next) THEN "return"
                      ELSE IF next < Len(IDs) THEN "range" ELSE Checks!AfterIDs
        BY <1>9 DEF Checks!RangeBlock, Checks!Goto, Outside, Checks!minID, Checks!width
    <2>2. /\ IDs # <<>> /\ f.list = "virtual" /\ next \in DOMAIN IDs /\ ~failed
          /\ \A k \in 1..(next - 1) : Outside(k)
        BY <1>4, <2>1 DEF Compared
    <2>3. PICK n \in Nat : n = Len(IDs) /\ DOMAIN IDs = 1..n
        <3>1. PICK g \in Seq(Nat) : g = f.ids
            BY <1>8
        <3>2. IDs = g
            BY <1>4, <2>2, <3>1 DEF Read
        <3>3. QED
            BY <3>2
    <2>4. CASE ~Outside(next)
        <3>1. block' = "return" /\ ~failed'
            BY <2>1, <2>2, <2>4
        <3>2. ~Missed'
            BY <1>7, <2>2, <2>4 DEF Missed
        <3>3. QED
            BY <1>1, <1>3, <1>5, <1>6, <3>1, <3>2 DEF ChecksFixed, ChecksInv, Compared
    <2>5. CASE Outside(next) /\ next < Len(IDs)
        <3>1. block' = "range" /\ ~failed'
            BY <2>1, <2>2, <2>5
        <3>2. next' \in DOMAIN IDs' /\ \A k \in 1..(next' - 1) : Outside(k)
            BY <1>3, <2>1, <2>2, <2>3, <2>5
        <3>3. Compared'
            BY <1>3, <1>7, <2>2, <3>1, <3>2 DEF Compared
        <3>4. QED
            BY <1>1, <1>3, <1>5, <1>6, <3>1, <3>3 DEF ChecksFixed, ChecksInv
    <2>6. CASE Outside(next) /\ ~(next < Len(IDs))
        <3>1. block' = Checks!AfterIDs /\ ~failed'
            BY <2>1, <2>2, <2>6
        <3>2. \A k \in DOMAIN IDs : Outside(k)
            BY <2>2, <2>3, <2>6
        <3>3. Missed'
            BY <1>7, <2>2, <3>2 DEF Missed
        <3>4. block' = "fail" \/ (block' = "external" /\ f'.addressTaken)
            BY <1>3, <3>1 DEF Checks!AfterIDs
        <3>5. Compared'
            BY <3>1, <3>3, <3>4 DEF Compared
        <3>6. QED
            BY <1>1, <1>3, <1>5, <1>6, <3>1, <3>4, <3>5 DEF ChecksFixed, ChecksInv
    <2>7. QED
        BY <2>4, <2>5, <2>6
<1>10. CASE Checks!CompareBlock
    <2>1. /\ block = "compare" /\ failed' = failed
          /\ block' = IF Checks!Mark(IDs[1]) = site.first THEN Checks!AfterIDs ELSE "return"
        BY <1>10 DEF Checks!CompareBlock, Checks!Goto, Checks!minID
    <2>2. IDs # <<>> /\ f.list = "static" /\ ~failed'
        BY <1>4, <2>1 DEF Compared
    <2>3. Missed' <=> Checks!Mark(IDs[1]) = site.first
        BY <1>7, <2>2 DEF Missed
    <2>4. \/ block' = "return" /\ ~Missed'
          \/ Missed' /\ (block' = "fail" \/ (block' = "external" /\ f'.addressTaken))
        BY <1>3, <2>1, <2>3 DEF Checks!AfterIDs
    <2>5. Compared'
        BY <2>2, <2>4 DEF Compared
    <2>6. QED
        BY <1>1, <1>3, <1>5, <1>6, <2>1, <2>4, <2>5 DEF ChecksFixed, ChecksInv
<1>11. CASE Checks!ExternalBlock \/ Checks!IndirectBlock \/ Checks!UnknownBlock
    <2>1. /\ block \in {"external", "indirect", "indirect2"} /\ failed' = failed
          /\ \/ block' \in {"indirect", "indirect2", "fail"}
             \/ /\ block' = "return"
                /\ site.far \/ site.first = TypeID \/ site.first = Checks!unknownMagic
        BY <1>11 DEF Checks!ExternalBlock, Checks!IndirectBlock, Checks!UnknownBlock,
                     Checks!Goto, Checks!minID
    <2>2. Missed' /\ f'.addressTaken /\ ~failed'
        BY <1>3, <1>4, <1>7, <2>1 DEF Compared
    <2>3. block' = "return" => Admitted'
        BY <1>3, <1>7, <2>1, <2>2 DEF Admitted
    <2>4. Compared'
        BY <2>1, <2>2, <2>3 DEF Compared
    <2>5. QED
        BY <1>1, <1>3, <1>5, <1>6, <2>1, <2>4 DEF ChecksFixed, ChecksInv
<1>12. CASE Checks!FailBlock
    <2>1. block = "fail" /\ failed' /\ block' = "return"
        BY <1>12 DEF Checks!FailBlock
    <2>2. Missed'
        BY <1>4, <1>7, <2>1 DEF Compared
    <2>3. Compared'
        BY <2>1, <2>2 DEF Compared
    <2>4. QED
        BY <1>1, <1>3, <1>5, <1>6, <2>1, <2>3 DEF ChecksFixed, ChecksInv
<1>13. CASE Checks!Leave
    <2>1. block = "return" /\ failed' = failed /\ block' = "returned"
        BY <1>13 DEF Checks!Leave
    <2>2. /\ failed' => Missed'
          /\ ~failed' => IDs' = <<>> \/ ~Missed' \/ Admitted'
        BY <1>3, <1>4, <1>7, <2>1 DEF Compared
    <2>3. Compared'
        BY <2>1, <2>2 DEF Compared
    <2>4. QED
        BY <1>1, <1>3, <1>5, <1>6, <2>1, <2>3 DEF ChecksFixed, ChecksInv
<1>14. QED
    BY <1>9, <1>10, <1>11, <1>12, <1>13 DEF runChecks

LEMMA NextChecks == ChaInv /\ AddressInv /\ ChecksInv /\ [Next]_vars => ChecksInv'
<1> SUFFICES ASSUME ChaInv, AddressInv, ChecksInv, [Next]_vars PROVE ChecksInv'
    OBVIOUS
<1>1. CASE buildFunctionInfo \/ runReturnAddress \/ assignIDs \/ runReturnRange \/ describeCalls
           \/ emitNops
    <2>1. phase # "return" /\ phase' # "return" /\ UNCHANGED checkVars
        BY <1>1 DEF buildFunctionInfo, runReturnAddress, assignIDs, runReturnRange, describeCalls,
                    emitNops
    <2>2. QED
        BY <2>1 DEF ChecksInv, checkVars
<1>2. CASE runReturnChecks
    <2>1. /\ phase = "range" /\ phase' = "return" /\ UNCHANGED <<program, addressVars>>
          /\ UNCHANGED <<IDs, TypeID, Type, Flags, NumberOfChecks, site, block, next, failed>>
        BY <1>2 DEF runReturnChecks
    <2>2. PICK i \in DOMAIN program.functions : \E taken :
              f' = [name |-> program.functions[i].name,
                    list |-> funcInfo[program.functions[i].name].list,
                    ids |-> funcInfo[program.functions[i].name].ids,
                    typeID |-> funcInfo[program.functions[i].name].typeID,
                    returns |-> 1, addressTaken |-> taken, external |-> FALSE]
        BY <1>2 DEF runReturnChecks
    <2>3. Chosen'
        BY <2>1, <2>2 DEF Chosen, addressVars
    <2>4. /\ IDs = <<>> /\ TypeID = -1 /\ Type = "None" /\ Flags = {}
          /\ NumberOfChecks = 0 /\ site = Checks!NoSite /\ block = "load" /\ next = 1 /\ ~failed
        BY <2>1 DEF ChecksInv
    <2>5. QED
        BY <2>1, <2>3, <2>4 DEF ChecksInv, Blocks
<1>3. CASE UNCHANGED vars
    <2>1. UNCHANGED <<program, phase, calls, nops, funcInfo, checkVars>>
        BY <1>3 DEF vars, siteVars, machineVars, addressVars
    <2>2. UNCHANGED <<f, IDs, TypeID, Type, Flags, NumberOfChecks, site, block, next, failed>>
        BY <2>1 DEF checkVars
    <2>3. Chosen' = Chosen /\ Read' = Read /\ Classified' = Classified
        BY <2>1, <2>2 DEF Chosen, Read, Classified
    <2>4. Compared' = Compared
        BY <2>2 DEF Compared, Missed, Admitted, Outside, Checks!Sub, Checks!Mark,
                    Checks!unknownMagic
    <2>5. SitesOf(site.call)' = SitesOf(site.call)
        BY <2>1, <2>2 DEF SitesOf
    <2>6. QED
        BY <2>1, <2>2, <2>3, <2>4, <2>5 DEF ChecksInv
<1>4. QED
    BY <1>1, <1>2, <1>3, GenerateKeeps, ReturnKeeps, RunKeeps DEF Next, Done

-----------------------------------------------------------------------------
(* What stands behind the calls when the functions return.                 *)

\* The IDs leave the mark bit alone.
Fits == functionID <= MarkBit

LEMMA Marked ==
    ASSUME NEW v \in Nat, v < MarkBit
    PROVE  Mark(v) = v + MarkBit /\ Checks!Mark(v) = v + MarkBit
<1>1. v \div MarkBit = 0
    BY MarkBitAssumption
<1>2. (v \div MarkBit) % 2 # 1
    BY <1>1
<1>3. QED
    BY <1>2 DEF Mark, Checks!Mark

LEMMA SubAbove ==
    ASSUME NEW a \in Nat, NEW b \in Nat, b <= a, a - b < Word
    PROVE  Checks!Sub(a, b) = a - b
<1>1. Word \in Nat \ {0}
    BY ConstantsAssumption, MarkBitAssumption
<1>2. PICK d \in Nat : d = a - b /\ d < Word
    OBVIOUS
<1>3. a + Word - b = d + Word
    BY <1>1, <1>2
<1>4. (d + Word) % Word = d
    BY <1>1, <1>2
<1>5. QED
    BY <1>2, <1>3, <1>4 DEF Checks!Sub

LEMMA SubBelow ==
    ASSUME NEW a \in Nat, NEW b \in Nat, a < b, b - a < Word
    PROVE  Checks!Sub(a, b) = Word - (b - a)
<1>1. Word \in Nat \ {0}
    BY ConstantsAssumption, MarkBitAssumption
<1>2. PICK d \in Nat : d = Word - (b - a) /\ d < Word
    BY <1>1
<1>3. a + Word - b = d
    BY <1>1, <1>2
<1>4. d % Word = d
    BY <1>1, <1>2
<1>5. QED
    BY <1>2, <1>3, <1>4 DEF Checks!Sub

\* A call of the program, as SDReturnRange has it.
LEMMA CallKnown ==
    ASSUME ChaInv, LabelsInv, phase = "return", NEW i \in DOMAIN calls,
           NEW c, c = program.calls[i]
    PROVE  /\ i \in DOMAIN program.calls /\ calls[i] = CallOf(c)
           /\ c.kind = "virtual" => VirtualCall(program, c)
           /\ c.kind = "direct" => DirectCall(program, c)
           /\ LabelsP!Described(i) => nops[i] = <<Mark(calls[i].ranges[1][1]),
                                                  Mark(calls[i].ranges[1][2] - calls[i].ranges[1][1])>>
           /\ LabelsP!Filed(i) /\ LabelsP!Target(i) # "tail" => nops[i] = <<Mark(LabelsP!CalleeID(i))>>
<1>1. /\ calls = [k \in DOMAIN program.calls |-> CallOf(program.calls[k])]
      /\ LabelsP!MInv /\ LabelsP!Generated
    BY DEF LabelsInv
<1>2. i \in DOMAIN program.calls /\ calls[i] = CallOf(c)
    BY <1>1
<1>3. program \in Systems /\ Calls(program)
    BY SystemsAssumption DEF ChaInv
<1>4. /\ c.kind = "virtual" => VirtualCall(program, c)
      /\ c.kind = "direct" => DirectCall(program, c)
    BY <1>2, <1>3, SystemsAssumption
<1>5. LabelsP!DistinctLocations
    <2>1. \A k \in DOMAIN calls : calls[k].loc = program.calls[k].loc
        BY <1>1 DEF CallOf
    <2>2. DOMAIN calls = DOMAIN program.calls
        BY <1>1
    <2>3. QED
        BY <1>3, <2>1, <2>2 DEF Calls, LabelsP!DistinctLocations
<1>6. \A v : LabelsP!Nop!Mark(v) = Mark(v)
    BY DEF LabelsP!Nop!Mark, Mark
<1>7. /\ LabelsP!Described(i) =>
            nops[i] = <<LabelsP!Nop!Mark(calls[i].ranges[1][1]),
                        LabelsP!Nop!Mark(calls[i].ranges[1][2] - calls[i].ranges[1][1])>>
      /\ LabelsP!Filed(i) /\ LabelsP!Target(i) # "tail" =>
            nops[i] = <<LabelsP!Nop!Mark(LabelsP!CalleeID(i))>>
    BY <1>1, <1>5, LabelsAssumed, LabelsP!OwnNops
<1>8. QED
    BY <1>2, <1>4, <1>6, <1>7

\* Every function that a virtual call reaches through a slot has an ID that is not
\* below lo.
Covered(c, slot, lo) ==
    /\ \A n \in DOMAIN functionImplMap : InSlot(cha, c.class, slot, n) =>
          \E k \in DOMAIN FunctionIDs(n) : lo <= FunctionIDs(n)[k]
    /\ \A m \in DOMAIN program.functions :
          program.functions[m].name \in c.callees =>
             /\ InSlot(cha, c.class, slot, program.functions[m].name)
             /\ program.functions[m].kind = "thunk" =>
                   InSlot(cha, c.class, slot, program.functions[m].thunkOf)

\* The NOPs of a virtual call hold a range that begins at or below an ID of
\* every function that the call reaches.
LEMMA VirtualNops ==
    ASSUME ChaInv, LabelsInv, phase = "return", NEW i \in DOMAIN calls,
           NEW c, c = program.calls[i], c.kind = "virtual"
    PROVE  \E lo, hi \in 1..(currentID - 1) :
              /\ lo <= hi /\ nops[i] = <<Mark(lo), Mark(hi - lo)>> /\ calls[i].ranges[1][1] = lo
              /\ \E slot : Covered(c, slot, lo)
<1>1. /\ calls[i] = CallOf(c) /\ VirtualCall(program, c)
      /\ LabelsP!Described(i) => nops[i] = <<Mark(calls[i].ranges[1][1]),
                                             Mark(calls[i].ranges[1][2] - calls[i].ranges[1][1])>>
    BY CallKnown
<1>2. cha = program.cha /\ Info!Finished
    BY DEF ChaInv
<1>3. c.class \in cha.classes /\ c.found /\ c.method[1] = c.class
    BY <1>1, <1>2 DEF VirtualCall
<1>4. PICK e \in cha.functions[<<c.class, 0>>] :
          /\ e.functionName = c.method
          /\ \A m \in DOMAIN program.functions :
                program.functions[m].name \in c.callees =>
                   /\ InSlot(cha, c.class, e.offsetInVTable, program.functions[m].name)
                   /\ program.functions[m].kind = "thunk" =>
                         InSlot(cha, c.class, e.offsetInVTable, program.functions[m].thunkOf)
    BY <1>1, <1>2 DEF VirtualCall
<1>5. PICK k, ranges : k = c.class /\ ranges = Info!getFunctionRange(e.functionName, k)
    OBVIOUS
<1>6. /\ ranges # <<>>
      /\ ranges[1][1] \in 1..(currentID - 1) /\ ranges[1][2] \in 1..(currentID - 1)
      /\ ranges[1][1] <= ranges[1][2]
      /\ \A n \in DOMAIN functionImplMap : InSlot(cha, k, e.offsetInVTable, n) =>
            \E l \in DOMAIN FunctionIDs(n) : ranges[1][1] <= FunctionIDs(n)[l]
    <2>1. k \in cha.classes /\ e \in cha.functions[<<k, 0>>] /\ e.functionName[1] = k
        BY <1>3, <1>4, <1>5
    <2>2. QED
        BY <1>2, <1>5, <2>1, CallReaches
<1>7. calls[i].ranges = ranges /\ calls[i].kind = "virtual" /\ calls[i].found
    BY <1>1, <1>3, <1>4, <1>5 DEF CallOf
<1>8. nops[i] = <<Mark(ranges[1][1]), Mark(ranges[1][2] - ranges[1][1])>>
    BY <1>1, <1>6, <1>7 DEF LabelsP!Described
<1>9. PICK lo, hi : lo = ranges[1][1] /\ hi = ranges[1][2]
    OBVIOUS
<1>10. PICK slot : slot = e.offsetInVTable
    OBVIOUS
<1>11. /\ lo \in 1..(currentID - 1) /\ hi \in 1..(currentID - 1)
       /\ lo <= hi /\ nops[i] = <<Mark(lo), Mark(hi - lo)>> /\ calls[i].ranges[1][1] = lo
    BY <1>6, <1>7, <1>8, <1>9
<1>12. Covered(c, slot, lo)
    BY <1>4, <1>5, <1>6, <1>9, <1>10 DEF Covered
<1>13. QED
    BY <1>11, <1>12

\* The NOP of a direct call holds the ID of its callee.
LEMMA DirectNops ==
    ASSUME ChaInv, LabelsInv, phase = "return", NEW i \in DOMAIN calls,
           NEW c, c = program.calls[i], c.kind = "direct", ~c.blacklisted,
           c.callee \in DOMAIN FunctionIDMap, FunctionIDMap[c.callee] # 0
    PROVE  nops[i] = <<Mark(FunctionIDMap[c.callee])>>
<1>1. /\ calls[i] = CallOf(c)
      /\ LabelsP!Filed(i) /\ LabelsP!Target(i) # "tail" => nops[i] = <<Mark(LabelsP!CalleeID(i))>>
    BY CallKnown
<1>2. /\ calls[i].kind = "direct" /\ calls[i].blacklisted = c.blacklisted
      /\ calls[i].calleeID = FunctionIDMap[c.callee]
    BY <1>1 DEF CallOf
<1>3. /\ LabelsP!Filed(i) /\ LabelsP!Target(i) = "direct"
      /\ LabelsP!CalleeID(i) = FunctionIDMap[c.callee]
    BY <1>2 DEF LabelsP!Filed, LabelsP!Target, LabelsP!CalleeID
<1>4. QED
    BY <1>1, <1>3

\* The words that are read behind a call.
LEMMA WordsRead ==
    ASSUME NEW i, NEW s \in SitesOf(i)
    PROVE  /\ \A v : nops[i] = <<v>> => s.first = v /\ s.second \in CodeWords
           /\ \A v, w : nops[i] = <<v, w>> => s.first = v /\ s.second = w
<1>1. PICK word \in CodeWords, word2 \in CodeWords :
          /\ s.first = IF Len(nops[i]) >= 1 THEN nops[i][1] ELSE word
          /\ s.second = IF Len(nops[i]) = 2 THEN nops[i][2] ELSE word2
    BY DEF SitesOf
<1>2. ASSUME NEW v, nops[i] = <<v>> PROVE s.first = v /\ s.second \in CodeWords
    <2>1. Len(nops[i]) = 1 /\ nops[i][1] = v
        BY <1>2
    <2>2. QED
        BY <1>1, <2>1
<1>3. ASSUME NEW v, NEW w, nops[i] = <<v, w>> PROVE s.first = v /\ s.second = w
    <2>1. Len(nops[i]) = 2 /\ nops[i][1] = v /\ nops[i][2] = w
        BY <1>3
    <2>2. QED
        BY <1>1, <2>1
<1>4. QED
    BY <1>2, <1>3

-----------------------------------------------------------------------------
(* The protection, from end to end.                                        *)

Inv == ChaInv /\ AddressInv /\ LabelsInv /\ ChecksInv

\* In every program that SystemsAssumption describes, the four parts of the invariant
\* hold from the class metadata to the return: what each pass has computed, and what
\* it has handed to the next.
THEOREM Invariant == Spec => []Inv
<1>1. Init => Inv
    BY InitCha, InitAddress, InitLabels, InitChecks DEF Inv
<1>2. Inv /\ [Next]_vars => Inv'
    BY NextCha, NextAddress, NextLabels, NextChecks DEF Inv
<1>3. QED
    BY <1>1, <1>2, PTL DEF Spec

\* What is known of the function and its call while it returns.
LEMMA Returning ==
    ASSUME Inv, Running
    PROVE  /\ Chosen /\ Read /\ Compared /\ site.call \in DOMAIN calls
           /\ site \in SitesOf(site.call)
           /\ f.ids \in Seq(Nat) /\ f.typeID \in 0..StartTypeID
           /\ f.list \in {"virtual", "static", "blacklist"}
           /\ f.list = "static" => \E id \in Nat : id > currentID /\ f.ids = <<id>>
           /\ \E m \in DOMAIN program.functions :
                 /\ f.name = program.functions[m].name
                 /\ AddressP!Outcome(program.functions[m])
                 /\ f.list = "virtual" => f.ids = AddressP!Callable(program.functions[m])
           /\ module = Asked
           /\ \A k \in DOMAIN f.ids : f.ids[k] < functionID
           /\ functionID \in Nat /\ currentID \in Nat /\ currentID < functionID
<1>1. phase = "return" /\ ChaInv /\ AddressInv /\ ChecksInv
    BY DEF Running, Inv
<1>2. block \notin {"load", "process", "body"}
    BY <1>1 DEF ChecksInv, Running
<1>3. /\ Chosen /\ Read /\ Compared /\ site.call \in DOMAIN calls
      /\ site \in SitesOf(site.call)
    BY <1>1, <1>2 DEF ChecksInv
<1>4. /\ f.ids \in Seq(Nat) /\ f.typeID \in 0..StartTypeID
      /\ f.list \in {"virtual", "static", "blacklist"}
      /\ f.list = "static" => \E id \in Nat : id > currentID /\ f.ids = <<id>>
    BY <1>1, <1>3, ChosenKnown
<1>5. PICK m \in DOMAIN program.functions : f.name = program.functions[m].name
    BY <1>3 DEF Chosen
<1>6. PICK fn : fn = program.functions[m]
    OBVIOUS
<1>7. /\ AddressP!Outcome(fn)
      /\ funcInfo[fn.name].list = "virtual" => funcInfo[fn.name].ids = AddressP!Callable(fn)
      /\ module = Asked
    BY <1>1, <1>6, FunctionKnown
<1>8. f.list = funcInfo[fn.name].list /\ f.ids = funcInfo[fn.name].ids /\ f.name = fn.name
    BY <1>3, <1>5, <1>6 DEF Chosen
<1>9. /\ functionID \in Nat /\ currentID \in Nat /\ currentID < functionID
      /\ AddressP!Ids(fn.name) \subseteq 0..(functionID - 1)
    <2>1. AddressP!IInv /\ module = Asked
        BY <1>1 DEF AddressInv
    <2>2. /\ functionID \in Nat /\ module.maxID \in Nat /\ module.maxID < functionID
          /\ fn.name \in DOMAIN funcInfo
        BY <1>7, <2>1 DEF AddressP!IInv, AddressP!Numbered, AddressP!Outcome
    <2>3. AddressP!Ids(fn.name) \subseteq IF funcInfo[fn.name].list = "static"
                                          THEN (module.maxID + 1)..(functionID - 1)
                                          ELSE 0..(module.maxID - 1)
        BY <2>1, <2>2 DEF AddressP!IInv, AddressP!Numbered
    <2>4. QED
        BY <2>1, <2>2, <2>3 DEF Asked
<1>10. \A k \in DOMAIN f.ids : f.ids[k] < functionID
    <2> SUFFICES ASSUME NEW k \in DOMAIN f.ids PROVE f.ids[k] < functionID
        OBVIOUS
    <2>1. f.ids[k] \in AddressP!Ids(fn.name)
        BY <1>8 DEF AddressP!Ids
    <2>2. QED
        BY <1>9, <2>1
<1>11. QED
    BY <1>3, <1>4, <1>5, <1>6, <1>7, <1>8, <1>9, <1>10

\* The IDs of a virtual function are those of a name in the metadata, its own or
\* that of the function it is a thunk of.
LEMMA VirtualIDsKnown ==
    ASSUME Inv, Running, f.list = "virtual", f.ids # <<>>,
           NEW m \in DOMAIN program.functions, f.name = program.functions[m].name,
           f.ids = AddressP!Callable(program.functions[m])
    PROVE  \E n \in DOMAIN functionImplMap :
              /\ \/ n = program.functions[m].name
                 \/ program.functions[m].kind = "thunk" /\ n = program.functions[m].thunkOf
              /\ f.ids = FunctionIDs(n) /\ FunctionIDs(n) \in Seq(1..(currentID - 1))
              /\ \A k \in DOMAIN f.ids : f.ids[k] \in 1..(currentID - 1)
<1>1. module = Asked /\ ChaInv
    BY Returning DEF Inv
<1>2. \A n : AddressP!VirtualIDs(module, n) =
                 IF n \in DOMAIN functionImplMap THEN FunctionIDs(n) ELSE <<>>
    BY <1>1 DEF AddressP!VirtualIDs, Asked
<1>3. PICK n : /\ \/ n = program.functions[m].name
                  \/ program.functions[m].kind = "thunk" /\ n = program.functions[m].thunkOf
               /\ f.ids = AddressP!VirtualIDs(module, n)
    BY DEF AddressP!Callable
<1>4. n \in DOMAIN functionImplMap /\ f.ids = FunctionIDs(n)
    BY <1>2, <1>3
<1>5. PICK J, g : J = 1..(currentID - 1) /\ g = FunctionIDs(n)
    OBVIOUS
<1>6. g \in Seq(J)
    BY <1>1, <1>4, <1>5, IDsListed
<1>7. \A k \in DOMAIN g : g[k] \in J
    BY <1>6, SeqListed
<1>8. QED
    BY <1>3, <1>4, <1>5, <1>6, <1>7

\* The IDs, the range and the words of a virtual call are numbers that the check
\* compares as the code means it to.
LEMMA InRangePasses ==
    ASSUME NEW lo \in Nat, NEW hi \in Nat, NEW id \in Nat,
           lo <= id, lo <= hi, id < MarkBit, hi < MarkBit
    PROVE  Checks!Sub(Checks!Mark(id), Mark(lo)) <= Mark(hi - lo)
<1>1. lo < MarkBit /\ hi - lo \in Nat /\ hi - lo < MarkBit
    BY MarkBitAssumption
<1>2. Checks!Mark(id) = id + MarkBit /\ Mark(lo) = lo + MarkBit /\ Mark(hi - lo) = hi - lo + MarkBit
    BY <1>1, Marked
<1>3. PICK a, b : a = id + MarkBit /\ b = lo + MarkBit
    OBVIOUS
<1>4. a \in Nat /\ b \in Nat /\ b <= a /\ a - b < Word /\ a - b = id - lo
    BY <1>3, MarkBitAssumption, ConstantsAssumption
<1>5. Checks!Sub(a, b) = id - lo
    BY <1>4, SubAbove
<1>6. id - lo <= hi - lo + MarkBit
    BY MarkBitAssumption
<1>7. QED
    BY <1>2, <1>3, <1>5, <1>6

LEMMA BelowFails ==
    ASSUME NEW lo \in Nat, NEW hi \in Nat, NEW id \in Nat,
           id < lo, lo <= hi, hi < MarkBit
    PROVE  ~(Checks!Sub(Checks!Mark(id), Mark(lo)) <= Mark(hi - lo))
<1>1. id < MarkBit /\ lo < MarkBit /\ hi - lo \in Nat /\ hi - lo < MarkBit
    BY MarkBitAssumption
<1>2. Checks!Mark(id) = id + MarkBit /\ Mark(lo) = lo + MarkBit /\ Mark(hi - lo) = hi - lo + MarkBit
    BY <1>1, Marked
<1>3. PICK a, b : a = id + MarkBit /\ b = lo + MarkBit
    OBVIOUS
<1>4. a \in Nat /\ b \in Nat /\ a < b /\ b - a < Word /\ b - a = lo - id
    BY <1>1, <1>3, MarkBitAssumption, ConstantsAssumption
<1>5. Checks!Sub(a, b) = Word - (lo - id)
    BY <1>4, SubBelow
<1>6. hi - lo + MarkBit < Word - (lo - id)
    BY MarkBitAssumption, ConstantsAssumption
<1>7. QED
    BY <1>2, <1>3, <1>5, <1>6, <1>1, MarkBitAssumption, ConstantsAssumption

LEMMA VirtualPass == Inv /\ Fits => VirtualReturnsPass
<1> SUFFICES ASSUME Inv, Fits, Running, Call.kind = "virtual", Legal, failed PROVE FALSE
    BY DEF VirtualReturnsPass
<1>1. /\ ChaInv /\ LabelsInv /\ phase = "return" /\ cha = program.cha
    BY DEF Inv, Running, ChaInv
<1>2. /\ Read /\ Compared /\ site.call \in DOMAIN calls /\ site \in SitesOf(site.call)
      /\ f.list \in {"virtual", "static", "blacklist"}
      /\ functionID \in Nat /\ currentID \in Nat /\ currentID < functionID
      /\ \A k \in DOMAIN f.ids : f.ids[k] < functionID
    BY Returning
<1>3. PICK m \in DOMAIN program.functions :
          /\ f.name = program.functions[m].name
          /\ f.list = "virtual" => f.ids = AddressP!Callable(program.functions[m])
    BY Returning
<1>4. Missed /\ IDs # <<>>
    BY <1>2 DEF Compared, Missed
<1> PICK i \in DOMAIN calls : i = site.call
    BY <1>2
<1>5. PICK c : i = site.call /\ c = program.calls[i]
    OBVIOUS
<1>6. c.kind = "virtual" /\ f.name \in c.callees
    BY <1>5 DEF Call, Legal
<1> PICK lo \in 1..(currentID - 1), hi \in 1..(currentID - 1) :
        lo <= hi /\ nops[i] = <<Mark(lo), Mark(hi - lo)>> /\ \E slot : Covered(c, slot, lo)
    BY <1>1, <1>5, <1>6, VirtualNops
<1>7. PICK slot : lo <= hi /\ nops[i] = <<Mark(lo), Mark(hi - lo)>> /\ Covered(c, slot, lo)
    OBVIOUS
<1>8. site.first = Mark(lo) /\ site.second = Mark(hi - lo)
    BY <1>2, <1>5, <1>7, WordsRead
<1>9. lo \in Nat /\ hi \in Nat /\ lo < MarkBit /\ hi < MarkBit
    BY <1>2, <1>7, MarkBitAssumption DEF Fits
<1>10. CASE f.list = "virtual"
    <2>1. IDs = f.ids /\ f.ids # <<>> /\ f.ids = AddressP!Callable(program.functions[m])
        BY <1>2, <1>3, <1>4, <1>10 DEF Read
    <2>2. PICK n \in DOMAIN functionImplMap :
              /\ \/ n = program.functions[m].name
                 \/ program.functions[m].kind = "thunk" /\ n = program.functions[m].thunkOf
              /\ f.ids = FunctionIDs(n)
              /\ \A k \in DOMAIN f.ids : f.ids[k] \in 1..(currentID - 1)
        BY <1>3, <1>10, <2>1, VirtualIDsKnown
    <2>3. InSlot(cha, c.class, slot, n)
        BY <1>3, <1>6, <1>7, <2>2 DEF Covered
    <2>4. PICK k \in DOMAIN f.ids : lo <= f.ids[k]
        BY <1>7, <2>2, <2>3 DEF Covered
    <2>5. f.ids[k] \in Nat /\ f.ids[k] < MarkBit
        BY <1>2, <2>2, MarkBitAssumption DEF Fits
    <2>6. Checks!Sub(Checks!Mark(f.ids[k]), Mark(lo)) <= Mark(hi - lo)
        BY <1>7, <1>9, <2>4, <2>5, InRangePasses
    <2>7. ~Outside(k)
        BY <1>8, <2>1, <2>6 DEF Outside
    <2>8. QED
        BY <1>4, <1>10, <2>1, <2>4, <2>7 DEF Missed
<1>11. CASE f.list = "static"
    <2>1. PICK id \in Nat : id > currentID /\ f.ids = <<id>>
        BY <1>11, Returning
    <2>2. IDs = <<id>>
        BY <1>2, <1>4, <1>11, <2>1 DEF Read
    <2>3. id < MarkBit
        <3>1. f.ids[1] = id /\ 1 \in DOMAIN f.ids
            BY <2>1
        <3>2. id < functionID
            BY <1>2, <3>1
        <3>3. QED
            BY <1>2, <2>1, <3>2, MarkBitAssumption DEF Fits
    <2>4. Checks!Mark(id) = site.first
        BY <1>4, <1>11, <2>2 DEF Missed
    <2>5. Checks!Mark(id) = id + MarkBit /\ Mark(lo) = lo + MarkBit
        BY <1>9, <2>3, Marked
    <2>6. id + MarkBit = lo + MarkBit
        BY <1>8, <2>4, <2>5
    <2>7. QED
        BY <1>2, <1>9, <2>1, <2>6, MarkBitAssumption
<1>12. QED
    BY <1>2, <1>4, <1>10, <1>11 DEF Read

\* A virtual function returns to every virtual call that may have called it, as itself,
\* through a thunk or in a destructor slot, with any number of classes, functions and calls,
\* as long as the IDs leave the mark bit of the NOPs alone.
THEOREM VirtualCallsReturn == Spec => [](Fits => VirtualReturnsPass)
<1>1. Inv => (Fits => VirtualReturnsPass)
    BY VirtualPass
<1>2. QED
    BY <1>1, Invariant, PTL

LEMMA DirectPass == Inv => DirectReturnsPass
<1> SUFFICES ASSUME Inv, Running, Call.kind = "direct", f.list = "virtual", Legal, failed
             PROVE  FALSE
    BY DEF DirectReturnsPass
<1>1. ChaInv /\ LabelsInv /\ phase = "return" /\ program \in Systems
    BY DEF Inv, Running, ChaInv
<1>2. /\ Read /\ Compared /\ site.call \in DOMAIN calls /\ site \in SitesOf(site.call)
      /\ functionID \in Nat /\ currentID \in Nat /\ f.ids \in Seq(Nat)
    BY Returning
<1>3. PICK m \in DOMAIN program.functions :
          /\ f.name = program.functions[m].name
          /\ AddressP!Outcome(program.functions[m])
          /\ f.ids = AddressP!Callable(program.functions[m])
    BY Returning, Zenon
<1>4. PICK fn : fn = program.functions[m]
    OBVIOUS
<1>5. Missed /\ IDs = f.ids /\ f.ids # <<>>
    BY <1>2 DEF Compared, Missed, Read
<1> PICK i \in DOMAIN calls : i = site.call
    BY <1>2
<1>6. PICK c : i = site.call /\ c = program.calls[i]
    OBVIOUS
<1>7. c.kind = "direct" /\ f.name \in c.callees
    BY <1>6 DEF Call, Legal
<1>8. DirectCall(program, c)
    BY <1>1, <1>6, <1>7, CallKnown
<1>9. fn.name = c.callee
    BY <1>3, <1>4, <1>7, <1>8 DEF DirectCall
<1>10. funcInfo[fn.name].list = "virtual" /\ funcInfo[fn.name].ids = f.ids
    BY <1>3, <1>4, Returning DEF Chosen
<1>11. /\ fn.kind # "blacklisted" /\ fn.name \in DOMAIN FunctionIDMap
       /\ FunctionIDMap[fn.name] = f.ids[1]
    BY <1>3, <1>4, <1>5, <1>10 DEF AddressP!Outcome
<1>12. ~c.blacklisted
    BY <1>4, <1>8, <1>9, <1>11 DEF DirectCall
<1>13. 1 \in DOMAIN f.ids /\ f.ids[1] \in Nat /\ f.ids[1] # 0
    <2>1. 1 \in DOMAIN f.ids
        BY <1>2, <1>5
    <2>2. \A k \in DOMAIN f.ids : f.ids[k] \in 1..(currentID - 1)
        BY <1>3, <1>5, VirtualIDsKnown
    <2>3. QED
        BY <1>2, <2>1, <2>2
<1>14. nops[i] = <<Mark(f.ids[1])>>
    <2>1. /\ c.callee \in DOMAIN FunctionIDMap /\ FunctionIDMap[c.callee] = f.ids[1]
          /\ FunctionIDMap[c.callee] # 0
        BY <1>9, <1>11, <1>13
    <2>2. nops[i] = <<Mark(FunctionIDMap[c.callee])>>
        BY <1>1, <1>6, <1>7, <1>12, <2>1, DirectNops
    <2>3. QED
        BY <2>1, <2>2
<1>15. site.first = Mark(f.ids[1]) /\ site.second \in Nat
    <2>1. PICK v : v = Mark(f.ids[1])
        OBVIOUS
    <2>2. site \in SitesOf(i) /\ nops[i] = <<v>>
        BY <1>2, <1>6, <1>14, <2>1
    <2>3. site.first = v /\ site.second \in CodeWords
        BY <2>2, WordsRead
    <2>4. QED
        BY <2>1, <2>3, ConstantsAssumption
<1>16. PICK a : a = Mark(f.ids[1]) /\ a \in Nat
    <2>1. \A v \in Nat : Mark(v) \in Nat
        BY MarkBitAssumption DEF Mark
    <2>2. QED
        BY <1>13, <2>1
<1>17. Checks!Mark(f.ids[1]) = a
    BY <1>16 DEF Mark, Checks!Mark
<1>18. Checks!Sub(a, a) = 0
    <2>1. a <= a /\ a - a < Word /\ a - a = 0
        BY <1>16, ConstantsAssumption, MarkBitAssumption
    <2>2. QED
        BY <1>16, <2>1, SubAbove
<1>19. ~Outside(1)
    BY <1>5, <1>15, <1>16, <1>17, <1>18 DEF Outside
<1>20. QED
    BY <1>5, <1>13, <1>19 DEF Missed

\* A virtual function always returns to a direct call of it, whatever the words
\* behind the call are taken for and whether the IDs fit or not.
THEOREM DirectCallsReturn == Spec => []DirectReturnsPass
<1>1. Inv => DirectReturnsPass
    BY DirectPass
<1>2. QED
    BY <1>1, Invariant, PTL

LEMMA EarlierFail == Inv /\ Fits => EarlierIDsFail
<1> SUFFICES ASSUME Inv, Fits, Running, Checks!Returned,
                    Call.kind = "virtual", f.list = "virtual", f.ids # <<>>,
                    \A k \in DOMAIN f.ids : f.ids[k] < calls[site.call].ranges[1][1],
                    ~f.addressTaken \/ ~site.far, ~failed
             PROVE  FALSE
    BY DEF EarlierIDsFail
<1>1. /\ ChaInv /\ LabelsInv /\ phase = "return"
    BY DEF Inv, Running
<1>2. /\ Read /\ Compared /\ site.call \in DOMAIN calls /\ site \in SitesOf(site.call)
      /\ functionID \in Nat /\ currentID \in Nat /\ currentID < functionID
      /\ f.ids \in Seq(Nat) /\ f.typeID \in 0..StartTypeID
    BY Returning
<1> PICK i \in DOMAIN calls : i = site.call
    BY <1>2
<1>3. PICK c : i = site.call /\ c = program.calls[i]
    OBVIOUS
<1>4. c.kind = "virtual"
    BY <1>3 DEF Call
<1>5. PICK lo \in 1..(currentID - 1), hi \in 1..(currentID - 1) :
          lo <= hi /\ nops[i] = <<Mark(lo), Mark(hi - lo)>> /\ calls[i].ranges[1][1] = lo
    BY <1>1, <1>3, <1>4, VirtualNops
<1>6. site.first = Mark(lo) /\ site.second = Mark(hi - lo)
    BY <1>2, <1>3, <1>5, WordsRead
<1>7. lo \in Nat /\ hi \in Nat /\ lo < MarkBit /\ hi < MarkBit
    BY <1>2, <1>5, MarkBitAssumption DEF Fits
<1>8. IDs = f.ids
    BY <1>2 DEF Read
<1>9. Missed
    <2> SUFFICES ASSUME NEW k \in DOMAIN IDs PROVE Outside(k)
        BY <1>8 DEF Missed
    <2>1. IDs[k] \in Nat /\ IDs[k] < lo
        BY <1>2, <1>3, <1>5, <1>8
    <2>2. QED
        BY <1>5, <1>6, <1>7, <2>1, BelowFails DEF Outside
<1>10. Admitted
    BY <1>2, <1>8, <1>9 DEF Compared, Checks!Returned
<1>11. site.first = TypeID \/ site.first = Checks!unknownMagic
    BY <1>10 DEF Admitted
<1>12. site.first >= MarkBit /\ site.first \in Nat
    BY <1>6, <1>7, Marked, MarkBitAssumption
<1>13. TypeID < MarkBit /\ Checks!unknownMagic < MarkBit
    <2>1. TypeID = -1 \/ (TypeID = f.typeID /\ TypeID \in 0..StartTypeID)
        BY <1>2 DEF Read
    <2>2. QED
        BY <2>1, MarkBitAssumption, ConstantsAssumption DEF Checks!unknownMagic
<1>14. QED
    BY <1>11, <1>12, <1>13, MarkBitAssumption

\* The check is worth its while: under Fits, a function whose IDs come before those
\* of a virtual call is caught there.
THEOREM EarlierAreCaught == Spec => [](Fits => EarlierIDsFail)
<1>1. Inv => (Fits => EarlierIDsFail)
    BY EarlierFail
<1>2. QED
    BY <1>1, Invariant, PTL

LEMMA Meet == Inv => TypesMeet
<1> SUFFICES ASSUME Inv, phase = "return", NEW i \in DOMAIN calls,
                    NEW k \in DOMAIN program.functions, NEW fn, fn = program.functions[k],
                    calls[i].kind = "indirect", ~calls[i].tail,
                    fn.addressTaken, fn.type = calls[i].type, funcInfo[fn.name].ids # <<>>
             PROVE  nops[i] = <<Mark(funcInfo[fn.name].typeID)>>
    BY DEF TypesMeet
<1>1. ChaInv /\ AddressInv /\ LabelsInv
    BY DEF Inv
<1>2. AddressP!Outcome(fn)
    BY <1>1, FunctionKnown
<1>3. funcInfo[fn.name].typeID = EncodingToTypeID[AddressP!Precise(fn.type)]
    BY <1>2 DEF AddressP!Outcome
<1>4. PICK c : c = program.calls[i]
    OBVIOUS
<1>5. LabelsP!Filed(i) /\ LabelsP!Target(i) # "tail" => nops[i] = <<Mark(LabelsP!CalleeID(i))>>
    BY <1>1, <1>4, CallKnown
<1>6. LabelsP!Filed(i) /\ LabelsP!Target(i) = "indirect"
    BY DEF LabelsP!Filed, LabelsP!Target, LabelsP!Described
<1>7. LabelsP!CalleeID(i) = EncodingToTypeID[LabelsP!Precise(calls[i].type)]
    BY DEF LabelsP!CalleeID
<1>8. LabelsP!Precise(calls[i].type) = AddressP!Precise(fn.type)
    BY SamePrecise
<1>9. QED
    BY <1>3, <1>5, <1>6, <1>7, <1>8

\* An indirect call and the functions of its type have one number, whichever of the
\* two passes asked the encoder first.
THEOREM TypesAgree == Spec => []TypesMeet
<1>1. Inv => TypesMeet
    BY Meet
<1>2. QED
    BY <1>1, Invariant, PTL

\* What a part hands to the next has the shape that the next one expects.
THEOREM TypeCorrect == Spec => []TypeOK
<1>1. Inv => TypeOK
    <2> SUFFICES ASSUME Inv PROVE TypeOK
        OBVIOUS
    <2>1. phase \in {"cha", "address", "range", "return"}
        BY DEF Inv, ChaInv
    <2>2. Address!WellFormed(module)
        <3>1. CASE phase = "cha"
            <4>1. module = NoModule
                BY <3>1 DEF Inv, AddressInv
            <4>2. /\ module.functions = <<>> /\ module.maxID = 0
                  /\ DOMAIN module.functions = {} /\ DOMAIN module.virtualIDs = {}
                BY <4>1 DEF NoModule, NoMap
            <4>3. <<>> \in Seq({module.functions[i] : i \in DOMAIN module.functions})
                OBVIOUS
            <4>4. QED
                BY <4>2, <4>3 DEF Address!WellFormed
        <3>2. CASE phase # "cha"
            BY <3>2 DEF Inv, AddressInv, AddressP!TInv, AddressP!TypeOK, AddressP!WellFormed,
                        Address!WellFormed, AddressP!Kinds, Address!Kinds,
                        Address!IsFunctionType, AddressP!IsFunctionType,
                        Address!IsType, AddressP!IsType
        <3>3. QED
            BY <3>1, <3>2
    <2>3. phase = "range" => DOMAIN calls = DOMAIN program.calls
        BY DEF Inv, LabelsInv
    <2>4. Checks!TypeOK
        <3>1. CASE phase # "return"
            BY <3>1 DEF Inv, ChecksInv, Checks!TypeOK, NoFunction
        <3>2. CASE phase = "return"
            <4>1. ChecksInv /\ ChaInv /\ AddressInv /\ Chosen
                BY <3>2 DEF Inv, ChecksInv
            <4>2. f.typeID \in Nat
                BY <3>2, <4>1, ChosenKnown, ConstantsAssumption
            <4>3. f.returns = 1
                BY <4>1 DEF Chosen
            <4>4. TypeID \in Nat \cup {-1}
                BY <3>2, <4>1, <4>2 DEF ChecksInv, Read
            <4>5. CASE block \in {"load", "process"}
                BY <3>2, <4>1, <4>3, <4>4, <4>5 DEF ChecksInv, Checks!TypeOK, Blocks
            <4>6. CASE block \notin {"load", "process"}
                <5>1. Classified /\ block \in Blocks /\ (block # "body" => Compared)
                    BY <3>2, <4>1, <4>6 DEF ChecksInv
                <5>2. Type \in {"None", "Static", "Virtual", "BlackListed"}
                    BY <5>1 DEF Classified
                <5>3. NumberOfChecks \in 0..f.returns /\ Flags \subseteq {"NoReturn", "External"}
                    BY <4>3, <5>1 DEF Classified
                <5>4. /\ block = "range" => next \in DOMAIN IDs
                      /\ block \in {"compare", "external"} => IDs # <<>>
                    BY <5>1 DEF Compared, Missed
                <5>5. QED
                    BY <4>4, <5>1, <5>2, <5>3, <5>4 DEF Checks!TypeOK, Blocks
            <4>7. QED
                BY <4>5, <4>6
        <3>3. QED
            BY <3>1, <3>2
    <2>5. QED
        BY <2>1, <2>2, <2>3, <2>4 DEF TypeOK
<1>2. QED
    BY <1>1, Invariant, PTL
=============================================================================
