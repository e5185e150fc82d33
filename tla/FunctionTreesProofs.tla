------------------------ MODULE FunctionTreesProofs ------------------------
(***************************************************************************)
(* What the numbering of FunctionInfo guarantees for every class graph,    *)
(* tree or not: IDs are unique, and the ranges that the recursion returns  *)
(* are always adjacent. Then the ranges of FunctionTrees: what a virtual   *)
(* call may run is in the range that is computed for it or, where vtables  *)
(* have two parents, behind its begin; in a forest ranges are subtrees.    *)
(***************************************************************************)
EXTENDS FunctionTrees, SequenceLemmas, TLAPS

-----------------------------------------------------------------------------
(* Unique IDs and adjacent ranges.                                         *)

Frame == [entry : DOMAIN functionIDMap, first : Ids, last : Ids, todo : SUBSET cha.vtables]

LEMMA InitType == Init => TypeOK
<1> SUFFICES ASSUME Init PROVE TypeOK
    OBVIOUS
<1>1. PICK p \in Programs : cha = p.cha /\ order = p.order
    BY DEF Init
<1>2. WellFormed(cha) /\ order \in Seq(cha.classes)
    BY <1>1, ProgramsAssumption
<1>3. /\ NoMap \in [{} -> Ids]
      /\ NoMap \in [{} -> Ids \X Ids]
      /\ DOMAIN NoMap = {}
    BY DEF NoMap
<1>4. QED
    BY <1>1, <1>2, <1>3 DEF Init, NumberingInit, TypeOK

\* An entry's vtable is a node of the graph, and the graph is closed.
LEMMA EntryClosed ==
    ASSUME TypeOK
    PROVE  /\ \A f \in Entries : f.vTable \in cha.vtables
           /\ \A v \in cha.vtables : cha.children[v] \in SUBSET cha.vtables
           /\ \A v \in cha.vtables : cha.functions[v] \subseteq Entries
           /\ \A c \in cha.classes : <<c, 0>> \in cha.vtables
BY DEF TypeOK, WellFormed, Entries

\* A call of buildFunctionInfoForFunction on top of well-typed frames.
LEMMA EnterType ==
    ASSUME TypeOK, NEW f \in Entries, NEW frames \in Seq(Frame), Enter(f, frames),
           UNCHANGED <<cha, order, slots, functionRangeMap>>,
           functionImpls' \in Seq(Entries)
    PROVE  TypeOK'
<1>1. /\ cha.children[f.vTable] \in SUBSET cha.vtables
      /\ Entries' = Entries
    BY EntryClosed DEF Entries
<1>2. /\ currentID' = currentID + 1
      /\ currentID \in Nat \ {0}
      /\ Ids \subseteq Ids'
      /\ currentID \in Ids'
    BY DEF Enter, TypeOK, Ids
<1>3. /\ functionIDMap' \in [DOMAIN functionIDMap' -> Ids']
      /\ DOMAIN functionIDMap' = DOMAIN functionIDMap \cup {f}
    <2>1. functionIDMap \in [DOMAIN functionIDMap -> Ids']
        BY <1>2 DEF TypeOK
    <2>2. functionIDMap' = Put(functionIDMap, f, currentID)
        BY DEF Enter
    <2>3. QED
        BY <1>2, <2>1, <2>2 DEF Put
<1>4. functionRangeMap' \in [DOMAIN functionRangeMap' -> Ids' \X Ids']
    <2>1. functionRangeMap \in [DOMAIN functionRangeMap -> Ids \X Ids]
        BY DEF TypeOK
    <2>2. QED
        BY <1>2, <2>1
<1>5. stack' \in Seq(Frame')
    <2>1. Frame \subseteq Frame'
        BY <1>2, <1>3 DEF Frame
    <2>2. Call(f, currentID, currentID, cha.children[f.vTable]) \in Frame'
        BY <1>1, <1>2, <1>3 DEF Call, Frame
    <2>3. frames \in Seq(Frame')
        BY <2>1
    <2>4. QED
        BY <2>2, <2>3 DEF Enter
<1>6. DOMAIN functionIDMap' \subseteq Entries' /\ DOMAIN functionRangeMap' \subseteq DOMAIN functionIDMap'
    BY <1>1, <1>3 DEF TypeOK
<1>7. QED
    BY <1>1, <1>2, <1>3, <1>4, <1>5, <1>6 DEF TypeOK, Frame

LEMMA StackType == TypeOK => stack \in Seq(Frame)
BY DEF TypeOK, Frame

\* The calls of the caller's caller and below, with a new record for the caller.
LEMMA RestType ==
    ASSUME TypeOK, stack # <<>>, NEW fr \in Frame
    PROVE  /\ Top \in Frame
           /\ Append(SubSeq(stack, 1, Len(stack) - 1), fr) \in Seq(Frame)
           /\ Len(stack) # 1 => /\ Caller \in Frame
                               /\ Append(SubSeq(stack, 1, Len(stack) - 2), fr) \in Seq(Frame)
<1>1. stack \in Seq(Frame) /\ Len(stack) \in Nat \ {0}
    BY StackType
<1>2. Top \in Frame
    BY <1>1 DEF Top
<1>3. SubSeq(stack, 1, Len(stack) - 1) \in Seq(Frame)
    BY <1>1
<1>4. Len(stack) # 1 => Caller \in Frame /\ SubSeq(stack, 1, Len(stack) - 2) \in Seq(Frame)
    <2> SUFFICES ASSUME Len(stack) # 1
                 PROVE  Caller \in Frame /\ SubSeq(stack, 1, Len(stack) - 2) \in Seq(Frame)
        OBVIOUS
    <2>1. Len(stack) - 1 \in 1..Len(stack) /\ Len(stack) - 2 \in 0..Len(stack)
        BY <1>1
    <2>2. \A i \in 1..(Len(stack) - 2) : stack[i] \in Frame
        BY <1>1, <2>1
    <2>3. QED
        BY <1>1, <2>1, <2>2 DEF Caller
<1>5. QED
    BY <1>2, <1>3, <1>4

LEMMA NextType == TypeOK /\ [Next]_vars => TypeOK'
<1> SUFFICES ASSUME TypeOK, [Next]_vars PROVE TypeOK'
    OBVIOUS
<1>1. CASE NextClass
    <2>1. Head(order) \in cha.classes /\ Tail(order) \in Seq(cha.classes)
        BY <1>1 DEF NextClass, TypeOK
    <2>2. slots' \subseteq Entries
        BY <1>1, <2>1, EntryClosed DEF NextClass
    <2>3. QED
        BY <1>1, <2>1, <2>2 DEF NextClass, numberVars, TypeOK, Entries, Ids
<1>2. CASE NewImpl
    <2>1. PICK f \in slots : functionImpls' = Append(functionImpls, f) /\ slots' = slots \ {f}
        BY <1>2 DEF NewImpl
    <2>2. functionImpls' \in Seq(Entries)
        BY <2>1 DEF TypeOK
    <2>3. QED
        BY <1>2, <2>1, <2>2 DEF NewImpl, numberVars, TypeOK, Entries, Ids
<1>3. CASE KnownImpl
    <2>1. slots' \subseteq Entries
        BY <1>3 DEF KnownImpl, TypeOK
    <2>2. QED
        BY <1>3, <2>1 DEF KnownImpl, numberVars, TypeOK, Entries, Ids
<1>4. CASE NumberBase
    <2>1. Head(functionImpls) \in Entries /\ Tail(functionImpls) \in Seq(Entries)
        BY <1>4 DEF NumberBase, TypeOK
    <2>2. <<>> \in Seq(Frame)
        OBVIOUS
    <2>3. QED
        BY <1>4, <2>1, <2>2, EnterType DEF NumberBase, collectVars
<1>5. CASE SkipNumbered
    <2>1. Tail(functionImpls) \in Seq(Entries)
        BY <1>5 DEF SkipNumbered, TypeOK
    <2>2. QED
        BY <1>5, <2>1 DEF SkipNumbered, collectVars, numberVars, TypeOK, Entries, Ids
<1>6. CASE NumberChild
    <2> DEFINE Frames(c) == Append(SubSeq(stack, 1, Len(stack) - 1),
                                   Call(Top.entry, Top.first, Top.last, Top.todo \ {c}))
    <2>1. PICK c \in Top.todo : \E g \in cha.functions[c] : Enter(g, Frames(c))
        BY <1>6 DEF NumberChild
    <2>2. PICK g \in cha.functions[c] : Enter(g, Frames(c))
        BY <2>1
    <2>3. Top \in Frame
        BY <1>6, StackType DEF NumberChild, Top
    <2>4. g \in Entries
        BY <2>1, <2>2, <2>3, EntryClosed DEF Frame
    <2>5. Call(Top.entry, Top.first, Top.last, Top.todo \ {c}) \in Frame
        BY <2>3 DEF Call, Frame
    <2>6. Frames(c) \in Seq(Frame)
        BY <1>6, <2>5, RestType DEF NumberChild
    <2>7. /\ UNCHANGED <<cha, order, slots, functionRangeMap>>
          /\ functionImpls' \in Seq(Entries)
        BY <1>6 DEF NumberChild, collectVars, TypeOK
    <2> HIDE DEF Frames
    <2>8. QED
        BY <2>2, <2>4, <2>6, <2>7, EnterType
<1>7. CASE FinishFunction
    <2>1. Top \in Frame
        BY <1>7, StackType DEF FinishFunction, Top
    <2>2. stack' \in Seq(Frame)
        <3> DEFINE fr == Call(Caller.entry, Caller.first, Top.last, Caller.todo)
        <3>1. CASE Len(stack) = 1
            BY <1>7, <3>1 DEF FinishFunction
        <3>2. CASE Len(stack) # 1
            <4>1. Caller \in Frame
                BY <1>7, <2>1, <3>2, RestType DEF FinishFunction
            <4>2. fr \in Frame
                BY <2>1, <4>1 DEF Call, Frame
            <4>3. Append(SubSeq(stack, 1, Len(stack) - 2), fr) \in Seq(Frame)
                BY <1>7, <3>2, <4>2, RestType DEF FinishFunction
            <4>4. QED
                BY <1>7, <3>2, <4>3 DEF FinishFunction
        <3>3. QED
            BY <3>1, <3>2
    <2>3. /\ functionRangeMap' \in [DOMAIN functionRangeMap' -> Ids \X Ids]
          /\ DOMAIN functionRangeMap' \subseteq DOMAIN functionIDMap
        <3>1. <<Top.first, Top.last>> \in Ids \X Ids /\ Top.entry \in DOMAIN functionIDMap
            BY <2>1 DEF Frame
        <3>2. functionRangeMap \in [DOMAIN functionRangeMap -> Ids \X Ids]
            BY DEF TypeOK
        <3>3. functionRangeMap' = Put(functionRangeMap, Top.entry, <<Top.first, Top.last>>)
            BY <1>7 DEF FinishFunction
        <3>4. /\ functionRangeMap' \in [DOMAIN functionRangeMap \cup {Top.entry} -> Ids \X Ids]
              /\ DOMAIN functionRangeMap' = DOMAIN functionRangeMap \cup {Top.entry}
            BY <3>1, <3>2, <3>3 DEF Put
        <3>5. QED
            BY <3>1, <3>4 DEF TypeOK
    <2>4. Ids' = Ids /\ Entries' = Entries /\ Frame' = Frame
        BY <1>7 DEF FinishFunction, Ids, Entries, Frame
    <2>5. QED
        BY <1>7, <2>2, <2>3, <2>4 DEF FinishFunction, collectVars, TypeOK, Frame
<1>8. CASE UNCHANGED vars
    BY <1>8 DEF vars, TypeOK, Entries, Ids
<1>9. QED
    BY <1>1, <1>2, <1>3, <1>4, <1>5, <1>6, <1>7, <1>8 DEF Next, Done

\* The walk keeps its frames and maps well-typed for every class graph.
THEOREM TypeCorrect == Spec => []TypeOK
BY InitType, NextType, PTL DEF Spec

-----------------------------------------------------------------------------
(* IDs are unique: a new ID is above all the others, and an entry that is  *)
(* numbered again gives its old ID up.                                     *)

LEMMA EnterUnique ==
    ASSUME TypeOK, UniqueIDs, NEW f, NEW frames, Enter(f, frames)
    PROVE  UniqueIDs'
<1>1. \A e \in DOMAIN functionIDMap : functionIDMap[e] \in Nat /\ functionIDMap[e] < currentID
    BY DEF TypeOK, Ids
<1>2. /\ DOMAIN functionIDMap' = DOMAIN functionIDMap \cup {f}
      /\ functionIDMap'[f] = currentID
      /\ \A e \in DOMAIN functionIDMap : e # f => functionIDMap'[e] = functionIDMap[e]
    BY DEF Enter, Put
<1>3. \A e \in DOMAIN functionIDMap' : e # f => functionIDMap'[e] # functionIDMap'[f]
    BY <1>1, <1>2 DEF TypeOK
<1>4. QED
    BY <1>2, <1>3 DEF UniqueIDs

LEMMA NextUnique == TypeOK /\ UniqueIDs /\ [Next]_vars => UniqueIDs'
<1> SUFFICES ASSUME TypeOK, UniqueIDs, [Next]_vars PROVE UniqueIDs'
    OBVIOUS
<1>1. CASE NumberBase
    BY <1>1, EnterUnique DEF NumberBase
<1>2. CASE NumberChild
    BY <1>2, EnterUnique DEF NumberChild
<1>3. CASE UNCHANGED functionIDMap
    BY <1>3 DEF UniqueIDs
<1>4. NextClass \/ NewImpl \/ KnownImpl \/ SkipNumbered \/ FinishFunction \/ UNCHANGED vars
      => UNCHANGED functionIDMap
    BY DEF NextClass, NewImpl, KnownImpl, SkipNumbered, FinishFunction, numberVars, vars
<1>5. QED
    BY <1>1, <1>2, <1>3, <1>4 DEF Next, Done

\* No ID of buildFunctionInfo has two owners, for every class graph and every
\* order in which the classes and the children are visited.
THEOREM IDsAreUnique == Spec => []UniqueIDs
<1>1. Init => UniqueIDs
    BY DEF Init, NumberingInit, UniqueIDs, NoMap
<1>2. QED
    BY <1>1, NextUnique, TypeCorrect, PTL DEF Spec

-----------------------------------------------------------------------------
(* Ranges are consistent: a frame's range ends where the callee's begins,  *)
(* and the active range ends at the last ID handed out.                    *)

Adjacent(frames) == \A i \in 1..(Len(frames) - 1) : frames[i].last + 1 = frames[i + 1].first

\* A call that follows on the frames keeps them adjacent.
LEMMA AppendAdjacent ==
    ASSUME NEW S, NEW frames \in Seq(S), NEW fr \in S, Adjacent(frames),
           frames # <<>> => frames[Len(frames)].last + 1 = fr.first
    PROVE  Adjacent(Append(frames, fr))
<1>1. /\ Len(Append(frames, fr)) = Len(frames) + 1
      /\ \A i \in 1..Len(frames) : Append(frames, fr)[i] = frames[i]
      /\ Append(frames, fr)[Len(frames) + 1] = fr
      /\ Len(frames) \in Nat
    OBVIOUS
<1>2. \A i \in 1..(Len(frames) - 1) : i \in 1..Len(frames) /\ i + 1 \in 1..Len(frames)
    BY <1>1
<1>3. frames = <<>> <=> Len(frames) = 0
    OBVIOUS
<1>4. ASSUME NEW i \in 1..Len(frames)
      PROVE  Append(frames, fr)[i].last + 1 = Append(frames, fr)[i + 1].first
    <2>1. CASE i = Len(frames)
        BY <1>1, <1>3, <2>1
    <2>2. CASE i # Len(frames)
        BY <1>1, <1>2, <2>2 DEF Adjacent
    <2>3. QED
        BY <2>1, <2>2
<1>5. QED
    BY <1>1, <1>4 DEF Adjacent

\* The calls below some point of the stack are adjacent as well.
LEMMA PrefixAdjacent ==
    ASSUME NEW S, NEW frames \in Seq(S), Adjacent(frames), NEW n \in 0..Len(frames)
    PROVE  /\ SubSeq(frames, 1, n) \in Seq(S)
           /\ Len(SubSeq(frames, 1, n)) = n
           /\ \A i \in 1..n : SubSeq(frames, 1, n)[i] = frames[i]
           /\ Adjacent(SubSeq(frames, 1, n))
<1>1. /\ Len(SubSeq(frames, 1, n)) = n
      /\ \A i \in 1..n : SubSeq(frames, 1, n)[i] = frames[i]
    OBVIOUS
<1>2. \A i \in 1..n : frames[i] \in S
    OBVIOUS
<1>3. SubSeq(frames, 1, n) \in Seq(S)
    BY <1>1, <1>2
<1>4. \A i \in 1..(n - 1) : i \in 1..n /\ i + 1 \in 1..n /\ i \in 1..(Len(frames) - 1)
    OBVIOUS
<1>5. QED
    BY <1>1, <1>3, <1>4 DEF Adjacent

LEMMA EnterConsistent ==
    ASSUME TypeOK, NEW f, NEW frames \in Seq(Frame), Adjacent(frames),
           frames # <<>> => frames[Len(frames)].last + 1 = currentID,
           Enter(f, frames), stack' \in Seq(Frame')
    PROVE  RangeConsistent'
<1> DEFINE fr == Call(f, currentID, currentID, cha.children[f.vTable])
<1>1. stack' = Append(frames, fr) /\ currentID' = currentID + 1 /\ currentID \in Nat
    BY DEF Enter, TypeOK
<1>2. fr.first = currentID /\ fr.last = currentID
    BY DEF Call
<1>3. Adjacent(stack')
    <2> DEFINE S == Frame \cup {fr}
    <2>1. frames \in Seq(S) /\ fr \in S
        OBVIOUS
    <2> HIDE DEF S, fr
    <2>2. QED
        BY <1>1, <1>2, <2>1, AppendAdjacent
<1>4. Top' = fr
    <2>1. Append(frames, fr)[Len(Append(frames, fr))] = fr
        OBVIOUS
    <2>2. QED
        BY <1>1, <2>1 DEF Top
<1>5. QED
    BY <1>1, <1>2, <1>3, <1>4 DEF RangeConsistent, Adjacent

LEMMA NextConsistent ==
    TypeOK /\ TypeOK' /\ RangeConsistent /\ [Next]_vars => RangeConsistent'
<1> SUFFICES ASSUME TypeOK, TypeOK', RangeConsistent, [Next]_vars PROVE RangeConsistent'
    OBVIOUS
<1>1. /\ stack \in Seq(Frame) /\ stack' \in Seq(Frame') /\ Len(stack) \in Nat
      /\ Adjacent(stack)
    BY StackType DEF TypeOK, Frame, RangeConsistent, Adjacent
<1>2. CASE NumberBase
    <2>1. <<>> \in Seq(Frame) /\ Adjacent(<<>>) /\ Enter(Head(functionImpls), <<>>)
        BY <1>2 DEF NumberBase, Adjacent
    <2>2. QED
        BY <1>1, <2>1, EnterConsistent
<1>3. CASE NumberChild
    <2> DEFINE rest == SubSeq(stack, 1, Len(stack) - 1)
               fr(c) == Call(Top.entry, Top.first, Top.last, Top.todo \ {c})
    <2>1. PICK c \in Top.todo : \E g \in cha.functions[c] : Enter(g, Append(rest, fr(c)))
        BY <1>3 DEF NumberChild
    <2>2. PICK g \in cha.functions[c] : Enter(g, Append(rest, fr(c)))
        BY <2>1
    <2>3. stack # <<>> /\ Len(stack) - 1 \in 0..Len(stack) /\ Top \in Frame
        BY <1>1, <1>3, RestType DEF NumberChild
    <2>4. /\ fr(c) \in Frame
          /\ fr(c).first = Top.first /\ fr(c).last = Top.last
        BY <2>3 DEF Call, Frame
    <2>5. /\ rest \in Seq(Frame) /\ Len(rest) = Len(stack) - 1 /\ Adjacent(rest)
          /\ \A i \in 1..(Len(stack) - 1) : rest[i] = stack[i]
        BY <1>1, <2>3, PrefixAdjacent
    <2> HIDE DEF rest, fr
    <2>6. rest # <<>> => rest[Len(rest)].last + 1 = fr(c).first
        <3> SUFFICES ASSUME rest # <<>> PROVE rest[Len(rest)].last + 1 = fr(c).first
            OBVIOUS
        <3>1. Len(stack) - 1 \in 1..(Len(stack) - 1)
            BY <1>1, <2>5
        <3>2. stack[Len(stack) - 1].last + 1 = stack[Len(stack) - 1 + 1].first
            BY <3>1 DEF RangeConsistent
        <3>3. Len(stack) - 1 + 1 = Len(stack)
            BY <1>1
        <3>4. QED
            BY <2>4, <2>5, <3>1, <3>2, <3>3 DEF Top
    <2>7. Adjacent(Append(rest, fr(c)))
        BY <2>4, <2>5, <2>6, AppendAdjacent
    <2>8. /\ Append(rest, fr(c)) \in Seq(Frame)
          /\ Append(rest, fr(c))[Len(Append(rest, fr(c)))] = fr(c)
        BY <2>4, <2>5
    <2>9. QED
        BY <1>1, <2>2, <2>3, <2>4, <2>7, <2>8, EnterConsistent DEF RangeConsistent
<1>4. CASE FinishFunction
    <2> DEFINE rest == SubSeq(stack, 1, Len(stack) - 2)
               fr == Call(Caller.entry, Caller.first, Top.last, Caller.todo)
    <2>1. CASE Len(stack) = 1
        BY <1>4, <2>1 DEF FinishFunction, RangeConsistent
    <2>2. CASE Len(stack) # 1
        <3>1. /\ stack' = Append(rest, fr) /\ currentID' = currentID
              /\ stack # <<>>
            BY <1>4, <2>2 DEF FinishFunction
        <3>2. Len(stack) # 0
            BY <1>1, <3>1
        <3>3. Len(stack) - 2 \in 0..Len(stack)
            <4>1. \A n \in Nat : n # 0 /\ n # 1 => n - 2 \in 0..n
                OBVIOUS
            <4>2. QED
                BY <1>1, <2>2, <3>2, <4>1
        <3>4. Top.last + 1 = currentID
            BY <3>1 DEF RangeConsistent
        <3>5. Top \in Frame /\ Caller \in Frame
            BY <1>1, <2>2, <3>1, RestType
        <3>6. /\ fr \in Frame /\ fr.first = Caller.first /\ fr.last = Top.last
            BY <3>5 DEF Call, Frame
        <3>7. /\ rest \in Seq(Frame) /\ Len(rest) = Len(stack) - 2 /\ Adjacent(rest)
              /\ \A i \in 1..(Len(stack) - 2) : rest[i] = stack[i]
            BY <1>1, <3>3, PrefixAdjacent
        <3> HIDE DEF rest, fr
        <3>8. rest # <<>> => rest[Len(rest)].last + 1 = fr.first
            <4> SUFFICES ASSUME rest # <<>> PROVE rest[Len(rest)].last + 1 = fr.first
                OBVIOUS
            <4>1. /\ Len(stack) - 2 \in 1..(Len(stack) - 2)
                  /\ Len(stack) - 2 \in 1..(Len(stack) - 1)
                BY <1>1, <3>7
            <4>2. stack[Len(stack) - 2].last + 1 = stack[Len(stack) - 2 + 1].first
                BY <4>1 DEF RangeConsistent
            <4>3. Len(stack) - 2 + 1 = Len(stack) - 1
                BY <1>1
            <4>4. QED
                BY <3>6, <3>7, <4>1, <4>2, <4>3 DEF Caller
        <3>9. Adjacent(Append(rest, fr))
            BY <3>6, <3>7, <3>8, AppendAdjacent
        <3>10. Append(rest, fr)[Len(Append(rest, fr))] = fr
            BY <3>6, <3>7
        <3>11. QED
            BY <3>1, <3>4, <3>6, <3>9, <3>10 DEF RangeConsistent, Adjacent, Top
    <2>3. QED
        BY <2>1, <2>2
<1>5. CASE UNCHANGED <<stack, currentID>>
    BY <1>5 DEF RangeConsistent, Top
<1>6. NextClass \/ NewImpl \/ KnownImpl \/ SkipNumbered \/ UNCHANGED vars
      => UNCHANGED <<stack, currentID>>
    BY DEF NextClass, NewImpl, KnownImpl, SkipNumbered, numberVars, vars
<1>7. QED
    BY <1>2, <1>3, <1>4, <1>5, <1>6 DEF Next, Done

\* The assert "Range is not consistent!" holds for every class graph: also
\* where the walk meets an entry twice.
THEOREM RangesAreConsistent == Spec => []RangeConsistent
<1>1. Init => RangeConsistent
    BY DEF Init, NumberingInit, RangeConsistent
<1>2. QED
    BY <1>1, NextConsistent, TypeCorrect, PTL DEF Spec

\* The range that is recorded for an entry is not empty.
RangesOrdered ==
    \A e \in DOMAIN functionRangeMap : functionRangeMap[e][1] <= functionRangeMap[e][2]

LEMMA InitOrdered == NumberingInit => RangesOrdered
BY DEF NumberingInit, RangesOrdered, NoMap

LEMMA NextOrdered ==
    TypeOK /\ RangeConsistent /\ RangesOrdered /\ [Next]_vars => RangesOrdered'
<1> SUFFICES ASSUME TypeOK, RangeConsistent, RangesOrdered, [Next]_vars PROVE RangesOrdered'
    OBVIOUS
<1>1. CASE FinishFunction
    <2>1. /\ functionRangeMap' = Put(functionRangeMap, Top.entry, <<Top.first, Top.last>>)
          /\ stack # <<>>
        BY <1>1 DEF FinishFunction
    <2>2. Top.last + 1 = currentID
        BY <2>1 DEF RangeConsistent
    <2>3. Top.first \in Ids /\ Top.last \in Ids /\ currentID \in Nat
        <3>1. stack \in Seq(Frame) /\ Len(stack) \in 1..Len(stack)
            BY <2>1, StackType
        <3>2. Top \in Frame
            BY <3>1 DEF Top
        <3>3. QED
            BY <3>2 DEF Frame, TypeOK
    <2>4. Top.first <= Top.last
        BY <2>2, <2>3 DEF Ids
    <2>5. QED
        BY <2>1, <2>4 DEF Put, RangesOrdered
<1>2. CASE UNCHANGED functionRangeMap
    BY <1>2 DEF RangesOrdered
<1>3. QED
    BY <1>1, <1>2 DEF Next, NextClass, NewImpl, KnownImpl, NumberBase, SkipNumbered, NumberChild,
                      numberVars, Done, vars

-----------------------------------------------------------------------------
(* The inductive invariant, p being the program that is numbered.          *)

Numbered == DOMAIN functionIDMap
Seen(p) == Len(p.order) - Len(order)
Rank(p, f) == Position(p.order, f.vTable[1])
SlotTree(p, f) == EntriesBelow(p.cha, f.vTable, f.offsetInVTable)

\* The classes are read in the order of the program, and before the numbering.
Reading(p) ==
    /\ cha = p.cha
    /\ Seen(p) \in 0..Len(p.order)
    /\ \A i \in 1..Len(order) : order[i] = p.order[Seen(p) + i]
    /\ slots # {} => /\ Seen(p) # 0
                     /\ slots \subseteq cha.functions[<<p.order[Seen(p)], 0>>]
    /\ Collected \/ (Numbered = {} /\ stack = <<>>)

\* The names of the classes seen so far are in functionImplMap,
Collecting(p) ==
    \A i \in 1..Seen(p) : \A f \in cha.functions[<<p.order[i], 0>>] :
        f.functionName \in DOMAIN functionImplMap \/ f \in slots

\* with the first slot of the class that declares the name, and this slot is
\* waiting to be numbered, or its class has been met by a walk.
Implemented ==
    \A n \in DOMAIN functionImplMap : \E f \in cha.functions[<<n[1], 0>>] :
        /\ n[1] \in cha.classes
        /\ f.functionName = n
        /\ FirstSlot(cha, f)
        /\ functionImplMap[n] = ImplEntries(f)
        /\ \/ \E i \in 1..Len(functionImpls) : functionImpls[i] = f
           \/ FuncAndClass(f) \in DOMAIN functionMap

\* Base classes wait before derived ones.
Queued(p) ==
    \A i \in 1..Len(functionImpls) :
        /\ FirstSlot(cha, functionImpls[i])
        /\ Rank(p, functionImpls[i]) <= Seen(p)
        /\ \A j \in 1..i : Rank(p, functionImpls[j]) <= Rank(p, functionImpls[i])

\* functionMap lists what has been numbered, under its name and class.
Keyed ==
    /\ \A e \in Numbered : FirstSlot(cha, e) /\ FuncAndClass(e) \in DOMAIN functionMap
    /\ \A k \in DOMAIN functionMap :
          /\ functionMap[k] \in Seq(Numbered) \ {<<>>}
          /\ FuncAndClass(functionMap[k][1]) = k

\* What has been numbered is below an entry that was taken from functionImpls,
\* and none of a base class of this entry is waiting.
Based(p) ==
    \A e \in Numbered : \E b \in Numbered :
        /\ e \in SlotTree(p, b)
        /\ \A i \in 1..Len(functionImpls) : Rank(p, b) <= Rank(p, functionImpls[i])

\* A range that is recorded is the numbered subtree of its entry.
Ranged(p) ==
    /\ \A e \in DOMAIN functionRangeMap :
          /\ SlotTree(p, e) \subseteq Numbered
          /\ \A x \in Numbered : InRange(functionRangeMap[e], x) <=> x \in SlotTree(p, e)
    /\ \A e \in Numbered :
          e \in DOMAIN functionRangeMap \/ \E i \in 1..Len(stack) : stack[i].entry = e

\* x belongs to the call that is active in frame i.
Active(p, i, x) == i < Len(stack) /\ x \in SlotTree(p, stack[i + 1].entry)

\* The range of an active call holds the numbered entries of its subtree, but
\* for those of the call it waits for; nothing is numbered below its todo.
FrameOK(p, i) ==
    LET e == stack[i].entry
        todo == stack[i].todo
        Later(c) == EntriesBelow(cha, c, e.offsetInVTable)
    IN  /\ todo \subseteq cha.children[e.vTable]
        /\ \A c \in todo : Later(c) \cap Numbered = {}
        /\ \A x \in SlotTree(p, e) :
              x \in Numbered \/ Active(p, i, x) \/ \E c \in todo : x \in Later(c)
        /\ \A x \in Numbered :
              functionIDMap[x] \in stack[i].first..stack[i].last
                  <=> x \in SlotTree(p, e) /\ ~Active(p, i, x)
        /\ i < Len(stack) =>
              /\ stack[i + 1].entry.offsetInVTable = e.offsetInVTable
              /\ stack[i + 1].entry.vTable \in cha.children[e.vTable] \ todo
        /\ \A j \in i..Len(stack) : stack[j].entry \in SlotTree(p, e)

Walking(p) == \A i \in 1..Len(stack) : FrameOK(p, i)

LaidInv(p) ==
    /\ Reading(p)
    /\ Collecting(p)
    /\ Implemented
    /\ Queued(p)
    /\ Keyed

\* If the vtables form trees, moreover:
TreeInv(p) ==
    /\ Tree(p)
    /\ LaidInv(p)
    /\ Based(p)
    /\ Ranged(p)
    /\ Walking(p)

\* In any program: what was numbered below an entry was numbered after it, and
\* still is when a vtable with two parents is walked again.
ChildEntries(e, c) == {g \in cha.functions[c] : g.offsetInVTable = e.offsetInVTable}
From(e) == functionRangeMap[e][1]

HeapRanges ==
    \A e \in DOMAIN functionRangeMap :
        /\ From(e) <= functionIDMap[e]
        /\ \A c \in cha.children[e.vTable] : \A g \in ChildEntries(e, c) :
              g \in DOMAIN functionRangeMap /\ From(e) < From(g)

\* An active call has visited the children that are not in its todo, or it
\* waits for the visit; frames stands for the stack.
HeapFrame(frames, i) ==
    LET e == frames[i].entry
    IN  /\ frames[i].todo \subseteq cha.children[e.vTable]
        /\ frames[i].first <= functionIDMap[e]
        /\ e \in DOMAIN functionRangeMap => From(e) < frames[i].first
        /\ \A c \in cha.children[e.vTable] \ frames[i].todo : \A g \in ChildEntries(e, c) :
              \/ g \in DOMAIN functionRangeMap /\ frames[i].first < From(g)
              \/ i < Len(frames) /\ frames[i + 1].entry = g

HeapStack(p) ==
    /\ \A i \in 1..Len(stack) : HeapFrame(stack, i)
    /\ \A i, j \in 1..Len(stack) : i < j =>
          /\ Rank(p, stack[i].entry) < Rank(p, stack[j].entry)
          /\ stack[i].first < stack[j].first
    /\ \A e \in Numbered :
          e \in DOMAIN functionRangeMap \/ \E i \in 1..Len(stack) : stack[i].entry = e

HeapInv(p) == HeapRanges /\ HeapStack(p)

PInv(p) == LaidInv(p) /\ HeapInv(p) /\ (Tree(p) => TreeInv(p))

IInv == \E p \in Programs : PInv(p)

-----------------------------------------------------------------------------
(* The vtables and the entries of a program.                               *)

ProgramEntries(p) == UNION {p.cha.functions[v] : v \in p.cha.vtables}

LEMMA Positions ==
    ASSUME NEW p \in Programs
    PROVE  /\ Len(p.order) \in Nat
           /\ \A c \in p.cha.classes : /\ Position(p.order, c) \in 1..Len(p.order)
                                       /\ p.order[Position(p.order, c)] = c
           /\ \A i \in 1..Len(p.order) : /\ p.order[i] \in p.cha.classes
                                         /\ Position(p.order, p.order[i]) = i
<1>1. /\ p.order \in Seq(p.cha.classes) /\ Len(p.order) \in Nat
      /\ DOMAIN p.order = 1..Len(p.order)
    BY ProgramsAssumption
<1>2. /\ p.cha.classes = {p.order[i] : i \in 1..Len(p.order)}
      /\ \A i, j \in 1..Len(p.order) : p.order[i] = p.order[j] => i = j
    BY <1>1, LaidAssumption DEF Laid, BasesFirst
<1>3. ASSUME NEW c \in p.cha.classes
      PROVE  /\ Position(p.order, c) \in 1..Len(p.order)
             /\ p.order[Position(p.order, c)] = c
    <2>1. \E i \in 1..Len(p.order) : p.order[i] = c
        BY <1>2
    <2>2. QED
        BY <1>1, <2>1 DEF Position
<1>4. \A i \in 1..Len(p.order) : p.order[i] \in p.cha.classes /\ Position(p.order, p.order[i]) = i
    BY <1>2, <1>3
<1>5. QED
    BY <1>1, <1>3, <1>4

\* The position of its class ranks a vtable below its parents.
VtableRanks(p) == [v \in p.cha.vtables |-> Position(p.order, v[1])]

LEMMA ProgramRanked ==
    ASSUME NEW p \in Programs
    PROVE  /\ Ranked(p.cha.vtables, p.cha.children, VtableRanks(p), Len(p.order))
           /\ \A v \in p.cha.vtables : VtableRanks(p)[v] = Position(p.order, v[1])
           /\ \A v \in p.cha.vtables : v[1] \in p.cha.classes
           /\ \A c \in p.cha.classes : <<c, 0>> \in p.cha.vtables
           /\ \A v \in p.cha.vtables : \A f \in p.cha.functions[v] : f.vTable = v
<1>1. /\ p.cha.children \in [p.cha.vtables -> SUBSET p.cha.vtables]
      /\ \A c \in p.cha.classes : <<c, 0>> \in p.cha.vtables
      /\ \A v \in p.cha.vtables : \A f \in p.cha.functions[v] : f.vTable = v
    BY ProgramsAssumption DEF WellFormed
<1>2. \A v \in p.cha.vtables : v[1] \in p.cha.classes
    BY LaidAssumption DEF Laid, BasesFirst
<1>3. \A v \in p.cha.vtables : \A w \in p.cha.children[v] :
         Position(p.order, v[1]) < Position(p.order, w[1])
    BY LaidAssumption DEF Laid, BasesFirst
<1>4. \A v \in p.cha.vtables : Position(p.order, v[1]) \in 1..Len(p.order)
    BY <1>2, Positions
<1>5. \A v \in p.cha.vtables : \A w \in p.cha.children[v] : w \in p.cha.vtables
    BY <1>1
<1>6. Ranked(p.cha.vtables, p.cha.children, VtableRanks(p), Len(p.order))
    BY <1>1, <1>3, <1>4, <1>5, Positions DEF Ranked, VtableRanks
<1>7. \A v \in p.cha.vtables : VtableRanks(p)[v] = Position(p.order, v[1])
    BY DEF VtableRanks
<1>8. QED
    BY <1>1, <1>2, <1>6, <1>7

LEMMA EntryMember ==
    ASSUME NEW p \in Programs, NEW v \in p.cha.vtables, NEW slot, NEW x
    PROVE  x \in EntriesBelow(p.cha, v, slot) <=>
               /\ x.vTable \in Below(p.cha.children, v)
               /\ x \in p.cha.functions[x.vTable]
               /\ x.offsetInVTable = slot
<1>1. Below(p.cha.children, v) \subseteq p.cha.vtables
    BY ProgramRanked, BelowFacts
<1>2. \A w \in Below(p.cha.children, v) : x \in p.cha.functions[w] => x.vTable = w
    BY <1>1, ProgramRanked
<1>3. QED
    BY <1>2 DEF EntriesBelow

LEMMA EntryFacts ==
    ASSUME NEW p \in Programs, NEW e \in ProgramEntries(p)
    PROVE  /\ e.vTable \in p.cha.vtables /\ e \in p.cha.functions[e.vTable]
           /\ e.vTable[1] \in p.cha.classes
           /\ Rank(p, e) \in 1..Len(p.order)
           /\ e.offsetInVTable \in Nat
           /\ \A g \in p.cha.functions[e.vTable] :
                 /\ g \in ProgramEntries(p)
                 /\ g.offsetInVTable = e.offsetInVTable => g = e
<1>1. PICK v \in p.cha.vtables : e \in p.cha.functions[v]
    BY DEF ProgramEntries
<1>2. e.vTable = v
    BY <1>1, ProgramRanked
<1>3. e.vTable[1] \in p.cha.classes
    BY <1>1, <1>2, ProgramRanked
<1>4. QED
    BY <1>1, <1>2, <1>3, Positions, LaidAssumption DEF Laid, SlotsInherited, Rank, ProgramEntries

LEMMA SlotTreeFacts ==
    ASSUME NEW p \in Programs, NEW e \in ProgramEntries(p)
    PROVE  /\ e \in SlotTree(p, e) /\ SlotTree(p, e) \subseteq ProgramEntries(p)
           /\ \A x \in SlotTree(p, e) :
                 /\ x.offsetInVTable = e.offsetInVTable
                 /\ SlotTree(p, x) \subseteq SlotTree(p, e)
                 /\ x = e \/ Rank(p, e) < Rank(p, x)
<1>1. /\ e.vTable \in p.cha.vtables /\ e \in p.cha.functions[e.vTable]
      /\ \A g \in p.cha.functions[e.vTable] : g.offsetInVTable = e.offsetInVTable => g = e
    BY EntryFacts
<1> DEFINE B == Below(p.cha.children, e.vTable)
<1>2. /\ e.vTable \in B /\ B \subseteq p.cha.vtables
      /\ \A w \in B : /\ Below(p.cha.children, w) \subseteq B
                      /\ w = e.vTable \/ Position(p.order, e.vTable[1]) < Position(p.order, w[1])
    BY <1>1, ProgramRanked, BelowFacts
<1> HIDE DEF B
<1>3. \A x : x \in SlotTree(p, e) <=> /\ x.vTable \in B
                                     /\ x \in p.cha.functions[x.vTable]
                                     /\ x.offsetInVTable = e.offsetInVTable
    BY <1>1, EntryMember DEF SlotTree, B
<1>4. ASSUME NEW x \in SlotTree(p, e)
      PROVE  /\ x \in ProgramEntries(p)
             /\ x.offsetInVTable = e.offsetInVTable
             /\ SlotTree(p, x) \subseteq SlotTree(p, e)
             /\ x = e \/ Rank(p, e) < Rank(p, x)
    <2>1. /\ x.vTable \in B /\ x.vTable \in p.cha.vtables /\ x \in p.cha.functions[x.vTable]
          /\ x.offsetInVTable = e.offsetInVTable
        BY <1>2, <1>3
    <2>2. ASSUME NEW y \in SlotTree(p, x) PROVE y \in SlotTree(p, e)
        <3>1. /\ y.vTable \in Below(p.cha.children, x.vTable)
              /\ y \in p.cha.functions[y.vTable] /\ y.offsetInVTable = x.offsetInVTable
            BY <2>1, EntryMember DEF SlotTree
        <3>2. QED
            BY <1>2, <1>3, <2>1, <3>1
    <2>3. x = e \/ Rank(p, e) < Rank(p, x)
        BY <1>1, <1>2, <2>1 DEF Rank
    <2>4. QED
        BY <2>1, <2>2, <2>3 DEF ProgramEntries
<1>5. e \in SlotTree(p, e)
    BY <1>1, <1>2, <1>3
<1>6. QED
    BY <1>4, <1>5

\* The subtree of an entry is the entry and the subtrees of the children of its
\* vtable.
LEMMA SlotTreeChildren ==
    ASSUME NEW p \in Programs, NEW e \in ProgramEntries(p)
    PROVE  /\ \A x \in SlotTree(p, e) :
                 \/ x = e
                 \/ \E c \in p.cha.children[e.vTable] :
                       x \in EntriesBelow(p.cha, c, e.offsetInVTable)
           /\ \A c \in p.cha.children[e.vTable] :
                 /\ EntriesBelow(p.cha, c, e.offsetInVTable) \subseteq SlotTree(p, e)
                 /\ e \notin EntriesBelow(p.cha, c, e.offsetInVTable)
                 /\ \A g \in p.cha.functions[c] : g.offsetInVTable = e.offsetInVTable =>
                       /\ g \in ProgramEntries(p) /\ g.vTable = c
                       /\ SlotTree(p, g) = EntriesBelow(p.cha, c, e.offsetInVTable)
<1>1. /\ e.vTable \in p.cha.vtables /\ e \in p.cha.functions[e.vTable]
      /\ \A g \in p.cha.functions[e.vTable] : g.offsetInVTable = e.offsetInVTable => g = e
    BY EntryFacts
<1>2. \A c \in p.cha.children[e.vTable] : c \in p.cha.vtables
    BY <1>1, ProgramRanked DEF Ranked
<1>3. /\ Below(p.cha.children, e.vTable) =
             {e.vTable} \cup UNION {Below(p.cha.children, c) : c \in p.cha.children[e.vTable]}
      /\ \A c \in p.cha.children[e.vTable] :
            e.vTable \notin Below(p.cha.children, c)
    <2>1. p.cha.children \in [p.cha.vtables -> SUBSET p.cha.vtables]
        BY ProgramRanked DEF Ranked
    <2>2. Below(p.cha.children, e.vTable) =
             {e.vTable} \cup UNION {Below(p.cha.children, c) : c \in p.cha.children[e.vTable]}
        BY <1>1, <2>1, BelowUnfolds
    <2>3. ASSUME NEW c \in p.cha.children[e.vTable]
          PROVE  e.vTable \notin Below(p.cha.children, c)
        BY <1>1, ProgramRanked, NotBelowChild
    <2>4. QED
        BY <2>2, <2>3
<1>4. \A x : x \in SlotTree(p, e) <=> /\ x.vTable \in Below(p.cha.children, e.vTable)
                                     /\ x \in p.cha.functions[x.vTable]
                                     /\ x.offsetInVTable = e.offsetInVTable
    BY <1>1, EntryMember DEF SlotTree
<1>5. \A c \in p.cha.children[e.vTable] : \A x :
          x \in EntriesBelow(p.cha, c, e.offsetInVTable) <=>
               /\ x.vTable \in Below(p.cha.children, c)
               /\ x \in p.cha.functions[x.vTable]
               /\ x.offsetInVTable = e.offsetInVTable
    BY <1>2, EntryMember
<1>6. ASSUME NEW c \in p.cha.children[e.vTable], NEW g \in p.cha.functions[c],
             g.offsetInVTable = e.offsetInVTable
      PROVE  /\ g \in ProgramEntries(p) /\ g.vTable = c
             /\ SlotTree(p, g) = EntriesBelow(p.cha, c, e.offsetInVTable)
    BY <1>2, <1>6, ProgramRanked DEF ProgramEntries, SlotTree
<1>7. ASSUME NEW x \in SlotTree(p, e)
      PROVE  x = e \/ \E c \in p.cha.children[e.vTable] :
                         x \in EntriesBelow(p.cha, c, e.offsetInVTable)
    BY <1>1, <1>3, <1>4, <1>5
<1>8. ASSUME NEW c \in p.cha.children[e.vTable]
      PROVE  /\ EntriesBelow(p.cha, c, e.offsetInVTable) \subseteq SlotTree(p, e)
             /\ e \notin EntriesBelow(p.cha, c, e.offsetInVTable)
    BY <1>3, <1>4, <1>5
<1>9. QED
    BY <1>6, <1>7, <1>8

LEMMA ChildTree ==
    ASSUME NEW p \in Programs, NEW e \in ProgramEntries(p), NEW c \in p.cha.children[e.vTable]
    PROVE  EntriesBelow(p.cha, c, e.offsetInVTable) \subseteq SlotTree(p, e)
BY SlotTreeChildren

\* In a forest, the subtrees of the children are disjoint.
LEMMA ChildTreesDisjoint ==
    ASSUME NEW p \in Programs, Tree(p), NEW e \in ProgramEntries(p),
           NEW c \in p.cha.children[e.vTable], NEW d \in p.cha.children[e.vTable], c # d,
           NEW x \in EntriesBelow(p.cha, c, e.offsetInVTable)
    PROVE  x \notin EntriesBelow(p.cha, d, e.offsetInVTable)
<1>1. e.vTable \in p.cha.vtables
    BY EntryFacts
<1>2. c \in p.cha.vtables /\ d \in p.cha.vtables
    BY <1>1, ProgramRanked DEF Ranked
<1>3. Below(p.cha.children, c) \cap Below(p.cha.children, d) = {}
    BY <1>1, ProgramRanked, SiblingsDisjoint DEF Tree
<1>4. QED
    BY <1>2, <1>3, EntryMember

\* Two subtrees are disjoint unless one entry is in the subtree of the other.
LEMMA SlotTreesComparable ==
    ASSUME NEW p \in Programs, Tree(p), NEW e \in ProgramEntries(p), NEW b \in ProgramEntries(p),
           NEW x \in SlotTree(p, e), x \in SlotTree(p, b)
    PROVE  e \in SlotTree(p, b) \/ b \in SlotTree(p, e)
<1>1. /\ e.vTable \in p.cha.vtables /\ e \in p.cha.functions[e.vTable]
      /\ b.vTable \in p.cha.vtables /\ b \in p.cha.functions[b.vTable]
    BY EntryFacts
<1>2. /\ x.vTable \in Below(p.cha.children, e.vTable) /\ x.offsetInVTable = e.offsetInVTable
      /\ x.vTable \in Below(p.cha.children, b.vTable) /\ x.offsetInVTable = b.offsetInVTable
    BY <1>1, EntryMember DEF SlotTree
<1>3. \/ b.vTable \in Below(p.cha.children, e.vTable)
      \/ e.vTable \in Below(p.cha.children, b.vTable)
    BY <1>1, <1>2, ProgramRanked, ForestComparable DEF Tree
<1>4. QED
    BY <1>1, <1>2, <1>3, EntryMember DEF SlotTree

-----------------------------------------------------------------------------
(* The invariant is inductive.                                             *)

LEMMA InitTree == Init => IInv
<1> SUFFICES ASSUME Init PROVE IInv
    OBVIOUS
<1>1. PICK p \in Programs : cha = p.cha /\ order = p.order
    BY DEF Init
<1>2. /\ Seen(p) = 0 /\ Len(p.order) \in Nat
      /\ slots = {} /\ functionImpls = <<>> /\ Len(functionImpls) = 0
      /\ stack = <<>> /\ Len(stack) = 0
      /\ DOMAIN functionImplMap = {} /\ DOMAIN functionMap = {}
      /\ Numbered = {} /\ DOMAIN functionRangeMap = {}
    BY <1>1, Positions DEF Init, NumberingInit, NoMap, Seen, Numbered
<1>3. Reading(p) /\ Collecting(p)
    BY <1>1, <1>2 DEF Reading, Collecting
<1>4. Implemented /\ Queued(p) /\ Keyed /\ Based(p) /\ Ranged(p) /\ Walking(p)
    BY <1>2 DEF Implemented, Queued, Keyed, Based, Ranged, Walking
<1>5. HeapInv(p)
    BY <1>2 DEF HeapInv, HeapRanges, HeapStack
<1>6. QED
    BY <1>3, <1>4, <1>5 DEF IInv, PInv, TreeInv, LaidInv

\* What the type invariant says of a program's entries.
LEMMA TreeBasics ==
    ASSUME NEW p \in Programs, TypeOK, cha = p.cha
    PROVE  /\ Entries = ProgramEntries(p)
           /\ Numbered \subseteq ProgramEntries(p)
           /\ DOMAIN functionRangeMap \subseteq Numbered
           /\ currentID \in Nat
           /\ \A e \in Numbered : functionIDMap[e] \in 1..(currentID - 1)
           /\ \A e \in DOMAIN functionRangeMap :
                 functionRangeMap[e][1] \in Nat /\ functionRangeMap[e][2] \in 1..(currentID - 1)
           /\ Len(functionImpls) \in Nat
           /\ \A i \in 1..Len(functionImpls) : functionImpls[i] \in ProgramEntries(p)
           /\ Len(stack) \in Nat
           /\ \A i \in 1..Len(stack) :
                 /\ stack[i].entry \in Numbered
                 /\ stack[i].first \in Nat /\ stack[i].last \in 1..(currentID - 1)
<1>1. Entries = ProgramEntries(p)
    BY DEF Entries, ProgramEntries
<1>2. /\ Numbered \subseteq ProgramEntries(p)
      /\ DOMAIN functionRangeMap \subseteq Numbered
      /\ currentID \in Nat
      /\ \A e \in Numbered : functionIDMap[e] \in 1..(currentID - 1)
    BY <1>1 DEF TypeOK, Numbered, Ids
<1>3. \A e \in DOMAIN functionRangeMap :
         functionRangeMap[e][1] \in Nat /\ functionRangeMap[e][2] \in 1..(currentID - 1)
    <2>1. \A e \in DOMAIN functionRangeMap : functionRangeMap[e] \in Ids \X Ids
        BY DEF TypeOK
    <2>2. QED
        BY <2>1 DEF Ids
<1>4. /\ Len(functionImpls) \in Nat
      /\ \A i \in 1..Len(functionImpls) : functionImpls[i] \in ProgramEntries(p)
    BY <1>1 DEF TypeOK
<1>5. /\ Len(stack) \in Nat
      /\ \A i \in 1..Len(stack) : stack[i] \in Frame
    BY StackType
<1>6. \A i \in 1..Len(stack) : /\ stack[i].entry \in Numbered
                              /\ stack[i].first \in Nat /\ stack[i].last \in 1..(currentID - 1)
    BY <1>5 DEF Frame, Numbered, Ids
<1>7. QED
    BY <1>1, <1>2, <1>3, <1>4, <1>5, <1>6

\* While the implementations are collected nothing is numbered.
LEMMA CollectTree ==
    ASSUME NEW p \in Programs, TypeOK, LaidInv(p), ~Collected,
           UNCHANGED <<cha, numberVars>>
    PROVE  Keyed' /\ Based(p)' /\ Ranged(p)' /\ Walking(p)' /\ HeapInv(p)'
<1>1. Numbered = {} /\ stack = <<>> /\ DOMAIN functionRangeMap = {}
    BY DEF LaidInv, Reading, TypeOK, Numbered
<1>2. Numbered' = {} /\ Len(stack') = 0 /\ DOMAIN functionRangeMap' = {} /\ functionMap' = functionMap
    BY <1>1 DEF numberVars, Numbered
<1>3. Keyed'
    BY <1>1, <1>2 DEF LaidInv, Keyed
<1>4. HeapInv(p)'
    BY <1>2 DEF HeapInv, HeapRanges, HeapStack
<1>5. QED
    BY <1>2, <1>3, <1>4 DEF Based, Ranged, Walking

LEMMA NextClassTree ==
    ASSUME NEW p \in Programs, TypeOK, LaidInv(p), NextClass
    PROVE  PInv(p)'
<1>1. /\ cha = p.cha /\ Reading(p) /\ Collecting(p) /\ Implemented /\ Queued(p)
      /\ Len(p.order) \in Nat
    BY Positions DEF LaidInv, Reading
<1>2. /\ slots = {} /\ order # <<>>
      /\ slots' = cha.functions[<<Head(order), 0>>] /\ order' = Tail(order)
      /\ cha' = cha /\ functionImpls' = functionImpls /\ functionImplMap' = functionImplMap
      /\ UNCHANGED numberVars
    BY DEF NextClass
<1>3. /\ order \in Seq(cha.classes) /\ Len(order) \in Nat \ {0} /\ Head(order) = order[1]
      /\ Len(order') = Len(order) - 1
      /\ \A i \in 1..(Len(order) - 1) : order'[i] = order[i + 1]
    BY <1>2 DEF TypeOK
<1>4. /\ Seen(p) \in Nat /\ Seen(p) = Len(p.order) - Len(order)
      /\ \A i \in 1..Len(order) : order[i] = p.order[Seen(p) + i]
    BY <1>1 DEF Reading, Seen
<1>5. /\ Seen(p)' = Seen(p) + 1
      /\ Seen(p)' \in 1..Len(p.order)
      /\ Head(order) = p.order[Seen(p) + 1]
    <2>1. Seen(p)' = Len(p.order) - Len(order')
        BY DEF Seen
    <2>2. QED
        BY <1>1, <1>3, <1>4, <2>1
<1>6. Keyed' /\ Based(p)' /\ Ranged(p)' /\ Walking(p)' /\ HeapInv(p)'
    BY <1>2, CollectTree DEF Collected
<1>7. Reading(p)'
    <2>1. \A i \in 1..Len(order') : order'[i] = p.order[Seen(p)' + i]
        <3> SUFFICES ASSUME NEW i \in 1..Len(order') PROVE order'[i] = p.order[Seen(p)' + i]
            OBVIOUS
        <3>1. i + 1 \in 1..Len(order) /\ order'[i] = order[i + 1]
            BY <1>3
        <3>2. Seen(p)' + i = Seen(p) + (i + 1)
            <4>1. \A k, j \in Nat : (k + 1) + j = k + (j + 1)
                OBVIOUS
            <4>2. Seen(p) \in Nat /\ i \in Nat /\ Seen(p)' = Seen(p) + 1
                BY <1>4, <1>5
            <4>3. QED
                BY <4>1, <4>2
        <3>3. QED
            BY <1>4, <3>1, <3>2
    <2>2. slots' \subseteq cha'.functions[<<p.order[Seen(p)'], 0>>]
        BY <1>2, <1>5
    <2>3. Numbered' = {} /\ stack' = <<>>
        BY <1>1, <1>2 DEF Reading, Collected, Numbered, numberVars
    <2>4. cha' = p.cha /\ Seen(p)' \in 0..Len(p.order) /\ Seen(p)' # 0
        BY <1>1, <1>2, <1>5 DEF Reading
    <2>5. QED
        BY <2>1, <2>2, <2>3, <2>4 DEF Reading
<1>8. Collecting(p)'
    <2> SUFFICES ASSUME NEW i \in 1..(Seen(p)'), NEW f \in cha'.functions[<<p.order[i], 0>>]
                 PROVE  f.functionName \in DOMAIN functionImplMap' \/ f \in slots'
        BY DEF Collecting
    <2>1. CASE i = Seen(p) + 1
        BY <1>2, <1>5, <2>1
    <2>2. CASE i # Seen(p) + 1
        <3>1. i \in 1..Seen(p)
            <4>1. \A k \in Nat : \A j \in 1..(k + 1) : j # k + 1 => j \in 1..k
                OBVIOUS
            <4>2. Seen(p) \in Nat /\ i \in 1..(Seen(p) + 1)
                BY <1>4, <1>5
            <4>3. QED
                BY <2>2, <4>1, <4>2
        <3>2. QED
            BY <1>1, <1>2, <3>1 DEF Collecting
    <2>3. QED
        BY <2>1, <2>2
<1>9. Implemented'
    <2>1. functionMap' = functionMap
        BY <1>2 DEF numberVars
    <2>2. \A f : ImplEntries(f)' = ImplEntries(f)
        BY <1>2 DEF ImplEntries, Entries
    <2>3. QED
        BY <1>1, <1>2, <2>1, <2>2 DEF Implemented
<1>10. Queued(p)'
    <2>1. \A i \in 1..Len(functionImpls) : Rank(p, functionImpls[i]) \in Nat
        BY <1>1, TreeBasics, EntryFacts
    <2>2. ASSUME NEW i \in 1..Len(functionImpls)
          PROVE  Rank(p, functionImpls[i]) <= Seen(p)'
        <3>1. Rank(p, functionImpls[i]) <= Seen(p)
            BY <1>1 DEF Queued
        <3>2. QED
            BY <1>4, <1>5, <2>1, <3>1
    <2>3. QED
        BY <1>1, <1>2, <2>2 DEF Queued, Rank
<1>11. QED
    BY <1>6, <1>7, <1>8, <1>9, <1>10 DEF PInv, TreeInv, LaidInv

\* Facts that both ways to take a slot of the current class share.
LEMMA SlotTaken ==
    ASSUME NEW p \in Programs, TypeOK, LaidInv(p), NEW f \in slots, slots' = slots \ {f},
           UNCHANGED <<cha, order, numberVars>>
    PROVE  /\ Reading(p)' /\ Keyed' /\ Based(p)' /\ Ranged(p)' /\ Walking(p)' /\ HeapInv(p)'
           /\ Seen(p)' = Seen(p) /\ Seen(p) \in 1..Len(p.order)
           /\ \A h \in slots : /\ h \in ProgramEntries(p)
                               /\ h.vTable = <<p.order[Seen(p)], 0>>
           /\ f \in cha.functions[<<p.order[Seen(p)], 0>>]
           /\ Rank(p, f) = Seen(p)
<1>1. cha = p.cha /\ Reading(p)
    BY DEF LaidInv, Reading
<1>2. Keyed' /\ Based(p)' /\ Ranged(p)' /\ Walking(p)' /\ HeapInv(p)'
    BY CollectTree DEF Collected
<1>3. Seen(p)' = Seen(p)
    BY DEF Seen
<1>4. Seen(p) \in 1..Len(p.order)
    BY <1>1, Positions DEF Reading
<1>5. Reading(p)'
    <2>1. Numbered' = {} /\ stack' = <<>>
        BY <1>1 DEF Reading, Collected, Numbered, numberVars
    <2>2. \A i \in 1..Len(order') : order'[i] = p.order[Seen(p)' + i]
        BY <1>1, <1>3 DEF Reading
    <2>3. QED
        BY <1>1, <1>3, <1>4, <2>1, <2>2 DEF Reading
<1>6. <<p.order[Seen(p)], 0>> \in p.cha.vtables
    BY <1>4, Positions, ProgramRanked
<1>7. \A h \in slots : /\ h \in cha.functions[<<p.order[Seen(p)], 0>>]
                      /\ h \in ProgramEntries(p)
                      /\ h.vTable = <<p.order[Seen(p)], 0>>
    BY <1>1, <1>6, ProgramRanked DEF Reading, ProgramEntries
<1>8. Rank(p, f) = Seen(p)
    BY <1>4, <1>7, Positions DEF Rank
<1>9. QED
    BY <1>2, <1>3, <1>4, <1>5, <1>7, <1>8

LEMMA KnownImplTree ==
    ASSUME NEW p \in Programs, TypeOK, LaidInv(p), KnownImpl
    PROVE  PInv(p)'
<1>1. PICK f \in slots : /\ f.functionName \in DOMAIN functionImplMap
                        /\ slots' = slots \ {f}
                        /\ UNCHANGED <<cha, order, functionImpls, functionImplMap, numberVars>>
    BY DEF KnownImpl
<1>2. /\ Reading(p)' /\ Keyed' /\ Based(p)' /\ Ranged(p)' /\ Walking(p)' /\ HeapInv(p)'
      /\ Seen(p)' = Seen(p)
    BY <1>1, SlotTaken
<1>3. Collecting(p)'
    BY <1>1, <1>2 DEF LaidInv, Collecting
<1>4. Implemented'
    <2>1. functionMap' = functionMap
        BY <1>1 DEF numberVars
    <2>2. \A g : ImplEntries(g)' = ImplEntries(g)
        BY <1>1 DEF ImplEntries, Entries
    <2>3. QED
        BY <1>1, <2>1, <2>2 DEF LaidInv, Implemented
<1>5. Queued(p)'
    BY <1>1, <1>2 DEF LaidInv, Queued, Rank
<1>6. QED
    BY <1>2, <1>3, <1>4, <1>5 DEF PInv, TreeInv, LaidInv

\* A name is met first in the primary vtable of the class that declares it.
LEMMA NewImplTree ==
    ASSUME NEW p \in Programs, TypeOK, LaidInv(p), NewImpl
    PROVE  PInv(p)'
<1>1. PICK f \in slots :
          /\ IsNextSlot(f)
          /\ f.functionName \notin DOMAIN functionImplMap
          /\ functionImpls' = Append(functionImpls, f)
          /\ functionImplMap' = Put(functionImplMap, f.functionName, ImplEntries(f))
          /\ slots' = slots \ {f}
          /\ UNCHANGED <<cha, order, numberVars>>
    BY DEF NewImpl
<1>2. /\ Reading(p)' /\ Keyed' /\ Based(p)' /\ Ranged(p)' /\ Walking(p)' /\ HeapInv(p)'
      /\ Seen(p)' = Seen(p) /\ Seen(p) \in 1..Len(p.order)
      /\ \A h \in slots : h \in ProgramEntries(p) /\ h.vTable = <<p.order[Seen(p)], 0>>
      /\ f \in cha.functions[<<p.order[Seen(p)], 0>>]
      /\ Rank(p, f) = Seen(p)
    BY <1>1, SlotTaken
<1> DEFINE n == f.functionName
           c == p.order[Seen(p)]
<1>3. cha = p.cha /\ Collecting(p) /\ Implemented /\ Queued(p)
    BY DEF LaidInv, Reading
<1>4. /\ DOMAIN functionImplMap' = DOMAIN functionImplMap \cup {n}
      /\ functionImplMap'[n] = ImplEntries(f)
      /\ \A m \in DOMAIN functionImplMap : functionImplMap'[m] = functionImplMap[m]
    BY <1>1 DEF Put
<1>5. n[1] = c /\ c \in p.cha.classes
    <2>1. c \in p.cha.classes /\ Position(p.order, c) = Seen(p) /\ <<c, 0>> \in p.cha.vtables
        BY <1>2, Positions, ProgramRanked
    <2>2. /\ n[1] \in p.cha.classes
          /\ Position(p.order, n[1]) <= Seen(p)
          /\ \E g \in p.cha.functions[<<n[1], 0>>] : g.functionName = n
        <3>1. Declared(p.cha, p.order)
            BY LaidAssumption DEF Laid
        <3>2. QED
            BY <1>2, <1>3, <2>1, <3>1 DEF Declared
    <2>3. PICK g \in p.cha.functions[<<n[1], 0>>] : g.functionName = n
        BY <2>2
    <2>4. Position(p.order, n[1]) \in 1..Seen(p) /\ p.order[Position(p.order, n[1])] = n[1]
        BY <1>2, <2>2, Positions
    <2>5. g \in slots
        BY <1>1, <1>3, <2>3, <2>4 DEF Collecting
    <2>6. g.vTable = <<n[1], 0>>
        BY <2>2, <2>3, ProgramRanked
    <2>7. QED
        BY <1>2, <2>1, <2>5, <2>6
<1>6. FirstSlot(cha, f)
    <2> SUFFICES ASSUME NEW g \in cha.functions[f.vTable], g.functionName = f.functionName
                 PROVE  f.offsetInVTable <= g.offsetInVTable
        BY DEF FirstSlot
    <2>1. g \in cha.functions[<<c, 0>>]
        BY <1>2
    <2>2. g \in slots
        BY <1>1, <1>2, <1>3, <2>1 DEF Collecting
    <2>3. QED
        BY <1>1, <2>2 DEF IsNextSlot
<1>7. /\ Len(functionImpls) \in Nat /\ Len(functionImpls') = Len(functionImpls) + 1
      /\ functionImpls'[Len(functionImpls) + 1] = f
      /\ \A i \in 1..Len(functionImpls) : functionImpls'[i] = functionImpls[i]
    <2>1. f \in Entries /\ functionImpls \in Seq(Entries)
        BY <1>1 DEF TypeOK
    <2>2. QED
        BY <1>1, <2>1
<1>8. Collecting(p)'
    BY <1>1, <1>2, <1>3, <1>4 DEF Collecting
<1>9. Implemented'
    <2>1. functionMap' = functionMap /\ cha' = cha
        BY <1>1 DEF numberVars
    <2>2. \A g : ImplEntries(g)' = ImplEntries(g)
        BY <1>1 DEF ImplEntries, Entries
    <2> SUFFICES ASSUME NEW m \in DOMAIN functionImplMap'
                 PROVE  \E g \in cha.functions[<<m[1], 0>>] :
                            /\ m[1] \in cha.classes
                            /\ g.functionName = m
                            /\ FirstSlot(cha, g)
                            /\ functionImplMap'[m] = ImplEntries(g)
                            /\ \/ \E i \in 1..Len(functionImpls') : functionImpls'[i] = g
                               \/ FuncAndClass(g) \in DOMAIN functionMap
        BY <2>1, <2>2 DEF Implemented
    <2>3. CASE m = n
        <3>1. Len(functionImpls) + 1 \in 1..Len(functionImpls')
            BY <1>7
        <3>2. QED
            BY <1>2, <1>3, <1>4, <1>5, <1>6, <1>7, <2>3, <3>1
    <2>4. CASE m # n
        <3>1. PICK g \in cha.functions[<<m[1], 0>>] :
                  /\ m[1] \in cha.classes
                  /\ g.functionName = m
                  /\ FirstSlot(cha, g)
                  /\ functionImplMap[m] = ImplEntries(g)
                  /\ \/ \E i \in 1..Len(functionImpls) : functionImpls[i] = g
                     \/ FuncAndClass(g) \in DOMAIN functionMap
            BY <1>3, <1>4, <2>4 DEF Implemented
        <3>2. \A i \in 1..Len(functionImpls) : i \in 1..Len(functionImpls')
            BY <1>7
        <3>3. QED
            BY <1>4, <1>7, <2>4, <3>1, <3>2
    <2>5. QED
        BY <2>3, <2>4
<1>10. Queued(p)'
    <2> SUFFICES ASSUME NEW i \in 1..Len(functionImpls')
                 PROVE  /\ FirstSlot(cha, functionImpls'[i])
                        /\ Rank(p, functionImpls'[i]) <= Seen(p)
                        /\ \A j \in 1..i : Rank(p, functionImpls'[j]) <= Rank(p, functionImpls'[i])
        BY <1>1, <1>2 DEF Queued, Rank
    <2>1. CASE i \in 1..Len(functionImpls)
        <3>1. \A j \in 1..i : j \in 1..Len(functionImpls)
            BY <1>7, <2>1
        <3>2. QED
            BY <1>3, <1>7, <2>1, <3>1 DEF Queued
    <2>2. CASE i = Len(functionImpls) + 1
        <3>1. \A j \in 1..Len(functionImpls) : Rank(p, functionImpls'[j]) <= Seen(p)
            BY <1>3, <1>7 DEF Queued
        <3>2. \A j \in 1..i : j \in 1..Len(functionImpls) \/ j = i
            BY <1>7, <2>2
        <3>3. Seen(p) <= Seen(p)
            BY <1>2, Positions
        <3>4. QED
            BY <1>2, <1>6, <1>7, <2>2, <3>1, <3>2, <3>3
    <2>3. QED
        BY <1>7, <2>1, <2>2
<1>11. QED
    BY <1>2, <1>8, <1>9, <1>10 DEF PInv, TreeInv, LaidInv

\* What a call of buildFunctionInfoForFunction(f) adds, f being a new entry.
LEMMA EnterLaid ==
    ASSUME NEW p \in Programs, TypeOK, LaidInv(p),
           NEW f \in ProgramEntries(p), FirstSlot(cha, f),
           NEW frames, Enter(f, frames), UNCHANGED <<cha, collectVars, functionRangeMap>>, Collected
    PROVE  /\ Numbered' = Numbered \cup {f}
           /\ functionIDMap'[f] = currentID
           /\ \A e \in Numbered : e # f => functionIDMap'[e] = functionIDMap[e]
           /\ \A k \in DOMAIN functionMap : k \in DOMAIN functionMap'
           /\ FuncAndClass(f) \in DOMAIN functionMap'
           /\ Reading(p)' /\ Collecting(p)' /\ Keyed'
<1>1. cha = p.cha /\ cha' = cha /\ Seen(p)' = Seen(p)
    BY DEF LaidInv, Reading, Seen, collectVars
<1>2. /\ Numbered' = Numbered \cup {f}
      /\ functionIDMap'[f] = currentID
      /\ \A e \in Numbered : e # f => functionIDMap'[e] = functionIDMap[e]
    BY DEF Enter, Put, Numbered
<1> DEFINE k == FuncAndClass(f)
           list == IF k \in DOMAIN functionMap THEN Append(functionMap[k], f) ELSE <<f>>
<1>3. /\ DOMAIN functionMap' = DOMAIN functionMap \cup {k}
      /\ functionMap'[k] = list
      /\ \A j \in DOMAIN functionMap : j # k => functionMap'[j] = functionMap[j]
    BY DEF Enter, Put
<1>4. Reading(p)' /\ Collecting(p)'
    <2>1. Collected'
        BY DEF collectVars, Collected
    <2>2. Reading(p)'
        BY <1>1, <2>1 DEF LaidInv, Reading, collectVars
    <2>3. QED
        BY <1>1, <2>2 DEF LaidInv, Collecting, collectVars
<1>5. Keyed'
    <2>1. \A j \in DOMAIN functionMap : /\ functionMap[j] \in Seq(Numbered) \ {<<>>}
                                       /\ FuncAndClass(functionMap[j][1]) = j
        BY DEF LaidInv, Keyed
    <2>2. \A s \in Seq(Numbered) : s \in Seq(Numbered')
        BY <1>2
    <2>3. list \in Seq(Numbered') \ {<<>>} /\ FuncAndClass(list[1]) = k
        <3>1. f \in Numbered'
            BY <1>2
        <3>2. CASE k \in DOMAIN functionMap
            <4>1. functionMap[k] \in Seq(Numbered') /\ functionMap[k] # <<>>
                BY <2>1, <2>2, <3>2
            <4>2. /\ Append(functionMap[k], f) \in Seq(Numbered') \ {<<>>}
                  /\ Append(functionMap[k], f)[1] = functionMap[k][1]
                BY <3>1, <4>1
            <4>3. QED
                BY <2>1, <3>2, <4>2
        <3>3. CASE k \notin DOMAIN functionMap
            BY <3>1, <3>3
        <3>4. QED
            BY <3>2, <3>3
    <2> HIDE DEF list, k
    <2>4. \A j \in DOMAIN functionMap' : /\ functionMap'[j] \in Seq(Numbered') \ {<<>>}
                                        /\ FuncAndClass(functionMap'[j][1]) = j
        BY <1>3, <2>1, <2>2, <2>3
    <2>5. \A e \in Numbered' : FirstSlot(cha', e) /\ FuncAndClass(e) \in DOMAIN functionMap'
        BY <1>1, <1>2, <1>3 DEF LaidInv, Keyed, k
    <2>6. QED
        BY <2>4, <2>5 DEF Keyed
<1>6. QED
    BY <1>2, <1>3, <1>4, <1>5

\* In a forest, a recorded range goes on holding the subtree of its entry.
LEMMA EnterTree ==
    ASSUME NEW p \in Programs, TypeOK, TreeInv(p),
           NEW f \in ProgramEntries(p), f \notin Numbered, FirstSlot(cha, f),
           NEW frames, Enter(f, frames), UNCHANGED <<cha, collectVars, functionRangeMap>>, Collected
    PROVE  /\ Numbered' = Numbered \cup {f}
           /\ functionIDMap'[f] = currentID
           /\ \A e \in Numbered : functionIDMap'[e] = functionIDMap[e]
           /\ \A e \in DOMAIN functionRangeMap' :
                 /\ SlotTree(p, e) \subseteq Numbered'
                 /\ \A x \in Numbered' :
                       InRange(functionRangeMap[e], x)' <=> x \in SlotTree(p, e)
<1>1. cha = p.cha
    BY DEF TreeInv, LaidInv, Reading
<1>2. /\ Numbered' = Numbered \cup {f}
      /\ functionIDMap'[f] = currentID
      /\ \A e \in Numbered : functionIDMap'[e] = functionIDMap[e]
    BY EnterLaid DEF TreeInv
<1>3. ASSUME NEW e \in DOMAIN functionRangeMap'
      PROVE  /\ SlotTree(p, e) \subseteq Numbered'
             /\ \A x \in Numbered' :
                   InRange(functionRangeMap[e], x)' <=> x \in SlotTree(p, e)
    <2>1. /\ e \in DOMAIN functionRangeMap /\ functionRangeMap' = functionRangeMap
          /\ SlotTree(p, e) \subseteq Numbered
          /\ \A x \in Numbered : InRange(functionRangeMap[e], x) <=> x \in SlotTree(p, e)
        BY DEF TreeInv, LaidInv, Ranged
    <2>2. /\ functionRangeMap[e][1] \in Nat /\ functionRangeMap[e][2] \in 1..(currentID - 1)
          /\ currentID \in Nat
        BY <1>1, <2>1, TreeBasics
    <2>3. currentID \notin functionRangeMap[e][1]..functionRangeMap[e][2]
        BY <2>2
    <2> SUFFICES ASSUME NEW x \in Numbered'
                 PROVE  InRange(functionRangeMap[e], x)' <=> x \in SlotTree(p, e)
        BY <1>2, <2>1
    <2>4. InRange(functionRangeMap[e], x)'
              <=> functionIDMap'[x] \in functionRangeMap[e][1]..functionRangeMap[e][2]
        BY <2>1 DEF InRange, Numbered
    <2>5. CASE x = f
        BY <1>2, <2>1, <2>3, <2>4, <2>5
    <2>6. CASE x # f
        BY <1>2, <2>1, <2>4, <2>6 DEF InRange, Numbered
    <2>7. QED
        BY <2>5, <2>6
<1>4. QED
    BY <1>2, <1>3

\* The call that has just begun.
LEMMA FreshFrame ==
    ASSUME NEW p \in Programs, TypeOK, cha = p.cha, cha' = cha,
           NEW f \in ProgramEntries(p), SlotTree(p, f) \cap Numbered = {},
           Numbered' = Numbered \cup {f}, functionIDMap'[f] = currentID,
           \A e \in Numbered : functionIDMap'[e] = functionIDMap[e],
           NEW n \in Nat, Len(stack') = n,
           stack'[n] = Call(f, currentID, currentID, cha.children[f.vTable])
    PROVE  FrameOK(p, n)'
<1>1. /\ stack'[n].entry = f /\ stack'[n].first = currentID /\ stack'[n].last = currentID
      /\ stack'[n].todo = p.cha.children[f.vTable]
    BY DEF Call
<1>2. /\ currentID \in Nat
      /\ \A e \in Numbered : functionIDMap[e] \in 1..(currentID - 1)
    BY TreeBasics
<1>3. \A x : ~Active(p, n, x)'
    BY DEF Active
<1>4. f \in SlotTree(p, f)
    BY SlotTreeFacts
<1>5. \A c \in p.cha.children[f.vTable] :
          EntriesBelow(cha', c, f.offsetInVTable) \cap Numbered' = {}
    BY SlotTreeChildren
<1>6. \A x \in SlotTree(p, f) :
          x \in Numbered' \/ \E c \in p.cha.children[f.vTable] :
                                x \in EntriesBelow(cha', c, f.offsetInVTable)
    BY SlotTreeChildren
<1>7. ASSUME NEW x \in Numbered'
      PROVE  functionIDMap'[x] \in currentID..currentID <=> x \in SlotTree(p, f)
    <2>1. CASE x = f
        BY <1>2, <1>4, <2>1
    <2>2. CASE x # f
        BY <1>2, <2>2
    <2>3. QED
        BY <2>1, <2>2
<1>8. \A j \in n..n : j = n
    OBVIOUS
<1>9. QED
    BY <1>1, <1>3, <1>4, <1>5, <1>6, <1>7, <1>8 DEF FrameOK

\* What is taken from functionImpls and has not been met by a walk has nothing
\* below it that has been met.
LEMMA BaseIsFresh ==
    ASSUME NEW p \in Programs, TypeOK, TreeInv(p), stack = <<>>, functionImpls # <<>>,
           FuncAndClass(Head(functionImpls)) \notin DOMAIN functionMap
    PROVE  /\ Head(functionImpls) \in ProgramEntries(p)
           /\ Head(functionImpls) = functionImpls[1]
           /\ Len(functionImpls) \in Nat \ {0}
           /\ SlotTree(p, Head(functionImpls)) \cap Numbered = {}
<1>1. cha = p.cha
    BY DEF TreeInv, LaidInv, Reading
<1>2. PICK f : f = Head(functionImpls)
    OBVIOUS
<1>3. /\ Len(functionImpls) \in Nat \ {0} /\ f = functionImpls[1] /\ f \in ProgramEntries(p)
    <2>1. functionImpls \in Seq(Entries)
        BY DEF TypeOK
    <2>2. Len(functionImpls) \in Nat \ {0} /\ f = functionImpls[1]
        BY <1>2, <2>1
    <2>3. QED
        BY <1>1, <2>2, TreeBasics
<1>4. ASSUME NEW x \in SlotTree(p, f), x \in Numbered PROVE FALSE
    <2>1. PICK b \in Numbered : /\ x \in SlotTree(p, b)
                               /\ Rank(p, b) <= Rank(p, f)
        BY <1>3, <1>4 DEF TreeInv, LaidInv, Based
    <2>2. b \in ProgramEntries(p)
        BY <1>1, TreeBasics
    <2>3. SlotTree(p, b) \subseteq Numbered
        <3>1. Len(stack) = 0
            OBVIOUS
        <3>2. b \in DOMAIN functionRangeMap
            BY <3>1 DEF TreeInv, LaidInv, Ranged
        <3>3. QED
            BY <3>2 DEF TreeInv, LaidInv, Ranged
    <2>4. f \notin Numbered
        BY <1>2 DEF TreeInv, LaidInv, Keyed
    <2>5. b \in SlotTree(p, f)
        BY <1>3, <2>1, <2>2, <2>3, <2>4, SlotTreesComparable DEF TreeInv
    <2>6. b = f \/ Rank(p, f) < Rank(p, b)
        BY <1>3, <2>5, SlotTreeFacts
    <2>7. Rank(p, f) \in Nat /\ Rank(p, b) \in Nat
        BY <1>3, <2>2, EntryFacts
    <2>8. QED
        BY <2>1, <2>4, <2>6, <2>7
<1>5. QED
    BY <1>2, <1>3, <1>4

\* The implementation that is taken from functionImpls.
LEMMA BaseEntry ==
    ASSUME NEW p \in Programs, TypeOK, cha = p.cha, functionImpls # <<>>
    PROVE  /\ Head(functionImpls) \in ProgramEntries(p)
           /\ Head(functionImpls) = functionImpls[1]
           /\ Len(functionImpls) \in Nat \ {0}
<1>1. functionImpls \in Seq(Entries)
    BY DEF TypeOK
<1>2. Len(functionImpls) \in Nat \ {0} /\ Head(functionImpls) = functionImpls[1]
    BY <1>1
<1>3. QED
    BY <1>2, TreeBasics

LEMMA NumberBaseLaid ==
    ASSUME NEW p \in Programs, TypeOK, LaidInv(p), NumberBase
    PROVE  LaidInv(p)'
<1>1. /\ Collected /\ stack = <<>> /\ functionImpls # <<>>
      /\ FuncAndClass(Head(functionImpls)) \notin DOMAIN functionMap
      /\ Enter(Head(functionImpls), <<>>)
      /\ functionImpls' = Tail(functionImpls)
      /\ UNCHANGED <<cha, collectVars, functionRangeMap>>
    BY DEF NumberBase
<1>2. PICK f : f = Head(functionImpls)
    OBVIOUS
<1>3. cha = p.cha /\ cha' = cha /\ Queued(p) /\ Implemented
    BY <1>1 DEF LaidInv, Reading
<1>4. /\ f \in ProgramEntries(p) /\ f = functionImpls[1] /\ Len(functionImpls) \in Nat \ {0}
    BY <1>1, <1>2, <1>3, BaseEntry
<1>5. FirstSlot(cha, f)
    BY <1>4, <1>3 DEF Queued
<1>6. /\ \A k \in DOMAIN functionMap : k \in DOMAIN functionMap'
      /\ FuncAndClass(f) \in DOMAIN functionMap'
      /\ Reading(p)' /\ Collecting(p)' /\ Keyed'
    BY <1>1, <1>2, <1>4, <1>5, EnterLaid
<1>7. /\ Len(functionImpls') = Len(functionImpls) - 1
      /\ \A i \in 1..(Len(functionImpls) - 1) :
            functionImpls'[i] = functionImpls[i + 1] /\ i + 1 \in 1..Len(functionImpls)
    <2>1. functionImpls \in Seq(Entries)
        BY DEF TypeOK
    <2>2. QED
        BY <1>1, <1>4, <2>1
<1>8. Queued(p)'
    <2>1. Seen(p)' = Seen(p)
        BY <1>1 DEF Seen, collectVars
    <2> SUFFICES ASSUME NEW i \in 1..Len(functionImpls')
                 PROVE  /\ FirstSlot(cha, functionImpls'[i])
                        /\ Rank(p, functionImpls'[i]) <= Seen(p)
                        /\ \A j \in 1..i : Rank(p, functionImpls'[j]) <= Rank(p, functionImpls'[i])
        BY <1>3, <2>1 DEF Queued, Rank
    <2>2. i + 1 \in 1..Len(functionImpls) /\ functionImpls'[i] = functionImpls[i + 1]
        BY <1>7
    <2>3. \A j \in 1..i : j + 1 \in 1..(i + 1) /\ functionImpls'[j] = functionImpls[j + 1]
        BY <1>4, <1>7
    <2>4. QED
        BY <1>3, <2>2, <2>3 DEF Queued
<1>9. Implemented'
    <2>1. \A g : ImplEntries(g)' = ImplEntries(g)
        BY <1>1 DEF ImplEntries, Entries
    <2>2. functionImplMap' = functionImplMap
        BY <1>1 DEF collectVars
    <2>3. ASSUME NEW i \in 1..Len(functionImpls)
          PROVE  \/ FuncAndClass(functionImpls[i]) \in DOMAIN functionMap'
                 \/ \E j \in 1..Len(functionImpls') : functionImpls'[j] = functionImpls[i]
        <3>1. CASE i = 1
            BY <1>4, <1>6, <3>1
        <3>2. CASE i # 1
            <4>1. i - 1 \in 1..Len(functionImpls') /\ i - 1 + 1 = i
                BY <1>4, <1>7, <3>2
            <4>2. QED
                BY <1>7, <4>1
        <3>3. QED
            BY <3>1, <3>2
    <2>4. QED
        BY <1>3, <1>6, <2>1, <2>2, <2>3 DEF Implemented
<1>10. QED
    BY <1>6, <1>8, <1>9 DEF LaidInv

LEMMA NumberBaseTree ==
    ASSUME NEW p \in Programs, TypeOK, TreeInv(p), NumberBase
    PROVE  TreeInv(p)'
<1>1. /\ Collected /\ stack = <<>> /\ functionImpls # <<>>
      /\ FuncAndClass(Head(functionImpls)) \notin DOMAIN functionMap
      /\ Enter(Head(functionImpls), <<>>)
      /\ functionImpls' = Tail(functionImpls)
      /\ UNCHANGED <<cha, collectVars, functionRangeMap>>
    BY DEF NumberBase
<1>2. PICK f : f = Head(functionImpls)
    OBVIOUS
<1>3. /\ f \in ProgramEntries(p) /\ f = functionImpls[1] /\ Len(functionImpls) \in Nat \ {0}
      /\ SlotTree(p, f) \cap Numbered = {}
    BY <1>1, <1>2, BaseIsFresh
<1>4. f \in SlotTree(p, f) /\ f \notin Numbered
    BY <1>3, SlotTreeFacts
<1>5. cha = p.cha /\ cha' = cha /\ Queued(p) /\ Based(p) /\ Ranged(p)
    BY <1>1 DEF TreeInv, LaidInv, Reading
<1>6. FirstSlot(cha, f)
    BY <1>3, <1>5 DEF Queued
<1>7. /\ Numbered' = Numbered \cup {f}
      /\ functionIDMap'[f] = currentID
      /\ \A e \in Numbered : functionIDMap'[e] = functionIDMap[e]
      /\ \A e \in DOMAIN functionRangeMap' :
            /\ SlotTree(p, e) \subseteq Numbered'
            /\ \A x \in Numbered' : InRange(functionRangeMap[e], x)' <=> x \in SlotTree(p, e)
    BY <1>1, <1>2, <1>3, <1>4, <1>6, EnterTree
<1>8. /\ Len(functionImpls') = Len(functionImpls) - 1
      /\ \A i \in 1..(Len(functionImpls) - 1) :
            functionImpls'[i] = functionImpls[i + 1] /\ i + 1 \in 1..Len(functionImpls)
    <2>1. functionImpls \in Seq(Entries)
        BY DEF TypeOK
    <2>2. QED
        BY <1>1, <1>3, <2>1
<1>9. Based(p)'
    <2>1. \A i \in 1..Len(functionImpls') :
              \E j \in 1..Len(functionImpls) : functionImpls'[i] = functionImpls[j]
        BY <1>8
    <2>2. \A i \in 1..Len(functionImpls) : Rank(p, f) <= Rank(p, functionImpls[i])
        BY <1>3, <1>5 DEF Queued
    <2> SUFFICES ASSUME NEW e \in Numbered'
                 PROVE  \E b \in Numbered' :
                            /\ e \in SlotTree(p, b)
                            /\ \A i \in 1..Len(functionImpls') : Rank(p, b) <= Rank(p, functionImpls'[i])
        BY DEF Based, Rank, SlotTree
    <2>3. CASE e = f
        BY <1>4, <1>7, <2>1, <2>2, <2>3
    <2>4. CASE e # f
        BY <1>5, <1>7, <2>1, <2>4 DEF Based
    <2>5. QED
        BY <2>3, <2>4
<1>10. /\ Len(stack') = 1
       /\ stack'[1] = Call(f, currentID, currentID, cha.children[f.vTable])
    BY <1>1, <1>2 DEF Enter
<1>11. Walking(p)'
    <2>1. FrameOK(p, 1)'
        BY <1>3, <1>5, <1>7, <1>10, FreshFrame
    <2>2. \A i \in 1..Len(stack') : i = 1
        BY <1>10
    <2>3. QED
        BY <2>1, <2>2 DEF Walking
<1>12. Ranged(p)'
    <2>1. \A e \in Numbered' :
              e \in DOMAIN functionRangeMap' \/ \E i \in 1..Len(stack') : stack'[i].entry = e
        <3>1. \A e \in Numbered : e \in DOMAIN functionRangeMap
            <4>1. Len(stack) = 0
                BY <1>1
            <4>2. QED
                BY <1>5, <4>1 DEF Ranged
        <3>2. stack'[1].entry = f
            BY <1>10 DEF Call
        <3>3. QED
            BY <1>1, <1>7, <1>10, <3>1, <3>2
    <2>2. functionRangeMap' = functionRangeMap
        BY <1>1
    <2>3. QED
        BY <1>7, <2>1, <2>2 DEF Ranged, SlotTree
<1>13. QED
    BY <1>9, <1>11, <1>12, NumberBaseLaid DEF TreeInv

LEMMA SkipNumberedTree ==
    ASSUME NEW p \in Programs, TypeOK, PInv(p), SkipNumbered
    PROVE  PInv(p)'
<1>1. /\ functionImpls # <<>>
      /\ FuncAndClass(Head(functionImpls)) \in DOMAIN functionMap
      /\ functionImpls' = Tail(functionImpls)
      /\ UNCHANGED <<cha, collectVars, numberVars>>
    BY DEF SkipNumbered
<1>2. /\ Len(functionImpls) \in Nat \ {0} /\ Head(functionImpls) = functionImpls[1]
      /\ Len(functionImpls') = Len(functionImpls) - 1
      /\ \A i \in 1..(Len(functionImpls) - 1) :
            functionImpls'[i] = functionImpls[i + 1] /\ i + 1 \in 1..Len(functionImpls)
    <2>1. functionImpls \in Seq(Entries)
        BY DEF TypeOK
    <2>2. QED
        BY <1>1, <2>1
<1>3. /\ UNCHANGED <<cha, order, slots, functionImplMap, functionMap, functionIDMap,
                     functionRangeMap, stack>>
      /\ Seen(p)' = Seen(p)
    BY <1>1 DEF collectVars, numberVars, Seen
<1>4. Reading(p)' /\ Collecting(p)' /\ Keyed'
    BY <1>3 DEF PInv, LaidInv, Reading, Collecting, Keyed, Collected, Numbered
<1>5. Queued(p)'
    <2> SUFFICES ASSUME NEW i \in 1..Len(functionImpls')
                 PROVE  /\ FirstSlot(cha, functionImpls'[i])
                        /\ Rank(p, functionImpls'[i]) <= Seen(p)
                        /\ \A j \in 1..i : Rank(p, functionImpls'[j]) <= Rank(p, functionImpls'[i])
        BY <1>3 DEF Queued, Rank
    <2>1. i + 1 \in 1..Len(functionImpls) /\ functionImpls'[i] = functionImpls[i + 1]
        BY <1>2
    <2>2. \A j \in 1..i : j + 1 \in 1..(i + 1) /\ functionImpls'[j] = functionImpls[j + 1]
        BY <1>2
    <2>3. QED
        BY <2>1, <2>2 DEF PInv, LaidInv, Queued
<1>6. Implemented'
    <2>1. \A g : ImplEntries(g)' = ImplEntries(g)
        BY <1>3 DEF ImplEntries, Entries
    <2>2. ASSUME NEW i \in 1..Len(functionImpls)
          PROVE  \/ FuncAndClass(functionImpls[i]) \in DOMAIN functionMap'
                 \/ \E j \in 1..Len(functionImpls') : functionImpls'[j] = functionImpls[i]
        <3>1. CASE i = 1
            BY <1>1, <1>2, <1>3, <3>1
        <3>2. CASE i # 1
            <4>1. i - 1 \in 1..Len(functionImpls') /\ i - 1 + 1 = i
                BY <1>2, <3>2
            <4>2. QED
                BY <1>2, <4>1
        <3>3. QED
            BY <3>1, <3>2
    <2>3. Implemented
        BY DEF PInv, LaidInv
    <2>4. QED
        BY <1>3, <2>1, <2>2, <2>3 DEF Implemented
<1>7. ASSUME TreeInv(p) PROVE Based(p)'
    <2>1. \A i \in 1..Len(functionImpls') :
              \E j \in 1..Len(functionImpls) : functionImpls'[i] = functionImpls[j]
        BY <1>2
    <2> SUFFICES ASSUME NEW e \in Numbered
                 PROVE  \E b \in Numbered :
                            /\ e \in SlotTree(p, b)
                            /\ \A i \in 1..Len(functionImpls') : Rank(p, b) <= Rank(p, functionImpls'[i])
        BY <1>3 DEF Based, Rank, SlotTree, Numbered
    <2>2. QED
        BY <1>7, <2>1 DEF TreeInv, Based
<1>8. ASSUME TreeInv(p) PROVE Ranged(p)' /\ Walking(p)'
    <2>1. Ranged(p)'
        BY <1>3, <1>8 DEF TreeInv, Ranged, SlotTree, InRange, Numbered
    <2>2. \A i \in 1..Len(stack) : FrameOK(p, i)'
        BY <1>3, <1>8 DEF TreeInv, Walking, FrameOK, Active, SlotTree, Numbered
    <2>3. QED
        BY <1>3, <2>1, <2>2 DEF Walking
<1>9. HeapInv(p)'
    BY <1>3 DEF PInv, HeapInv, HeapRanges, HeapStack, HeapFrame, ChildEntries, From, Numbered, Rank
<1>10. QED
    BY <1>4, <1>5, <1>6, <1>7, <1>8, <1>9 DEF PInv, TreeInv, LaidInv

\* The frames below a call that waits, whatever happens to the calls above it.
LEMMA FrameBelow ==
    ASSUME NEW p \in Programs, TypeOK, TreeInv(p), NEW i \in 1..Len(stack), i < Len(stack)
    PROVE  /\ stack[i].entry \in ProgramEntries(p)
           /\ i + 1 \in 1..Len(stack)
           /\ stack[i + 1].entry \in ProgramEntries(p)
           /\ SlotTree(p, stack[i + 1].entry) \subseteq SlotTree(p, stack[i].entry)
           /\ \A x \in SlotTree(p, stack[Len(stack)].entry) : Active(p, i, x)
           /\ \A x : Active(p, i, x) =>
                 \A c \in stack[i].todo :
                     x \notin EntriesBelow(cha, c, stack[i].entry.offsetInVTable)
<1>1. /\ cha = p.cha /\ FrameOK(p, i) /\ Len(stack) \in Nat
      /\ i + 1 \in 1..Len(stack) /\ FrameOK(p, i + 1)
    BY TreeBasics DEF TreeInv, LaidInv, Reading, Walking
<1>2. stack[i].entry \in ProgramEntries(p) /\ stack[i + 1].entry \in ProgramEntries(p)
    BY <1>1, TreeBasics
<1>3. PICK e, d : e = stack[i].entry /\ d = stack[i + 1].entry
    OBVIOUS
<1>4. /\ d.offsetInVTable = e.offsetInVTable
      /\ d.vTable \in p.cha.children[e.vTable]
      /\ d.vTable \notin stack[i].todo
      /\ stack[i].todo \subseteq p.cha.children[e.vTable]
    BY <1>1, <1>3 DEF FrameOK
<1>5. d \in p.cha.functions[d.vTable]
    BY <1>2, <1>3, EntryFacts
<1>6. SlotTree(p, d) = EntriesBelow(p.cha, d.vTable, e.offsetInVTable)
    BY <1>4 DEF SlotTree
<1>7. SlotTree(p, d) \subseteq SlotTree(p, e)
    BY <1>2, <1>3, <1>4, <1>6, ChildTree
<1>8. \A c \in stack[i].todo : \A x \in SlotTree(p, d) :
          x \notin EntriesBelow(p.cha, c, e.offsetInVTable)
    <2> SUFFICES ASSUME NEW c \in stack[i].todo, NEW x \in SlotTree(p, d)
                 PROVE  x \notin EntriesBelow(p.cha, c, e.offsetInVTable)
        OBVIOUS
    <2>1. c \in p.cha.children[e.vTable] /\ c # d.vTable
        BY <1>4
    <2>2. QED
        BY <1>2, <1>3, <1>4, <1>6, <2>1, ChildTreesDisjoint DEF TreeInv
<1>9. SlotTree(p, stack[Len(stack)].entry) \subseteq SlotTree(p, d)
    <2>1. Len(stack) \in (i + 1)..Len(stack)
        BY <1>1
    <2>2. stack[Len(stack)].entry \in SlotTree(p, d)
        BY <1>1, <1>3, <2>1 DEF FrameOK
    <2>3. QED
        BY <1>2, <1>3, <2>2, SlotTreeFacts
<1>10. \A x : Active(p, i, x) <=> x \in SlotTree(p, d)
    BY <1>3 DEF Active
<1>11. QED
    BY <1>1, <1>2, <1>3, <1>7, <1>8, <1>9, <1>10

\* The call that NumberChild makes,
LEMMA ChildEntry ==
    ASSUME NEW p \in Programs, TypeOK, LaidInv(p), HeapInv(p), stack # <<>>,
           NEW c \in Top.todo, NEW g \in cha.functions[c],
           g.offsetInVTable = Top.entry.offsetInVTable
    PROVE  /\ cha = p.cha
           /\ Len(stack) \in Nat \ {0} /\ Top = stack[Len(stack)]
           /\ Top.entry \in Numbered /\ Top.entry \in ProgramEntries(p)
           /\ c \in p.cha.children[Top.entry.vTable]
           /\ g \in ProgramEntries(p) /\ g.vTable = c
           /\ SlotTree(p, g) = EntriesBelow(cha, c, Top.entry.offsetInVTable)
           /\ SlotTree(p, g) \subseteq SlotTree(p, Top.entry)
           /\ g \in SlotTree(p, g)
           /\ Rank(p, Top.entry) < Rank(p, g)
           /\ FirstSlot(cha, g)
<1>1. /\ cha = p.cha /\ Len(stack) \in Nat \ {0} /\ Top = stack[Len(stack)]
      /\ Len(stack) \in 1..Len(stack)
    <2>1. stack \in Seq(Frame)
        BY StackType
    <2>2. QED
        BY <2>1 DEF LaidInv, Reading, Top
<1>2. PICK e : e = Top.entry
    OBVIOUS
<1>3. /\ e \in Numbered /\ e \in ProgramEntries(p)
      /\ HeapFrame(stack, Len(stack))
    BY <1>1, <1>2, TreeBasics DEF HeapInv, HeapStack
<1>4. c \in p.cha.children[e.vTable]
    BY <1>1, <1>2, <1>3 DEF HeapFrame
<1>5. /\ g \in ProgramEntries(p) /\ g.vTable = c
      /\ SlotTree(p, g) = EntriesBelow(p.cha, c, e.offsetInVTable)
      /\ SlotTree(p, g) \subseteq SlotTree(p, e)
      /\ e \notin SlotTree(p, g)
    BY <1>1, <1>2, <1>3, <1>4, SlotTreeChildren
<1>6. g \in SlotTree(p, g) /\ g # e
    BY <1>5, SlotTreeFacts
<1>7. Rank(p, e) < Rank(p, g)
    BY <1>3, <1>5, <1>6, SlotTreeFacts
<1>8. FirstSlot(cha, g)
    <2>1. FirstSlot(p.cha, e)
        BY <1>1, <1>3 DEF LaidInv, Keyed
    <2>2. e.vTable \in p.cha.vtables /\ e \in p.cha.functions[e.vTable]
        BY <1>3, EntryFacts
    <2>3. QED
        BY <1>1, <1>2, <1>4, <2>1, <2>2, LaidAssumption DEF Laid, SlotsOverridden
<1>9. QED
    BY <1>1, <1>2, <1>3, <1>4, <1>5, <1>6, <1>7, <1>8

\* in a forest of an entry that has not been numbered.
LEMMA ChildIsFresh ==
    ASSUME NEW p \in Programs, TypeOK, TreeInv(p), HeapInv(p), stack # <<>>,
           NEW c \in Top.todo, NEW g \in cha.functions[c],
           g.offsetInVTable = Top.entry.offsetInVTable
    PROVE  /\ FrameOK(p, Len(stack))
           /\ SlotTree(p, g) \cap Numbered = {}
           /\ g \notin Numbered
<1>1. /\ Len(stack) \in Nat \ {0} /\ Top = stack[Len(stack)]
      /\ SlotTree(p, g) = EntriesBelow(cha, c, Top.entry.offsetInVTable)
      /\ g \in SlotTree(p, g)
    BY ChildEntry DEF TreeInv
<1>2. Len(stack) \in 1..Len(stack)
    BY <1>1
<1>3. FrameOK(p, Len(stack))
    BY <1>2 DEF TreeInv, Walking
<1>4. SlotTree(p, g) \cap Numbered = {}
    BY <1>1, <1>3 DEF FrameOK
<1>5. QED
    BY <1>1, <1>3, <1>4

\* The stack with the child that the topmost call visits next.
CallOf(c) == Call(Top.entry, Top.first, Top.last, Top.todo \ {c})
Callers(c) == Append(SubSeq(stack, 1, Len(stack) - 1), CallOf(c))

LEMMA PushedStack ==
    ASSUME TypeOK, stack # <<>>, NEW n, n = Len(stack), NEW c, NEW g, Enter(g, Callers(c))
    PROVE  /\ n \in Nat \ {0} /\ Len(stack') = n + 1 /\ Top = stack[n]
           /\ stack'[n + 1] = Call(g, currentID, currentID, cha.children[g.vTable])
           /\ stack'[n + 1].entry = g /\ stack'[n + 1].first = currentID
           /\ stack'[n + 1].todo = cha.children[g.vTable]
           /\ stack'[n].first = Top.first /\ stack'[n].last = Top.last
           /\ stack'[n].todo = Top.todo \ {c}
           /\ \A i \in 1..(n - 1) : stack'[i] = stack[i]
           /\ \A i \in 1..n : stack'[i].entry = stack[i].entry /\ stack'[i].first = stack[i].first
<1>1. stack \in Seq(Frame)
    BY StackType
<1>2. n \in Nat \ {0} /\ Top = stack[n]
    BY <1>1 DEF Top
<1> DEFINE new == Call(g, currentID, currentID, cha.children[g.vTable])
           S == Frame \cup {CallOf(c)} \cup {new}
           rest == SubSeq(stack, 1, n - 1)
<1>3. /\ rest \in Seq(Frame) /\ Len(rest) = n - 1
      /\ \A i \in 1..(n - 1) : rest[i] = stack[i]
    <2>1. n - 1 \in 0..n /\ n \in Nat
        BY <1>2
    <2>2. QED
        BY <1>1, <2>1, Prefix
<1>4. rest \in Seq(S) /\ CallOf(c) \in S /\ new \in S
    BY <1>3
<1>5. stack' = Append(Append(rest, CallOf(c)), new)
    BY DEF Enter, Callers
<1>6. /\ new.entry = g /\ new.first = currentID /\ new.todo = cha.children[g.vTable]
      /\ CallOf(c).entry = Top.entry /\ CallOf(c).first = Top.first
      /\ CallOf(c).last = Top.last /\ CallOf(c).todo = Top.todo \ {c}
    BY DEF Call, CallOf
<1> HIDE DEF rest, S, new
<1>7. /\ Append(rest, CallOf(c)) \in Seq(S) /\ Len(Append(rest, CallOf(c))) = n
      /\ Append(rest, CallOf(c))[n] = CallOf(c)
      /\ \A i \in 1..(n - 1) : Append(rest, CallOf(c))[i] = stack[i]
    BY <1>2, <1>3, <1>4
<1>8. /\ Len(stack') = n + 1
      /\ stack'[n + 1] = new /\ stack'[n] = CallOf(c)
      /\ \A i \in 1..(n - 1) : stack'[i] = stack[i]
    BY <1>2, <1>4, <1>5, <1>7
<1>9. \A i \in 1..n : i = n \/ i \in 1..(n - 1)
    BY <1>2
<1>10. \A i \in 1..n : stack'[i].entry = stack[i].entry /\ stack'[i].first = stack[i].first
    BY <1>2, <1>6, <1>8, <1>9
<1>11. QED
    BY <1>2, <1>6, <1>8, <1>10 DEF new

\* and what NumberChild does to it.
LEMMA ChildStep ==
    ASSUME NumberChild
    PROVE  /\ stack # <<>> /\ UNCHANGED <<cha, functionImpls, collectVars, functionRangeMap>>
           /\ \E c \in Top.todo : \E g \in cha.functions[c] :
                 g.offsetInVTable = Top.entry.offsetInVTable /\ Enter(g, Callers(c))
BY DEF NumberChild, Callers, CallOf

LEMMA NumberChildLaid ==
    ASSUME NEW p \in Programs, TypeOK, LaidInv(p), HeapInv(p), NumberChild
    PROVE  LaidInv(p)'
<1>1. stack # <<>> /\ UNCHANGED <<cha, functionImpls, collectVars, functionRangeMap>>
    BY ChildStep
<1>2. PICK c \in Top.todo : \E g \in cha.functions[c] :
            g.offsetInVTable = Top.entry.offsetInVTable /\ Enter(g, Callers(c))
    BY ChildStep
<1>3. PICK g \in cha.functions[c] :
            g.offsetInVTable = Top.entry.offsetInVTable /\ Enter(g, Callers(c))
    BY <1>2
<1>4. cha = p.cha /\ g \in ProgramEntries(p) /\ FirstSlot(cha, g)
    BY <1>1, <1>3, ChildEntry
<1>5. Collected
    BY <1>1 DEF LaidInv, Reading
<1>6. /\ \A k \in DOMAIN functionMap : k \in DOMAIN functionMap'
      /\ Reading(p)' /\ Collecting(p)' /\ Keyed'
    BY <1>1, <1>3, <1>4, <1>5, EnterLaid
<1>7. Queued(p)' /\ Implemented'
    <2>1. functionImplMap' = functionImplMap /\ functionImpls' = functionImpls /\ Seen(p)' = Seen(p)
        BY <1>1 DEF collectVars, Seen
    <2>2. \A h : ImplEntries(h)' = ImplEntries(h)
        BY <1>1 DEF ImplEntries, Entries
    <2>3. Queued(p) /\ Implemented /\ cha' = cha
        BY <1>1 DEF LaidInv
    <2>4. QED
        BY <1>6, <2>1, <2>2, <2>3 DEF Queued, Implemented, Rank
<1>8. QED
    BY <1>6, <1>7 DEF LaidInv

LEMMA NumberChildTree ==
    ASSUME NEW p \in Programs, TypeOK, TreeInv(p), HeapInv(p), NumberChild
    PROVE  TreeInv(p)'
<1>1. stack # <<>> /\ UNCHANGED <<cha, functionImpls, collectVars, functionRangeMap>>
    BY ChildStep
<1>2. PICK c \in Top.todo : \E g \in cha.functions[c] :
            g.offsetInVTable = Top.entry.offsetInVTable /\ Enter(g, Callers(c))
    BY ChildStep
<1>3. PICK g \in cha.functions[c] :
            g.offsetInVTable = Top.entry.offsetInVTable /\ Enter(g, Callers(c))
    BY <1>2
<1>4. PICK e, n : e = Top.entry /\ n = Len(stack)
    OBVIOUS
<1>5. /\ n \in Nat \ {0} /\ e \in ProgramEntries(p)
      /\ FrameOK(p, n)
      /\ c \in p.cha.children[e.vTable]
      /\ g \in ProgramEntries(p) /\ g.vTable = c
      /\ SlotTree(p, g) = EntriesBelow(cha, c, e.offsetInVTable)
      /\ SlotTree(p, g) \subseteq SlotTree(p, e)
      /\ SlotTree(p, g) \cap Numbered = {}
      /\ g \in SlotTree(p, g) /\ g \notin Numbered
      /\ FirstSlot(cha, g)
    BY <1>1, <1>3, <1>4, ChildEntry, ChildIsFresh DEF TreeInv
<1>6. cha = p.cha /\ cha' = cha /\ Collected
    BY <1>1 DEF TreeInv, LaidInv, Reading
<1>7. /\ Numbered' = Numbered \cup {g}
      /\ functionIDMap'[g] = currentID
      /\ \A x \in Numbered : functionIDMap'[x] = functionIDMap[x]
      /\ \A x \in DOMAIN functionRangeMap' :
            /\ SlotTree(p, x) \subseteq Numbered'
            /\ \A y \in Numbered' : InRange(functionRangeMap[x], y)' <=> y \in SlotTree(p, x)
    BY <1>1, <1>3, <1>5, <1>6, EnterTree
<1>8. /\ Len(stack') = n + 1 /\ Top = stack[n]
      /\ stack'[n + 1] = Call(g, currentID, currentID, cha.children[g.vTable])
      /\ stack'[n + 1].entry = g
      /\ stack'[n].first = Top.first /\ stack'[n].last = Top.last
      /\ stack'[n].todo = Top.todo \ {c}
      /\ \A i \in 1..(n - 1) : stack'[i] = stack[i]
      /\ \A i \in 1..n : stack'[i].entry = stack[i].entry
    BY <1>1, <1>3, <1>4, PushedStack
<1>9. Top = stack[n] /\ stack'[n].entry = e
    <2>1. n \in 1..n
        BY <1>5
    <2>2. QED
        BY <1>4, <1>8, <2>1
<1>10. \A i \in 1..n : stack'[i].entry = stack[i].entry
    BY <1>8
<1>11. /\ currentID \in Nat
       /\ \A i \in 1..n : /\ stack[i].last \in 1..(currentID - 1) /\ stack[i].first \in Nat
                          /\ stack[i].entry \in ProgramEntries(p)
    BY <1>4, <1>6, TreeBasics
<1>12. \A i \in 1..n : currentID \notin stack[i].first..stack[i].last
    BY <1>11
<1>13. \A i \in 1..n : stack[i].entry \in Numbered /\ e \in SlotTree(p, stack[i].entry)
    <2> SUFFICES ASSUME NEW i \in 1..n PROVE stack[i].entry \in Numbered /\ e \in SlotTree(p, stack[i].entry)
        OBVIOUS
    <2>1. FrameOK(p, i) /\ n \in i..n
        BY <1>4, <1>5 DEF TreeInv, LaidInv, Walking
    <2>2. QED
        BY <1>4, <1>6, <1>9, <2>1, TreeBasics DEF FrameOK
<1>14. \A i \in 1..n : SlotTree(p, g) \subseteq SlotTree(p, stack[i].entry)
    BY <1>5, <1>11, <1>13, SlotTreeFacts
<1>15. ASSUME NEW i \in 1..n PROVE \A j \in i..(n + 1) : stack'[j].entry \in SlotTree(p, stack[i].entry)
    <2> SUFFICES ASSUME NEW j \in i..(n + 1) PROVE stack'[j].entry \in SlotTree(p, stack[i].entry)
        OBVIOUS
    <2>1. CASE j = n + 1
        BY <1>5, <1>8, <1>14, <2>1
    <2>2. CASE j # n + 1
        <3>1. j \in i..n /\ j \in 1..n
            BY <1>5, <2>2
        <3>2. FrameOK(p, i)
            BY <1>4 DEF TreeInv, LaidInv, Walking
        <3>3. QED
            BY <1>4, <1>10, <3>1, <3>2 DEF FrameOK
    <2>3. QED
        BY <2>1, <2>2
<1>16. ASSUME NEW i \in 1..n, i # n PROVE FrameOK(p, i)'
    <2>1. i < n /\ i \in 1..(n - 1) /\ i + 1 \in 1..n /\ i < n + 1
        BY <1>5, <1>16
    <2>2. FrameOK(p, i)
        BY <1>4 DEF TreeInv, LaidInv, Walking
    <2>3. stack'[i] = stack[i] /\ stack'[i + 1].entry = stack[i + 1].entry
        BY <1>8, <1>10, <2>1
    <2>4. \A x : Active(p, i, x)' <=> Active(p, i, x)
        BY <1>4, <1>8, <2>1, <2>3 DEF Active, SlotTree
    <2>5. Active(p, i, g) /\ \A d \in stack[i].todo :
              g \notin EntriesBelow(cha, d, stack[i].entry.offsetInVTable)
        <3>1. g \in SlotTree(p, stack[n].entry)
            BY <1>4, <1>5, <1>9
        <3>2. QED
            BY <1>4, <2>1, <3>1, FrameBelow
    <2>6. \A d \in stack[i].todo :
              EntriesBelow(cha, d, stack[i].entry.offsetInVTable) \cap Numbered' = {}
        BY <1>7, <2>2, <2>5 DEF FrameOK
    <2>7. \A x \in Numbered' :
              functionIDMap'[x] \in stack[i].first..stack[i].last
                  <=> x \in SlotTree(p, stack[i].entry) /\ ~Active(p, i, x)
        <3> SUFFICES ASSUME NEW x \in Numbered'
                     PROVE  functionIDMap'[x] \in stack[i].first..stack[i].last
                                <=> x \in SlotTree(p, stack[i].entry) /\ ~Active(p, i, x)
            OBVIOUS
        <3>1. CASE x = g
            BY <1>7, <1>12, <2>5, <3>1
        <3>2. CASE x # g
            BY <1>7, <2>2, <3>2 DEF FrameOK
        <3>3. QED
            BY <3>1, <3>2
    <2>8. \A x \in SlotTree(p, stack[i].entry) :
              x \in Numbered' \/ Active(p, i, x)
                \/ \E d \in stack[i].todo : x \in EntriesBelow(cha, d, stack[i].entry.offsetInVTable)
        BY <1>7, <2>2 DEF FrameOK
    <2>9. /\ stack[i].todo \subseteq cha.children[stack[i].entry.vTable]
          /\ stack[i + 1].entry.offsetInVTable = stack[i].entry.offsetInVTable
          /\ stack[i + 1].entry.vTable \in cha.children[stack[i].entry.vTable] \ stack[i].todo
        BY <1>4, <2>1, <2>2 DEF FrameOK
    <2>10. \A j \in i..Len(stack') : stack'[j].entry \in SlotTree(p, stack[i].entry)
        BY <1>8, <1>15
    <2>11. QED
        BY <1>6, <2>3, <2>4, <2>6, <2>7, <2>8, <2>9, <2>10 DEF FrameOK, SlotTree
<1>17. FrameOK(p, n)'
    <2>1. \A x : Active(p, n, x)' <=> x \in SlotTree(p, g)
        BY <1>5, <1>8, <1>9 DEF Active, SlotTree
    <2>2. \A x : ~Active(p, n, x)
        BY <1>4, <1>5 DEF Active
    <2>3. \A d \in Top.todo \ {c} : EntriesBelow(cha, d, e.offsetInVTable) \cap Numbered' = {}
        <3>1. Top.todo \subseteq p.cha.children[e.vTable]
            BY <1>4, <1>5, <1>6, <1>9 DEF FrameOK
        <3>2. \A d \in Top.todo \ {c} : g \notin EntriesBelow(cha, d, e.offsetInVTable)
            <4> SUFFICES ASSUME NEW d \in Top.todo \ {c}
                         PROVE  g \notin EntriesBelow(cha, d, e.offsetInVTable)
                OBVIOUS
            <4>1. d \in p.cha.children[e.vTable] /\ d # c
                BY <3>1
            <4>2. QED
                BY <1>5, <1>6, <4>1, ChildTreesDisjoint DEF TreeInv
        <3>3. \A d \in Top.todo : EntriesBelow(cha, d, e.offsetInVTable) \cap Numbered = {}
            BY <1>4, <1>5, <1>9 DEF FrameOK
        <3>4. QED
            BY <1>7, <3>2, <3>3
    <2>4. \A x \in SlotTree(p, e) :
              x \in Numbered' \/ x \in SlotTree(p, g)
                \/ \E d \in Top.todo \ {c} : x \in EntriesBelow(cha, d, e.offsetInVTable)
        <3>1. \A x \in SlotTree(p, e) :
                  x \in Numbered \/ \E d \in Top.todo : x \in EntriesBelow(cha, d, e.offsetInVTable)
            BY <1>4, <1>5, <1>9, <2>2 DEF FrameOK
        <3>2. QED
            BY <1>5, <1>7, <3>1
    <2>5. \A x \in Numbered' :
              functionIDMap'[x] \in Top.first..Top.last
                  <=> x \in SlotTree(p, e) /\ x \notin SlotTree(p, g)
        <3> SUFFICES ASSUME NEW x \in Numbered'
                     PROVE  functionIDMap'[x] \in Top.first..Top.last
                                <=> x \in SlotTree(p, e) /\ x \notin SlotTree(p, g)
            OBVIOUS
        <3>1. CASE x = g
            <4>1. n \in 1..n
                BY <1>5
            <4>2. currentID \notin Top.first..Top.last
                BY <1>9, <1>12, <4>1
            <4>3. QED
                BY <1>5, <1>7, <3>1, <4>2
        <3>2. CASE x # g
            <4>1. x \in Numbered /\ x \notin SlotTree(p, g)
                BY <1>5, <1>7, <3>2
            <4>2. functionIDMap[x] \in Top.first..Top.last <=> x \in SlotTree(p, e)
                BY <1>4, <1>5, <1>9, <2>2, <4>1 DEF FrameOK
            <4>3. QED
                BY <1>7, <4>1, <4>2
        <3>3. QED
            BY <3>1, <3>2
    <2>6. /\ Top.todo \ {c} \subseteq cha.children[e.vTable]
          /\ g.offsetInVTable = e.offsetInVTable
          /\ g.vTable \in cha.children[e.vTable] \ (Top.todo \ {c})
        BY <1>3, <1>4, <1>5, <1>6, <1>9 DEF FrameOK
    <2>7. \A j \in n..Len(stack') : stack'[j].entry \in SlotTree(p, e)
        <3>1. n \in 1..n
            BY <1>5
        <3>2. QED
            BY <1>4, <1>8, <1>9, <1>15, <3>1
    <2>8. QED
        BY <1>6, <1>8, <1>9, <2>1, <2>3, <2>4, <2>5, <2>6, <2>7 DEF FrameOK, SlotTree
<1>18. FrameOK(p, n + 1)'
    <2>1. n + 1 \in Nat
        BY <1>5
    <2>2. QED
        BY <1>5, <1>6, <1>7, <1>8, <2>1, FreshFrame
<1>19. Walking(p)'
    <2>1. \A i \in 1..Len(stack') : i \in 1..n \/ i = n + 1
        BY <1>5, <1>8
    <2>2. QED
        BY <1>16, <1>17, <1>18, <2>1 DEF Walking
<1>20. Ranged(p)'
    <2>1. \A x \in Numbered' :
              x \in DOMAIN functionRangeMap' \/ \E i \in 1..Len(stack') : stack'[i].entry = x
        <3>1. \A x \in Numbered :
                  x \in DOMAIN functionRangeMap \/ \E i \in 1..n : stack[i].entry = x
            BY <1>4 DEF TreeInv, LaidInv, Ranged
        <3>2. n + 1 \in 1..Len(stack') /\ \A i \in 1..n : i \in 1..Len(stack')
            BY <1>5, <1>8
        <3>3. QED
            BY <1>1, <1>7, <1>8, <1>10, <3>1, <3>2
    <2>2. functionRangeMap' = functionRangeMap
        BY <1>1
    <2>3. QED
        BY <1>7, <2>1, <2>2 DEF Ranged, SlotTree
<1>21. LaidInv(p)'
    BY NumberChildLaid DEF TreeInv
<1>22. Based(p)'
    <2> SUFFICES ASSUME NEW x \in Numbered'
                 PROVE  \E b \in Numbered' :
                            /\ x \in SlotTree(p, b)
                            /\ \A i \in 1..Len(functionImpls) : Rank(p, b) <= Rank(p, functionImpls[i])
        BY <1>1 DEF Based, Rank, SlotTree
    <2>1. \A y \in Numbered : \E b \in Numbered :
              /\ y \in SlotTree(p, b)
              /\ \A i \in 1..Len(functionImpls) : Rank(p, b) <= Rank(p, functionImpls[i])
        BY DEF TreeInv, LaidInv, Based
    <2>2. CASE x \in Numbered
        BY <1>7, <2>1, <2>2
    <2>3. CASE x = g
        <3>1. n \in 1..n /\ e \in Numbered
            BY <1>4, <1>5, <1>9, <1>13
        <3>2. PICK b \in Numbered :
                  /\ e \in SlotTree(p, b)
                  /\ \A i \in 1..Len(functionImpls) : Rank(p, b) <= Rank(p, functionImpls[i])
            BY <2>1, <3>1
        <3>3. b \in ProgramEntries(p)
            BY <1>6, TreeBasics
        <3>4. g \in SlotTree(p, b)
            BY <1>5, <3>2, <3>3, SlotTreeFacts
        <3>5. QED
            BY <1>7, <2>3, <3>2, <3>4
    <2>4. QED
        BY <1>7, <2>2, <2>3
<1>23. QED
    BY <1>19, <1>20, <1>21, <1>22 DEF TreeInv

\* The stack when the topmost call returns,
LEMMA PoppedStack ==
    ASSUME TypeOK, FinishFunction, NEW n, n = Len(stack)
    PROVE  /\ n \in Nat \ {0} /\ n \in 1..n /\ Top = stack[n]
           /\ n = 1 => Len(stack') = 0
           /\ n # 1 => /\ Len(stack') = n - 1
                       /\ stack'[n - 1].last = Top.last
                       /\ stack'[n - 1].todo = stack[n - 1].todo
                       /\ \A i \in 1..(n - 2) : stack'[i] = stack[i]
           /\ \A i \in 1..Len(stack') : /\ i \in 1..n /\ i < n /\ n # 1 /\ i + 1 \in 1..n
                                       /\ stack'[i].entry = stack[i].entry
                                       /\ stack'[i].first = stack[i].first
                                       /\ stack'[i].todo = stack[i].todo
           /\ \A i \in 1..n : i = n \/ i \in 1..Len(stack')
<1>1. stack \in Seq(Frame)
    BY StackType
<1>2. n \in Nat \ {0} /\ n \in 1..n /\ Top = stack[n]
    BY <1>1 DEF Top, FinishFunction
<1>3. CASE n = 1
    BY <1>2, <1>3 DEF FinishFunction
<1>4. CASE n # 1
    <2> DEFINE fr == Call(Caller.entry, Caller.first, Top.last, Caller.todo)
               rest == SubSeq(stack, 1, n - 2)
               S == Frame \cup {fr}
    <2>1. n - 1 \in 1..n /\ n - 2 \in 0..n /\ Caller = stack[n - 1]
        BY <1>2, <1>4 DEF Caller
    <2>2. /\ rest \in Seq(Frame) /\ Len(rest) = n - 2
          /\ \A i \in 1..(n - 2) : rest[i] = stack[i]
        BY <1>1, <2>1, Prefix
    <2>3. rest \in Seq(S) /\ fr \in S
        BY <2>2
    <2>4. stack' = Append(rest, fr)
        BY <1>4 DEF FinishFunction
    <2>5. /\ fr.entry = stack[n - 1].entry /\ fr.first = stack[n - 1].first
          /\ fr.last = Top.last /\ fr.todo = stack[n - 1].todo
        BY <2>1 DEF Call
    <2> HIDE DEF rest, fr, S
    <2>6. /\ Len(stack') = n - 1 /\ stack'[n - 1] = fr
          /\ \A i \in 1..(n - 2) : stack'[i] = rest[i]
        BY <1>2, <1>4, <2>2, <2>3, <2>4
    <2>7. \A i \in 1..(n - 1) : /\ i \in 1..n /\ i < n /\ i + 1 \in 1..n
                                /\ i = n - 1 \/ i \in 1..(n - 2)
        BY <1>2, <1>4
    <2>8. \A i \in 1..n : i = n \/ i \in 1..(n - 1)
        BY <1>2
    <2>9. \A i \in 1..(n - 1) : /\ stack'[i].entry = stack[i].entry
                                /\ stack'[i].first = stack[i].first
                                /\ stack'[i].todo = stack[i].todo
        BY <2>2, <2>5, <2>6, <2>7
    <2>10. QED
        BY <1>2, <1>4, <2>2, <2>5, <2>6, <2>7, <2>8, <2>9
<1>5. QED
    BY <1>3, <1>4

\* and what changes.
LEMMA FinishStep ==
    ASSUME NEW p \in Programs, TypeOK, LaidInv(p), FinishFunction, NEW e, e = Top.entry
    PROVE  /\ stack # <<>> /\ Top.todo = {}
           /\ cha = p.cha /\ cha' = cha /\ Collected /\ Numbered' = Numbered
           /\ e \in Numbered /\ e \in ProgramEntries(p)
           /\ Top.first \in Nat /\ Top.last \in Nat
           /\ DOMAIN functionRangeMap' = DOMAIN functionRangeMap \cup {e}
           /\ functionRangeMap'[e] = <<Top.first, Top.last>>
           /\ \A x \in DOMAIN functionRangeMap : x # e => functionRangeMap'[x] = functionRangeMap[x]
           /\ UNCHANGED <<functionImpls, collectVars, functionMap, functionIDMap, currentID>>
<1>1. /\ stack # <<>> /\ Top.todo = {}
      /\ functionRangeMap' = Put(functionRangeMap, Top.entry, <<Top.first, Top.last>>)
      /\ UNCHANGED <<cha, functionImpls, collectVars, functionMap, functionIDMap, currentID>>
    BY DEF FinishFunction
<1>2. /\ cha = p.cha /\ cha' = cha /\ Collected /\ Numbered' = Numbered
    BY <1>1 DEF LaidInv, Reading, Numbered
<1>3. \E n \in 1..Len(stack) : Top = stack[n]
    BY PoppedStack
<1>4. /\ e \in Numbered /\ e \in ProgramEntries(p)
      /\ Top.first \in Nat /\ Top.last \in Nat
    BY <1>2, <1>3, TreeBasics
<1>5. /\ DOMAIN functionRangeMap' = DOMAIN functionRangeMap \cup {e}
      /\ functionRangeMap'[e] = <<Top.first, Top.last>>
      /\ \A x \in DOMAIN functionRangeMap : x # e => functionRangeMap'[x] = functionRangeMap[x]
    BY <1>1 DEF Put
<1>6. QED
    BY <1>1, <1>2, <1>4, <1>5

LEMMA FinishLaid ==
    ASSUME NEW p \in Programs, TypeOK, LaidInv(p), FinishFunction
    PROVE  LaidInv(p)'
<1>1. /\ cha = p.cha /\ cha' = cha /\ Collected /\ Numbered' = Numbered
      /\ UNCHANGED <<functionImpls, collectVars, functionMap, functionIDMap, currentID>>
    BY FinishStep
<1>2. /\ Seen(p)' = Seen(p) /\ Collected'
      /\ UNCHANGED <<order, slots, functionImplMap>>
    BY <1>1 DEF Seen, collectVars, Collected
<1>3. Implemented'
    <2>1. \A h : ImplEntries(h)' = ImplEntries(h)
        BY <1>1 DEF ImplEntries, Entries
    <2>2. Implemented
        BY DEF LaidInv
    <2>3. QED
        BY <1>1, <1>2, <2>1, <2>2 DEF Implemented
<1>4. Reading(p)' /\ Collecting(p)'
    BY <1>1, <1>2 DEF LaidInv, Reading, Collecting
<1>5. Keyed' /\ Queued(p)'
    BY <1>1, <1>2 DEF LaidInv, Keyed, Queued, Rank
<1>6. QED
    BY <1>3, <1>4, <1>5 DEF LaidInv

\* In a forest, a call that returns has numbered its subtree, and its caller has
\* then numbered what it waited for.
LEMMA FinishTree ==
    ASSUME NEW p \in Programs, TypeOK, RangeConsistent, TreeInv(p), FinishFunction
    PROVE  TreeInv(p)'
<1>1. PICK e, n : e = Top.entry /\ n = Len(stack)
    OBVIOUS
<1>2. /\ n \in Nat \ {0} /\ n \in 1..n /\ Top = stack[n]
      /\ n = 1 => Len(stack') = 0
      /\ n # 1 => /\ Len(stack') = n - 1
                  /\ stack'[n - 1].last = Top.last
                  /\ stack'[n - 1].todo = stack[n - 1].todo
                  /\ \A i \in 1..(n - 2) : stack'[i] = stack[i]
      /\ \A i \in 1..Len(stack') : /\ i \in 1..n /\ i < n /\ n # 1 /\ i + 1 \in 1..n
                                  /\ stack'[i].entry = stack[i].entry
                                  /\ stack'[i].first = stack[i].first
                                  /\ stack'[i].todo = stack[i].todo
      /\ \A i \in 1..n : i = n \/ i \in 1..Len(stack')
    BY <1>1, PoppedStack
<1>3. /\ Top.todo = {}
      /\ cha = p.cha /\ cha' = cha /\ Numbered' = Numbered
      /\ e \in Numbered /\ e \in ProgramEntries(p)
      /\ Top.first \in Nat /\ Top.last \in Nat
      /\ DOMAIN functionRangeMap' = DOMAIN functionRangeMap \cup {e}
      /\ functionRangeMap'[e] = <<Top.first, Top.last>>
      /\ \A x \in DOMAIN functionRangeMap : x # e => functionRangeMap'[x] = functionRangeMap[x]
      /\ UNCHANGED <<functionImpls, functionIDMap, currentID>>
    BY <1>1, FinishStep DEF TreeInv
<1>4. FrameOK(p, n)
    BY <1>1, <1>2 DEF TreeInv, Walking
<1>5. /\ SlotTree(p, e) \subseteq Numbered
      /\ \A x \in Numbered :
            functionIDMap[x] \in Top.first..Top.last <=> x \in SlotTree(p, e)
    <2>1. \A x : ~Active(p, n, x)
        BY <1>1, <1>2 DEF Active
    <2>2. QED
        BY <1>1, <1>2, <1>3, <1>4, <2>1 DEF FrameOK
<1>6. LaidInv(p)'
    BY FinishLaid DEF TreeInv
<1>7. Based(p)'
    BY <1>3 DEF TreeInv, Based, Rank, SlotTree
<1>8. Ranged(p)'
    <2>1. ASSUME NEW x \in DOMAIN functionRangeMap'
          PROVE  /\ SlotTree(p, x) \subseteq Numbered
                 /\ \A y \in Numbered :
                       functionIDMap[y] \in functionRangeMap'[x][1]..functionRangeMap'[x][2]
                           <=> y \in SlotTree(p, x)
        <3>1. CASE x = e
            BY <1>3, <1>5, <3>1
        <3>2. CASE x # e
            <4>1. x \in DOMAIN functionRangeMap /\ functionRangeMap'[x] = functionRangeMap[x]
                BY <1>3, <3>2
            <4>2. QED
                BY <4>1 DEF TreeInv, LaidInv, Ranged, InRange, Numbered
        <3>3. QED
            BY <3>1, <3>2
    <2>2. \A x \in Numbered :
              x \in DOMAIN functionRangeMap' \/ \E i \in 1..Len(stack') : stack'[i].entry = x
        <3> SUFFICES ASSUME NEW x \in Numbered, x \notin DOMAIN functionRangeMap'
                     PROVE  \E i \in 1..Len(stack') : stack'[i].entry = x
            OBVIOUS
        <3>1. x \notin DOMAIN functionRangeMap /\ x # e
            BY <1>3
        <3>2. PICK i \in 1..n : stack[i].entry = x
            BY <1>1, <3>1 DEF TreeInv, LaidInv, Ranged
        <3>3. i # n
            BY <1>1, <1>2, <3>1, <3>2
        <3>4. QED
            BY <1>2, <3>2, <3>3
    <2>3. \A x \in DOMAIN functionRangeMap', y \in Numbered :
              InRange(functionRangeMap[x], y)' <=>
                  functionIDMap[y] \in functionRangeMap'[x][1]..functionRangeMap'[x][2]
        BY <1>3 DEF InRange, Numbered
    <2>4. QED
        BY <1>3, <2>1, <2>2, <2>3 DEF Ranged, SlotTree
<1>9. ASSUME NEW i \in 1..Len(stack') PROVE FrameOK(p, i)'
    <2>1. /\ i \in 1..n /\ i < n /\ n # 1 /\ i + 1 \in 1..n
          /\ stack'[i].entry = stack[i].entry
        BY <1>2
    <2>2. FrameOK(p, i)
        BY <1>1, <2>1 DEF TreeInv, LaidInv, Walking
    <2>3. \A j \in i..Len(stack') : stack'[j].entry \in SlotTree(p, stack[i].entry)
        <3> SUFFICES ASSUME NEW j \in i..Len(stack') PROVE stack'[j].entry \in SlotTree(p, stack[i].entry)
            OBVIOUS
        <3>1. j \in 1..Len(stack') /\ j \in i..n
            BY <1>2, <2>1
        <3>2. QED
            BY <1>1, <1>2, <2>2, <3>1 DEF FrameOK
    <2>4. CASE i # n - 1
        <3>1. stack'[i] = stack[i] /\ i + 1 \in 1..Len(stack') /\ i < Len(stack')
            BY <1>2, <2>1, <2>4
        <3>2. stack'[i + 1].entry = stack[i + 1].entry
            BY <1>2, <3>1
        <3>3. \A x : Active(p, i, x)' <=> Active(p, i, x)
            BY <1>1, <2>1, <3>1, <3>2 DEF Active, SlotTree
        <3>4. /\ stack[i + 1].entry.offsetInVTable = stack[i].entry.offsetInVTable
              /\ stack[i + 1].entry.vTable \in cha.children[stack[i].entry.vTable] \ stack[i].todo
            BY <1>1, <2>1, <2>2 DEF FrameOK
        <3>5. QED
            BY <1>3, <2>2, <2>3, <3>1, <3>2, <3>3, <3>4 DEF FrameOK, SlotTree
    <2>5. CASE i = n - 1
        <3>1. /\ Len(stack') = i /\ i + 1 = n
              /\ stack'[i].first = stack[i].first /\ stack'[i].last = Top.last
              /\ stack'[i].todo = stack[i].todo
            BY <1>2, <2>1, <2>5
        <3>2. stack[i + 1].entry = e /\ i < Len(stack) /\ i \in 1..Len(stack)
            BY <1>1, <1>2, <2>1, <3>1
        <3>3. \A x : ~Active(p, i, x)'
            BY <2>1, <3>1 DEF Active
        <3>4. \A x : Active(p, i, x) <=> x \in SlotTree(p, e)
            BY <3>2 DEF Active
        <3>5. SlotTree(p, e) \subseteq SlotTree(p, stack[i].entry)
            BY <3>2, FrameBelow
        <3>6. \A x \in SlotTree(p, stack[i].entry) :
                  x \in Numbered \/ \E c \in stack[i].todo :
                      x \in EntriesBelow(cha, c, stack[i].entry.offsetInVTable)
            BY <1>5, <2>2, <3>4 DEF FrameOK
        <3>7. \A x \in Numbered :
                  functionIDMap[x] \in stack[i].first..Top.last <=> x \in SlotTree(p, stack[i].entry)
            <4> SUFFICES ASSUME NEW x \in Numbered
                         PROVE  functionIDMap[x] \in stack[i].first..Top.last
                                    <=> x \in SlotTree(p, stack[i].entry)
                OBVIOUS
            <4>1. stack[i].last + 1 = Top.first
                <5>1. i \in 1..(Len(stack) - 1)
                    BY <1>1, <1>2, <2>1, <3>1
                <5>2. QED
                    BY <1>2, <3>1, <5>1 DEF RangeConsistent
            <4>2. /\ functionIDMap[x] \in Nat
                  /\ stack[i].first \in Nat /\ stack[i].last \in Nat
                  /\ Top.first \in Nat /\ Top.last \in Nat
                BY <1>1, <1>2, <1>3, <2>1, TreeBasics
            <4>3. /\ stack[i].first <= Top.first
                  /\ stack[i].last <= Top.last
                <5>1. functionIDMap[stack[i].entry] \in stack[i].first..stack[i].last
                    <6>1. stack[i].entry \in Numbered /\ stack[i].entry \in ProgramEntries(p)
                        BY <1>1, <1>2, <1>3, <2>1, TreeBasics
                    <6>2. stack[i].entry \notin SlotTree(p, e)
                        <7>1. e \in SlotTree(p, e) /\ stack[i].entry \in SlotTree(p, stack[i].entry)
                            BY <1>3, <6>1, SlotTreeFacts
                        <7>2. e.vTable \in p.cha.children[stack[i].entry.vTable]
                                  /\ e.offsetInVTable = stack[i].entry.offsetInVTable
                            BY <1>3, <2>2, <3>2 DEF FrameOK
                        <7>3. SlotTree(p, e) = EntriesBelow(p.cha, e.vTable, stack[i].entry.offsetInVTable)
                            BY <7>2 DEF SlotTree
                        <7>4. \A c \in p.cha.children[stack[i].entry.vTable] :
                                  stack[i].entry \notin
                                      EntriesBelow(p.cha, c, stack[i].entry.offsetInVTable)
                            BY <6>1, SlotTreeChildren
                        <7>5. QED
                            BY <7>2, <7>3, <7>4
                    <6>3. stack[i].entry \in SlotTree(p, stack[i].entry)
                        BY <6>1, SlotTreeFacts
                    <6>4. QED
                        BY <2>2, <3>4, <6>1, <6>2, <6>3 DEF FrameOK
                <5>2. functionIDMap[e] \in Top.first..Top.last
                    BY <1>3, <1>5, SlotTreeFacts
                <5>3. stack[i].first <= stack[i].last /\ Top.first <= Top.last
                    <6>1. e \in Numbered /\ stack[i].entry \in Numbered
                        BY <1>3, <3>2, TreeBasics
                    <6>2. functionIDMap[e] \in Nat /\ functionIDMap[stack[i].entry] \in Nat
                        BY <1>3, <6>1, TreeBasics
                    <6>3. QED
                        BY <4>2, <5>1, <5>2, <6>2
                <5>4. QED
                    BY <4>1, <4>2, <5>3
            <4>4. functionIDMap[x] \in stack[i].first..Top.last <=>
                      \/ functionIDMap[x] \in stack[i].first..stack[i].last
                      \/ functionIDMap[x] \in Top.first..Top.last
                BY <4>1, <4>2, <4>3
            <4>5. functionIDMap[x] \in stack[i].first..stack[i].last
                      <=> x \in SlotTree(p, stack[i].entry) /\ x \notin SlotTree(p, e)
                BY <2>2, <3>4 DEF FrameOK
            <4>6. QED
                BY <1>5, <3>5, <4>4, <4>5
        <3>8. stack[i].todo \subseteq cha.children[stack[i].entry.vTable]
              /\ \A c \in stack[i].todo :
                    EntriesBelow(cha, c, stack[i].entry.offsetInVTable) \cap Numbered = {}
            BY <2>2 DEF FrameOK
        <3>9. ~(i < Len(stack'))
            BY <3>1
        <3>10. QED
            BY <1>3, <2>1, <2>3, <3>1, <3>3, <3>6, <3>7, <3>8, <3>9 DEF FrameOK, SlotTree
    <2>6. QED
        BY <2>4, <2>5
<1>10. Walking(p)'
    BY <1>9 DEF Walking
<1>11. Tree(p)
    BY DEF TreeInv
<1>12. QED
    BY <1>6, <1>7, <1>8, <1>10, <1>11 DEF TreeInv

\* In any program, a call that begins has a higher ID than all that went before,
LEMMA EnterHeap ==
    ASSUME NEW p \in Programs, TypeOK, LaidInv(p), HeapInv(p),
           NEW g \in ProgramEntries(p), NEW frames, Enter(g, frames),
           UNCHANGED <<cha, functionRangeMap>>
    PROVE  /\ HeapRanges'
           /\ Numbered' = Numbered \cup {g}
           /\ functionIDMap'[g] = currentID
           /\ \A e \in Numbered : e # g => functionIDMap'[e] = functionIDMap[e]
           /\ \A e \in DOMAIN functionRangeMap : From(e)' = From(e) /\ From(e) < currentID
<1>1. cha = p.cha
    BY DEF LaidInv, Reading
<1>2. /\ Numbered' = Numbered \cup {g}
      /\ functionIDMap'[g] = currentID
      /\ \A e \in Numbered : e # g => functionIDMap'[e] = functionIDMap[e]
    BY DEF Enter, Put, Numbered
<1>3. ASSUME NEW e \in DOMAIN functionRangeMap
      PROVE  /\ From(e)' = From(e) /\ From(e) < currentID /\ From(e) <= functionIDMap'[e]
    <2>1. functionRangeMap[e] \in Ids \X Ids /\ currentID \in Nat /\ e \in Numbered
        BY <1>1, TreeBasics DEF TypeOK
    <2>2. From(e) \in Nat /\ From(e) < currentID /\ From(e)' = From(e)
        BY <2>1 DEF Ids, From
    <2>3. CASE e = g
        BY <1>2, <2>1, <2>2, <2>3
    <2>4. CASE e # g
        BY <1>2, <2>1, <2>2, <2>4 DEF HeapInv, HeapRanges
    <2>5. QED
        BY <2>2, <2>3, <2>4
<1>4. HeapRanges'
    <2>1. HeapRanges
        BY DEF HeapInv
    <2>2. \A e, c : ChildEntries(e, c)' = ChildEntries(e, c)
        BY DEF ChildEntries
    <2>3. QED
        BY <1>3, <2>1, <2>2 DEF HeapRanges
<1>5. QED
    BY <1>2, <1>3, <1>4

LEMMA NumberBaseHeap ==
    ASSUME NEW p \in Programs, TypeOK, LaidInv(p), HeapInv(p), NumberBase
    PROVE  HeapInv(p)'
<1>1. /\ stack = <<>> /\ functionImpls # <<>>
      /\ Enter(Head(functionImpls), <<>>)
      /\ UNCHANGED <<cha, functionRangeMap>>
    BY DEF NumberBase
<1>2. PICK g : g = Head(functionImpls)
    OBVIOUS
<1>3. cha = p.cha /\ g \in ProgramEntries(p) /\ currentID \in Nat /\ Len(stack) = 0
    BY <1>1, <1>2, BaseEntry, TreeBasics DEF LaidInv, Reading
<1>4. /\ HeapRanges'
      /\ Numbered' = Numbered \cup {g}
      /\ functionIDMap'[g] = currentID
      /\ \A e \in DOMAIN functionRangeMap : From(e)' = From(e) /\ From(e) < currentID
    BY <1>1, <1>2, <1>3, EnterHeap
<1>5. /\ Len(stack') = 1
      /\ stack'[1] = Call(g, currentID, currentID, cha.children[g.vTable])
    BY <1>1, <1>2 DEF Enter
<1>6. /\ stack'[1].entry = g /\ stack'[1].first = currentID
      /\ stack'[1].todo = cha'.children[g.vTable]
    BY <1>1, <1>5 DEF Call
<1>7. HeapFrame(stack, 1)'
    BY <1>1, <1>3, <1>4, <1>6 DEF HeapFrame
<1>8. \A i \in 1..Len(stack') : i = 1
    BY <1>5
<1>9. \A i, j \in 1..Len(stack') : ~(i < j)
    BY <1>5
<1>10. \A e \in Numbered' :
           e \in DOMAIN functionRangeMap' \/ \E i \in 1..Len(stack') : stack'[i].entry = e
    <2>1. \A e \in Numbered : e \in DOMAIN functionRangeMap
        BY <1>3 DEF HeapInv, HeapStack
    <2>2. QED
        BY <1>1, <1>4, <1>5, <1>6, <2>1
<1>11. HeapStack(p)'
    BY <1>7, <1>8, <1>9, <1>10 DEF HeapStack
<1>12. QED
    BY <1>4, <1>11 DEF HeapInv

LEMMA NumberChildHeap ==
    ASSUME NEW p \in Programs, TypeOK, LaidInv(p), HeapInv(p), NumberChild
    PROVE  HeapInv(p)'
<1>1. stack # <<>> /\ UNCHANGED <<cha, functionImpls, collectVars, functionRangeMap>>
    BY ChildStep
<1>2. PICK c \in Top.todo : \E g \in cha.functions[c] :
            g.offsetInVTable = Top.entry.offsetInVTable /\ Enter(g, Callers(c))
    BY ChildStep
<1>3. PICK g \in cha.functions[c] :
            g.offsetInVTable = Top.entry.offsetInVTable /\ Enter(g, Callers(c))
    BY <1>2
<1>4. PICK n : n = Len(stack)
    OBVIOUS
<1>5. /\ cha = p.cha /\ g \in ProgramEntries(p) /\ g.vTable = c
      /\ Top.entry \in ProgramEntries(p) /\ c \in p.cha.children[Top.entry.vTable]
      /\ Rank(p, Top.entry) < Rank(p, g)
    BY <1>1, <1>3, ChildEntry
<1>6. /\ HeapRanges'
      /\ Numbered' = Numbered \cup {g}
      /\ functionIDMap'[g] = currentID
      /\ \A e \in Numbered : e # g => functionIDMap'[e] = functionIDMap[e]
      /\ \A e \in DOMAIN functionRangeMap : From(e)' = From(e) /\ From(e) < currentID
    BY <1>1, <1>3, <1>5, EnterHeap
<1>7. /\ n \in Nat \ {0} /\ Len(stack') = n + 1 /\ Top = stack[n]
      /\ stack'[n + 1].entry = g /\ stack'[n + 1].first = currentID
      /\ stack'[n + 1].todo = cha.children[g.vTable]
      /\ stack'[n].todo = Top.todo \ {c}
      /\ \A i \in 1..(n - 1) : stack'[i] = stack[i]
      /\ \A i \in 1..n : stack'[i].entry = stack[i].entry /\ stack'[i].first = stack[i].first
    BY <1>1, <1>3, <1>4, PushedStack
<1>8. /\ \A i \in 1..n : HeapFrame(stack, i)
      /\ \A i, j \in 1..n : i < j => /\ Rank(p, stack[i].entry) < Rank(p, stack[j].entry)
                                    /\ stack[i].first < stack[j].first
      /\ \A e \in Numbered : e \in DOMAIN functionRangeMap \/ \E i \in 1..n : stack[i].entry = e
    BY <1>4 DEF HeapInv, HeapStack
<1>9. \A i \in 1..(n + 1) : i \in 1..n \/ i = n + 1
    BY <1>7
<1>10. \A i \in 1..n : i \in 1..(n - 1) \/ i = n
    BY <1>7
<1>11. n \in 1..n /\ n + 1 \in 1..(n + 1) /\ currentID \in Nat
    BY <1>5, <1>7, TreeBasics
<1>12. ASSUME NEW i \in 1..n
       PROVE  /\ stack[i].entry \in Numbered /\ Rank(p, stack[i].entry) < Rank(p, g)
              /\ stack[i].entry # g
              /\ stack[i].first < currentID
    <2>1. /\ stack[i].entry \in Numbered /\ stack[i].entry \in ProgramEntries(p)
          /\ stack[i].first \in Nat
        BY <1>4, <1>5, TreeBasics
    <2>2. Rank(p, stack[i].entry) \in Nat /\ Rank(p, Top.entry) \in Nat /\ Rank(p, g) \in Nat
        BY <1>5, <2>1, EntryFacts
    <2>3. i = n \/ i < n
        BY <1>7
    <2>4. Rank(p, stack[i].entry) < Rank(p, g)
        BY <1>5, <1>7, <1>8, <1>11, <2>2, <2>3
    <2>5. stack[i].first <= functionIDMap[stack[i].entry]
        BY <1>8 DEF HeapFrame
    <2>6. functionIDMap[stack[i].entry] \in 1..(currentID - 1)
        BY <1>5, <2>1, TreeBasics
    <2>7. stack[i].first < currentID
        BY <1>11, <2>1, <2>5, <2>6
    <2>8. QED
        BY <2>1, <2>2, <2>4, <2>7
<1>13. \A e, d : ChildEntries(e, d)' = ChildEntries(e, d)
    BY <1>1 DEF ChildEntries
<1>14. ASSUME NEW i \in 1..n PROVE HeapFrame(stack, i)'
    <2>1. PICK e, a : e = stack[i].entry /\ a = stack[i].first
        OBVIOUS
    <2>2. /\ stack'[i].entry = e /\ stack'[i].first = a
          /\ functionIDMap'[e] = functionIDMap[e]
        BY <1>6, <1>7, <1>12, <2>1
    <2>3. /\ stack[i].todo \subseteq cha.children[e.vTable]
          /\ a <= functionIDMap[e]
          /\ e \in DOMAIN functionRangeMap => From(e) < a
          /\ \A d \in cha.children[e.vTable] \ stack[i].todo : \A h \in ChildEntries(e, d) :
                \/ h \in DOMAIN functionRangeMap /\ a < From(h)
                \/ i < n /\ stack[i + 1].entry = h
        BY <1>4, <1>8, <2>1 DEF HeapFrame
    <2>4. /\ stack'[i].todo \subseteq cha.children[e.vTable]
          /\ \A d \in cha.children[e.vTable] \ stack'[i].todo : \A h \in ChildEntries(e, d) :
                \/ h \in DOMAIN functionRangeMap /\ a < From(h)
                \/ i < n + 1 /\ stack'[i + 1].entry = h
        <3>1. CASE i = n
            <4>1. /\ stack'[i].todo = stack[i].todo \ {c} /\ i < n + 1 /\ ~(i < n)
                  /\ stack'[i + 1].entry = g
                BY <1>7, <3>1
            <4>2. \A h \in ChildEntries(e, c) : h = g
                <5>1. /\ e = Top.entry /\ c \in p.cha.vtables /\ g \in p.cha.functions[c]
                    <6>1. Top.entry.vTable \in p.cha.vtables
                        BY <1>5, EntryFacts
                    <6>2. c \in p.cha.vtables
                        BY <1>5, <6>1, ProgramRanked DEF Ranked
                    <6>3. QED
                        BY <1>3, <1>5, <1>7, <2>1, <3>1, <6>2
                <5>2. \A h \in p.cha.functions[c] : h.offsetInVTable = g.offsetInVTable => h = g
                    BY <1>5, <5>1, EntryFacts
                <5>3. QED
                    BY <1>3, <1>5, <5>1, <5>2 DEF ChildEntries
            <4>3. QED
                BY <2>3, <4>1, <4>2
        <3>2. CASE i # n
            <4>1. /\ stack'[i] = stack[i] /\ i + 1 \in 1..n /\ i < n + 1
                  /\ stack'[i + 1].entry = stack[i + 1].entry
                BY <1>7, <1>10, <3>2
            <4>2. QED
                BY <2>3, <4>1
        <3>3. QED
            BY <3>1, <3>2
    <2>5. \A h \in DOMAIN functionRangeMap : From(h)' = From(h)
        BY <1>6
    <2>6. QED
        BY <1>1, <1>7, <1>13, <2>2, <2>3, <2>4, <2>5 DEF HeapFrame
<1>15. HeapFrame(stack, n + 1)'
    BY <1>1, <1>6, <1>7, <1>11 DEF HeapFrame
<1>16. ASSUME NEW i \in 1..(n + 1), NEW j \in 1..(n + 1), i < j
       PROVE  /\ Rank(p, stack'[i].entry) < Rank(p, stack'[j].entry)
              /\ stack'[i].first < stack'[j].first
    <2>1. i \in 1..n
        BY <1>7, <1>16
    <2>2. CASE j \in 1..n
        BY <1>7, <1>8, <1>16, <2>1, <2>2
    <2>3. CASE j = n + 1
        BY <1>7, <1>12, <2>1, <2>3
    <2>4. QED
        BY <1>9, <2>2, <2>3
<1>17. \A e \in Numbered' :
           e \in DOMAIN functionRangeMap' \/ \E i \in 1..(n + 1) : stack'[i].entry = e
    <2>1. \A i \in 1..n : i \in 1..(n + 1)
        BY <1>7
    <2>2. QED
        BY <1>1, <1>6, <1>7, <1>8, <1>11, <2>1
<1>18. HeapStack(p)'
    BY <1>7, <1>9, <1>14, <1>15, <1>16, <1>17 DEF HeapStack, Rank
<1>19. QED
    BY <1>6, <1>18 DEF HeapInv

\* and one that returns has a first ID below those of the calls it has made.
LEMMA FinishHeap ==
    ASSUME NEW p \in Programs, TypeOK, LaidInv(p), HeapInv(p), FinishFunction
    PROVE  HeapInv(p)'
<1>1. PICK e, n, a : e = Top.entry /\ n = Len(stack) /\ a = Top.first
    OBVIOUS
<1>2. /\ n \in 1..n /\ Top = stack[n] /\ n \in Nat
      /\ n # 1 => Len(stack') = n - 1
      /\ \A i \in 1..Len(stack') : /\ i \in 1..n /\ i < n /\ n # 1 /\ i + 1 \in 1..n
                                  /\ stack'[i].entry = stack[i].entry
                                  /\ stack'[i].first = stack[i].first
                                  /\ stack'[i].todo = stack[i].todo
      /\ \A i \in 1..n : i = n \/ i \in 1..Len(stack')
    BY <1>1, PoppedStack
<1>3. /\ Top.todo = {}
      /\ cha = p.cha /\ cha' = cha /\ Numbered' = Numbered
      /\ e \in Numbered /\ e \in ProgramEntries(p)
      /\ DOMAIN functionRangeMap' = DOMAIN functionRangeMap \cup {e}
      /\ functionRangeMap'[e] = <<Top.first, Top.last>>
      /\ \A x \in DOMAIN functionRangeMap : x # e => functionRangeMap'[x] = functionRangeMap[x]
      /\ functionIDMap' = functionIDMap
    BY <1>1, FinishStep
<1>4. /\ From(e)' = a
      /\ \A x \in DOMAIN functionRangeMap : x # e => From(x)' = From(x)
    BY <1>1, <1>3 DEF From
<1>5. /\ \A i \in 1..n : HeapFrame(stack, i)
      /\ \A i, j \in 1..n : i < j => /\ Rank(p, stack[i].entry) < Rank(p, stack[j].entry)
                                    /\ stack[i].first < stack[j].first
      /\ \A x \in Numbered : x \in DOMAIN functionRangeMap \/ \E i \in 1..n : stack[i].entry = x
      /\ HeapRanges
    BY <1>1 DEF HeapInv, HeapStack
<1>6. \A x, d : ChildEntries(x, d)' = ChildEntries(x, d)
    BY <1>3 DEF ChildEntries
<1>7. /\ a <= functionIDMap[e]
      /\ e \in DOMAIN functionRangeMap => From(e) < a
      /\ \A d \in cha.children[e.vTable] : \A h \in ChildEntries(e, d) :
            h \in DOMAIN functionRangeMap /\ a < From(h)
    <2>1. HeapFrame(stack, n) /\ ~(n < n)
        BY <1>2, <1>5
    <2>2. QED
        BY <1>1, <1>2, <1>3, <2>1 DEF HeapFrame
<1>8. \A d \in cha.children[e.vTable] : \A h \in ChildEntries(e, d) : h # e
    BY <1>3, SlotTreeChildren, SlotTreeFacts DEF ChildEntries
<1>9. /\ a \in Nat
      /\ \A x \in DOMAIN functionRangeMap : From(x) \in Nat
      /\ \A i \in 1..n : /\ stack[i].first \in Nat /\ stack[i].entry \in Numbered
                         /\ stack[i].entry \in ProgramEntries(p)
    <2>1. \A i \in 1..n : /\ stack[i].first \in Nat /\ stack[i].entry \in Numbered
                          /\ stack[i].entry \in ProgramEntries(p)
        BY <1>1, <1>3, TreeBasics
    <2>2. \A x \in DOMAIN functionRangeMap : From(x) \in Nat
        BY <1>3, TreeBasics DEF From
    <2>3. QED
        BY <1>1, <1>2, <2>1, <2>2
<1>10. ASSUME NEW x \in DOMAIN functionRangeMap', NEW d \in cha.children[x.vTable],
              NEW h \in ChildEntries(x, d)
       PROVE  h \in DOMAIN functionRangeMap' /\ From(x)' < From(h)'
    <2>1. CASE x = e
        BY <1>3, <1>4, <1>7, <1>8, <2>1
    <2>2. CASE x # e
        <3>1. /\ x \in DOMAIN functionRangeMap /\ From(x)' = From(x)
              /\ h \in DOMAIN functionRangeMap /\ From(x) < From(h)
            BY <1>3, <1>4, <1>5, <2>2 DEF HeapRanges
        <3>2. CASE h = e
            BY <1>3, <1>4, <1>7, <1>9, <3>1, <3>2
        <3>3. CASE h # e
            BY <1>3, <1>4, <3>1, <3>3
        <3>4. QED
            BY <3>2, <3>3
    <2>3. QED
        BY <2>1, <2>2
<1>11. \A x \in DOMAIN functionRangeMap' : From(x)' <= functionIDMap[x]
    BY <1>3, <1>4, <1>5, <1>7 DEF HeapRanges
<1>12. HeapRanges'
    BY <1>3, <1>6, <1>10, <1>11 DEF HeapRanges
<1>13. ASSUME NEW i \in 1..Len(stack') PROVE HeapFrame(stack, i)'
    <2>1. PICK x, b : x = stack[i].entry /\ b = stack[i].first
        OBVIOUS
    <2>2. /\ stack'[i].entry = x /\ stack'[i].first = b /\ stack'[i].todo = stack[i].todo
          /\ i \in 1..n /\ i < n /\ i + 1 \in 1..n
        BY <1>2, <2>1
    <2>3. x # e /\ b < a
        <3>1. /\ Rank(p, x) < Rank(p, e) /\ b < a
            BY <1>1, <1>2, <1>5, <2>1, <2>2
        <3>2. Rank(p, e) \in Nat
            BY <1>3, EntryFacts
        <3>3. QED
            BY <3>1, <3>2
    <2>4. /\ stack[i].todo \subseteq cha.children[x.vTable]
          /\ b <= functionIDMap[x]
          /\ x \in DOMAIN functionRangeMap => From(x) < b
          /\ \A d \in cha.children[x.vTable] \ stack[i].todo : \A h \in ChildEntries(x, d) :
                \/ h \in DOMAIN functionRangeMap /\ b < From(h)
                \/ stack[i + 1].entry = h
        BY <1>1, <1>5, <2>1, <2>2 DEF HeapFrame
    <2>5. ASSUME NEW d \in cha.children[x.vTable] \ stack[i].todo, NEW h \in ChildEntries(x, d)
          PROVE  \/ h \in DOMAIN functionRangeMap' /\ b < From(h)'
                 \/ i < Len(stack') /\ stack'[i + 1].entry = h
        <3>1. CASE h = e
            BY <1>3, <1>4, <2>3, <3>1
        <3>2. CASE h # e /\ h \in DOMAIN functionRangeMap /\ b < From(h)
            BY <1>3, <1>4, <3>2
        <3>3. CASE h # e /\ stack[i + 1].entry = h
            <4>1. i + 1 # n
                BY <1>1, <1>2, <3>3
            <4>2. i + 1 \in 1..Len(stack')
                BY <1>2, <2>2, <4>1
            <4>3. i < Len(stack') /\ stack'[i + 1].entry = stack[i + 1].entry
                BY <1>2, <2>2, <4>2
            <4>4. QED
                BY <3>3, <4>3
        <3>4. QED
            BY <2>4, <3>1, <3>2, <3>3
    <2>6. x \in DOMAIN functionRangeMap' => From(x)' < b
        BY <1>3, <1>4, <2>3, <2>4
    <2>7. QED
        BY <1>3, <1>6, <2>2, <2>4, <2>5, <2>6 DEF HeapFrame
<1>14. \A i, j \in 1..Len(stack') : i < j =>
           /\ Rank(p, stack'[i].entry) < Rank(p, stack'[j].entry)
           /\ stack'[i].first < stack'[j].first
    BY <1>2, <1>5
<1>15. \A x \in Numbered :
           x \in DOMAIN functionRangeMap' \/ \E i \in 1..Len(stack') : stack'[i].entry = x
    <2> SUFFICES ASSUME NEW x \in Numbered, x \notin DOMAIN functionRangeMap'
                 PROVE  \E i \in 1..Len(stack') : stack'[i].entry = x
        OBVIOUS
    <2>1. x \notin DOMAIN functionRangeMap /\ x # e
        BY <1>3
    <2>2. PICK i \in 1..n : stack[i].entry = x
        BY <1>5, <2>1
    <2>3. i \in 1..Len(stack')
        BY <1>1, <1>2, <2>1, <2>2
    <2>4. QED
        BY <1>2, <2>2, <2>3
<1>16. HeapStack(p)'
    BY <1>3, <1>13, <1>14, <1>15 DEF HeapStack, Rank
<1>17. QED
    BY <1>12, <1>16 DEF HeapInv

LEMMA NextProgram ==
    ASSUME NEW p \in Programs, TypeOK, RangeConsistent, PInv(p), [Next]_vars
    PROVE  PInv(p)'
<1>1. LaidInv(p) /\ HeapInv(p) /\ (Tree(p) => TreeInv(p))
    BY DEF PInv
<1>2. CASE NextClass
    BY <1>1, <1>2, NextClassTree
<1>3. CASE NewImpl
    BY <1>1, <1>3, NewImplTree
<1>4. CASE KnownImpl
    BY <1>1, <1>4, KnownImplTree
<1>5. CASE NumberBase
    BY <1>1, <1>5, NumberBaseLaid, NumberBaseHeap, NumberBaseTree DEF PInv
<1>6. CASE SkipNumbered
    BY <1>6, SkipNumberedTree
<1>7. CASE NumberChild
    BY <1>1, <1>7, NumberChildLaid, NumberChildHeap, NumberChildTree DEF PInv
<1>8. CASE FinishFunction
    BY <1>1, <1>8, FinishLaid, FinishHeap, FinishTree DEF PInv
<1>9. CASE UNCHANGED vars
    <2>1. /\ UNCHANGED <<cha, order, slots, functionImpls, functionImplMap, functionMap,
                         functionIDMap, functionRangeMap, stack>>
          /\ Seen(p)' = Seen(p)
        BY <1>9 DEF vars, collectVars, numberVars, Seen
    <2>2. Reading(p)' /\ Collecting(p)' /\ Keyed' /\ Queued(p)'
        BY <1>1, <2>1 DEF LaidInv, Reading, Collecting, Keyed, Queued, Rank, Collected, Numbered
    <2>3. Implemented'
        <3>1. \A h : ImplEntries(h)' = ImplEntries(h)
            BY <2>1 DEF ImplEntries, Entries
        <3>2. QED
            BY <1>1, <2>1, <3>1 DEF LaidInv, Implemented
    <2>4. ASSUME TreeInv(p) PROVE Based(p)' /\ Ranged(p)' /\ Walking(p)'
        <3>1. Based(p)' /\ Ranged(p)'
            BY <2>1, <2>4 DEF TreeInv, Based, Ranged, InRange, Rank, SlotTree, Numbered
        <3>2. \A k \in 1..Len(stack) : FrameOK(p, k)'
            BY <2>1, <2>4 DEF TreeInv, Walking, FrameOK, Active, SlotTree, Numbered
        <3>3. QED
            BY <2>1, <3>1, <3>2 DEF Walking
    <2>5. HeapInv(p)'
        BY <1>1, <2>1 DEF HeapInv, HeapRanges, HeapStack, HeapFrame, ChildEntries, From, Numbered, Rank
    <2>6. QED
        BY <1>1, <2>2, <2>3, <2>4, <2>5 DEF PInv, TreeInv, LaidInv
<1>10. QED
    BY <1>2, <1>3, <1>4, <1>5, <1>6, <1>7, <1>8, <1>9 DEF Next, Done

LEMMA NextTree == TypeOK /\ RangeConsistent /\ IInv /\ [Next]_vars => IInv'
<1> SUFFICES ASSUME TypeOK, RangeConsistent, IInv, [Next]_vars PROVE IInv'
    OBVIOUS
<1>1. PICK p \in Programs : PInv(p)
    BY DEF IInv
<1>2. PInv(p)'
    BY <1>1, NextProgram
<1>3. QED
    BY <1>2 DEF IInv

\* The invariant behind the theorems below: in any program the IDs below an
\* entry are above the first ID of its range, and in a forest what
\* buildFunctionInfo has numbered is closed under the recursion, its ranges are
\* subtrees, and every frame on the stack has numbered the subtrees of the
\* children it has left behind.
THEOREM TreeInvariant == Spec => []IInv
BY InitTree, NextTree, TypeCorrect, RangesAreConsistent, PTL DEF Spec

-----------------------------------------------------------------------------
\* The range that buildFunctionInfo records for an entry is its subtree: in a
\* program without virtual bases the return check with that range accepts the
\* functions that the slot may hold at or below the vtable, and no other.
THEOREM RangesAreTheSubtrees == Spec => []RangesAreSubtrees
<1>1. IInv => RangesAreSubtrees
    <2> SUFFICES ASSUME NEW p \in Programs, PInv(p), IsForest(cha.children),
                        NEW e \in DOMAIN functionRangeMap
                 PROVE  {f \in DOMAIN functionIDMap : InRange(functionRangeMap[e], f)} =
                        EntriesBelow(cha, e.vTable, e.offsetInVTable)
        BY DEF IInv, RangesAreSubtrees
    <2>1. TreeInv(p)
        BY DEF PInv, LaidInv, Reading, Tree
    <2>2. /\ SlotTree(p, e) \subseteq Numbered
          /\ \A x \in Numbered : InRange(functionRangeMap[e], x) <=> x \in SlotTree(p, e)
        BY <2>1 DEF TreeInv, Ranged
    <2>3. SlotTree(p, e) = EntriesBelow(cha, e.vTable, e.offsetInVTable)
        BY <2>1 DEF TreeInv, LaidInv, Reading, SlotTree
    <2>4. QED
        BY <2>2, <2>3 DEF Numbered
<1>2. QED
    BY <1>1, TreeInvariant, PTL

\* The functions that the slot of f runs in the vtables below f's: an entry of
\* the same slot tree as e runs the same function, if e and f are two slots of
\* one class for one function, and one of them belongs to the function's class.
LEMMA SameFunctions ==
    ASSUME NEW p \in Programs, NEW c \in p.cha.classes, NEW f \in p.cha.functions[<<c, 0>>],
           NEW e \in ProgramEntries(p), e.vTable[1] = c, f.functionName[1] = c,
           e.functionName = f.functionName,
           NEW v \in Below(p.cha.children, <<c, 0>>), NEW g \in p.cha.functions[v],
           g.offsetInVTable = f.offsetInVTable
    PROVE  \E y \in SlotTree(p, e) :
               y.functionName = g.functionName /\ y.vTable[1] = y.functionName[1]
<1> DEFINE Slot(u, h) == h \in p.cha.functions[u] /\ h.offsetInVTable = f.offsetInVTable
           Runs(u, h) == \E x \in SlotTree(p, e) :
                             x.vTable[1] = u[1] /\ x.functionName = h.functionName
           Owned(h) == \E y \in SlotTree(p, e) :
                           y.functionName = h.functionName /\ y.vTable[1] = y.functionName[1]
           S == {u \in Below(p.cha.children, <<c, 0>>) :
                    /\ \E h : Slot(u, h)
                    /\ \A h : Slot(u, h) => Runs(u, h) /\ Owned(h)}
<1>1. /\ <<c, 0>> \in p.cha.vtables
      /\ Ranked(p.cha.vtables, p.cha.children, VtableRanks(p), Len(p.order))
      /\ p.cha.children \in [p.cha.vtables -> SUBSET p.cha.vtables]
    BY ProgramRanked DEF Ranked
<1>2. /\ <<c, 0>> \in Below(p.cha.children, <<c, 0>>)
      /\ Below(p.cha.children, <<c, 0>>) \subseteq p.cha.vtables
      /\ \A u \in Below(p.cha.children, <<c, 0>>) :
            p.cha.children[u] \subseteq Below(p.cha.children, <<c, 0>>)
    BY <1>1, BelowFacts
<1>3. /\ SlotsInherited(p.cha) /\ SlotsOverridden(p.cha) /\ SlotsParallel(p.cha)
    BY LaidAssumption DEF Laid
<1>4. <<c, 0>> \in S
    <2>1. e \in SlotTree(p, e)
        BY SlotTreeFacts
    <2>2. \A h : Slot(<<c, 0>>, h) => h = f
        BY <1>1, <1>3 DEF SlotsInherited
    <2>3. Runs(<<c, 0>>, f) /\ Owned(f)
        BY <2>1
    <2>4. Slot(<<c, 0>>, f)
        OBVIOUS
    <2> HIDE DEF Slot, Runs, Owned
    <2>5. QED
        BY <1>2, <2>2, <2>3, <2>4
<1>5. ASSUME NEW u \in S, NEW w \in p.cha.children[u] PROVE w \in S
    <2>1. u \in p.cha.vtables /\ w \in p.cha.vtables /\ w \in Below(p.cha.children, <<c, 0>>)
        BY <1>1, <1>2
    <2>2. PICK h : Slot(u, h)
        OBVIOUS
    <2>3. Runs(u, h) /\ Owned(h)
        BY <2>2
    <2>4. \E k : Slot(w, k)
        BY <1>3, <2>1, <2>2 DEF SlotsInherited
    <2>5. ASSUME NEW k, Slot(w, k) PROVE Runs(w, k) /\ Owned(k)
        <3>1. PICK x \in SlotTree(p, e) : x.vTable[1] = u[1] /\ x.functionName = h.functionName
            BY <2>3
        <3>2. x \in ProgramEntries(p) /\ x.vTable \in p.cha.vtables /\ x \in p.cha.functions[x.vTable]
            BY SlotTreeFacts, EntryFacts
        <3>3. PICK t \in p.cha.children[x.vTable] : \E y \in p.cha.functions[t] :
                  /\ t[1] = w[1]
                  /\ y.offsetInVTable = x.offsetInVTable
                  /\ y.functionName = k.functionName
            <4>1. /\ h \in p.cha.functions[u] /\ k \in p.cha.functions[w]
                  /\ k.offsetInVTable = h.offsetInVTable
                BY <2>2, <2>5
            <4> HIDE DEF Slot, Runs, Owned, S
            <4>2. QED
                BY <1>3, <2>1, <3>1, <3>2, <4>1 DEF SlotsParallel
        <3>4. PICK y \in p.cha.functions[t] :
                  /\ t[1] = w[1]
                  /\ y.offsetInVTable = x.offsetInVTable
                  /\ y.functionName = k.functionName
            BY <3>3
        <3>5. y \in SlotTree(p, e) /\ y.vTable[1] = w[1]
            <4>1. /\ y \in ProgramEntries(p) /\ y.vTable = t
                  /\ SlotTree(p, y) = EntriesBelow(p.cha, t, x.offsetInVTable)
                BY <3>2, <3>4, SlotTreeChildren
            <4>2. y \in SlotTree(p, y)
                BY <4>1, SlotTreeFacts
            <4>3. y \in SlotTree(p, x)
                BY <3>2, <4>1, <4>2, ChildTree
            <4>4. QED
                BY <3>4, <4>1, <4>3, SlotTreeFacts
        <3>6. Runs(w, k)
            BY <3>4, <3>5
        <3>7. Owned(k)
            <4>1. CASE k.functionName = h.functionName
                BY <2>3, <4>1
            <4>2. CASE k.functionName # h.functionName
                <5>1. k.functionName[1] = w[1]
                    BY <1>3, <2>1, <2>2, <2>5, <4>2 DEF SlotsOverridden
                <5>2. QED
                    BY <3>4, <3>5, <5>1
            <4>3. QED
                BY <4>1, <4>2
        <3>8. QED
            BY <3>6, <3>7
    <2> HIDE DEF Slot, Runs, Owned
    <2>6. QED
        BY <2>1, <2>4, <2>5
<1>6. Below(p.cha.children, <<c, 0>>) \subseteq S
    <2>1. S \subseteq p.cha.vtables
        BY <1>2
    <2> HIDE DEF S
    <2>2. QED
        BY <1>1, <1>4, <1>5, <2>1, BelowLeast
<1>7. Owned(g)
    BY <1>6
<1>8. QED
    BY <1>7

\* What the maps hold when everything has been numbered.
LEMMA FinishedMaps ==
    ASSUME NEW p \in Programs, TypeOK, LaidInv(p), HeapInv(p), Finished
    PROVE  /\ cha = p.cha
           /\ \A e \in Numbered : e \in DOMAIN functionRangeMap
           /\ \A c \in p.cha.classes : \A f \in p.cha.functions[<<c, 0>>] :
                 \E h \in p.cha.functions[<<f.functionName[1], 0>>] :
                    /\ f.functionName \in DOMAIN functionImplMap
                    /\ f.functionName[1] \in p.cha.classes
                    /\ h.functionName = f.functionName
                    /\ FirstSlot(p.cha, h)
                    /\ functionImplMap[f.functionName] = ImplEntries(h)
                    /\ FuncAndClass(h) \in DOMAIN functionMap
<1>1. /\ cha = p.cha /\ stack = <<>> /\ functionImpls = <<>> /\ slots = {} /\ order = <<>>
    BY DEF LaidInv, Reading, Finished, Collected
<1>2. Len(stack) = 0 /\ Len(functionImpls) = 0 /\ Seen(p) = Len(p.order)
    BY <1>1, Positions DEF Seen
<1>3. \A e \in Numbered : e \in DOMAIN functionRangeMap
    BY <1>2 DEF HeapInv, HeapStack
<1>4. ASSUME NEW c \in p.cha.classes, NEW f \in p.cha.functions[<<c, 0>>]
      PROVE  f.functionName \in DOMAIN functionImplMap
    <2>1. Position(p.order, c) \in 1..Seen(p) /\ p.order[Position(p.order, c)] = c
        BY <1>2, Positions
    <2>2. QED
        BY <1>1, <2>1 DEF LaidInv, Collecting
<1>5. ASSUME NEW n \in DOMAIN functionImplMap
      PROVE  \E h \in p.cha.functions[<<n[1], 0>>] :
                 /\ n[1] \in p.cha.classes
                 /\ h.functionName = n
                 /\ FirstSlot(p.cha, h)
                 /\ functionImplMap[n] = ImplEntries(h)
                 /\ FuncAndClass(h) \in DOMAIN functionMap
    <2>1. \A i \in 1..Len(functionImpls) : FALSE
        BY <1>2
    <2>2. QED
        BY <1>1, <2>1 DEF LaidInv, Implemented
<1>6. QED
    BY <1>1, <1>3, <1>4, <1>5

\* An entry that is below the one of a call has been numbered, with an ID that
\* is not below the range of the call.
LEMMA NumberedBelow ==
    ASSUME NEW p \in Programs, TypeOK, LaidInv(p), HeapInv(p), Finished,
           NEW e \in DOMAIN functionRangeMap
    PROVE  \A y \in SlotTree(p, e) : y \in Numbered /\ From(e) <= functionIDMap[y]
<1>1. cha = p.cha /\ HeapRanges
    BY FinishedMaps DEF HeapInv
<1>2. /\ e \in ProgramEntries(p)
      /\ \A x \in DOMAIN functionRangeMap : x \in Numbered /\ From(x) \in Nat /\ functionIDMap[x] \in Nat
    BY <1>1, TreeBasics DEF From
<1> DEFINE B == Below(p.cha.children, e.vTable)
           Reached(x) == x \in DOMAIN functionRangeMap /\ From(e) <= From(x)
           S == {v \in B : \E h \in ChildEntries(e, v) : TRUE}
           T == {v \in S : \A h \in ChildEntries(e, v) : Reached(h)}
<1>3. /\ e.vTable \in p.cha.vtables /\ e \in p.cha.functions[e.vTable]
      /\ \A h \in p.cha.functions[e.vTable] : h.offsetInVTable = e.offsetInVTable => h = e
    BY <1>2, EntryFacts
<1>4. /\ Ranked(p.cha.vtables, p.cha.children, VtableRanks(p), Len(p.order))
      /\ e.vTable \in B /\ B \subseteq p.cha.vtables
      /\ \A v \in B : p.cha.children[v] \subseteq B
    BY <1>3, ProgramRanked, BelowFacts
<1>5. e.vTable \in T
    <2>1. \A h \in ChildEntries(e, e.vTable) : h = e
        BY <1>1, <1>3 DEF ChildEntries
    <2>2. e \in ChildEntries(e, e.vTable)
        BY <1>1, <1>3 DEF ChildEntries
    <2>3. Reached(e)
        BY <1>2
    <2> HIDE DEF Reached, B
    <2>4. QED
        BY <1>4, <2>1, <2>2, <2>3
<1>6. ASSUME NEW v \in T, NEW w \in p.cha.children[v] PROVE w \in T
    <2>1. v \in p.cha.vtables /\ w \in B
        BY <1>4
    <2>2. PICK h \in ChildEntries(e, v) : Reached(h)
        OBVIOUS
    <2>3. h \in p.cha.functions[v] /\ h.offsetInVTable = e.offsetInVTable /\ h.vTable = v
        BY <1>1, <2>1, ProgramRanked DEF ChildEntries
    <2>4. \A x \in ChildEntries(e, w) : x \in ChildEntries(h, w)
        BY <2>3 DEF ChildEntries
    <2>5. \A x \in ChildEntries(e, w) : Reached(x)
        <3> SUFFICES ASSUME NEW x \in ChildEntries(e, w) PROVE Reached(x)
            OBVIOUS
        <3>1. x \in DOMAIN functionRangeMap /\ From(h) < From(x)
            BY <1>1, <2>2, <2>3, <2>4 DEF HeapRanges
        <3>2. QED
            BY <1>2, <2>2, <3>1
    <2>6. \E x \in ChildEntries(e, w) : TRUE
        <3>1. SlotsInherited(p.cha)
            BY LaidAssumption DEF Laid
        <3>2. \E x \in p.cha.functions[w] : x.offsetInVTable = h.offsetInVTable
            BY <2>1, <2>3, <3>1 DEF SlotsInherited
        <3>3. QED
            BY <1>1, <2>3, <3>2 DEF ChildEntries
    <2> HIDE DEF Reached, B
    <2>7. QED
        BY <2>1, <2>5, <2>6
<1>7. B \subseteq T
    <2>1. T \subseteq p.cha.vtables
        BY <1>4
    <2> HIDE DEF T
    <2>2. QED
        BY <1>4, <1>5, <1>6, <2>1, BelowLeast
<1>8. ASSUME NEW y \in SlotTree(p, e) PROVE y \in Numbered /\ From(e) <= functionIDMap[y]
    <2>1. y.vTable \in B /\ y \in p.cha.functions[y.vTable] /\ y.offsetInVTable = e.offsetInVTable
        BY <1>3, EntryMember DEF SlotTree
    <2>2. y \in DOMAIN functionRangeMap /\ From(e) <= From(y)
        BY <1>1, <1>7, <2>1 DEF ChildEntries
    <2>3. From(y) <= functionIDMap[y]
        BY <1>1, <2>2 DEF HeapRanges
    <2>4. QED
        BY <1>2, <2>2, <2>3
<1>9. QED
    BY <1>8

\* The entry that a virtual call of a method takes its range from, and an ID
\* that getFunctionID has for the function of an entry of the declaring class.
LEMMA CalledRange ==
    ASSUME NEW p \in Programs, TypeOK, LaidInv(p), HeapInv(p), Finished,
           NEW c \in p.cha.classes, NEW f \in p.cha.functions[<<c, 0>>], f.functionName[1] = c
    PROVE  \E e \in ProgramEntries(p) :
              /\ e \in DOMAIN functionRangeMap
              /\ e.functionName = f.functionName /\ e.vTable[1] = c
              /\ getFunctionRange(f.functionName, c) # <<>>
              /\ getFunctionRange(f.functionName, c)[1] = functionRangeMap[e]
<1>1. /\ cha = p.cha
      /\ \A e \in Numbered : e \in DOMAIN functionRangeMap
    BY FinishedMaps
<1> DEFINE key == <<f.functionName, c>>
           ranges == getFunctionRange(f.functionName, c)
<1>2. key \in DOMAIN functionMap
    <2>1. PICK k \in p.cha.functions[<<c, 0>>] :
              k.functionName = f.functionName /\ FuncAndClass(k) \in DOMAIN functionMap
        BY FinishedMaps
    <2>2. k.vTable = <<c, 0>>
        BY ProgramRanked
    <2>3. QED
        BY <2>1, <2>2 DEF FuncAndClass
<1>3. PICK e : e = functionMap[key][1]
    OBVIOUS
<1>4. /\ functionMap[key] \in Seq(Numbered) /\ functionMap[key] # <<>>
      /\ 1 \in DOMAIN functionMap[key]
      /\ e \in Numbered /\ FuncAndClass(e) = key
    <2>1. /\ functionMap[key] \in Seq(Numbered) \ {<<>>}
          /\ FuncAndClass(functionMap[key][1]) = key
        BY <1>2 DEF LaidInv, Keyed
    <2>2. QED
        BY <1>3, <2>1
<1>5. /\ e \in ProgramEntries(p) /\ e.functionName = f.functionName /\ e.vTable[1] = c
      /\ e \in DOMAIN functionRangeMap
    BY <1>1, <1>4, TreeBasics DEF FuncAndClass
<1>6. ranges # <<>> /\ ranges[1] = functionRangeMap[e]
    <2>1. ranges = [i \in DOMAIN functionMap[key] |-> functionRangeMap[functionMap[key][i]]]
        BY <1>2 DEF getFunctionRange
    <2>2. DOMAIN ranges # {} /\ ranges[1] = functionRangeMap[e]
        BY <1>3, <1>4, <2>1
    <2> HIDE DEF ranges
    <2>3. QED
        BY <2>2
<1>7. QED
    BY <1>5, <1>6

LEMMA OwnedID ==
    ASSUME NEW p \in Programs, TypeOK, LaidInv(p), HeapInv(p), Finished,
           NEW y \in Numbered, y.vTable[1] = y.functionName[1]
    PROVE  functionIDMap[y] \in getFunctionID(y.functionName)
<1>1. cha = p.cha
    BY FinishedMaps
<1>2. y \in ProgramEntries(p) /\ FirstSlot(p.cha, y)
    BY <1>1, TreeBasics DEF LaidInv, Keyed
<1>3. /\ y.vTable \in p.cha.vtables /\ y \in p.cha.functions[y.vTable]
    BY <1>2, EntryFacts
<1>4. PICK k \in p.cha.functions[<<y.functionName[1], 0>>] :
          /\ y.functionName \in DOMAIN functionImplMap
          /\ y.functionName[1] \in p.cha.classes
          /\ k.functionName = y.functionName
          /\ FirstSlot(p.cha, k)
          /\ functionImplMap[y.functionName] = ImplEntries(k)
    <2>1. PICK h \in p.cha.functions[<<y.functionName[1], 0>>] :
              h.functionName = y.functionName /\ y.functionName[1] \in p.cha.classes
        BY <1>3, LaidAssumption DEF Laid, Declared
    <2>2. QED
        BY <2>1, FinishedMaps
<1>5. k.vTable = <<y.functionName[1], 0>> /\ k \in ProgramEntries(p)
    <2>1. <<y.functionName[1], 0>> \in p.cha.vtables
        BY <1>4, ProgramRanked
    <2>2. QED
        BY <1>4, <2>1, ProgramRanked DEF ProgramEntries
<1>6. y \in ImplEntries(k)
    <2>1. y \in Entries
        BY <1>1, <1>2, TreeBasics
    <2>2. y.vTable = <<y.vTable[1], y.vTable[2]>> /\ y.vTable[2] \in Nat
        BY <1>3, LaidAssumption DEF Laid, BasesFirst
    <2>3. CASE y.vTable[2] >= 1
        BY <1>4, <1>5, <2>1, <2>3 DEF ImplEntries
    <2>4. CASE y.vTable[2] = 0
        <3>1. y.vTable = k.vTable
            BY <1>5, <2>2, <2>4
        <3>2. k \in p.cha.functions[y.vTable] /\ y \in p.cha.functions[k.vTable]
            BY <1>3, <1>4, <1>5, <3>1
        <3>3. y.offsetInVTable <= k.offsetInVTable /\ k.offsetInVTable <= y.offsetInVTable
            BY <1>2, <1>4, <3>2 DEF FirstSlot
        <3>4. y.offsetInVTable \in Nat /\ k.offsetInVTable \in Nat
            BY <1>2, <1>5, EntryFacts
        <3>5. y.offsetInVTable = k.offsetInVTable
            BY <3>3, <3>4
        <3>6. y = k
            BY <1>2, <3>2, <3>5, EntryFacts
        <3>7. QED
            BY <3>6 DEF ImplEntries
    <2>5. QED
        BY <2>2, <2>3, <2>4
<1>7. QED
    BY <1>4, <1>6 DEF getFunctionID, Numbered

\* The entry whose ID the function that a virtual call runs returns to.
LEMMA CalledFunction ==
    ASSUME NEW p \in Programs, TypeOK, LaidInv(p), HeapInv(p), Finished,
           NEW c \in p.cha.classes, NEW f \in p.cha.functions[<<c, 0>>], f.functionName[1] = c,
           NEW e \in ProgramEntries(p), e \in DOMAIN functionRangeMap,
           e.functionName = f.functionName, e.vTable[1] = c,
           NEW v \in Below(cha.children, <<c, 0>>), NEW g \in cha.functions[v],
           g.offsetInVTable = f.offsetInVTable
    PROVE  \E y \in SlotTree(p, e) :
              /\ y \in Numbered /\ From(e) <= functionIDMap[y]
              /\ functionIDMap[y] \in getFunctionID(g.functionName)
<1>1. cha = p.cha
    BY FinishedMaps
<1>2. PICK y \in SlotTree(p, e) :
          y.functionName = g.functionName /\ y.vTable[1] = y.functionName[1]
    BY <1>1, SameFunctions
<1>3. y \in Numbered /\ From(e) <= functionIDMap[y]
    BY NumberedBelow
<1>4. functionIDMap[y] \in getFunctionID(y.functionName)
    BY <1>2, <1>3, OwnedID
<1>5. QED
    BY <1>2, <1>3, <1>4

LEMMA CoversCalls == TypeOK /\ IInv => CallsCovered
<1> SUFFICES ASSUME TypeOK, IInv, Finished, NEW c \in cha.classes,
                    NEW f \in cha.functions[<<c, 0>>], f.functionName[1] = c
             PROVE  LET ranges == getFunctionRange(f.functionName, c)
                    IN  /\ ranges # <<>>
                        /\ \A v \in Below(cha.children, <<c, 0>>) : \A g \in cha.functions[v] :
                              g.offsetInVTable = f.offsetInVTable =>
                                  \E id \in getFunctionID(g.functionName) :
                                      /\ ranges[1][1] <= id
                                      /\ IsForest(cha.children) => id <= ranges[1][2]
    BY DEF CallsCovered
<1>1. PICK p \in Programs : PInv(p)
    BY DEF IInv
<1>2. LaidInv(p) /\ HeapInv(p) /\ cha = p.cha /\ (IsForest(cha.children) => TreeInv(p))
    BY <1>1 DEF PInv, LaidInv, Reading, Tree
<1>3. PICK e \in ProgramEntries(p) :
          /\ e \in DOMAIN functionRangeMap
          /\ e.functionName = f.functionName /\ e.vTable[1] = c
          /\ getFunctionRange(f.functionName, c) # <<>>
          /\ getFunctionRange(f.functionName, c)[1] = functionRangeMap[e]
    BY <1>2, CalledRange
<1>4. ASSUME NEW v \in Below(cha.children, <<c, 0>>), NEW g \in cha.functions[v],
             g.offsetInVTable = f.offsetInVTable
      PROVE  \E id \in getFunctionID(g.functionName) :
                 /\ functionRangeMap[e][1] <= id
                 /\ IsForest(cha.children) => id <= functionRangeMap[e][2]
    <2>1. PICK y \in SlotTree(p, e) :
              /\ y \in Numbered /\ From(e) <= functionIDMap[y]
              /\ functionIDMap[y] \in getFunctionID(g.functionName)
        BY <1>2, <1>3, <1>4, CalledFunction
    <2>2. ASSUME IsForest(cha.children) PROVE functionIDMap[y] <= functionRangeMap[e][2]
        <3>1. InRange(functionRangeMap[e], y)
            BY <1>2, <1>3, <2>1, <2>2 DEF TreeInv, Ranged
        <3>2. QED
            BY <3>1 DEF InRange
    <2>3. QED
        BY <2>1, <2>2 DEF From
<1>5. QED
    BY <1>3, <1>4

\* Whatever object a virtual call is made on, and whichever sub-vtable the
\* callee has overridden it in, the function that runs returns an ID that is not
\* below the call's range, and without virtual bases one that is in it: then no
\* legitimate return is refused.
THEOREM CallsAreCovered == Spec => []CallsCovered
BY TypeCorrect, TreeInvariant, CoversCalls, PTL

-----------------------------------------------------------------------------
\* The IDs come from an ID space: no walk numbers an entry again.
LEMMA InitClaims == Init => ids!Init
<1> SUFFICES ASSUME Init PROVE ids!Init
    OBVIOUS
<1>1. functionIDMap = [o \in {} |-> 0] /\ currentID = 1
    BY DEF Init, NumberingInit, NoMap
<1>2. QED
    BY <1>1 DEF ids!Init

LEMMA EnterClaims ==
    ASSUME NEW p \in Programs, TypeOK, cha = p.cha, NEW f \in ProgramEntries(p), f \notin Numbered,
           NEW frames, Enter(f, frames)
    PROVE  ids!Next
<1>1. f \in AllEntries
    BY DEF AllEntries, ProgramEntries
<1>2. /\ f \notin DOMAIN functionIDMap
      /\ DOMAIN functionIDMap' = DOMAIN functionIDMap \cup {f}
      /\ functionIDMap'[f] = currentID /\ currentID' = currentID + 1 /\ currentID \in Nat
      /\ \A e \in DOMAIN functionIDMap : functionIDMap'[e] = functionIDMap[e]
    BY DEF Enter, Put, Numbered, TypeOK
<1>3. ids!Claim(f)
    BY <1>2 DEF ids!Claim
<1>4. QED
    BY <1>1, <1>3 DEF ids!Next

LEMMA NextClaims ==
    ASSUME \A p \in Programs : Tree(p), TypeOK, IInv, [Next]_vars
    PROVE  [ids!Next]_ids!vars
<1>1. PICK p \in Programs : TreeInv(p) /\ HeapInv(p) /\ cha = p.cha
    BY DEF IInv, PInv, LaidInv, Reading
<1>2. CASE NumberBase
    <2>1. PICK f : f = Head(functionImpls)
        OBVIOUS
    <2>2. f \in ProgramEntries(p) /\ SlotTree(p, f) \cap Numbered = {} /\ Enter(f, <<>>)
        BY <1>1, <1>2, <2>1, BaseIsFresh DEF NumberBase
    <2>3. f \notin Numbered
        BY <2>2, SlotTreeFacts
    <2>4. QED
        BY <1>1, <2>2, <2>3, EnterClaims
<1>3. CASE NumberChild
    <2>1. PICK c \in Top.todo : \E g \in cha.functions[c] :
              g.offsetInVTable = Top.entry.offsetInVTable /\ Enter(g, Callers(c))
        BY <1>3, ChildStep
    <2>2. PICK g \in cha.functions[c] :
              g.offsetInVTable = Top.entry.offsetInVTable /\ Enter(g, Callers(c))
        BY <2>1
    <2>3. stack # <<>>
        BY <1>3, ChildStep
    <2>4. g \in ProgramEntries(p) /\ g \notin Numbered
        BY <1>1, <2>2, <2>3, ChildEntry, ChildIsFresh DEF TreeInv
    <2>5. QED
        BY <1>1, <2>2, <2>4, EnterClaims
<1>4. CASE UNCHANGED <<functionIDMap, currentID>>
    BY <1>4 DEF ids!vars
<1>5. NextClass \/ NewImpl \/ KnownImpl \/ SkipNumbered \/ FinishFunction \/ UNCHANGED vars
      => UNCHANGED <<functionIDMap, currentID>>
    BY DEF NextClass, NewImpl, KnownImpl, SkipNumbered, FinishFunction, numberVars, vars
<1>6. QED
    BY <1>2, <1>3, <1>4, <1>5 DEF Next, Done

\* In a program without virtual bases buildFunctionInfo gives every entry at
\* most one ID, which it keeps, and never hands an ID out twice.
THEOREM NumberingImplementsIdSpace ==
    ASSUME \A p \in Programs : Tree(p)
    PROVE  Spec => ImplementsIdSpace
<1>1. TypeOK /\ IInv /\ [Next]_vars => [ids!Next]_ids!vars
    BY NextClaims
<1>2. Spec => ids!Spec
    BY <1>1, InitClaims, TypeCorrect, TreeInvariant, PTL DEF Spec, ids!Spec
<1>3. QED
    BY <1>2 DEF ImplementsIdSpace
=============================================================================
