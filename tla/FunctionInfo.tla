---------------------------- MODULE FunctionInfo ----------------------------
(***************************************************************************)
(* SDBuildCHA::buildFunctionInfo: the numbering of the virtual functions.  *)
(*                                                                         *)
(* Every virtual function entry (a slot of a primitive vtable) receives an *)
(* ID in a depth-first walk of the vtable graph, so that the entries that  *)
(* a virtual call may reach form one interval of IDs.  The recursion of    *)
(* buildFunctionInfoForFunction is modelled by its call stack: a frame     *)
(* holds the entry, the range built so far and the children still to visit.*)
(* The children of a vtable are a std::set ordered by mangled name; names  *)
(* are arbitrary, so any order is allowed here.  A failed assert does not  *)
(* stop the model, as it does not stop a build with NDEBUG: asserts are    *)
(* stated as properties.                                                   *)
(***************************************************************************)
EXTENDS Naturals, Sequences, FiniteSets

CONSTANT Programs    \* the hierarchies and class orders the pass may be run on

\* The vtable graph is closed, and an entry is kept with its own vtable.
WellFormed(h) ==
    /\ h.children \in [h.vtables -> SUBSET h.vtables]
    /\ DOMAIN h.functions = h.vtables
    /\ \A v \in h.vtables : \A f \in h.functions[v] : f.vTable = v
    /\ \A c \in h.classes : <<c, 0>> \in h.vtables

ASSUME ProgramsAssumption ==
    \A p \in Programs : WellFormed(p.cha) /\ p.order \in Seq(p.cha.classes)

VARIABLES
    cha,              \* the vtable graph that buildClouds has built
    order,            \* classes of topoSort() still to be looked at
    slots,            \* entries of the current class's primary vtable still to be looked at
    functionImpls,    \* implementations that may have to be numbered, in order
    functionImplMap,  \* name -> entries that run this implementation
    functionMap,      \* <<name, class>> -> entries numbered for it, in order
    functionIDMap,    \* entry -> ID
    functionRangeMap, \* entry -> <<first, last>> ID at or below it
    currentID,        \* next free ID
    stack             \* active calls of buildFunctionInfoForFunction

vars == <<cha, order, slots, functionImpls, functionImplMap, functionMap,
          functionIDMap, functionRangeMap, currentID, stack>>

collectVars == <<order, slots, functionImplMap>>
numberVars == <<functionMap, functionIDMap, functionRangeMap, currentID, stack>>

\* f with the value of k replaced or added.
Put(f, k, v) == [x \in DOMAIN f \cup {k} |-> IF x = k THEN v ELSE f[x]]

FuncAndClass(f) == <<f.functionName, f.vTable[1]>>
Entries == UNION {cha.functions[v] : v \in cha.vtables}
NoMap == [x \in {} |-> 0]

NumberingInit ==
    /\ slots = {}
    /\ functionImpls = <<>>
    /\ functionImplMap = NoMap
    /\ functionMap = NoMap
    /\ functionIDMap = NoMap
    /\ functionRangeMap = NoMap
    /\ currentID = 1
    /\ stack = <<>>

Init ==
    /\ \E p \in Programs : cha = p.cha /\ order = p.order
    /\ NumberingInit

-----------------------------------------------------------------------------
(* First loop: collect the implementations, base classes first.            *)

\* The next class of the topological order; only its primary vtable is read.
NextClass ==
    /\ slots = {}
    /\ order # <<>>
    /\ slots' = cha.functions[<<Head(order), 0>>]
    /\ order' = Tail(order)
    /\ UNCHANGED <<cha, functionImpls, functionImplMap, numberVars>>

\* Mutant: the slots of the other sub-vtables are forgotten.
OwnEntryOnly(f) == {f}

\* The slots of f's class, f's own first, that run the implementation of f.
ImplEntries(f) ==
    {f} \cup {g \in Entries : /\ g.vTable[1] = f.vTable[1]
                              /\ g.vTable[2] >= 1
                              /\ g.functionName = f.functionName}

\* The entries of a vtable are sorted by name and only then by slot; names are
\* arbitrary.
IsNextSlot(f) ==
    /\ f \in slots
    /\ \A g \in slots : g.functionName = f.functionName => f.offsetInVTable <= g.offsetInVTable

\* A name seen for the first time is an implementation.
NewImpl ==
    \E f \in slots :
        /\ IsNextSlot(f)
        /\ f.functionName \notin DOMAIN functionImplMap
        /\ functionImpls' = Append(functionImpls, f)
        /\ functionImplMap' = Put(functionImplMap, f.functionName, ImplEntries(f))
        /\ slots' = slots \ {f}
        /\ UNCHANGED <<cha, order, numberVars>>

\* A name that a class inherits, or that has a second slot, is not.
KnownImpl ==
    \E f \in slots :
        /\ IsNextSlot(f)
        /\ f.functionName \in DOMAIN functionImplMap
        /\ slots' = slots \ {f}
        /\ UNCHANGED <<cha, order, functionImpls, functionImplMap, numberVars>>

-----------------------------------------------------------------------------
(* Second loop: number the implementations that no walk has met yet.       *)

Collected == order = <<>> /\ slots = {}

\* A call of buildFunctionInfoForFunction(f): the range it has built and the
\* children it has still to visit.
Call(f, first, last, todo) ==
    [entry |-> f, first |-> first, last |-> last, todo |-> todo]

\* Mutant: the ID is assigned and not counted.
EnterUncounted(f, frames) ==
    /\ functionMap' = Put(functionMap, FuncAndClass(f), <<f>>)
    /\ functionIDMap' = Put(functionIDMap, f, currentID)
    /\ currentID' = currentID
    /\ stack' = Append(frames, Call(f, currentID, currentID, cha.children[f.vTable]))

\* Entry of buildFunctionInfoForFunction(f) on top of the calls in frames.
Enter(f, frames) ==
    /\ functionMap' =
           Put(functionMap, FuncAndClass(f),
               IF FuncAndClass(f) \in DOMAIN functionMap
               THEN Append(functionMap[FuncAndClass(f)], f) ELSE <<f>>)
    /\ functionIDMap' = Put(functionIDMap, f, currentID)
    /\ currentID' = currentID + 1
    /\ stack' = Append(frames, Call(f, currentID, currentID, cha.children[f.vTable]))

\* Mutant: an implementation is numbered although a walk has met it.
NumberAgain ==
    /\ Collected /\ stack = <<>> /\ functionImpls # <<>>
    /\ Enter(Head(functionImpls), <<>>)
    /\ functionImpls' = Tail(functionImpls)
    /\ UNCHANGED <<cha, collectVars, functionRangeMap>>

\* functionImpls is consumed from the front.
NumberBase ==
    /\ Collected /\ stack = <<>> /\ functionImpls # <<>>
    /\ FuncAndClass(Head(functionImpls)) \notin DOMAIN functionMap
    /\ Enter(Head(functionImpls), <<>>)
    /\ functionImpls' = Tail(functionImpls)
    /\ UNCHANGED <<cha, collectVars, functionRangeMap>>

\* Mutant: what has been numbered is not removed from the list.
SkipWithoutPop ==
    /\ Collected /\ stack = <<>> /\ functionImpls # <<>>
    /\ FuncAndClass(Head(functionImpls)) \in DOMAIN functionMap
    /\ UNCHANGED vars

SkipNumbered ==
    /\ Collected /\ stack = <<>> /\ functionImpls # <<>>
    /\ FuncAndClass(Head(functionImpls)) \in DOMAIN functionMap
    /\ functionImpls' = Tail(functionImpls)
    /\ UNCHANGED <<cha, collectVars, numberVars>>

Top == stack[Len(stack)]
Caller == stack[Len(stack) - 1]

\* Mutant: any slot of the child vtable is taken for the entry's.
NumberAnySlot ==
    /\ stack # <<>>
    /\ \E c \in Top.todo : \E g \in cha.functions[c] :
        Enter(g, Append(SubSeq(stack, 1, Len(stack) - 1),
                        Call(Top.entry, Top.first, Top.last, Top.todo \ {c})))
    /\ UNCHANGED <<cha, functionImpls, collectVars, functionRangeMap>>

\* Recursion into a child vtable, to the entry in the same slot.
NumberChild ==
    /\ stack # <<>>
    /\ \E c \in Top.todo : \E g \in cha.functions[c] :
        /\ g.offsetInVTable = Top.entry.offsetInVTable
        /\ Enter(g, Append(SubSeq(stack, 1, Len(stack) - 1),
                           Call(Top.entry, Top.first, Top.last, Top.todo \ {c})))
    /\ UNCHANGED <<cha, functionImpls, collectVars, functionRangeMap>>

\* Mutant: the caller's range is not widened to the child's.
FinishUnwidened ==
    /\ stack # <<>>
    /\ Top.todo = {}
    /\ functionRangeMap' = Put(functionRangeMap, Top.entry, <<Top.first, Top.last>>)
    /\ stack' = SubSeq(stack, 1, Len(stack) - 1)
    /\ UNCHANGED <<cha, functionImpls, collectVars, functionMap, functionIDMap, currentID>>

\* All children are done: the range is recorded and returned to the caller.
FinishFunction ==
    /\ stack # <<>>
    /\ Top.todo = {}
    /\ functionRangeMap' = Put(functionRangeMap, Top.entry, <<Top.first, Top.last>>)
    /\ stack' = IF Len(stack) = 1 THEN <<>>
                ELSE Append(SubSeq(stack, 1, Len(stack) - 2),
                            Call(Caller.entry, Caller.first, Top.last, Caller.todo))
    /\ UNCHANGED <<cha, functionImpls, collectVars, functionMap, functionIDMap, currentID>>

Finished == Collected /\ stack = <<>> /\ functionImpls = <<>>
Done == Finished /\ UNCHANGED vars

Next == \/ NextClass \/ NewImpl \/ KnownImpl
        \/ NumberBase \/ SkipNumbered \/ NumberChild \/ FinishFunction
        \/ Done

Spec == Init /\ [][Next]_vars

FairSpec == Spec /\ WF_vars(Next)

-----------------------------------------------------------------------------
(* The queries the later passes ask.                                       *)

\* getFunctionID: the IDs of an implementation (empty when it has none).
getFunctionID(name) ==
    IF name \notin DOMAIN functionImplMap THEN {}
    ELSE {functionIDMap[e] : e \in functionImplMap[name] \cap DOMAIN functionIDMap}

\* getFunctionRange: the ranges a call of a class's function may reach.
getFunctionRange(name, class) ==
    IF <<name, class>> \notin DOMAIN functionMap THEN <<>>
    ELSE [i \in DOMAIN functionMap[<<name, class>>] |->
            functionRangeMap[functionMap[<<name, class>>][i]]]

\* Mutant: it answers what it is named for.
LastID == currentID - 1

\* getMaxID: despite its name the first ID that no virtual function has.
getMaxID == currentID
-----------------------------------------------------------------------------
(* Correctness.                                                            *)

Ids == 1..(currentID - 1)

\* The frames of the walk and the maps have the shapes the code gives them.
TypeOK ==
    /\ WellFormed(cha)
    /\ order \in Seq(cha.classes)
    /\ slots \subseteq Entries
    /\ functionImpls \in Seq(Entries)
    /\ currentID \in Nat \ {0}
    /\ DOMAIN functionIDMap \subseteq Entries
    /\ functionIDMap \in [DOMAIN functionIDMap -> Ids]
    /\ DOMAIN functionRangeMap \subseteq DOMAIN functionIDMap
    /\ functionRangeMap \in [DOMAIN functionRangeMap -> Ids \X Ids]
    /\ stack \in Seq([entry : DOMAIN functionIDMap, first : Ids, last : Ids,
                      todo : SUBSET cha.vtables])

\* No two entries share an ID, whatever the shape of the class graph: the
\* return check of one function never accepts the ID of another one.
UniqueIDs ==
    \A e, f \in DOMAIN functionIDMap : functionIDMap[e] = functionIDMap[f] => e = f

\* "Range is not consistent!": when a child's range is returned it starts
\* right after what the caller has covered so far, so widening the caller's
\* range to the child's end leaves no gap and swallows no foreign ID.
RangeConsistent ==
    /\ \A i \in 1..(Len(stack) - 1) : stack[i].last + 1 = stack[i + 1].first
    /\ stack # <<>> => Top.last + 1 = currentID

\* The walk comes to an end: the recursion always returns to its caller.
Terminates == <>Finished
=============================================================================
