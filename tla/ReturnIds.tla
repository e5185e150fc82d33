----------------------------- MODULE ReturnIds -----------------------------
(***************************************************************************)
(* SDReturnAddress: every function of the module receives the IDs that its *)
(* return check will look for.  Functions that run from a vtable keep the  *)
(* IDs of buildFunctionInfo, all others get one of their own.              *)
(*                                                                         *)
(* Names are abstract: a function has a name, the kind its mangled name    *)
(* tells (see Kinds), for a thunk the name it is a thunk of (thunkOf),     *)
(* whether its address is taken, and its type.                             *)
(***************************************************************************)
EXTENDS TypeEncoder, Sequences, FiniteSets

CONSTANTS Modules    \* the modules the pass may be run on

\* blacklisted: "__", "llvm.", "_GLOBAL_" prefixes, "main" and "_Znwm";
\* plain: no "_Z" prefix; constructor: ends in C0Ev, C1Ev or C2Ev;
\* thunk: "_ZTh" prefix; cxx: any other "_Z" name, "_ZTv" thunks included.
Kinds == {"blacklisted", "plain", "constructor", "thunk", "cxx"}

(***************************************************************************)
(* A module has its functions in order, no name twice; virtualIDs, what    *)
(* getFunctionID answers for the names that run from a vtable; and maxID,  *)
(* which getMaxID answers: above every virtual ID.                         *)
(***************************************************************************)
VirtualIDs(m, name) == IF name \in DOMAIN m.virtualIDs THEN m.virtualIDs[name] ELSE <<>>

WellFormed(m) ==
    /\ m.maxID \in Nat
    /\ \A i \in DOMAIN m.functions : m.functions[i].kind \in Kinds
    /\ \A i, j \in DOMAIN m.functions :
          m.functions[i].name = m.functions[j].name => i = j
    /\ \A n \in DOMAIN m.virtualIDs : m.virtualIDs[n] \in Seq(0..(m.maxID - 1))
    /\ m.functions \in Seq({m.functions[i] : i \in DOMAIN m.functions})
    /\ \A i \in DOMAIN m.functions : IsFunctionType(m.functions[i].type)

ASSUME ModulesAssumption == \A m \in Modules : WellFormed(m)

VARIABLES module,         \* the module the pass runs on
          todo,           \* functions still to be processed
          functionID,     \* next ID of a static function
          FunctionIDMap,  \* name -> the ID that direct calls are annotated with
          funcInfo        \* name -> the metadata stored for the function

vars == <<module, todo, functionID, FunctionIDMap, funcInfo, encoderVars>>

Put(f, k, v) == [x \in DOMAIN f \cup {k} |-> IF x = k THEN v ELSE f[x]]

NoType == 0    \* no type ID is stored: the function's address is not taken

\* Mutant: the static IDs start below getMaxID.
InitTooLow ==
    /\ module \in Modules
    /\ todo = module.functions
    /\ functionID = module.maxID - 1
    /\ FunctionIDMap = [n \in {} |-> 0]
    /\ funcInfo = [n \in {} |-> 0]
    /\ EncoderInit

\* The static IDs start one above getMaxID, which is free itself.
Init ==
    /\ module \in Modules
    /\ todo = module.functions
    /\ functionID = module.maxID + 1
    /\ FunctionIDMap = [n \in {} |-> 0]
    /\ funcInfo = [n \in {} |-> 0]
    /\ EncoderInit

F == Head(todo)

isVirtualFunction ==
    \/ F.kind = "thunk"
    \/ F.kind = "cxx" /\ VirtualIDs(module, F.name) # <<>>

\* Mutant: the type's ID is pushed into the list of the function's IDs.
StoreTypeAmongIDs(list, ids) ==
    IF F.addressTaken
    THEN \E t \in 1..StartTypeID :
            /\ getTypeID(F.type, t)
            /\ funcInfo' = Put(funcInfo, F.name,
                               [list |-> list, ids |-> Append(ids, t), typeID |-> NoType])
    ELSE /\ funcInfo' = Put(funcInfo, F.name, [list |-> list, ids |-> ids, typeID |-> NoType])
         /\ UNCHANGED encoderVars

\* The entry of a function in the named metadata, with its type's ID if its
\* address is taken.
Store(list, ids) ==
    IF F.addressTaken
    THEN \E t \in 1..StartTypeID :
            /\ getTypeID(F.type, t)
            /\ funcInfo' = Put(funcInfo, F.name, [list |-> list, ids |-> ids, typeID |-> t])
    ELSE /\ funcInfo' = Put(funcInfo, F.name, [list |-> list, ids |-> ids, typeID |-> NoType])
         /\ UNCHANGED encoderVars

Process == todo # <<>> /\ todo' = Tail(todo) /\ UNCHANGED module

BlackListFunction ==
    /\ Process
    /\ F.kind = "blacklisted"
    /\ funcInfo' = Put(funcInfo, F.name, [list |-> "blacklist", ids |-> <<>>, typeID |-> NoType])
    /\ UNCHANGED <<functionID, FunctionIDMap, encoderVars>>

\* The IDs of the function itself or, for a thunk, of the function it calls.
CallableIDs ==
    IF VirtualIDs(module, F.name) # <<>> THEN VirtualIDs(module, F.name)
    ELSE IF F.kind = "thunk" THEN VirtualIDs(module, F.thunkOf)
    ELSE <<>>

processVirtualFunction ==
    /\ Process
    /\ F.kind # "blacklisted" /\ isVirtualFunction
    /\ CallableIDs # <<>>
    /\ FunctionIDMap' = Put(FunctionIDMap, F.name, CallableIDs[1])
    /\ Store("virtual", CallableIDs)
    /\ UNCHANGED functionID

\* "Thunk conversion failed": the thunk is stored without an ID.
FailedThunk ==
    /\ Process
    /\ F.kind # "blacklisted" /\ isVirtualFunction
    /\ CallableIDs = <<>>
    /\ funcInfo' = Put(funcInfo, F.name, [list |-> "virtual", ids |-> <<>>, typeID |-> NoType])
    /\ UNCHANGED <<functionID, FunctionIDMap, encoderVars>>

\* Mutant: the counter of the static IDs runs downwards.
StaticDownwards ==
    /\ Process
    /\ F.kind # "blacklisted" /\ ~isVirtualFunction
    /\ FunctionIDMap' = Put(FunctionIDMap, F.name, functionID)
    /\ Store("static", <<functionID>>)
    /\ functionID' = functionID - 1

\* Mutant: an ID is counted only if the function's address is taken.
StaticUncounted ==
    /\ Process
    /\ F.kind # "blacklisted" /\ ~isVirtualFunction
    /\ FunctionIDMap' = Put(FunctionIDMap, F.name, functionID)
    /\ Store("static", <<functionID>>)
    /\ functionID' = IF F.addressTaken THEN functionID + 1 ELSE functionID

processStaticFunction ==
    /\ Process
    /\ F.kind # "blacklisted" /\ ~isVirtualFunction
    /\ FunctionIDMap' = Put(FunctionIDMap, F.name, functionID)
    /\ Store("static", <<functionID>>)
    /\ functionID' = functionID + 1

Finished == todo = <<>>
Done == Finished /\ UNCHANGED vars

Next == \/ BlackListFunction
        \/ processVirtualFunction \/ FailedThunk
        \/ processStaticFunction
        \/ Done

Spec == Init /\ [][Next]_vars
-----------------------------------------------------------------------------
Ids(n) == {funcInfo[n].ids[i] : i \in DOMAIN funcInfo[n].ids}
StaticNames == {n \in DOMAIN funcInfo : funcInfo[n].list = "static"}
VirtualNames == {n \in DOMAIN funcInfo : funcInfo[n].list = "virtual"}

\* The pass's maps and counters have the shapes the code gives them.
TypeOK ==
    /\ WellFormed(module)
    /\ \E k \in 0..Len(module.functions) :
          todo = SubSeq(module.functions, k + 1, Len(module.functions))
    /\ functionID \in Nat /\ functionID > module.maxID
    /\ \A n \in DOMAIN FunctionIDMap : FunctionIDMap[n] \in Nat
    /\ \A n \in DOMAIN funcInfo :
          /\ funcInfo[n].list \in {"blacklist", "static", "virtual"}
          /\ Ids(n) \subseteq Nat
          /\ funcInfo[n].typeID \in 0..StartTypeID
    /\ NextTypeID \in 0..StartTypeID

\* A static function shares its ID with no other function, virtual or not: a
\* direct call of one function never accepts the return of another.
StaticIDsAreOwn ==
    \A n \in StaticNames : \A k \in DOMAIN funcInfo :
        Ids(n) \cap Ids(k) # {} => n = k

\* As long as the two counters have not met, no ID of a function is the ID of
\* a type, though both are compared with the same field at the call site.
SpacesApart ==
    functionID <= NextTypeID + 1 =>
        \A n \in DOMAIN funcInfo : \A e \in DOMAIN EncodingToTypeID :
            EncodingToTypeID[e] \notin Ids(n)

\* Two functions whose address is taken accept the same indirect calls exactly
\* if their types have the same shape, in whatever order they were met.
TypeIDsAreShapes ==
    \A i, j \in DOMAIN module.functions :
        LET f == module.functions[i]
            g == module.functions[j]
            Typed(x) == x.name \in DOMAIN funcInfo /\ funcInfo[x.name].typeID # NoType
        IN  Typed(f) /\ Typed(g) =>
                (funcInfo[f.name].typeID = funcInfo[g.name].typeID <=> SameShape(f.type, g.type))

\* The functions that may ever be numbered.
Names == UNION {{m.functions[i].name : i \in DOMAIN m.functions} : m \in Modules}

\* Static functions are numbered as from an ID space of their own: each gets
\* an ID once, and direct calls of it are annotated with no other.
Space == INSTANCE IdSpace WITH
             Owner <- Names,
             idOf  <- [n \in StaticNames |-> FunctionIDMap[n]],
             next  <- functionID
ImplementsIdSpace == Space!Spec
=============================================================================
