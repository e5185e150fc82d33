---------------------------- MODULE BackwardEdge ----------------------------
(***************************************************************************)
(* The protection of returns from end to end: SDBuildCHA numbers the       *)
(* virtual functions, SDReturnAddress gives every function its IDs,        *)
(* SDReturnRange and SDMachineFunction put the IDs of its callees behind   *)
(* every call, and SDReturnChecks lets a function compare the two before   *)
(* it returns.  Each part is the module of its own name; this one says     *)
(* what a part hands to the next.                                          *)
(*                                                                         *)
(* A program has its class hierarchy (cha, order), its functions as        *)
(* ReturnIds has them, and its calls: those fields of a call of CallSites  *)
(* that are known before the passes run, the method and the class that a   *)
(* virtual call names or the function that a direct call names, and the    *)
(* functions that the call may reach when the program runs (callees).      *)
(***************************************************************************)
EXTENDS Naturals, Sequences, FiniteSets, Nops

CONSTANTS Systems,    \* the programs
          MaxParams, StartTypeID, Word, NoLoc,
          CodeWords    \* what may be read behind a call that has no NOPs

ASSUME ConstantsAssumption ==
    /\ Word \in Nat /\ Word > 2 * MarkBit
    /\ StartTypeID \in Nat \ {0} /\ StartTypeID < MarkBit
    /\ MaxParams \in Nat \ {0}
    /\ CodeWords \subseteq Nat

VARIABLES
    program, phase,
    \* SDBuildCHA
    cha, order, slots, functionImpls, functionImplMap, functionMap, functionIDMap,
    functionRangeMap, currentID, stack,
    \* SDReturnAddress and its encoder
    module, todo, functionID, FunctionIDMap, funcInfo, EncodingToTypeID, NextTypeID,
    \* SDReturnRange
    calls, uses, scan, debugLoc, pseudoDebugLoc, VirtualCallSites,
    CallSiteDebugLocsVirtual, CallSiteDebugLocsStatic,
    \* SDMachineFunction
    machineCalls, metadata, loaded, SkipPass, CallSiteRange, CallSiteID, CallSiteStatic, nops,
    \* SDReturnChecks
    f, IDs, TypeID, Type, Flags, NumberOfChecks, site, block, next, failed

NoMap == [x \in {} |-> 0]
NoModule == [functions |-> <<>>, maxID |-> 0, virtualIDs |-> NoMap]
NoFunction == [name |-> <<>>, list |-> "none", ids |-> <<>>, typeID |-> 0, returns |-> 0,
               addressTaken |-> FALSE, external |-> FALSE]

Info == INSTANCE FunctionTrees WITH Programs <- {}
Address == INSTANCE ReturnIds WITH Modules <- {NoModule}
Labels == INSTANCE CallLabels WITH Programs <- {<<>>}
Checks == INSTANCE ReturnChecks WITH Functions <- {NoFunction}, Sites <- {}

infoVars == <<cha, order, slots, functionImpls, functionImplMap, functionMap, functionIDMap,
              functionRangeMap, currentID, stack>>
addressVars == <<module, todo, functionID, FunctionIDMap, funcInfo>>
encoderVars == <<EncodingToTypeID, NextTypeID>>
siteVars == <<calls, uses, scan, debugLoc, pseudoDebugLoc, VirtualCallSites,
              CallSiteDebugLocsVirtual, CallSiteDebugLocsStatic>>
machineVars == <<machineCalls, metadata, loaded, SkipPass, CallSiteRange, CallSiteID,
                 CallSiteStatic, nops>>
checkVars == <<f, IDs, TypeID, Type, Flags, NumberOfChecks, site, block, next, failed>>
vars == <<program, phase, infoVars, addressVars, encoderVars, siteVars, machineVars, checkVars>>

Init ==
    /\ program \in Systems /\ phase = "cha"
    /\ cha = program.cha /\ order = program.order /\ Info!NumberingInit
    /\ Address!Init
    /\ Labels!LabelsInit
    /\ Checks!Init

-----------------------------------------------------------------------------
(* What a compiled program looks like.                                     *)

Classes(p) ==
    /\ Info!WellFormed(p.cha) /\ p.order \in Seq(p.cha.classes)
    /\ Info!Laid(p)

\* The functions of a module have names of their own, and so have calls their
\* locations, unless they have none.
Functions(p) ==
    /\ p.functions \in Seq({p.functions[i] : i \in DOMAIN p.functions})
    /\ \A i \in DOMAIN p.functions : p.functions[i].kind \in Address!Kinds
    /\ \A i, j \in DOMAIN p.functions : p.functions[i].name = p.functions[j].name => i = j
    /\ \A i \in DOMAIN p.functions : Address!IsFunctionType(p.functions[i].type)

Calls(p) ==
    /\ p.calls \in Seq({p.calls[i] : i \in DOMAIN p.calls})
    /\ \A i \in DOMAIN p.calls :
          /\ p.calls[i].kind \in {"virtual", "direct", "indirect", "cast", "address"}
          /\ p.calls[i].loc \notin Labels!PseudoLocs
    /\ \A i, j \in DOMAIN p.calls :
          p.calls[i].loc = p.calls[j].loc => i = j \/ p.calls[i].loc = NoLoc

MethodNames(h) == {e.functionName : e \in UNION {h.functions[v] : v \in h.vtables}}

\* A function that is named in the metadata is in this slot of a vtable at or
\* below the primary one of the class.
InSlot(h, class, slot, name) ==
    name \in MethodNames(h) =>
        \E v \in Info!Below(h.children, <<class, 0>>) : \E g \in h.functions[v] :
            g.offsetInVTable = slot /\ g.functionName = name

\* A virtual call names a method in the class that declares it, and reaches what
\* is in one of its slots: a function, or a thunk of a function.
VirtualCall(p, c) ==
    /\ c.found
    /\ c.class \in p.cha.classes /\ c.method[1] = c.class
    /\ \E e \in p.cha.functions[<<c.class, 0>>] :
          /\ e.functionName = c.method
          /\ \A i \in DOMAIN p.functions :
                LET fn == p.functions[i]
                    Reaches(name) == InSlot(p.cha, c.class, e.offsetInVTable, name)
                IN  fn.name \in c.callees =>
                        Reaches(fn.name) /\ (fn.kind = "thunk" => Reaches(fn.thunkOf))

\* A direct call reaches the function that it names.
DirectCall(p, c) ==
    /\ c.callees \subseteq {c.callee}
    /\ c.blacklisted => \A i \in DOMAIN p.functions :
          p.functions[i].name = c.callee => p.functions[i].kind = "blacklisted"

ASSUME SystemsAssumption ==
    /\ NoLoc \notin Labels!PseudoLocs
    /\ \A p \in Systems :
          /\ Classes(p) /\ Functions(p) /\ Calls(p)
          /\ \A i \in DOMAIN p.calls :
                /\ p.calls[i].kind = "virtual" => VirtualCall(p, p.calls[i])
                /\ p.calls[i].kind = "direct" => DirectCall(p, p.calls[i])
-----------------------------------------------------------------------------
buildFunctionInfo ==
    /\ phase = "cha" /\ ~Info!Finished
    /\ Info!Next
    /\ UNCHANGED <<program, phase, addressVars, encoderVars, siteVars, machineVars, checkVars>>

\* The entries of a function of one class in the order of their slots.
Before(e, g) ==
    \/ e.vTable[2] < g.vTable[2]
    \/ e.vTable[2] = g.vTable[2] /\ e.offsetInVTable < g.offsetInVTable

InOrder(entries) ==
    CHOOSE s \in [1..Cardinality(entries) -> entries] :
        \A i, j \in DOMAIN s : i < j => Before(s[i], s[j])

\* The IDs that getFunctionID answers: of the function's own slot, then of those in
\* the other sub-vtables of its class.
FunctionIDs(name) ==
    LET sorted == InOrder(functionImplMap[name] \cap DOMAIN functionIDMap)
    IN  [i \in DOMAIN sorted |-> functionIDMap[sorted[i]]]

\* SDReturnAddress starts on the module: what it asks SDBuildCHA is known.
runReturnAddress ==
    /\ phase = "cha" /\ Info!Finished
    /\ phase' = "address"
    /\ module' = [functions  |-> program.functions,
                  maxID      |-> Info!getMaxID,
                  virtualIDs |-> [n \in DOMAIN functionImplMap |-> FunctionIDs(n)]]
    /\ todo' = program.functions
    /\ functionID' = Info!getMaxID + 1
    /\ UNCHANGED <<program, infoVars, FunctionIDMap, funcInfo, encoderVars, siteVars,
                   machineVars, checkVars>>

assignIDs ==
    /\ phase = "address" /\ ~Address!Finished
    /\ Address!Next
    /\ UNCHANGED <<program, phase, infoVars, siteVars, machineVars, checkVars>>

\* What SDReturnRange asks about a call.
CallOf(c) ==
    [kind        |-> c.kind,
     loc         |-> c.loc,
     found       |-> c.found,
     ranges      |-> Info!getFunctionRange(c.method, c.class),
     blacklisted |-> c.blacklisted,
     calleeID    |-> IF c.callee \in DOMAIN FunctionIDMap THEN FunctionIDMap[c.callee] ELSE 0,
     tail        |-> c.tail,
     type        |-> c.type]

\* SDReturnRange starts on the module, with the encoder of SDReturnAddress.
runReturnRange ==
    /\ phase = "address" /\ Address!Finished
    /\ phase' = "range"
    /\ calls' = [i \in DOMAIN program.calls |-> CallOf(program.calls[i])]
    /\ uses' = {i \in DOMAIN program.calls : program.calls[i].kind = "virtual"}
    /\ debugLoc' = [i \in DOMAIN program.calls |-> program.calls[i].loc]
    /\ UNCHANGED <<program, infoVars, addressVars, encoderVars, scan, pseudoDebugLoc,
                   VirtualCallSites, CallSiteDebugLocsVirtual, CallSiteDebugLocsStatic,
                   machineVars, checkVars>>

describeCalls ==
    /\ phase = "range"
    /\ Labels!Next
    /\ UNCHANGED <<program, phase, infoVars, addressVars, machineVars, checkVars>>

emitNops ==
    /\ phase = "range"
    /\ Labels!storeCallSites \/ (Labels!Machine!MachineNext /\ UNCHANGED <<siteVars, encoderVars>>)
    /\ UNCHANGED <<program, phase, infoVars, addressVars, checkVars>>

\* SDReturnChecks comes to a function.  Optimizations may have removed the uses
\* of its address in the meantime.
runReturnChecks ==
    /\ phase = "range" /\ Labels!Generated
    /\ phase' = "return"
    /\ \E i \in DOMAIN program.functions :
          LET fn == program.functions[i]
          IN  \E taken \in {fn.addressTaken, FALSE} :
                f' = [name |-> fn.name, list |-> funcInfo[fn.name].list,
                      ids |-> funcInfo[fn.name].ids, typeID |-> funcInfo[fn.name].typeID,
                      returns |-> 1, addressTaken |-> taken, external |-> FALSE]
    /\ UNCHANGED <<program, infoVars, addressVars, encoderVars, siteVars, machineVars,
                   IDs, TypeID, Type, Flags, NumberOfChecks, site, block, next, failed>>

\* The two words that are read behind call i: its NOPs, and code where there are
\* fewer than two.
SitesOf(i) ==
    {[kind |-> calls[i].kind, call |-> i,
      first  |-> IF Len(nops[i]) >= 1 THEN nops[i][1] ELSE word,
      second |-> IF Len(nops[i]) = 2 THEN nops[i][2] ELSE word2,
      far |-> far] : word, word2 \in CodeWords, far \in BOOLEAN}

generateChecks ==
    /\ phase = "return"
    /\ Checks!loadFunctionData \/ Checks!processFunction \/ Checks!processOther
    /\ UNCHANGED <<program, phase, infoVars, addressVars, encoderVars, siteVars, machineVars>>

\* The program runs and the function returns to one of its calls.
returnToCall ==
    /\ phase = "return"
    /\ \E i \in DOMAIN calls : \E s \in SitesOf(i) : Checks!ReturnTo(s)
    /\ UNCHANGED <<program, phase, infoVars, addressVars, encoderVars, siteVars, machineVars>>

runChecks ==
    /\ phase = "return"
    /\ \/ Checks!RangeBlock \/ Checks!CompareBlock
       \/ Checks!ExternalBlock \/ Checks!IndirectBlock \/ Checks!UnknownBlock
       \/ Checks!FailBlock \/ Checks!Leave
    /\ UNCHANGED <<program, phase, infoVars, addressVars, encoderVars, siteVars, machineVars>>

Done == Checks!Returned /\ UNCHANGED vars

Next == \/ buildFunctionInfo
        \/ runReturnAddress \/ assignIDs
        \/ runReturnRange \/ describeCalls \/ emitNops
        \/ runReturnChecks \/ generateChecks \/ returnToCall \/ runChecks
        \/ Done

Spec == Init /\ [][Next]_vars
-----------------------------------------------------------------------------
\* The function has returned, or is about to, to this call of the program.
Call == program.calls[site.call]
Running == phase = "return" /\ site # Checks!NoSite
Legal == f.name \in Call.callees

\* What is handed from part to part has the shape that the next one expects.
TypeOK ==
    /\ phase \in {"cha", "address", "range", "return"}
    /\ Address!WellFormed(module)
    /\ phase = "range" => DOMAIN calls = DOMAIN program.calls
    /\ Checks!TypeOK

\* A function that a virtual call may reach returns to it without running into
\* sd.fail, whatever slot it was reached through: as an override in a secondary
\* vtable, by a thunk, as one of the destructors, or below a virtual base.
VirtualReturnsPass ==
    Running /\ Call.kind = "virtual" /\ Legal => ~failed

\* A virtual function that is called directly, by a qualified name or after
\* devirtualization, returns there without running into sd.fail, though such a
\* call has one NOP only and some of its code is taken for the width.
DirectReturnsPass ==
    Running /\ Call.kind = "direct" /\ f.list = "virtual" /\ Legal => ~failed

\* A virtual function all of whose IDs come before the range of a virtual call
\* runs into sd.fail there, even if its address is taken.
EarlierIDsFail ==
    /\ Running /\ Checks!Returned
    /\ Call.kind = "virtual" /\ f.list = "virtual" /\ f.ids # <<>>
    /\ \A i \in DOMAIN f.ids : f.ids[i] < calls[site.call].ranges[1][1]
    /\ ~f.addressTaken \/ ~site.far
    => failed

\* Two passes ask one encoder: the NOP of an indirect call holds the type ID
\* that was stored for the functions of its type, whichever was met first.
TypesMeet ==
    phase = "return" =>
        \A i \in DOMAIN calls, k \in DOMAIN program.functions :
            LET c == calls[i]
                fn == program.functions[k]
            IN  /\ c.kind = "indirect" /\ ~c.tail
                /\ fn.addressTaken /\ fn.type = c.type /\ funcInfo[fn.name].ids # <<>>
                => nops[i] = <<Mark(funcInfo[fn.name].typeID)>>
=============================================================================
