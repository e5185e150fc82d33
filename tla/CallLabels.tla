----------------------------- MODULE CallLabels -----------------------------
(***************************************************************************)
(* The way of a call's IDs from SDReturnRange through the source location  *)
(* to the NOPs behind the machine call: CallSites composed with            *)
(* MachineCalls.  The code generator emits the calls in their order; the   *)
(* lists of SDReturnRange reach it as metadata of the module.              *)
(***************************************************************************)
EXTENDS CallSites

CONSTANT MarkBit

VARIABLES machineCalls, metadata, loaded, SkipPass, CallSiteRange, CallSiteID,
          CallSiteStatic, nops

Machine == INSTANCE MachineCalls
Nop == INSTANCE Nops

machineVars == <<machineCalls, metadata, loaded, SkipPass, CallSiteRange, CallSiteID,
                 CallSiteStatic, nops>>

LabelsInit ==
    /\ Init
    /\ machineCalls = <<>>
    /\ metadata = [virtual |-> <<>>, static |-> <<>>]
    /\ Machine!MachineInit

\* Storing the lists and selecting the machine instructions of the calls.
storeCallSites ==
    /\ Finished
    /\ machineCalls = <<>> /\ nops = <<>>
    /\ metadata' = [virtual |-> CallSiteDebugLocsVirtual, static |-> CallSiteDebugLocsStatic]
    /\ machineCalls' = [i \in DOMAIN calls |->
                          [loc    |-> debugLoc[i],
                           target |-> IF calls[i].kind \in {"direct", "cast"} THEN "global"
                                    ELSE "computed"]]
    /\ UNCHANGED <<loaded, SkipPass, CallSiteRange, CallSiteID, CallSiteStatic, nops, vars>>

Generated == Finished /\ machineCalls = <<>> /\ nops # <<>>

Done == Generated /\ UNCHANGED <<vars, machineVars>>

LabelsNext == \/ Next /\ UNCHANGED machineVars
              \/ storeCallSites
              \/ Machine!MachineNext /\ UNCHANGED vars
              \/ Done

LabelsSpec == LabelsInit /\ [][LabelsNext]_<<vars, machineVars>>
-----------------------------------------------------------------------------
\* What a call should be labelled with, from the call alone.
Described(i) == calls[i].kind = "virtual" /\ calls[i].found /\ calls[i].ranges # <<>>
Label(i) ==
    LET c == calls[i]
    IN  CASE Described(i) -> <<Nop!Mark(c.ranges[1][1]),
                               Nop!Mark(c.ranges[1][2] - c.ranges[1][1])>>
          [] c.kind = "direct" -> IF c.blacklisted \/ c.calleeID = 0 THEN <<>>
                                  ELSE <<Nop!Mark(c.calleeID)>>
          [] c.kind = "cast" -> <<>>
          [] c.kind = "address" -> <<Nop!unknownID>>
          [] OTHER -> IF c.tail THEN <<>> ELSE <<Nop!Mark(EncodingToTypeID[Precise(c.type)])>>

\* Source locations tell the calls apart.
DistinctLocations ==
    \A i, j \in DOMAIN calls : calls[i].loc = calls[j].loc => i = j \/ calls[i].loc = NoLoc

\* When the source locations are distinct, every call ends up with the label
\* of its own callees, though it was filed and found again by location only
\* and calls without a location were given one on the way.  A module of which
\* nothing was filed has no labels.
LabelsAreOwn ==
    Generated /\ DistinctLocations =>
        LET filed == CallSiteDebugLocsVirtual # <<>> \/ CallSiteDebugLocsStatic # <<>>
        IN  \A i \in DOMAIN calls : nops[i] = IF filed THEN Label(i) ELSE <<>>

\* "pseudoDebugLoc is the unique ID for this CallSite": a made-up location is
\* never that of another call, whatever the order of the two loops.
PseudoLocsAreUnique ==
    \A i, j \in DOMAIN calls :
        i # j /\ calls[i].loc = NoLoc /\ debugLoc[i] # NoLoc => debugLoc[i] # debugLoc[j]

\* Where locations collide, a virtual call still has the label of some virtual
\* call of the location: the entry of a static call never displaces it.
VirtualsStayVirtual ==
    Generated =>
        \A i \in VirtualCallSites : \E j \in VirtualCallSites :
            debugLoc[j] = debugLoc[i] /\ nops[i] = Label(j)
=============================================================================
