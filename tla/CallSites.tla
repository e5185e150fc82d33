----------------------------- MODULE CallSites -----------------------------
(***************************************************************************)
(* SDReturnRange: every call of the module is described by the IDs its     *)
(* callees may have.  The description is not attached to the instruction   *)
(* but filed under its source location, for the code generator to find; a  *)
(* call without a location is given a made-up one.                         *)
(*                                                                         *)
(* A call has: kind "virtual" (behind a checked vtable pointer), "direct", *)
(* "indirect", or, for a callee that is a constant but not a function,     *)
(* "cast" (of a function) or "address"; its location loc or NoLoc; for a   *)
(* virtual call the ranges that getFunctionRange answers and whether it is *)
(* found among the users of the intrinsic (found); for a direct call if    *)
(* the callee is blacklisted, and its calleeID in FunctionIDMap (0: none); *)
(* for the others the tail marker and the type.                            *)
(***************************************************************************)
EXTENDS TypeEncoder, Sequences, FiniteSets

CONSTANTS Programs,    \* sequences of calls, in the order of the module
          NoLoc        \* the call has no debug location

\* The locations that are made up have no file; a real one has.
PseudoLocs == {""} \X Nat

ASSUME LocationsAssumption ==
    /\ NoLoc \notin PseudoLocs
    /\ \A p \in Programs : /\ p \in Seq({p[i] : i \in DOMAIN p})
                           /\ \A i \in DOMAIN p : p[i].loc \notin PseudoLocs

VARIABLES calls,               \* the calls of the module
          uses,                \* virtual calls still to be processed
          scan,                \* the next call of the static scan
          debugLoc,            \* the calls' locations
          pseudoDebugLoc,      \* the number of the next made-up location
          VirtualCallSites,    \* the calls that have been described as virtual
          CallSiteDebugLocsVirtual,
          CallSiteDebugLocsStatic

siteVars == <<calls, uses, scan, debugLoc, pseudoDebugLoc, VirtualCallSites,
              CallSiteDebugLocsVirtual, CallSiteDebugLocsStatic>>
vars == <<siteVars, encoderVars>>

SitesInit ==
    /\ calls \in Programs
    /\ uses = {i \in DOMAIN calls : calls[i].kind = "virtual"}
    /\ scan = 1
    /\ debugLoc = [i \in DOMAIN calls |-> calls[i].loc]
    /\ pseudoDebugLoc = 1
    /\ VirtualCallSites = {}
    /\ CallSiteDebugLocsVirtual = <<>>
    /\ CallSiteDebugLocsStatic = <<>>

Init == SitesInit /\ EncoderInit

\* The number of a made-up location is spread over line and column.
PseudoLoc(n) == <<"", n>>
LocOf(i) == IF debugLoc[i] = NoLoc THEN PseudoLoc(pseudoDebugLoc) ELSE debugLoc[i]

\* Mutant: the made-up location is not attached to the call.
NotAttached(i) ==
    /\ debugLoc' = debugLoc
    /\ pseudoDebugLoc' = IF debugLoc[i] = NoLoc THEN pseudoDebugLoc + 1 ELSE pseudoDebugLoc

\* Mutant: made-up locations are not counted.
NotCounted(i) ==
    /\ debugLoc' = [debugLoc EXCEPT ![i] = LocOf(i)]
    /\ pseudoDebugLoc' = pseudoDebugLoc

\* The location that call i is filed under is attached to it as well.
getOrCreateDebugLoc(i) ==
    /\ debugLoc' = [debugLoc EXCEPT ![i] = LocOf(i)]
    /\ pseudoDebugLoc' = IF debugLoc[i] = NoLoc THEN pseudoDebugLoc + 1 ELSE pseudoDebugLoc

-----------------------------------------------------------------------------
(* First the virtual calls, in the order of the intrinsic's use list.      *)

addVirtualCallSite ==
    \E i \in uses :
        /\ uses' = uses \ {i}
        /\ calls[i].found /\ calls[i].ranges # <<>>
        /\ getOrCreateDebugLoc(i)
        /\ CallSiteDebugLocsVirtual' =
               Append(CallSiteDebugLocsVirtual, [loc |-> LocOf(i), range |-> calls[i].ranges[1]])
        /\ VirtualCallSites' = VirtualCallSites \cup {i}
        /\ UNCHANGED <<calls, scan, CallSiteDebugLocsStatic, encoderVars>>

\* The call is not found, or its function has no range.
SkipVirtualCallSite ==
    \E i \in uses :
        /\ uses' = uses \ {i}
        /\ ~calls[i].found \/ calls[i].ranges = <<>>
        /\ UNCHANGED <<calls, scan, debugLoc, pseudoDebugLoc, VirtualCallSites,
                       CallSiteDebugLocsVirtual, CallSiteDebugLocsStatic, encoderVars>>

-----------------------------------------------------------------------------
(* Then all other calls, in the order of the module.                       *)

Scan == /\ uses = {}
        /\ scan \in DOMAIN calls
        /\ scan' = scan + 1
        /\ UNCHANGED <<calls, uses, VirtualCallSites, CallSiteDebugLocsVirtual>>

C == calls[scan]

\* A virtual call that could not be described is an indirect call.
IsIndirect == C.kind \in {"indirect", "virtual"} /\ scan \notin VirtualCallSites

File(target, id) ==
    CallSiteDebugLocsStatic' =
        Append(CallSiteDebugLocsStatic, [loc |-> LocOf(scan), target |-> target, id |-> id])

addDirectCallSite ==
    /\ Scan
    /\ C.kind = "direct" /\ ~C.blacklisted /\ C.calleeID # 0
    /\ getOrCreateDebugLoc(scan)
    /\ File("direct", C.calleeID)
    /\ UNCHANGED encoderVars

\* The callee has no ID; the call has its location by then.
SkipDirectCallSite ==
    /\ Scan
    /\ C.kind = "direct" /\ ~C.blacklisted /\ C.calleeID = 0
    /\ getOrCreateDebugLoc(scan)
    /\ UNCHANGED <<CallSiteDebugLocsStatic, encoderVars>>

addTailCallSite ==
    /\ Scan
    /\ IsIndirect /\ C.tail
    /\ getOrCreateDebugLoc(scan)
    /\ File("tail", 0)
    /\ UNCHANGED encoderVars

addIndirectCallSite ==
    /\ Scan
    /\ IsIndirect /\ ~C.tail
    /\ getOrCreateDebugLoc(scan)
    /\ \E id \in 1..StartTypeID : getTypeID(C.type, id) /\ File("indirect", id)

IgnoreCall ==
    /\ Scan
    /\ \/ C.kind = "direct" /\ C.blacklisted
       \/ C.kind \in {"cast", "address"}
       \/ scan \in VirtualCallSites
    /\ UNCHANGED <<debugLoc, pseudoDebugLoc, CallSiteDebugLocsStatic, encoderVars>>

Finished == uses = {} /\ scan \notin DOMAIN calls

Next == \/ addVirtualCallSite \/ SkipVirtualCallSite
        \/ addDirectCallSite \/ SkipDirectCallSite
        \/ addTailCallSite \/ addIndirectCallSite
        \/ IgnoreCall

Spec == Init /\ [][Next]_vars
=============================================================================
