---------------------------- MODULE MachineCalls ----------------------------
(***************************************************************************)
(* SDMachineFunction: the code generator puts the IDs of each call behind  *)
(* it, in one NOP or, for a virtual call, two.  What is known of a call is *)
(* looked up under the call's source location.                             *)
(*                                                                         *)
(* A machine call has a location loc or NoLoc, and target: "global" or     *)
(* "external" (a symbol) if its first operand is one, else "computed".     *)
(***************************************************************************)
EXTENDS Naturals, Sequences, Nops

CONSTANT NoLoc

VARIABLES machineCalls,          \* the calls still to be processed, all functions
          metadata,              \* the entries of SDReturnRange: virtual, static
          loaded,                \* the pass has read them ...
          SkipPass,              \* ... and has found none
          CallSiteRange,         \* location -> <<first, last>> of a virtual call
          CallSiteID,            \* location -> ID of a static call
          CallSiteStatic,        \* location -> kind of a static call
          nops                   \* the calls that are done, each with its NOPs

machineVars == <<machineCalls, metadata, loaded, SkipPass, CallSiteRange, CallSiteID,
                 CallSiteStatic, nops>>

NoMap == [x \in {} |-> 0]

MachineInit ==
    /\ loaded = FALSE /\ SkipPass = FALSE
    /\ CallSiteRange = NoMap /\ CallSiteID = NoMap /\ CallSiteStatic = NoMap
    /\ nops = <<>>

\* The map from locations to a field of the entries in kept, filled entry by
\* entry: of two with one location the later stays.
Load(entries, kept, field) ==
    LET Last(l) == CHOOSE i \in kept : /\ entries[i].loc = l
                                       /\ \A j \in kept : entries[j].loc = l => j <= i
    IN  [l \in {entries[i].loc : i \in kept} |-> entries[Last(l)][field]]

\* The first machine function: both lists are loaded into maps.  A tail call
\* brings no ID and leaves the one its location may have.
LoadCallSiteData ==
    /\ ~loaded /\ machineCalls # <<>>
    /\ loaded' = TRUE
    /\ SkipPass' = (metadata.virtual = <<>> /\ metadata.static = <<>>)
    /\ CallSiteRange' = Load(metadata.virtual, DOMAIN metadata.virtual, "range")
    /\ CallSiteStatic' = Load(metadata.static, DOMAIN metadata.static, "target")
    /\ LET ids == {i \in DOMAIN metadata.static : metadata.static[i].target # "tail"}
       IN  CallSiteID' = Load(metadata.static, ids, "id")
    /\ UNCHANGED <<machineCalls, metadata, nops>>

MI == Head(machineCalls)

\* The NOPs go behind the call.
Emit(values) ==
    /\ loaded /\ machineCalls # <<>>
    /\ machineCalls' = Tail(machineCalls)
    /\ nops' = Append(nops, values)
    /\ UNCHANGED <<metadata, loaded, SkipPass, CallSiteRange, CallSiteID, CallSiteStatic>>

Looked == loaded /\ ~SkipPass /\ machineCalls # <<>>

\* Mutant: the call is looked up among the static calls first.
KnownVirtualLast == Looked /\ MI.loc \in DOMAIN CallSiteRange \ DOMAIN CallSiteStatic

\* The call is looked up among the virtual calls first.
KnownVirtual == Looked /\ MI.loc \in DOMAIN CallSiteRange
KnownStatic == Looked /\ ~KnownVirtual /\ MI.loc \in DOMAIN CallSiteStatic
Unknown == Looked /\ ~KnownVirtual /\ ~KnownStatic

processVirtualCallSite ==
    /\ KnownVirtual
    /\ LET min == CallSiteRange[MI.loc][1]
           width == CallSiteRange[MI.loc][2] - min
       IN  Emit(<<Mark(min), Mark(width)>>)

processStaticCallSite ==
    /\ KnownStatic
    /\ CallSiteStatic[MI.loc] # "tail"
    /\ Emit(<<Mark(CallSiteID[MI.loc])>>)

processTailCallSite ==
    /\ KnownStatic
    /\ CallSiteStatic[MI.loc] = "tail"
    /\ Emit(<<>>)

\* A computed call that nothing is known of; calls of symbols are left alone.
processUnknownCallSite ==
    /\ Unknown
    /\ MI.target = "computed"
    /\ Emit(<<unknownID>>)

IgnoreSymbolCall ==
    /\ Unknown
    /\ MI.target # "computed"
    /\ Emit(<<>>)

SkipCall == SkipPass /\ Emit(<<>>)

MachineDone == machineCalls = <<>>

MachineNext == \/ LoadCallSiteData
               \/ processVirtualCallSite \/ processStaticCallSite
               \/ processTailCallSite \/ processUnknownCallSite
               \/ IgnoreSymbolCall \/ SkipCall
=============================================================================
