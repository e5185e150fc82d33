-------------------------- MODULE CallLabelsProofs --------------------------
(***************************************************************************)
(* SDReturnRange and SDMachineFunction for every sequence of calls.        *)
(* First the locations that are made up: two loops in different orders     *)
(* draw them from one counter.  Then what the two lists hold while they    *)
(* grow, and what is found again in the maps that are made of them.  Last  *)
(* the NOPs, as the code generator goes through the calls.                 *)
(***************************************************************************)
EXTENDS CallLabels, SequenceLemmas, TLAPS

\* A call without a location may have got one, of those made up so far; two
\* calls have not got the same.
Located ==
    /\ Listed(calls)
    /\ \A i \in DOMAIN calls : calls[i].loc \notin PseudoLocs
    /\ uses \subseteq DOMAIN calls
    /\ debugLoc = [i \in DOMAIN calls |-> debugLoc[i]]
    /\ pseudoDebugLoc \in Nat
    /\ \A i \in DOMAIN calls :
          IF calls[i].loc # NoLoc THEN debugLoc[i] = calls[i].loc
          ELSE \/ debugLoc[i] = NoLoc
               \/ \E n \in Nat : n < pseudoDebugLoc /\ debugLoc[i] = PseudoLoc(n)

LInv == Located /\ PseudoLocsAreUnique

LEMMA PseudoLocsDiffer ==
    /\ \A m, n \in Nat : PseudoLoc(m) = PseudoLoc(n) => m = n
    /\ \A n \in Nat : PseudoLoc(n) # NoLoc
    /\ \A n \in Nat : PseudoLoc(n) \in PseudoLocs
<1>1. \A n \in Nat : PseudoLoc(n) \in PseudoLocs
    BY DEF PseudoLoc, PseudoLocs
<1>2. \A m, n \in Nat : PseudoLoc(m) = PseudoLoc(n) => m = n
    BY DEF PseudoLoc
<1>3. QED
    BY <1>1, <1>2, LocationsAssumption

\* SDReturnRange starts on some calls, whatever the encoder knows by then.
Started ==
    /\ Listed(calls)
    /\ \A i \in DOMAIN calls : calls[i].loc \notin PseudoLocs
    /\ uses = {i \in DOMAIN calls : calls[i].kind = "virtual"}
    /\ scan = 1
    /\ debugLoc = [i \in DOMAIN calls |-> calls[i].loc]
    /\ pseudoDebugLoc = 1
    /\ VirtualCallSites = {}
    /\ CallSiteDebugLocsVirtual = <<>> /\ CallSiteDebugLocsStatic = <<>>
    /\ machineCalls = <<>> /\ nops = <<>> /\ ~loaded

LEMMA InitStarted == LabelsInit => Started
BY LocationsAssumption DEF LabelsInit, Init, SitesInit, Started, Listed, Machine!MachineInit

LEMMA InitLocated == Started => LInv
BY DEF Started, LInv, Located, PseudoLocsAreUnique

\* A call gets a location that no other call has.
LEMMA CreateKeeps ==
    ASSUME LInv, NEW i \in DOMAIN calls, getOrCreateDebugLoc(i), uses' \subseteq uses,
           UNCHANGED calls
    PROVE  LInv'
<1>1. CASE debugLoc[i] # NoLoc
    <2>1. debugLoc' = debugLoc /\ pseudoDebugLoc' = pseudoDebugLoc
        BY <1>1 DEF getOrCreateDebugLoc, LocOf, LInv, Located
    <2>2. QED
        BY <2>1 DEF LInv, Located, PseudoLocsAreUnique
<1>2. CASE debugLoc[i] = NoLoc
    <2>1. /\ DOMAIN debugLoc' = DOMAIN calls
          /\ debugLoc'[i] = PseudoLoc(pseudoDebugLoc)
          /\ \A j \in DOMAIN calls : j # i => debugLoc'[j] = debugLoc[j]
          /\ pseudoDebugLoc' = pseudoDebugLoc + 1 /\ pseudoDebugLoc \in Nat
          /\ debugLoc' = [j \in DOMAIN calls |-> debugLoc'[j]]
        BY <1>2 DEF getOrCreateDebugLoc, LocOf, LInv, Located
    <2>2. \A j \in DOMAIN calls : debugLoc[j] # PseudoLoc(pseudoDebugLoc)
        <3> SUFFICES ASSUME NEW j \in DOMAIN calls
                     PROVE  debugLoc[j] # PseudoLoc(pseudoDebugLoc)
            OBVIOUS
        <3>1. calls[j].loc \notin PseudoLocs /\ pseudoDebugLoc \in Nat
            BY DEF LInv, Located
        <3>2. CASE calls[j].loc # NoLoc
            BY <3>1, <3>2, PseudoLocsDiffer DEF LInv, Located
        <3>3. CASE calls[j].loc = NoLoc
            <4>1. CASE debugLoc[j] = NoLoc
                BY <3>1, <4>1, PseudoLocsDiffer
            <4>2. CASE \E n \in Nat : n < pseudoDebugLoc /\ debugLoc[j] = PseudoLoc(n)
                BY <3>1, <4>2, PseudoLocsDiffer
            <4>3. QED
                BY <3>3, <4>1, <4>2 DEF LInv, Located
        <3>4. QED
            BY <3>2, <3>3
    <2>3. Located'
        <3>1. ASSUME NEW j \in DOMAIN calls'
              PROVE  IF calls'[j].loc # NoLoc THEN debugLoc'[j] = calls'[j].loc
                     ELSE \/ debugLoc'[j] = NoLoc
                          \/ \E n \in Nat : n < pseudoDebugLoc' /\ debugLoc'[j] = PseudoLoc(n)
            <4>1. CASE j = i
                <5>1. calls[i].loc = NoLoc
                    BY <1>2 DEF LInv, Located
                <5>2. pseudoDebugLoc < pseudoDebugLoc' /\ debugLoc'[j] = PseudoLoc(pseudoDebugLoc)
                    BY <2>1, <4>1
                <5>3. QED
                    BY <2>1, <4>1, <5>1, <5>2
            <4>2. CASE j # i
                <5>1. debugLoc'[j] = debugLoc[j] /\ calls' = calls
                    BY <2>1, <4>2
                <5>2. \A n \in Nat : n < pseudoDebugLoc => n < pseudoDebugLoc'
                    BY <2>1
                <5>3. QED
                    BY <5>1, <5>2 DEF LInv, Located
            <4>3. QED
                BY <4>1, <4>2
        <3>2. /\ Listed(calls') /\ \A j \in DOMAIN calls' : calls'[j].loc \notin PseudoLocs
              /\ uses' \subseteq DOMAIN calls' /\ pseudoDebugLoc' \in Nat
            BY <2>1 DEF LInv, Located
        <3>3. debugLoc' = [j \in DOMAIN calls' |-> debugLoc'[j]]
            BY <2>1
        <3>4. \A n : PseudoLoc(n)' = PseudoLoc(n)
            BY DEF PseudoLoc
        <3>5. QED
            BY <3>1, <3>2, <3>3, <3>4 DEF Located, Listed, PseudoLocs
    <2>4. PseudoLocsAreUnique'
        BY <2>1, <2>2 DEF LInv, PseudoLocsAreUnique
    <2>5. QED
        BY <2>3, <2>4 DEF LInv
<1>3. QED
    BY <1>1, <1>2

LEMMA NextLocated == LInv /\ [Next]_vars => LInv'
<1> SUFFICES ASSUME LInv, [Next]_vars PROVE LInv'
    OBVIOUS
<1>1. ASSUME UNCHANGED <<calls, debugLoc, pseudoDebugLoc>>, uses' \subseteq uses
      PROVE  LInv'
    BY <1>1 DEF LInv, Located, PseudoLocsAreUnique, PseudoLoc
<1>2. uses \subseteq DOMAIN calls
    BY DEF LInv, Located
<1>3. CASE addVirtualCallSite
    BY <1>2, <1>3, CreateKeeps DEF addVirtualCallSite
<1>4. CASE SkipVirtualCallSite
    BY <1>1, <1>4 DEF SkipVirtualCallSite
<1>5. CASE addDirectCallSite
    BY <1>5, CreateKeeps DEF addDirectCallSite, Scan
<1>6. CASE SkipDirectCallSite
    BY <1>6, CreateKeeps DEF SkipDirectCallSite, Scan
<1>7. CASE addTailCallSite
    BY <1>7, CreateKeeps DEF addTailCallSite, Scan
<1>8. CASE addIndirectCallSite
    BY <1>8, CreateKeeps DEF addIndirectCallSite, Scan
<1>9. CASE IgnoreCall
    BY <1>1, <1>9 DEF IgnoreCall, Scan
<1>10. CASE UNCHANGED vars
    BY <1>1, <1>10 DEF vars, siteVars
<1>11. QED
    BY <1>3, <1>4, <1>5, <1>6, <1>7, <1>8, <1>9, <1>10 DEF Next

\* Everything else leaves the variables of SDReturnRange alone.
LEMMA LabelsStep == [LabelsNext]_<<vars, machineVars>> => [Next]_vars
BY DEF LabelsNext, storeCallSites, Done

LEMMA AlwaysLocated == LabelsSpec => []LInv
BY InitStarted, InitLocated, NextLocated, LabelsStep, PTL DEF LabelsSpec

\* For every sequence of calls and every order of the use list, a made-up
\* location is the location of one call only, from its creation to the end.
THEOREM PseudoLocsNeverShared == LabelsSpec => []PseudoLocsAreUnique
BY AlwaysLocated, PTL DEF LInv
-----------------------------------------------------------------------------
(* The lists of SDReturnRange: what is filed under which location.         *)

Kinds == {"virtual", "direct", "indirect", "cast", "address"}

\* The calls that the static loop files, with the target and the ID.
Filed(i) ==
    \/ calls[i].kind = "direct" /\ ~calls[i].blacklisted /\ calls[i].calleeID # 0
    \/ calls[i].kind \in {"indirect", "virtual"} /\ ~Described(i)
Target(i) ==
    IF calls[i].kind = "direct" THEN "direct" ELSE IF calls[i].tail THEN "tail" ELSE "indirect"
CalleeID(i) ==
    IF calls[i].kind = "direct" THEN calls[i].calleeID
    ELSE IF calls[i].tail THEN 0 ELSE EncodingToTypeID[Precise(calls[i].type)]
StaticEntry(i) == [loc |-> debugLoc[i], target |-> Target(i), id |-> CalleeID(i)]
VirtualEntry(i) == [loc |-> debugLoc[i], range |-> calls[i].ranges[1]]

\* A virtual call that has been processed and could be described is filed.
VirtualsFiled ==
    /\ \A i \in uses : calls[i].kind = "virtual"
    /\ VirtualCallSites = {i \in DOMAIN calls : Described(i)} \ uses
    /\ \A i \in VirtualCallSites : debugLoc[i] # NoLoc
    /\ Listed(CallSiteDebugLocsVirtual)
    /\ \A k \in DOMAIN CallSiteDebugLocsVirtual : \E i \in VirtualCallSites :
          CallSiteDebugLocsVirtual[k] = VirtualEntry(i)
    /\ \A i \in VirtualCallSites : \E k \in DOMAIN CallSiteDebugLocsVirtual :
          CallSiteDebugLocsVirtual[k].loc = debugLoc[i]

\* Of the calls before scan, those of the static loop are filed.
StaticsFiled ==
    /\ scan \in Nat \ {0} /\ scan <= Len(calls) + 1
    /\ \A i \in 1..(scan - 1) : calls[i].kind \in Kinds
    /\ \A i \in 1..(scan - 1) : Filed(i) =>
          /\ debugLoc[i] # NoLoc
          /\ Target(i) = "indirect" => Precise(calls[i].type) \in DOMAIN EncodingToTypeID
          /\ \E k \in DOMAIN CallSiteDebugLocsStatic : CallSiteDebugLocsStatic[k] = StaticEntry(i)
    /\ Listed(CallSiteDebugLocsStatic)
    /\ \A k \in DOMAIN CallSiteDebugLocsStatic : \E i \in 1..(scan - 1) :
          Filed(i) /\ CallSiteDebugLocsStatic[k] = StaticEntry(i)

FInv == LInv /\ VirtualsFiled /\ StaticsFiled

\* The calls are a sequence, and those of the use list are among them.
LEMMA CallsListed == Located => Listed(calls) /\ Len(calls) \in Nat /\ DOMAIN calls = 1..Len(calls)
BY ListedAppend DEF Located

LEMMA InitFiled == Started => FInv
<1> SUFFICES ASSUME Started PROVE FInv
    OBVIOUS
<1>1. LInv
    BY InitLocated
<1>2. Len(calls) \in Nat
    BY <1>1, CallsListed DEF LInv
<1>3. VirtualsFiled
    BY EmptyListed DEF Started, VirtualsFiled, Described
<1>4. StaticsFiled
    BY <1>2, EmptyListed DEF Started, StaticsFiled
<1>5. QED
    BY <1>1, <1>3, <1>4 DEF FInv

\* A location that a call has stays.
Kept == \A j \in DOMAIN calls : debugLoc[j] # NoLoc => debugLoc'[j] = debugLoc[j]

LEMMA Attached ==
    ASSUME LInv, NEW i \in DOMAIN calls, getOrCreateDebugLoc(i)
    PROVE  Kept /\ debugLoc'[i] = LocOf(i) /\ LocOf(i) # NoLoc
<1>1. pseudoDebugLoc \in Nat
    BY DEF LInv, Located
<1>2. LocOf(i) # NoLoc
    BY <1>1, PseudoLocsDiffer DEF LocOf
<1>3. debugLoc' = [debugLoc EXCEPT ![i] = LocOf(i)] /\ DOMAIN debugLoc = DOMAIN calls
    BY DEF getOrCreateDebugLoc, LInv, Located
<1>4. QED
    BY <1>2, <1>3 DEF Kept, LocOf

LEMMA KeepVirtuals ==
    ASSUME VirtualsFiled, Kept, UNCHANGED <<calls, VirtualCallSites, CallSiteDebugLocsVirtual>>,
           uses' \subseteq uses,
           \A i \in uses \ uses' : ~Described(i)
    PROVE  VirtualsFiled'
<1>1. \A i : Described(i)' = Described(i)
    BY DEF Described
<1>2. \A i \in VirtualCallSites : i \in DOMAIN calls /\ debugLoc'[i] = debugLoc[i]
    BY DEF VirtualsFiled, Kept
<1>3. \A i \in VirtualCallSites : VirtualEntry(i)' = VirtualEntry(i)
    BY <1>2 DEF VirtualEntry
<1>4. VirtualCallSites' = {i \in DOMAIN calls' : Described(i)'} \ uses'
    BY <1>1 DEF VirtualsFiled
<1>5. Listed(CallSiteDebugLocsVirtual)'
    BY DEF VirtualsFiled, Listed
<1>6. \A i \in uses' : calls'[i].kind = "virtual"
    BY DEF VirtualsFiled
<1>7. QED
    BY <1>2, <1>3, <1>4, <1>5, <1>6 DEF VirtualsFiled

LEMMA KeepStatics ==
    ASSUME StaticsFiled, Kept, Located,
           UNCHANGED <<calls, scan, CallSiteDebugLocsStatic, EncodingToTypeID>>
    PROVE  StaticsFiled'
<1>1. \A i : Described(i)' = Described(i)
    BY DEF Described
<1>2. \A i : Filed(i)' = Filed(i) /\ Target(i)' = Target(i) /\ CalleeID(i)' = CalleeID(i)
    BY <1>1 DEF Filed, Target, CalleeID
<1>3. \A i \in 1..(scan - 1) : Filed(i) => debugLoc'[i] = debugLoc[i]
    <2>1. \A i \in 1..(scan - 1) : i \in DOMAIN calls
        BY CallsListed DEF StaticsFiled
    <2>2. QED
        BY <2>1 DEF StaticsFiled, Kept
<1>4. \A i \in 1..(scan - 1) : Filed(i) => StaticEntry(i)' = StaticEntry(i)
    BY <1>2, <1>3 DEF StaticEntry
<1>5. Listed(CallSiteDebugLocsStatic)'
    BY DEF StaticsFiled, Listed
<1>6. QED
    BY <1>2, <1>3, <1>4, <1>5 DEF StaticsFiled

\* The virtual loop files one more call.
LEMMA AddVirtual ==
    ASSUME FInv, addVirtualCallSite
    PROVE  FInv'
<1>1. PICK i \in uses :
          /\ uses' = uses \ {i}
          /\ calls[i].found /\ calls[i].ranges # <<>>
          /\ getOrCreateDebugLoc(i)
          /\ CallSiteDebugLocsVirtual' =
                 Append(CallSiteDebugLocsVirtual, [loc |-> LocOf(i), range |-> calls[i].ranges[1]])
          /\ VirtualCallSites' = VirtualCallSites \cup {i}
          /\ UNCHANGED <<calls, scan, CallSiteDebugLocsStatic, encoderVars>>
    BY DEF addVirtualCallSite
<1>2. i \in DOMAIN calls /\ Described(i)
    BY <1>1 DEF FInv, LInv, Located, VirtualsFiled, Described
<1>3. Kept /\ debugLoc'[i] = LocOf(i) /\ LocOf(i) # NoLoc
    BY <1>1, <1>2, Attached DEF FInv
<1>4. LInv'
    BY <1>1, <1>2, CreateKeeps DEF FInv
<1>5. StaticsFiled'
    BY <1>1, <1>3, KeepStatics DEF FInv, LInv, encoderVars
<1>6. VirtualsFiled'
    <2> DEFINE V == CallSiteDebugLocsVirtual
               e == [loc |-> LocOf(i), range |-> calls[i].ranges[1]]
    <2>1. /\ V' = Append(V, e) /\ Listed(V')
          /\ Len(V) \in Nat /\ DOMAIN V = 1..Len(V) /\ DOMAIN V' = 1..(Len(V) + 1)
          /\ V'[Len(V) + 1] = e /\ \A k \in DOMAIN V : V'[k] = V[k]
        BY <1>1, ListedAppend DEF FInv, VirtualsFiled
    <2>2. e = VirtualEntry(i)' /\ e.loc = debugLoc'[i]
        BY <1>1, <1>3 DEF VirtualEntry
    <2> HIDE DEF e
    <2>3. \A j : Described(j)' = Described(j)
        BY <1>1 DEF Described
    <2>4. \A j \in VirtualCallSites : j \in DOMAIN calls /\ debugLoc[j] # NoLoc /\ debugLoc'[j] = debugLoc[j]
        BY <1>3 DEF FInv, VirtualsFiled, Kept
    <2>5. \A j \in VirtualCallSites : VirtualEntry(j)' = VirtualEntry(j)
        BY <1>1, <2>4 DEF VirtualEntry
    <2>6. VirtualCallSites' = {j \in DOMAIN calls' : Described(j)'} \ uses'
        BY <1>1, <1>2, <2>3 DEF FInv, VirtualsFiled
    <2>7. \A j \in VirtualCallSites' : debugLoc'[j] # NoLoc
        BY <1>1, <1>3, <2>4
    <2>8. \A k \in DOMAIN V' : \E j \in VirtualCallSites' : V'[k] = VirtualEntry(j)'
        <3> SUFFICES ASSUME NEW k \in DOMAIN V'
                     PROVE  \E j \in VirtualCallSites' : V'[k] = VirtualEntry(j)'
            OBVIOUS
        <3>1. CASE k = Len(V) + 1
            BY <1>1, <2>1, <2>2, <3>1
        <3>2. CASE k # Len(V) + 1
            <4>1. k \in DOMAIN V /\ V'[k] = V[k]
                BY <2>1, <3>2
            <4>2. PICK j \in VirtualCallSites : V[k] = VirtualEntry(j)
                BY <4>1 DEF FInv, VirtualsFiled
            <4>3. QED
                BY <1>1, <2>5, <4>1, <4>2
        <3>3. QED
            BY <3>1, <3>2
    <2>9. \A j \in VirtualCallSites' : \E k \in DOMAIN V' : V'[k].loc = debugLoc'[j]
        <3> SUFFICES ASSUME NEW j \in VirtualCallSites'
                     PROVE  \E k \in DOMAIN V' : V'[k].loc = debugLoc'[j]
            OBVIOUS
        <3>1. CASE j = i
            BY <2>1, <2>2, <3>1
        <3>2. CASE j # i
            <4>1. j \in VirtualCallSites
                BY <1>1, <3>2
            <4>2. PICK k \in DOMAIN V : V[k].loc = debugLoc[j]
                BY <4>1 DEF FInv, VirtualsFiled
            <4>3. QED
                BY <2>1, <2>4, <4>1, <4>2
        <3>3. QED
            BY <3>1, <3>2
    <2>10. \A j \in uses' : calls'[j].kind = "virtual"
        BY <1>1 DEF FInv, VirtualsFiled
    <2>11. QED
        BY <2>1, <2>6, <2>7, <2>8, <2>9, <2>10 DEF VirtualsFiled
<1>7. QED
    BY <1>4, <1>5, <1>6 DEF FInv

\* The static loop is done with call i: filed at the end of the list, or not.
LEMMA ScanOne ==
    ASSUME FInv, LInv', Kept, NEW i \in DOMAIN calls, i = scan, scan' = scan + 1, uses = {},
           UNCHANGED <<calls, uses, VirtualCallSites, CallSiteDebugLocsVirtual>>,
           calls[i].kind \in Kinds,
           \A e \in DOMAIN EncodingToTypeID :
               e \in DOMAIN EncodingToTypeID' /\ EncodingToTypeID'[e] = EncodingToTypeID[e],
           \/ ~Filed(i) /\ UNCHANGED CallSiteDebugLocsStatic
           \/ /\ Filed(i) /\ debugLoc'[i] # NoLoc
              /\ Target(i) = "indirect" => Precise(calls[i].type) \in DOMAIN EncodingToTypeID'
              /\ CallSiteDebugLocsStatic' =
                     Append(CallSiteDebugLocsStatic,
                            [loc |-> debugLoc'[i], target |-> Target(i), id |-> CalleeID(i)'])
    PROVE  FInv'
<1> DEFINE S == CallSiteDebugLocsStatic
           e == [loc |-> debugLoc'[i], target |-> Target(i), id |-> CalleeID(i)']
<1>1. VirtualsFiled'
    BY KeepVirtuals DEF FInv
<1>2. \A j : Described(j)' = Described(j)
    BY DEF Described
<1>3. \A j : Filed(j)' = Filed(j) /\ Target(j)' = Target(j)
    BY <1>2 DEF Filed, Target
<1>4. e = StaticEntry(i)'
    BY <1>3 DEF StaticEntry
<1>5. /\ Len(calls) \in Nat /\ DOMAIN calls = 1..Len(calls)
      /\ scan \in Nat \ {0} /\ scan <= Len(calls)
    BY CallsListed DEF FInv, LInv, StaticsFiled
<1>6. \A j \in 1..(scan - 1) : Filed(j) =>
          /\ j \in DOMAIN calls /\ debugLoc'[j] = debugLoc[j] /\ debugLoc'[j] # NoLoc
          /\ CalleeID(j)' = CalleeID(j)
          /\ StaticEntry(j)' = StaticEntry(j)
    <2> SUFFICES ASSUME NEW j \in 1..(scan - 1), Filed(j)
                 PROVE  /\ j \in DOMAIN calls /\ debugLoc'[j] = debugLoc[j] /\ debugLoc'[j] # NoLoc
                        /\ CalleeID(j)' = CalleeID(j)
                        /\ StaticEntry(j)' = StaticEntry(j)
        OBVIOUS
    <2>1. j \in DOMAIN calls /\ debugLoc'[j] = debugLoc[j] /\ debugLoc'[j] # NoLoc
        BY <1>5 DEF FInv, StaticsFiled, Kept
    <2>2. CalleeID(j)' = CalleeID(j)
        <3>1. CASE Target(j) = "indirect"
            <4>1. Precise(calls[j].type) \in DOMAIN EncodingToTypeID
                BY <3>1 DEF FInv, StaticsFiled
            <4>2. QED
                BY <4>1 DEF CalleeID
        <3>2. CASE Target(j) # "indirect"
            BY <3>2 DEF CalleeID, Target
        <3>3. QED
            BY <3>1, <3>2
    <2>3. QED
        BY <1>3, <2>1, <2>2 DEF StaticEntry
<1>7. \A j \in 1..(scan' - 1) : j \in 1..(scan - 1) \/ j = i
    BY <1>5
<1>8. i \in 1..(scan' - 1) /\ 1..(scan - 1) \subseteq 1..(scan' - 1)
    BY <1>5
<1>9. /\ scan' \in Nat \ {0} /\ scan' <= Len(calls') + 1
      /\ \A j \in 1..(scan' - 1) : calls'[j].kind \in Kinds
    BY <1>5, <1>7 DEF FInv, StaticsFiled
<1>10. \A j \in 1..(scan' - 1) : Filed(j)' =>
           /\ debugLoc'[j] # NoLoc
           /\ Target(j)' = "indirect" => Precise(calls'[j].type) \in DOMAIN EncodingToTypeID'
    BY <1>3, <1>6, <1>7 DEF FInv, StaticsFiled
<1> HIDE DEF e
<1>11. CASE ~Filed(i) /\ UNCHANGED S
    <2>1. \A j \in 1..(scan' - 1) : Filed(j)' =>
              \E k \in DOMAIN S' : S'[k] = StaticEntry(j)'
        BY <1>3, <1>6, <1>7, <1>11 DEF FInv, StaticsFiled
    <2>2. \A k \in DOMAIN S' : \E j \in 1..(scan' - 1) : Filed(j)' /\ S'[k] = StaticEntry(j)'
        BY <1>3, <1>6, <1>8, <1>11 DEF FInv, StaticsFiled
    <2>3. Listed(S)'
        BY <1>11 DEF FInv, StaticsFiled, Listed
    <2>4. QED
        BY <1>1, <1>9, <1>10, <2>1, <2>2, <2>3 DEF FInv, StaticsFiled
<1>12. CASE Filed(i) /\ S' = Append(S, e)
    <2>1. /\ Listed(S')
          /\ Len(S) \in Nat /\ DOMAIN S = 1..Len(S) /\ DOMAIN S' = 1..(Len(S) + 1)
          /\ S'[Len(S) + 1] = e /\ \A k \in DOMAIN S : S'[k] = S[k]
        BY <1>12, ListedAppend DEF FInv, StaticsFiled
    <2>2. \A j \in 1..(scan' - 1) : Filed(j)' => \E k \in DOMAIN S' : S'[k] = StaticEntry(j)'
        <3> SUFFICES ASSUME NEW j \in 1..(scan' - 1), Filed(j)'
                     PROVE  \E k \in DOMAIN S' : S'[k] = StaticEntry(j)'
            OBVIOUS
        <3>1. CASE j = i
            BY <1>4, <2>1, <3>1
        <3>2. CASE j # i
            <4>1. j \in 1..(scan - 1) /\ Filed(j) /\ StaticEntry(j)' = StaticEntry(j)
                BY <1>3, <1>6, <1>7, <3>2
            <4>2. PICK k \in DOMAIN S : S[k] = StaticEntry(j)
                BY <4>1 DEF FInv, StaticsFiled
            <4>3. QED
                BY <2>1, <4>1, <4>2
        <3>3. QED
            BY <3>1, <3>2
    <2>3. \A k \in DOMAIN S' : \E j \in 1..(scan' - 1) : Filed(j)' /\ S'[k] = StaticEntry(j)'
        <3> SUFFICES ASSUME NEW k \in DOMAIN S'
                     PROVE  \E j \in 1..(scan' - 1) : Filed(j)' /\ S'[k] = StaticEntry(j)'
            OBVIOUS
        <3>1. CASE k = Len(S) + 1
            BY <1>3, <1>4, <1>8, <1>12, <2>1, <3>1
        <3>2. CASE k # Len(S) + 1
            <4>1. k \in DOMAIN S /\ S'[k] = S[k]
                BY <2>1, <3>2
            <4>2. PICK j \in 1..(scan - 1) : Filed(j) /\ S[k] = StaticEntry(j)
                BY <4>1 DEF FInv, StaticsFiled
            <4>3. QED
                BY <1>3, <1>6, <1>8, <4>1, <4>2
        <3>3. QED
            BY <3>1, <3>2
    <2>4. QED
        BY <1>1, <1>9, <1>10, <2>1, <2>2, <2>3 DEF FInv, StaticsFiled, Listed
<1>13. QED
    BY <1>11, <1>12 DEF e

\* An encoding that has an ID keeps it; the one that is asked for has one.
LEMMA EncoderKeeps ==
    ASSUME NEW T, NEW id, getTypeID(T, id)
    PROVE  /\ \A e \in DOMAIN EncodingToTypeID :
                 e \in DOMAIN EncodingToTypeID' /\ EncodingToTypeID'[e] = EncodingToTypeID[e]
           /\ Precise(T) \in DOMAIN EncodingToTypeID'
           /\ id = EncodingToTypeID'[Precise(T)]
BY DEF getTypeID, encoderVars

LEMMA NextFiled == FInv /\ [Next]_vars => FInv'
<1> SUFFICES ASSUME FInv, [Next]_vars PROVE FInv'
    OBVIOUS
<1>1. CASE addVirtualCallSite
    BY <1>1, AddVirtual
<1>2. CASE SkipVirtualCallSite
    <2>1. LInv'
        BY <1>2, NextLocated DEF FInv, Next
    <2>2. PICK i \in uses :
              /\ uses' = uses \ {i} /\ (~calls[i].found \/ calls[i].ranges = <<>>)
              /\ UNCHANGED <<calls, scan, debugLoc, VirtualCallSites, CallSiteDebugLocsVirtual,
                             CallSiteDebugLocsStatic, EncodingToTypeID>>
        BY <1>2 DEF SkipVirtualCallSite, encoderVars
    <2>3. Kept /\ ~Described(i)
        BY <2>2 DEF Kept, Described
    <2>4. QED
        BY <2>1, <2>2, <2>3, KeepVirtuals, KeepStatics DEF FInv, LInv
<1>3. ASSUME Scan PROVE scan \in DOMAIN calls /\ scan' = scan + 1 /\ uses = {} /\
          UNCHANGED <<calls, uses, VirtualCallSites, CallSiteDebugLocsVirtual>>
    BY <1>3 DEF Scan
<1>4. Scan => VirtualCallSites = {i \in DOMAIN calls : Described(i)}
    BY DEF Scan, FInv, VirtualsFiled
<1>5. CASE addDirectCallSite
    <2>1. /\ Scan /\ C.kind = "direct" /\ ~C.blacklisted /\ C.calleeID # 0
          /\ getOrCreateDebugLoc(scan) /\ File("direct", C.calleeID) /\ UNCHANGED encoderVars
        BY <1>5 DEF addDirectCallSite
    <2>2. Kept /\ debugLoc'[scan] = LocOf(scan) /\ LocOf(scan) # NoLoc /\ LInv'
        BY <1>3, <2>1, Attached, CreateKeeps DEF FInv
    <2>3. Filed(scan) /\ Target(scan) = "direct" /\ C.kind \in Kinds
        BY <2>1 DEF Filed, Target, C, Kinds
    <2>4. calls[scan].calleeID = C.calleeID /\ calls[scan].kind = "direct"
        BY <2>1 DEF C
    <2>5. QED
        BY <1>3, <2>1, <2>2, <2>3, <2>4, ScanOne DEF File, C, CalleeID, encoderVars
<1>6. CASE SkipDirectCallSite
    <2>1. /\ Scan /\ C.kind = "direct" /\ (C.blacklisted \/ C.calleeID = 0)
          /\ getOrCreateDebugLoc(scan) /\ UNCHANGED <<CallSiteDebugLocsStatic, encoderVars>>
        BY <1>6 DEF SkipDirectCallSite
    <2>2. Kept /\ LInv'
        BY <1>3, <2>1, Attached, CreateKeeps DEF FInv
    <2>3. ~Filed(scan) /\ C.kind \in Kinds
        BY <2>1 DEF Filed, C, Kinds
    <2>4. QED
        BY <1>3, <2>1, <2>2, <2>3, ScanOne DEF C, encoderVars
\* A virtual or indirect call that is not described, as both actions see it.
<1>7. ASSUME Scan, IsIndirect
      PROVE  Filed(scan) /\ C.kind \in Kinds /\ C.kind # "direct"
    BY <1>3, <1>4, <1>7 DEF IsIndirect, Filed, C, Kinds
<1>8. CASE addTailCallSite
    <2>1. /\ Scan /\ IsIndirect /\ C.tail
          /\ getOrCreateDebugLoc(scan) /\ File("tail", 0) /\ UNCHANGED encoderVars
        BY <1>8 DEF addTailCallSite
    <2>2. Kept /\ debugLoc'[scan] = LocOf(scan) /\ LocOf(scan) # NoLoc /\ LInv'
        BY <1>3, <2>1, Attached, CreateKeeps DEF FInv
    <2>3. Filed(scan) /\ C.kind \in Kinds /\ calls[scan].kind # "direct" /\ calls[scan].tail
        BY <1>7, <2>1 DEF C
    <2>4. Target(scan) = "tail"
        BY <2>3 DEF Target
    <2>5. \A i : i = scan => CalleeID(i)' = 0
        BY <1>3, <2>1, <2>3 DEF CalleeID
    <2>6. QED
        BY <1>3, <2>1, <2>2, <2>3, <2>4, <2>5, ScanOne DEF File, C, encoderVars
<1>9. CASE addIndirectCallSite
    <2>1. PICK id \in 1..StartTypeID : getTypeID(C.type, id) /\ File("indirect", id)
        BY <1>9 DEF addIndirectCallSite
    <2>2. Scan /\ IsIndirect /\ ~C.tail /\ getOrCreateDebugLoc(scan)
        BY <1>9 DEF addIndirectCallSite
    <2>3. Kept /\ debugLoc'[scan] = LocOf(scan) /\ LocOf(scan) # NoLoc /\ LInv'
        BY <1>3, <2>2, Attached, CreateKeeps DEF FInv
    <2>4. Filed(scan) /\ C.kind \in Kinds /\ calls[scan].kind # "direct" /\ ~calls[scan].tail
        BY <1>7, <2>2 DEF C
    <2>5. Target(scan) = "indirect"
        BY <2>4 DEF Target
    <2>6. /\ \A e \in DOMAIN EncodingToTypeID :
                 e \in DOMAIN EncodingToTypeID' /\ EncodingToTypeID'[e] = EncodingToTypeID[e]
          /\ Precise(calls[scan].type) \in DOMAIN EncodingToTypeID'
          /\ id = EncodingToTypeID'[Precise(calls[scan].type)]
        BY <2>1, EncoderKeeps DEF C
    <2>7. \A i : i = scan => CalleeID(i)' = id
        BY <1>3, <2>2, <2>4, <2>6 DEF CalleeID
    <2>8. CallSiteDebugLocsStatic' =
              Append(CallSiteDebugLocsStatic, [loc |-> LocOf(scan), target |-> "indirect", id |-> id])
        BY <2>1 DEF File
    <2>9. QED
        BY <1>3, <2>2, <2>3, <2>4, <2>5, <2>6, <2>7, <2>8, ScanOne DEF C
<1>10. CASE IgnoreCall
    <2>1. /\ Scan
          /\ \/ C.kind = "direct" /\ C.blacklisted
             \/ C.kind \in {"cast", "address"}
             \/ scan \in VirtualCallSites
          /\ UNCHANGED <<debugLoc, pseudoDebugLoc, CallSiteDebugLocsStatic, encoderVars>>
        BY <1>10 DEF IgnoreCall
    <2>2. Kept /\ LInv'
        BY <1>10, <2>1, NextLocated DEF FInv, Kept, Next
    <2>3. ~Filed(scan) /\ C.kind \in Kinds
        BY <1>3, <1>4, <2>1 DEF Filed, C, Kinds, Described
    <2>4. QED
        BY <1>3, <2>1, <2>2, <2>3, ScanOne DEF C, encoderVars
<1>11. CASE UNCHANGED vars
    <2>1. /\ LInv' /\ Kept
          /\ UNCHANGED <<calls, uses, scan, debugLoc, VirtualCallSites, CallSiteDebugLocsVirtual,
                         CallSiteDebugLocsStatic, EncodingToTypeID>>
        BY <1>11, NextLocated DEF FInv, vars, siteVars, encoderVars, Kept
    <2>2. QED
        BY <2>1, KeepVirtuals, KeepStatics DEF FInv, LInv
<1>12. QED
    BY <1>1, <1>2, <1>5, <1>6, <1>8, <1>9, <1>10, <1>11 DEF Next

-----------------------------------------------------------------------------
(* The maps of SDMachineFunction: what is found again by location.         *)

LocsOf(s, kept) == {s[k].loc : k \in kept}

\* A location is in the map if an entry has it, and brings the field of one.
LEMMA Loaded ==
    ASSUME NEW s, Listed(s), NEW kept, kept \subseteq DOMAIN s, NEW field
    PROVE  /\ DOMAIN Machine!Load(s, kept, field) = LocsOf(s, kept)
           /\ \A l \in LocsOf(s, kept) : \E k \in kept :
                 s[k].loc = l /\ Machine!Load(s, kept, field)[l] = s[k][field]
<1>1. DOMAIN Machine!Load(s, kept, field) = LocsOf(s, kept)
    BY DEF Machine!Load, LocsOf
<1>2. ASSUME NEW l \in LocsOf(s, kept)
      PROVE  \E k \in kept : s[k].loc = l /\ Machine!Load(s, kept, field)[l] = s[k][field]
    <2> DEFINE S == {k \in kept : s[k].loc = l}
               Last == CHOOSE i \in kept : /\ s[i].loc = l
                                           /\ \A j \in kept : s[j].loc = l => j <= i
    <2>1. Len(s) \in Nat /\ S \subseteq 1..Len(s) /\ S # {}
        BY <1>2, ListedAppend DEF LocsOf
    <2>2. \E i \in S : \A j \in S : j <= i
        BY <2>1, Greatest
    <2>3. \E i \in kept : s[i].loc = l /\ \A j \in kept : s[j].loc = l => j <= i
        BY <2>2
    <2>4. Last \in kept /\ s[Last].loc = l
        BY <2>3
    <2>5. Machine!Load(s, kept, field)[l] = s[Last][field]
        BY <1>2 DEF Machine!Load, LocsOf
    <2>6. QED
        BY <2>4, <2>5
<1>3. QED
    BY <1>1, <1>2

\* Two calls share a location only if the source says so.
LEMMA Apart ==
    ASSUME LInv, DistinctLocations, NEW i \in DOMAIN calls, NEW j \in DOMAIN calls,
           debugLoc[i] = debugLoc[j], debugLoc[i] # NoLoc
    PROVE  i = j
<1>1. CASE calls[i].loc = NoLoc \/ calls[j].loc = NoLoc
    BY <1>1 DEF LInv, PseudoLocsAreUnique
<1>2. CASE calls[i].loc # NoLoc /\ calls[j].loc # NoLoc
    BY <1>2 DEF LInv, Located, DistinctLocations
<1>3. QED
    BY <1>1, <1>2

AnyFiled == CallSiteDebugLocsVirtual # <<>> \/ CallSiteDebugLocsStatic # <<>>

\* The maps hold the lists.
Tables ==
    /\ SkipPass <=> ~AnyFiled
    /\ CallSiteRange =
           Machine!Load(CallSiteDebugLocsVirtual, DOMAIN CallSiteDebugLocsVirtual, "range")
    /\ CallSiteStatic =
           Machine!Load(CallSiteDebugLocsStatic, DOMAIN CallSiteDebugLocsStatic, "target")
    /\ CallSiteID =
           Machine!Load(CallSiteDebugLocsStatic,
                        {k \in DOMAIN CallSiteDebugLocsStatic :
                            CallSiteDebugLocsStatic[k].target # "tail"}, "id")

\* A described call finds the range of a described call of its location, and
\* only such a call finds one if locations are distinct.
LEMMA RangesFound ==
    ASSUME FInv, Tables, NEW i \in DOMAIN calls
    PROVE  /\ i \in VirtualCallSites =>
                 /\ debugLoc[i] \in DOMAIN CallSiteRange
                 /\ \E j \in VirtualCallSites : /\ debugLoc[j] = debugLoc[i]
                                                /\ CallSiteRange[debugLoc[i]] = calls[j].ranges[1]
           /\ DistinctLocations /\ debugLoc[i] \in DOMAIN CallSiteRange =>
                 i \in VirtualCallSites /\ CallSiteRange[debugLoc[i]] = calls[i].ranges[1]
<1> DEFINE V == CallSiteDebugLocsVirtual
<1>1. /\ DOMAIN CallSiteRange = LocsOf(V, DOMAIN V)
      /\ \A l \in LocsOf(V, DOMAIN V) : \E k \in DOMAIN V :
            V[k].loc = l /\ CallSiteRange[l] = V[k]["range"]
    BY Loaded DEF FInv, VirtualsFiled, Tables
<1>2. ASSUME debugLoc[i] \in DOMAIN CallSiteRange
      PROVE  \E j \in VirtualCallSites :
                 debugLoc[j] = debugLoc[i] /\ CallSiteRange[debugLoc[i]] = calls[j].ranges[1]
    <2>1. PICK k \in DOMAIN V : V[k].loc = debugLoc[i] /\ CallSiteRange[debugLoc[i]] = V[k].range
        BY <1>1, <1>2 DEF LocsOf
    <2>2. PICK j \in VirtualCallSites : V[k] = VirtualEntry(j)
        BY DEF FInv, VirtualsFiled
    <2>3. QED
        BY <2>1, <2>2 DEF VirtualEntry
<1>3. i \in VirtualCallSites => debugLoc[i] \in DOMAIN CallSiteRange
    BY <1>1 DEF FInv, VirtualsFiled, LocsOf
<1>4. ASSUME DistinctLocations, debugLoc[i] \in DOMAIN CallSiteRange
      PROVE  i \in VirtualCallSites /\ CallSiteRange[debugLoc[i]] = calls[i].ranges[1]
    <2>1. PICK j \in VirtualCallSites :
              debugLoc[j] = debugLoc[i] /\ CallSiteRange[debugLoc[i]] = calls[j].ranges[1]
        BY <1>2, <1>4
    <2>2. j \in DOMAIN calls /\ debugLoc[j] # NoLoc
        BY DEF FInv, VirtualsFiled
    <2>3. i = j
        BY <1>4, <2>1, <2>2, Apart DEF FInv
    <2>4. QED
        BY <2>1, <2>3
<1>5. QED
    BY <1>2, <1>3, <1>4

\* If locations are distinct, a call finds an entry of the static list if and
\* only if it is filed there, and it is its own.
LEMMA TargetsFound ==
    ASSUME FInv, Tables, scan = Len(calls) + 1, DistinctLocations, NEW i \in DOMAIN calls
    PROVE  /\ debugLoc[i] \in DOMAIN CallSiteStatic <=> Filed(i)
           /\ Filed(i) => CallSiteStatic[debugLoc[i]] = Target(i)
           /\ Filed(i) /\ Target(i) # "tail" => CallSiteID[debugLoc[i]] = CalleeID(i)
<1> DEFINE S == CallSiteDebugLocsStatic
           ids == {k \in DOMAIN S : S[k].target # "tail"}
<1>1. /\ DOMAIN CallSiteStatic = LocsOf(S, DOMAIN S)
      /\ \A l \in LocsOf(S, DOMAIN S) : \E k \in DOMAIN S :
            S[k].loc = l /\ CallSiteStatic[l] = S[k]["target"]
    BY Loaded DEF FInv, StaticsFiled, Tables
<1>2. \A l \in LocsOf(S, ids) : \E k \in ids :
          S[k].loc = l /\ CallSiteID[l] = S[k]["id"]
    <2>1. ids \subseteq DOMAIN S /\ Listed(S) /\ CallSiteID = Machine!Load(S, ids, "id")
        BY DEF FInv, StaticsFiled, Tables
    <2> HIDE DEF ids
    <2>2. QED
        BY <2>1, Loaded
<1>3. 1..(scan - 1) = DOMAIN calls
    BY CallsListed DEF FInv, LInv
<1>4. ASSUME NEW k \in DOMAIN S, S[k].loc = debugLoc[i]
      PROVE  Filed(i) /\ S[k] = StaticEntry(i)
    <2>1. PICK j \in DOMAIN calls : Filed(j) /\ S[k] = StaticEntry(j)
        BY <1>3 DEF FInv, StaticsFiled
    <2>2. debugLoc[j] # NoLoc /\ debugLoc[j] = debugLoc[i]
        BY <1>3, <1>4, <2>1 DEF FInv, StaticsFiled, StaticEntry
    <2>3. i = j
        BY <2>2, Apart DEF FInv
    <2>4. QED
        BY <2>1, <2>3
<1>5. Filed(i) => \E k \in DOMAIN S : S[k] = StaticEntry(i) /\ S[k].loc = debugLoc[i]
    BY <1>3 DEF FInv, StaticsFiled, StaticEntry
<1>6. debugLoc[i] \in DOMAIN CallSiteStatic <=> Filed(i)
    BY <1>1, <1>4, <1>5 DEF LocsOf
<1>7. ASSUME Filed(i) PROVE CallSiteStatic[debugLoc[i]] = Target(i)
    <2>1. PICK k \in DOMAIN S : S[k].loc = debugLoc[i] /\ CallSiteStatic[debugLoc[i]] = S[k].target
        BY <1>1, <1>6, <1>7 DEF LocsOf
    <2>2. QED
        BY <1>4, <2>1 DEF StaticEntry
<1>8. ASSUME Filed(i), Target(i) # "tail" PROVE CallSiteID[debugLoc[i]] = CalleeID(i)
    <2>1. PICK m \in DOMAIN S : S[m] = StaticEntry(i) /\ S[m].loc = debugLoc[i]
        BY <1>5, <1>8
    <2>2. m \in ids
        BY <1>8, <2>1 DEF StaticEntry
    <2>3. PICK k \in ids : S[k].loc = debugLoc[i] /\ CallSiteID[debugLoc[i]] = S[k].id
        BY <1>2, <2>1, <2>2 DEF LocsOf
    <2>4. QED
        BY <1>4, <2>3 DEF StaticEntry
<1>9. QED
    BY <1>6, <1>7, <1>8

-----------------------------------------------------------------------------
(* The calls of the code generator, one by one.                            *)

MachineCall(i) ==
    [loc    |-> debugLoc[i],
     target |-> IF calls[i].kind \in {"direct", "cast"} THEN "global" ELSE "computed"]

\* Before the code generator runs, and while it does: what is done and what is
\* to come are the calls of the module, in their order.
Unselected == machineCalls = <<>> /\ nops = <<>> /\ ~loaded
Selected ==
    /\ Finished
    /\ metadata = [virtual |-> CallSiteDebugLocsVirtual, static |-> CallSiteDebugLocsStatic]
    /\ Listed(machineCalls) /\ Listed(nops)
    /\ Len(nops) + Len(machineCalls) = Len(calls)
    /\ \A k \in DOMAIN machineCalls : machineCalls[k] = MachineCall(Len(nops) + k)
    /\ ~loaded => nops = <<>>
    /\ loaded => Tables

OwnLabel(i) == IF AnyFiled THEN Label(i) ELSE <<>>

\* A call has its own label, or a virtual one that of another at its location.
RightLabel(i, values) ==
    /\ DistinctLocations => values = OwnLabel(i)
    /\ i \in VirtualCallSites =>
          \E j \in VirtualCallSites : debugLoc[j] = debugLoc[i] /\ values = Label(j)

Labelled == \A i \in DOMAIN nops : RightLabel(i, nops[i])

MInv == FInv /\ (Unselected \/ Selected) /\ Labelled

\* The cases of Label.
LEMMA Labels ==
    ASSUME FInv, scan = Len(calls) + 1, uses = {}, NEW i \in DOMAIN calls
    PROVE  /\ calls[i].kind \in Kinds
           /\ i \in VirtualCallSites <=> Described(i)
           /\ Described(i) => Label(i) = <<Nop!Mark(calls[i].ranges[1][1]),
                                           Nop!Mark(calls[i].ranges[1][2] - calls[i].ranges[1][1])>>
           /\ ~(Described(i) /\ Filed(i))
           /\ Filed(i) /\ Target(i) # "tail" => Label(i) = <<Nop!Mark(CalleeID(i))>>
           /\ Filed(i) /\ Target(i) = "tail" => Label(i) = <<>>
           /\ ~Described(i) /\ ~Filed(i) =>
                 Label(i) = IF calls[i].kind = "address" THEN <<Nop!unknownID>> ELSE <<>>
           /\ ~Described(i) /\ ~Filed(i) => calls[i].kind \in {"direct", "cast", "address"}
<1>1. calls[i].kind \in Kinds
    BY CallsListed DEF FInv, LInv, StaticsFiled
<1>2. i \in VirtualCallSites <=> Described(i)
    BY DEF FInv, VirtualsFiled
<1>3. Described(i) => calls[i].kind = "virtual"
    BY DEF Described
<1>4. ~(Described(i) /\ Filed(i))
    BY <1>3 DEF Filed
<1>5. CASE Described(i)
    BY <1>1, <1>2, <1>3, <1>4, <1>5 DEF Label
<1>6. CASE ~Described(i) /\ calls[i].kind = "direct"
    BY <1>1, <1>2, <1>6 DEF Label, Filed, Target, CalleeID
<1>7. CASE ~Described(i) /\ calls[i].kind \in {"cast", "address"}
    BY <1>1, <1>2, <1>7 DEF Label, Filed, Target, CalleeID
<1>8. CASE ~Described(i) /\ calls[i].kind \in {"virtual", "indirect"}
    BY <1>1, <1>2, <1>8 DEF Label, Filed, Target, CalleeID
<1>9. QED
    BY <1>1, <1>5, <1>6, <1>7, <1>8 DEF Kinds

\* SDReturnRange has ended: its variables and those of the labels stay.
LEMMA LabelsKept ==
    ASSUME UNCHANGED vars
    PROVE  /\ \A i : MachineCall(i)' = MachineCall(i)
           /\ \A i : Label(i)' = Label(i)
           /\ DistinctLocations' <=> DistinctLocations
           /\ AnyFiled' <=> AnyFiled
           /\ Finished' <=> Finished
<1> USE DEF vars, siteVars, encoderVars
<1>1. \A i : Described(i)' = Described(i)
    BY DEF Described
<1>2. \A i : MachineCall(i)' = MachineCall(i)
    BY DEF MachineCall
<1>3. \A i : Label(i)' = Label(i)
    BY <1>1 DEF Label
<1>4. DistinctLocations' <=> DistinctLocations
    BY DEF DistinctLocations
<1>5. AnyFiled' <=> AnyFiled
    BY DEF AnyFiled
<1>6. Finished' <=> Finished
    BY DEF Finished
<1>7. QED
    BY <1>2, <1>3, <1>4, <1>5, <1>6

\* The next call gets its NOPs.
LEMMA EmitOne ==
    ASSUME FInv, Selected, Labelled, NEW values, Machine!Emit(values), UNCHANGED vars,
           RightLabel(Len(nops) + 1, values)
    PROVE  Selected' /\ Labelled'
<1>1. /\ loaded /\ loaded' /\ machineCalls # <<>>
      /\ machineCalls' = Tail(machineCalls) /\ nops' = Append(nops, values)
      /\ UNCHANGED <<metadata, SkipPass, CallSiteRange, CallSiteID, CallSiteStatic>>
    BY DEF Machine!Emit
<1>2. /\ Listed(nops') /\ Len(nops) \in Nat /\ DOMAIN nops = 1..Len(nops)
      /\ Len(nops') = Len(nops) + 1 /\ DOMAIN nops' = 1..(Len(nops) + 1)
      /\ nops'[Len(nops) + 1] = values
      /\ \A k \in DOMAIN nops : nops'[k] = nops[k]
    BY <1>1, ListedAppend DEF Selected
<1>3. /\ Listed(machineCalls') /\ Len(machineCalls) \in Nat \ {0}
      /\ DOMAIN machineCalls = 1..Len(machineCalls)
      /\ Len(machineCalls') = Len(machineCalls) - 1
      /\ DOMAIN machineCalls' = 1..(Len(machineCalls) - 1)
      /\ \A k \in 1..(Len(machineCalls) - 1) : machineCalls'[k] = machineCalls[k + 1]
    BY <1>1, ListedTail DEF Selected
<1>4. UNCHANGED <<calls, debugLoc, VirtualCallSites, CallSiteDebugLocsVirtual,
                  CallSiteDebugLocsStatic>>
    BY DEF vars, siteVars
<1>5. \A k \in DOMAIN machineCalls' : (machineCalls[k] = MachineCall(Len(nops) + k))'
    <2> SUFFICES ASSUME NEW k \in DOMAIN machineCalls'
                 PROVE  (machineCalls[k] = MachineCall(Len(nops) + k))'
        OBVIOUS
    <2>1. machineCalls'[k] = machineCalls[k + 1] /\ k + 1 \in DOMAIN machineCalls
        BY <1>3
    <2>2. machineCalls[k + 1] = MachineCall(Len(nops) + (k + 1))
        BY <2>1 DEF Selected
    <2>3. Len(nops) + (k + 1) = Len(nops') + k
        BY <1>2, <1>3
    <2>4. QED
        BY <1>4, <2>1, <2>2, <2>3 DEF MachineCall
<1>6. Selected'
    <2>1. Len(nops') + Len(machineCalls') = Len(calls')
        <3>1. Len(nops) + Len(machineCalls) = Len(calls)
            BY DEF Selected
        <3>2. (Len(nops) + 1) + (Len(machineCalls) - 1) = Len(calls)
            <4>1. \A a, b \in Nat : (a + 1) + (b - 1) = a + b
                OBVIOUS
            <4>2. Len(nops) \in Nat /\ Len(machineCalls) \in Nat
                BY <1>2, <1>3
            <4>3. (Len(nops) + 1) + (Len(machineCalls) - 1) = Len(nops) + Len(machineCalls)
                BY <4>1, <4>2
            <4>4. QED
                BY <3>1, <4>3
        <3>3. Len(calls') = Len(calls)
            BY <1>4
        <3>4. Len(nops') = Len(nops) + 1 /\ Len(machineCalls') = Len(machineCalls) - 1
            BY <1>2, <1>3
        <3>5. QED
            BY <3>2, <3>3, <3>4
    <2>2. Finished'
        BY LabelsKept DEF Selected
    <2>3. Tables'
        <3>1. Tables
            BY <1>1 DEF Selected
        <3>2. QED
            BY <1>1, <1>4, <3>1 DEF Tables, AnyFiled
    <2>4. metadata' = [virtual |-> CallSiteDebugLocsVirtual', static |-> CallSiteDebugLocsStatic']
        BY <1>1, <1>4 DEF Selected
    <2>5. Listed(machineCalls)' /\ Listed(nops)'
        BY <1>2, <1>3 DEF Listed
    <2>6. QED
        BY <1>1, <1>5, <2>1, <2>2, <2>3, <2>4, <2>5 DEF Selected
<1>7. Labelled'
    <2> SUFFICES ASSUME NEW k \in DOMAIN nops'
                 PROVE  RightLabel(k, nops[k])'
        BY DEF Labelled
    <2>1. RightLabel(k, nops'[k])
        <3>1. CASE k = Len(nops) + 1
            BY <1>2, <3>1
        <3>2. CASE k # Len(nops) + 1
            <4>1. k \in DOMAIN nops /\ nops'[k] = nops[k]
                BY <1>2, <3>2
            <4>2. QED
                BY <4>1 DEF Labelled
        <3>3. QED
            BY <3>1, <3>2
    <2>2. QED
        BY <1>4, <2>1, LabelsKept DEF RightLabel, OwnLabel
<1>8. QED
    BY <1>6, <1>7

\* What each case of the code generator emits is right for the call.
LEMMA MachineStep ==
    ASSUME FInv, Selected, Labelled, Machine!MachineNext, UNCHANGED vars
    PROVE  Selected' /\ Labelled'
<1> DEFINE i == Len(nops) + 1
<1>1. scan = Len(calls) + 1 /\ uses = {}
    BY CallsListed DEF Selected, Finished, FInv, LInv, StaticsFiled
<1>2. ASSUME machineCalls # <<>>
      PROVE  i \in DOMAIN calls /\ Machine!MI = MachineCall(i) /\ MachineCall(i).loc = debugLoc[i]
    <2>1. /\ Len(nops) \in Nat /\ Len(machineCalls) \in Nat \ {0}
          /\ 1 \in DOMAIN machineCalls /\ Head(machineCalls) = machineCalls[1]
        BY <1>2, ListedTail, ListedAppend DEF Selected
    <2>2. Len(nops) + 1 <= Len(calls) /\ Len(calls) \in Nat /\ DOMAIN calls = 1..Len(calls)
        BY <2>1, CallsListed DEF Selected, FInv, LInv
    <2>3. QED
        BY <2>1, <2>2 DEF Selected, Machine!MI, MachineCall
<1>3. CASE Machine!LoadCallSiteData
    <2>1. loaded' /\ UNCHANGED <<machineCalls, metadata, nops>> /\ ~loaded
        BY <1>3 DEF Machine!LoadCallSiteData
    <2>2. UNCHANGED <<calls, debugLoc, VirtualCallSites, CallSiteDebugLocsVirtual,
                      CallSiteDebugLocsStatic>>
        BY DEF vars, siteVars
    <2>3. Tables'
        <3>1. metadata.virtual = CallSiteDebugLocsVirtual /\ metadata.static = CallSiteDebugLocsStatic
            BY DEF Selected
        <3>2. SkipPass' <=> ~AnyFiled'
            BY <1>3, <2>2, <3>1 DEF Machine!LoadCallSiteData, AnyFiled
        <3>3. QED
            BY <1>3, <2>2, <3>1, <3>2 DEF Machine!LoadCallSiteData, Tables
    <2>4. \A k : MachineCall(k)' = MachineCall(k)
        BY LabelsKept
    <2>5. Selected'
        BY <2>1, <2>2, <2>3, <2>4, LabelsKept DEF Selected, Listed
    <2>6. Labelled'
        <3>1. nops' = <<>>
            BY <2>1 DEF Selected
        <3>2. DOMAIN nops' = {}
            BY <3>1
        <3>3. QED
            BY <3>2 DEF Labelled
    <2>7. QED
        BY <2>5, <2>6
<1> DEFINE right(values) == RightLabel(i, values)
\* In every other case tables are there, and the call is looked up in them.
<1>4. ASSUME Machine!Looked
      PROVE  /\ Tables /\ AnyFiled /\ i \in DOMAIN calls
             /\ Machine!MI.loc = debugLoc[i] /\ Machine!MI = MachineCall(i)
    BY <1>2, <1>4 DEF Machine!Looked, Selected, Tables
<1>5. CASE Machine!processVirtualCallSite
    <2>1. /\ Machine!Looked /\ Machine!MI.loc \in DOMAIN CallSiteRange
          /\ Machine!Emit(<<Machine!Mark(CallSiteRange[Machine!MI.loc][1]),
                            Machine!Mark(CallSiteRange[Machine!MI.loc][2]
                                         - CallSiteRange[Machine!MI.loc][1])>>)
        BY <1>5 DEF Machine!processVirtualCallSite, Machine!KnownVirtual
    <2> DEFINE v == <<Machine!Mark(CallSiteRange[debugLoc[i]][1]),
                      Machine!Mark(CallSiteRange[debugLoc[i]][2] - CallSiteRange[debugLoc[i]][1])>>
    <2>2. Machine!Emit(v) /\ debugLoc[i] \in DOMAIN CallSiteRange
        BY <1>4, <2>1
    <2>3. \A j \in VirtualCallSites :
              CallSiteRange[debugLoc[i]] = calls[j].ranges[1] => v = Label(j)
        <3>1. \A j \in VirtualCallSites : j \in DOMAIN calls /\ Described(j)
            BY DEF FInv, VirtualsFiled
        <3>2. QED
            BY <1>1, <3>1, Labels DEF Machine!Mark, Nop!Mark
    <2>4. RightLabel(i, v)
        <3> HIDE DEF i, v
        <3>1. QED
            BY <1>4, <2>1, <2>2, <2>3, RangesFound DEF RightLabel, OwnLabel
    <2>5. QED
        BY <2>2, <2>4, EmitOne
\* The rest is not described.
<1>6. ASSUME Machine!Looked, ~Machine!KnownVirtual
      PROVE  i \notin VirtualCallSites /\ ~Described(i)
    BY <1>1, <1>4, <1>6, RangesFound, Labels DEF Machine!KnownVirtual
<1>7. CASE Machine!processStaticCallSite
    <2>1. /\ Machine!Looked /\ ~Machine!KnownVirtual
          /\ Machine!MI.loc \in DOMAIN CallSiteStatic
          /\ CallSiteStatic[Machine!MI.loc] # "tail"
          /\ Machine!Emit(<<Machine!Mark(CallSiteID[Machine!MI.loc])>>)
        BY <1>7 DEF Machine!processStaticCallSite, Machine!KnownStatic
    <2> DEFINE v == <<Machine!Mark(CallSiteID[debugLoc[i]])>>
    <2>2. DistinctLocations => v = Label(i)
        BY <1>1, <1>4, <2>1, TargetsFound, Labels DEF Machine!Mark, Nop!Mark
    <2>3. RightLabel(i, v) /\ Machine!Emit(v)
        BY <1>4, <1>6, <2>1, <2>2 DEF RightLabel, OwnLabel
    <2>4. QED
        BY <2>3, EmitOne
<1>8. CASE Machine!processTailCallSite
    <2>1. /\ Machine!Looked /\ ~Machine!KnownVirtual
          /\ Machine!MI.loc \in DOMAIN CallSiteStatic
          /\ CallSiteStatic[Machine!MI.loc] = "tail"
          /\ Machine!Emit(<<>>)
        BY <1>8 DEF Machine!processTailCallSite, Machine!KnownStatic
    <2>2. DistinctLocations => <<>> = Label(i)
        BY <1>1, <1>4, <2>1, TargetsFound, Labels
    <2>3. RightLabel(i, <<>>)
        BY <1>4, <1>6, <2>1, <2>2 DEF RightLabel, OwnLabel
    <2>4. QED
        BY <2>1, <2>3, EmitOne
\* Nor is the rest filed.
<1>9. ASSUME Machine!Unknown, DistinctLocations
      PROVE  /\ ~Described(i) /\ ~Filed(i) /\ i \in DOMAIN calls
             /\ calls[i].kind \in {"direct", "cast", "address"}
             /\ Machine!MI.target # "computed" <=> calls[i].kind # "address"
    <2>1. /\ Machine!Looked /\ ~Machine!KnownVirtual
          /\ Machine!MI.loc \notin DOMAIN CallSiteStatic
        BY <1>9 DEF Machine!Unknown, Machine!KnownStatic
    <2>2. ~Described(i) /\ ~Filed(i) /\ i \in DOMAIN calls
        BY <1>1, <1>4, <1>6, <1>9, <2>1, TargetsFound
    <2>3. calls[i].kind \in {"direct", "cast", "address"}
        BY <1>1, <2>2, Labels
    <2>4. QED
        BY <1>4, <2>1, <2>2, <2>3 DEF MachineCall
<1>10. CASE Machine!processUnknownCallSite
    <2>1. Machine!Unknown /\ Machine!MI.target = "computed" /\ Machine!Emit(<<Machine!unknownID>>)
        BY <1>10 DEF Machine!processUnknownCallSite
    <2>2. DistinctLocations => <<Machine!unknownID>> = Label(i)
        BY <1>1, <1>9, <2>1, Labels DEF Machine!unknownID, Nop!unknownID
    <2>3. RightLabel(i, <<Machine!unknownID>>)
        BY <1>4, <1>6, <2>1, <2>2 DEF RightLabel, OwnLabel, Machine!Unknown
    <2>4. QED
        BY <2>1, <2>3, EmitOne
<1>11. CASE Machine!IgnoreSymbolCall
    <2>1. Machine!Unknown /\ Machine!MI.target # "computed" /\ Machine!Emit(<<>>)
        BY <1>11 DEF Machine!IgnoreSymbolCall
    <2>2. DistinctLocations => <<>> = Label(i)
        BY <1>1, <1>9, <2>1, Labels
    <2>3. RightLabel(i, <<>>)
        BY <1>4, <1>6, <2>1, <2>2 DEF RightLabel, OwnLabel, Machine!Unknown
    <2>4. QED
        BY <2>1, <2>3, EmitOne
<1>12. CASE Machine!SkipCall
    <2>1. Machine!Emit(<<>>) /\ ~AnyFiled
        BY <1>12 DEF Machine!SkipCall, Machine!Emit, Selected, Tables
    <2>2. VirtualCallSites = {}
        BY <2>1 DEF FInv, VirtualsFiled, AnyFiled
    <2>3. RightLabel(i, <<>>)
        BY <2>1, <2>2 DEF RightLabel, OwnLabel
    <2>4. QED
        BY <2>1, <2>3, EmitOne
<1>13. QED
    BY <1>3, <1>5, <1>7, <1>8, <1>10, <1>11, <1>12 DEF Machine!MachineNext

LEMMA InitMachine == Started => MInv
<1> SUFFICES ASSUME Started PROVE MInv
    OBVIOUS
<1>1. machineCalls = <<>> /\ nops = <<>> /\ ~loaded
    BY DEF Started
<1>2. DOMAIN nops = {}
    BY <1>1
<1>3. QED
    BY <1>1, <1>2, InitFiled DEF MInv, Unselected, Labelled

\* The lists and the calls reach the code generator.
LEMMA Stored ==
    ASSUME FInv, Unselected \/ Selected, storeCallSites
    PROVE  Selected'
<1>1. /\ Finished /\ nops = <<>>
      /\ metadata' = [virtual |-> CallSiteDebugLocsVirtual, static |-> CallSiteDebugLocsStatic]
      /\ machineCalls' = [i \in DOMAIN calls |-> MachineCall(i)]
      /\ UNCHANGED <<loaded, SkipPass, CallSiteRange, CallSiteID, CallSiteStatic, nops>>
      /\ UNCHANGED vars
    BY DEF storeCallSites, MachineCall
<1>2. UNCHANGED <<calls, debugLoc, VirtualCallSites, CallSiteDebugLocsVirtual,
                  CallSiteDebugLocsStatic>>
    BY <1>1 DEF vars, siteVars
<1>3. Len(calls) \in Nat /\ DOMAIN calls = 1..Len(calls)
    BY CallsListed DEF FInv, LInv
<1>4. Listed(machineCalls') /\ DOMAIN machineCalls' = 1..Len(calls) /\ Len(machineCalls') = Len(calls)
    <2> DEFINE S == {MachineCall(i) : i \in 1..Len(calls)}
               m == machineCalls'
    <2>1. m = [i \in 1..Len(calls) |-> MachineCall(i)] /\ S = {m[i] : i \in DOMAIN m}
        BY <1>1, <1>3
    <2>2. m \in [1..Len(calls) -> S]
        BY <2>1
    <2> HIDE DEF S, m
    <2>3. m \in Seq(S) /\ Len(m) = Len(calls) /\ DOMAIN m = 1..Len(calls)
        BY <1>3, <2>2
    <2>4. QED
        BY <2>1, <2>3 DEF Listed, m
<1>5. \A k \in DOMAIN machineCalls' : machineCalls'[k] = MachineCall(k)' /\ k \in Nat
    BY <1>1, <1>3, <1>4, LabelsKept
<1>6. Listed(nops') /\ Len(nops') = 0
    BY <1>1, EmptyListed
<1>7. Len(nops') + Len(machineCalls') = Len(calls')
    BY <1>2, <1>3, <1>4, <1>6
<1>8. \A k \in DOMAIN machineCalls' : (machineCalls[k] = MachineCall(Len(nops) + k))'
    <2> SUFFICES ASSUME NEW k \in DOMAIN machineCalls'
                 PROVE  machineCalls'[k] = MachineCall(Len(nops) + k)'
        OBVIOUS
    <2>1. Len(nops') + k = k
        BY <1>5, <1>6
    <2>2. QED
        BY <1>5, <2>1 DEF MachineCall
<1>9. loaded' => Tables'
    BY <1>1, <1>2 DEF Unselected, Selected, Tables, AnyFiled
<1>10. Finished'
    BY <1>1, LabelsKept
<1>11. QED
    BY <1>1, <1>2, <1>4, <1>6, <1>7, <1>8, <1>9, <1>10 DEF Selected

LEMMA NextMachine == MInv /\ [LabelsNext]_<<vars, machineVars>> => MInv'
<1> SUFFICES ASSUME MInv, [LabelsNext]_<<vars, machineVars>> PROVE MInv'
    OBVIOUS
<1>1. FInv'
    BY NextFiled, LabelsStep DEF MInv
<1>2. CASE Next /\ UNCHANGED machineVars
    <2>1. ~Finished
        BY <1>2 DEF Next, Finished, addVirtualCallSite, SkipVirtualCallSite, addDirectCallSite,
                    SkipDirectCallSite, addTailCallSite, addIndirectCallSite, IgnoreCall, Scan
    <2>2. Unselected
        BY <2>1 DEF MInv, Selected
    <2>3. Unselected' /\ DOMAIN nops' = {}
        BY <1>2, <2>2 DEF Unselected, machineVars
    <2>4. QED
        BY <1>1, <2>3 DEF MInv, Labelled
<1>3. CASE storeCallSites
    <2>1. Selected'
        BY <1>3, Stored DEF MInv
    <2>2. DOMAIN nops' = {}
        BY <1>3 DEF storeCallSites
    <2>3. QED
        BY <1>1, <2>1, <2>2 DEF MInv, Labelled
<1>4. CASE Machine!MachineNext /\ UNCHANGED vars
    <2>1. machineCalls # <<>>
        BY <1>4 DEF Machine!MachineNext, Machine!LoadCallSiteData, Machine!processVirtualCallSite,
                    Machine!processStaticCallSite, Machine!processTailCallSite,
                    Machine!processUnknownCallSite, Machine!IgnoreSymbolCall, Machine!SkipCall,
                    Machine!Emit
    <2>2. Selected
        BY <2>1 DEF MInv, Unselected
    <2>3. Selected' /\ Labelled'
        BY <1>4, <2>2, MachineStep DEF MInv
    <2>4. QED
        BY <1>1, <2>3 DEF MInv
<1>5. CASE UNCHANGED <<vars, machineVars>>
    <2>1. UNCHANGED <<calls, debugLoc, VirtualCallSites, CallSiteDebugLocsVirtual,
                      CallSiteDebugLocsStatic>>
        BY <1>5 DEF vars, siteVars
    <2>2. UNCHANGED <<machineCalls, metadata, loaded, SkipPass, CallSiteRange, CallSiteID,
                      CallSiteStatic, nops>>
        BY <1>5 DEF machineVars
    <2>3. Tables => Tables'
        BY <2>1, <2>2 DEF Tables, AnyFiled
    <2>4. Selected => Selected'
        BY <1>5, <2>1, <2>2, <2>3, LabelsKept DEF Selected, Listed
    <2>5. Unselected => Unselected'
        BY <2>2 DEF Unselected
    <2>6. Labelled'
        BY <1>5, <2>1, <2>2, LabelsKept DEF MInv, Labelled, RightLabel, OwnLabel
    <2>7. QED
        BY <1>1, <2>4, <2>5, <2>6 DEF MInv
<1>6. QED
    BY <1>2, <1>3, <1>4, <1>5 DEF LabelsNext, Done

LEMMA AlwaysLabelled == LabelsSpec => []MInv
BY InitStarted, InitMachine, NextMachine, PTL DEF LabelsSpec

\* At the end every call has its NOPs.
LEMMA AllLabelled ==
    ASSUME MInv, Generated, NEW i \in DOMAIN calls
    PROVE  RightLabel(i, nops[i])
<1>1. Selected
    BY DEF MInv, Unselected, Generated
<1>2. Len(nops) \in Nat /\ DOMAIN nops = 1..Len(nops)
    BY <1>1, ListedAppend DEF Selected
<1>3. Len(calls) \in Nat /\ DOMAIN calls = 1..Len(calls)
    BY CallsListed DEF MInv, FInv, LInv
<1>4. Len(machineCalls) = 0
    BY EmptyListed DEF Generated
<1>5. Len(nops) = Len(calls)
    BY <1>1, <1>2, <1>3, <1>4 DEF Selected
<1>6. QED
    BY <1>2, <1>3, <1>5 DEF MInv, Labelled

\* The NOPs of a call whose callees are known.
LEMMA OwnNops ==
    ASSUME MInv, Generated, DistinctLocations, NEW i \in DOMAIN calls
    PROVE  /\ Described(i) => nops[i] = <<Nop!Mark(calls[i].ranges[1][1]),
                                          Nop!Mark(calls[i].ranges[1][2] - calls[i].ranges[1][1])>>
           /\ Filed(i) /\ Target(i) # "tail" => nops[i] = <<Nop!Mark(CalleeID(i))>>
<1>1. nops[i] = OwnLabel(i) /\ FInv
    BY AllLabelled DEF RightLabel, MInv
<1>2. Len(calls) \in Nat /\ DOMAIN calls = 1..Len(calls)
    BY CallsListed DEF MInv, FInv, LInv
<1>3. uses = {} /\ scan = Len(calls) + 1
    BY <1>1, <1>2 DEF Generated, Finished, FInv, StaticsFiled
<1>4. i \in VirtualCallSites \/ Filed(i) => AnyFiled
    <2>1. i \in VirtualCallSites => CallSiteDebugLocsVirtual # <<>>
        BY <1>1 DEF FInv, VirtualsFiled
    <2>2. Filed(i) => CallSiteDebugLocsStatic # <<>>
        BY <1>1, <1>2, <1>3 DEF FInv, StaticsFiled
    <2>3. QED
        BY <2>1, <2>2 DEF AnyFiled
<1>5. QED
    BY <1>1, <1>3, <1>4, Labels DEF OwnLabel

\* For every module whose calls have locations of their own, and every order
\* of the use list, each call gets the label of its own callees, though both
\* passes know it by its location only.
THEOREM LabelsStayOwn == LabelsSpec => []LabelsAreOwn
<1>1. MInv => LabelsAreOwn
    BY AllLabelled DEF LabelsAreOwn, RightLabel, OwnLabel, AnyFiled
<1>2. QED
    BY <1>1, AlwaysLabelled, PTL

\* For every module, whatever its locations: a virtual call keeps the label of
\* a virtual call of its location.
THEOREM VirtualsKeepTheirs == LabelsSpec => []VirtualsStayVirtual
<1>1. MInv => VirtualsStayVirtual
    BY AllLabelled DEF VirtualsStayVirtual, RightLabel, MInv, FInv, VirtualsFiled
<1>2. QED
    BY <1>1, AlwaysLabelled, PTL
=============================================================================
