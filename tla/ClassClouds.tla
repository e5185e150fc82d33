---------------------------- MODULE ClassClouds ----------------------------
(***************************************************************************)
(* SDBuildCHA::runOnModule: the primitive-vtable graph ("clouds") that the *)
(* layout passes and the function numbering work on, built from the class  *)
(* metadata of a linked module.                                            *)
(*                                                                         *)
(* A module has one metadata node for every class, in an order that comes  *)
(* from the linking; a node is a sequence of class infos, one for every    *)
(* translation unit that has attached it.  emitted are the classes whose   *)
(* vtable the module defines.  The std::sets and std::maps are iterated in *)
(* the order of mangled names; names are arbitrary, so is the order here.  *)
(***************************************************************************)
EXTENDS CloudGraph, Naturals, Sequences, FiniteSetsExt

CONSTANT Modules    \* the linked modules: metadata nodes and emitted vtables

VARIABLES
    module,                 \* the linked module
    nodes,                  \* its metadata nodes still to be read
    infoVec,                \* infos of the current node still to be recorded
    ind,                    \* next sub-vtable of the first of them
    undefinedVTables,       \* classes without a vtable
    build_undefinedVtables, \* parents whose own metadata has not been seen
    cloudMap,               \* vtable -> its children
    vTableFunctionMap,      \* vtable -> its functions
    roots,                  \* classes whose primary vtable has no parent
    parentMap,              \* class -> parents of each of its sub-vtables
    addrPtMap, rangeMap,    \* class -> address point, extent of each
    walked,                 \* roots below which ancestors have been recorded
    ancestorMap,            \* vtable -> root above it
    subObjNameMap,          \* class -> layout class of each sub-vtable
    cloudSizeMap            \* vtable -> number of defined vtables at or below it

readVars == <<module, nodes, infoVec, ind, undefinedVTables, build_undefinedVtables,
              cloudMap, vTableFunctionMap, roots, parentMap, addrPtMap, rangeMap>>
deriveVars == <<walked, ancestorMap, subObjNameMap, cloudSizeMap>>
vars == <<readVars, deriveVars>>

NoMap == [x \in {} |-> 0]

\* f with the value of k replaced or added.
Put(f, k, v) == [x \in DOMAIN f \cup {k} |-> IF x = k THEN v ELSE f[x]]

\* push_back into the vector that operator[] finds or creates for k.
PushBack(f, k, v) == Put(f, k, IF k \in DOMAIN f THEN Append(f[k], v) ELSE <<v>>)

Init ==
    /\ module \in Modules /\ nodes = module.nodes
    /\ infoVec = <<>> /\ ind = 0
    /\ undefinedVTables = {} /\ build_undefinedVtables = {}
    /\ cloudMap = NoMap /\ vTableFunctionMap = NoMap
    /\ roots = {}
    /\ parentMap = NoMap /\ addrPtMap = NoMap /\ rangeMap = NoMap
    /\ walked = {} /\ ancestorMap = NoMap
    /\ subObjNameMap = NoMap /\ cloudSizeMap = NoMap

-----------------------------------------------------------------------------
(* buildClouds, first loop: read the metadata.                             *)

\* Of the infos of a node, the first for each class.
extractMetadata(node) ==
    LET Repeated(i) == \E j \in 1..(i - 1) : node[j].className = node[i].className
        upTo[i \in 0..Len(node)] ==
            IF i = 0 THEN <<>>
            ELSE IF Repeated(i) THEN upTo[i - 1] ELSE Append(upTo[i - 1], node[i])
    IN  upTo[Len(node)]

\* The infos that are read, the vtables that they describe, and what is said
\* of a linked module: a parent is described in it as well, because a unit
\* attaches the metadata of all bases with that of a class.
InfosRead(m) == UNION {{extractMetadata(n)[k] : k \in DOMAIN extractMetadata(n)} : n \in m.nodes}
VTablesOf(info) == {<<info.className, i>> : i \in 0..(Len(info.subVTables) - 1)}
DescribedVTables(m) == UNION {VTablesOf(info) : info \in InfosRead(m)}
WellLinked(m) ==
    /\ \A n \in m.nodes : extractMetadata(n) \in Seq(InfosRead(m))
    /\ \A info \in InfosRead(m) :
          /\ Len(info.subVTables) \in Nat \ {0}
          /\ DOMAIN info.subVTables = 1..Len(info.subVTables)
          /\ \A k \in 1..Len(info.subVTables) :
                Parents(info.subVTables[k]) \subseteq DescribedVTables(m)

\* A metadata node is that of one class.
OneClassNodes(m) ==
    /\ \A n \in m.nodes : /\ Len(n) \in Nat \ {0} /\ DOMAIN n = 1..Len(n)
                          /\ \A i \in 1..Len(n) : n[i].className = n[1].className
    /\ \A n, o \in m.nodes : n # o => n[1].className # o[1].className

\* The primary vtable of a class has no parent or extends that of a base.
PrimaryExtends(m) ==
    \A info \in InfosRead(m) : LET first == info.subVTables[1]
        IN  Parentless(first) \/ \E p \in Parents(first) : p = <<p[1], 0>>

\* The sub-vtables of a class come one behind the other, from its first slot
\* on, each with entries before its address point.
SubVTablesJoin(m) ==
    \A info \in InfosRead(m) : LET sub == info.subVTables
        IN  /\ sub[1].start = 0
            /\ \A k \in 1..Len(sub) : /\ {sub[k].start, sub[k].addressPoint, sub[k].end} \subseteq Nat
                                      /\ sub[k].start < sub[k].addressPoint
                                      /\ sub[k].addressPoint <= sub[k].end + 1
            /\ \A k \in 1..(Len(sub) - 1) : sub[k + 1].start = sub[k].end + 1

\* A class has the same info in all units, by the one definition rule.
InfosOf(m) == UNION {{n[i] : i \in DOMAIN n} : n \in m.nodes}
UnitsAgree(m) == IsFiniteSet(m.nodes) /\ \A n \in m.nodes : \A i \in DOMAIN n : n[i] = n[1]

\* A sub-vtable is laid out around those of bases, or it is the primary vtable
\* of a class without one; and all that it is laid out around extends one root.
OneCloudEach(m) ==
    LET h == Hierarchy(InfosOf(m))
    IN  /\ \A info \in InfosOf(m) : \A k \in 1..Len(info.subVTables) :
              LET sub == info.subVTables[k]
              IN  IF Parentless(sub) THEN k = 1 ELSE Parents(sub) # {}
        /\ \A r, s \in h.roots : r # s =>
              Below(h.children, <<r, 0>>) \cap Below(h.children, <<s, 0>>) = {}

ReadNode ==
    /\ infoVec = <<>>
    /\ \E node \in nodes :
        /\ nodes' = nodes \ {node}
        /\ infoVec' = extractMetadata(node)
    /\ ind' = 0
    /\ UNCHANGED <<module, undefinedVTables, build_undefinedVtables, cloudMap,
                   vTableFunctionMap, roots, parentMap, addrPtMap, rangeMap, deriveVars>>

Info == Head(infoVec)

\* Mutant: a class that was known as a parent stays undefined.
LinkWithoutErase(name, parents) ==
    LET known == DOMAIN cloudMap \cup {name}
    IN  /\ cloudMap' = [v \in known \cup parents |->
               (IF v \in DOMAIN cloudMap THEN cloudMap[v] ELSE {})
               \cup (IF v \in parents THEN {name} ELSE {})]
        /\ build_undefinedVtables' = build_undefinedVtables \cup (parents \ known)

\* Mutant: reading a class drops the children it is known to have.
LinkAnew(name, parents) ==
    LET known == DOMAIN cloudMap \cup {name}
    IN  /\ cloudMap' = [v \in known \cup parents |->
               (IF v \in DOMAIN cloudMap \ {name} THEN cloudMap[v] ELSE {})
               \cup (IF v \in parents THEN {name} ELSE {})]
        /\ build_undefinedVtables' =
               (build_undefinedVtables \ {name}) \cup (parents \ known)

\* Parents that nothing is known of yet are entered with no children.
LinkParents(name, parents) ==
    LET known == DOMAIN cloudMap \cup {name}
    IN  /\ cloudMap' = [v \in known \cup parents |->
               (IF v \in DOMAIN cloudMap THEN cloudMap[v] ELSE {})
               \cup (IF v \in parents THEN {name} ELSE {})]
        /\ build_undefinedVtables' =
               (build_undefinedVtables \ {name}) \cup (parents \ known)

\* One sub-vtable of the class; after the last one comes the next info.
ReadSubVTable ==
    /\ infoVec # <<>>
    /\ LET class == Info.className
           sub == Info.subVTables[ind + 1]
           parents == Parents(sub)
       IN  /\ undefinedVTables' =
                  undefinedVTables \cup (IF class \in module.emitted THEN {} ELSE {class})
           /\ vTableFunctionMap' = Put(vTableFunctionMap, <<class, ind>>, sub.functions)
           /\ LinkParents(<<class, ind>>, parents)
           /\ roots' = roots \cup (IF Parentless(sub) THEN {class} ELSE {})
           /\ parentMap' = PushBack(parentMap, class, parents)
           /\ addrPtMap' = PushBack(addrPtMap, class, sub.addressPoint)
           /\ rangeMap' = PushBack(rangeMap, class, <<sub.start, sub.end>>)
    /\ IF ind + 1 = Len(Info.subVTables)
       THEN infoVec' = Tail(infoVec) /\ ind' = 0
       ELSE infoVec' = infoVec /\ ind' = ind + 1
    /\ UNCHANGED <<module, nodes, deriveVars>>

Read == nodes = {} /\ infoVec = <<>>

-----------------------------------------------------------------------------
(* buildClouds, the loops that follow, and calculateChildrenCounts.        *)

\* The vtables that preorder(<<root, 0>>) lists.
preorder(v) == Below(cloudMap, v)

\* A vtable keeps the first root that it is found below.
RecordAncestors ==
    /\ Read
    /\ \E root \in roots \ walked :
        /\ walked' = walked \cup {root}
        /\ ancestorMap' = [v \in DOMAIN ancestorMap \cup preorder(<<root, 0>>) |->
               IF v \in DOMAIN ancestorMap THEN ancestorMap[v] ELSE root]
    /\ UNCHANGED <<readVars, subObjNameMap, cloudSizeMap>>

\* The layout class of a sub-vtable is the root of its first parent.
NameSubObjects ==
    /\ Read /\ walked = roots
    /\ \E class \in DOMAIN parentMap \ DOMAIN subObjNameMap :
       \E names \in [DOMAIN parentMap[class] -> roots \cup {class}] :
        /\ \A i \in DOMAIN names :
             LET parents == parentMap[class][i]
             IN  IF parents = {} THEN names[i] = class
                 ELSE \E p \in parents : names[i] = ancestorMap[p]
        /\ subObjNameMap' = Put(subObjNameMap, class, names)
    /\ UNCHANGED <<readVars, walked, ancestorMap, cloudSizeMap>>

isDefined(v) == v[1] \notin undefinedVTables

\* The vtable itself, if it is defined, and what the children have counted.
ChildrenCount[v \in DOMAIN cloudMap] ==
    (IF isDefined(v) THEN 1 ELSE 0)
    + MapThenSumSet(LAMBDA child : ChildrenCount[child], cloudMap[v])

calculateChildrenCounts ==
    /\ Read /\ DOMAIN subObjNameMap = DOMAIN parentMap
    /\ \E root \in roots :
        /\ <<root, 0>> \notin DOMAIN cloudSizeMap
        /\ cloudSizeMap' = [v \in DOMAIN cloudSizeMap \cup preorder(<<root, 0>>) |->
               IF v \in DOMAIN cloudSizeMap THEN cloudSizeMap[v] ELSE ChildrenCount[v]]
    /\ UNCHANGED <<readVars, walked, ancestorMap, subObjNameMap>>

Finished ==
    /\ Read /\ walked = roots /\ DOMAIN subObjNameMap = DOMAIN parentMap
    /\ \A root \in roots : <<root, 0>> \in DOMAIN cloudSizeMap
Done == Finished /\ UNCHANGED vars

Next == \/ ReadNode \/ ReadSubVTable
        \/ RecordAncestors \/ NameSubObjects \/ calculateChildrenCounts
        \/ Done

Spec == Init /\ [][Next]_vars

-----------------------------------------------------------------------------
(* Queries of the passes that use the result.                              *)

First(positions) == CHOOSE i \in positions : \A j \in positions : i <= j

\* Mutant: the last slot of a range is outside of it.
OrderOpen(class, slot) ==
    LET holds == {i \in DOMAIN rangeMap[class] :
                     rangeMap[class][i][1] <= slot /\ slot < rangeMap[class][i][2]}
    IN  IF holds = {} THEN 0 - 1 ELSE First(holds) - 1

\* getVTableOrder: the sub-vtable a slot of a class's vtable belongs to (its
\* loop returns the first whose range holds the slot; -1 if none does).
getVTableOrder(class, slot) ==
    LET holds == {i \in DOMAIN rangeMap[class] :
                     rangeMap[class][i][1] <= slot /\ slot <= rangeMap[class][i][2]}
    IN  IF holds = {} THEN 0 - 1 ELSE First(holds) - 1

getCloudSize(class) == cloudSizeMap[<<class, 0>>]

-----------------------------------------------------------------------------
\* The assert on build_undefinedVtables (SafeDispatchCHA.cpp:332) and what it
\* rests on: in every order of the metadata the set holds the parents whose
\* own metadata is still to come, so that none is left when all has been read.
UndefinedAreUnread ==
    /\ build_undefinedVtables = DOMAIN cloudMap \ DOMAIN vTableFunctionMap
    /\ Read => build_undefinedVtables = {}

\* A slot of a vtable belongs to exactly one sub-vtable, the one whose
\* address point it is laid out around, whichever slot of the vtable it is.
SlotsHaveOneOrder ==
    Read => \A c \in DOMAIN rangeMap :
        LET n == Len(rangeMap[c])
        IN  /\ \A slot \in 0..rangeMap[c][n][2] : getVTableOrder(c, slot) # 0 - 1
            /\ \A i, j \in 1..n : i < j => rangeMap[c][i][2] < rangeMap[c][j][1]
            /\ \A i \in 1..n : rangeMap[c][i][1] <= addrPtMap[c][i]
                               /\ (addrPtMap[c][i] <= rangeMap[c][i][2]
                                   => getVTableOrder(c, addrPtMap[c][i]) = i - 1)

\* "Return the number of vtables in a given primary vtable's cloud (including
\* the vtable itself)" (SafeDispatchCHA.h:414), of those that are defined.
CloudSizesAreCloudSizes ==
    \A v \in DOMAIN cloudSizeMap :
        cloudSizeMap[v] = Cardinality({w \in preorder(v) : isDefined(w)})

\* It is, as long as no vtable has two parents: every count is the number of
\* defined vtables at or below the vtable, whichever vtables are undefined.
ForestSizes == IsForest(cloudMap) => CloudSizesAreCloudSizes

\* Whatever the order of the metadata, however often a class is repeated in it
\* and whichever vtables are emitted, the clouds are the class hierarchy: what
\* is kept of one sub-vtable is never lost or doubled when others are read, the
\* layout passes are answered what the metadata says, below the one root of each
\* vtable, and the size of a vtable without shared descendants counts each of them
\* once if it is defined.
CloudsAreHierarchy ==
    LET infos == InfosOf(module)
        h == Hierarchy(infos)
        q == LayoutQueries(infos)
    IN  /\ Read =>
              /\ h.vtables = DOMAIN vTableFunctionMap
              /\ h.children = cloudMap
              /\ h.roots = roots
              /\ h.classes = DOMAIN parentMap
              /\ \A v \in h.vtables :
                    /\ vTableFunctionMap[v] = SubOf(infos, v).functions
                    /\ parentMap[v[1]][v[2] + 1] = ParentsIn(infos, v)
        /\ Finished =>
              /\ q.ancestor = ancestorMap
              /\ \A v \in DOMAIN q.children :
                    LET i == v[2] + 1
                    IN  /\ q.layoutClass[v] = subObjNameMap[v[1]][i]
                        /\ q.addrPt[v] = addrPtMap[v[1]][i]
                        /\ q.range[v] = rangeMap[v[1]][i]
        /\ ForestSizes
=============================================================================
