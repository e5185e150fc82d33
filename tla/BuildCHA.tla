------------------------------ MODULE BuildCHA ------------------------------
(***************************************************************************)
(* SDBuildCHA as the passes behind it see it: first the clouds are built   *)
(* from the metadata of the linked module (ClassClouds), later, when       *)
(* buildFunctionInfo asks for it, the classes are sorted (TopoSort).  The  *)
(* sort reads only the roots and the children of primary vtables, so what  *)
(* it promises depends on what the clouds hold.                            *)
(***************************************************************************)
EXTENDS TopoSort, FiniteSets

CONSTANT Modules    \* as in ClassClouds, with the order of the class definitions

VARIABLES module, nodes, infoVec, ind, undefinedVTables, build_undefinedVtables, cloudMap,
          vTableFunctionMap, roots, parentMap, addrPtMap, rangeMap, walked, ancestorMap,
          subObjNameMap, cloudSizeMap

Clouds == INSTANCE ClassClouds

\* A base class is complete where a class is derived from it.
BasesDeclaredFirst(m) ==
    \A info \in Clouds!InfosRead(m) :
        /\ m.declared[info.className] \in Nat
        /\ \A k \in 1..Len(info.subVTables) : \A p \in Clouds!Parents(info.subVTables[k]) :
              m.declared[p[1]] < m.declared[info.className]

ASSUME ModulesAssumption ==
    \A m \in Modules :
        /\ Clouds!WellLinked(m) /\ BasesDeclaredFirst(m)
        /\ Clouds!OneClassNodes(m) /\ Clouds!PrimaryExtends(m) /\ Clouds!SubVTablesJoin(m)
        /\ Clouds!UnitsAgree(m) /\ Clouds!OneCloudEach(m)

cloudVars == <<module, nodes, infoVec, ind, undefinedVTables, build_undefinedVtables, cloudMap,
               vTableFunctionMap, roots, parentMap, addrPtMap, rangeMap, walked, ancestorMap,
               subObjNameMap, cloudSizeMap>>

\* Mutant: the preorder list, which starts with the class, is taken for the
\* children.
SortBelow ==
    [classes  |-> DOMAIN parentMap,
     roots    |-> roots,
     children |-> [c \in DOMAIN parentMap |-> {v[1] : v \in Clouds!preorder(<<c, 0>>)}],
     declared |-> [c \in DOMAIN parentMap |-> module.declared[c]]]

\* The children of a class in the sort are the classes of the vtables below its
\* primary vtable (child.first in topoSortHelper).
SortInput ==
    [classes  |-> DOMAIN parentMap,
     roots    |-> roots,
     children |-> [c \in DOMAIN parentMap |-> {v[1] : v \in cloudMap[<<c, 0>>]}],
     declared |-> [c \in DOMAIN parentMap |-> module.declared[c]]]

NoHierarchy == [classes |-> {}, roots |-> {}, children |-> <<>>, declared |-> <<>>]

BuildInit ==
    /\ Clouds!Init
    /\ hierarchy = NoHierarchy /\ todoRoots = {}
    /\ ordered = <<>> /\ visited = {} /\ tempMarked = {} /\ stack = <<>>

\* Mutant: the sort starts from one root only.
SortOneRoot ==
    /\ Clouds!Finished
    /\ hierarchy.classes = {}
    /\ hierarchy' = SortInput
    /\ \E r \in roots : todoRoots' = {r}
    /\ UNCHANGED <<cloudVars, ordered, visited, tempMarked, stack>>

\* The call of topoSort, once the clouds are complete.
topoSort ==
    /\ Clouds!Finished
    /\ hierarchy.classes = {}
    /\ hierarchy' = SortInput
    /\ todoRoots' = roots
    /\ UNCHANGED <<cloudVars, ordered, visited, tempMarked, stack>>

Sorted == hierarchy.classes # {} /\ Finished

BuildDone == Clouds!Finished /\ Sorted /\ UNCHANGED <<vars, cloudVars>>

BuildNext ==
    \/ /\ \/ Clouds!ReadNode \/ Clouds!ReadSubVTable
          \/ Clouds!RecordAncestors \/ Clouds!NameSubObjects \/ Clouds!calculateChildrenCounts
       /\ UNCHANGED vars
    \/ topoSort
    \/ /\ EnterRoot \/ SkipRoot \/ EnterChild \/ SkipChild \/ Finish
       /\ UNCHANGED cloudVars
    \/ BuildDone

BuildSpec == BuildInit /\ [][BuildNext]_<<vars, cloudVars>>
-----------------------------------------------------------------------------
(* What the clouds promise (see ClassClouds) ...                           *)

UndefinedAreUnread == Clouds!UndefinedAreUnread
SlotsHaveOneOrder == Clouds!SlotsHaveOneOrder
CloudsAreHierarchy == Clouds!CloudsAreHierarchy

\* No class is missing from the result of the sort: whatever its bases, every
\* class with metadata is below the primary vtable of some root, so that
\* buildFunctionInfo meets the functions it introduces.
NoneMissing == Sorted => {ordered[i] : i \in DOMAIN ordered} = DOMAIN parentMap
=============================================================================
