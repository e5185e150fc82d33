------------------------------ MODULE TopoSort ------------------------------
(***************************************************************************)
(* SDBuildCHA::topoSort: the classes of the clouds, base classes first.    *)
(* buildFunctionInfo relies on it: the class at which it first meets the   *)
(* name of a function is taken for the one that introduces it.             *)
(*                                                                         *)
(* The recursion of topoSortHelper is modelled by its call stack: a frame  *)
(* is a class and the classes below its primary vtable still to be looked  *)
(* at.  Roots and children are std::sets ordered by mangled name; names    *)
(* are arbitrary, so is the order here.                                    *)
(***************************************************************************)
EXTENDS Naturals, Sequences

(***************************************************************************)
(* A hierarchy has its classes, its roots, for each class the classes with *)
(* a child of its primary vtable, and declared, the order of the class     *)
(* definitions: a base class is complete where a class is derived from it. *)
(***************************************************************************)
CONSTANT Hierarchies

WellFormed(h) ==
    /\ h.roots \subseteq h.classes
    /\ h.children \in [h.classes -> SUBSET h.classes]
    /\ h.declared \in [h.classes -> Nat]
    /\ \A c \in h.classes : \A d \in h.children[c] : h.declared[c] < h.declared[d]

ASSUME HierarchiesAssumption == \A h \in Hierarchies : WellFormed(h)

VARIABLES
    hierarchy,
    todoRoots,   \* roots still to be looked at
    ordered,     \* the result so far
    visited,     \* classes that are done
    tempMarked,  \* classes a call has been entered for (never unmarked)
    stack        \* active calls of topoSortHelper

vars == <<hierarchy, todoRoots, ordered, visited, tempMarked, stack>>

Init ==
    /\ hierarchy \in Hierarchies
    /\ todoRoots = hierarchy.roots
    /\ ordered = <<>>
    /\ visited = {} /\ tempMarked = {}
    /\ stack = <<>>

Top == stack[Len(stack)]
Callers == SubSeq(stack, 1, Len(stack) - 1)

\* Entry of topoSortHelper(node) on top of the calls in frames.
Enter(node, frames) ==
    /\ node \notin visited
    /\ tempMarked' = tempMarked \cup {node}
    /\ stack' = Append(frames, [node |-> node, todo |-> hierarchy.children[node]])

EnterRoot ==
    /\ stack = <<>>
    /\ \E root \in todoRoots :
        /\ todoRoots' = todoRoots \ {root}
        /\ Enter(root, <<>>)
    /\ UNCHANGED <<hierarchy, ordered, visited>>

\* A root that has been visited; its call returns at once.
SkipRoot ==
    /\ stack = <<>>
    /\ \E root \in todoRoots \cap visited : todoRoots' = todoRoots \ {root}
    /\ UNCHANGED <<hierarchy, ordered, visited, tempMarked, stack>>

Without(frame, child) == [node |-> frame.node, todo |-> frame.todo \ {child}]

EnterChild ==
    /\ stack # <<>>
    /\ \E child \in Top.todo : Enter(child, Append(Callers, Without(Top, child)))
    /\ UNCHANGED <<hierarchy, todoRoots, ordered, visited>>

SkipChild ==
    /\ stack # <<>>
    /\ \E child \in Top.todo \cap visited : stack' = Append(Callers, Without(Top, child))
    /\ UNCHANGED <<hierarchy, todoRoots, ordered, visited, tempMarked>>

\* Mutant: a class is not marked as visited.
FinishUnvisited ==
    /\ stack # <<>> /\ Top.todo = {}
    /\ ordered' = <<Top.node>> \o ordered
    /\ stack' = Callers
    /\ UNCHANGED <<hierarchy, todoRoots, visited, tempMarked>>

\* Mutant: the class goes to the back of the result.
FinishBehind ==
    /\ stack # <<>> /\ Top.todo = {}
    /\ visited' = visited \cup {Top.node}
    /\ ordered' = Append(ordered, Top.node)
    /\ stack' = Callers
    /\ UNCHANGED <<hierarchy, todoRoots, tempMarked>>

\* All that is derived from the class is in the result: now the class, in front.
Finish ==
    /\ stack # <<>> /\ Top.todo = {}
    /\ visited' = visited \cup {Top.node}
    /\ ordered' = <<Top.node>> \o ordered
    /\ stack' = Callers
    /\ UNCHANGED <<hierarchy, todoRoots, tempMarked>>

Finished == todoRoots = {} /\ stack = <<>>
Done == Finished /\ UNCHANGED vars

Next == EnterRoot \/ SkipRoot \/ EnterChild \/ SkipChild \/ Finish \/ Done

Spec == Init /\ [][Next]_vars

-----------------------------------------------------------------------------
\* The frames are calls for classes of the hierarchy.
TypeOK ==
    /\ WellFormed(hierarchy)
    /\ todoRoots \subseteq hierarchy.roots
    /\ ordered \in Seq(hierarchy.classes)
    /\ visited \subseteq hierarchy.classes
    /\ tempMarked \subseteq hierarchy.classes
    /\ stack \in Seq([node : hierarchy.classes, todo : SUBSET hierarchy.classes])

\* "CHA is cyclic!?" (SafeDispatchCHA.cpp:407) never fails: a class that a call
\* is about to be entered for has no call active, though no mark is ever taken
\* back and one class is reached along many paths.
NeverCyclic ==
    /\ stack # <<>> => \A child \in Top.todo \ visited : child \notin tempMarked
    /\ stack = <<>> => \A root \in todoRoots \ visited : root \notin tempMarked

\* At every moment a class in the result comes before all classes derived from
\* it, which are in the result too, and no class is in it twice.
BasesFirst ==
    /\ \A i, j \in DOMAIN ordered : ordered[i] = ordered[j] => i = j
    /\ \A i \in DOMAIN ordered : \A d \in hierarchy.children[ordered[i]] :
          \E j \in DOMAIN ordered : j > i /\ ordered[j] = d
=============================================================================
