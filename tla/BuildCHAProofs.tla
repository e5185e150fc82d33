--------------------------- MODULE BuildCHAProofs ---------------------------
(***************************************************************************)
(* First topoSort, on every acyclic hierarchy: base classes come first, no *)
(* class comes twice, and the assertion "CHA is cyclic!?" never fails.     *)
(* Then buildClouds, on every linked module and in every order of its      *)
(* metadata: no parent is left without metadata of its own, and the sort   *)
(* gets an acyclic hierarchy and lists all of it; every slot belongs to    *)
(* one sub-vtable; and the clouds are the class hierarchy.                 *)
(***************************************************************************)
EXTENDS FiniteSetTheorems, BuildCHA, SequenceLemmas, TLAPS

Frame == [node : hierarchy.classes, todo : SUBSET hierarchy.classes]

(***************************************************************************)
(* The inductive invariant: done classes are the result and closed under   *)
(* children; active calls are for classes not done, each declared after    *)
(* its caller's, and a child an active call need not look at any more is   *)
(* done or has the next active call.                                       *)
(***************************************************************************)
Unique == \A i, j \in DOMAIN ordered : ordered[i] = ordered[j] => i = j
VisitedIsResult ==
    /\ \A i \in DOMAIN ordered : ordered[i] \in visited
    /\ \A c \in visited : \E i \in DOMAIN ordered : ordered[i] = c
Closed == \A c \in visited : hierarchy.children[c] \subseteq visited
Ordered ==
    \A i, j \in DOMAIN ordered : ordered[j] \in hierarchy.children[ordered[i]] => i < j
Marked == \A c \in tempMarked : c \in visited \/ \E i \in DOMAIN stack : stack[i].node = c
Active == \A i \in DOMAIN stack : stack[i].node \notin visited
Descending ==
    \A i, j \in DOMAIN stack :
        i < j => hierarchy.declared[stack[i].node] < hierarchy.declared[stack[j].node]
Todo == \A i \in DOMAIN stack : stack[i].todo \subseteq hierarchy.children[stack[i].node]
Covered ==
    \A i \in DOMAIN stack : \A d \in hierarchy.children[stack[i].node] :
        \/ d \in stack[i].todo
        \/ d \in visited
        \/ i < Len(stack) /\ stack[i + 1].node = d

IInv ==
    /\ TypeOK
    /\ Unique /\ VisitedIsResult /\ Closed /\ Ordered
    /\ Marked /\ Active /\ Descending /\ Todo /\ Covered

LEMMA InitInv == Init => IInv
<1> SUFFICES ASSUME Init PROVE IInv
    OBVIOUS
<1>1. WellFormed(hierarchy)
    BY HierarchiesAssumption DEF Init
<1>2. TypeOK
    BY <1>1 DEF Init, TypeOK
<1>3. QED
    BY <1>2 DEF Init, IInv, Unique, VisitedIsResult, Closed, Ordered, Marked, Active,
        Descending, Todo, Covered

\* A sequence with an element at its end, and with one in front.
LEMMA Appended ==
    ASSUME NEW S, NEW q \in Seq(S), NEW x \in S
    PROVE  /\ Append(q, x) \in Seq(S)
           /\ Len(Append(q, x)) = Len(q) + 1
           /\ DOMAIN Append(q, x) = 1..(Len(q) + 1)
           /\ Append(q, x)[Len(q) + 1] = x
           /\ \A i \in 1..Len(q) : Append(q, x)[i] = q[i]
OBVIOUS

LEMMA Prepended ==
    ASSUME NEW S, NEW q \in Seq(S), NEW x \in S, NEW s, s = <<x>> \o q
    PROVE  /\ s \in Seq(S)
           /\ Len(q) \in Nat /\ DOMAIN q = 1..Len(q)
           /\ DOMAIN s = 1..(Len(q) + 1)
           /\ s[1] = x
           /\ \A i \in 1..Len(q) : s[i + 1] = q[i]
OBVIOUS

\* What a hierarchy has for each of its classes.
LEMMA Hierarchical ==
    ASSUME TypeOK
    PROVE  /\ \A c \in hierarchy.classes : hierarchy.children[c] \in SUBSET hierarchy.classes
           /\ \A c \in hierarchy.classes : hierarchy.declared[c] \in Nat
           /\ \A c \in hierarchy.classes : \A d \in hierarchy.children[c] :
                 hierarchy.declared[c] < hierarchy.declared[d]
           /\ hierarchy.roots \subseteq hierarchy.classes
           /\ stack \in Seq(Frame)
BY DEF TypeOK, WellFormed, Frame

\* The frames of a stack that is not empty.
LEMMA Frames ==
    ASSUME TypeOK, stack # <<>>
    PROVE  /\ Len(stack) \in Nat \ {0}
           /\ DOMAIN stack = 1..Len(stack)
           /\ Top \in Frame
           /\ Callers \in Seq(Frame)
           /\ Len(Callers) = Len(stack) - 1
           /\ DOMAIN Callers = 1..(Len(stack) - 1)
           /\ \A i \in 1..(Len(stack) - 1) : Callers[i] = stack[i]
<1>1. stack \in Seq(Frame)
    BY DEF TypeOK, Frame
<1>2. Len(stack) \in Nat \ {0} /\ DOMAIN stack = 1..Len(stack)
    BY <1>1
<1>3. Top \in Frame
    BY <1>1, <1>2 DEF Top
<1>4. QED
    BY <1>1, <1>2, <1>3 DEF Callers

\* The top frame with one child less, on top of its callers.
LEMMA Replaced ==
    ASSUME TypeOK, stack # <<>>, NEW child, NEW s,
           s = Append(Callers, Without(Top, child))
    PROVE  /\ s \in Seq(Frame)
           /\ Len(s) = Len(stack)
           /\ DOMAIN s = 1..Len(stack)
           /\ s[Len(stack)] = Without(Top, child)
           /\ \A i \in 1..(Len(stack) - 1) : s[i] = stack[i]
           /\ \A i \in 1..Len(stack) : s[i].node = stack[i].node
           /\ \A i \in 1..Len(stack) : s[i].todo \subseteq stack[i].todo
<1>1. Top = stack[Len(stack)]
    BY DEF Top
<1>2. /\ Without(Top, child) \in Frame
      /\ Without(Top, child).node = Top.node
      /\ Without(Top, child).todo = Top.todo \ {child}
    BY Frames DEF Without, Frame
<1>3. /\ s \in Seq(Frame)
      /\ Len(s) = Len(stack)
      /\ DOMAIN s = 1..Len(stack)
      /\ s[Len(stack)] = Without(Top, child)
      /\ \A i \in 1..(Len(stack) - 1) : s[i] = stack[i]
    <2>1. /\ Len(stack) \in Nat \ {0}
          /\ Callers \in Seq(Frame)
          /\ Len(Callers) + 1 = Len(stack)
          /\ \A i \in 1..Len(Callers) : Callers[i] = stack[i]
        <3>1. /\ Len(stack) \in Nat \ {0} /\ Callers \in Seq(Frame)
              /\ Len(Callers) = Len(stack) - 1
              /\ \A i \in 1..(Len(stack) - 1) : Callers[i] = stack[i]
            BY Frames
        <3>2. QED
            BY <3>1
    <2> DEFINE w == Without(Top, child)
    <2>2. w \in Frame
        BY <1>2
    <2> HIDE DEF w
    <2>3. /\ s = Append(Callers, w)
          /\ s \in Seq(Frame)
          /\ Len(s) = Len(Callers) + 1
          /\ DOMAIN s = 1..(Len(Callers) + 1)
          /\ s[Len(Callers) + 1] = w
          /\ \A i \in 1..Len(Callers) : s[i] = Callers[i]
        BY <2>1, <2>2, Appended DEF w
    <2>4. 1..(Len(stack) - 1) = 1..Len(Callers)
        BY <2>1
    <2>5. QED
        BY <2>1, <2>3, <2>4 DEF w
<1>4. \A i \in 1..Len(stack) : s[i].node = stack[i].node /\ s[i].todo \subseteq stack[i].todo
    BY <1>1, <1>2, <1>3, Frames
<1>5. QED
    BY <1>3, <1>4

LEMMA EnterRootInv ==
    ASSUME IInv, EnterRoot
    PROVE  IInv'
<1>1. PICK root \in todoRoots : /\ todoRoots' = todoRoots \ {root}
                                /\ Enter(root, <<>>)
    BY DEF EnterRoot
<1> DEFINE frame == [node |-> root, todo |-> hierarchy.children[root]]
<1>2. /\ stack = <<>> /\ UNCHANGED <<hierarchy, ordered, visited>>
      /\ root \in hierarchy.classes /\ root \notin visited
      /\ hierarchy.children[root] \in SUBSET hierarchy.classes
      /\ tempMarked' = tempMarked \cup {root}
      /\ stack' = Append(<<>>, frame)
    BY <1>1, Hierarchical DEF EnterRoot, Enter, IInv, TypeOK
<1>3. frame \in Frame /\ frame.node = root /\ frame.todo = hierarchy.children[root]
    BY <1>2 DEF Frame
<1> HIDE DEF frame
<1>4. /\ stack' \in Seq(Frame) /\ Len(stack') = 1 /\ DOMAIN stack' = {1}
      /\ stack'[1] = frame
    BY <1>2, <1>3
<1>5. TypeOK'
    BY <1>1, <1>2, <1>4 DEF IInv, TypeOK, Frame
<1>6. Unique' /\ VisitedIsResult' /\ Closed' /\ Ordered'
    BY <1>2 DEF IInv, Unique, VisitedIsResult, Closed, Ordered
<1>7. Marked'
    BY <1>2, <1>3, <1>4 DEF IInv, Marked
<1>8. Active' /\ Descending' /\ Todo' /\ Covered'
    BY <1>2, <1>3, <1>4 DEF Active, Descending, Todo, Covered
<1>9. QED
    BY <1>5, <1>6, <1>7, <1>8 DEF IInv

LEMMA SkipRootInv ==
    ASSUME IInv, SkipRoot
    PROVE  IInv'
<1>1. /\ UNCHANGED <<hierarchy, ordered, visited, tempMarked, stack>>
      /\ todoRoots' \subseteq todoRoots
    BY DEF SkipRoot
<1>2. TypeOK'
    BY <1>1 DEF IInv, TypeOK
<1>3. QED
    BY <1>1, <1>2 DEF IInv, Unique, VisitedIsResult, Closed, Ordered, Marked, Active,
        Descending, Todo, Covered

LEMMA EnterChildInv ==
    ASSUME IInv, EnterChild
    PROVE  IInv'
<1>1. PICK child \in Top.todo : Enter(child, Append(Callers, Without(Top, child)))
    BY DEF EnterChild
<1> DEFINE frames == Append(Callers, Without(Top, child))
           frame == [node |-> child, todo |-> hierarchy.children[child]]
           n == Len(stack)
<1>2. /\ stack # <<>> /\ UNCHANGED <<hierarchy, todoRoots, ordered, visited>>
      /\ child \notin visited
      /\ tempMarked' = tempMarked \cup {child}
      /\ stack' = Append(frames, frame)
    BY <1>1 DEF EnterChild, Enter
<1>3. /\ n \in Nat \ {0} /\ DOMAIN stack = 1..n
      /\ Top = stack[n] /\ Top \in Frame
    BY <1>2, Frames DEF IInv, Top
<1>4. /\ child \in hierarchy.children[Top.node]
      /\ Top.node \in hierarchy.classes /\ child \in hierarchy.classes
      /\ hierarchy.declared[Top.node] < hierarchy.declared[child]
      /\ hierarchy.children[child] \in SUBSET hierarchy.classes
    BY <1>3, Hierarchical DEF IInv, Todo, Frame
<1>5. frame \in Frame /\ frame.node = child /\ frame.todo = hierarchy.children[child]
    BY <1>4 DEF Frame
<1>6. /\ frames \in Seq(Frame) /\ Len(frames) = n
      /\ frames[n] = Without(Top, child)
      /\ \A i \in 1..(n - 1) : frames[i] = stack[i]
      /\ \A i \in 1..n : frames[i].node = stack[i].node
      /\ \A i \in 1..n : frames[i].todo \subseteq stack[i].todo
    BY <1>2, Replaced DEF IInv
<1> HIDE DEF frame, frames
<1>7. /\ stack' \in Seq(Frame) /\ Len(stack') = n + 1 /\ DOMAIN stack' = 1..(n + 1)
      /\ \A i \in 1..n : stack'[i] = frames[i]
      /\ stack'[n + 1] = frame
    BY <1>2, <1>3, <1>5, <1>6
<1> HIDE DEF n
<1>8. /\ \A i \in 1..n : stack'[i].node = stack[i].node
      /\ \A i \in 1..n : stack'[i].todo \subseteq stack[i].todo
      /\ \A i \in 1..(n - 1) : stack'[i].todo = stack[i].todo
      /\ stack'[n].todo = Top.todo \ {child}
    <2>1. n \in 1..n /\ n \notin 1..(n - 1) /\ \A i \in 1..(n - 1) : i \in 1..n
        BY <1>3
    <2>2. \A i \in 1..n : stack'[i].node = stack[i].node /\ stack'[i].todo \subseteq stack[i].todo
        BY <1>6, <1>7
    <2>3. \A i \in 1..(n - 1) : stack'[i].todo = stack[i].todo
        BY <1>6, <1>7, <2>1
    <2>4. stack'[n].todo = Top.todo \ {child}
        BY <1>6, <1>7, <2>1 DEF Without
    <2>5. QED
        BY <2>2, <2>3, <2>4
<1>9. TypeOK'
    BY <1>2, <1>4, <1>7 DEF IInv, TypeOK, Frame
<1>10. Unique' /\ VisitedIsResult' /\ Closed' /\ Ordered'
    BY <1>2 DEF IInv, Unique, VisitedIsResult, Closed, Ordered
<1>11. Marked'
    BY <1>2, <1>3, <1>5, <1>7, <1>8 DEF IInv, Marked
<1>12. Active'
    BY <1>2, <1>3, <1>5, <1>7, <1>8 DEF IInv, Active
<1>13. Descending'
    <2> SUFFICES ASSUME NEW i \in 1..(n + 1), NEW j \in 1..(n + 1), i < j
                 PROVE  hierarchy.declared[stack'[i].node] < hierarchy.declared[stack'[j].node]
        BY <1>2, <1>7 DEF Descending
    <2>1. CASE j # n + 1
        BY <2>1, <1>3, <1>8 DEF IInv, Descending
    <2>2. CASE j = n + 1
        <3>1. stack[i].node \in hierarchy.classes /\ i \in 1..n
            <4>1. i \in 1..n
                BY <2>2, <1>3
            <4>2. stack \in Seq(Frame)
                BY Hierarchical DEF IInv
            <4>3. stack[i] \in Frame
                BY <4>1, <4>2, <1>3
            <4>4. QED
                BY <4>1, <4>3 DEF Frame
        <3>2. /\ hierarchy.declared[stack[i].node] \in Nat
              /\ hierarchy.declared[Top.node] \in Nat
              /\ hierarchy.declared[child] \in Nat
            BY <3>1, <1>4, Hierarchical DEF IInv
        <3>3. hierarchy.declared[stack[i].node] <= hierarchy.declared[Top.node]
            BY <3>1, <3>2, <1>3 DEF IInv, Descending
        <3>4. stack'[i].node = stack[i].node /\ stack'[j].node = child
            BY <2>2, <3>1, <1>5, <1>7, <1>8
        <3>5. QED
            BY <3>2, <3>3, <3>4, <1>4
    <2>3. QED
        BY <2>1, <2>2
<1>14. Todo'
    BY <1>2, <1>3, <1>5, <1>7, <1>8 DEF IInv, Todo
<1>15. Covered'
    <2> SUFFICES ASSUME NEW i \in 1..(n + 1), NEW d \in hierarchy.children[stack'[i].node]
                 PROVE  \/ d \in stack'[i].todo
                        \/ d \in visited
                        \/ i < n + 1 /\ stack'[i + 1].node = d
        BY <1>2, <1>7 DEF Covered
    <2>1. CASE i = n + 1
        BY <2>1, <1>5, <1>7
    <2>2. CASE i = n
        <3>1. stack'[n + 1].node = child /\ d \in hierarchy.children[Top.node]
            BY <2>2, <1>3, <1>5, <1>7, <1>8
        <3>2. d \in Top.todo \/ d \in visited
            BY <3>1, <1>3 DEF IInv, Covered, n
        <3>3. QED
            BY <2>2, <3>1, <3>2, <1>3, <1>8
    <2>3. CASE i < n
        BY <2>3, <1>3, <1>8 DEF IInv, Covered, n
    <2>4. QED
        BY <2>1, <2>2, <2>3, <1>3
<1>16. QED
    BY <1>9, <1>10, <1>11, <1>12, <1>13, <1>14, <1>15 DEF IInv

LEMMA SkipChildInv ==
    ASSUME IInv, SkipChild
    PROVE  IInv'
<1>1. PICK child \in Top.todo \cap visited :
          stack' = Append(Callers, Without(Top, child))
    BY DEF SkipChild
<1>2. stack # <<>> /\ UNCHANGED <<hierarchy, todoRoots, ordered, visited, tempMarked>>
    BY DEF SkipChild
<1> DEFINE n == Len(stack)
<1>3. /\ n \in Nat \ {0} /\ DOMAIN stack = 1..n
      /\ Top = stack[n] /\ Top \in Frame
    BY <1>2, Frames DEF IInv, Top
<1>4. /\ stack' \in Seq(Frame) /\ Len(stack') = n /\ DOMAIN stack' = 1..n
      /\ stack'[n] = Without(Top, child)
      /\ \A i \in 1..(n - 1) : stack'[i] = stack[i]
      /\ \A i \in 1..n : stack'[i].node = stack[i].node
      /\ \A i \in 1..n : stack'[i].todo \subseteq stack[i].todo
    <2>1. TypeOK
        BY DEF IInv
    <2>2. QED
        BY <1>1, <1>2, <2>1, Replaced
<1>5. stack'[n].todo = Top.todo \ {child}
    BY <1>4 DEF Without
<1>6. TypeOK'
    BY <1>2, <1>4 DEF IInv, TypeOK, Frame
<1>7. Unique' /\ VisitedIsResult' /\ Closed' /\ Ordered'
    BY <1>2 DEF IInv, Unique, VisitedIsResult, Closed, Ordered
<1> HIDE DEF n
<1>8. Marked' /\ Active' /\ Todo'
    BY <1>2, <1>3, <1>4 DEF IInv, Marked, Active, Todo
<1>9. Descending'
    BY <1>2, <1>3, <1>4 DEF IInv, Descending
<1>10. Covered'
    <2> SUFFICES ASSUME NEW i \in 1..n, NEW d \in hierarchy.children[stack[i].node]
                 PROVE  \/ d \in stack'[i].todo
                        \/ d \in visited
                        \/ i < n /\ stack'[i + 1].node = d
        BY <1>2, <1>4 DEF Covered
    <2>1. \/ d \in stack[i].todo \/ d \in visited
          \/ i < n /\ stack[i + 1].node = d
        BY <1>3 DEF IInv, Covered, n
    <2>2. CASE i = n
        <3>1. d \in stack[n].todo \/ d \in visited
            BY <2>1, <2>2, <1>3
        <3>2. child \in visited
            BY <1>1
        <3>3. QED
            BY <2>2, <3>1, <3>2, <1>3, <1>5
    <2>3. CASE i < n
        <3>1. i \in 1..(n - 1) /\ i + 1 \in 1..n
            BY <2>3, <1>3
        <3>2. stack'[i].todo = stack[i].todo /\ stack'[i + 1].node = stack[i + 1].node
            BY <3>1, <1>4
        <3>3. QED
            BY <2>1, <2>3, <3>2
    <2>4. QED
        BY <2>2, <2>3, <1>3
<1>11. QED
    BY <1>6, <1>7, <1>8, <1>9, <1>10 DEF IInv

LEMMA FinishInv ==
    ASSUME IInv, Finish
    PROVE  IInv'
<1> DEFINE n == Len(stack)
           m == Len(ordered)
<1>1. /\ stack # <<>> /\ Top.todo = {}
      /\ visited' = visited \cup {Top.node}
      /\ ordered' = <<Top.node>> \o ordered
      /\ stack' = Callers
      /\ UNCHANGED <<hierarchy, todoRoots, tempMarked>>
    BY DEF Finish
<1>2. /\ n \in Nat \ {0} /\ DOMAIN stack = 1..n
      /\ Top = stack[n] /\ Top \in Frame
      /\ stack' \in Seq(Frame) /\ Len(stack') = n - 1 /\ DOMAIN stack' = 1..(n - 1)
      /\ \A i \in 1..(n - 1) : stack'[i] = stack[i]
    <2>1. TypeOK /\ stack # <<>> /\ stack' = Callers /\ Top = stack[n]
        BY <1>1 DEF IInv, Top
    <2>2. QED
        BY <2>1, Frames
<1>3. Top.node \in hierarchy.classes /\ Top.node \notin visited
    BY <1>2 DEF IInv, Active, Frame
<1>4. /\ ordered' \in Seq(hierarchy.classes)
      /\ m \in Nat /\ DOMAIN ordered = 1..m /\ DOMAIN ordered' = 1..(m + 1)
      /\ ordered'[1] = Top.node
      /\ \A i \in 1..m : ordered'[i + 1] = ordered[i]
    <2>1. ordered \in Seq(hierarchy.classes)
        BY DEF IInv, TypeOK
    <2>2. ordered' = <<Top.node>> \o ordered
        BY <1>1
    <2>3. /\ ordered' \in Seq(hierarchy.classes)
          /\ Len(ordered) \in Nat /\ DOMAIN ordered = 1..Len(ordered)
          /\ DOMAIN ordered' = 1..(Len(ordered) + 1)
          /\ ordered'[1] = Top.node
          /\ \A i \in 1..Len(ordered) : ordered'[i + 1] = ordered[i]
        <3> DEFINE S == hierarchy.classes
                   x == Top.node
        <3>1. ordered \in Seq(S) /\ x \in S /\ ordered' = <<x>> \o ordered
            BY <2>1, <2>2, <1>3
        <3> HIDE DEF S, x
        <3>2. /\ ordered' \in Seq(S)
              /\ Len(ordered) \in Nat /\ DOMAIN ordered = 1..Len(ordered)
              /\ DOMAIN ordered' = 1..(Len(ordered) + 1)
              /\ ordered'[1] = x
              /\ \A i \in 1..Len(ordered) : ordered'[i + 1] = ordered[i]
            BY <3>1, Prepended
        <3>3. QED
            BY <3>2 DEF S, x
    <2>4. QED
        BY <2>3
<1>5. hierarchy.children[Top.node] \subseteq visited
    <2>1. Top.todo = {} /\ Top = stack[n] /\ n \in DOMAIN stack
        BY <1>1, <1>2
    <2>2. QED
        BY <2>1 DEF IInv, Covered
<1> HIDE DEF n, m
<1>6. \A i \in 2..(m + 1) : i - 1 \in 1..m /\ ordered'[i] = ordered[i - 1]
    BY <1>4
<1>7. TypeOK'
    BY <1>1, <1>2, <1>3, <1>4 DEF IInv, TypeOK, Frame
<1>8. Unique'
    <2>1. \A i \in 2..(m + 1) : ordered'[i] # Top.node
        BY <1>3, <1>4, <1>6 DEF IInv, VisitedIsResult
    <2>2. ASSUME NEW i \in 2..(m + 1), NEW j \in 2..(m + 1), ordered'[i] = ordered'[j]
          PROVE  i = j
        <3>1. i - 1 \in 1..m /\ j - 1 \in 1..m /\ ordered[i - 1] = ordered[j - 1]
            BY <2>2, <1>6
        <3>2. i - 1 = j - 1
            BY <3>1, <1>4 DEF IInv, Unique
        <3>3. QED
            BY <3>2
    <2>3. QED
        <3> SUFFICES ASSUME NEW i \in 1..(m + 1), NEW j \in 1..(m + 1),
                            ordered'[i] = ordered'[j]
                     PROVE  i = j
            BY <1>4 DEF Unique
        <3>1. i = 1 \/ i \in 2..(m + 1)
            BY <1>4
        <3>2. j = 1 \/ j \in 2..(m + 1)
            BY <1>4
        <3>3. QED
            BY <2>1, <2>2, <3>1, <3>2, <1>4
<1>9. VisitedIsResult'
    <2>1. \A i \in 1..(m + 1) : ordered'[i] \in visited'
        BY <1>1, <1>4, <1>6 DEF IInv, VisitedIsResult
    <2>2. \A c \in visited' : \E i \in 1..(m + 1) : ordered'[i] = c
        <3> SUFFICES ASSUME NEW c \in visited' PROVE \E i \in 1..(m + 1) : ordered'[i] = c
            OBVIOUS
        <3>1. CASE c = Top.node
            BY <3>1, <1>4
        <3>2. CASE c # Top.node
            <4>1. PICK i \in 1..m : ordered[i] = c
                BY <3>2, <1>1, <1>4 DEF IInv, VisitedIsResult
            <4>2. ordered'[i + 1] = c /\ i + 1 \in 1..(m + 1)
                BY <4>1, <1>4
            <4>3. QED
                BY <4>2
        <3>3. QED
            BY <3>1, <3>2
    <2>3. QED
        BY <2>1, <2>2, <1>4 DEF VisitedIsResult
<1>10. Closed'
    BY <1>1, <1>5 DEF IInv, Closed
<1>11. Ordered'
    <2> SUFFICES ASSUME NEW i \in 1..(m + 1), NEW j \in 1..(m + 1),
                        ordered'[j] \in hierarchy.children[ordered'[i]]
                 PROVE  i < j
        BY <1>1, <1>4 DEF Ordered
    <2>1. CASE j = 1
        <3>1. ordered'[j] = Top.node
            BY <2>1, <1>4
        <3>2. ordered'[i] \in visited \/ ordered'[i] = Top.node
            <4>1. CASE i = 1
                BY <4>1, <1>4
            <4>2. CASE i # 1
                <5>1. i - 1 \in DOMAIN ordered /\ ordered'[i] = ordered[i - 1]
                    BY <4>2, <1>4, <1>6
                <5>2. QED
                    BY <5>1 DEF IInv, VisitedIsResult
            <4>3. QED
                BY <4>1, <4>2
        <3>3. ordered'[j] \in visited
            BY <3>2, <1>5 DEF IInv, Closed
        <3>4. QED
            BY <3>1, <3>3, <1>3
    <2>2. CASE j # 1 /\ i = 1
        BY <2>2
    <2>3. CASE j # 1 /\ i # 1
        <3>1. i - 1 \in 1..m /\ j - 1 \in 1..m
              /\ ordered[j - 1] \in hierarchy.children[ordered[i - 1]]
            BY <2>3, <1>4, <1>6
        <3>2. i - 1 < j - 1
            BY <3>1, <1>4 DEF IInv, Ordered
        <3>3. QED
            BY <3>2
    <2>4. QED
        BY <2>1, <2>2, <2>3
<1>12. \A i \in 1..(n - 1) : stack[i].node # Top.node
    <2> SUFFICES ASSUME NEW i \in 1..(n - 1) PROVE stack[i].node # Top.node
        OBVIOUS
    <2>1. hierarchy.declared[stack[i].node] < hierarchy.declared[Top.node]
        BY <1>2 DEF IInv, Descending
    <2>2. hierarchy.declared[Top.node] \in Nat
        BY <1>3, Hierarchical DEF IInv
    <2>3. QED
        BY <2>1, <2>2
<1>13. Marked'
    BY <1>1, <1>2 DEF IInv, Marked
<1>14. Active'
    BY <1>1, <1>2, <1>12 DEF IInv, Active
<1>15. Descending' /\ Todo'
    <2>1. ASSUME NEW i \in 1..(n - 1)
          PROVE  i \in DOMAIN stack /\ stack'[i] = stack[i]
        BY <2>1, <1>2
    <2>2. DOMAIN stack' = 1..(n - 1) /\ hierarchy' = hierarchy
        BY <1>1, <1>2
    <2>3. Descending'
        <3> SUFFICES ASSUME NEW i \in 1..(n - 1), NEW j \in 1..(n - 1), i < j
                     PROVE  hierarchy.declared[stack[i].node]
                                < hierarchy.declared[stack[j].node]
            BY <2>1, <2>2 DEF Descending
        <3>1. QED
            BY <2>1 DEF IInv, Descending
    <2>4. Todo'
        BY <2>1, <2>2 DEF IInv, Todo
    <2>5. QED
        BY <2>3, <2>4
<1>16. Covered'
    <2> SUFFICES ASSUME NEW i \in 1..(n - 1), NEW d \in hierarchy.children[stack[i].node]
                 PROVE  \/ d \in stack'[i].todo
                        \/ d \in visited'
                        \/ i < n - 1 /\ stack'[i + 1].node = d
        BY <1>1, <1>2 DEF Covered
    <2>1. \/ d \in stack[i].todo \/ d \in visited \/ stack[i + 1].node = d
        BY <1>2 DEF IInv, Covered
    <2>2. CASE i = n - 1
        BY <2>1, <2>2, <1>1, <1>2
    <2>3. CASE i < n - 1
        BY <2>1, <2>3, <1>1, <1>2
    <2>4. QED
        BY <2>2, <2>3, <1>2
<1>17. QED
    BY <1>7, <1>8, <1>9, <1>10, <1>11, <1>13, <1>14, <1>15, <1>16 DEF IInv

LEMMA StepInv == IInv /\ [Next]_vars => IInv'
<1> SUFFICES ASSUME IInv, [Next]_vars PROVE IInv'
    OBVIOUS
<1>1. CASE EnterRoot
    BY <1>1, EnterRootInv
<1>2. CASE SkipRoot
    BY <1>2, SkipRootInv
<1>3. CASE EnterChild
    BY <1>3, EnterChildInv
<1>4. CASE SkipChild
    BY <1>4, SkipChildInv
<1>5. CASE Finish
    BY <1>5, FinishInv
<1>6. CASE UNCHANGED vars
    BY <1>6 DEF vars, IInv, TypeOK, Unique, VisitedIsResult, Closed, Ordered, Marked,
        Active, Descending, Todo, Covered
<1>7. QED
    BY <1>1, <1>2, <1>3, <1>4, <1>5, <1>6 DEF Next, Done

\* topoSort keeps, for every hierarchy, the invariant of its recursion.
THEOREM SortInvariant == Spec => []IInv
<1>1. Init => IInv
    BY InitInv
<1>2. IInv /\ [Next]_vars => IInv'
    BY StepInv
<1>3. QED
    BY <1>1, <1>2, PTL DEF Spec

LEMMA InvGivesOrder == IInv => BasesFirst
<1> SUFFICES ASSUME IInv,
                    NEW i \in DOMAIN ordered, NEW d \in hierarchy.children[ordered[i]]
             PROVE  \E j \in DOMAIN ordered : j > i /\ ordered[j] = d
    BY DEF BasesFirst, IInv, Unique
<1>1. PICK j \in DOMAIN ordered : ordered[j] = d
    BY DEF IInv, VisitedIsResult, Closed
<1>2. i < j
    BY <1>1 DEF IInv, Ordered
<1>3. QED
    BY <1>1, <1>2, Zenon

LEMMA InvGivesAcyclic == IInv => NeverCyclic
<1> SUFFICES ASSUME IInv PROVE NeverCyclic
    OBVIOUS
<1>1. ASSUME stack # <<>>, NEW child \in Top.todo, child \notin visited
      PROVE  child \notin tempMarked
    <2> DEFINE n == Len(stack)
    <2>1. /\ n \in Nat \ {0} /\ DOMAIN stack = 1..n
          /\ Top = stack[n] /\ Top \in Frame
        BY <1>1, Frames DEF IInv, Top
    <2>2. child \in hierarchy.children[Top.node] /\ Top.node \in hierarchy.classes
        BY <1>1, <2>1 DEF IInv, Todo, Frame
    <2>3. child \in hierarchy.classes
          /\ hierarchy.declared[Top.node] < hierarchy.declared[child]
        BY <2>2, Hierarchical DEF IInv
    <2> HIDE DEF n
    <2>4. \A i \in 1..n : stack[i].node # child
        <3> SUFFICES ASSUME NEW i \in 1..n PROVE stack[i].node # child
            OBVIOUS
        <3>1. i = n \/ hierarchy.declared[stack[i].node] < hierarchy.declared[Top.node]
            BY <2>1 DEF IInv, Descending
        <3>2. hierarchy.declared[Top.node] \in Nat /\ hierarchy.declared[child] \in Nat
            BY <2>2, <2>3, Hierarchical DEF IInv
        <3>3. QED
            BY <3>1, <3>2, <2>1, <2>3
    <2>5. QED
        BY <1>1, <2>1, <2>4 DEF IInv, Marked
<1>2. ASSUME stack = <<>>, NEW root \in todoRoots, root \notin visited
      PROVE  root \notin tempMarked
    BY <1>2 DEF IInv, Marked
<1>3. QED
    BY <1>1, <1>2 DEF NeverCyclic

-----------------------------------------------------------------------------
(* What is in the result: a root is waiting, done, or the first call.      *)

RootsMet ==
    \A r \in hierarchy.roots :
        r \in todoRoots \/ r \in visited \/ (stack # <<>> /\ stack[1].node = r)

LEMMA RootsKept == ASSUME IInv, RootsMet, [Next]_vars PROVE RootsMet'
<1>1. CASE EnterRoot
    <2>1. PICK root \in todoRoots : /\ todoRoots' = todoRoots \ {root}
                                    /\ Enter(root, <<>>)
        BY <1>1 DEF EnterRoot
    <2> DEFINE frame == [node |-> root, todo |-> hierarchy.children[root]]
    <2>2. stack = <<>> /\ UNCHANGED <<hierarchy, visited>> /\ stack' = Append(<<>>, frame)
        BY <1>1, <2>1 DEF EnterRoot, Enter
    <2>3. frame.node = root
        OBVIOUS
    <2> HIDE DEF frame
    <2>4. stack' # <<>> /\ stack'[1].node = root
        BY <2>2, <2>3
    <2>5. QED
        BY <2>1, <2>2, <2>4 DEF RootsMet
<1>2. CASE SkipRoot
    BY <1>2 DEF SkipRoot, RootsMet
\* A call further down leaves the first call where it is.
<1>3. ASSUME NEW child, NEW frames, frames = Append(Callers, Without(Top, child)), stack # <<>>
      PROVE  /\ frames \in Seq(Frame) /\ frames # <<>> /\ frames[1].node = stack[1].node
             /\ stack \in Seq(Frame) /\ DOMAIN stack = 1..Len(stack) /\ Len(stack) \in Nat \ {0}
    <2>1. TypeOK
        BY DEF IInv
    <2>2. /\ frames \in Seq(Frame) /\ Len(frames) = Len(stack)
          /\ \A i \in 1..Len(stack) : frames[i].node = stack[i].node
        BY <1>3, <2>1, Replaced
    <2>3. /\ stack \in Seq(Frame) /\ DOMAIN stack = 1..Len(stack) /\ Len(stack) \in Nat \ {0}
        BY <1>3, <2>1, Frames, Hierarchical
    <2>4. QED
        BY <2>2, <2>3
<1>4. CASE EnterChild
    <2>1. PICK child \in Top.todo : Enter(child, Append(Callers, Without(Top, child)))
        BY <1>4 DEF EnterChild
    <2>2. PICK frames : frames = Append(Callers, Without(Top, child))
        OBVIOUS
    <2>3. PICK frame : frame = [node |-> child, todo |-> hierarchy.children[child]]
        OBVIOUS
    <2>4. /\ stack # <<>> /\ UNCHANGED <<hierarchy, todoRoots, visited>>
          /\ stack' = Append(frames, frame)
        BY <1>4, <2>1, <2>2, <2>3 DEF EnterChild, Enter
    <2>5. frames \in Seq(Frame) /\ frames # <<>> /\ frames[1].node = stack[1].node
        BY <1>3, <2>2, <2>4
    <2>6. stack' # <<>> /\ stack'[1].node = stack[1].node
        BY <2>4, <2>5
    <2>7. QED
        BY <2>4, <2>6 DEF RootsMet
<1>5. CASE SkipChild
    <2>1. PICK child : stack' = Append(Callers, Without(Top, child))
        BY <1>5 DEF SkipChild
    <2>2. stack # <<>> /\ UNCHANGED <<hierarchy, todoRoots, visited>>
        BY <1>5 DEF SkipChild
    <2>3. stack' # <<>> /\ stack'[1].node = stack[1].node
        BY <1>3, <2>1, <2>2
    <2>4. QED
        BY <2>2, <2>3 DEF RootsMet
<1>6. CASE Finish
    <2>1. /\ stack # <<>> /\ UNCHANGED <<hierarchy, todoRoots>>
          /\ visited' = visited \cup {Top.node} /\ stack' = Callers
        BY <1>6 DEF Finish
    <2>2. /\ Len(stack) \in Nat \ {0} /\ Callers \in Seq(Frame)
          /\ Len(Callers) = Len(stack) - 1
          /\ \A i \in 1..(Len(stack) - 1) : Callers[i] = stack[i]
        BY <2>1, Frames DEF IInv
    <2>3. CASE Len(stack) = 1
        BY <2>1, <2>3 DEF RootsMet, Top
    <2>4. CASE Len(stack) # 1
        <3>1. Callers # <<>> /\ Callers[1] = stack[1]
            BY <2>2, <2>4
        <3>2. QED
            BY <2>1, <3>1 DEF RootsMet
    <2>5. QED
        BY <2>3, <2>4
<1>7. CASE UNCHANGED vars
    BY <1>7 DEF vars, RootsMet
<1>8. QED
    BY <1>1, <1>2, <1>4, <1>5, <1>6, <1>7 DEF Next, Done

\* At the end every class is in the result that is a root or a child of another
\* class: of the classes missing take the one that was declared first.
LEMMA AllSorted ==
    ASSUME IInv, RootsMet, Finished,
           \A c \in hierarchy.classes :
               c \in hierarchy.roots \/ \E b \in hierarchy.classes : c \in hierarchy.children[b]
    PROVE  {ordered[i] : i \in DOMAIN ordered} = hierarchy.classes
<1>1. visited \subseteq hierarchy.classes /\ hierarchy.roots \subseteq visited
    BY DEF IInv, TypeOK, RootsMet, Finished
<1>2. {ordered[i] : i \in DOMAIN ordered} = visited
    BY DEF IInv, VisitedIsResult
<1> DEFINE missing == {hierarchy.declared[c] : c \in hierarchy.classes \ visited}
<1>3. missing = {}
    <2> SUFFICES ASSUME missing # {} PROVE FALSE
        OBVIOUS
    <2>1. \A c \in hierarchy.classes : hierarchy.declared[c] \in Nat
        BY Hierarchical DEF IInv
    <2>2. missing \subseteq Nat
        BY <2>1
    <2>3. PICK m \in missing : \A k \in missing : m <= k
        <3> HIDE DEF missing
        <3>1. QED
            BY <2>2, Least
    <2>4. PICK c \in hierarchy.classes \ visited : hierarchy.declared[c] = m
        OBVIOUS
    <2>5. PICK b \in hierarchy.classes : c \in hierarchy.children[b]
        BY <1>1, <2>4
    <2>6. b \notin visited
        BY <2>4, <2>5 DEF IInv, Closed
    <2>7. hierarchy.declared[b] < hierarchy.declared[c]
        BY <2>4, <2>5, Hierarchical DEF IInv
    <2>8. hierarchy.declared[c] <= hierarchy.declared[b]
        BY <2>3, <2>4, <2>6
    <2>9. QED
        BY <2>1, <2>4, <2>7, <2>8
<1>4. QED
    BY <1>1, <1>2, <1>3

-----------------------------------------------------------------------------
\* In the result of topoSort a base class is before all classes derived from
\* it, and no class is repeated, at every moment of the walk.
THEOREM ResultIsTopological == Spec => []BasesFirst
BY SortInvariant, InvGivesOrder, PTL

\* The assertion "CHA is cyclic!?" does not fail for any acyclic hierarchy,
\* diamonds included.
THEOREM AssertionNeverFails == Spec => []NeverCyclic
BY SortInvariant, InvGivesAcyclic, PTL

-----------------------------------------------------------------------------
(* The clouds that the sort is run on.                                     *)

Described == Clouds!DescribedVTables(module)
HasBeenRead == DOMAIN vTableFunctionMap

\* A vtable whose metadata is in a node, or in the rest of the current node,
\* that is still to be read.
InNodes(v) ==
    \E n \in nodes : \E k \in DOMAIN Clouds!extractMetadata(n) :
        v \in Clouds!VTablesOf(Clouds!extractMetadata(n)[k])
InInfos(v) ==
    \E k \in DOMAIN infoVec : v \in Clouds!VTablesOf(infoVec[k]) /\ (k = 1 => v[2] >= ind)

\* Every vtable that the module describes has been read or is still to come;
\* the graph has no others; and those of the set are in the graph, but not read.
UInv ==
    /\ module \in Modules /\ nodes \subseteq module.nodes
    /\ Listed(infoVec)
    /\ \A k \in DOMAIN infoVec : infoVec[k] \in Clouds!InfosRead(module)
    /\ infoVec # <<>> => ind \in 0..(Len(infoVec[1].subVTables) - 1)
    /\ HasBeenRead \subseteq DOMAIN cloudMap
    /\ DOMAIN cloudMap \subseteq Described
    /\ build_undefinedVtables = DOMAIN cloudMap \ HasBeenRead
    /\ \A v \in Described : v \in HasBeenRead \/ InNodes(v) \/ InInfos(v)

LEMMA InitUndefined == BuildInit => UInv
<1> SUFFICES ASSUME BuildInit PROVE UInv
    OBVIOUS
<1>1. /\ module \in Modules /\ nodes = module.nodes /\ infoVec = <<>>
      /\ build_undefinedVtables = {} /\ DOMAIN cloudMap = {} /\ HasBeenRead = {}
    BY DEF BuildInit, Clouds!Init, Clouds!NoMap, HasBeenRead
<1>2. Listed(infoVec) /\ DOMAIN infoVec = {}
    BY <1>1, EmptyListed
<1>3. ASSUME NEW v \in Described PROVE InNodes(v)
    BY <1>1, <1>3 DEF Described, Clouds!DescribedVTables, Clouds!InfosRead, InNodes
<1>4. QED
    BY <1>1, <1>2, <1>3 DEF UInv

LEMMA NodeKeeps == ASSUME UInv, Clouds!ReadNode PROVE UInv'
<1>1. PICK n \in nodes : nodes' = nodes \ {n} /\ infoVec' = Clouds!extractMetadata(n)
    BY DEF Clouds!ReadNode
<1>2. /\ infoVec = <<>> /\ ind' = 0
      /\ UNCHANGED <<module, build_undefinedVtables, cloudMap, vTableFunctionMap>>
    BY DEF Clouds!ReadNode
<1>3. Clouds!WellLinked(module) /\ n \in module.nodes
    BY <1>1, ModulesAssumption DEF UInv
<1>4. Described' = Described /\ HasBeenRead' = HasBeenRead
    BY <1>2 DEF Described, HasBeenRead
<1>5. infoVec' \in Seq(Clouds!InfosRead(module))
    BY <1>1, <1>3 DEF Clouds!WellLinked
<1>6. Listed(infoVec')
    BY <1>5, SeqListed
<1>7. \A k \in DOMAIN infoVec' : infoVec'[k] \in Clouds!InfosRead(module)
    BY <1>5, SeqListed
<1>8. infoVec' # <<>> => ind' \in 0..(Len(infoVec'[1].subVTables) - 1)
    <2> SUFFICES ASSUME infoVec' # <<>> PROVE ind' \in 0..(Len(infoVec'[1].subVTables) - 1)
        OBVIOUS
    <2>1. 1 \in DOMAIN infoVec'
        BY <1>6, ListedTail
    <2>2. Len(infoVec'[1].subVTables) \in Nat \ {0}
        BY <1>3, <1>7, <2>1 DEF Clouds!WellLinked
    <2>3. QED
        BY <1>2, <2>2
<1>9. ASSUME NEW v \in Described, v \notin HasBeenRead
      PROVE  InNodes(v)' \/ InInfos(v)'
    <2>1. InNodes(v)
        BY <1>2, <1>9 DEF UInv, InInfos
    <2>2. PICK w \in nodes : \E k \in DOMAIN Clouds!extractMetadata(w) :
                                 v \in Clouds!VTablesOf(Clouds!extractMetadata(w)[k])
        BY <2>1 DEF InNodes
    <2>3. CASE w = n
        <3>1. PICK k \in DOMAIN infoVec' : v \in Clouds!VTablesOf(infoVec'[k])
            BY <1>1, <2>2, <2>3
        <3>2. Len(infoVec'[k].subVTables) \in Nat
            BY <1>3, <1>7 DEF Clouds!WellLinked
        <3>3. v[2] >= ind'
            BY <1>2, <3>1, <3>2 DEF Clouds!VTablesOf
        <3>4. QED
            BY <3>1, <3>3 DEF InInfos
    <2>4. CASE w # n
        BY <1>1, <2>2, <2>4 DEF InNodes
    <2>5. QED
        BY <2>3, <2>4
<1>10. QED
    BY <1>1, <1>2, <1>4, <1>6, <1>7, <1>8, <1>9 DEF UInv

LEMMA SubVTableKeeps == ASSUME UInv, Clouds!ReadSubVTable PROVE UInv'
<1> DEFINE info == infoVec[1]
           v == <<info.className, ind>>
           sub == info.subVTables[ind + 1]
           parents == Clouds!Parents(sub)
           known == DOMAIN cloudMap \cup {v}
<1>1. infoVec # <<>> /\ Clouds!Info = info
    BY ListedTail DEF Clouds!ReadSubVTable, Clouds!Info, UInv
<1>2. /\ UNCHANGED <<module, nodes>>
      /\ HasBeenRead' = HasBeenRead \cup {v}
      /\ DOMAIN cloudMap' = known \cup parents
      /\ build_undefinedVtables' = (build_undefinedVtables \ {v}) \cup (parents \ known)
    BY <1>1 DEF Clouds!ReadSubVTable, Clouds!LinkParents, Clouds!Put, HasBeenRead
<1>3. Clouds!WellLinked(module) /\ info \in Clouds!InfosRead(module)
    <2>1. 1 \in DOMAIN infoVec
        BY <1>1, ListedTail DEF UInv
    <2>2. QED
        BY <2>1, ModulesAssumption DEF UInv
<1>4. /\ Len(info.subVTables) \in Nat \ {0} /\ ind \in 0..(Len(info.subVTables) - 1)
      /\ parents \subseteq Described
    <2>1. Len(info.subVTables) \in Nat \ {0}
        BY <1>3 DEF Clouds!WellLinked
    <2>2. ind \in 0..(Len(info.subVTables) - 1) /\ ind + 1 \in 1..Len(info.subVTables)
        BY <1>1, <2>1 DEF UInv
    <2>3. parents \subseteq Described
        BY <1>3, <2>2 DEF Clouds!WellLinked, Described
    <2>4. QED
        BY <2>1, <2>2, <2>3
<1>5. v \in Described
    BY <1>3, <1>4 DEF Described, Clouds!DescribedVTables, Clouds!VTablesOf
<1>6. Described' = Described
    BY <1>2 DEF Described
<1>7. /\ infoVec' = infoVec \/ infoVec' = Tail(infoVec)
      /\ infoVec' = infoVec => ind' = ind + 1 /\ ind + 1 < Len(info.subVTables)
      /\ infoVec' = Tail(infoVec) => ind' = 0 /\ ind + 1 = Len(info.subVTables)
    <2>1. infoVec # Tail(infoVec)
        BY <1>1, ListedTail DEF UInv
    <2>2. IF ind + 1 = Len(info.subVTables) THEN infoVec' = Tail(infoVec) /\ ind' = 0
          ELSE infoVec' = infoVec /\ ind' = ind + 1
        BY <1>1 DEF Clouds!ReadSubVTable
    <2>3. ind + 1 # Len(info.subVTables) => ind + 1 < Len(info.subVTables)
        BY <1>4
    <2>4. QED
        BY <2>1, <2>2, <2>3
<1> HIDE DEF info, v, sub, parents, known
\* The rest of the current node: what is in it, and that only v has gone.
<1>8. /\ Listed(infoVec')
      /\ \A k \in DOMAIN infoVec' : infoVec'[k] \in Clouds!InfosRead(module)
      /\ infoVec' # <<>> => ind' \in 0..(Len(infoVec'[1].subVTables) - 1)
      /\ \A w \in Described : InInfos(w) /\ w # v => InInfos(w)'
    <2>1. CASE infoVec' = infoVec
        <3>1. ind' = ind + 1 /\ ind' \in 0..(Len(infoVec'[1].subVTables) - 1)
            BY <1>4, <1>7, <2>1 DEF info
        <3>2. ASSUME NEW w \in Described, InInfos(w), w # v PROVE InInfos(w)'
            <4>1. PICK k \in DOMAIN infoVec :
                      w \in Clouds!VTablesOf(infoVec[k]) /\ (k = 1 => w[2] >= ind)
                BY <3>2 DEF InInfos
            <4>2. ASSUME k = 1 PROVE w[2] >= ind'
                <5>1. PICK j \in 0..(Len(info.subVTables) - 1) : w = <<info.className, j>>
                    BY <4>1, <4>2 DEF Clouds!VTablesOf, info
                <5>2. j >= ind /\ j # ind
                    BY <3>2, <4>1, <4>2, <5>1 DEF v
                <5>3. QED
                    BY <1>4, <3>1, <5>1, <5>2
            <4>3. QED
                BY <2>1, <4>1, <4>2 DEF InInfos
        <3>3. QED
            BY <2>1, <3>1, <3>2 DEF UInv, Listed
    <2>2. CASE infoVec' = Tail(infoVec)
        <3>1. /\ Listed(infoVec') /\ Len(infoVec) \in Nat \ {0} /\ DOMAIN infoVec = 1..Len(infoVec)
              /\ DOMAIN infoVec' = 1..(Len(infoVec) - 1)
              /\ \A k \in 1..(Len(infoVec) - 1) : infoVec'[k] = infoVec[k + 1]
            BY <1>1, <2>2, ListedTail DEF UInv, Listed
        <3>2. ind' = 0 /\ ind + 1 = Len(info.subVTables)
            BY <1>7, <2>2
        <3>3. \A k \in DOMAIN infoVec' : infoVec'[k] \in Clouds!InfosRead(module)
            <4>1. \A k \in DOMAIN infoVec' : k + 1 \in DOMAIN infoVec /\ infoVec'[k] = infoVec[k + 1]
                BY <3>1
            <4>2. QED
                BY <4>1 DEF UInv
        <3>4. \A k \in DOMAIN infoVec' : Len(infoVec'[k].subVTables) \in Nat \ {0}
            BY <1>3, <3>3 DEF Clouds!WellLinked
        <3>5. infoVec' # <<>> => ind' \in 0..(Len(infoVec'[1].subVTables) - 1)
            <4>1. infoVec' # <<>> => 1 \in DOMAIN infoVec'
                BY <3>1, ListedTail
            <4>2. QED
                BY <3>2, <3>4, <4>1
        <3>6. ASSUME NEW w \in Described, InInfos(w), w # v PROVE InInfos(w)'
            <4>1. PICK k \in DOMAIN infoVec :
                      w \in Clouds!VTablesOf(infoVec[k]) /\ (k = 1 => w[2] >= ind)
                BY <3>6 DEF InInfos
            <4>2. k # 1
                <5> SUFFICES ASSUME k = 1 PROVE FALSE
                    OBVIOUS
                <5>1. PICK j \in 0..(Len(info.subVTables) - 1) : w = <<info.className, j>>
                    BY <4>1 DEF Clouds!VTablesOf, info
                <5>2. j >= ind /\ j # ind
                    BY <3>6, <4>1, <5>1 DEF v
                <5>3. QED
                    BY <1>4, <3>2, <5>1, <5>2
            <4>3. k - 1 \in DOMAIN infoVec' /\ infoVec'[k - 1] = infoVec[k]
                BY <3>1, <4>1, <4>2
            <4>4. w[2] >= ind'
                <5>1. Len(infoVec'[k - 1].subVTables) \in Nat
                    BY <3>4, <4>3
                <5>2. PICK j \in 0..(Len(infoVec'[k - 1].subVTables) - 1) :
                          w = <<infoVec'[k - 1].className, j>>
                    BY <4>1, <4>3 DEF Clouds!VTablesOf
                <5>3. QED
                    BY <3>2, <5>1, <5>2
            <4>5. QED
                BY <4>1, <4>3, <4>4 DEF InInfos
        <3>7. QED
            BY <3>1, <3>3, <3>5, <3>6
    <2>3. QED
        BY <1>7, <2>1, <2>2
<1>9. ASSUME NEW w \in Described, w \notin HasBeenRead, w # v
      PROVE  InNodes(w)' \/ InInfos(w)'
    <2>1. CASE InNodes(w)
        BY <1>2, <2>1 DEF InNodes
    <2>2. CASE InInfos(w)
        BY <1>8, <1>9, <2>2
    <2>3. QED
        BY <1>9, <2>1, <2>2 DEF UInv
<1>10. /\ HasBeenRead' \subseteq DOMAIN cloudMap' /\ DOMAIN cloudMap' \subseteq Described'
       /\ build_undefinedVtables' = DOMAIN cloudMap' \ HasBeenRead'
    BY <1>2, <1>4, <1>5, <1>6 DEF UInv, known
<1>11. QED
    BY <1>2, <1>6, <1>8, <1>9, <1>10 DEF UInv

LEMMA NextUndefined == UInv /\ [BuildNext]_<<vars, cloudVars>> => UInv'
<1> SUFFICES ASSUME UInv, [BuildNext]_<<vars, cloudVars>> PROVE UInv'
    OBVIOUS
<1>1. CASE Clouds!ReadNode
    BY <1>1, NodeKeeps
<1>2. CASE Clouds!ReadSubVTable
    BY <1>2, SubVTableKeeps
<1>3. ASSUME UNCHANGED <<module, nodes, infoVec, ind, build_undefinedVtables, cloudMap,
                         vTableFunctionMap>>
      PROVE  UInv'
    BY <1>3 DEF UInv, Listed, HasBeenRead, Described, InNodes, InInfos
<1>4. CASE Clouds!RecordAncestors \/ Clouds!NameSubObjects \/ Clouds!calculateChildrenCounts
    BY <1>3, <1>4 DEF Clouds!RecordAncestors, Clouds!NameSubObjects,
                      Clouds!calculateChildrenCounts, Clouds!readVars
<1>5. CASE topoSort
    BY <1>3, <1>5 DEF topoSort, cloudVars
<1>6. CASE UNCHANGED cloudVars
    BY <1>3, <1>6 DEF cloudVars
<1>7. QED
    BY <1>1, <1>2, <1>4, <1>5, <1>6 DEF BuildNext, BuildDone

\* In every linked module, and in whatever order its metadata is read, the
\* set holds the parents whose own metadata is still to come, and is empty at
\* the end: the assert on build_undefinedVtables never fails.
THEOREM UndefinedAreLater == BuildSpec => []UndefinedAreUnread
<1>1. UInv => UndefinedAreUnread
    <2> SUFFICES ASSUME UInv PROVE UndefinedAreUnread
        OBVIOUS
    <2>1. Clouds!Read => \A v \in Described : ~InNodes(v) /\ ~InInfos(v)
        BY DEF Clouds!Read, InNodes, InInfos
    <2>2. QED
        BY <2>1 DEF UInv, UndefinedAreUnread, Clouds!UndefinedAreUnread, HasBeenRead
<1>2. QED
    BY <1>1, InitUndefined, NextUndefined, PTL DEF BuildSpec
-----------------------------------------------------------------------------
(* What the clouds hand to the sort: a hierarchy as TopoSort expects it.   *)

\* The metadata has v among the parents of a vtable of class c.
DerivesFrom(c, v) ==
    \E info \in Clouds!InfosRead(module) :
        /\ info.className = c
        /\ \E k \in 1..Len(info.subVTables) : v \in Clouds!Parents(info.subVTables[k])

CInv ==
    /\ roots \subseteq DOMAIN parentMap
    /\ DOMAIN parentMap = {v[1] : v \in HasBeenRead}
    /\ \A v \in DOMAIN cloudMap : \A w \in cloudMap[v] :
          w \in HasBeenRead /\ DerivesFrom(w[1], v)

LEMMA SubVTableLinks ==
    ASSUME UInv, CInv, Clouds!ReadSubVTable
    PROVE  CInv'
<1> DEFINE info == infoVec[1]
           v == <<info.className, ind>>
           sub == info.subVTables[ind + 1]
           parents == Clouds!Parents(sub)
<1>1. infoVec # <<>> /\ Clouds!Info = info
    BY ListedTail DEF Clouds!ReadSubVTable, Clouds!Info, UInv
<1>2. /\ module' = module
      /\ HasBeenRead' = HasBeenRead \cup {v}
      /\ DOMAIN parentMap' = DOMAIN parentMap \cup {info.className}
      /\ roots' \subseteq roots \cup {info.className}
    BY <1>1 DEF Clouds!ReadSubVTable, Clouds!Put, Clouds!PushBack, HasBeenRead
<1>3. \A x \in DOMAIN cloudMap' :
          cloudMap'[x] = (IF x \in DOMAIN cloudMap THEN cloudMap[x] ELSE {})
                         \cup (IF x \in parents THEN {v} ELSE {})
    BY <1>1 DEF Clouds!ReadSubVTable, Clouds!LinkParents
<1>4. ASSUME NEW x \in parents PROVE DerivesFrom(info.className, x)
    <2>1. info \in Clouds!InfosRead(module) /\ Clouds!WellLinked(module)
        BY <1>1, ListedTail, ModulesAssumption DEF UInv
    <2>2. ind + 1 \in 1..Len(info.subVTables)
        BY <1>1, <2>1 DEF UInv, Clouds!WellLinked
    <2>3. QED
        BY <1>4, <2>1, <2>2 DEF DerivesFrom
<1> HIDE DEF parents, sub
<1>5. DOMAIN parentMap' = {w[1] : w \in HasBeenRead'}
    <2>1. DOMAIN parentMap = {w[1] : w \in HasBeenRead}
        BY DEF CInv
    <2>2. v[1] = info.className
        OBVIOUS
    <2> HIDE DEF v, info
    <2>3. {w[1] : w \in HasBeenRead \cup {v}} = {w[1] : w \in HasBeenRead} \cup {v[1]}
        OBVIOUS
    <2>4. QED
        BY <1>2, <2>1, <2>2, <2>3
<1>6. roots' \subseteq DOMAIN parentMap'
    BY <1>2 DEF CInv
<1>7. ASSUME NEW x \in DOMAIN cloudMap', NEW w \in cloudMap'[x]
      PROVE  w \in HasBeenRead' /\ DerivesFrom(w[1], x)
    <2>1. CASE x \in DOMAIN cloudMap /\ w \in cloudMap[x]
        BY <1>2, <2>1 DEF CInv
    <2>2. CASE x \in parents /\ w = v
        BY <1>2, <1>4, <2>2
    <2>3. QED
        BY <1>3, <1>7, <2>1, <2>2
<1>8. \A c, x : DerivesFrom(c, x) => DerivesFrom(c, x)'
    BY <1>2 DEF DerivesFrom
<1>9. QED
    BY <1>5, <1>6, <1>7, <1>8 DEF CInv

\* Once all is read, what is described is what has been read.
LEMMA AllRead == ASSUME UInv, Clouds!Read PROVE Described = HasBeenRead /\ HasBeenRead = DOMAIN cloudMap
<1>1. nodes = {} /\ DOMAIN infoVec = {}
    BY EmptyListed DEF Clouds!Read
<1>2. \A v \in Described : ~InNodes(v) /\ ~InInfos(v)
    BY <1>1 DEF InNodes, InInfos
<1>3. Described \subseteq HasBeenRead
    BY <1>2 DEF UInv
<1>4. HasBeenRead \subseteq DOMAIN cloudMap /\ DOMAIN cloudMap \subseteq Described
    BY DEF UInv
<1>5. QED
    BY <1>3, <1>4

\* A class has a primary vtable and a place in the order of definitions.
LEMMA ClassesDescribed ==
    ASSUME UInv, CInv, Clouds!Read, NEW c \in DOMAIN parentMap
    PROVE  /\ <<c, 0>> \in DOMAIN cloudMap
           /\ module.declared[c] \in Nat
<1>1. PICK v \in Described : v[1] = c
    BY AllRead DEF CInv
<1>2. PICK info \in Clouds!InfosRead(module) : v \in Clouds!VTablesOf(info)
    BY DEF Described, Clouds!DescribedVTables
<1>3. info.className = c /\ Len(info.subVTables) \in Nat \ {0}
    BY <1>1, <1>2, ModulesAssumption DEF UInv, Clouds!WellLinked, Clouds!VTablesOf
<1>4. <<c, 0>> \in Clouds!VTablesOf(info)
    BY <1>3 DEF Clouds!VTablesOf
<1>5. <<c, 0>> \in Described
    BY <1>4 DEF Described, Clouds!DescribedVTables
<1>6. module.declared[c] \in Nat
    BY <1>3, ModulesAssumption DEF UInv, BasesDeclaredFirst
<1>7. QED
    BY <1>5, <1>6, AllRead

LEMMA SortInputWellFormed ==
    ASSUME UInv, CInv, Clouds!Finished
    PROVE  WellFormed(SortInput)
<1> DEFINE classes == DOMAIN parentMap
<1>1. BasesDeclaredFirst(module) /\ Clouds!Read
    BY ModulesAssumption DEF UInv, Clouds!Finished
<1>2. ASSUME NEW c \in classes
      PROVE  <<c, 0>> \in DOMAIN cloudMap /\ module.declared[c] \in Nat
    BY <1>1, ClassesDescribed
<1>3. ASSUME NEW c \in classes, NEW w \in cloudMap[<<c, 0>>]
      PROVE  w[1] \in classes /\ module.declared[c] < module.declared[w[1]]
    <2>1. w \in HasBeenRead /\ DerivesFrom(w[1], <<c, 0>>)
        BY <1>2 DEF CInv
    <2>2. w[1] \in classes
        BY <2>1 DEF CInv
    <2>3. module.declared[c] < module.declared[w[1]]
        BY <1>1, <2>1 DEF DerivesFrom, BasesDeclaredFirst
    <2>4. QED
        BY <2>2, <2>3
<1>4. SortInput.children \in [SortInput.classes -> SUBSET SortInput.classes]
    BY <1>3 DEF SortInput
<1>5. SortInput.declared \in [SortInput.classes -> Nat]
    BY <1>2 DEF SortInput
<1>6. SortInput.roots \subseteq SortInput.classes
    BY DEF SortInput, CInv
<1>7. \A c \in SortInput.classes : \A d \in SortInput.children[c] :
          SortInput.declared[c] < SortInput.declared[d]
    BY <1>3 DEF SortInput
<1>8. QED
    BY <1>4, <1>5, <1>6, <1>7 DEF WellFormed

BInv == UInv /\ CInv /\ IInv

LEMMA InitBuild == BuildInit => BInv
<1> SUFFICES ASSUME BuildInit PROVE BInv
    OBVIOUS
<1>1. UInv
    BY InitUndefined
<1>2. CInv
    BY DEF BuildInit, Clouds!Init, Clouds!NoMap, HasBeenRead, CInv
<1>3. /\ ordered = <<>> /\ visited = {} /\ tempMarked = {} /\ stack = <<>>
      /\ hierarchy = NoHierarchy /\ todoRoots = {}
    BY DEF BuildInit
<1>4. WellFormed(hierarchy)
    BY <1>3 DEF NoHierarchy, WellFormed
<1>5. TypeOK
    BY <1>3, <1>4 DEF TypeOK
<1>6. IInv
    BY <1>3, <1>5 DEF IInv, Unique, VisitedIsResult, Closed, Ordered, Marked, Active,
        Descending, Todo, Covered
<1>7. QED
    BY <1>1, <1>2, <1>6 DEF BInv

\* The sort begins with the hierarchy of the clouds.
LEMMA SortBegins == ASSUME BInv, topoSort PROVE IInv'
<1>1. /\ hierarchy' = SortInput /\ todoRoots' = SortInput.roots /\ hierarchy.classes = {}
      /\ UNCHANGED <<ordered, visited, tempMarked, stack>>
    BY DEF topoSort, SortInput
<1>2. ordered \in Seq({}) /\ visited = {} /\ tempMarked = {}
    BY <1>1 DEF BInv, IInv, TypeOK
<1>3. stack \in Seq({})
    <2>1. [node : hierarchy.classes, todo : SUBSET hierarchy.classes] = {}
        BY <1>1
    <2>2. QED
        BY <2>1 DEF BInv, IInv, TypeOK
<1>4. ordered' = <<>> /\ visited' = {} /\ tempMarked' = {} /\ stack' = <<>>
    BY <1>1, <1>2, <1>3
<1>5. WellFormed(hierarchy')
    BY <1>1, SortInputWellFormed DEF BInv, topoSort
<1>6. TypeOK'
    BY <1>1, <1>4, <1>5 DEF TypeOK
<1>7. QED
    BY <1>4, <1>6 DEF IInv, Unique, VisitedIsResult, Closed, Ordered, Marked, Active,
        Descending, Todo, Covered

LEMMA NextBuild == BInv /\ [BuildNext]_<<vars, cloudVars>> => BInv'
<1> SUFFICES ASSUME BInv, [BuildNext]_<<vars, cloudVars>> PROVE BInv'
    OBVIOUS
<1>1. UInv'
    BY NextUndefined DEF BInv
<1>2. ASSUME UNCHANGED <<module, cloudMap, vTableFunctionMap, roots, parentMap>> PROVE CInv'
    BY <1>2 DEF BInv, CInv, HasBeenRead, DerivesFrom
<1>3. ASSUME UNCHANGED vars PROVE IInv'
    BY <1>3, StepInv DEF BInv
<1>4. CASE Clouds!ReadSubVTable /\ UNCHANGED vars
    BY <1>1, <1>3, <1>4, SubVTableLinks DEF BInv
<1>5. CASE Clouds!ReadNode /\ UNCHANGED vars
    BY <1>1, <1>2, <1>3, <1>5 DEF Clouds!ReadNode, BInv
<1>6. CASE /\ Clouds!RecordAncestors \/ Clouds!NameSubObjects \/ Clouds!calculateChildrenCounts
           /\ UNCHANGED vars
    BY <1>1, <1>2, <1>3, <1>6 DEF Clouds!RecordAncestors, Clouds!NameSubObjects,
        Clouds!calculateChildrenCounts, Clouds!readVars, BInv
<1>7. CASE topoSort
    BY <1>1, <1>2, <1>7, SortBegins DEF topoSort, cloudVars, BInv
<1>8. CASE /\ EnterRoot \/ SkipRoot \/ EnterChild \/ SkipChild \/ Finish
           /\ UNCHANGED cloudVars
    <2>1. IInv'
        BY <1>8, StepInv DEF Next, BInv
    <2>2. QED
        BY <1>1, <1>2, <1>8, <2>1 DEF cloudVars, BInv
<1>9. CASE UNCHANGED <<vars, cloudVars>>
    BY <1>1, <1>2, <1>3, <1>9 DEF cloudVars, BInv
<1>10. QED
    BY <1>4, <1>5, <1>6, <1>7, <1>8, <1>9 DEF BuildNext, BuildDone

LEMMA AlwaysBuilt == BuildSpec => []BInv
BY InitBuild, NextBuild, PTL DEF BuildSpec

\* The sort keeps its types on every hierarchy that the clouds may become: in
\* particular it is one that TopoSort is specified for.
THEOREM CloudsSortTypes == BuildSpec => []TypeOK
BY AlwaysBuilt, PTL DEF BInv, IInv

\* From the metadata of a module, in whatever order it is linked, to the order
\* that buildFunctionInfo works by: bases come before what is derived from them.
THEOREM CloudsSortBasesFirst == BuildSpec => []BasesFirst
BY AlwaysBuilt, InvGivesOrder, PTL DEF BInv

\* The assertion "CHA is cyclic!?" never fails on metadata of C++ classes.
THEOREM CloudsNeverCyclic == BuildSpec => []NeverCyclic
BY AlwaysBuilt, InvGivesAcyclic, PTL DEF BInv

-----------------------------------------------------------------------------
(* No class is missing: it is a root, or its primary vtable is a child of  *)
(* the primary vtable of another class, and the sort is of these clouds.   *)

PInv ==
    \A v \in HasBeenRead : v[2] = 0 =>
        v[1] \in roots \/ \E x \in DOMAIN cloudMap : x = <<x[1], 0>> /\ v \in cloudMap[x]

SInv ==
    /\ hierarchy.classes # {} => Clouds!Finished /\ hierarchy = SortInput
    /\ RootsMet

LEMMA PrimaryRead == ASSUME UInv, PInv, Clouds!ReadSubVTable PROVE PInv'
<1> DEFINE info == infoVec[1]
           v == <<info.className, ind>>
           sub == info.subVTables[ind + 1]
           parents == Clouds!Parents(sub)
<1>1. infoVec # <<>> /\ Clouds!Info = info
    BY ListedTail DEF Clouds!ReadSubVTable, Clouds!Info, UInv
<1>2. HasBeenRead' = HasBeenRead \cup {v} /\ roots \subseteq roots'
    BY <1>1 DEF Clouds!ReadSubVTable, Clouds!Put, HasBeenRead
<1>3. /\ DOMAIN cloudMap' = DOMAIN cloudMap \cup {v} \cup parents
      /\ \A x \in DOMAIN cloudMap : cloudMap[x] \subseteq cloudMap'[x]
      /\ \A x \in parents : v \in cloudMap'[x]
    BY <1>1 DEF Clouds!ReadSubVTable, Clouds!LinkParents
<1>4. info \in Clouds!InfosRead(module) /\ Clouds!PrimaryExtends(module)
    BY <1>1, ListedTail, ModulesAssumption DEF UInv
<1>5. ASSUME ind = 0
      PROVE  info.className \in roots' \/ \E x \in DOMAIN cloudMap' : x = <<x[1], 0>> /\ v \in cloudMap'[x]
    <2>1. sub = info.subVTables[1]
        BY <1>5
    <2>2. info.className \in roots' \/ \E x \in parents : x = <<x[1], 0>>
        BY <1>1, <1>4, <2>1 DEF Clouds!PrimaryExtends, Clouds!ReadSubVTable
    <2>3. QED
        BY <1>3, <2>2
<1>6. ASSUME NEW w \in HasBeenRead', w[2] = 0
      PROVE  w[1] \in roots' \/ \E x \in DOMAIN cloudMap' : x = <<x[1], 0>> /\ w \in cloudMap'[x]
    <2>1. CASE w \in HasBeenRead
        BY <1>2, <1>3, <1>6, <2>1 DEF PInv
    <2>2. CASE w = v
        BY <1>5, <1>6, <2>2
    <2>3. QED
        BY <1>2, <2>1, <2>2
<1>7. QED
    BY <1>6 DEF PInv

LEMMA InitSort == BuildInit => PInv /\ SInv
<1> SUFFICES ASSUME BuildInit PROVE PInv /\ SInv
    OBVIOUS
<1>1. HasBeenRead = {}
    BY DEF BuildInit, Clouds!Init, Clouds!NoMap, HasBeenRead
<1>2. hierarchy.classes = {} /\ hierarchy.roots = {}
    BY DEF BuildInit, NoHierarchy
<1>3. QED
    BY <1>1, <1>2 DEF PInv, SInv, RootsMet

\* When the clouds are finished, nothing is left to be done about them.
LEMMA CloudsRest ==
    ASSUME BInv, Clouds!Finished
    PROVE  /\ ~Clouds!ReadNode /\ ~Clouds!ReadSubVTable
           /\ ~Clouds!RecordAncestors /\ ~Clouds!NameSubObjects
           /\ ~Clouds!calculateChildrenCounts
<1>1. /\ nodes = {} /\ infoVec = <<>> /\ walked = roots /\ DOMAIN subObjNameMap = DOMAIN parentMap
      /\ \A root \in roots : <<root, 0>> \in DOMAIN cloudSizeMap
    BY DEF Clouds!Finished, Clouds!Read
<1>2. ~Clouds!ReadNode /\ ~Clouds!ReadSubVTable
    BY <1>1 DEF Clouds!ReadNode, Clouds!ReadSubVTable
<1>3. ~Clouds!RecordAncestors
    BY <1>1 DEF Clouds!RecordAncestors
<1>4. ~Clouds!NameSubObjects
    BY <1>1 DEF Clouds!NameSubObjects
<1>5. ~Clouds!calculateChildrenCounts
    BY <1>1 DEF Clouds!calculateChildrenCounts
<1>6. QED
    BY <1>2, <1>3, <1>4, <1>5

LEMMA NextSort == BInv /\ PInv /\ SInv /\ [BuildNext]_<<vars, cloudVars>> => PInv' /\ SInv'
<1> SUFFICES ASSUME BInv, PInv, SInv, [BuildNext]_<<vars, cloudVars>> PROVE PInv' /\ SInv'
    OBVIOUS
<1>1. ASSUME UNCHANGED <<cloudMap, vTableFunctionMap, roots>> PROVE PInv'
    BY <1>1 DEF PInv, HasBeenRead
<1>2. ASSUME UNCHANGED vars, hierarchy.classes = {} PROVE SInv'
    BY <1>2 DEF SInv, vars, RootsMet
<1>3. ASSUME UNCHANGED cloudVars, [Next]_vars PROVE PInv' /\ SInv'
    <2>1. PInv'
        BY <1>1, <1>3 DEF cloudVars
    <2>2. RootsMet'
        BY <1>3, RootsKept DEF BInv, SInv
    <2>3. hierarchy' = hierarchy
        BY <1>3 DEF Next, EnterRoot, SkipRoot, EnterChild, SkipChild, Finish, Done, vars
    <2>4. SortInput' = SortInput /\ Clouds!Finished' = Clouds!Finished
        BY <1>3 DEF cloudVars, SortInput, Clouds!Finished, Clouds!Read
    <2>5. QED
        BY <2>1, <2>2, <2>3, <2>4 DEF SInv
<1>4. CASE Clouds!ReadSubVTable /\ UNCHANGED vars
    BY <1>2, <1>4, PrimaryRead, CloudsRest DEF BInv, SInv
<1>5. CASE Clouds!ReadNode /\ UNCHANGED vars
    BY <1>1, <1>2, <1>5, CloudsRest DEF Clouds!ReadNode, SInv
<1>6. CASE /\ Clouds!RecordAncestors \/ Clouds!NameSubObjects \/ Clouds!calculateChildrenCounts
           /\ UNCHANGED vars
    BY <1>1, <1>2, <1>6, CloudsRest DEF Clouds!RecordAncestors, Clouds!NameSubObjects,
        Clouds!calculateChildrenCounts, Clouds!readVars, SInv
<1>7. CASE topoSort
    <2>1. /\ UNCHANGED cloudVars /\ Clouds!Finished
          /\ hierarchy' = SortInput /\ todoRoots' = roots
        BY <1>7 DEF topoSort
    <2>2. SortInput' = SortInput /\ Clouds!Finished' = Clouds!Finished
        BY <2>1 DEF cloudVars, SortInput, Clouds!Finished, Clouds!Read
    <2>3. RootsMet'
        BY <2>1 DEF RootsMet, SortInput
    <2>4. PInv'
        BY <1>1, <2>1 DEF cloudVars
    <2>5. QED
        BY <2>1, <2>2, <2>3, <2>4 DEF SInv
<1>8. CASE /\ EnterRoot \/ SkipRoot \/ EnterChild \/ SkipChild \/ Finish
           /\ UNCHANGED cloudVars
    BY <1>3, <1>8 DEF Next
<1>9. CASE UNCHANGED <<vars, cloudVars>>
    BY <1>3, <1>9
<1>10. QED
    BY <1>4, <1>5, <1>6, <1>7, <1>8, <1>9 DEF BuildNext, BuildDone

LEMMA InvGivesAll == BInv /\ PInv /\ SInv => NoneMissing
<1> SUFFICES ASSUME BInv, PInv, SInv, Sorted
             PROVE  {ordered[i] : i \in DOMAIN ordered} = DOMAIN parentMap
    BY DEF NoneMissing
<1>1. Clouds!Finished /\ Clouds!Read /\ hierarchy = SortInput /\ Finished
    BY DEF Sorted, SInv, Clouds!Finished
<1>2. hierarchy.classes = DOMAIN parentMap /\ hierarchy.roots = roots
    BY <1>1 DEF SortInput
<1>3. ASSUME NEW c \in DOMAIN parentMap, c \notin roots
      PROVE  \E b \in DOMAIN parentMap : c \in hierarchy.children[b]
    <2>1. <<c, 0>> \in DOMAIN cloudMap /\ DOMAIN cloudMap = HasBeenRead
        BY <1>1, <1>3, ClassesDescribed, AllRead DEF BInv
    <2>2. PICK x \in DOMAIN cloudMap : x = <<x[1], 0>> /\ <<c, 0>> \in cloudMap[x]
        BY <1>3, <2>1 DEF PInv
    <2>3. x[1] \in DOMAIN parentMap
        BY <2>1, <2>2 DEF BInv, CInv
    <2>4. hierarchy.children[x[1]] = {v[1] : v \in cloudMap[x]}
        BY <1>1, <2>2, <2>3 DEF SortInput
    <2>5. c \in hierarchy.children[x[1]]
        <3>1. <<c, 0>>[1] = c
            OBVIOUS
        <3>2. QED
            BY <2>2, <2>4, <3>1
    <2>6. QED
        BY <2>3, <2>5
<1>4. QED
    BY <1>1, <1>2, <1>3, AllSorted DEF BInv, SInv

\* Every class with metadata is in the result of the sort, in whatever order the
\* nodes are read: none is only reached through a secondary vtable, which the
\* sort does not follow, so buildFunctionInfo meets the functions of each.
THEOREM CloudsMissNone == BuildSpec => []NoneMissing
<1>1. BuildSpec => [](PInv /\ SInv)
    BY InitSort, NextSort, AlwaysBuilt, PTL DEF BuildSpec
<1>2. QED
    BY <1>1, AlwaysBuilt, InvGivesAll, PTL

-----------------------------------------------------------------------------
(* The extents, address points and parents of a class are those of its info,*)
(* as far as it has been read: no other node adds to them.                 *)

Extents(info) ==
    [k \in 1..Len(info.subVTables) |-> <<info.subVTables[k].start, info.subVTables[k].end>>]
Points(info) == [k \in 1..Len(info.subVTables) |-> info.subVTables[k].addressPoint]
Ups(info) == [k \in 1..Len(info.subVTables) |-> Clouds!Parents(info.subVTables[k])]

Recorded(c, info, n) ==
    /\ info.className = c
    /\ n \in 1..Len(info.subVTables)
    /\ rangeMap[c] = SubSeq(Extents(info), 1, n)
    /\ addrPtMap[c] = SubSeq(Points(info), 1, n)
    /\ parentMap[c] = SubSeq(Ups(info), 1, n)

IsRead(c) == infoVec # <<>> /\ infoVec[1].className = c

RInv ==
    /\ DOMAIN addrPtMap = DOMAIN rangeMap /\ DOMAIN parentMap = DOMAIN rangeMap
    /\ \A c \in DOMAIN rangeMap :
          IF IsRead(c) THEN Recorded(c, infoVec[1], ind)
          ELSE \E info \in Clouds!InfosRead(module) : Recorded(c, info, Len(info.subVTables))
    /\ infoVec # <<>> =>
          /\ Len(infoVec) = 1
          /\ ind = 0 => infoVec[1].className \notin DOMAIN rangeMap
          /\ ind # 0 => infoVec[1].className \in DOMAIN rangeMap
    /\ \A n \in nodes : ~IsRead(n[1].className) /\ n[1].className \notin DOMAIN rangeMap

\* What is read of a metadata node is its first info.
LEMMA NodeInfo ==
    ASSUME UInv, NEW n \in module.nodes
    PROVE  /\ Clouds!extractMetadata(n) = <<n[1]>>
           /\ \A o \in module.nodes : o # n => o[1].className # n[1].className
<1>1. Clouds!OneClassNodes(module)
    BY ModulesAssumption DEF UInv
<1>2. /\ Len(n) \in Nat \ {0} /\ DOMAIN n = 1..Len(n)
      /\ \A i \in 1..Len(n) : n[i].className = n[1].className
      /\ \A o \in module.nodes : o # n => o[1].className # n[1].className
    BY <1>1 DEF Clouds!OneClassNodes
<1> DEFINE Repeated(i) == \E j \in 1..(i - 1) : n[j].className = n[i].className
           Solves(f) == f = [i \in 0..Len(n) |->
                                IF i = 0 THEN <<>>
                                ELSE IF Repeated(i) THEN f[i - 1] ELSE Append(f[i - 1], n[i])]
           upTo == CHOOSE f : Solves(f)
           first == [i \in 0..Len(n) |-> IF i = 0 THEN <<>> ELSE <<n[1]>>]
<1>3. ~Repeated(1) /\ \A i \in 1..Len(n) : i # 1 => Repeated(i)
    <2>1. \A i \in 1..Len(n) : i # 1 => 1 \in 1..(i - 1) /\ n[1].className = n[i].className
        BY <1>2
    <2>2. QED
        BY <2>1
<1>4. Solves(first)
    <2>1. \A i \in 1..Len(n) : i - 1 \in 0..Len(n)
        BY <1>2
    <2>2. ASSUME NEW i \in 0..Len(n)
          PROVE  first[i] = IF i = 0 THEN <<>>
                            ELSE IF Repeated(i) THEN first[i - 1] ELSE Append(first[i - 1], n[i])
        <3> HIDE DEF Repeated
        <3>1. CASE i = 0
            BY <3>1
        <3>2. CASE i = 1
            BY <1>3, <2>1, <3>2
        <3>3. CASE i # 0 /\ i # 1
            BY <1>3, <2>1, <3>3
        <3>4. QED
            BY <3>1, <3>2, <3>3
    <2>3. first = [i \in 0..Len(n) |-> first[i]]
        OBVIOUS
    <2> HIDE DEF first, Repeated
    <2>4. QED
        BY <2>2, <2>3
<1>5. Solves(upTo)
    <2> HIDE DEF Solves, first
    <2>1. QED
        BY <1>4
<1>6. Clouds!extractMetadata(n) = upTo[Len(n)]
    BY DEF Clouds!extractMetadata
<1> HIDE DEF upTo
<1>7. \A i \in 1..Len(n) : upTo[i] = IF i = 1 THEN Append(upTo[0], n[1]) ELSE upTo[i - 1]
    <2> HIDE DEF Repeated
    <2>1. \A i \in 0..Len(n) :
              upTo[i] = IF i = 0 THEN <<>>
                        ELSE IF Repeated(i) THEN upTo[i - 1] ELSE Append(upTo[i - 1], n[i])
        BY <1>5
    <2>2. ASSUME NEW i \in 1..Len(n)
          PROVE  upTo[i] = IF i = 1 THEN Append(upTo[0], n[1]) ELSE upTo[i - 1]
        <3>1. i \in 0..Len(n) /\ i # 0
            BY <1>2
        <3>2. CASE i = 1
            <4>1. 1 \in 0..Len(n) /\ 1 # 0 /\ 1 - 1 = 0
                BY <3>1, <3>2
            <4>2. upTo[1] = Append(upTo[1 - 1], n[1])
                BY <1>3, <2>1, <4>1
            <4>3. QED
                BY <3>2, <4>1, <4>2
        <3>3. CASE i # 1
            BY <1>3, <2>1, <3>1, <3>3
        <3>4. QED
            BY <3>2, <3>3
    <2>3. QED
        BY <2>2
<1>8. upTo[0] = <<>>
    BY <1>2, <1>5
<1>9. \A i \in 1..Len(n) : upTo[i] = <<n[1]>>
    <2> DEFINE Bad == {i \in 1..Len(n) : upTo[i] # <<n[1]>>}
    <2> SUFFICES ASSUME Bad # {} PROVE FALSE
        OBVIOUS
    <2>1. PICK i \in Bad : \A j \in Bad : i <= j
        <3>1. Bad \subseteq Nat
            OBVIOUS
        <3> HIDE DEF Bad
        <3>2. QED
            BY <3>1, Least
    <2>2. i \in 1..Len(n) /\ upTo[i] # <<n[1]>>
        OBVIOUS
    <2>3. CASE i = 1
        BY <1>7, <1>8, <2>2, <2>3
    <2>4. CASE i # 1
        BY <1>2, <1>7, <2>1, <2>2, <2>4
    <2>5. QED
        BY <2>3, <2>4
<1>10. QED
    BY <1>2, <1>6, <1>9

LEMMA InitRecorded == BuildInit => RInv
<1> SUFFICES ASSUME BuildInit PROVE RInv
    OBVIOUS
<1>1. infoVec = <<>> /\ DOMAIN rangeMap = {} /\ DOMAIN addrPtMap = {} /\ DOMAIN parentMap = {}
    BY DEF BuildInit, Clouds!Init, Clouds!NoMap
<1>2. QED
    BY <1>1 DEF RInv, IsRead

LEMMA NodeRecorded == ASSUME UInv, RInv, Clouds!ReadNode PROVE RInv'
<1>1. PICK n \in nodes : nodes' = nodes \ {n} /\ infoVec' = Clouds!extractMetadata(n)
    BY DEF Clouds!ReadNode
<1>2. infoVec = <<>> /\ ind' = 0 /\ UNCHANGED <<module, rangeMap, addrPtMap, parentMap>>
    BY DEF Clouds!ReadNode
<1>3. /\ n \in module.nodes /\ nodes \subseteq module.nodes
      /\ \A o \in module.nodes : o # n => o[1].className # n[1].className
    BY <1>1, NodeInfo DEF UInv
<1>4. infoVec' # <<>> /\ Len(infoVec') = 1 /\ infoVec'[1] = n[1]
    BY <1>1, <1>3, NodeInfo
<1>5. n[1].className \notin DOMAIN rangeMap
    BY <1>1 DEF RInv
<1>6. \A c \in DOMAIN rangeMap : ~IsRead(c) /\ ~IsRead(c)'
    BY <1>2, <1>4, <1>5 DEF IsRead
<1>7. \A c, info, k : Recorded(c, info, k)' <=> Recorded(c, info, k)
    BY <1>2 DEF Recorded
<1>8. \A o \in nodes' : ~IsRead(o[1].className)' /\ o[1].className \notin DOMAIN rangeMap'
    BY <1>1, <1>2, <1>3, <1>4 DEF RInv, IsRead
<1>9. \A c \in DOMAIN rangeMap' :
          \E info \in Clouds!InfosRead(module') : Recorded(c, info, Len(info.subVTables))'
    BY <1>2, <1>6, <1>7 DEF RInv
<1>10. QED
    BY <1>2, <1>4, <1>5, <1>6, <1>8, <1>9 DEF RInv

LEMMA InfoSequences ==
    ASSUME NEW info, Len(info.subVTables) \in Nat, NEW k \in 1..Len(info.subVTables)
    PROVE  /\ Extents(info) \in Seq({Extents(info)[i] : i \in DOMAIN Extents(info)})
           /\ Points(info) \in Seq({Points(info)[i] : i \in DOMAIN Points(info)})
           /\ Ups(info) \in Seq({Ups(info)[i] : i \in DOMAIN Ups(info)})
           /\ Len(Extents(info)) = Len(info.subVTables)
           /\ Len(Points(info)) = Len(info.subVTables)
           /\ Len(Ups(info)) = Len(info.subVTables)
           /\ Extents(info)[k] = <<info.subVTables[k].start, info.subVTables[k].end>>
           /\ Points(info)[k] = info.subVTables[k].addressPoint
           /\ Ups(info)[k] = Clouds!Parents(info.subVTables[k])
<1>1. PICK n \in Nat : n = Len(info.subVTables)
    OBVIOUS
<1>2. ASSUME NEW f, f = [i \in 1..n |-> f[i]] PROVE f \in Seq({f[i] : i \in DOMAIN f}) /\ Len(f) = n
    <2>1. DOMAIN f = 1..n
        BY <1>2
    <2>2. PICK S : S = {f[i] : i \in DOMAIN f}
        OBVIOUS
    <2>3. f \in [1..n -> S]
        BY <1>2, <2>1, <2>2
    <2>4. f \in Seq(S) /\ Len(f) = n
        BY <1>1, <2>1, <2>3
    <2>5. QED
        BY <2>2, <2>4
<1>3. /\ Extents(info) = [i \in 1..n |-> Extents(info)[i]]
      /\ Points(info) = [i \in 1..n |-> Points(info)[i]]
      /\ Ups(info) = [i \in 1..n |-> Ups(info)[i]]
    BY <1>1 DEF Extents, Points, Ups
<1>4. /\ Extents(info)[k] = <<info.subVTables[k].start, info.subVTables[k].end>>
      /\ Points(info)[k] = info.subVTables[k].addressPoint
      /\ Ups(info)[k] = Clouds!Parents(info.subVTables[k])
    BY DEF Extents, Points, Ups
<1>5. QED
    BY <1>1, <1>2, <1>3, <1>4

LEMMA SubVTableRecorded == ASSUME UInv, RInv, Clouds!ReadSubVTable PROVE RInv'
<1>1. PICK info, at : info = infoVec[1] /\ at = ind
    OBVIOUS
<1> DEFINE class == info.className
           sub == info.subVTables[at + 1]
           extent == <<sub.start, sub.end>>
           parents == Clouds!Parents(sub)
           n == Len(info.subVTables)
<1>2. /\ infoVec # <<>> /\ Clouds!Info = info /\ Len(infoVec) = 1 /\ Listed(infoVec)
      /\ info \in Clouds!InfosRead(module) /\ n \in Nat \ {0} /\ at \in 0..(n - 1)
    <2>1. infoVec # <<>> /\ Clouds!Info = info /\ Len(infoVec) = 1 /\ Listed(infoVec)
        BY <1>1, ListedTail DEF Clouds!ReadSubVTable, Clouds!Info, UInv, RInv
    <2>2. info \in Clouds!InfosRead(module)
        BY <1>1, <2>1, ListedTail DEF UInv
    <2>3. QED
        BY <1>1, <2>1, <2>2, ModulesAssumption DEF UInv, Clouds!WellLinked
<1>3. /\ rangeMap' = Clouds!PushBack(rangeMap, class, extent)
      /\ addrPtMap' = Clouds!PushBack(addrPtMap, class, sub.addressPoint)
      /\ parentMap' = Clouds!PushBack(parentMap, class, parents)
      /\ UNCHANGED <<module, nodes>>
    BY <1>1, <1>2 DEF Clouds!ReadSubVTable
<1>4. IF at + 1 = n THEN infoVec' = Tail(infoVec) /\ ind' = 0
      ELSE infoVec' = infoVec /\ ind' = at + 1
    BY <1>1, <1>2 DEF Clouds!ReadSubVTable
<1>5. Tail(infoVec) = <<>>
    <2>1. Listed(Tail(infoVec)) /\ Len(Tail(infoVec)) = 0
        BY <1>2, ListedTail
    <2>2. PICK S, t : t = Tail(infoVec) /\ t \in Seq(S)
        BY <2>1 DEF Listed
    <2>3. QED
        BY <2>1, <2>2
<1> HIDE DEF class, sub, extent, parents, n
<1>6. /\ DOMAIN rangeMap' = DOMAIN rangeMap \cup {class}
      /\ DOMAIN addrPtMap' = DOMAIN rangeMap' /\ DOMAIN parentMap' = DOMAIN rangeMap'
      /\ \A c \in DOMAIN rangeMap : c # class =>
            rangeMap'[c] = rangeMap[c] /\ addrPtMap'[c] = addrPtMap[c] /\ parentMap'[c] = parentMap[c]
    BY <1>3 DEF Clouds!PushBack, Clouds!Put, RInv
<1>7. Recorded(class, info, at + 1)'
    <2>1. /\ Extents(info) \in Seq({Extents(info)[k] : k \in DOMAIN Extents(info)})
          /\ Points(info) \in Seq({Points(info)[k] : k \in DOMAIN Points(info)})
          /\ Ups(info) \in Seq({Ups(info)[k] : k \in DOMAIN Ups(info)})
          /\ Len(Extents(info)) = n /\ Len(Points(info)) = n /\ Len(Ups(info)) = n
          /\ Extents(info)[at + 1] = extent /\ Points(info)[at + 1] = sub.addressPoint
          /\ Ups(info)[at + 1] = parents
        <3>1. at + 1 \in 1..n
            BY <1>2
        <3>2. QED
            BY <1>2, <3>1, InfoSequences DEF n, extent, sub, parents
    <2>2. /\ Append(SubSeq(Extents(info), 1, at), extent) = SubSeq(Extents(info), 1, at + 1)
          /\ Append(SubSeq(Points(info), 1, at), sub.addressPoint) = SubSeq(Points(info), 1, at + 1)
          /\ Append(SubSeq(Ups(info), 1, at), parents) = SubSeq(Ups(info), 1, at + 1)
        <3>1. /\ at \in 0..(Len(Extents(info)) - 1) /\ at \in 0..(Len(Points(info)) - 1)
              /\ at \in 0..(Len(Ups(info)) - 1)
            BY <1>2, <2>1
        <3>2. QED
            BY <2>1, <3>1, PrefixGrows
    <2>3. CASE at = 0
        <3>1. class \notin DOMAIN rangeMap
            BY <1>1, <1>2, <2>3 DEF RInv, class
        <3>2. /\ rangeMap'[class] = <<extent>> /\ addrPtMap'[class] = <<sub.addressPoint>>
              /\ parentMap'[class] = <<parents>>
            BY <1>3, <3>1 DEF Clouds!PushBack, Clouds!Put, RInv
        <3>3. /\ SubSeq(Extents(info), 1, 0) = <<>> /\ SubSeq(Points(info), 1, 0) = <<>>
              /\ SubSeq(Ups(info), 1, 0) = <<>>
            BY <2>1, PrefixEnds
        <3>4. /\ Append(<<>>, extent) = <<extent>> /\ Append(<<>>, sub.addressPoint) = <<sub.addressPoint>>
              /\ Append(<<>>, parents) = <<parents>>
            OBVIOUS
        <3>5. QED
            BY <1>2, <2>2, <2>3, <3>2, <3>3, <3>4 DEF Recorded, class, n
    <2>4. CASE at # 0
        <3>1. class \in DOMAIN rangeMap /\ Recorded(class, info, at)
            BY <1>1, <1>2, <2>4 DEF RInv, IsRead, class
        <3>2. /\ rangeMap'[class] = Append(rangeMap[class], extent)
              /\ addrPtMap'[class] = Append(addrPtMap[class], sub.addressPoint)
              /\ parentMap'[class] = Append(parentMap[class], parents)
            BY <1>3, <3>1 DEF Clouds!PushBack, Clouds!Put, RInv
        <3>3. QED
            BY <1>2, <2>2, <3>1, <3>2 DEF Recorded, class, n
    <2>5. QED
        BY <2>3, <2>4
<1>8. ASSUME NEW c \in DOMAIN rangeMap, c # class
      PROVE  /\ ~IsRead(c)'
             /\ \E i \in Clouds!InfosRead(module) : Recorded(c, i, Len(i.subVTables))'
    <2>1. ~IsRead(c)
        BY <1>1, <1>8 DEF IsRead, class
    <2>2. ~IsRead(c)'
        BY <1>1, <1>2, <1>4, <1>5, <1>8 DEF IsRead, class
    <2>3. PICK i \in Clouds!InfosRead(module) : Recorded(c, i, Len(i.subVTables))
        BY <2>1 DEF RInv
    <2>4. Recorded(c, i, Len(i.subVTables))'
        BY <1>6, <1>8, <2>3 DEF Recorded
    <2>5. QED
        BY <2>2, <2>4
<1>9. \A o \in nodes : ~IsRead(o[1].className)' /\ o[1].className \notin DOMAIN rangeMap'
    BY <1>1, <1>2, <1>4, <1>5, <1>6 DEF RInv, IsRead, class
<1>10. CASE at + 1 = n
    <2>1. infoVec' = <<>>
        BY <1>4, <1>5, <1>10
    <2>2. ~IsRead(class)' /\ Recorded(class, info, Len(info.subVTables))'
        BY <1>7, <1>10, <2>1 DEF IsRead, n
    <2>3. QED
        BY <1>2, <1>3, <1>6, <1>8, <1>9, <2>1, <2>2 DEF RInv
<1>11. CASE at + 1 # n
    <2>1. infoVec' = infoVec /\ ind' = at + 1 /\ ind' # 0
        BY <1>1, <1>2, <1>4, <1>11
    <2>2. IsRead(class)' /\ infoVec'[1] = info
        BY <1>1, <1>2, <2>1 DEF IsRead, class
    <2>3. class \in DOMAIN rangeMap'
        BY <1>6
    <2>4. ASSUME NEW c \in DOMAIN rangeMap'
          PROVE  IF IsRead(c)' THEN Recorded(c, infoVec[1], ind)'
                 ELSE \E i \in Clouds!InfosRead(module') : Recorded(c, i, Len(i.subVTables))'
        <3>1. CASE c = class
            BY <1>7, <2>1, <2>2, <3>1 DEF Recorded
        <3>2. CASE c # class
            BY <1>3, <1>6, <1>8, <2>4, <3>2
        <3>3. QED
            BY <3>1, <3>2
    <2>5. infoVec' # <<>> /\ Len(infoVec') = 1 /\ ind' # 0 /\ infoVec'[1].className \in DOMAIN rangeMap'
        BY <1>2, <2>1, <2>2, <2>3 DEF class
    <2>6. \A o \in nodes' : ~IsRead(o[1].className)' /\ o[1].className \notin DOMAIN rangeMap'
        BY <1>3, <1>9
    <2>7. DOMAIN addrPtMap' = DOMAIN rangeMap' /\ DOMAIN parentMap' = DOMAIN rangeMap'
        BY <1>6
    <2> HIDE DEF class
    <2>8. QED
        BY <2>4, <2>5, <2>6, <2>7 DEF RInv
<1>12. QED
    BY <1>10, <1>11

\* getVTableOrder answers with the first sub-vtable that holds the slot.
LEMMA OrderFound ==
    ASSUME NEW c, NEW slot, NEW n \in Nat, NEW k \in 1..n, DOMAIN rangeMap[c] = 1..n,
           rangeMap[c][k][1] <= slot, slot <= rangeMap[c][k][2]
    PROVE  \E i \in 1..n : /\ rangeMap[c][i][1] <= slot /\ slot <= rangeMap[c][i][2]
                           /\ Clouds!getVTableOrder(c, slot) = i - 1
<1> DEFINE holds == {i \in 1..n : rangeMap[c][i][1] <= slot /\ slot <= rangeMap[c][i][2]}
<1>1. holds \subseteq Nat /\ k \in holds
    OBVIOUS
<1>2. PICK i \in holds : \A j \in holds : i <= j
    <2> HIDE DEF holds
    <2>1. QED
        BY <1>1, Least
<1>3. Clouds!First(holds) \in holds
    <2> HIDE DEF holds
    <2>1. QED
        BY <1>2 DEF Clouds!First
<1>4. QED
    BY <1>1, <1>3 DEF Clouds!getVTableOrder

LEMMA NextRecorded == UInv /\ RInv /\ [BuildNext]_<<vars, cloudVars>> => RInv'
<1> SUFFICES ASSUME UInv, RInv, [BuildNext]_<<vars, cloudVars>> PROVE RInv'
    OBVIOUS
<1>1. CASE Clouds!ReadNode
    BY <1>1, NodeRecorded
<1>2. CASE Clouds!ReadSubVTable
    BY <1>2, SubVTableRecorded
<1>3. ASSUME UNCHANGED <<module, nodes, infoVec, ind, rangeMap, addrPtMap, parentMap>> PROVE RInv'
    BY <1>3 DEF RInv, Recorded, IsRead
<1>4. CASE Clouds!RecordAncestors \/ Clouds!NameSubObjects \/ Clouds!calculateChildrenCounts
    BY <1>3, <1>4 DEF Clouds!RecordAncestors, Clouds!NameSubObjects,
                      Clouds!calculateChildrenCounts, Clouds!readVars
<1>5. CASE topoSort
    BY <1>3, <1>5 DEF topoSort, cloudVars
<1>6. CASE UNCHANGED cloudVars
    BY <1>3, <1>6 DEF cloudVars
<1>7. QED
    BY <1>1, <1>2, <1>4, <1>5, <1>6 DEF BuildNext, BuildDone

\* The sub-vtables of an info join, and each holds an entry at its address
\* point unless it has no functions.
LEMMA InfoJoins ==
    ASSUME UInv, NEW info \in Clouds!InfosRead(module), NEW n, n = Len(info.subVTables)
    PROVE  /\ n \in Nat \ {0}
           /\ \A slot \in 0..info.subVTables[n].end : \E k \in 1..n :
                 info.subVTables[k].start <= slot /\ slot <= info.subVTables[k].end
           /\ \A i, j \in 1..n : i < j => info.subVTables[i].end < info.subVTables[j].start
           /\ \A k \in 1..n : /\ info.subVTables[k].start \in Nat
                              /\ info.subVTables[k].end \in Nat
                              /\ info.subVTables[k].addressPoint \in Nat
                              /\ info.subVTables[k].start <= info.subVTables[k].addressPoint
<1> DEFINE sub == info.subVTables
           low == [k \in 1..n |-> sub[k].start]
           high == [k \in 1..n |-> sub[k].end]
<1>1. Clouds!SubVTablesJoin(module) /\ n \in Nat \ {0}
    BY ModulesAssumption DEF UInv, Clouds!WellLinked
<1>2. /\ sub[1].start = 0
      /\ \A k \in 1..n : /\ sub[k].start \in Nat /\ sub[k].addressPoint \in Nat /\ sub[k].end \in Nat
                         /\ sub[k].start < sub[k].addressPoint
                         /\ sub[k].addressPoint <= sub[k].end + 1
      /\ \A k \in 1..(n - 1) : sub[k + 1].start = sub[k].end + 1
    BY <1>1 DEF Clouds!SubVTablesJoin
<1> HIDE DEF sub
<1>3. \A k \in 1..n : sub[k].start <= sub[k].end /\ sub[k].start <= sub[k].addressPoint
    BY <1>2
<1>4. /\ low \in [1..n -> Nat] /\ high \in [1..n -> Nat]
      /\ \A k \in 1..n : low[k] = sub[k].start /\ high[k] = sub[k].end
      /\ n \in 1..n /\ 1 \in 1..n
      /\ \A k \in 1..(n - 1) : k \in 1..n /\ k + 1 \in 1..n
    BY <1>1, <1>2
<1> HIDE DEF low, high
<1>5. /\ low[1] = 0
      /\ \A k \in 1..n : low[k] <= high[k]
      /\ \A k \in 1..(n - 1) : low[k + 1] = high[k] + 1
    BY <1>2, <1>3, <1>4
<1>6. /\ \A x \in 0..high[n] : \E k \in 1..n : low[k] <= x /\ x <= high[k]
      /\ \A i, j \in 1..n : i < j => high[i] < low[j]
    BY <1>1, <1>4, <1>5, JoinedIntervals
<1>7. QED
    BY <1>1, <1>2, <1>3, <1>4, <1>6 DEF sub

LEMMA RecordedOrder == UInv /\ RInv => SlotsHaveOneOrder
<1> SUFFICES ASSUME UInv, RInv, Clouds!Read, NEW c \in DOMAIN rangeMap
             PROVE  LET n == Len(rangeMap[c])
                    IN  /\ \A slot \in 0..rangeMap[c][n][2] : Clouds!getVTableOrder(c, slot) # 0 - 1
                        /\ \A i, j \in 1..n : i < j => rangeMap[c][i][2] < rangeMap[c][j][1]
                        /\ \A i \in 1..n :
                              /\ rangeMap[c][i][1] <= addrPtMap[c][i]
                              /\ addrPtMap[c][i] <= rangeMap[c][i][2]
                                    => Clouds!getVTableOrder(c, addrPtMap[c][i]) = i - 1
    BY DEF SlotsHaveOneOrder, Clouds!SlotsHaveOneOrder
<1>1. PICK info \in Clouds!InfosRead(module) : Recorded(c, info, Len(info.subVTables))
    BY DEF RInv, IsRead, Clouds!Read
<1>2. PICK n : n = Len(info.subVTables)
    OBVIOUS
<1> DEFINE sub == info.subVTables
<1>3. /\ n \in Nat \ {0} /\ n \in 1..n
      /\ \A slot \in 0..sub[n].end : \E k \in 1..n : sub[k].start <= slot /\ slot <= sub[k].end
      /\ \A i, j \in 1..n : i < j => sub[i].end < sub[j].start
      /\ \A k \in 1..n : /\ sub[k].start \in Nat /\ sub[k].end \in Nat /\ sub[k].addressPoint \in Nat
                         /\ sub[k].start <= sub[k].addressPoint
    BY <1>2, InfoJoins
<1>4. /\ Len(rangeMap[c]) = n /\ DOMAIN rangeMap[c] = 1..n
      /\ \A k \in 1..n : /\ rangeMap[c][k][1] = sub[k].start /\ rangeMap[c][k][2] = sub[k].end
                         /\ addrPtMap[c][k] = sub[k].addressPoint
    <2>1. /\ Extents(info) \in Seq({Extents(info)[i] : i \in DOMAIN Extents(info)})
          /\ Points(info) \in Seq({Points(info)[i] : i \in DOMAIN Points(info)})
          /\ Len(Extents(info)) = n /\ Len(Points(info)) = n
          /\ \A k \in 1..n : /\ Extents(info)[k] = <<sub[k].start, sub[k].end>>
                             /\ Points(info)[k] = sub[k].addressPoint
        BY <1>2, <1>3, InfoSequences
    <2>2. rangeMap[c] = Extents(info) /\ addrPtMap[c] = Points(info)
        BY <1>1, <1>2, <2>1, PrefixEnds DEF Recorded
    <2>3. DOMAIN Extents(info) = 1..n
        BY <2>1
    <2>4. /\ rangeMap[c] \in Seq({Extents(info)[i] : i \in DOMAIN Extents(info)})
          /\ Len(rangeMap[c]) = n /\ DOMAIN rangeMap[c] = 1..n
        BY <2>1, <2>2, <2>3
    <2>5. ASSUME NEW k \in 1..n
          PROVE  /\ rangeMap[c][k][1] = sub[k].start /\ rangeMap[c][k][2] = sub[k].end
                 /\ addrPtMap[c][k] = sub[k].addressPoint
        <3>1. /\ rangeMap[c][k] = Extents(info)[k] /\ addrPtMap[c][k] = Points(info)[k]
            BY <2>2
        <3>2. Extents(info)[k] = <<sub[k].start, sub[k].end>> /\ Points(info)[k] = sub[k].addressPoint
            BY <2>1
        <3>3. QED
            BY <3>1, <3>2
    <2>6. QED
        BY <2>4, <2>5
<1> HIDE DEF sub
<1>5. ASSUME NEW slot \in 0..sub[n].end PROVE Clouds!getVTableOrder(c, slot) # 0 - 1
    <2>1. PICK k \in 1..n : rangeMap[c][k][1] <= slot /\ slot <= rangeMap[c][k][2]
        BY <1>3, <1>4
    <2>2. PICK i \in 1..n : Clouds!getVTableOrder(c, slot) = i - 1
        BY <1>3, <1>4, <2>1, OrderFound
    <2>3. QED
        BY <1>3, <2>2
<1>6. ASSUME NEW i \in 1..n, sub[i].addressPoint <= sub[i].end
      PROVE  Clouds!getVTableOrder(c, sub[i].addressPoint) = i - 1
    <2>1. PICK slot : slot = sub[i].addressPoint
        OBVIOUS
    <2>2. rangeMap[c][i][1] <= slot /\ slot <= rangeMap[c][i][2] /\ n \in Nat
        BY <1>3, <1>4, <1>6, <2>1
    <2>3. PICK k \in 1..n : /\ rangeMap[c][k][1] <= slot /\ slot <= rangeMap[c][k][2]
                            /\ Clouds!getVTableOrder(c, slot) = k - 1
        BY <1>4, <2>2, OrderFound
    <2>4. sub[k].start <= slot /\ slot <= sub[k].end /\ sub[i].start <= slot /\ slot <= sub[i].end
        BY <1>4, <2>2, <2>3
    <2>5. ~(i < k) /\ ~(k < i)
        BY <1>3, <2>1, <2>4
    <2>6. QED
        BY <1>3, <2>1, <2>3, <2>5
<1>7. QED
    BY <1>3, <1>4, <1>5, <1>6

\* In every linked module each slot of a vtable belongs to one sub-vtable, found
\* by getVTableOrder: the infos that other units repeat add nothing to the
\* extents of a class.
THEOREM CloudsOrderSlots == BuildSpec => []SlotsHaveOneOrder
BY InitUndefined, NextUndefined, InitRecorded, NextRecorded, RecordedOrder, PTL DEF BuildSpec

-----------------------------------------------------------------------------
(* The graph that has been read is the hierarchy, as far as it is read.    *)

Infos == Clouds!InfosOf(module)
SubAt(v) == Clouds!SubOf(Infos, v)

\* A class has one info, whichever units repeat it.
LEMMA OneInfo ==
    ASSUME UInv
    PROVE  /\ Infos = Clouds!InfosRead(module)
           /\ \A i, j \in Infos : i.className = j.className => i = j
<1>1. Clouds!OneClassNodes(module) /\ Clouds!UnitsAgree(module)
    BY ModulesAssumption DEF UInv
<1>2. ASSUME NEW n \in module.nodes
      PROVE  {n[i] : i \in DOMAIN n} = {n[1]}
    BY <1>1 DEF Clouds!OneClassNodes, Clouds!UnitsAgree
<1>3. ASSUME NEW n \in module.nodes
      PROVE  {Clouds!extractMetadata(n)[k] : k \in DOMAIN Clouds!extractMetadata(n)} = {n[1]}
    <2>1. PICK s : s = Clouds!extractMetadata(n) /\ s = <<n[1]>>
        BY NodeInfo
    <2>2. {s[k] : k \in DOMAIN s} = {n[1]}
        BY <2>1
    <2>3. QED
        BY <2>1, <2>2
<1>4. Infos = {n[1] : n \in module.nodes} /\ Clouds!InfosRead(module) = {n[1] : n \in module.nodes}
    <2>1. Infos = UNION {{n[1]} : n \in module.nodes}
        BY <1>2 DEF Infos, Clouds!InfosOf
    <2>2. Clouds!InfosRead(module) = UNION {{n[1]} : n \in module.nodes}
        <3> DEFINE read(n) == {Clouds!extractMetadata(n)[k] : k \in DOMAIN Clouds!extractMetadata(n)}
        <3>1. Clouds!InfosRead(module) = UNION {read(n) : n \in module.nodes}
            BY DEF Clouds!InfosRead
        <3>2. \A n \in module.nodes : read(n) = {n[1]}
            BY <1>3
        <3> HIDE DEF read
        <3>3. QED
            BY <3>1, <3>2
    <2>3. QED
        BY <2>1, <2>2
<1>5. \A n, o \in module.nodes : n # o => n[1].className # o[1].className
    BY <1>1 DEF Clouds!OneClassNodes
<1>6. QED
    BY <1>4, <1>5

\* What is said of a vtable in the info of its class.
LEMMA InfoAt ==
    ASSUME UInv, NEW info \in Clouds!InfosRead(module), NEW k \in 1..Len(info.subVTables)
    PROVE  /\ SubAt(<<info.className, k - 1>>) = info.subVTables[k]
           /\ <<info.className, k - 1>> \in Described
           /\ Clouds!Parents(info.subVTables[k]) \subseteq Described
<1>1. PICK v : v = <<info.className, k - 1>>
    OBVIOUS
<1>2. Clouds!InfoOf(Infos, v) = info
    BY <1>1, OneInfo DEF Clouds!InfoOf
<1>3. Len(info.subVTables) \in Nat \ {0} /\ Clouds!Parents(info.subVTables[k]) \subseteq Described
    BY ModulesAssumption DEF UInv, Clouds!WellLinked, Described
<1>4. v[2] + 1 = k /\ k - 1 \in 0..(Len(info.subVTables) - 1)
    BY <1>1, <1>3
<1>5. SubAt(v) = info.subVTables[k]
    BY <1>2, <1>4 DEF SubAt, Clouds!SubOf
<1>6. v \in Described
    BY <1>1, <1>4 DEF Described, Clouds!DescribedVTables, Clouds!VTablesOf
<1>7. QED
    BY <1>1, <1>3, <1>5, <1>6

LEMMA DescribedAt ==
    ASSUME UInv
    PROVE  /\ Clouds!Vtables(Infos) = Described
           /\ \A v \in Described : \E info \in Infos : \E k \in 1..Len(info.subVTables) :
                 /\ v = <<info.className, k - 1>> /\ v[1] = info.className /\ v[2] + 1 = k
                 /\ SubAt(v) = info.subVTables[k]
<1>1. Infos = Clouds!InfosRead(module)
    BY OneInfo
<1>2. ASSUME NEW info \in Infos
      PROVE  /\ Len(info.subVTables) \in Nat \ {0}
             /\ DOMAIN info.subVTables = 1..Len(info.subVTables)
             /\ {<<info.className, k - 1>> : k \in DOMAIN info.subVTables} = Clouds!VTablesOf(info)
    <2>1. Len(info.subVTables) \in Nat \ {0} /\ DOMAIN info.subVTables = 1..Len(info.subVTables)
        BY <1>1, ModulesAssumption DEF UInv, Clouds!WellLinked
    <2>2. PICK n \in Nat : n = Len(info.subVTables)
        BY <2>1
    <2>3. \A i \in 0..(n - 1) : i + 1 \in 1..n /\ (i + 1) - 1 = i
        BY <2>2
    <2>4. \A k \in 1..n : k - 1 \in 0..(n - 1)
        BY <2>2
    <2>5. PICK c : c = info.className
        OBVIOUS
    <2>6. {<<c, k - 1>> : k \in 1..n} = {<<c, i>> : i \in 0..(n - 1)}
        BY <2>3, <2>4
    <2>7. QED
        BY <2>1, <2>2, <2>5, <2>6 DEF Clouds!VTablesOf
<1>3. Clouds!Vtables(Infos) = Described
    BY <1>1, <1>2 DEF Clouds!Vtables, Described, Clouds!DescribedVTables
<1>4. ASSUME NEW v \in Described
      PROVE  \E info \in Infos : \E k \in 1..Len(info.subVTables) :
                 /\ v = <<info.className, k - 1>> /\ v[1] = info.className /\ v[2] + 1 = k
                 /\ SubAt(v) = info.subVTables[k]
    <2>1. PICK info \in Infos : v \in {<<info.className, k - 1>> : k \in DOMAIN info.subVTables}
        BY <1>3 DEF Clouds!Vtables
    <2>2. PICK k \in 1..Len(info.subVTables) : v = <<info.className, k - 1>>
        BY <1>2, <2>1
    <2>3. v[1] = info.className /\ v[2] + 1 = k
        BY <1>2, <2>2
    <2>4. QED
        BY <1>1, <2>2, <2>3, InfoAt
<1>5. QED
    BY <1>3, <1>4

\* Of the vtables that have been read: their parents are in the graph, which
\* holds each under its parents, their functions are kept, and the roots are
\* the classes of those without a parent.
GInv ==
    /\ cloudMap = [x \in DOMAIN cloudMap |-> cloudMap[x]]
    /\ \A w \in HasBeenRead : Clouds!Parents(SubAt(w)) \subseteq DOMAIN cloudMap
    /\ \A x \in DOMAIN cloudMap :
          cloudMap[x] = {w \in HasBeenRead : x \in Clouds!Parents(SubAt(w))}
    /\ roots = {w[1] : w \in {x \in HasBeenRead : Clouds!Parentless(SubAt(x))}}
    /\ \A w \in HasBeenRead : vTableFunctionMap[w] = SubAt(w).functions

LEMMA InitGraph == BuildInit => GInv
BY DEF BuildInit, Clouds!Init, Clouds!NoMap, HasBeenRead, GInv

LEMMA SubVTableGraph == ASSUME UInv, GInv, Clouds!ReadSubVTable PROVE GInv'
<1> DEFINE info == infoVec[1]
           v == <<info.className, ind>>
           sub == info.subVTables[ind + 1]
           parents == Clouds!Parents(sub)
           known == DOMAIN cloudMap \cup {v}
<1>1. infoVec # <<>> /\ Clouds!Info = info
    BY ListedTail DEF Clouds!ReadSubVTable, Clouds!Info, UInv
<1>2. /\ module' = module
      /\ vTableFunctionMap' = Clouds!Put(vTableFunctionMap, v, sub.functions)
      /\ cloudMap' = [x \in known \cup parents |->
             (IF x \in DOMAIN cloudMap THEN cloudMap[x] ELSE {}) \cup (IF x \in parents THEN {v} ELSE {})]
      /\ roots' = roots \cup (IF Clouds!Parentless(sub) THEN {info.className} ELSE {})
    BY <1>1 DEF Clouds!ReadSubVTable, Clouds!LinkParents
<1>3. \A x : SubAt(x)' = SubAt(x)
    BY <1>2 DEF SubAt, Infos
<1>4. SubAt(v) = sub
    <2>1. info \in Clouds!InfosRead(module)
        BY <1>1, ListedTail DEF UInv
    <2>2. Len(info.subVTables) \in Nat \ {0} /\ ind \in 0..(Len(info.subVTables) - 1)
        BY <1>1, <2>1, ModulesAssumption DEF UInv, Clouds!WellLinked
    <2>3. ind + 1 \in 1..Len(info.subVTables) /\ (ind + 1) - 1 = ind
        BY <2>2
    <2>4. SubAt(<<info.className, (ind + 1) - 1>>) = sub
        <3> HIDE DEF info
        <3>1. QED
            BY <2>1, <2>3, InfoAt
    <2>5. QED
        BY <2>3, <2>4
<1>5. v[1] = info.className
    OBVIOUS
<1> HIDE DEF info, v, sub, parents, known
<1>6. /\ HasBeenRead' = HasBeenRead \cup {v}
      /\ \A w \in HasBeenRead' :
            vTableFunctionMap'[w] = IF w = v THEN sub.functions ELSE vTableFunctionMap[w]
    BY <1>2 DEF Clouds!Put, HasBeenRead
<1>7. DOMAIN cloudMap' = known \cup parents /\ cloudMap' = [x \in DOMAIN cloudMap' |-> cloudMap'[x]]
    BY <1>2
<1>8. \A w \in HasBeenRead' : Clouds!Parents(SubAt(w)) \subseteq DOMAIN cloudMap'
    BY <1>4, <1>6, <1>7 DEF GInv, parents, known
<1>9. ASSUME NEW x \in DOMAIN cloudMap'
      PROVE  cloudMap'[x] = {w \in HasBeenRead' : x \in Clouds!Parents(SubAt(w))}
    <2>1. cloudMap'[x] = (IF x \in DOMAIN cloudMap THEN cloudMap[x] ELSE {})
                         \cup (IF x \in parents THEN {v} ELSE {})
        BY <1>2, <1>7, <1>9
    <2>2. (IF x \in DOMAIN cloudMap THEN cloudMap[x] ELSE {})
              = {w \in HasBeenRead : x \in Clouds!Parents(SubAt(w))}
        BY DEF GInv
    <2>3. QED
        BY <1>4, <1>6, <2>1, <2>2 DEF parents
<1>10. roots' = {w[1] : w \in {x \in HasBeenRead' : Clouds!Parentless(SubAt(x))}}
    <2> DEFINE old == {x \in HasBeenRead : Clouds!Parentless(SubAt(x))}
               new == {x \in HasBeenRead' : Clouds!Parentless(SubAt(x))}
    <2>1. new = old \cup (IF Clouds!Parentless(sub) THEN {v} ELSE {})
        BY <1>4, <1>6
    <2>2. roots = {w[1] : w \in old}
        BY DEF GInv
    <2> HIDE DEF old, new
    <2>3. {w[1] : w \in new} = {w[1] : w \in old} \cup (IF Clouds!Parentless(sub) THEN {v[1]} ELSE {})
        BY <2>1
    <2>4. QED
        BY <1>2, <1>5, <2>2, <2>3 DEF new
<1>11. \A w \in HasBeenRead' : vTableFunctionMap'[w] = SubAt(w).functions
    BY <1>4, <1>6 DEF GInv
<1>12. QED
    BY <1>3, <1>7, <1>8, <1>9, <1>10, <1>11 DEF GInv

LEMMA NextGraph == UInv /\ GInv /\ [BuildNext]_<<vars, cloudVars>> => GInv'
<1> SUFFICES ASSUME UInv, GInv, [BuildNext]_<<vars, cloudVars>> PROVE GInv'
    OBVIOUS
<1>1. ASSUME UNCHANGED <<module, cloudMap, vTableFunctionMap, roots>> PROVE GInv'
    BY <1>1 DEF GInv, HasBeenRead, SubAt, Infos
<1>2. CASE Clouds!ReadNode
    BY <1>1, <1>2 DEF Clouds!ReadNode
<1>3. CASE Clouds!ReadSubVTable
    BY <1>3, SubVTableGraph
<1>4. CASE Clouds!RecordAncestors \/ Clouds!NameSubObjects \/ Clouds!calculateChildrenCounts
    BY <1>1, <1>4 DEF Clouds!RecordAncestors, Clouds!NameSubObjects,
                      Clouds!calculateChildrenCounts, Clouds!readVars
<1>5. CASE topoSort
    BY <1>1, <1>5 DEF topoSort, cloudVars
<1>6. CASE UNCHANGED cloudVars
    BY <1>1, <1>6 DEF cloudVars
<1>7. QED
    BY <1>2, <1>3, <1>4, <1>5, <1>6 DEF BuildNext, BuildDone

-----------------------------------------------------------------------------
(* Finite sets: what holds of every part of one can be shown of the parts  *)
(* that are smallest.                                                      *)

\* Sizes are the same wherever they are counted.
LEMMA SameSizes ==
    /\ \A S : Clouds!IsFiniteSet(S) <=> IsFiniteSet(S)
    /\ \A S : Clouds!Cardinality(S) = Cardinality(S)
<1>1. \A S : Clouds!IsFiniteSet(S) <=> IsFiniteSet(S)
    BY DEF Clouds!IsFiniteSet, IsFiniteSet
<1>2. \A S : Clouds!Cardinality(S) = Cardinality(S)
    BY DEF Clouds!Cardinality, Cardinality
<1>3. QED
    BY <1>1, <1>2

LEMMA SmallestPart ==
    ASSUME NEW S, IsFiniteSet(S), NEW Bad \in SUBSET SUBSET S, Bad # {}
    PROVE  \E T \in Bad : \A x \in T : T \ {x} \notin Bad
<1> DEFINE R == StrictSubsetOrdering(S)
<1>1. IsWellFoundedOn(R, SUBSET S)
    BY FS_StrictSubsetOrderingWellFounded, FS_FiniteSubsetsOfFinite
<1>2. \A T, U \in SUBSET S : T \subseteq U /\ T # U => <<T, U>> \in R
    BY DEF StrictSubsetOrdering
<1> HIDE DEF R
<1>3. PICK T \in Bad : \A U \in Bad : ~(<<U, T>> \in R)
    BY <1>1, WFMin
<1>4. T \in SUBSET S
    OBVIOUS
<1>5. ASSUME NEW x \in T, T \ {x} \in Bad PROVE FALSE
    <2>1. PICK U : U = T \ {x}
        OBVIOUS
    <2>2. U \in SUBSET S /\ U \subseteq T /\ U # T /\ U \in Bad
        BY <1>4, <1>5, <2>1
    <2>3. QED
        BY <1>2, <1>3, <1>4, <2>2
<1>6. QED
    BY <1>5

LEMMA FiniteImage ==
    ASSUME NEW S, IsFiniteSet(S), NEW f
    PROVE  IsFiniteSet({f[x] : x \in S})
<1> DEFINE T == {f[x] : x \in S}
           g == [x \in S |-> f[x]]
<1>1. g \in Surjection(S, T)
    BY DEF Surjection
<1> HIDE DEF g
<1>2. QED
    BY <1>1, FS_Surjection

\* Numbers that belong to the elements of a finite set have a bound.
LEMMA Bounded ==
    ASSUME NEW S, IsFiniteSet(S), NEW f \in [S -> Nat]
    PROVE  \E n \in Nat : \A x \in S : f[x] <= n
<1> DEFINE Bad == {T \in SUBSET S : ~\E n \in Nat : \A x \in T : f[x] <= n}
<1> SUFFICES ASSUME Bad # {} PROVE FALSE
    OBVIOUS
<1>1. PICK T \in Bad : \A x \in T : T \ {x} \notin Bad
    <2> HIDE DEF Bad
    <2>1. Bad \in SUBSET SUBSET S
        BY DEF Bad
    <2>2. QED
        BY <2>1, SmallestPart
<1>2. CASE T = {}
    BY <1>1, <1>2
<1>3. CASE T # {}
    <2>1. PICK x \in T : T \ {x} \notin Bad
        BY <1>1, <1>3
    <2>2. PICK n \in Nat : \A y \in T \ {x} : f[y] <= n
        BY <2>1
    <2>3. PICK m \in Nat : n <= m /\ f[x] <= m
        <3>1. f[x] \in Nat
            OBVIOUS
        <3>2. n <= n + f[x] /\ f[x] <= n + f[x] /\ n + f[x] \in Nat
            BY <3>1
        <3>3. QED
            BY <3>2
    <2>4. \A y \in T : f[y] \in Nat /\ f[y] <= m
        <3>1. \A y \in T : f[y] \in Nat
            OBVIOUS
        <3>2. QED
            BY <2>2, <2>3, <3>1
    <2>5. QED
        BY <1>1, <2>4
<1>4. QED
    BY <1>2, <1>3

\* The sum in ChildrenCount.
SumOver(f, S) == Clouds!MapThenSumSet(LAMBDA child : f[child], S)

\* The sum of the sizes of parts that have no element in common is the size of
\* their union.
LEMMA SizesAddUp ==
    ASSUME NEW S, IsFiniteSet(S), NEW A, \A x \in S : IsFiniteSet(A[x]),
           \A x, y \in S : x # y => A[x] \cap A[y] = {},
           NEW f, \A x \in S : f[x] = Cardinality(A[x])
    PROVE  SumOver(f, S) = Cardinality(UNION {A[x] : x \in S})
<1> DEFINE All(T) == UNION {A[x] : x \in T}
           Chosen(T) == CHOOSE x \in T : TRUE
           Solves(g) == g = [T \in SUBSET S |-> IF T = {} THEN 0
                                                 ELSE f[Chosen(T)] + g[T \ {Chosen(T)}]]
           sizes == [T \in SUBSET S |-> Cardinality(All(T))]
           iter == CHOOSE g : Solves(g)
<1>1. \A T \in SUBSET S : IsFiniteSet(All(T)) /\ Cardinality(All(T)) \in Nat
    <2> SUFFICES ASSUME NEW T \in SUBSET S PROVE IsFiniteSet(All(T))
        BY FS_CardinalityType
    <2>1. IsFiniteSet(T)
        BY FS_Subset
    <2>2. IsFiniteSet({A[x] : x \in T})
        BY <2>1, FiniteImage
    <2>3. \A P \in {A[x] : x \in T} : IsFiniteSet(P)
        OBVIOUS
    <2>4. QED
        BY <2>2, <2>3, FS_UNION
<1>2. ASSUME NEW T \in SUBSET S, T # {}
      PROVE  /\ Chosen(T) \in T /\ T \ {Chosen(T)} \in SUBSET S
             /\ Cardinality(All(T)) = f[Chosen(T)] + Cardinality(All(T \ {Chosen(T)}))
    <2>1. PICK x : x = Chosen(T) /\ x \in T
        BY <1>2
    <2>2. All(T) = A[x] \cup All(T \ {x}) /\ A[x] \cap All(T \ {x}) = {}
        <3> HIDE DEF Chosen
        <3>1. All(T) = A[x] \cup All(T \ {x})
            BY <2>1
        <3>2. \A y \in T \ {x} : A[x] \cap A[y] = {}
            BY <2>1
        <3>3. QED
            BY <3>1, <3>2
    <2>3. IsFiniteSet(A[x]) /\ IsFiniteSet(All(T \ {x})) /\ T \ {x} \in SUBSET S
        BY <1>1, <2>1
    <2> HIDE DEF All, Chosen
    <2>4. Cardinality(A[x] \cup All(T \ {x}))
              = Cardinality(A[x]) + Cardinality(All(T \ {x})) - Cardinality(A[x] \cap All(T \ {x}))
        BY <2>3, FS_Union
    <2>5. Cardinality({}) = 0 /\ Cardinality(A[x]) \in Nat /\ Cardinality(All(T \ {x})) \in Nat
        BY <2>3, FS_EmptySet, FS_CardinalityType
    <2>6. f[x] = Cardinality(A[x])
        BY <2>1
    <2>7. Cardinality(A[x] \cup All(T \ {x})) = Cardinality(A[x]) + Cardinality(All(T \ {x}))
        <3>1. PICK a, b \in Nat : a = Cardinality(A[x]) /\ b = Cardinality(All(T \ {x}))
            BY <2>5
        <3>2. Cardinality(A[x] \cup All(T \ {x})) = a + b - 0
            BY <2>2, <2>4, <2>5, <3>1
        <3>3. QED
            BY <3>1, <3>2
    <2>8. QED
        BY <2>1, <2>2, <2>3, <2>6, <2>7
<1>3. Cardinality(All({})) = 0
    <2>1. All({}) = {}
        OBVIOUS
    <2> HIDE DEF All
    <2>2. QED
        BY <2>1, FS_EmptySet
<1> HIDE DEF All, Chosen
<1>4. Solves(sizes)
    <2>1. \A T \in SUBSET S :
              sizes[T] = IF T = {} THEN 0 ELSE f[Chosen(T)] + sizes[T \ {Chosen(T)}]
        BY <1>2, <1>3
    <2>2. sizes = [T \in SUBSET S |-> sizes[T]]
        OBVIOUS
    <2> HIDE DEF sizes
    <2>3. QED
        BY <2>1, <2>2
<1>5. Solves(iter)
    <2> HIDE DEF Solves, sizes
    <2>1. QED
        BY <1>4
<1>6. SumOver(f, S) = iter[S]
    BY DEF SumOver, Clouds!MapThenSumSet, Clouds!MapThenFoldSet, Chosen
<1> HIDE DEF iter
<1>7. \A T \in SUBSET S : iter[T] = Cardinality(All(T))
    <2> DEFINE Bad == {T \in SUBSET S : iter[T] # Cardinality(All(T))}
    <2> SUFFICES ASSUME Bad # {} PROVE FALSE
        OBVIOUS
    <2>1. PICK T \in Bad : \A x \in T : T \ {x} \notin Bad
        <3> HIDE DEF Bad
        <3>1. Bad \in SUBSET SUBSET S
            BY DEF Bad
        <3>2. QED
            BY <3>1, SmallestPart
    <2>2. iter[T] = IF T = {} THEN 0 ELSE f[Chosen(T)] + iter[T \ {Chosen(T)}]
        BY <1>5
    <2>3. CASE T = {}
        BY <1>3, <2>2, <2>3
    <2>4. CASE T # {}
        <3>1. Chosen(T) \in T /\ T \ {Chosen(T)} \in SUBSET S
            BY <1>2, <2>4
        <3>2. iter[T \ {Chosen(T)}] = Cardinality(All(T \ {Chosen(T)}))
            BY <2>1, <3>1
        <3>3. QED
            BY <1>2, <2>2, <2>4, <3>2
    <2>5. QED
        BY <2>3, <2>4
<1>8. QED
    BY <1>6, <1>7 DEF All

-----------------------------------------------------------------------------
(* The graph once all is read: it is the hierarchy, its edges lead to      *)
(* classes defined later, and every vtable is below exactly one root.      *)

LEMMA SameGraph ==
    /\ \A children, v : Clouds!Below(children, v) = Below(children, v)
    /\ \A children : Clouds!IsForest(children) <=> IsForest(children)
BY DEF Clouds!Below, Below, Clouds!IsForest, IsForest

GraphInv == UInv /\ CInv /\ RInv /\ GInv

LEMMA GraphIsHierarchy ==
    ASSUME GraphInv, Clouds!Read, NEW h, h = Clouds!Hierarchy(Infos)
    PROVE  /\ h.vtables = DOMAIN cloudMap /\ DOMAIN cloudMap = HasBeenRead
           /\ h.children = cloudMap
           /\ h.roots = roots
           /\ h.classes = DOMAIN parentMap
<1>0. UInv /\ CInv /\ GInv
    BY DEF GraphInv
<1>1. /\ Clouds!Vtables(Infos) = Described /\ Described = HasBeenRead /\ HasBeenRead = DOMAIN cloudMap
      /\ \A v \in Described : \E info \in Infos : \E k \in 1..Len(info.subVTables) :
             /\ v = <<info.className, k - 1>> /\ v[1] = info.className /\ v[2] + 1 = k
             /\ SubAt(v) = info.subVTables[k]
      /\ Infos = Clouds!InfosRead(module)
    BY <1>0, DescribedAt, AllRead, OneInfo
<1>2. /\ h.vtables = Clouds!Vtables(Infos)
      /\ h.children = [v \in Clouds!Vtables(Infos) |-> Clouds!ChildrenIn(Infos, v)]
      /\ h.roots = Clouds!RootsIn(Infos)
      /\ h.classes = {i.className : i \in Infos}
    BY DEF Clouds!Hierarchy
<1>3. ASSUME NEW info \in Infos
      PROVE  /\ <<info.className, 0>> \in HasBeenRead
             /\ SubAt(<<info.className, 0>>) = info.subVTables[1]
             /\ 1 \in 1..Len(info.subVTables)
    <2>1. 1 \in 1..Len(info.subVTables) /\ 1 - 1 = 0
        BY <1>0, <1>1, ModulesAssumption DEF UInv, Clouds!WellLinked
    <2>2. SubAt(<<info.className, 1 - 1>>) = info.subVTables[1] /\ <<info.className, 1 - 1>> \in Described
        BY <1>0, <1>1, <2>1, InfoAt
    <2>3. QED
        BY <1>1, <2>1, <2>2
<1>4. h.children = cloudMap
    <2>1. \A v, w : v \in Clouds!ParentsIn(Infos, w) <=> v \in Clouds!Parents(SubAt(w))
        BY DEF Clouds!ParentsIn, SubAt
    <2>2. \A v \in DOMAIN cloudMap : Clouds!ChildrenIn(Infos, v) = cloudMap[v]
        BY <1>0, <1>1, <2>1 DEF GInv, Clouds!ChildrenIn
    <2>3. cloudMap = [v \in DOMAIN cloudMap |-> cloudMap[v]]
        BY <1>0 DEF GInv
    <2>4. QED
        BY <1>1, <1>2, <2>2, <2>3
<1>5. h.classes = DOMAIN parentMap
    <2>1. DOMAIN parentMap = {v[1] : v \in HasBeenRead}
        BY <1>0 DEF CInv
    <2>2. \A info \in Infos : info.className \in DOMAIN parentMap
        <3>1. ASSUME NEW info \in Infos PROVE info.className \in DOMAIN parentMap
            <4>1. <<info.className, 0>>[1] = info.className
                OBVIOUS
            <4>2. QED
                BY <1>3, <2>1, <4>1
        <3>2. QED
            BY <3>1
    <2>3. \A v \in HasBeenRead : \E info \in Infos : v[1] = info.className
        BY <1>1
    <2>4. QED
        BY <1>2, <2>1, <2>2, <2>3
<1>6. h.roots = roots
    <2>1. roots = {w[1] : w \in {x \in HasBeenRead : Clouds!Parentless(SubAt(x))}}
        BY <1>0 DEF GInv
    <2>2. h.roots = {i.className : i \in {j \in Infos : Clouds!Parentless(j.subVTables[1])}}
        BY <1>2 DEF Clouds!RootsIn
    <2>3. ASSUME NEW info \in Infos, Clouds!Parentless(info.subVTables[1])
          PROVE  info.className \in roots
        <3>1. <<info.className, 0>>[1] = info.className
            OBVIOUS
        <3>2. <<info.className, 0>> \in {x \in HasBeenRead : Clouds!Parentless(SubAt(x))}
            BY <1>3, <2>3
        <3>3. QED
            BY <2>1, <3>1, <3>2
    <2>4. ASSUME NEW v \in HasBeenRead, Clouds!Parentless(SubAt(v))
          PROVE  \E info \in Infos : v[1] = info.className /\ Clouds!Parentless(info.subVTables[1])
        <3>0. PICK info \in Infos : \E k \in 1..Len(info.subVTables) :
                  v[1] = info.className /\ SubAt(v) = info.subVTables[k]
            BY <1>1
        <3>1. PICK k \in 1..Len(info.subVTables) :
                  v[1] = info.className /\ SubAt(v) = info.subVTables[k]
            BY <3>0
        <3>2. k = 1
            BY <1>0, <2>4, <3>1, ModulesAssumption DEF UInv, Clouds!OneCloudEach, Infos
        <3>3. QED
            BY <2>4, <3>1, <3>2
    <2>5. QED
        BY <2>1, <2>2, <2>3, <2>4
<1>7. QED
    BY <1>1, <1>2, <1>4, <1>5, <1>6

\* The number that the order of the definitions gives to the class of a vtable.
ClassRank == [v \in DOMAIN cloudMap |-> module.declared[v[1]] + 1]

LEMMA GraphRanked ==
    ASSUME GraphInv, Clouds!Read
    PROVE  /\ IsFiniteSet(DOMAIN cloudMap)
           /\ \E n \in Nat : Ranked(DOMAIN cloudMap, cloudMap, ClassRank, n)
<1>0. UInv /\ CInv /\ GInv
    BY DEF GraphInv
<1>1. Infos = Clouds!InfosRead(module) /\ Described = HasBeenRead /\ HasBeenRead = DOMAIN cloudMap
    BY <1>0, AllRead, OneInfo
<1>2. IsFiniteSet(DOMAIN cloudMap)
    <2>1. IsFiniteSet(module.nodes) /\ Infos = {n[1] : n \in module.nodes}
        <3>1. Clouds!OneClassNodes(module) /\ Clouds!UnitsAgree(module)
            BY <1>0, ModulesAssumption DEF UInv
        <3>2. \A n \in module.nodes : {n[i] : i \in DOMAIN n} = {n[1]}
            BY <3>1 DEF Clouds!OneClassNodes, Clouds!UnitsAgree
        <3>3. Infos = UNION {{n[1]} : n \in module.nodes}
            BY <3>2 DEF Infos, Clouds!InfosOf
        <3>4. IsFiniteSet(module.nodes)
            BY <3>1, SameSizes DEF Clouds!UnitsAgree
        <3>5. QED
            BY <3>3, <3>4
    <2>2. IsFiniteSet(Infos)
        <3>1. PICK N : N = module.nodes
            OBVIOUS
        <3> DEFINE first == [n \in N |-> n[1]]
        <3>2. Infos = {first[n] : n \in N}
            BY <2>1, <3>1
        <3> HIDE DEF first
        <3>3. IsFiniteSet({first[n] : n \in N})
            BY <2>1, <3>1, FiniteImage
        <3>4. QED
            BY <3>2, <3>3
    <2>3. ASSUME NEW info \in Infos PROVE IsFiniteSet(Clouds!VTablesOf(info))
        <3> DEFINE N == 0..(Len(info.subVTables) - 1)
                   f == [i \in N |-> <<info.className, i>>]
        <3>1. Len(info.subVTables) - 1 \in Int /\ 0 \in Int
            BY <1>0, <1>1, ModulesAssumption DEF UInv, Clouds!WellLinked
        <3>2. IsFiniteSet(N)
            BY <3>1, FS_Interval
        <3>3. Clouds!VTablesOf(info) = {f[i] : i \in N}
            BY DEF Clouds!VTablesOf
        <3> HIDE DEF N, f
        <3>4. QED
            BY <3>2, <3>3, FiniteImage
    <2>4. IsFiniteSet({Clouds!VTablesOf(info) : info \in Infos})
        <3> DEFINE f == [info \in Infos |-> Clouds!VTablesOf(info)]
        <3>1. {Clouds!VTablesOf(info) : info \in Infos} = {f[info] : info \in Infos}
            OBVIOUS
        <3> HIDE DEF f
        <3>2. QED
            BY <2>2, <3>1, FiniteImage
    <2>5. \A T \in {Clouds!VTablesOf(info) : info \in Infos} : IsFiniteSet(T)
        BY <2>3
    <2>6. Described = UNION {Clouds!VTablesOf(info) : info \in Infos}
        BY <1>1 DEF Described, Clouds!DescribedVTables
    <2>7. QED
        BY <1>1, <2>4, <2>5, <2>6, FS_UNION
<1>3. \A v \in DOMAIN cloudMap : module.declared[v[1]] \in Nat
    <2>1. ASSUME NEW v \in DOMAIN cloudMap PROVE v[1] \in DOMAIN parentMap
        BY <1>0, <1>1 DEF CInv
    <2>2. QED
        BY <1>0, <2>1, ClassesDescribed
<1>4. PICK n \in Nat : \A v \in DOMAIN cloudMap : module.declared[v[1]] <= n
    <2> DEFINE f == [v \in DOMAIN cloudMap |-> module.declared[v[1]]]
    <2>1. f \in [DOMAIN cloudMap -> Nat] /\ \A v \in DOMAIN cloudMap : f[v] = module.declared[v[1]]
        BY <1>3
    <2> HIDE DEF f
    <2>2. QED
        BY <1>2, <2>1, Bounded
<1>5. \A v \in DOMAIN cloudMap : \A w \in cloudMap[v] :
          w \in DOMAIN cloudMap /\ module.declared[v[1]] < module.declared[w[1]]
    <2> SUFFICES ASSUME NEW v \in DOMAIN cloudMap, NEW w \in cloudMap[v]
                 PROVE  w \in DOMAIN cloudMap /\ module.declared[v[1]] < module.declared[w[1]]
        OBVIOUS
    <2>1. w \in HasBeenRead /\ DerivesFrom(w[1], v)
        BY <1>0 DEF CInv
    <2>2. BasesDeclaredFirst(module)
        BY <1>0, ModulesAssumption DEF UInv
    <2>3. QED
        BY <1>1, <2>1, <2>2 DEF DerivesFrom, BasesDeclaredFirst
<1>6. Ranked(DOMAIN cloudMap, cloudMap, ClassRank, n + 1)
    <2>1. cloudMap \in [DOMAIN cloudMap -> SUBSET DOMAIN cloudMap]
        BY <1>0, <1>5 DEF GInv
    <2>2. \A v \in DOMAIN cloudMap : ClassRank[v] = module.declared[v[1]] + 1
        BY DEF ClassRank
    <2>3. ClassRank \in [DOMAIN cloudMap -> 1..(n + 1)]
        <3>1. \A v \in DOMAIN cloudMap : module.declared[v[1]] + 1 \in 1..(n + 1)
            BY <1>3, <1>4
        <3>2. QED
            BY <3>1 DEF ClassRank
    <2>4. \A v \in DOMAIN cloudMap : \A w \in cloudMap[v] : ClassRank[v] < ClassRank[w]
        BY <1>3, <1>5, <2>2
    <2>5. QED
        BY <1>4, <2>1, <2>3, <2>4 DEF Ranked
<1>7. n + 1 \in Nat
    BY <1>4
<1>8. QED
    BY <1>2, <1>6, <1>7

LEMMA OneRootAbove ==
    ASSUME GraphInv, Clouds!Read
    PROVE  /\ \A r \in roots : <<r, 0>> \in DOMAIN cloudMap
           /\ \A v \in DOMAIN cloudMap : \E r \in roots : v \in Below(cloudMap, <<r, 0>>)
           /\ \A r, s \in roots : r # s =>
                 Below(cloudMap, <<r, 0>>) \cap Below(cloudMap, <<s, 0>>) = {}
<1>0. UInv /\ CInv /\ GInv /\ DOMAIN cloudMap = HasBeenRead /\ HasBeenRead = Described
    BY AllRead DEF GraphInv
<1>1. \A r \in roots : <<r, 0>> \in DOMAIN cloudMap
    BY <1>0, ClassesDescribed DEF CInv
<1>2. PICK n \in Nat : Ranked(DOMAIN cloudMap, cloudMap, ClassRank, n)
    BY GraphRanked
<1> DEFINE Above(v) == \E r \in roots : v \in Below(cloudMap, <<r, 0>>)
           Bad == {v \in DOMAIN cloudMap : ~Above(v)}
           T == {ClassRank[v] : v \in Bad}
<1>3. ASSUME Bad # {} PROVE FALSE
    <2>1. T \subseteq Nat /\ T # {}
        <3>1. \A v \in DOMAIN cloudMap : ClassRank[v] \in Nat
            BY <1>2 DEF Ranked
        <3> HIDE DEF Above
        <3>2. QED
            BY <1>3, <3>1
    <2>2. PICK t \in T : \A x \in T : t <= x
        <3> HIDE DEF T
        <3>1. QED
            BY <2>1, Least
    <2> HIDE DEF Above
    <2>3. PICK v \in Bad : ClassRank[v] = t
        OBVIOUS
    <2>0. PICK info \in Infos : \E k \in 1..Len(info.subVTables) :
              v = <<info.className, k - 1>> /\ v[1] = info.className /\ SubAt(v) = info.subVTables[k]
        BY <1>0, DescribedAt
    <2>4. PICK k \in 1..Len(info.subVTables) :
              v = <<info.className, k - 1>> /\ v[1] = info.className /\ SubAt(v) = info.subVTables[k]
        BY <2>0
    <2>5. IF Clouds!Parentless(SubAt(v)) THEN k = 1 ELSE Clouds!Parents(SubAt(v)) # {}
        BY <1>0, <2>4, ModulesAssumption DEF UInv, Clouds!OneCloudEach, Infos
    <2>6. CASE Clouds!Parentless(SubAt(v))
        <3>1. v = <<v[1], 0>>
            BY <2>4, <2>5, <2>6
        <3>2. v[1] \in roots
            BY <1>0, <2>3, <2>6 DEF GInv
        <3>3. v \in Below(cloudMap, v)
            BY <1>2, <2>3, BelowFacts
        <3>4. Above(v)
            BY <3>1, <3>2, <3>3 DEF Above
        <3>5. QED
            BY <2>3, <3>4
    <2>7. CASE ~Clouds!Parentless(SubAt(v))
        <3>1. PICK p \in Clouds!Parents(SubAt(v)) : TRUE
            BY <2>5, <2>7
        <3>2. p \in DOMAIN cloudMap /\ v \in cloudMap[p]
            BY <1>0, <2>3, <3>1 DEF GInv
        <3>3. ClassRank[p] < ClassRank[v] /\ ClassRank[p] \in Nat /\ ClassRank[v] \in Nat
            BY <1>2, <2>3, <3>2 DEF Ranked
        <3>4. p \notin Bad
            <4>1. p \in Bad => ClassRank[p] \in T
                OBVIOUS
            <4> HIDE DEF T, Bad
            <4>2. QED
                BY <2>2, <2>3, <3>3, <4>1
        <3>5. PICK r \in roots : p \in Below(cloudMap, <<r, 0>>)
            BY <3>2, <3>4 DEF Above
        <3>6. v \in Below(cloudMap, <<r, 0>>)
            BY <1>1, <1>2, <3>2, <3>5, BelowFacts
        <3>7. Above(v)
            BY <3>6 DEF Above
        <3>8. QED
            BY <2>3, <3>7
    <2>8. QED
        BY <2>6, <2>7
<1>4. \A r, s \in roots : r # s => Below(cloudMap, <<r, 0>>) \cap Below(cloudMap, <<s, 0>>) = {}
    <2>1. PICK h : h = Clouds!Hierarchy(Infos) /\ h.children = cloudMap /\ h.roots = roots
        BY GraphIsHierarchy
    <2>2. Clouds!OneCloudEach(module)
        BY <1>0, ModulesAssumption DEF UInv
    <2>3. QED
        BY <2>1, <2>2, SameGraph DEF Clouds!OneCloudEach, Infos
<1>5. QED
    BY <1>1, <1>3, <1>4

-----------------------------------------------------------------------------
(* What is derived from the graph, once all is read: ancestors are roots   *)
(* that have been walked, layout classes are ancestors, sizes are counts.  *)

\* ChildrenCount as a function of the graph and the undefined classes.
CountsOf(children, undefined) ==
    CHOOSE f : f = [v \in DOMAIN children |->
        (IF v[1] \notin undefined THEN 1 ELSE 0) + SumOver(f, children[v])]

LEMMA Counted == Clouds!ChildrenCount = CountsOf(cloudMap, undefinedVTables)
BY DEF Clouds!ChildrenCount, Clouds!isDefined, CountsOf, SumOver

Begun == walked # {} \/ DOMAIN subObjNameMap # {} \/ DOMAIN cloudSizeMap # {}

DInv ==
    /\ walked \subseteq roots
    /\ Begun => Clouds!Read
    /\ ancestorMap = [v \in DOMAIN ancestorMap |-> ancestorMap[v]]
    /\ \A r \in walked : Below(cloudMap, <<r, 0>>) \subseteq DOMAIN ancestorMap
    /\ \A v \in DOMAIN ancestorMap :
          ancestorMap[v] \in walked /\ v \in Below(cloudMap, <<ancestorMap[v], 0>>)
    /\ DOMAIN subObjNameMap # {} => walked = roots
    /\ \A c \in DOMAIN subObjNameMap : \A i \in DOMAIN parentMap[c] :
          IF parentMap[c][i] = {} THEN subObjNameMap[c][i] = c
          ELSE \E p \in parentMap[c][i] : subObjNameMap[c][i] = ancestorMap[p]
    /\ \A v \in DOMAIN cloudSizeMap :
          v \in DOMAIN cloudMap /\ cloudSizeMap[v] = CountsOf(cloudMap, undefinedVTables)[v]

LEMMA InitDerived == BuildInit => DInv
BY DEF BuildInit, Clouds!Init, Clouds!NoMap, Begun, DInv

\* Nothing is derived while the graph is read.
LEMMA ReadDerives ==
    ASSUME DInv, Clouds!ReadNode \/ Clouds!ReadSubVTable
    PROVE  DInv'
<1>1. ~Clouds!Read
    BY DEF Clouds!ReadNode, Clouds!ReadSubVTable, Clouds!Read
<1>2. /\ walked = {} /\ DOMAIN subObjNameMap = {} /\ DOMAIN cloudSizeMap = {}
      /\ DOMAIN ancestorMap = {} /\ ancestorMap = [v \in DOMAIN ancestorMap |-> ancestorMap[v]]
    BY <1>1 DEF DInv, Begun
<1>3. UNCHANGED <<walked, ancestorMap, subObjNameMap, cloudSizeMap>>
    BY DEF Clouds!ReadNode, Clouds!ReadSubVTable, Clouds!deriveVars
<1>4. QED
    BY <1>2, <1>3 DEF DInv, Begun

LEMMA AncestorsDerived ==
    ASSUME DInv, Clouds!RecordAncestors
    PROVE  DInv'
<1>1. PICK root \in roots \ walked :
          /\ walked' = walked \cup {root}
          /\ ancestorMap' = [v \in DOMAIN ancestorMap \cup Clouds!preorder(<<root, 0>>) |->
                 IF v \in DOMAIN ancestorMap THEN ancestorMap[v] ELSE root]
    BY DEF Clouds!RecordAncestors
<1>2. /\ Clouds!Read
      /\ UNCHANGED <<nodes, infoVec, cloudMap, roots, parentMap, undefinedVTables,
                     subObjNameMap, cloudSizeMap>>
    BY DEF Clouds!RecordAncestors, Clouds!readVars
<1>3. Clouds!Read'
    BY <1>2 DEF Clouds!Read
<1>4. DOMAIN subObjNameMap = {}
    BY <1>1 DEF DInv
<1>5. Clouds!preorder(<<root, 0>>) = Below(cloudMap, <<root, 0>>)
    BY SameGraph DEF Clouds!preorder
<1>6. /\ DOMAIN ancestorMap' = DOMAIN ancestorMap \cup Below(cloudMap, <<root, 0>>)
      /\ ancestorMap' = [v \in DOMAIN ancestorMap' |-> ancestorMap'[v]]
      /\ \A v \in DOMAIN ancestorMap' :
            ancestorMap'[v] = IF v \in DOMAIN ancestorMap THEN ancestorMap[v] ELSE root
    BY <1>1, <1>5
<1>7. \A r \in walked' : Below(cloudMap, <<r, 0>>) \subseteq DOMAIN ancestorMap'
    BY <1>1, <1>6 DEF DInv
<1>8. \A v \in DOMAIN ancestorMap' :
          ancestorMap'[v] \in walked' /\ v \in Below(cloudMap, <<ancestorMap'[v], 0>>)
    BY <1>1, <1>6 DEF DInv
<1>9. walked' \subseteq roots'
    BY <1>1, <1>2 DEF DInv
<1>10. QED
    BY <1>2, <1>3, <1>4, <1>6, <1>7, <1>8, <1>9 DEF DInv

LEMMA NamesDerived ==
    ASSUME DInv, Clouds!NameSubObjects
    PROVE  DInv'
<1>1. PICK class, names :
          /\ class \in DOMAIN parentMap
          /\ \A i \in DOMAIN names :
                LET parents == parentMap[class][i]
                IN  IF parents = {} THEN names[i] = class
                    ELSE \E p \in parents : names[i] = ancestorMap[p]
          /\ DOMAIN names = DOMAIN parentMap[class]
          /\ subObjNameMap' = Clouds!Put(subObjNameMap, class, names)
    BY DEF Clouds!NameSubObjects
<1>2. /\ Clouds!Read /\ walked = roots
      /\ UNCHANGED <<nodes, infoVec, cloudMap, roots, parentMap, undefinedVTables,
                     walked, ancestorMap, cloudSizeMap>>
    BY DEF Clouds!NameSubObjects, Clouds!readVars
<1>3. Clouds!Read'
    BY <1>2 DEF Clouds!Read
<1>4. \A c \in DOMAIN subObjNameMap' : \A i \in DOMAIN parentMap[c] :
          IF parentMap[c][i] = {} THEN subObjNameMap'[c][i] = c
          ELSE \E p \in parentMap[c][i] : subObjNameMap'[c][i] = ancestorMap[p]
    <2>1. \A c \in DOMAIN subObjNameMap' :
              /\ c = class => subObjNameMap'[c] = names
              /\ c # class => c \in DOMAIN subObjNameMap /\ subObjNameMap'[c] = subObjNameMap[c]
        BY <1>1 DEF Clouds!Put
    <2>2. \A i \in DOMAIN parentMap[class] :
              IF parentMap[class][i] = {} THEN names[i] = class
              ELSE \E p \in parentMap[class][i] : names[i] = ancestorMap[p]
        BY <1>1
    <2>3. \A c \in DOMAIN subObjNameMap : \A i \in DOMAIN parentMap[c] :
              IF parentMap[c][i] = {} THEN subObjNameMap[c][i] = c
              ELSE \E p \in parentMap[c][i] : subObjNameMap[c][i] = ancestorMap[p]
        BY DEF DInv
    <2>4. QED
        BY <2>1, <2>2, <2>3
<1>5. QED
    BY <1>2, <1>3, <1>4 DEF DInv

LEMMA CountsDerived ==
    ASSUME GraphInv, DInv, Clouds!calculateChildrenCounts
    PROVE  DInv'
<1> DEFINE count(v) == CountsOf(cloudMap, undefinedVTables)[v]
<1>1. PICK root \in roots :
          cloudSizeMap' = [v \in DOMAIN cloudSizeMap \cup Clouds!preorder(<<root, 0>>) |->
              IF v \in DOMAIN cloudSizeMap THEN cloudSizeMap[v] ELSE Clouds!ChildrenCount[v]]
    BY DEF Clouds!calculateChildrenCounts
<1>2. /\ Clouds!Read
      /\ UNCHANGED <<nodes, infoVec, cloudMap, roots, parentMap, undefinedVTables,
                     walked, ancestorMap, subObjNameMap>>
    BY DEF Clouds!calculateChildrenCounts, Clouds!readVars
<1>3. Clouds!Read'
    BY <1>2 DEF Clouds!Read
<1>4. Clouds!preorder(<<root, 0>>) \subseteq DOMAIN cloudMap
    <2>1. \E n \in Nat : Ranked(DOMAIN cloudMap, cloudMap, ClassRank, n)
        BY <1>2, GraphRanked
    <2>2. <<root, 0>> \in DOMAIN cloudMap
        BY <1>2, OneRootAbove
    <2>3. Clouds!preorder(<<root, 0>>) = Below(cloudMap, <<root, 0>>)
        BY SameGraph DEF Clouds!preorder
    <2>4. QED
        BY <2>1, <2>2, <2>3, BelowFacts
<1>5. \A v \in DOMAIN cloudSizeMap' : v \in DOMAIN cloudMap /\ cloudSizeMap'[v] = count(v)
    <2>1. \A v \in DOMAIN cloudSizeMap' :
              /\ v \in DOMAIN cloudSizeMap \cup Clouds!preorder(<<root, 0>>)
              /\ cloudSizeMap'[v] = IF v \in DOMAIN cloudSizeMap THEN cloudSizeMap[v] ELSE count(v)
        BY <1>1, Counted
    <2>2. \A v \in DOMAIN cloudSizeMap : v \in DOMAIN cloudMap /\ cloudSizeMap[v] = count(v)
        BY DEF DInv
    <2> HIDE DEF count
    <2>3. QED
        BY <1>4, <2>1, <2>2
<1>6. \A v \in DOMAIN cloudSizeMap' :
          v \in DOMAIN cloudMap' /\ cloudSizeMap'[v] = CountsOf(cloudMap', undefinedVTables')[v]
    BY <1>2, <1>5
<1>7. QED
    BY <1>2, <1>3, <1>6 DEF DInv

LEMMA NextDerived == GraphInv /\ DInv /\ [BuildNext]_<<vars, cloudVars>> => DInv'
<1> SUFFICES ASSUME GraphInv, DInv, [BuildNext]_<<vars, cloudVars>> PROVE DInv'
    OBVIOUS
<1>1. CASE Clouds!ReadNode \/ Clouds!ReadSubVTable
    BY <1>1, ReadDerives
<1>2. CASE Clouds!RecordAncestors
    BY <1>2, AncestorsDerived
<1>3. CASE Clouds!NameSubObjects
    BY <1>3, NamesDerived
<1>4. CASE Clouds!calculateChildrenCounts
    BY <1>4, CountsDerived
<1>5. ASSUME UNCHANGED cloudVars PROVE DInv'
    BY <1>5 DEF cloudVars, Clouds!Read, Begun, DInv
<1>6. CASE topoSort
    BY <1>5, <1>6 DEF topoSort
<1>7. QED
    BY <1>1, <1>2, <1>3, <1>4, <1>5, <1>6 DEF BuildNext, BuildDone

\* In a forest, a count is the size of what is below, of those that are defined.
LEMMA CountsAreSizes ==
    ASSUME NEW V, NEW children, NEW rank, NEW n, Ranked(V, children, rank, n),
           IsFiniteSet(V), IsForest(children), NEW undefined
    PROVE  \A v \in V : CountsOf(children, undefined)[v]
                            = Cardinality({w \in Below(children, v) : w[1] \notin undefined})
<1> DEFINE Defined(T) == {w \in T : w[1] \notin undefined}
           part == [v \in V |-> Defined(Below(children, v))]
           own(v) == IF v[1] \notin undefined THEN 1 ELSE 0
           Sum(f, v) == SumOver(f, children[v])
           Solves(f) == f = [v \in V |-> own(v) + Sum(f, v)]
           sizes == [v \in V |-> Cardinality(part[v])]
           counts == CHOOSE f : Solves(f)
<1>1. /\ children \in [V -> SUBSET V] /\ n \in Nat /\ DOMAIN children = V
      /\ \A v \in V : rank[v] \in 1..n
      /\ \A v \in V : \A c \in children[v] : rank[v] < rank[c]
    BY DEF Ranked
<1>2. counts = CountsOf(children, undefined)
    BY <1>1 DEF CountsOf
<1>3. \A v \in V : part[v] \subseteq V /\ IsFiniteSet(part[v])
    <2>1. \A v \in V : part[v] \subseteq V
        BY BelowFacts
    <2> HIDE DEF part
    <2>2. QED
        BY <2>1, FS_Subset
<1>4. ASSUME NEW v \in V, NEW f, \A c \in children[v] : f[c] = Cardinality(part[c])
      PROVE  own(v) + Sum(f, v) = Cardinality(part[v])
    <2> DEFINE S == children[v]
               All == UNION {part[c] : c \in S}
    <2>1. S \subseteq V /\ IsFiniteSet(S) /\ \A c \in S : IsFiniteSet(part[c])
        <3>1. S \subseteq V
            BY <1>1
        <3> HIDE DEF S, part
        <3>2. IsFiniteSet(S) /\ \A c \in S : IsFiniteSet(part[c])
            BY <1>3, <3>1, FS_Subset
        <3>3. QED
            BY <3>1, <3>2
    <2>2. \A c, d \in S : c # d => part[c] \cap part[d] = {}
        <3>1. \A c, d \in S : c # d => Below(children, c) \cap Below(children, d) = {}
            BY SiblingsDisjoint
        <3>2. QED
            BY <2>1, <3>1
    <2>3. part[v] = Defined({v}) \cup All
        <3>1. Below(children, v) = {v} \cup UNION {Below(children, c) : c \in S}
            BY <1>1, BelowUnfolds
        <3>2. Defined(Below(children, v)) = Defined({v}) \cup UNION {Defined(Below(children, c)) : c \in S}
            BY <3>1
        <3>3. {part[c] : c \in S} = {Defined(Below(children, c)) : c \in S}
            BY <2>1
        <3>4. part[v] = Defined(Below(children, v))
            OBVIOUS
        <3> HIDE DEF part, Defined
        <3>5. QED
            BY <3>2, <3>3, <3>4
    <2>4. Defined({v}) \cap All = {}
        <3>1. \A c \in S : v \notin Below(children, c)
            BY NotBelowChild
        <3>2. QED
            BY <2>1, <3>1
    <2>5. Sum(f, v) = Cardinality(All)
        <3> HIDE DEF part
        <3>1. \A c \in S : f[c] = Cardinality(part[c])
            BY <1>4
        <3> HIDE DEF S
        <3>2. SumOver(f, S) = Cardinality(UNION {part[c] : c \in S})
            BY <2>1, <2>2, <3>1, SizesAddUp
        <3>3. QED
            BY <3>2 DEF S
    <2>6. IsFiniteSet(Defined({v})) /\ Cardinality(Defined({v})) = own(v) /\ own(v) \in Nat
        <3>1. Defined({v}) = IF v[1] \notin undefined THEN {v} ELSE {}
            OBVIOUS
        <3> HIDE DEF Defined
        <3>2. QED
            BY <3>1, FS_EmptySet, FS_Singleton
    <2>7. IsFiniteSet(All)
        <3>1. All \subseteq part[v]
            BY <2>3
        <3> HIDE DEF All, part
        <3>2. QED
            BY <1>3, <3>1, FS_Subset
    <2> HIDE DEF All, Defined, own, part, Sum
    <2>8. Cardinality(Defined({v}) \cup All)
              = Cardinality(Defined({v})) + Cardinality(All) - Cardinality(Defined({v}) \cap All)
        BY <2>6, <2>7, FS_Union
    <2>9. Cardinality(All) \in Nat /\ Cardinality({}) = 0
        BY <2>7, FS_CardinalityType, FS_EmptySet
    <2>10. PICK a, b \in Nat : a = own(v) /\ b = Cardinality(All)
        BY <2>6, <2>9
    <2>11. Cardinality(part[v]) = a + b - 0
        BY <2>3, <2>4, <2>6, <2>8, <2>9, <2>10
    <2>12. QED
        BY <2>5, <2>10, <2>11
<1> HIDE DEF part, own, Sum
<1>5. Solves(sizes)
    <2>1. ASSUME NEW v \in V PROVE sizes[v] = own(v) + Sum(sizes, v)
        <3>1. \A c \in children[v] : sizes[c] = Cardinality(part[c])
            BY <1>1
        <3> HIDE DEF sizes
        <3>2. own(v) + Sum(sizes, v) = Cardinality(part[v])
            BY <1>4, <3>1
        <3>3. QED
            BY <3>2 DEF sizes
    <2>2. sizes = [v \in V |-> sizes[v]]
        OBVIOUS
    <2> HIDE DEF sizes
    <2>3. QED
        BY <2>1, <2>2
<1>6. Solves(counts)
    <2> HIDE DEF Solves, sizes
    <2>1. QED
        BY <1>5
<1>7. \A v \in V : counts[v] = own(v) + Sum(counts, v)
    <2> HIDE DEF counts
    <2>1. QED
        BY <1>6
<1> HIDE DEF counts, Solves, sizes
<1>8. \A v \in V : counts[v] = Cardinality(part[v])
    <2> DEFINE Bad == {v \in V : counts[v] # Cardinality(part[v])}
               R == {rank[v] : v \in Bad}
    <2> SUFFICES ASSUME Bad # {} PROVE FALSE
        OBVIOUS
    <2>1. R \subseteq 1..n /\ R # {}
        BY <1>1
    <2>2. PICK r \in R : \A x \in R : x <= r
        <3> HIDE DEF R
        <3>1. QED
            BY <1>1, <2>1, Greatest
    <2>3. PICK v \in Bad : rank[v] = r
        OBVIOUS
    <2>4. ASSUME NEW c \in children[v], counts[c] # Cardinality(part[c]) PROVE FALSE
        <3>1. c \in Bad /\ rank[c] \in R /\ rank[v] < rank[c] /\ rank[v] \in 1..n /\ rank[c] \in 1..n
            BY <1>1, <2>3, <2>4
        <3> HIDE DEF Bad, R
        <3>2. rank[c] <= rank[v]
            BY <2>2, <2>3, <3>1
        <3>3. QED
            BY <3>1, <3>2
    <2>5. own(v) + Sum(counts, v) = Cardinality(part[v])
        BY <1>4, <2>4
    <2>6. QED
        BY <1>7, <2>3, <2>5
<1>9. \A v \in V : part[v] = {w \in Below(children, v) : w[1] \notin undefined}
    BY DEF part
<1>10. QED
    BY <1>2, <1>8, <1>9

\* What has been kept of a vtable is what its info says.
LEMMA RecordedAt ==
    ASSUME GraphInv, Clouds!Read, NEW v \in DOMAIN cloudMap
    PROVE  /\ v[1] \in DOMAIN parentMap /\ v[2] + 1 \in DOMAIN parentMap[v[1]]
           /\ parentMap[v[1]][v[2] + 1] = Clouds!Parents(SubAt(v))
           /\ addrPtMap[v[1]][v[2] + 1] = SubAt(v).addressPoint
           /\ rangeMap[v[1]][v[2] + 1] = <<SubAt(v).start, SubAt(v).end>>
<1>0. UInv /\ CInv /\ RInv /\ DOMAIN cloudMap = HasBeenRead /\ HasBeenRead = Described
      /\ Infos = Clouds!InfosRead(module)
    BY AllRead, OneInfo DEF GraphInv
<1>1. v[1] \in DOMAIN parentMap /\ v[1] \in DOMAIN rangeMap
    BY <1>0 DEF CInv, RInv
<1>2. PICK info \in Clouds!InfosRead(module) : Recorded(v[1], info, Len(info.subVTables))
    BY <1>0, <1>1 DEF RInv, IsRead, Clouds!Read
<1>3. PICK other \in Infos : \E k \in 1..Len(other.subVTables) :
          /\ v = <<other.className, k - 1>> /\ v[1] = other.className /\ v[2] + 1 = k
          /\ SubAt(v) = other.subVTables[k]
    BY <1>0, DescribedAt
<1>4. other = info
    BY <1>0, <1>2, <1>3, OneInfo DEF Recorded
<1>5. PICK k \in 1..Len(info.subVTables) : v[2] + 1 = k /\ SubAt(v) = info.subVTables[k]
    BY <1>3, <1>4
<1>6. Len(info.subVTables) \in Nat
    BY <1>0, <1>2, ModulesAssumption DEF UInv, Clouds!WellLinked
<1>7. PICK n \in Nat : n = Len(info.subVTables)
    BY <1>6
<1>8. /\ Extents(info) \in Seq({Extents(info)[i] : i \in DOMAIN Extents(info)})
      /\ Points(info) \in Seq({Points(info)[i] : i \in DOMAIN Points(info)})
      /\ Ups(info) \in Seq({Ups(info)[i] : i \in DOMAIN Ups(info)})
      /\ Len(Extents(info)) = n /\ Len(Points(info)) = n /\ Len(Ups(info)) = n
      /\ Extents(info)[k] = <<info.subVTables[k].start, info.subVTables[k].end>>
      /\ Points(info)[k] = info.subVTables[k].addressPoint
      /\ Ups(info)[k] = Clouds!Parents(info.subVTables[k])
    BY <1>7, InfoSequences
<1>9. rangeMap[v[1]] = Extents(info) /\ addrPtMap[v[1]] = Points(info) /\ parentMap[v[1]] = Ups(info)
    BY <1>2, <1>7, <1>8, PrefixEnds DEF Recorded
<1>10. k \in DOMAIN Ups(info)
    BY DEF Ups
<1>11. QED
    BY <1>1, <1>5, <1>8, <1>9, <1>10

\* A vtable is below the root that is recorded for it and below no other.
LEMMA AncestorsAre ==
    ASSUME GraphInv, DInv, Clouds!Read, walked = roots
    PROVE  /\ ancestorMap = [v \in DOMAIN cloudMap |->
                                CHOOSE r \in roots : v \in Below(cloudMap, <<r, 0>>)]
           /\ \A v \in DOMAIN cloudMap :
                 ancestorMap[v] \in roots /\ v \in Below(cloudMap, <<ancestorMap[v], 0>>)
<1>1. /\ \A r \in roots : <<r, 0>> \in DOMAIN cloudMap
      /\ \A v \in DOMAIN cloudMap : \E r \in roots : v \in Below(cloudMap, <<r, 0>>)
      /\ \A r, s \in roots : r # s =>
            Below(cloudMap, <<r, 0>>) \cap Below(cloudMap, <<s, 0>>) = {}
    BY OneRootAbove
<1>2. \A r \in roots : Below(cloudMap, <<r, 0>>) \subseteq DOMAIN cloudMap
    <2>1. \E n \in Nat : Ranked(DOMAIN cloudMap, cloudMap, ClassRank, n)
        BY GraphRanked
    <2>2. QED
        BY <1>1, <2>1, BelowFacts
<1>3. /\ ancestorMap = [v \in DOMAIN ancestorMap |-> ancestorMap[v]]
      /\ \A r \in roots : Below(cloudMap, <<r, 0>>) \subseteq DOMAIN ancestorMap
      /\ \A v \in DOMAIN ancestorMap :
            ancestorMap[v] \in roots /\ v \in Below(cloudMap, <<ancestorMap[v], 0>>)
    BY DEF DInv
<1>4. DOMAIN ancestorMap = DOMAIN cloudMap
    BY <1>1, <1>2, <1>3
<1>5. ASSUME NEW v \in DOMAIN cloudMap
      PROVE  ancestorMap[v] = CHOOSE r \in roots : v \in Below(cloudMap, <<r, 0>>)
    <2> DEFINE a == CHOOSE r \in roots : v \in Below(cloudMap, <<r, 0>>)
    <2>1. a \in roots /\ v \in Below(cloudMap, <<a, 0>>)
        BY <1>1
    <2> HIDE DEF a
    <2>2. a = ancestorMap[v]
        BY <1>1, <1>3, <1>4, <2>1
    <2>3. QED
        BY <2>2 DEF a
<1>6. QED
    BY <1>3, <1>4, <1>5

LEMMA CloudsHold == GraphInv /\ DInv => CloudsAreHierarchy
<1> SUFFICES ASSUME GraphInv, DInv PROVE CloudsAreHierarchy
    OBVIOUS
<1>0. PICK h : h = Clouds!Hierarchy(Infos)
    OBVIOUS
<1> DEFINE q == Clouds!LayoutQueries(Infos)
           Ancestor(v) == CHOOSE r \in roots : v \in Below(cloudMap, <<r, 0>>)
<1>1. ASSUME Clouds!Read
      PROVE  /\ h.vtables = DOMAIN cloudMap /\ DOMAIN cloudMap = HasBeenRead
             /\ h.children = cloudMap /\ h.roots = roots /\ h.classes = DOMAIN parentMap
             /\ \A v \in DOMAIN cloudMap :
                   /\ vTableFunctionMap[v] = SubAt(v).functions
                   /\ parentMap[v[1]][v[2] + 1] = Clouds!ParentsIn(Infos, v)
    <2>1. /\ h.vtables = DOMAIN cloudMap /\ DOMAIN cloudMap = HasBeenRead
          /\ h.children = cloudMap /\ h.roots = roots /\ h.classes = DOMAIN parentMap
        BY <1>0, <1>1, GraphIsHierarchy
    <2>2. \A v \in HasBeenRead : vTableFunctionMap[v] = SubAt(v).functions
        BY DEF GraphInv, GInv
    <2>3. \A v \in DOMAIN cloudMap : parentMap[v[1]][v[2] + 1] = Clouds!ParentsIn(Infos, v)
        BY <1>1, RecordedAt DEF Clouds!ParentsIn, SubAt
    <2>4. QED
        BY <2>1, <2>2, <2>3
<1>2. ASSUME Clouds!Finished
      PROVE  /\ q.ancestor = ancestorMap /\ q.children = cloudMap
             /\ \A v \in DOMAIN cloudMap :
                   /\ q.layoutClass[v] = subObjNameMap[v[1]][v[2] + 1]
                   /\ q.addrPt[v] = addrPtMap[v[1]][v[2] + 1]
                   /\ q.range[v] = rangeMap[v[1]][v[2] + 1]
    <2>1. Clouds!Read /\ walked = roots /\ DOMAIN subObjNameMap = DOMAIN parentMap
        BY <1>2 DEF Clouds!Finished
    <2>2. h.vtables = DOMAIN cloudMap /\ h.children = cloudMap /\ h.roots = roots
        BY <1>1, <2>1
    <2>3. /\ q.children = cloudMap
          /\ q.ancestor = [v \in DOMAIN cloudMap |-> Ancestor(v)]
          /\ q.layoutClass = [v \in DOMAIN cloudMap |->
                 IF Clouds!ParentsIn(Infos, v) = {} THEN v[1]
                 ELSE Ancestor(CHOOSE p \in Clouds!ParentsIn(Infos, v) : TRUE)]
          /\ q.addrPt = [v \in DOMAIN cloudMap |-> SubAt(v).addressPoint]
          /\ q.range = [v \in DOMAIN cloudMap |-> <<SubAt(v).start, SubAt(v).end>>]
        <3> DEFINE RootOver(v) == CHOOSE r \in h.roots : v \in Clouds!Below(h.children, <<r, 0>>)
        <3>1. /\ q.children = h.children
              /\ q.ancestor = [v \in h.vtables |-> RootOver(v)]
              /\ q.layoutClass = [v \in h.vtables |->
                     IF Clouds!ParentsIn(Infos, v) = {} THEN v[1]
                     ELSE RootOver(CHOOSE p \in Clouds!ParentsIn(Infos, v) : TRUE)]
              /\ q.addrPt = [v \in h.vtables |-> SubAt(v).addressPoint]
              /\ q.range = [v \in h.vtables |-> <<SubAt(v).start, SubAt(v).end>>]
            BY <1>0 DEF Clouds!LayoutQueries, SubAt
        <3>2. \A v : RootOver(v) = Ancestor(v)
            BY <2>2, SameGraph
        <3> HIDE DEF q, RootOver, Ancestor
        <3>3. QED
            BY <2>2, <3>1, <3>2
    <2>4. /\ ancestorMap = [v \in DOMAIN cloudMap |-> Ancestor(v)]
          /\ \A v \in DOMAIN cloudMap :
                ancestorMap[v] \in roots /\ v \in Below(cloudMap, <<ancestorMap[v], 0>>)
        BY <2>1, AncestorsAre
    <2> HIDE DEF q, Ancestor
    <2>5. ASSUME NEW v \in DOMAIN cloudMap
          PROVE  q.layoutClass[v] = subObjNameMap[v[1]][v[2] + 1]
        <3> DEFINE ups == Clouds!ParentsIn(Infos, v)
                   name == subObjNameMap[v[1]][v[2] + 1]
        <3>1. ups = parentMap[v[1]][v[2] + 1] /\ ups = Clouds!Parents(SubAt(v))
            BY <1>1, <2>1 DEF Clouds!ParentsIn, SubAt
        <3>2. IF ups = {} THEN name = v[1] ELSE \E p \in ups : name = ancestorMap[p]
            BY <2>1, <3>1, RecordedAt DEF DInv
        <3>3. \A p \in ups : p \in DOMAIN cloudMap /\ v \in cloudMap[p]
            BY <1>1, <2>1, <3>1 DEF GraphInv, GInv
        <3>4. \A p \in ups : ancestorMap[p] = ancestorMap[v]
            <4> SUFFICES ASSUME NEW p \in ups PROVE ancestorMap[p] = ancestorMap[v]
                OBVIOUS
            <4> HIDE DEF ups
            <4>1. ancestorMap[p] \in roots /\ p \in Below(cloudMap, <<ancestorMap[p], 0>>)
                BY <2>4, <3>3
            <4>2. v \in Below(cloudMap, <<ancestorMap[p], 0>>)
                <5>1. \E n \in Nat : Ranked(DOMAIN cloudMap, cloudMap, ClassRank, n)
                    BY <2>1, GraphRanked
                <5>2. <<ancestorMap[p], 0>> \in DOMAIN cloudMap
                    BY <2>1, <4>1, OneRootAbove
                <5>3. QED
                    BY <3>3, <4>1, <5>1, <5>2, BelowFacts
            <4>3. QED
                BY <2>1, <2>4, <4>1, <4>2, OneRootAbove
        <3>5. q.layoutClass[v] = IF ups = {} THEN v[1] ELSE Ancestor(CHOOSE p \in ups : TRUE)
            BY <2>3
        <3> HIDE DEF ups, name
        <3>6. CASE ups = {}
            BY <3>2, <3>5, <3>6 DEF name
        <3>7. CASE ups # {}
            <4>1. PICK p : p = CHOOSE x \in ups : TRUE
                OBVIOUS
            <4>2. p \in ups
                BY <3>7, <4>1
            <4>3. Ancestor(p) = ancestorMap[p]
                BY <2>4, <3>3, <4>2
            <4>4. QED
                BY <3>2, <3>4, <3>5, <3>7, <4>1, <4>2, <4>3 DEF name
        <3>8. QED
            BY <3>6, <3>7
    <2>6. ASSUME NEW v \in DOMAIN cloudMap
          PROVE  /\ q.addrPt[v] = addrPtMap[v[1]][v[2] + 1]
                 /\ q.range[v] = rangeMap[v[1]][v[2] + 1]
        BY <2>1, <2>3, RecordedAt
    <2>7. QED
        BY <2>3, <2>4, <2>5, <2>6
<1>3. Clouds!ForestSizes
    <2> SUFFICES ASSUME Clouds!IsForest(cloudMap), NEW v \in DOMAIN cloudSizeMap
                 PROVE  cloudSizeMap[v]
                            = Clouds!Cardinality({w \in Clouds!preorder(v) : Clouds!isDefined(w)})
        BY DEF Clouds!ForestSizes, Clouds!CloudSizesAreCloudSizes
    <2>1. Clouds!Read /\ v \in DOMAIN cloudMap
          /\ cloudSizeMap[v] = CountsOf(cloudMap, undefinedVTables)[v]
        BY DEF DInv, Begun
    <2>2. IsFiniteSet(DOMAIN cloudMap) /\ IsForest(cloudMap)
          /\ \E n \in Nat : Ranked(DOMAIN cloudMap, cloudMap, ClassRank, n)
        BY <2>1, GraphRanked, SameGraph
    <2>3. CountsOf(cloudMap, undefinedVTables)[v]
              = Cardinality({w \in Below(cloudMap, v) : w[1] \notin undefinedVTables})
        BY <2>1, <2>2, CountsAreSizes
    <2>4. {w \in Clouds!preorder(v) : Clouds!isDefined(w)}
              = {w \in Below(cloudMap, v) : w[1] \notin undefinedVTables}
        BY SameGraph DEF Clouds!preorder, Clouds!isDefined
    <2>5. QED
        BY <2>1, <2>3, <2>4, SameSizes
<1>4. QED
    <2>1. Clouds!Read => HasBeenRead = DOMAIN vTableFunctionMap
        BY DEF HasBeenRead
    <2> HIDE DEF q
    <2>2. q = Clouds!LayoutQueries(Infos)
        BY DEF q
    <2>3. QED
        BY <1>0, <1>1, <1>2, <1>3, <2>1, <2>2 DEF CloudsAreHierarchy, Clouds!CloudsAreHierarchy, Infos, SubAt

\* The clouds are the class hierarchy, in every linked module that a class has
\* one info in and that is laid out below one root each: the graph, the roots
\* and the functions, then the ancestors, layout classes and extents that the
\* layout passes ask for, and the sizes where no vtable has two parents.
THEOREM CloudsAreTheHierarchy == BuildSpec => []CloudsAreHierarchy
<1>1. BuildInit => UInv /\ CInv /\ RInv /\ GInv /\ DInv
    BY InitUndefined, InitBuild, InitRecorded, InitGraph, InitDerived DEF BInv
<1>2. BInv /\ RInv /\ GInv /\ DInv /\ [BuildNext]_<<vars, cloudVars>> => RInv' /\ GInv' /\ DInv'
    <2>1. BInv /\ RInv /\ GInv => GraphInv
        BY DEF BInv, GraphInv
    <2>2. QED
        BY <2>1, NextRecorded, NextGraph, NextDerived DEF GraphInv
<1>3. BInv /\ RInv /\ GInv /\ DInv => CloudsAreHierarchy
    BY CloudsHold DEF BInv, GraphInv
<1>4. QED
    BY <1>1, <1>2, <1>3, AlwaysBuilt, PTL DEF BuildSpec
=============================================================================
