-------------------------- MODULE VptrChecksProofs --------------------------
(***************************************************************************)
(* The new vtables and the checks of virtual calls, for every class graph  *)
(* and every set of call sites: ranges are what derives from a vtable, the *)
(* layout is what verifyNewLayouts asserts, slots and thunks keep their    *)
(* offsets, and when clouds are interleaved legal calls pass and other     *)
(* address points are trapped. The steps, each a section:                  *)
(*                                                                         *)
(*   sorted sets, well-founded measures, recursive functions;              *)
(*   the preorder of a cloud, as the solution of preorderHelper's loop;    *)
(*   ranges, merged;  the invariant RangesInv;                             *)
(*   slots and rows;  the interleaved layout;  the layout in order;        *)
(*   the new indices;  LayoutsDone, what verifyNewLayouts finds;           *)
(*   EmitsDone, MemDone, the linker, and SitesDone: ChecksInv;             *)
(*   what a call site checks, reads and lets pass; thunks.                 *)
(***************************************************************************)
EXTENDS FiniteSetTheorems, VptrChecks, SequenceLemmas, TLAPS

-----------------------------------------------------------------------------
(* Sets in an order.                                                       *)

\* The pairs put the elements of S in an order.
Orders(before, S) ==
    /\ \A x \in S : <<x, x>> \notin before
    /\ \A x, y \in S : x # y => <<x, y>> \in before \/ <<y, x>> \in before
    /\ \A x, y, z \in S : <<x, y>> \in before /\ <<y, z>> \in before => <<x, z>> \in before

Preceding(S, before, x) == {y \in S : <<y, x>> \in before}

\* A set that is sorted is listed once and in order.
LEMMA SortedLists ==
    ASSUME NEW S, IsFiniteSet(S), NEW before, Orders(before, S)
    PROVE  /\ Cardinality(S) \in Nat
           /\ Sorted(S, before) \in [1..Cardinality(S) -> S]
           /\ \A x \in S : \E i \in 1..Cardinality(S) : Sorted(S, before)[i] = x
           /\ \A i \in 1..Cardinality(S) :
                 /\ IsFiniteSet(Preceding(S, before, Sorted(S, before)[i]))
                 /\ Cardinality(Preceding(S, before, Sorted(S, before)[i])) = i - 1
           /\ \A i, j \in 1..Cardinality(S) :
                 i < j <=> <<Sorted(S, before)[i], Sorted(S, before)[j]>> \in before
           /\ \A i, j \in 1..Cardinality(S) : Sorted(S, before)[i] = Sorted(S, before)[j] => i = j
<1> DEFINE n == Cardinality(S)
           P(x) == Preceding(S, before, x)
           place == [x \in S |-> Cardinality(P(x))]
           s == Sorted(S, before)
<1>1. n \in Nat
    BY FS_CardinalityType
<1>2. ASSUME NEW x \in S PROVE IsFiniteSet(P(x)) /\ P(x) \subseteq S \ {x} /\ place[x] \in 0..(n - 1)
    <2>1. IsFiniteSet(S \ {x}) /\ Cardinality(S \ {x}) = n - 1
        BY FS_RemoveElement
    <2>2. P(x) \subseteq S \ {x}
        BY DEF Preceding, Orders
    <2>3. IsFiniteSet(P(x)) /\ Cardinality(P(x)) <= n - 1
        BY <2>1, <2>2, FS_Subset
    <2>4. Cardinality(P(x)) \in Nat
        BY <2>3, FS_CardinalityType
    <2>5. place[x] = Cardinality(P(x))
        OBVIOUS
    <2>6. QED
        BY <1>1, <2>2, <2>3, <2>4, <2>5
<1>3. ASSUME NEW x \in S, NEW y \in S, <<x, y>> \in before PROVE place[x] < place[y]
    <2>1. x \notin P(x)
        BY <1>2
    <2>2. P(x) \cup {x} \subseteq P(y)
        BY <1>3 DEF Preceding, Orders
    <2>3. Cardinality(P(x) \cup {x}) = Cardinality(P(x)) + 1
        BY <1>2, <2>1, FS_AddElement
    <2>4. Cardinality(P(x) \cup {x}) <= Cardinality(P(y))
        BY <1>2, <2>2, FS_Subset
    <2>5. place[x] = Cardinality(P(x)) /\ place[y] = Cardinality(P(y))
        OBVIOUS
    <2>6. place[x] \in Nat /\ place[y] \in Nat
        BY <1>1, <1>2
    <2>7. QED
        BY <2>3, <2>4, <2>5, <2>6
<1>4. place \in [S -> 0..(n - 1)]
    <2>1. \A x \in S : place[x] \in 0..(n - 1)
        BY <1>2
    <2>2. place = [x \in S |-> place[x]]
        OBVIOUS
    <2> HIDE DEF place
    <2>3. QED
        BY <2>1, <2>2
<1>5. \A x, y \in S : place[x] = place[y] => x = y
    <2> SUFFICES ASSUME NEW x \in S, NEW y \in S, x # y PROVE place[x] # place[y]
        OBVIOUS
    <2>1. <<x, y>> \in before \/ <<y, x>> \in before
        BY DEF Orders
    <2>2. place[x] < place[y] \/ place[y] < place[x]
        BY <1>3, <2>1
    <2>3. place[x] \in Int /\ place[y] \in Int
        BY <1>2
    <2>4. QED
        BY <2>2, <2>3
<1>6. \A i \in 0..(n - 1) : \E x \in S : place[x] = i
    <2>1. place \in Injection(S, 0..(n - 1))
        <3> HIDE DEF place
        <3>1. QED
            BY <1>4, <1>5 DEF Injection, IsInjective
    <2>2. IsFiniteSet(0..(n - 1)) /\ Cardinality(0..(n - 1)) = n
        BY <1>1, FS_Interval
    <2>3. place \in Surjection(S, 0..(n - 1))
        <3> HIDE DEF place
        <3>1. QED
            BY <2>1, <2>2, FS_Injection
    <2>4. QED
        <3> HIDE DEF place
        <3>1. QED
            BY <2>3 DEF Surjection
<1>7. s = [i \in 1..n |-> CHOOSE x \in S : place[x] = i - 1]
    BY DEF Sorted, Preceding
<1>8. \A i \in 1..n : s[i] \in S /\ place[s[i]] = i - 1
    <2> HIDE DEF place, s
    <2> TAKE i \in 1..n
    <2>1. i - 1 \in 0..(n - 1)
        BY <1>1
    <2>2. \E x \in S : place[x] = i - 1
        BY <1>6, <2>1
    <2>3. QED
        BY <1>7, <2>2
<1>9. s \in [1..n -> S]
    <2> HIDE DEF place, s
    <2>1. s = [i \in 1..n |-> s[i]]
        BY <1>7
    <2>2. QED
        BY <1>8, <2>1
<1>10. \A i \in 1..n : IsFiniteSet(P(s[i])) /\ Cardinality(P(s[i])) = i - 1
    <2> TAKE i \in 1..n
    <2>1. s[i] \in S /\ place[s[i]] = i - 1
        BY <1>8
    <2>2. \A x \in S : place[x] = Cardinality(P(x))
        OBVIOUS
    <2> HIDE DEF place, s, P
    <2>3. QED
        BY <1>2, <2>1, <2>2
<1> HIDE DEF place, s, P
<1>11. \A x \in S : \E i \in 1..n : s[i] = x
    <2> TAKE x \in S
    <2>1. place[x] \in 0..(n - 1)
        BY <1>4
    <2>2. PICK i \in 1..n : i - 1 = place[x]
        <3>1. place[x] + 1 \in 1..n /\ (place[x] + 1) - 1 = place[x]
            BY <1>1, <2>1
        <3>2. QED
            BY <3>1
    <2>3. s[i] = x
        BY <1>5, <1>8, <2>2
    <2>4. QED
        BY <2>3
<1>12. \A i, j \in 1..n : s[i] = s[j] => i = j
    <2> TAKE i, j \in 1..n
    <2>1. i \in Int /\ j \in Int /\ place[s[i]] = i - 1 /\ place[s[j]] = j - 1
        BY <1>1, <1>8
    <2>2. QED
        BY <2>1
<1>13. \A i, j \in 1..n : i < j <=> <<s[i], s[j]>> \in before
    <2> TAKE i, j \in 1..n
    <2>1. i \in Int /\ j \in Int /\ s[i] \in S /\ s[j] \in S /\ place[s[i]] = i - 1 /\ place[s[j]] = j - 1
        BY <1>1, <1>8
    <2>2. <<s[i], s[j]>> \in before => i - 1 < j - 1
        BY <1>3, <2>1
    <2>3. <<s[j], s[i]>> \in before => j - 1 < i - 1
        BY <1>3, <2>1
    <2>4. i # j => s[i] # s[j]
        BY <1>12
    <2>5. s[i] # s[j] => <<s[i], s[j]>> \in before \/ <<s[j], s[i]>> \in before
        BY <2>1 DEF Orders
    <2>6. QED
        BY <2>1, <2>2, <2>3, <2>4, <2>5
<1>14. QED
    BY <1>1, <1>9, <1>10, <1>11, <1>12, <1>13 DEF s, P

\* Counting up to n.
LEMMA CountUp ==
    ASSUME NEW n \in Nat, NEW T, 0 \in T, \A i \in 1..n : i - 1 \in T => i \in T
    PROVE  \A i \in 0..n : i \in T
<1> DEFINE B == {i \in 0..n : i \notin T}
<1> SUFFICES ASSUME B # {} PROVE FALSE
    OBVIOUS
<1>1. PICK i \in B : \A j \in B : i <= j
    <2>1. B \subseteq Nat
        OBVIOUS
    <2> HIDE DEF B
    <2>2. QED
        BY <2>1, Least
<1>2. i \in 1..n
    BY <1>1
<1>3. i - 1 \notin B
    <2>1. i \in Int /\ ~(i <= i - 1)
        BY <1>2
    <2> HIDE DEF B
    <2>2. QED
        BY <1>1, <2>1
<1>4. QED
    BY <1>1, <1>2, <1>3

\* A recursion from one number to the next, up to n, and what solves it.
Steps(n, R, a, H) == n \in Nat /\ a \in R /\ \A i \in 1..n : \A x \in R : H[i][x] \in R
Stepped(n, a, H, f) == f[0] = a /\ \A i \in 1..n : f[i] = H[i][f[i - 1]]

\* A recursive function over 0..n, each value from the one before, has a
\* solution.
LEMMA StepsHaveSolution ==
    ASSUME NEW n, NEW R, NEW a, NEW H, Steps(n, R, a, H)
    PROVE  \E f \in [0..n -> R] : Stepped(n, a, H, f)
<1>0. n \in Nat /\ a \in R /\ \A i \in 1..n : \A x \in R : H[i][x] \in R
    BY DEF Steps
<1> DEFINE S == 0..n
           M == [i \in S |-> i]
           Body(i, h) == IF i = 0 THEN a ELSE H[i][h[i - 1]]
           G == [i \in S |-> [h \in [Under(S, M, i) -> R] |-> Body(i, h)]]
<1>1. \A i \in S : i # 0 => i \in 1..n /\ i - 1 \in Under(S, M, i)
    <2>1. \A i \in S : i # 0 => i \in 1..n /\ i - 1 \in S /\ i - 1 < i
        BY <1>0
    <2>2. \A i \in S : M[i] = i
        OBVIOUS
    <2> HIDE DEF S, M
    <2>3. QED
        BY <2>1, <2>2 DEF Under
<1>2. Recursion(S, R, M, G)
    <2>1. M \in [S -> Nat]
        OBVIOUS
    <2>2. ASSUME NEW i \in S, NEW h \in [Under(S, M, i) -> R] PROVE G[i][h] \in R
        <3>1. G[i][h] = Body(i, h)
            OBVIOUS
        <3>2. Body(i, h) \in R
            <4> HIDE DEF S, M
            <4>1. QED
                BY <1>0, <1>1
        <3>3. QED
            BY <3>1, <3>2
    <2> HIDE DEF S, M, G
    <2>3. QED
        BY <2>1, <2>2 DEF Recursion
<1>3. PICK f \in [S -> R] : Follows(S, S, M, G, f)
    <2> HIDE DEF S, M, G
    <2>1. QED
        BY <1>2, RecursionHasSolution
<1>4. ASSUME NEW i \in S PROVE f[i] = Body(i, f)
    <2> DEFINE h == [y \in Under(S, M, i) |-> f[y]]
    <2>1. f[i] = G[i][h]
        BY <1>3 DEF Follows
    <2>2. h \in [Under(S, M, i) -> R]
        <3> HIDE DEF S, M
        <3>1. QED
            BY <1>3 DEF Under
    <2>3. G[i][h] = Body(i, h)
        <3> HIDE DEF h
        <3>1. QED
            BY <2>2
    <2>4. Body(i, h) = Body(i, f)
        <3>1. \A y \in Under(S, M, i) : h[y] = f[y]
            OBVIOUS
        <3> HIDE DEF S, M, h
        <3>2. QED
            BY <1>1, <3>1
    <2>5. QED
        BY <2>1, <2>3, <2>4
<1>5. f[0] = a /\ \A i \in 1..n : f[i] = H[i][f[i - 1]]
    <2>1. 0 \in S /\ \A i \in 1..n : i \in S /\ i # 0
        BY <1>0
    <2>2. QED
        BY <1>4, <2>1
<1>6. QED
    BY <1>3, <1>5 DEF Stepped

\* What is sorted by its own listing.
LEMMA SortedIsOnly ==
    ASSUME NEW S, NEW before, Orders(before, S), NEW m \in Nat, NEW f \in [1..m -> S],
           \A x \in S : \E i \in 1..m : f[i] = x,
           \A i, j \in 1..m : i < j => <<f[i], f[j]>> \in before
    PROVE  IsFiniteSet(S) /\ Cardinality(S) = m /\ Sorted(S, before) = f
<1>1. \A i, j \in 1..m : f[i] = f[j] => i = j
    <2> SUFFICES ASSUME NEW i \in 1..m, NEW j \in 1..m, i < j, f[i] = f[j] PROVE FALSE
        <3>1. \A i, j \in 1..m : i # j => i < j \/ j < i
            OBVIOUS
        <3>2. QED
            BY <3>1
    <2>1. f[i] \in S
        OBVIOUS
    <2>2. QED
        BY <2>1 DEF Orders
<1>2. f \in Bijection(1..m, S)
    BY <1>1 DEF Bijection, Injection, Surjection, IsInjective
<1>3. IsFiniteSet(S) /\ Cardinality(S) = m
    <2>1. ExistsBijection(1..m, S)
        BY <1>2 DEF ExistsBijection
    <2>2. QED
        BY <2>1, FS_CountingElements, FS_NatBijection
<1>4. ASSUME NEW i \in 1..m
      PROVE  Cardinality(Preceding(S, before, f[i])) = i - 1
    <2> DEFINE P == Preceding(S, before, f[i])
               g == [k \in 1..(i - 1) |-> f[k]]
    <2>1. \A k \in 1..m : f[k] \in P <=> k < i
        <3> TAKE k \in 1..m
        <3>1. k < i => f[k] \in P
            BY DEF Preceding
        <3>2. k = i => f[k] \notin P
            BY DEF Preceding, Orders
        <3>3. i < k => f[k] \notin P
            <4> SUFFICES ASSUME i < k, <<f[k], f[i]>> \in before PROVE FALSE
                BY DEF Preceding
            <4>1. <<f[i], f[k]>> \in before /\ f[i] \in S /\ f[k] \in S
                OBVIOUS
            <4>2. QED
                BY <4>1 DEF Orders
        <3>4. QED
            BY <3>1, <3>2, <3>3
    <2>2. \A k \in 1..(i - 1) : k \in 1..m /\ k < i
        OBVIOUS
    <2>3. P \subseteq S
        BY DEF Preceding
    <2>4. g \in Bijection(1..(i - 1), P)
        <3>1. \A k \in 1..(i - 1) : g[k] = f[k] /\ g[k] \in P
            BY <2>1, <2>2
        <3>2. g \in [1..(i - 1) -> P]
            BY <3>1
        <3>3. \A x \in P : \E k \in 1..(i - 1) : g[k] = x
            <4> TAKE x \in P
            <4>1. PICK k \in 1..m : f[k] = x
                BY <2>3
            <4>2. k \in 1..(i - 1)
                BY <2>1, <4>1
            <4>3. QED
                BY <3>1, <4>1, <4>2
        <3>4. \A k, l \in 1..(i - 1) : g[k] = g[l] => k = l
            BY <1>1, <2>2, <3>1
        <3> HIDE DEF g, P
        <3>5. QED
            BY <3>2, <3>3, <3>4 DEF Bijection, Injection, Surjection, IsInjective
    <2>5. ExistsBijection(1..(i - 1), P)
        BY <2>4 DEF ExistsBijection
    <2>6. i - 1 \in Nat
        OBVIOUS
    <2> HIDE DEF P
    <2>7. Cardinality(P) = i - 1
        BY <2>5, <2>6, FS_CountingElements
    <2>8. QED
        BY <2>7 DEF P
<1>5. PICK s : s = Sorted(S, before)
    OBVIOUS
<1>6. /\ s \in [1..m -> S]
      /\ \A i \in 1..m : Cardinality(Preceding(S, before, s[i])) = i - 1
    BY <1>3, <1>5, SortedLists
<1>7. \A i \in 1..m : s[i] = f[i]
    <2> TAKE i \in 1..m
    <2>1. PICK k \in 1..m : f[k] = s[i]
        BY <1>6
    <2>2. k - 1 = i - 1
        BY <1>4, <1>6, <2>1
    <2>3. k = i
        BY <2>2
    <2>4. QED
        BY <2>1, <2>3
<1>8. QED
    BY <1>3, <1>5, <1>6, <1>7

\* The usual order of numbers, and of pairs of numbers.
LEMMA NumbersOrdered ==
    ASSUME NEW S, S \subseteq Int
    PROVE  Orders({p \in S \X S : p[1] < p[2]}, S)
<1> DEFINE b == {p \in S \X S : p[1] < p[2]}
<1>1. \A x, y \in S : <<x, y>> \in b <=> x < y
    OBVIOUS
<1> HIDE DEF b
<1>2. QED
    BY <1>1 DEF Orders, b

Queries == WellFormed(cha)

\* There are finitely many vtables.
LEMMA VtablesFinite == Queries => IsFiniteSet(vtables) /\ Cardinality(vtables) \in Nat
BY FS_CardinalityType DEF Queries, WellFormed, vtables

\* The children of a vtable are vtables.
LEMMA ChildrenAreVtables == Queries => \A v \in vtables : cha.children[v] \subseteq vtables
BY Zenon DEF Queries, WellFormed, vtables

\* A vtable is known by its class and number; names are in an order.
LEMMA VtableFacts ==
    ASSUME Queries
    PROVE  /\ dummyVtable \notin vtables
           /\ \A v \in vtables : /\ v = <<v[1], v[2]>> /\ v[2] \in Nat /\ <<v[1], 0>> \in vtables
                                /\ cha.rank[v[1]] \in Nat
           /\ \A v, w \in vtables : cha.rank[v[1]] = cha.rank[w[1]] => v[1] = w[1]
<1> DEFINE classes == {v[1] : v \in vtables}
<1>1. /\ dummyVtable \notin vtables
      /\ \A v \in vtables : v = <<v[1], v[2]>> /\ v[2] \in Nat /\ <<v[1], 0>> \in vtables
      /\ \A c, d \in classes : cha.rank[c] \in Nat /\ (cha.rank[c] = cha.rank[d] => c = d)
    BY Zenon DEF Queries, WellFormed, vtables
<1>2. \A v \in vtables : v[1] \in classes
    OBVIOUS
<1> HIDE DEF classes
<1>3. QED
    BY <1>1, <1>2

\* What is listed by name is listed once.
LEMMA InOrderLists ==
    ASSUME Queries, NEW vs, vs \subseteq vtables
    PROVE  /\ InOrder(vs) \in Seq(vs) /\ Range(InOrder(vs)) = vs
           /\ Len(InOrder(vs)) <= Cardinality(vtables)
<1> DEFINE before == {p \in vs \X vs : ByName(p[1], p[2])}
<1>1. IsFiniteSet(vs) /\ Cardinality(vs) \in Nat /\ Cardinality(vs) <= Cardinality(vtables)
    BY VtablesFinite, FS_Subset, FS_CardinalityType
<1>2. \A v, w \in vs : <<v, w>> \in before <=> ByName(v, w)
    OBVIOUS
<1>3. /\ \A v \in vs : v = <<v[1], v[2]>> /\ v[2] \in Nat /\ cha.rank[v[1]] \in Nat
      /\ \A v, w \in vs : cha.rank[v[1]] = cha.rank[w[1]] => v[1] = w[1]
    BY VtableFacts
<1>4. Orders(before, vs)
    <2> HIDE DEF before
    <2>1. \A v \in vs : ~ByName(v, v)
        BY <1>3 DEF ByName
    <2>2. \A v, w \in vs : v # w => ByName(v, w) \/ ByName(w, v)
        BY <1>3 DEF ByName
    <2>3. \A v, w, x \in vs : ByName(v, w) /\ ByName(w, x) => ByName(v, x)
        BY <1>3 DEF ByName
    <2>4. QED
        BY <1>2, <2>1, <2>2, <2>3 DEF Orders
<1>5. PICK s : s = InOrder(vs)
    OBVIOUS
<1>6. s = Sorted(vs, before)
    BY <1>5 DEF InOrder
<1>7. s \in [1..Cardinality(vs) -> vs] /\ \A x \in vs : \E i \in 1..Cardinality(vs) : s[i] = x
    <2> HIDE DEF before
    <2>1. QED
        BY <1>1, <1>4, <1>6, SortedLists
<1>8. s \in Seq(vs) /\ Len(s) = Cardinality(vs)
    BY <1>1, <1>7
<1>9. Range(s) = vs
    BY <1>7 DEF Range
<1>10. QED
    BY <1>1, <1>5, <1>8, <1>9

-----------------------------------------------------------------------------
(* The preorder.                                                           *)

Walks == Seq(vtables) \X Seq(vtables)

\* One round of the walk, with h for the rest of it.
Round(w, h) ==
    IF w[1] = <<>> THEN w[2]
    ELSE IF Head(w[1]) \in Range(w[2]) THEN h[<<Tail(w[1]), w[2]>>]
    ELSE h[<<InOrder(cha.children[Head(w[1])]) \o Tail(w[1]), Append(w[2], Head(w[1]))>>]

\* What is still to do gets less.
Rest == [w \in Walks |-> (Cardinality(vtables) - Cardinality(Range(w[2]))) * (Cardinality(vtables) + 1)
                         + Len(w[1])]

\* A list of vtables holds no more of them than there are.
LEMMA RangeFinite ==
    ASSUME Queries, NEW s \in Seq(vtables)
    PROVE  /\ IsFiniteSet(Range(s)) /\ Range(s) \subseteq vtables
           /\ Cardinality(Range(s)) \in Nat /\ Cardinality(Range(s)) <= Cardinality(vtables)
<1>1. Range(s) \subseteq vtables
    BY DEF Range
<1>2. QED
    BY <1>1, VtablesFinite, FS_Subset, FS_CardinalityType

\* The measure of the walk is a number.
LEMMA RestIsNat ==
    ASSUME Queries, NEW w \in Walks
    PROVE  Rest[w] \in Nat
<1>1. w[2] \in Seq(vtables) /\ Len(w[1]) \in Nat
    BY DEF Walks
<1>2. PICK a \in Nat : a = Cardinality(vtables) - Cardinality(Range(w[2]))
    BY <1>1, RangeFinite, VtablesFinite
<1>3. PICK k \in Nat : k = Cardinality(vtables) + 1
    BY VtablesFinite
<1>4. Rest[w] = a * k + Len(w[1])
    BY <1>2, <1>3 DEF Rest
<1>5. a * k \in Nat
    OBVIOUS
<1>6. QED
    BY <1>1, <1>4, <1>5

\* The measure falls: one vtable less to meet outweighs what its children add to
\* the list.
LEMMA Smaller ==
    ASSUME NEW a \in Nat \ {0}, NEW k \in Nat, NEW l \in Nat, NEW m \in Nat, m <= k
    PROVE  (a - 1) * (k + 1) + (m + l) < a * (k + 1) + (l + 1)
<1>1. (a - 1) * (k + 1) = a * (k + 1) - (k + 1)
    OBVIOUS
<1>2. a * (k + 1) \in Nat
    OBVIOUS
<1>3. PICK p \in Nat : p = a * (k + 1)
    BY <1>2
<1>4. p - (k + 1) + (m + l) < p + (l + 1)
    OBVIOUS
<1>5. QED
    BY <1>1, <1>3, <1>4

\* A round leads to another walk with less to do.
LEMMA RoundGoesDown ==
    ASSUME Queries, NEW w \in Walks, w[1] # <<>>
    PROVE  /\ Head(w[1]) \in vtables
           /\ <<Tail(w[1]), w[2]>> \in Walks
           /\ Rest[<<Tail(w[1]), w[2]>>] < Rest[w]
           /\ Head(w[1]) \notin Range(w[2]) =>
                 LET v == <<InOrder(cha.children[Head(w[1])]) \o Tail(w[1]), Append(w[2], Head(w[1]))>>
                 IN  v \in Walks /\ Rest[v] < Rest[w]
<1> DEFINE x == Head(w[1])
           t == Tail(w[1])
           c == InOrder(cha.children[x])
           n == w[2]
           k == Cardinality(vtables)
<1>1. w[1] \in Seq(vtables) /\ n \in Seq(vtables)
    BY DEF Walks
<1>2. x \in vtables /\ t \in Seq(vtables) /\ Len(t) \in Nat /\ Len(w[1]) = Len(t) + 1
    BY <1>1
<1>3. c \in Seq(vtables) /\ Len(c) \in Nat /\ Len(c) <= k
    <2>1. cha.children[x] \subseteq vtables
        BY <1>2, ChildrenAreVtables
    <2>2. c \in Seq(cha.children[x]) /\ Len(c) <= k
        BY <2>1, InOrderLists
    <2>3. c \in Seq(vtables)
        BY <2>1, <2>2, SeqWidens
    <2>4. Len(c) \in Nat
        BY <2>3
    <2>5. QED
        BY <2>2, <2>3, <2>4
<1>4. k \in Nat
    BY VtablesFinite
<1> HIDE DEF x, t, c
<1>5. PICK a \in Nat : a = k - Cardinality(Range(n))
    BY <1>1, <1>4, RangeFinite
<1>6. Rest[w] = a * (k + 1) + (Len(t) + 1)
    BY <1>2, <1>5 DEF Rest
<1>7. <<t, n>> \in Walks /\ Rest[<<t, n>>] = a * (k + 1) + Len(t)
    BY <1>1, <1>2, <1>5 DEF Rest, Walks
<1>8. a * (k + 1) \in Nat
    BY <1>4
<1>9. Rest[<<t, n>>] < Rest[w]
    BY <1>2, <1>6, <1>7, <1>8
<1>10. ASSUME x \notin Range(n)
       PROVE  <<c \o t, Append(n, x)>> \in Walks /\ Rest[<<c \o t, Append(n, x)>>] < Rest[w]
    <2>1. c \o t \in Seq(vtables) /\ Len(c \o t) = Len(c) + Len(t)
        BY <1>2, <1>3, Joined
    <2>2. Append(n, x) \in Seq(vtables)
        BY <1>1, <1>2
    <2>3. Range(Append(n, x)) = Range(n) \cup {x}
        <3>1. /\ DOMAIN n = 1..Len(n) /\ Len(n) \in Nat /\ DOMAIN Append(n, x) = 1..(Len(n) + 1)
              /\ Append(n, x)[Len(n) + 1] = x /\ \A i \in 1..Len(n) : Append(n, x)[i] = n[i]
            BY <1>1, <1>2
        <3>2. QED
            BY <3>1 DEF Range
    <2>4. Cardinality(Range(Append(n, x))) = Cardinality(Range(n)) + 1
        BY <1>1, <1>10, <2>3, RangeFinite, FS_AddElement
    <2>5. Cardinality(Range(Append(n, x))) <= k
        BY <2>2, RangeFinite
    <2>6. a # 0 /\ k - Cardinality(Range(Append(n, x))) = a - 1
        <3>1. Cardinality(Range(n)) \in Nat
            BY <1>1, RangeFinite
        <3>2. QED
            BY <1>4, <1>5, <2>4, <2>5, <3>1
    <2>7. <<c \o t, Append(n, x)>> \in Walks
        BY <2>1, <2>2 DEF Walks
    <2>8. Rest[<<c \o t, Append(n, x)>>] = (a - 1) * (k + 1) + (Len(c) + Len(t))
        BY <2>1, <2>6, <2>7 DEF Rest
    <2>9. (a - 1) * (k + 1) + (Len(c) + Len(t)) < a * (k + 1) + (Len(t) + 1)
        <3>1. a \in Nat \ {0}
            BY <2>6
        <3> HIDE DEF k
        <3>2. QED
            BY <1>2, <1>3, <1>4, <3>1, Smaller
    <2>10. QED
        BY <1>6, <2>7, <2>8, <2>9
<1>11. QED
    BY <1>2, <1>7, <1>9, <1>10 DEF x, t, c

\* The walk is what its rounds make it.
LEMMA WalkUnfolds ==
    ASSUME Queries
    PROVE  \E walk : /\ \A w \in Walks : walk[w] = Round(w, walk)
                     /\ \A root : preorder(root) = walk[<<<<root>>, <<>>>>]
<1> DEFINE S == Walks
           R == Seq(vtables)
           M == Rest
           G == [w \in S |-> [h \in [Under(S, M, w) -> R] |-> Round(w, h)]]
           Sol(e) == e = [w \in S |-> Round(w, e)]
           walk == CHOOSE e : Sol(e)
<1>1. \A w \in S : w[2] \in R
    BY DEF Walks
<1>2. \A w \in S : w[1] # <<>> =>
        /\ <<Tail(w[1]), w[2]>> \in Under(S, M, w)
        /\ Head(w[1]) \notin Range(w[2]) =>
              <<InOrder(cha.children[Head(w[1])]) \o Tail(w[1]), Append(w[2], Head(w[1]))>> \in Under(S, M, w)
    <2> TAKE w \in S
    <2> SUFFICES ASSUME w[1] # <<>>
                 PROVE  /\ <<Tail(w[1]), w[2]>> \in Under(S, M, w)
                        /\ Head(w[1]) \notin Range(w[2]) =>
                              <<InOrder(cha.children[Head(w[1])]) \o Tail(w[1]), Append(w[2], Head(w[1]))>> \in Under(S, M, w)
        OBVIOUS
    <2>1. /\ <<Tail(w[1]), w[2]>> \in Walks
          /\ Rest[<<Tail(w[1]), w[2]>>] < Rest[w]
          /\ Head(w[1]) \notin Range(w[2]) =>
                LET v == <<InOrder(cha.children[Head(w[1])]) \o Tail(w[1]), Append(w[2], Head(w[1]))>>
                IN  v \in Walks /\ Rest[v] < Rest[w]
        BY RoundGoesDown
    <2>2. QED
        BY <2>1, Zenon DEF Under
<1>3. Recursion(S, R, M, G)
    <2>1. M \in [S -> Nat]
        <3>1. \A w \in S : M[w] \in Nat
            BY RestIsNat
        <3>2. M = [w \in S |-> M[w]]
            BY DEF Rest
        <3> HIDE DEF M, S
        <3>3. QED
            BY <3>1, <3>2
    <2>2. ASSUME NEW w \in S, NEW h \in [Under(S, M, w) -> R] PROVE G[w][h] \in R
        <3>1. G[w][h] = Round(w, h)
            OBVIOUS
        <3>2. Round(w, h) \in R
            <4> HIDE DEF S, M, R
            <4>1. QED
                BY <1>1, <1>2 DEF Round
        <3>3. QED
            BY <3>1, <3>2
    <2> HIDE DEF S, M, G, R
    <2>3. QED
        BY <2>1, <2>2 DEF Recursion
<1>4. PICK f \in [S -> R] : Follows(S, S, M, G, f)
    <2> HIDE DEF S, M, G, R
    <2>1. QED
        BY <1>3, RecursionHasSolution
<1>5. ASSUME NEW w \in S PROVE f[w] = Round(w, f)
    <2> DEFINE h == [y \in Under(S, M, w) |-> f[y]]
    <2>1. f[w] = G[w][h]
        BY <1>4 DEF Follows
    <2>2. h \in [Under(S, M, w) -> R]
        <3> HIDE DEF S, M, R
        <3>1. QED
            BY <1>4 DEF Under
    <2>3. G[w][h] = Round(w, h)
        <3> HIDE DEF h
        <3>1. QED
            BY <2>2
    <2>4. Round(w, h) = Round(w, f)
        <3>1. \A y \in Under(S, M, w) : h[y] = f[y]
            OBVIOUS
        <3> HIDE DEF S, M, R, h
        <3>2. QED
            BY <1>2, <3>1 DEF Round
    <2>5. QED
        BY <2>1, <2>3, <2>4
<1>6. Sol(f)
    <2>1. f = [w \in S |-> f[w]]
        OBVIOUS
    <2> HIDE DEF S
    <2>2. QED
        BY <1>5, <2>1
<1>7. Sol(walk)
    <2> HIDE DEF Sol
    <2>1. QED
        BY <1>6
<1>8. \A w \in Walks : walk[w] = Round(w, walk)
    <2> HIDE DEF walk
    <2>1. QED
        BY <1>7
<1>9. \A root : preorder(root) = walk[<<<<root>>, <<>>>>]
    BY DEF preorder, Round, Walks
<1>10. QED
    BY <1>8, <1>9

\* The vtables at or below v.
Closed(X) == \A v \in X : cha.children[v] \subseteq X
Reach(v) == {x \in vtables : \A X \in SUBSET vtables : v \in X /\ Closed(X) => x \in X}

\* What is below a vtable is the least closed set that holds it.
LEMMA ReachFacts ==
    ASSUME Queries, NEW v \in vtables
    PROVE  /\ v \in Reach(v) /\ Reach(v) \subseteq vtables /\ Closed(Reach(v))
           /\ \A w \in Reach(v) : cha.children[w] \subseteq Reach(v) /\ Reach(w) \subseteq Reach(v)
           /\ \A X \in SUBSET vtables : v \in X /\ Closed(X) => Reach(v) \subseteq X
<1>1. v \in Reach(v) /\ Reach(v) \subseteq vtables
    BY DEF Reach
<1>2. \A X \in SUBSET vtables : v \in X /\ Closed(X) => Reach(v) \subseteq X
    BY DEF Reach
<1>3. \A w \in Reach(v) : cha.children[w] \subseteq Reach(v)
    <2>1. ASSUME NEW w \in Reach(v), NEW c \in cha.children[w], NEW X \in SUBSET vtables, v \in X, Closed(X)
          PROVE  c \in X
        BY <2>1 DEF Reach, Closed
    <2>2. \A w \in Reach(v) : cha.children[w] \subseteq vtables
        BY <1>1, ChildrenAreVtables
    <2>3. QED
        BY <2>1, <2>2 DEF Reach
<1>4. Closed(Reach(v))
    BY <1>3 DEF Closed
<1>5. \A w \in Reach(v) : Reach(w) \subseteq Reach(v)
    BY <1>1, <1>4 DEF Reach
<1>6. QED
    BY <1>1, <1>2, <1>3, <1>4, <1>5

\* What holds of a walk from root: everything is below root, the children of a node
\* have been met or are still to do.  From a node that still has children to do
\* everything met and at the head of what is to do is below it.
Walking(root, todo, nodes) ==
    /\ todo \in Seq(vtables) /\ nodes \in Seq(vtables)
    /\ IF nodes = <<>> THEN todo = <<root>> ELSE nodes[1] = root
    /\ \A i, j \in DOMAIN nodes : nodes[i] = nodes[j] => i = j
    /\ Range(nodes) \cup Range(todo) \subseteq Reach(root)
    /\ \A j \in DOMAIN nodes :
          /\ \A k \in DOMAIN nodes : k > j /\ nodes[k] \in cha.children[nodes[j]] =>
                \A i \in j..k : nodes[i] \in Reach(nodes[j])
          /\ \/ cha.children[nodes[j]] \subseteq Range(nodes)
             \/ /\ \A i \in j..Len(nodes) : nodes[i] \in Reach(nodes[j])
                /\ \E m \in 0..Len(todo) :
                      /\ \A i \in 1..m : todo[i] \in Reach(nodes[j])
                      /\ \A c \in cha.children[nodes[j]] :
                            c \in Range(nodes) \/ \E i \in 1..m : todo[i] = c

\* The walk of preorderHelper begins with its root.
LEMMA WalkStarts ==
    ASSUME Queries, NEW root \in vtables
    PROVE  Walking(root, <<root>>, <<>>)
<1>1. <<root>> \in Seq(vtables) /\ <<>> \in Seq(vtables) /\ Range(<<root>>) = {root}
      /\ Range(<<>>) = {} /\ DOMAIN <<>> = {}
    BY DEF Range
<1>2. QED
    BY <1>1, ReachFacts DEF Walking

\* The walk passes by a vtable that it has met.
LEMMA WalkPasses ==
    ASSUME Queries, NEW root \in vtables, NEW todo, NEW nodes, Walking(root, todo, nodes),
           todo # <<>>, Head(todo) \in Range(nodes)
    PROVE  Walking(root, Tail(todo), nodes)
<1> DEFINE t == Tail(todo)
<1>1. todo \in Seq(vtables) /\ nodes \in Seq(vtables)
    BY DEF Walking
<1>2. /\ t \in Seq(vtables) /\ Len(t) \in Nat /\ Len(todo) = Len(t) + 1
      /\ todo[1] = Head(todo) /\ \A i \in 1..Len(t) : t[i] = todo[i + 1]
      /\ DOMAIN t = 1..Len(t) /\ DOMAIN todo = 1..Len(todo)
    BY <1>1
<1> HIDE DEF t
<1>3. Range(t) \subseteq Range(todo)
    BY <1>2 DEF Range
<1>4. nodes # <<>>
    BY DEF Range
<1>5. ASSUME NEW j \in DOMAIN nodes, NEW m \in 0..Len(todo),
             \A i \in 1..m : todo[i] \in Reach(nodes[j]),
             \A c \in cha.children[nodes[j]] : c \in Range(nodes) \/ \E i \in 1..m : todo[i] = c
      PROVE  \E l \in 0..Len(t) :
                /\ \A i \in 1..l : t[i] \in Reach(nodes[j])
                /\ \A c \in cha.children[nodes[j]] :
                      c \in Range(nodes) \/ \E i \in 1..l : t[i] = c
    <2>1. CASE m = 0
        BY <1>2, <1>5, <2>1
    <2>2. CASE m # 0
        <3>1. m - 1 \in 0..Len(t)
            BY <1>2, <2>2
        <3>2. \A i \in 1..(m - 1) : t[i] \in Reach(nodes[j])
            BY <1>2, <1>5
        <3>3. ASSUME NEW c \in cha.children[nodes[j]], c \notin Range(nodes)
              PROVE  \E i \in 1..(m - 1) : t[i] = c
            <4>1. PICK i \in 1..m : todo[i] = c
                BY <1>5, <3>3
            <4>2. i # 1
                BY <1>2, <3>3, <4>1
            <4>3. i - 1 \in 1..(m - 1) /\ i - 1 \in 1..Len(t) /\ (i - 1) + 1 = i
                BY <1>2, <4>2
            <4>4. t[i - 1] = c
                BY <1>2, <4>1, <4>3
            <4>5. QED
                BY <4>3, <4>4
        <3>4. QED
            BY <3>1, <3>2, <3>3
    <2>3. QED
        BY <2>1, <2>2
<1>6. QED
    BY <1>1, <1>2, <1>3, <1>4, <1>5 DEF Walking, t

\* The walk meets a vtable and goes on with its children.
LEMMA WalkMeets ==
    ASSUME Queries, NEW root \in vtables, NEW todo, NEW nodes, Walking(root, todo, nodes),
           todo # <<>>, Head(todo) \notin Range(nodes)
    PROVE  Walking(root, InOrder(cha.children[Head(todo)]) \o Tail(todo), Append(nodes, Head(todo)))
<1> DEFINE x == Head(todo)
           t == Tail(todo)
           c == InOrder(cha.children[x])
           u == c \o t
           n == Append(nodes, x)
           l == Len(nodes)
<1>1. todo \in Seq(vtables) /\ nodes \in Seq(vtables)
    BY DEF Walking
<1>2. /\ x \in vtables
      /\ t \in Seq(vtables) /\ Len(t) \in Nat /\ Len(todo) = Len(t) + 1
      /\ todo[1] = x /\ \A i \in 1..Len(t) : t[i] = todo[i + 1]
      /\ DOMAIN t = 1..Len(t) /\ DOMAIN todo = 1..Len(todo)
    BY <1>1
<1>3. cha.children[x] \subseteq vtables
    BY <1>2, ChildrenAreVtables
<1>4. c \in Seq(vtables) /\ Len(c) \in Nat /\ Range(c) = cha.children[x] /\ DOMAIN c = 1..Len(c)
    <2>1. c \in Seq(cha.children[x]) /\ Range(c) = cha.children[x]
        BY <1>3, InOrderLists
    <2>2. c \in Seq(vtables)
        BY <1>3, <2>1, SeqWidens
    <2> HIDE DEF c
    <2>3. QED
        BY <2>1, <2>2
<1> HIDE DEF x, t, c
<1>5. /\ u \in Seq(vtables) /\ Len(u) = Len(c) + Len(t) /\ DOMAIN u = 1..(Len(c) + Len(t))
      /\ \A i \in 1..Len(c) : u[i] = c[i]
      /\ \A i \in 1..Len(t) : u[Len(c) + i] = t[i]
    BY <1>2, <1>4, Joined
<1>6. /\ n \in Seq(vtables) /\ Len(n) = l + 1 /\ l \in Nat /\ DOMAIN n = 1..(l + 1) /\ DOMAIN nodes = 1..l
      /\ n[l + 1] = x /\ \A i \in 1..l : n[i] = nodes[i]
    BY <1>1, <1>2
<1> HIDE DEF u, n, l
<1>7. Range(n) = Range(nodes) \cup {x}
    BY <1>6 DEF Range
<1>8. /\ cha.children[x] \subseteq Range(u)
      /\ \A e \in Range(u) : e \in cha.children[x] \/ e \in Range(todo)
    <2>1. \A e \in cha.children[x] : \E i \in 1..Len(c) : u[i] = e
        BY <1>4, <1>5 DEF Range
    <2>2. 1..Len(c) \subseteq DOMAIN u
        BY <1>2, <1>4, <1>5
    <2>3. \A i \in DOMAIN u : i \in 1..Len(c) \/ \E k \in 1..Len(t) : i = Len(c) + k
        <3> TAKE i \in DOMAIN u
        <3>1. i \notin 1..Len(c) => i - Len(c) \in 1..Len(t) /\ i = Len(c) + (i - Len(c))
            BY <1>2, <1>4, <1>5
        <3>2. QED
            BY <3>1
    <2>4. \A i \in 1..Len(c) : u[i] \in cha.children[x]
        BY <1>4, <1>5 DEF Range
    <2>5. \A k \in 1..Len(t) : u[Len(c) + k] \in Range(todo)
        <3>1. \A k \in 1..Len(t) : k + 1 \in DOMAIN todo
            BY <1>2
        <3>2. QED
            BY <1>2, <1>5, <3>1 DEF Range
    <2>6. QED
        BY <2>1, <2>2, <2>3, <2>4, <2>5 DEF Range
<1>9. n # <<>> /\ n[1] = root
    <2>1. CASE nodes = <<>>
        <3>1. todo = <<root>> /\ l = 0
            BY <2>1 DEF Walking, l
        <3>2. QED
            BY <1>2, <1>6, <3>1
    <2>2. CASE nodes # <<>>
        <3>1. nodes[1] = root /\ l # 0
            BY <1>1, <2>2 DEF Walking, l
        <3>2. QED
            BY <1>6, <3>1
    <2>3. QED
        BY <2>1, <2>2
<1>10. \A i, j \in DOMAIN n : n[i] = n[j] => i = j
    <2>1. \A i, j \in 1..l : nodes[i] = nodes[j] => i = j
        BY <1>6 DEF Walking
    <2>2. \A i \in 1..l : nodes[i] # x
        BY <1>6 DEF Range, x
    <2>3. \A i \in 1..(l + 1) : i \in 1..l \/ i = l + 1
        BY <1>6
    <2>4. QED
        BY <1>6, <2>1, <2>2, <2>3
<1>11. x \in Reach(root) /\ Range(n) \cup Range(u) \subseteq Reach(root)
    <2>1. x \in Range(todo)
        BY <1>2 DEF Range
    <2>2. Range(nodes) \cup Range(todo) \subseteq Reach(root)
        BY DEF Walking
    <2>3. cha.children[x] \subseteq Reach(root)
        BY <2>1, <2>2, ReachFacts
    <2>4. QED
        BY <1>7, <1>8, <2>1, <2>2, <2>3
<1>12. x \in Reach(x) /\ cha.children[x] \subseteq Reach(x)
    BY <1>2, ReachFacts
<1>13. ASSUME NEW j \in DOMAIN n
       PROVE  /\ \A k \in DOMAIN n : k > j /\ n[k] \in cha.children[n[j]] =>
                    \A i \in j..k : n[i] \in Reach(n[j])
              /\ \/ cha.children[n[j]] \subseteq Range(n)
                 \/ /\ \A i \in j..Len(n) : n[i] \in Reach(n[j])
                    /\ \E m \in 0..Len(u) :
                          /\ \A i \in 1..m : u[i] \in Reach(n[j])
                          /\ \A e \in cha.children[n[j]] :
                                e \in Range(n) \/ \E i \in 1..m : u[i] = e
    <2>1. CASE j = l + 1
        <3>1. n[j] = x
            BY <1>6, <2>1
        <3>2. \A i \in j..Len(n) : n[i] \in Reach(n[j])
            BY <1>6, <1>12, <2>1, <3>1
        <3>3. Len(c) \in 0..Len(u)
            BY <1>2, <1>4, <1>5
        <3>4. \A i \in 1..Len(c) : u[i] \in Reach(n[j])
            BY <1>4, <1>5, <1>12, <3>1 DEF Range
        <3>5. \A e \in cha.children[n[j]] : \E i \in 1..Len(c) : u[i] = e
            BY <1>4, <1>5, <3>1 DEF Range
        <3>6. ~\E k \in DOMAIN n : k > j
            BY <1>6, <2>1
        <3>7. QED
            BY <3>2, <3>3, <3>4, <3>5, <3>6
    <2>2. CASE j # l + 1
        <3>1. j \in DOMAIN nodes /\ n[j] = nodes[j] /\ j \in 1..l
            BY <1>6, <2>2
        <3> DEFINE p == nodes[j]
        <3>2. p \in vtables
            BY <1>1, <3>1
        <3>3. /\ \A k \in DOMAIN nodes : k > j /\ nodes[k] \in cha.children[p] =>
                    \A i \in j..k : nodes[i] \in Reach(p)
              /\ \/ cha.children[p] \subseteq Range(nodes)
                 \/ /\ \A i \in j..Len(nodes) : nodes[i] \in Reach(p)
                    /\ \E m \in 0..Len(todo) :
                          /\ \A i \in 1..m : todo[i] \in Reach(p)
                          /\ \A e \in cha.children[p] :
                                e \in Range(nodes) \/ \E i \in 1..m : todo[i] = e
            BY <3>1 DEF Walking
        <3> HIDE DEF p
        <3>4. CASE cha.children[p] \subseteq Range(nodes)
            <4>1. x \notin cha.children[p]
                BY <3>4 DEF x
            <4>2. ASSUME NEW k \in DOMAIN n, k > j, n[k] \in cha.children[p], NEW i \in j..k
                  PROVE  n[i] \in Reach(p)
                <5>1. k \in 1..l
                    BY <1>6, <4>1, <4>2
                <5>2. i \in 1..l /\ k \in DOMAIN nodes /\ nodes[k] \in cha.children[p]
                    BY <1>6, <3>1, <4>2, <5>1
                <5>3. QED
                    BY <1>6, <3>3, <4>2, <5>2
            <4>3. QED
                BY <1>7, <3>1, <3>4, <4>2 DEF p
        <3>5. CASE ~(cha.children[p] \subseteq Range(nodes))
            <4>1. \A i \in j..l : nodes[i] \in Reach(p)
                BY <3>3, <3>5 DEF l
            <4>2. PICK m \in 0..Len(todo) :
                          /\ \A i \in 1..m : todo[i] \in Reach(p)
                          /\ \A e \in cha.children[p] :
                                e \in Range(nodes) \/ \E i \in 1..m : todo[i] = e
                BY <3>3, <3>5
            <4>3. m # 0
                BY <3>5, <4>2
            <4>4. x \in Reach(p)
                <5>1. 1 \in 1..m
                    BY <4>3
                <5>2. QED
                    BY <1>2, <4>2, <5>1
            <4>5. \A i \in j..(l + 1) : n[i] \in Reach(p)
                <5>1. \A i \in j..(l + 1) : i = l + 1 \/ (i \in j..l /\ i \in 1..l)
                    BY <1>6, <3>1
                <5>2. QED
                    BY <1>6, <4>1, <4>4, <5>1
            <4>6. ASSUME NEW k \in DOMAIN n, NEW i \in j..k PROVE n[i] \in Reach(p)
                <5>1. i \in j..(l + 1)
                    BY <1>6, <3>1
                <5>2. QED
                    BY <4>5, <5>1
            <4>7. cha.children[x] \subseteq Reach(p)
                BY <3>2, <4>4, ReachFacts
            <4> DEFINE q == Len(c) + (m - 1)
            <4>8. q \in 0..Len(u)
                BY <1>2, <1>4, <1>5, <4>3
            <4>9. \A i \in 1..q : u[i] \in Reach(p)
                <5> TAKE i \in 1..q
                <5>1. CASE i \in 1..Len(c)
                    BY <1>4, <1>5, <4>7, <5>1 DEF Range
                <5>2. CASE i \notin 1..Len(c)
                    <6>1. i - Len(c) \in 1..Len(t) /\ (i - Len(c)) + 1 \in 1..m /\ i = Len(c) + (i - Len(c))
                        BY <1>2, <1>4, <4>3, <5>2
                    <6>2. u[i] = todo[(i - Len(c)) + 1]
                        BY <1>2, <1>5, <6>1
                    <6>3. QED
                        BY <4>2, <6>1, <6>2
                <5>3. QED
                    BY <5>1, <5>2
            <4>10. ASSUME NEW e \in cha.children[p], e \notin Range(n)
                   PROVE  \E i \in 1..q : u[i] = e
                <5>1. PICK i \in 1..m : todo[i] = e
                    BY <1>7, <4>2, <4>10
                <5>2. i # 1
                    BY <1>2, <1>7, <4>10, <5>1
                <5>3. i - 1 \in 1..Len(t) /\ (i - 1) + 1 = i /\ Len(c) + (i - 1) \in 1..q
                    BY <1>2, <1>4, <5>2
                <5>4. u[Len(c) + (i - 1)] = e
                    BY <1>2, <1>5, <5>1, <5>3
                <5>5. QED
                    BY <5>3, <5>4
            <4> HIDE DEF q
            <4>11. \A i \in j..Len(n) : n[i] \in Reach(p)
                BY <1>6, <4>5
            <4>12. QED
                BY <3>1, <4>6, <4>8, <4>9, <4>10, <4>11 DEF p
        <3>6. QED
            BY <3>4, <3>5
    <2>3. QED
        BY <2>1, <2>2
<1>14. Walking(root, u, n)
    BY <1>5, <1>6, <1>9, <1>10, <1>11, <1>13 DEF Walking
<1>15. QED
    BY <1>14 DEF u, n, c, t, x

\* What a preorder is: it lists the vtables at or below root once each, root
\* first; and between a vtable and a child behind it lies what is below it.
IsPreorder(root, pre) ==
    /\ pre \in Seq(vtables) /\ pre # <<>> /\ pre[1] = root
    /\ \A i, j \in DOMAIN pre : pre[i] = pre[j] => i = j
    /\ Range(pre) = Reach(root)
    /\ \A j, k \in DOMAIN pre : j < k /\ pre[k] \in cha.children[pre[j]] =>
          \A i \in j..k : pre[i] \in Reach(pre[j])

\* When nothing is left to do, the walk has listed what is below the root.
LEMMA WalkEnds ==
    ASSUME Queries, NEW root \in vtables, NEW nodes, Walking(root, <<>>, nodes)
    PROVE  IsPreorder(root, nodes)
<1>1. nodes \in Seq(vtables) /\ Range(<<>>) = {}
    BY DEF Walking, Range
<1>2. nodes # <<>> /\ nodes[1] = root
    BY DEF Walking
<1>3. root \in Range(nodes) /\ Range(nodes) \subseteq vtables
    BY <1>1, <1>2 DEF Range
<1>4. \A j \in DOMAIN nodes : cha.children[nodes[j]] \subseteq Range(nodes)
    BY DEF Walking
<1>5. Closed(Range(nodes))
    BY <1>4 DEF Closed, Range
<1>6. Range(nodes) = Reach(root)
    BY <1>3, <1>5, ReachFacts DEF Walking
<1>7. QED
    BY <1>1, <1>2, <1>6 DEF Walking, IsPreorder

\* preorder lists exactly the vtables below its root, each once, the root first.
LEMMA PreorderFacts ==
    ASSUME Queries, NEW root \in vtables
    PROVE  IsPreorder(root, preorder(root))
<1>1. PICK walk : /\ \A w \in Walks : walk[w] = Round(w, walk)
                  /\ \A r : preorder(r) = walk[<<<<r>>, <<>>>>]
    BY WalkUnfolds
<1> DEFINE Bad == {w \in Walks : Walking(root, w[1], w[2]) /\ ~IsPreorder(root, walk[w])}
           T == {Rest[w] : w \in Bad}
<1>2. Bad = {}
    <2> SUFFICES ASSUME Bad # {} PROVE FALSE
        OBVIOUS
    <2>1. T \subseteq Nat /\ T # {}
        BY RestIsNat
    <2>2. PICK i \in T : \A j \in T : i <= j
        <3> HIDE DEF T
        <3>1. QED
            BY <2>1, Least
    <2>3. PICK w \in Bad : Rest[w] = i
        OBVIOUS
    <2>4. w \in Walks /\ Walking(root, w[1], w[2]) /\ ~IsPreorder(root, walk[w]) /\ walk[w] = Round(w, walk)
        BY <1>1
    <2>5. \A v \in Walks : Rest[v] < Rest[w] /\ Walking(root, v[1], v[2]) => IsPreorder(root, walk[v])
        <3> SUFFICES ASSUME NEW v \in Bad, Rest[v] < Rest[w] PROVE FALSE
            OBVIOUS
        <3>1. Rest[v] \in T /\ Rest[v] \in Nat /\ Rest[w] \in Nat
            BY <2>1
        <3>2. QED
            BY <2>2, <2>3, <3>1
    <2> HIDE DEF Bad, T
    <2>6. CASE w[1] = <<>>
        <3>1. walk[w] = w[2]
            BY <2>4, <2>6 DEF Round
        <3>2. IsPreorder(root, w[2])
            BY <2>4, <2>6, WalkEnds
        <3>3. QED
            BY <2>4, <3>1, <3>2
    <2>7. CASE w[1] # <<>>
        <3> DEFINE x == Head(w[1])
                   a == <<Tail(w[1]), w[2]>>
                   b == <<InOrder(cha.children[x]) \o Tail(w[1]), Append(w[2], x)>>
        <3>1. /\ a \in Walks /\ Rest[a] < Rest[w]
              /\ x \notin Range(w[2]) => b \in Walks /\ Rest[b] < Rest[w]
            BY <2>4, <2>7, RoundGoesDown
        <3>2. CASE x \in Range(w[2])
            <4>1. walk[w] = walk[a]
                BY <2>4, <2>7, <3>2 DEF Round
            <4>2. Walking(root, a[1], a[2])
                BY <2>4, <2>7, <3>2, WalkPasses
            <4> HIDE DEF a
            <4>3. QED
                BY <2>4, <2>5, <3>1, <4>1, <4>2
        <3>3. CASE x \notin Range(w[2])
            <4>1. walk[w] = walk[b]
                BY <2>4, <2>7, <3>3 DEF Round
            <4>2. Walking(root, b[1], b[2])
                BY <2>4, <2>7, <3>3, WalkMeets
            <4> HIDE DEF b
            <4>3. QED
                BY <2>4, <2>5, <3>1, <3>3, <4>1, <4>2
        <3>4. QED
            BY <3>2, <3>3
    <2>8. QED
        BY <2>6, <2>7
<1>3. <<<<root>>, <<>>>> \in Walks
    <2>1. <<root>> \in Seq(vtables) /\ <<>> \in Seq(vtables)
        BY ShortSeqs
    <2>2. QED
        BY <2>1, Zenon DEF Walks
<1>4. Walking(root, <<root>>, <<>>)
    BY WalkStarts
<1>5. QED
    BY <1>1, <1>2, <1>3, <1>4

-----------------------------------------------------------------------------
(* Ranges.                                                                 *)

Ranges == {r \in Nat \X Nat : r[1] < r[2]}
Holds(s, x) == \E k \in DOMAIN s : s[k][1] <= x /\ x < s[k][2]
Separate(s) == s \in Seq(Ranges) /\ \A k \in 1..(Len(s) - 1) : s[k][2] < s[k + 1][1]

\* What Coalesced does with the next range.
Wider(last, r) == <<last[1], IF r[2] > last[2] THEN r[2] ELSE last[2]>>
Merge(done, r) ==
    IF done # <<>> /\ r[1] <= done[Len(done)][2]
    THEN [done EXCEPT ![Len(done)] = Wider(@, r)] ELSE Append(done, r)

\* The next range widens the last one or is put behind it.
LEMMA MergeParts ==
    ASSUME NEW done \in Seq(Ranges), NEW r \in Ranges
    PROVE  /\ Merge(done, r) \in Seq(Ranges) /\ Merge(done, r) # <<>>
           /\ done # <<>> /\ r[1] <= done[Len(done)][2] =>
                 /\ Len(Merge(done, r)) = Len(done)
                 /\ \A k \in 1..(Len(done) - 1) : Merge(done, r)[k] = done[k]
                 /\ Merge(done, r)[Len(done)] = Wider(done[Len(done)], r)
           /\ ~(done # <<>> /\ r[1] <= done[Len(done)][2]) =>
                 /\ Len(Merge(done, r)) = Len(done) + 1
                 /\ \A k \in 1..Len(done) : Merge(done, r)[k] = done[k]
                 /\ Merge(done, r)[Len(done) + 1] = r
<1> DEFINE n == Len(done)
           m == Merge(done, r)
<1>1. n \in Nat /\ DOMAIN done = 1..n /\ done \in [1..n -> Ranges]
    OBVIOUS
<1>0. n \in Nat
    BY <1>1
<1>2. CASE done # <<>> /\ r[1] <= done[n][2]
    <2>1. n \in 1..n
        BY <1>1, <1>2
    <2>2. PICK w : w = Wider(done[n], r)
        OBVIOUS
    <2>3. w \in Ranges
        <3>1. done[n] \in Ranges
            BY <1>1, <2>1
        <3>2. QED
            BY <2>2, <3>1 DEF Wider, Ranges
    <2>4. m = [done EXCEPT ![n] = w]
        BY <1>2, <2>2 DEF Merge
    <2>5. /\ m \in [1..n -> Ranges] /\ m[n] = w
          /\ \A k \in 1..n : k # n => m[k] = done[k]
        BY <1>1, <2>1, <2>3, <2>4
    <2> HIDE DEF m
    <2>6. m \in Seq(Ranges) /\ Len(m) = n
        <3>1. m \in [1..n -> Ranges]
            BY <2>5
        <3> HIDE DEF n
        <3>2. QED
            BY <1>0, <3>1
    <2>7. m # <<>>
        BY <2>1, <2>6
    <2>8. \A k \in 1..(n - 1) : k \in 1..n /\ k # n
        <3> HIDE DEF n
        <3>1. QED
            BY <1>0
    <2>9. QED
        BY <1>2, <2>2, <2>5, <2>6, <2>7, <2>8 DEF m
<1>3. CASE ~(done # <<>> /\ r[1] <= done[n][2])
    <2>1. m = Append(done, r)
        BY <1>3 DEF Merge
    <2>2. m \in Seq(Ranges) /\ Len(m) = n + 1 /\ m[n + 1] = r /\ \A k \in 1..n : m[k] = done[k]
        BY <2>1
    <2>3. m # <<>>
        BY <1>1, <2>2
    <2>4. QED
        BY <1>3, <2>2, <2>3
<1>4. QED
    BY <1>2, <1>3

\* Merging keeps ranges apart, and loses and adds nothing.
LEMMA MergeKeeps ==
    ASSUME NEW done, Separate(done), NEW r \in Ranges,
           done # <<>> => done[Len(done)][1] <= r[1]
    PROVE  /\ Separate(Merge(done, r)) /\ Merge(done, r) # <<>>
           /\ Merge(done, r)[Len(Merge(done, r))][1] <= r[1]
           /\ \A x \in Nat : Holds(Merge(done, r), x) <=> Holds(done, x) \/ (r[1] <= x /\ x < r[2])
<1> DEFINE n == Len(done)
           m == Merge(done, r)
           last == done[n]
           w == Wider(last, r)
<1>1. done \in Seq(Ranges) /\ n \in Nat /\ DOMAIN done = 1..n
    BY DEF Separate
<1>0. /\ n \in Nat
      /\ \A k \in 1..n : k = n \/ (k \in 1..(n - 1) /\ k + 1 \in 1..n)
      /\ \A k \in 1..(n - 1) : k \in 1..n /\ (k + 1 = n \/ k + 1 \in 1..(n - 1))
    <2>1. n \in Nat
        BY <1>1
    <2> HIDE DEF n
    <2>2. QED
        BY <2>1
<1>2. \A k \in 1..n : done[k] \in Ranges /\ done[k][1] \in Nat /\ done[k][2] \in Nat /\ done[k][1] < done[k][2]
    BY <1>1 DEF Ranges
<1>3. r[1] \in Nat /\ r[2] \in Nat /\ r[1] < r[2]
    BY DEF Ranges
<1>4. m \in Seq(Ranges) /\ m # <<>>
    BY <1>1, MergeParts
<1>5. CASE done # <<>> /\ r[1] <= last[2]
    <2>0. n \in 1..n
        BY <1>1, <1>5
    <2>1. Len(m) = n /\ (\A k \in 1..(n - 1) : m[k] = done[k]) /\ m[n] = w
        BY <1>1, <1>5, MergeParts
    <2>2. /\ last[1] \in Nat /\ last[2] \in Nat /\ last[1] < last[2] /\ last[1] <= r[1]
        BY <1>2, <1>5, <2>0
    <2>3. /\ w[1] = last[1]
          /\ w[2] \in Nat /\ last[2] <= w[2] /\ r[2] <= w[2] /\ (w[2] = last[2] \/ w[2] = r[2])
        BY <1>3, <2>2 DEF Wider
    <2> HIDE DEF m, w
    <2>4. Separate(m)
        <3>1. ASSUME NEW k \in 1..(n - 1) PROVE m[k][2] < m[k + 1][1]
            <4>1. k \in 1..(n - 1) /\ done[k][2] < done[k + 1][1] /\ m[k] = done[k]
                BY <2>1 DEF Separate
            <4>2. CASE k + 1 = n
                BY <2>1, <2>3, <4>1, <4>2
            <4>3. CASE k + 1 # n
                <5>1. k + 1 \in 1..(n - 1)
                    BY <1>0, <4>3
                <5>2. QED
                    BY <2>1, <4>1, <5>1
            <4>4. QED
                BY <4>2, <4>3
        <3>2. QED
            BY <1>4, <2>1, <3>1 DEF Separate
    <2>5. ASSUME NEW x \in Nat
          PROVE  Holds(m, x) <=> Holds(done, x) \/ (r[1] <= x /\ x < r[2])
        <3>1. DOMAIN m = 1..n
            BY <1>4, <2>1
        <3>2. w[1] <= x /\ x < w[2] <=> (last[1] <= x /\ x < last[2]) \/ (r[1] <= x /\ x < r[2])
            BY <1>3, <1>5, <2>2, <2>3
        <3>3. \A k \in 1..n : k = n \/ k \in 1..(n - 1)
            BY <1>0
        <3>4. \A k \in 1..(n - 1) : k \in 1..n
            BY <1>0
        <3>5. Holds(m, x) <=> (w[1] <= x /\ x < w[2]) \/ \E k \in 1..(n - 1) : done[k][1] <= x /\ x < done[k][2]
            BY <2>0, <2>1, <3>1, <3>3, <3>4 DEF Holds
        <3>6. Holds(done, x) <=> (last[1] <= x /\ x < last[2]) \/ \E k \in 1..(n - 1) : done[k][1] <= x /\ x < done[k][2]
            BY <1>1, <2>0, <3>3, <3>4 DEF Holds
        <3>7. QED
            BY <3>2, <3>5, <3>6
    <2>6. QED
        BY <1>4, <2>1, <2>2, <2>3, <2>4, <2>5 DEF m
<1>6. CASE ~(done # <<>> /\ r[1] <= last[2])
    <2>1. Len(m) = n + 1 /\ (\A k \in 1..n : m[k] = done[k]) /\ m[n + 1] = r
        BY <1>1, <1>6, MergeParts
    <2> HIDE DEF m
    <2>2. DOMAIN m = 1..(n + 1)
        BY <1>4, <2>1
    <2>3. \A k \in 1..(n + 1) : k = n + 1 \/ k \in 1..n
        BY <1>1
    <2>4. n + 1 \in 1..(n + 1) /\ \A k \in 1..n : k \in 1..(n + 1)
        BY <1>1
    <2>5. Separate(m)
        <3>1. ASSUME NEW k \in 1..n PROVE m[k][2] < m[k + 1][1]
            <4>1. m[k] = done[k]
                BY <2>1
            <4>2. CASE k = n
                <5>1. done # <<>>
                    BY <1>1, <4>2
                <5>2. ~(r[1] <= last[2])
                    BY <1>6, <5>1
                <5>3. last[2] < r[1]
                    BY <1>2, <1>3, <4>2, <5>2
                <5>4. QED
                    BY <2>1, <4>1, <4>2, <5>3
            <4>3. CASE k # n
                <5>1. k \in 1..(n - 1) /\ k + 1 \in 1..n
                    BY <1>0, <4>3
                <5>2. done[k][2] < done[k + 1][1]
                    BY <5>1 DEF Separate
                <5>3. QED
                    BY <2>1, <4>1, <5>1, <5>2
            <4>4. QED
                BY <4>2, <4>3
        <3>2. (n + 1) - 1 = n
            BY <1>1
        <3>3. QED
            BY <1>4, <2>1, <3>1, <3>2 DEF Separate
    <2>6. \A x \in Nat : Holds(m, x) <=> Holds(done, x) \/ (r[1] <= x /\ x < r[2])
        BY <1>1, <2>1, <2>2, <2>3, <2>4 DEF Holds
    <2>7. QED
        BY <1>3, <1>4, <2>1, <2>5, <2>6 DEF m
<1>7. QED
    BY <1>5, <1>6

\* A range is coalesced with all it touches, and nothing is lost or added.
LEMMA CoalescedRanges ==
    ASSUME NEW rs, IsFiniteSet(rs), rs \subseteq Ranges
    PROVE  /\ Separate(Coalesced(rs))
           /\ \A x \in Nat : Holds(Coalesced(rs), x) <=> \E r \in rs : r[1] <= x /\ x < r[2]
<1> DEFINE before == {p \in rs \X rs : \/ p[1][1] < p[2][1]
                                       \/ p[1][1] = p[2][1] /\ p[1][2] < p[2][2]}
<1>1. \A q, r \in rs : <<q, r>> \in before <=> q[1] < r[1] \/ (q[1] = r[1] /\ q[2] < r[2])
    OBVIOUS
<1>2. \A r \in rs : r[1] \in Nat /\ r[2] \in Nat /\ r[1] < r[2] /\ r = <<r[1], r[2]>>
    BY DEF Ranges
<1> HIDE DEF before
<1>3. Orders(before, rs)
    <2>1. \A q, r \in rs : q # r => q[1] # r[1] \/ q[2] # r[2]
        BY <1>2
    <2>2. \A q, r \in rs : q # r => <<q, r>> \in before \/ <<r, q>> \in before
        BY <1>1, <1>2, <2>1
    <2>3. \A r \in rs : <<r, r>> \notin before
        BY <1>1, <1>2
    <2>4. \A q, r, s \in rs : <<q, r>> \in before /\ <<r, s>> \in before => <<q, s>> \in before
        BY <1>1, <1>2
    <2>5. QED
        BY <2>2, <2>3, <2>4 DEF Orders
<1>4. PICK s : s = InOrderOfStart(rs)
    OBVIOUS
<1>5. s = Sorted(rs, before)
    BY <1>4 DEF InOrderOfStart, before
<1> DEFINE n == Cardinality(rs)
<1>6. /\ n \in Nat /\ s \in [1..n -> rs]
      /\ \A r \in rs : \E i \in 1..n : s[i] = r
      /\ \A i, j \in 1..n : i < j => <<s[i], s[j]>> \in before
    BY <1>3, <1>5, SortedLists
<1>7. Len(s) = n /\ \A i \in 1..n : s[i] \in Ranges
    BY <1>6
<1>8. \A i, j \in 1..n : i <= j => s[i][1] <= s[j][1]
    <2> TAKE i, j \in 1..n
    <2>1. s[i] \in rs /\ s[j] \in rs
        BY <1>6
    <2>0. \A q, t \in rs : <<q, t>> \in before => q[1] <= t[1]
        BY <1>1, <1>2
    <2>2. i < j => s[i][1] <= s[j][1]
        BY <1>6, <2>0, <2>1
    <2>3. i <= j => i < j \/ i = j
        BY <1>6
    <2>4. s[i][1] <= s[i][1]
        BY <1>2, <2>1
    <2>5. QED
        BY <2>2, <2>3, <2>4
<1> HIDE DEF n
<1> DEFINE Sol(e) == e = [i \in 0..n |-> IF i = 0 THEN <<>> ELSE Merge(e[i - 1], s[i])]
           f == CHOOSE e : Sol(e)
<1>9. Coalesced(rs) = f[n]
    BY <1>4, <1>7 DEF Coalesced, Merge, Wider
<1>10. \E e : Sol(e)
    <2> DEFINE R == Seq(Ranges)
               H == [i \in 1..n |-> [x \in R |-> Merge(x, s[i])]]
    <2>1. \A i \in 1..n : \A x \in R : H[i][x] = Merge(x, s[i]) /\ H[i][x] \in R
        BY <1>7, MergeParts
    <2>2. <<>> \in R
        OBVIOUS
    <2> HIDE DEF H, R
    <2>3. PICK e \in [0..n -> R] : e[0] = <<>> /\ \A i \in 1..n : e[i] = H[i][e[i - 1]]
        <3>1. Steps(n, R, <<>>, H)
            BY <1>6, <2>1, <2>2 DEF Steps
        <3>2. QED
            BY <3>1, StepsHaveSolution DEF Stepped
    <2>4. \A i \in 0..n : i # 0 => i \in 1..n /\ i - 1 \in 0..n
        BY <1>6
    <2>5. \A i \in 0..n : e[i] = IF i = 0 THEN <<>> ELSE Merge(e[i - 1], s[i])
        BY <2>1, <2>3, <2>4
    <2>6. e = [i \in 0..n |-> IF i = 0 THEN <<>> ELSE Merge(e[i - 1], s[i])]
        BY <2>3, <2>5
    <2>7. QED
        BY <2>6
<1>11. Sol(f)
    <2> HIDE DEF Sol
    <2>1. QED
        BY <1>10
<1>12. f[0] = <<>> /\ \A i \in 1..n : f[i] = Merge(f[i - 1], s[i])
    <2>1. 0 \in 0..n /\ \A i \in 1..n : i \in 0..n /\ i # 0
        BY <1>6
    <2> HIDE DEF f
    <2>2. QED
        BY <1>11, <2>1
<1> HIDE DEF f, Sol
<1> DEFINE Fine(i) == /\ Separate(f[i])
                      /\ i # 0 => f[i] # <<>> /\ f[i][Len(f[i])][1] <= s[i][1]
                      /\ i = 0 => f[i] = <<>>
                      /\ \A x \in Nat : Holds(f[i], x) <=> \E j \in 1..i : s[j][1] <= x /\ x < s[j][2]
           T == {i \in 0..n : Fine(i)}
<1>13. Fine(0)
    <2>1. Separate(<<>>) /\ \A x \in Nat : ~Holds(<<>>, x)
        BY DEF Separate, Holds
    <2>2. QED
        BY <1>12, <2>1
<1>14. ASSUME NEW i \in 1..n, i - 1 \in T PROVE i \in T
    <2>1. Fine(i - 1) /\ i \in 0..n /\ i # 0
        BY <1>6, <1>14
    <2>2. s[i] \in Ranges /\ s[i][1] \in Nat
        BY <1>7 DEF Ranges
    <2>3. f[i - 1] # <<>> => f[i - 1][Len(f[i - 1])][1] <= s[i][1]
        <3> SUFFICES ASSUME f[i - 1] # <<>> PROVE f[i - 1][Len(f[i - 1])][1] <= s[i][1]
            OBVIOUS
        <3>1. i - 1 # 0 /\ f[i - 1][Len(f[i - 1])][1] <= s[i - 1][1]
            BY <2>1
        <3>2. i - 1 \in 1..n /\ i - 1 <= i
            BY <1>6, <3>1
        <3>3. s[i - 1][1] <= s[i][1]
            BY <1>8, <3>2
        <3>4. s[i - 1][1] \in Nat
            BY <1>7, <3>2 DEF Ranges
        <3>5. f[i - 1][Len(f[i - 1])][1] \in Nat
            <4>1. f[i - 1] \in Seq(Ranges)
                BY <2>1 DEF Separate
            <4>2. f[i - 1][Len(f[i - 1])] \in Ranges
                BY <2>1, <3>1, <4>1
            <4>3. QED
                BY <4>2 DEF Ranges
        <3>6. QED
            BY <2>2, <3>1, <3>3, <3>4, <3>5
    <2>4. f[i] = Merge(f[i - 1], s[i])
        BY <1>12
    <2>5. Separate(f[i - 1])
        BY <2>1
    <2>6. /\ Separate(f[i]) /\ f[i] # <<>> /\ f[i][Len(f[i])][1] <= s[i][1]
          /\ \A x \in Nat : Holds(f[i], x) <=> Holds(f[i - 1], x) \/ (s[i][1] <= x /\ x < s[i][2])
        BY <2>2, <2>3, <2>4, <2>5, MergeKeeps
    <2>7. \A x \in Nat : Holds(f[i], x) <=> \E j \in 1..i : s[j][1] <= x /\ x < s[j][2]
        <3>1. \A j \in 1..i : j = i \/ j \in 1..(i - 1)
            BY <1>6
        <3>2. i \in 1..i /\ \A j \in 1..(i - 1) : j \in 1..i
            BY <1>6
        <3>3. \A x \in Nat : Holds(f[i - 1], x) <=> \E j \in 1..(i - 1) : s[j][1] <= x /\ x < s[j][2]
            BY <2>1
        <3>4. QED
            BY <2>6, <3>1, <3>2, <3>3
    <2>8. QED
        BY <2>1, <2>6, <2>7
<1>15. 0 \in T
    BY <1>6, <1>13
<1>16. n \in T
    <2> HIDE DEF T
    <2>1. \A i \in 0..n : i \in T
        BY <1>6, <1>14, <1>15, CountUp
    <2>2. n \in 0..n
        BY <1>6
    <2>3. QED
        BY <2>1, <2>2
<1>17. Fine(n)
    BY <1>16
<1>18. \A x \in Nat : (\E j \in 1..n : s[j][1] <= x /\ x < s[j][2]) <=> \E r \in rs : r[1] <= x /\ x < r[2]
    BY <1>6
<1>19. QED
    BY <1>9, <1>17, <1>18

\* The map that buildIndexMap fills is the inverse of the preorder.
LEMMA IndexMapFacts ==
    ASSUME NEW root, NEW pre, IsPreorder(root, pre)
    PROVE  /\ IndexMap(pre) \in [Range(pre) -> 0..(Len(pre) - 1)]
           /\ \A i \in DOMAIN pre : pre[i] \in Range(pre) /\ IndexMap(pre)[pre[i]] = i - 1
           /\ \A v \in Range(pre) : IndexMap(pre)[v] + 1 \in DOMAIN pre /\ pre[IndexMap(pre)[v] + 1] = v
<1> DEFINE ind == IndexMap(pre)
<1>1. /\ Len(pre) \in Nat /\ DOMAIN pre = 1..Len(pre)
      /\ \A i, j \in DOMAIN pre : pre[i] = pre[j] => i = j
    BY DEF IsPreorder
<1>2. \A v \in Range(pre) : \E i \in DOMAIN pre : pre[i] = v
    BY DEF Range
<1>3. \A i \in DOMAIN pre : pre[i] \in Range(pre)
    BY DEF Range
<1>4. ind = [v \in Range(pre) |-> (CHOOSE i \in DOMAIN pre : pre[i] = v) - 1]
    BY DEF IndexMap
<1>5. ASSUME NEW i \in DOMAIN pre PROVE ind[pre[i]] = i - 1
    <2> DEFINE j == CHOOSE k \in DOMAIN pre : pre[k] = pre[i]
    <2>1. j \in DOMAIN pre /\ pre[j] = pre[i]
        OBVIOUS
    <2>2. j = i
        <3> HIDE DEF j
        <3>1. QED
            BY <1>1, <2>1
    <2>3. ind[pre[i]] = j - 1
        BY <1>3, <1>4
    <2> HIDE DEF j, ind
    <2>4. QED
        BY <2>2, <2>3
<1> HIDE DEF ind
<1>6. ASSUME NEW v \in Range(pre)
      PROVE  ind[v] \in 0..(Len(pre) - 1) /\ ind[v] + 1 \in DOMAIN pre /\ pre[ind[v] + 1] = v
    <2>1. PICK i \in DOMAIN pre : pre[i] = v
        BY <1>2
    <2>2. ind[v] = i - 1
        BY <1>5, <2>1
    <2>3. i \in 1..Len(pre) /\ (i - 1) + 1 = i /\ i - 1 \in 0..(Len(pre) - 1)
        BY <1>1
    <2>4. QED
        BY <2>1, <2>2, <2>3
<1>7. ind \in [Range(pre) -> 0..(Len(pre) - 1)]
    BY <1>4, <1>6
<1>8. QED
    BY <1>3, <1>5, <1>6, <1>7 DEF ind

\* A list holds finitely many elements.
LEMMA RangeIsFinite ==
    ASSUME NEW S, NEW s \in Seq(S)
    PROVE  IsFiniteSet(Range(s)) /\ Range(s) \subseteq S
<1>1. Len(s) \in Nat /\ s \in [1..Len(s) -> S]
    OBVIOUS
<1>2. s \in Surjection(1..Len(s), Range(s))
    BY <1>1 DEF Surjection, Range
<1>3. IsFiniteSet(1..Len(s))
    BY <1>1, FS_Interval
<1>4. QED
    BY <1>1, <1>2, <1>3, FS_Surjection DEF Range

\* The classes can be numbered so that every class comes before those derived from it.
LEMMA ClassesFinite == Queries => IsFiniteSet({v[1] : v \in vtables})
<1> SUFFICES ASSUME Queries PROVE IsFiniteSet({v[1] : v \in vtables})
    OBVIOUS
<1> DEFINE classes == {v[1] : v \in vtables}
           f == [v \in vtables |-> v[1]]
<1>1. f \in Surjection(vtables, classes)
    BY DEF Surjection
<1> HIDE DEF f, classes
<1>2. IsFiniteSet(classes)
    BY <1>1, VtablesFinite, FS_Surjection
<1>3. QED
    BY <1>2 DEF classes

\* Classes can be numbered so that deriving leads to a greater number.
LEMMA ClassLevels ==
    ASSUME Queries
    PROVE  \E N \in Nat : \E level \in [{v[1] : v \in vtables} -> 1..N] :
              \A v \in vtables : level[v[1]] \in 1..N /\ \A c \in cha.children[v] : level[v[1]] < level[c[1]]
<1> DEFINE classes == {v[1] : v \in vtables}
           N == Cardinality(classes)
<1>1. IsFiniteSet(classes)
    BY ClassesFinite
<1>2. N \in Nat
    <2> HIDE DEF classes
    <2>1. QED
        BY <1>1, FS_CardinalityType
<1>3. PICK level \in [classes -> 1..N] :
         \A e \in {e \in vtables \X vtables : e[2] \in cha.children[e[1]]} : level[e[1][1]] < level[e[2][1]]
    BY Zenon DEF Queries, WellFormed, vtables
<1>4. \A v \in vtables : level[v[1]] \in 1..N
    BY <1>3
<1>5. \A v \in vtables : \A c \in cha.children[v] : level[v[1]] < level[c[1]]
    <2> TAKE v \in vtables
    <2> TAKE c \in cha.children[v]
    <2>1. c \in vtables
        BY ChildrenAreVtables
    <2>2. <<v, c>> \in {e \in vtables \X vtables : e[2] \in cha.children[e[1]]}
        BY <2>1
    <2>3. level[<<v, c>>[1][1]] < level[<<v, c>>[2][1]]
        BY <1>3, <2>2, Zenon
    <2>4. QED
        BY <2>3
<1> HIDE DEF N, classes
<1>6. QED
    BY <1>2, <1>4, <1>5 DEF classes

\* Vtables have a measure that falls towards their children.
LEMMA Levels ==
    ASSUME Queries
    PROVE  \E M \in [vtables -> Nat] : \A v \in vtables : \A c \in cha.children[v] : M[c] < M[v]
<1>1. PICK N \in Nat : \E level \in [{v[1] : v \in vtables} -> 1..N] :
         \A v \in vtables : level[v[1]] \in 1..N /\ \A c \in cha.children[v] : level[v[1]] < level[c[1]]
    BY ClassLevels
<1>2. PICK level \in [{v[1] : v \in vtables} -> 1..N] :
         \A v \in vtables : level[v[1]] \in 1..N /\ \A c \in cha.children[v] : level[v[1]] < level[c[1]]
    BY <1>1
<1>3. \A v \in vtables : cha.children[v] \subseteq vtables
    BY ChildrenAreVtables
<1> DEFINE M == [v \in vtables |-> N - level[v[1]]]
<1>4. M \in [vtables -> Nat]
    BY <1>2
<1>5. \A v \in vtables : \A c \in cha.children[v] : M[c] < M[v]
    BY <1>2, <1>3
<1>6. QED
    BY <1>4, <1>5

\* What is below a vtable is that vtable and what is below its children.
LEMMA ReachUnfolds ==
    ASSUME Queries, NEW v \in vtables
    PROVE  \A x : x \in Reach(v) <=> x = v \/ \E c \in cha.children[v] : x \in Reach(c)
<1> DEFINE X == {v} \cup UNION {Reach(c) : c \in cha.children[v]}
<1>1. cha.children[v] \subseteq vtables
    BY ChildrenAreVtables
<1>2. X \subseteq Reach(v)
    BY <1>1, ReachFacts
<1>3. \A c \in cha.children[v] : c \in Reach(c)
    BY <1>1, ReachFacts
<1>4. \A c \in cha.children[v] : \A w \in Reach(c) : cha.children[w] \subseteq Reach(c)
    BY <1>1, ReachFacts
<1>5. Closed(X)
    BY <1>3, <1>4 DEF Closed
<1>6. Reach(v) \subseteq vtables
    BY ReachFacts
<1>7. Reach(v) \subseteq X
    <2>1. v \in X /\ X \in SUBSET vtables
        BY <1>2, <1>6
    <2> HIDE DEF X
    <2>2. QED
        BY <1>5, <2>1, ReachFacts
<1>8. QED
    BY <1>2, <1>7

\* calculateVPtrRangesHelper: the ranges of a vtable hold the indices of what is at
\* or below it, and no others.
LEMMA VPtrRangesHold ==
    ASSUME Queries, NEW root \in vtables, NEW pre, IsPreorder(root, pre),
           \A v \in Range(pre) : v \notin DOMAIN rangeMap
    PROVE  /\ DOMAIN VPtrRanges(pre) = Range(pre)
           /\ \A v \in Range(pre) :
                 /\ Separate(VPtrRanges(pre)[v])
                 /\ \A x \in Nat : Holds(VPtrRanges(pre)[v], x) <=> \E w \in Reach(v) : x = IndexMap(pre)[w]
<1> DEFINE S == Range(pre)
           ind == IndexMap(pre)
           R == Seq(Ranges)
           Own(v, h) == {<<ind[v], ind[v] + 1>>} \cup UNION {Range(h[c]) : c \in cha.children[v]}
           Body(v, h) == IF v \in DOMAIN rangeMap THEN rangeMap[v] ELSE Coalesced(Own(v, h))
           Sol(e) == e = [v \in S |-> Body(v, e)]
           all == CHOOSE e : Sol(e)
<1>1. VPtrRanges(pre) = all
    BY DEF VPtrRanges
<1>2. S \subseteq vtables /\ \A v \in S : cha.children[v] \subseteq S
    <2>1. S = Reach(root)
        BY DEF IsPreorder
    <2>2. QED
        BY <2>1, ReachFacts
<1>3. \A v \in S : ind[v] \in Nat
    BY IndexMapFacts
<1>4. PICK level \in [vtables -> Nat] : \A v \in vtables : \A c \in cha.children[v] : level[c] < level[v]
    BY Levels
<1> DEFINE M == [v \in S |-> level[v]]
<1>5. M \in [S -> Nat] /\ \A v \in S : \A c \in cha.children[v] : c \in Under(S, M, v)
    <2>1. \A v \in S : M[v] = level[v] /\ level[v] \in Nat
        BY <1>2, <1>4
    <2>2. M \in [S -> Nat]
        BY <2>1
    <2>3. \A v \in S : \A c \in cha.children[v] : c \in S /\ M[c] < M[v]
        BY <1>2, <1>4, <2>1
    <2> HIDE DEF M, S
    <2>4. QED
        BY <2>2, <2>3 DEF Under
<1>6. \A v \in S : v \notin DOMAIN rangeMap
    OBVIOUS
<1>7. ASSUME NEW v \in S, NEW h, \A c \in cha.children[v] : h[c] \in R
      PROVE  IsFiniteSet(Own(v, h)) /\ Own(v, h) \subseteq Ranges
    <2> DEFINE C == cha.children[v]
               U == {Range(h[c]) : c \in C}
    <2>1. IsFiniteSet(C)
        BY <1>2, VtablesFinite, FS_Subset
    <2>2. \A c \in C : IsFiniteSet(Range(h[c])) /\ Range(h[c]) \subseteq Ranges
        BY <1>7, RangeIsFinite
    <2>3. IsFiniteSet(U)
        <3> DEFINE f == [c \in C |-> Range(h[c])]
        <3>1. f \in Surjection(C, U)
            BY DEF Surjection
        <3> HIDE DEF f, U, C
        <3>2. QED
            BY <2>1, <3>1, FS_Surjection
    <2>4. \A T \in U : IsFiniteSet(T)
        BY <2>2
    <2>5. IsFiniteSet(UNION U)
        <3> HIDE DEF U
        <3>1. QED
            BY <2>3, <2>4, FS_UNION
    <2>6. <<ind[v], ind[v] + 1>> \in Ranges
        <3>1. ind[v] \in Nat
            BY <1>3
        <3> HIDE DEF ind
        <3>2. QED
            BY <3>1 DEF Ranges
    <2>7. IsFiniteSet({<<ind[v], ind[v] + 1>>} \cup UNION U)
        <3>1. IsFiniteSet((UNION U) \cup {<<ind[v], ind[v] + 1>>})
            <4> HIDE DEF U, ind
            <4>1. QED
                BY <2>5, FS_AddElement
        <3>2. (UNION U) \cup {<<ind[v], ind[v] + 1>>} = {<<ind[v], ind[v] + 1>>} \cup UNION U
            <4> HIDE DEF U, ind
            <4>1. QED
                OBVIOUS
        <3>3. QED
            BY <3>1, <3>2, Zenon
    <2>8. UNION U \subseteq Ranges
        BY <2>2
    <2> HIDE DEF ind
    <2>9. QED
        BY <2>6, <2>7, <2>8
<1>8. \E e : Sol(e) /\ \A v \in S : e[v] \in R
    <2> DEFINE G == [v \in S |-> [h \in [Under(S, M, v) -> R] |-> Body(v, h)]]
    <2>1. ASSUME NEW v \in S, NEW h \in [Under(S, M, v) -> R] PROVE Body(v, h) \in R
        <3>1. \A c \in cha.children[v] : h[c] \in R
            <4> HIDE DEF S, M, R
            <4>1. QED
                BY <1>5
        <3>2. IsFiniteSet(Own(v, h)) /\ Own(v, h) \subseteq Ranges
            BY <1>7, <3>1
        <3>3. Body(v, h) = Coalesced(Own(v, h))
            BY <1>6
        <3> HIDE DEF Own
        <3>4. Coalesced(Own(v, h)) \in R
            BY <3>2, CoalescedRanges DEF Separate
        <3>5. QED
            BY <3>3, <3>4
    <2> HIDE DEF Body
    <2>2. Recursion(S, R, M, G)
        <3>1. ASSUME NEW v \in S, NEW h \in [Under(S, M, v) -> R] PROVE G[v][h] \in R
            <4>1. G[v][h] = Body(v, h)
                OBVIOUS
            <4>2. QED
                BY <2>1, <4>1
        <3> HIDE DEF G, S, M, R
        <3>2. QED
            BY <1>5, <3>1 DEF Recursion
    <2>3. PICK f \in [S -> R] : Follows(S, S, M, G, f)
        <3> HIDE DEF G, S, M, R
        <3>1. QED
            BY <2>2, RecursionHasSolution
    <2>4. ASSUME NEW v \in S PROVE f[v] = Body(v, f)
        <3> DEFINE h == [y \in Under(S, M, v) |-> f[y]]
        <3>1. f[v] = G[v][h]
            BY <2>3 DEF Follows
        <3>2. h \in [Under(S, M, v) -> R]
            <4> HIDE DEF G, S, M, R
            <4>1. QED
                BY <2>3 DEF Under
        <3>3. G[v][h] = Body(v, h)
            <4> HIDE DEF h
            <4>1. QED
                BY <3>2
        <3>4. Body(v, h) = Body(v, f)
            <4>1. \A c \in cha.children[v] : h[c] = f[c]
                <5> HIDE DEF S, M
                <5>1. QED
                    BY <1>5
            <4> HIDE DEF h, S, M, ind
            <4>2. {Range(h[c]) : c \in cha.children[v]} = {Range(f[c]) : c \in cha.children[v]}
                BY <4>1
            <4>3. QED
                BY <4>2 DEF Body
        <3>5. QED
            BY <3>1, <3>3, <3>4
    <2>5. f = [v \in S |-> Body(v, f)] /\ \A v \in S : f[v] \in R
        <3>1. f = [v \in S |-> f[v]] /\ \A v \in S : f[v] \in R
            <4> HIDE DEF S, R
            <4>1. QED
                BY <2>3
        <3> HIDE DEF S
        <3>2. QED
            BY <2>4, <3>1
    <2>6. QED
        BY <2>5
<1>9. Sol(all)
    <2> HIDE DEF Sol
    <2>1. QED
        BY <1>8
<1>10. DOMAIN all = S /\ \A v \in S : all[v] = Coalesced(Own(v, all))
    <2>1. all = [v \in S |-> Body(v, all)]
        BY <1>9
    <2> HIDE DEF all, S, Own
    <2>2. DOMAIN all = S /\ \A v \in S : all[v] = Body(v, all)
        BY <2>1
    <2>3. QED
        BY <1>6, <2>2 DEF S
<1> HIDE DEF all
<1> DEFINE Fine(v) == /\ Separate(all[v])
                      /\ \A x \in Nat : Holds(all[v], x) <=> \E w \in Reach(v) : x = ind[w]
           Bad == {v \in S : ~Fine(v)}
           T == {level[v] : v \in Bad}
<1>11. Bad = {}
    <2> SUFFICES ASSUME Bad # {} PROVE FALSE
        OBVIOUS
    <2>1. T \subseteq Nat /\ T # {}
        BY <1>2
    <2>2. PICK i \in T : \A j \in T : i <= j
        <3> HIDE DEF T
        <3>1. QED
            BY <2>1, Least
    <2>3. PICK v \in Bad : level[v] = i
        OBVIOUS
    <2>4. v \in S /\ ~Fine(v)
        OBVIOUS
    <2>5. \A c \in cha.children[v] : Fine(c)
        <3> SUFFICES ASSUME NEW c \in cha.children[v], ~Fine(c) PROVE FALSE
            OBVIOUS
        <3>1. c \in S /\ level[c] < level[v] /\ level[c] \in Nat /\ level[v] \in Nat
            BY <1>2, <1>4, <2>4
        <3>2. level[c] \in T
            BY <3>1
        <3>3. i <= level[c] /\ i = level[v]
            <4> HIDE DEF T, Bad, Fine
            <4>1. QED
                BY <2>2, <2>3, <3>2
        <3>4. QED
            BY <3>1, <3>3
    <2> HIDE DEF Bad, T
    <2> DEFINE O == Own(v, all)
    <2>6. IsFiniteSet(O) /\ O \subseteq Ranges
        <3>1. \A c \in cha.children[v] : all[c] \in R
            BY <2>5 DEF Separate
        <3>2. QED
            BY <1>7, <2>4, <3>1
    <2>7. all[v] = Coalesced(O)
        BY <1>10, <2>4
    <2>8. Separate(all[v]) /\ \A x \in Nat : Holds(all[v], x) <=> \E r \in O : r[1] <= x /\ x < r[2]
        <3> HIDE DEF O
        <3>1. QED
            BY <2>6, <2>7, CoalescedRanges
    <2>9. ASSUME NEW x \in Nat
          PROVE  (\E r \in O : r[1] <= x /\ x < r[2]) <=> \E w \in Reach(v) : x = ind[w]
        <3>1. ind[v] \in Nat
            BY <1>3, <2>4
        <3>2. (\E r \in O : r[1] <= x /\ x < r[2]) <=>
                 \/ x = ind[v]
                 \/ \E c \in cha.children[v] : \E r \in Range(all[c]) : r[1] <= x /\ x < r[2]
            <4>1. \A r : r \in O <=> r = <<ind[v], ind[v] + 1>> \/ \E c \in cha.children[v] : r \in Range(all[c])
                <5> HIDE DEF ind
                <5>1. QED
                    OBVIOUS
            <4>2. <<ind[v], ind[v] + 1>>[1] <= x /\ x < <<ind[v], ind[v] + 1>>[2] <=> x = ind[v]
                <5> HIDE DEF ind
                <5>1. QED
                    BY <3>1
            <4> HIDE DEF O, ind
            <4>3. QED
                BY <4>1, <4>2
        <3>3. \A c \in cha.children[v] : (\E r \in Range(all[c]) : r[1] <= x /\ x < r[2]) <=> Holds(all[c], x)
            BY DEF Range, Holds
        <3>4. \A c \in cha.children[v] : Holds(all[c], x) <=> \E w \in Reach(c) : x = ind[w]
            BY <2>5
        <3>5. \A w : w \in Reach(v) <=> w = v \/ \E c \in cha.children[v] : w \in Reach(c)
            BY <1>2, <2>4, ReachUnfolds
        <3> HIDE DEF O, ind
        <3>6. QED
            BY <3>2, <3>3, <3>4, <3>5
    <2>10. Fine(v)
        BY <2>8, <2>9
    <2>11. QED
        BY <2>4, <2>10
<1>12. QED
    BY <1>1, <1>10, <1>11

-----------------------------------------------------------------------------
(* Clouds.                                                                 *)

Cloud(r) == preorder(<<r, 0>>)

\* Every vtable is in the cloud of its root, and in no other.
LEMMA CloudFacts ==
    ASSUME Queries
    PROVE  /\ \A r \in cha.roots : /\ <<r, 0>> \in vtables /\ IsPreorder(<<r, 0>>, Cloud(r))
                                   /\ Range(Cloud(r)) = {v \in vtables : cha.ancestor[v] = r}
           /\ \A v \in vtables : cha.ancestor[v] \in cha.roots
           /\ \A v \in vtables : \A w \in Reach(v) : w \in vtables /\ cha.ancestor[w] = cha.ancestor[v]
<1>1. /\ \A r \in cha.roots : <<r, 0>> \in vtables /\ cha.ancestor[<<r, 0>>] = r
      /\ \A v \in vtables : v \in {<<r, 0>> : r \in cha.roots} \/ \E u \in vtables : v \in cha.children[u]
    BY Zenon DEF Queries, WellFormed, vtables
<1>2. \A v \in vtables : \A c \in cha.children[v] : c \in vtables /\ cha.ancestor[v] = cha.ancestor[c]
    <2> TAKE v \in vtables
    <2> TAKE c \in cha.children[v]
    <2>1. \A e \in {e \in vtables \X vtables : e[2] \in cha.children[e[1]]} : cha.ancestor[e[1]] = cha.ancestor[e[2]]
        BY Zenon DEF Queries, WellFormed, vtables
    <2>2. c \in vtables
        BY ChildrenAreVtables
    <2>3. <<v, c>> \in {e \in vtables \X vtables : e[2] \in cha.children[e[1]]}
        BY <2>2
    <2>4. cha.ancestor[<<v, c>>[1]] = cha.ancestor[<<v, c>>[2]]
        BY <2>1, <2>3, Zenon
    <2>5. QED
        BY <2>2, <2>4
<1>3. \A r \in cha.roots : IsPreorder(<<r, 0>>, Cloud(r))
    BY <1>1, PreorderFacts DEF Cloud
<1>4. \A v \in vtables : \A w \in Reach(v) : w \in vtables /\ cha.ancestor[w] = cha.ancestor[v]
    <2> TAKE v \in vtables
    <2> DEFINE X == {x \in vtables : cha.ancestor[x] = cha.ancestor[v]}
    <2>1. X \in SUBSET vtables /\ v \in X /\ Closed(X)
        BY <1>2 DEF Closed
    <2> HIDE DEF X
    <2>2. Reach(v) \subseteq X
        BY <2>1, ReachFacts
    <2>3. QED
        BY <2>2 DEF X
<1> DEFINE Covered(v) == \E r \in cha.roots : v \in Reach(<<r, 0>>)
           Bad == {v \in vtables : ~Covered(v)}
<1>5. PICK N \in Nat : \E level \in [{v[1] : v \in vtables} -> 1..N] :
         \A v \in vtables : level[v[1]] \in 1..N /\ \A c \in cha.children[v] : level[v[1]] < level[c[1]]
    BY ClassLevels
<1>6. PICK level \in [{v[1] : v \in vtables} -> 1..N] :
         \A v \in vtables : level[v[1]] \in 1..N /\ \A c \in cha.children[v] : level[v[1]] < level[c[1]]
    BY <1>5
<1>7. Bad = {}
    <2> SUFFICES ASSUME Bad # {} PROVE FALSE
        OBVIOUS
    <2> DEFINE T == {level[v[1]] : v \in Bad}
    <2>1. T \subseteq Nat /\ T # {}
        <3>1. \A v \in vtables : level[v[1]] \in Nat
            BY <1>6
        <3>2. Bad \subseteq vtables
            OBVIOUS
        <3> HIDE DEF Bad
        <3>3. QED
            BY <3>1, <3>2
    <2>2. PICK i \in T : \A j \in T : i <= j
        <3> HIDE DEF T
        <3>1. QED
            BY <2>1, Least
    <2>3. PICK v \in Bad : level[v[1]] = i
        OBVIOUS
    <2>4. v \in vtables /\ ~Covered(v)
        OBVIOUS
    <2>5. ~\E r \in cha.roots : v = <<r, 0>>
        <3>1. \A r \in cha.roots : <<r, 0>> \in Reach(<<r, 0>>)
            BY <1>1, ReachFacts
        <3>2. QED
            BY <2>4, <3>1
    <2>6. PICK u \in vtables : v \in cha.children[u]
        BY <1>1, <2>4, <2>5
    <2>7. level[u[1]] < level[v[1]] /\ level[u[1]] \in Nat /\ level[v[1]] \in Nat
        BY <1>6, <2>4, <2>6
    <2>8. u \in Bad
        <3> SUFFICES ASSUME Covered(u) PROVE FALSE
            OBVIOUS
        <3>1. PICK r \in cha.roots : u \in Reach(<<r, 0>>)
            OBVIOUS
        <3>2. cha.children[u] \subseteq Reach(<<r, 0>>)
            BY <1>1, <3>1, ReachFacts
        <3>3. QED
            BY <2>4, <2>6, <3>2
    <2>9. level[u[1]] \in T
        BY <2>8
    <2>10. i <= level[u[1]] /\ i = level[v[1]]
        <3> HIDE DEF T, Bad
        <3>1. QED
            BY <2>2, <2>3, <2>9
    <2>11. QED
        BY <2>7, <2>10
<1>8. \A v \in vtables : \E r \in cha.roots : v \in Reach(<<r, 0>>) /\ cha.ancestor[v] = r
    <2> TAKE v \in vtables
    <2>1. PICK r \in cha.roots : v \in Reach(<<r, 0>>)
        BY <1>7
    <2>2. cha.ancestor[v] = r
        BY <1>1, <1>4, <2>1
    <2>3. QED
        BY <2>1, <2>2
<1>9. ASSUME NEW r \in cha.roots PROVE Range(Cloud(r)) = {v \in vtables : cha.ancestor[v] = r}
    <2>1. Range(Cloud(r)) = Reach(<<r, 0>>)
        BY <1>3 DEF IsPreorder
    <2>2. \A v \in Reach(<<r, 0>>) : v \in vtables /\ cha.ancestor[v] = r
        BY <1>1, <1>4
    <2>3. \A v \in vtables : cha.ancestor[v] = r => v \in Reach(<<r, 0>>)
        BY <1>8
    <2>4. QED
        BY <2>1, <2>2, <2>3
<1>10. \A v \in vtables : cha.ancestor[v] \in cha.roots
    BY <1>8
<1>11. \A r \in cha.roots : <<r, 0>> \in vtables
    BY <1>1
<1> HIDE DEF Bad
<1>12. QED
    BY <1>3, <1>4, <1>9, <1>10, <1>11, Zenon

-----------------------------------------------------------------------------
(* What the steps keep.                                                    *)

ChecksVars == <<vars, checkVars>>

\* What has been read.
FromInput == \E input \in Inputs :
    cha = input.cha /\ interleave = input.interleave /\ callSites = input.callSites

\* The loops of buildNewLayouts follow each other.
Loops ==
    /\ laidOut \subseteq cha.roots /\ emitted \subseteq cha.roots /\ ranged \subseteq cha.roots
    /\ emitted # {} => laidOut = cha.roots
    /\ ranged # {} => emitted = cha.roots
    /\ verified # "pending" => Built

HasRanges(v) ==
    /\ Separate(rangeMap[v])
    /\ \A x \in Nat : Holds(rangeMap[v], x) <=> \E w \in Reach(v) : x = IndexMap(Cloud(cha.ancestor[v]))[w]

RangesDone ==
    /\ DOMAIN rangeMap = {v \in vtables : cha.ancestor[v] \in ranged}
    /\ \A v \in DOMAIN rangeMap : HasRanges(v)

RangesInv == FromInput /\ Loops /\ RangesDone

\* What the pass reads satisfies the assumption on its inputs.
LEMMA ReadIsWellFormed ==
    ASSUME FromInput
    PROVE  Queries /\ interleave \in BOOLEAN
BY InputsAssumption DEF FromInput, Queries

\* Nothing is done at first.
LEMMA RangesInit == ChecksInit => RangesInv
<1> SUFFICES ASSUME ChecksInit PROVE RangesInv
    OBVIOUS
<1>1. FromInput
    BY DEF ChecksInit, InitFrom, FromInput
<1>2. laidOut = {} /\ emitted = {} /\ ranged = {} /\ rangeMap = NoMap /\ verified = "pending"
    BY DEF ChecksInit, InitFrom
<1>3. Loops
    BY <1>2 DEF Loops
<1>4. RangesDone
    BY <1>2 DEF RangesDone, NoMap
<1>5. QED
    BY <1>1, <1>3, <1>4 DEF RangesInv

\* The first loop goes on to the next cloud.
LEMMA RangesLayout ==
    ASSUME RangesInv, NEW root \in cha.roots, Layout(root)
    PROVE  Loops'
BY DEF RangesInv, Loops, Layout, Built, IsNext, inputVars, emitVars, rangeVars

\* The second loop goes on to the next cloud.
LEMMA RangesEmit ==
    ASSUME RangesInv, NEW root \in cha.roots, Emit(root)
    PROVE  Loops'
BY DEF RangesInv, Loops, Emit, Built, IsNext, inputVars, layoutVars, rangeVars

\* Third loop: the cloud of a root that has not been done gets its ranges.
LEMMA RangesAdded ==
    ASSUME RangesInv, NEW root \in cha.roots, calculateVPtrRanges(root)
    PROVE  Loops' /\ RangesDone'
<1> DEFINE pre == Cloud(root)
           all == VPtrRanges(pre)
<1>1. Queries
    BY ReadIsWellFormed DEF RangesInv
<1>2. /\ root \notin ranged /\ ranged' = ranged \cup {root} /\ laidOut = cha.roots /\ emitted = cha.roots
      /\ rangeMap' = Extend(rangeMap, all) /\ cha' = cha /\ UNCHANGED <<laidOut, emitted, verified>>
    BY DEF calculateVPtrRanges, IsNext, inputVars, Cloud
<1>3. Loops'
    BY <1>2 DEF RangesInv, Loops, Built
<1>4. <<root, 0>> \in vtables /\ IsPreorder(<<root, 0>>, pre) /\ Range(pre) = {v \in vtables : cha.ancestor[v] = root}
    BY <1>1, CloudFacts
<1>5. DOMAIN rangeMap = {v \in vtables : cha.ancestor[v] \in ranged} /\ \A v \in DOMAIN rangeMap : HasRanges(v)
    BY DEF RangesInv, RangesDone
<1>6. \A v \in Range(pre) : v \notin DOMAIN rangeMap
    BY <1>2, <1>4, <1>5
<1> HIDE DEF pre
<1>7. /\ DOMAIN all = Range(pre)
      /\ \A v \in Range(pre) :
            /\ Separate(all[v])
            /\ \A x \in Nat : Holds(all[v], x) <=> \E w \in Reach(v) : x = IndexMap(pre)[w]
    BY <1>1, <1>4, <1>6, VPtrRangesHold
<1> HIDE DEF all
<1>8. /\ DOMAIN rangeMap' = DOMAIN rangeMap \cup Range(pre)
      /\ \A v \in DOMAIN rangeMap : rangeMap'[v] = rangeMap[v]
      /\ \A v \in Range(pre) : rangeMap'[v] = all[v]
    BY <1>2, <1>6, <1>7 DEF Extend
<1>9. vtables' = vtables /\ \A v : Reach(v)' = Reach(v) /\ Cloud(v)' = Cloud(v)
    BY <1>2 DEF vtables, Reach, Closed, Cloud, preorder, InOrder, ByName
<1>10. DOMAIN rangeMap' = {v \in vtables : cha.ancestor[v] \in ranged'}
    BY <1>2, <1>4, <1>5, <1>8
<1>11. \A v \in DOMAIN rangeMap' :
          /\ Separate(rangeMap'[v])
          /\ \A x \in Nat : Holds(rangeMap'[v], x) <=> \E w \in Reach(v) : x = IndexMap(Cloud(cha.ancestor[v]))[w]
    <2> TAKE v \in DOMAIN rangeMap'
    <2>1. CASE v \in DOMAIN rangeMap
        BY <1>5, <1>8, <2>1 DEF HasRanges
    <2>2. CASE v \in Range(pre)
        <3>1. cha.ancestor[v] = root
            BY <1>4, <2>2
        <3>2. Cloud(cha.ancestor[v]) = pre
            BY <3>1 DEF pre
        <3>3. QED
            BY <1>7, <1>8, <2>2, <3>2
    <2>3. QED
        BY <1>8, <2>1, <2>2
<1>12. RangesDone'
    BY <1>2, <1>9, <1>10, <1>11 DEF RangesDone, HasRanges
<1>13. QED
    BY <1>3, <1>12

\* Every step of the pass, the linker and the program keeps RangesInv.
LEMMA RangesStep == RangesInv /\ [ChecksNext]_ChecksVars => RangesInv'
<1> SUFFICES ASSUME RangesInv, [ChecksNext]_ChecksVars PROVE RangesInv'
    OBVIOUS
<1>1. /\ cha' = cha /\ interleave' = interleave /\ callSites' = callSites
      /\ \/ \E root \in cha.roots : Layout(root) \/ Emit(root) \/ calculateVPtrRanges(root)
         \/ UNCHANGED <<laidOut, emitted, ranged, rangeMap>> /\ (verified' # verified => Built)
    BY DEF ChecksNext, ChecksVars, LayoutNext, Layout, Emit, calculateVPtrRanges, verifyNewLayouts,
           handleSDGetVtblIndex, handleSDGetCheckedVtbl, Link, ChecksDone, inputVars, vars, checkVars, emitVars, rangeVars
<1>2. FromInput'
    BY <1>1 DEF RangesInv, FromInput
<1>3. ASSUME rangeMap' = rangeMap, ranged' = ranged PROVE RangesDone'
    <2>1. vtables' = vtables /\ \A v : Reach(v)' = Reach(v) /\ Cloud(v)' = Cloud(v)
        BY <1>1 DEF vtables, Reach, Closed, Cloud, preorder, InOrder, ByName
    <2>2. QED
        BY <1>1, <1>3, <2>1 DEF RangesInv, RangesDone, HasRanges
<1>4. ASSUME NEW root \in cha.roots, Layout(root) PROVE RangesInv'
    <2>1. Loops'
        BY <1>4, RangesLayout
    <2>2. rangeMap' = rangeMap /\ ranged' = ranged
        BY <1>4 DEF Layout, rangeVars
    <2>3. QED
        BY <1>2, <1>3, <2>1, <2>2 DEF RangesInv
<1>5. ASSUME NEW root \in cha.roots, Emit(root) PROVE RangesInv'
    <2>1. Loops'
        BY <1>5, RangesEmit
    <2>2. rangeMap' = rangeMap /\ ranged' = ranged
        BY <1>5 DEF Emit, rangeVars
    <2>3. QED
        BY <1>2, <1>3, <2>1, <2>2 DEF RangesInv
<1>6. ASSUME NEW root \in cha.roots, calculateVPtrRanges(root) PROVE RangesInv'
    BY <1>2, <1>6, RangesAdded DEF RangesInv
<1>7. CASE UNCHANGED <<laidOut, emitted, ranged, rangeMap>> /\ (verified' # verified => Built)
    <2>1. Loops'
        BY <1>1, <1>7 DEF RangesInv, Loops, Built
    <2>2. QED
        BY <1>2, <1>3, <1>7, <2>1 DEF RangesInv
<1>8. QED
    BY <1>1, <1>4, <1>5, <1>6, <1>7

\* The invariant says of every vtable what RangesAreDescendants says.
LEMMA RangesHold == RangesInv => RangesAreDescendants
<1> SUFFICES ASSUME RangesInv, NEW root \in ranged, NEW v \in Range(Cloud(root))
             PROVE  LET ranges == rangeMap[v]
                    IN  /\ \A k \in 1..(Len(ranges) - 1) : ranges[k][2] < ranges[k + 1][1]
                        /\ UNION {ranges[k][1]..(ranges[k][2] - 1) : k \in DOMAIN ranges} =
                              {IndexMap(Cloud(root))[w] : w \in Range(preorder(v))}
    BY DEF RangesAreDescendants, Cloud
<1> DEFINE ranges == rangeMap[v]
           ind == IndexMap(Cloud(root))
           U == UNION {ranges[k][1]..(ranges[k][2] - 1) : k \in DOMAIN ranges}
<1>1. Queries /\ root \in cha.roots
    BY ReadIsWellFormed DEF RangesInv, Loops
<1>2. IsPreorder(<<root, 0>>, Cloud(root)) /\ v \in vtables /\ cha.ancestor[v] = root
    BY <1>1, CloudFacts
<1>3. v \in DOMAIN rangeMap /\ HasRanges(v)
    BY <1>2 DEF RangesInv, RangesDone
<1>4. Separate(ranges) /\ \A x \in Nat : Holds(ranges, x) <=> \E w \in Reach(v) : x = ind[w]
    BY <1>2, <1>3 DEF HasRanges
<1>5. IsPreorder(v, preorder(v))
    BY <1>1, <1>2, PreorderFacts
<1>6. Range(preorder(v)) = Reach(v)
    BY <1>5 DEF IsPreorder
<1>7. \A w \in Reach(v) : ind[w] \in Nat
    <2>1. Reach(v) \subseteq Range(Cloud(root))
        BY <1>1, <1>2, CloudFacts
    <2>2. Len(Cloud(root)) \in Nat
        BY <1>2 DEF IsPreorder
    <2>3. QED
        BY <1>2, <2>1, <2>2, IndexMapFacts
<1> HIDE DEF ranges, ind
<1>8. \A k \in DOMAIN ranges : ranges[k][1] \in Nat /\ ranges[k][2] \in Nat
    BY <1>4 DEF Separate, Ranges
<1>9. \A x : x \in U <=> x \in Nat /\ Holds(ranges, x)
    BY <1>8 DEF Holds
<1>10. U = {ind[w] : w \in Reach(v)}
    <2> HIDE DEF U
    <2>1. QED
        BY <1>4, <1>7, <1>9
<1>11. \A k \in 1..(Len(ranges) - 1) : ranges[k][2] < ranges[k + 1][1]
    BY <1>4 DEF Separate
<1>12. QED
    BY <1>6, <1>10, <1>11 DEF ranges, ind

\* verifyVPtrRanges, for all programs: the ranges of a vtable do not touch each
\* other and hold the places of the vtables at or below it and of no others.
THEOREM RangesAreDescendantsHold == ChecksSpec => []RangesAreDescendants
<1>1. RangesInv /\ [ChecksNext]_<<vars, checkVars>> => RangesInv'
    BY RangesStep DEF ChecksVars
<1>2. QED
    BY <1>1, RangesInit, RangesHold, PTL DEF ChecksSpec

-----------------------------------------------------------------------------
(* Slots.                                                                  *)

\* A vtable has at least what a vtable above it has, on both sides of the address
\* point.
LEMMA ShapeFacts ==
    ASSUME Queries
    PROVE  /\ \A v \in vtables : /\ start(v) \in Nat /\ cha.addrPt[v] \in Nat /\ end(v) \in Nat
                                 /\ start(v) <= cha.addrPt[v] /\ cha.addrPt[v] <= end(v)
           /\ \A v \in vtables : \A w \in Reach(v) :
                 relAddrPt(v) <= relAddrPt(w) /\ end(v) - cha.addrPt[v] <= end(w) - cha.addrPt[w]
           /\ \A v \in vtables : \A c \in cha.children[v] :
                 relAddrPt(v) <= relAddrPt(c) /\ end(v) - cha.addrPt[v] <= end(c) - cha.addrPt[c]
<1>1. \A v \in vtables : /\ cha.range[v][1] \in Nat /\ cha.addrPt[v] \in Nat /\ cha.range[v][2] \in Nat
                         /\ cha.range[v][1] <= cha.addrPt[v] /\ cha.addrPt[v] <= cha.range[v][2]
    BY Zenon DEF Queries, WellFormed, vtables
<1>2. \A e \in {e \in vtables \X vtables : e[2] \in cha.children[e[1]]} :
              /\ cha.addrPt[e[1]] - cha.range[e[1]][1] <= cha.addrPt[e[2]] - cha.range[e[2]][1]
              /\ cha.range[e[1]][2] - cha.addrPt[e[1]] <= cha.range[e[2]][2] - cha.addrPt[e[2]]
    BY Zenon DEF Queries, WellFormed, vtables
<1>3. \A v \in vtables : /\ start(v) \in Nat /\ cha.addrPt[v] \in Nat /\ end(v) \in Nat
                         /\ start(v) <= cha.addrPt[v] /\ cha.addrPt[v] <= end(v)
    BY <1>1 DEF start, end
<1>4. \A v \in vtables : \A c \in cha.children[v] :
                 relAddrPt(v) <= relAddrPt(c) /\ end(v) - cha.addrPt[v] <= end(c) - cha.addrPt[c]
    <2> TAKE v \in vtables
    <2> TAKE c \in cha.children[v]
    <2>1. c \in vtables
        BY ChildrenAreVtables
    <2> DEFINE e == <<v, c>>
    <2>2. e[1] = v /\ e[2] = c /\ e \in {f \in vtables \X vtables : f[2] \in cha.children[f[1]]}
        BY <2>1
    <2> HIDE DEF e
    <2>3. /\ cha.addrPt[e[1]] - cha.range[e[1]][1] <= cha.addrPt[e[2]] - cha.range[e[2]][1]
          /\ cha.range[e[1]][2] - cha.addrPt[e[1]] <= cha.range[e[2]][2] - cha.addrPt[e[2]]
        BY <1>2, <2>2, Zenon
    <2>4. QED
        BY <2>2, <2>3 DEF relAddrPt, start, end
<1>5. \A v \in vtables : \A w \in Reach(v) :
                 relAddrPt(v) <= relAddrPt(w) /\ end(v) - cha.addrPt[v] <= end(w) - cha.addrPt[w]
    <2> TAKE v \in vtables
    <2> DEFINE X == {w \in vtables : relAddrPt(v) <= relAddrPt(w) /\ end(v) - cha.addrPt[v] <= end(w) - cha.addrPt[w]}
    <2>1. \A u \in vtables : relAddrPt(u) \in Int /\ end(u) - cha.addrPt[u] \in Int
        BY <1>3 DEF relAddrPt
    <2>2. v \in X
        BY <2>1
    <2>3. Closed(X)
        <3> SUFFICES ASSUME NEW u \in X, NEW c \in cha.children[u] PROVE c \in X
            BY DEF Closed
        <3>1. u \in vtables /\ c \in vtables
            BY ChildrenAreVtables
        <3>2. relAddrPt(u) <= relAddrPt(c) /\ end(u) - cha.addrPt[u] <= end(c) - cha.addrPt[c]
            BY <1>4, <3>1
        <3>3. relAddrPt(v) <= relAddrPt(u) /\ end(v) - cha.addrPt[v] <= end(u) - cha.addrPt[u]
            OBVIOUS
        <3>4. /\ relAddrPt(v) \in Int /\ relAddrPt(u) \in Int /\ relAddrPt(c) \in Int
              /\ end(v) - cha.addrPt[v] \in Int /\ end(u) - cha.addrPt[u] \in Int /\ end(c) - cha.addrPt[c] \in Int
            BY <2>1, <3>1
        <3>5. \A a, b, d \in Int : a <= b /\ b <= d => a <= d
            OBVIOUS
        <3>6. relAddrPt(v) <= relAddrPt(c) /\ end(v) - cha.addrPt[v] <= end(c) - cha.addrPt[c]
            BY <3>2, <3>3, <3>4, <3>5, Zenon
        <3>7. QED
            BY <3>1, <3>6
    <2>4. X \subseteq vtables
        OBVIOUS
    <2> HIDE DEF X
    <2>5. Reach(v) \subseteq X
        BY <2>2, <2>3, <2>4, ReachFacts
    <2>6. QED
        BY <2>5 DEF X
<1>6. QED
    BY <1>3, <1>4, <1>5

\* Nothing is ever padded: a vtable has what its parents have.
NoPads == [v \in vtables |-> 0]

\* What the rows of a cloud are made of.
AllSlots(pre) == UNION {Slots(v, NoPads) : v \in Defined(pre)}
Comes(pre, s, t) == \/ Row(s) < Row(t)
                    \/ Row(s) = Row(t) /\ IndexMap(pre)[s[1]] < IndexMap(pre)[t[1]]
ComesBefore(pre) == {p \in AllSlots(pre) \X AllSlots(pre) : Comes(pre, p[1], p[2])}

\* The interleaved layout is the slots, sorted by their rows.
LEMMA InterleavedSorts == \A pre : Interleaved(pre, NoPads) = Sorted(AllSlots(pre), ComesBefore(pre))
BY DEF Interleaved, AllSlots, ComesBefore, Comes

\* The slots of a cloud are those of its defined vtables, and their rows order
\* them.
LEMMA SlotFacts ==
    ASSUME Queries, NEW root \in vtables, NEW pre, IsPreorder(root, pre)
    PROVE  /\ \A s : s \in AllSlots(pre) <=> \E v \in Defined(pre) : \E n \in start(v)..end(v) : s = <<v, n>>
           /\ \A s \in AllSlots(pre) : s[1] \in Defined(pre) /\ s[2] \in start(s[1])..end(s[1]) /\ s = <<s[1], s[2]>>
                                       /\ Row(s) \in Int
           /\ Defined(pre) \subseteq vtables /\ Defined(pre) \subseteq Range(pre) /\ IsFiniteSet(Defined(pre))
           /\ IsFiniteSet(AllSlots(pre))
           /\ Orders(ComesBefore(pre), AllSlots(pre))
<1>1. Defined(pre) \subseteq Range(pre) /\ Range(pre) \subseteq vtables /\ IsFiniteSet(Range(pre))
    BY RangeFinite DEF Defined, IsPreorder
<1>2. Defined(pre) \subseteq vtables /\ IsFiniteSet(Defined(pre))
    BY <1>1, FS_Subset
<1>3. \A v \in Defined(pre) : Slots(v, NoPads) = {v} \X (start(v)..end(v))
    <2> TAKE v \in Defined(pre)
    <2>1. NoPads[v] = 0 /\ start(v) \in Nat
        BY <1>2, ShapeFacts DEF NoPads
    <2>2. start(v) - 0 = start(v)
        BY <2>1
    <2>3. QED
        BY <2>1, <2>2 DEF Slots
<1>4. \A s : s \in AllSlots(pre) <=> \E v \in Defined(pre) : \E n \in start(v)..end(v) : s = <<v, n>>
    BY <1>3 DEF AllSlots
<1>5. \A s \in AllSlots(pre) : s[1] \in Defined(pre) /\ s[2] \in start(s[1])..end(s[1]) /\ s = <<s[1], s[2]>>
    BY <1>4
<1>6. \A s \in AllSlots(pre) : Row(s) \in Int
    <2> TAKE s \in AllSlots(pre)
    <2>1. s[2] \in Int /\ cha.addrPt[s[1]] \in Nat
        BY <1>2, <1>5, ShapeFacts
    <2>2. QED
        BY <2>1 DEF Row
<1>7. IsFiniteSet(AllSlots(pre))
    <2> DEFINE f == [v \in Defined(pre) |-> Slots(v, NoPads)]
               U == {Slots(v, NoPads) : v \in Defined(pre)}
    <2>1. f \in Surjection(Defined(pre), U)
        BY DEF Surjection
    <2>2. IsFiniteSet(U)
        <3> HIDE DEF f, U
        <3>1. QED
            BY <1>2, <2>1, FS_Surjection
    <2>3. ASSUME NEW v \in Defined(pre) PROVE IsFiniteSet(Slots(v, NoPads))
        <3>1. start(v) \in Int /\ end(v) \in Int
            BY <1>2, ShapeFacts
        <3>2. IsFiniteSet(start(v)..end(v))
            BY <3>1, FS_Interval
        <3>3. IsFiniteSet({v})
            BY FS_Singleton
        <3>4. IsFiniteSet({v} \X (start(v)..end(v)))
            BY <3>2, <3>3, FS_Product
        <3>5. QED
            BY <1>3, <3>4
    <2>4. \A S \in U : IsFiniteSet(S)
        BY <2>3
    <2>5. IsFiniteSet(UNION U)
        <3> HIDE DEF U
        <3>1. QED
            BY <2>2, <2>4, FS_UNION
    <2>6. QED
        BY <2>5 DEF AllSlots
<1>8. Orders(ComesBefore(pre), AllSlots(pre))
    <2> DEFINE S == AllSlots(pre)
               ind == IndexMap(pre)
    <2>1. \A s, t \in S : <<s, t>> \in ComesBefore(pre) <=> Comes(pre, s, t)
        BY DEF ComesBefore
    <2>2. \A v \in Defined(pre) : ind[v] \in Int
        <3>1. Len(pre) \in Nat
            BY DEF IsPreorder
        <3>2. QED
            BY <1>1, <3>1, IndexMapFacts
    <2>3. \A v, w \in Defined(pre) : ind[v] = ind[w] => v = w
        <3>1. \A v \in Range(pre) : pre[ind[v] + 1] = v
            BY IndexMapFacts
        <3> HIDE DEF ind
        <3>2. QED
            BY <1>1, <3>1
    <2> HIDE DEF ind
    <2>4. \A s, t \in S : Comes(pre, s, t) <=> Row(s) < Row(t) \/ (Row(s) = Row(t) /\ ind[s[1]] < ind[t[1]])
        BY DEF Comes, ind
    <2>5. \A s \in S : Row(s) \in Int /\ ind[s[1]] \in Int
        BY <1>5, <1>6, <2>2
    <2>6. \A s, t \in S : Row(s) = Row(t) /\ ind[s[1]] = ind[t[1]] => s = t
        <3> TAKE s, t \in S
        <3> HAVE Row(s) = Row(t) /\ ind[s[1]] = ind[t[1]]
        <3>1. s[1] = t[1]
            BY <1>5, <2>3
        <3>2. s[2] \in Int /\ t[2] \in Int /\ cha.addrPt[s[1]] \in Nat
            BY <1>2, <1>5, ShapeFacts
        <3>3. s[2] = t[2]
            BY <3>1, <3>2 DEF Row
        <3>4. QED
            BY <1>5, <3>1, <3>3
    <2> HIDE DEF S
    <2>7. \A s \in S : ~Comes(pre, s, s)
        BY <2>4, <2>5
    <2>8. \A s, t \in S : s # t => Comes(pre, s, t) \/ Comes(pre, t, s)
        BY <2>4, <2>5, <2>6
    <2>9. \A s, t, u \in S : Comes(pre, s, t) /\ Comes(pre, t, u) => Comes(pre, s, u)
        BY <2>4, <2>5
    <2>10. Orders(ComesBefore(pre), S)
        BY <2>1, <2>7, <2>8, <2>9 DEF Orders
    <2>11. QED
        BY <2>10 DEF S
<1>9. QED
    BY <1>1, <1>2, <1>4, <1>5, <1>6, <1>7, <1>8

\* What a layout of a cloud lists: every slot of every defined vtable once, those of
\* one vtable in their order, and else only dummies.
IsLayout(pre, list) ==
    /\ list \in Seq(AllSlots(pre) \cup {Dummy})
    /\ \A s \in AllSlots(pre) : \E i \in DOMAIN list : list[i] = s
    /\ \A i, j \in DOMAIN list : list[i] # Dummy /\ list[i] = list[j] => i = j
    /\ \A i, j \in DOMAIN list : list[i] # Dummy /\ list[i][1] = list[j][1] /\ list[i][2] < list[j][2] => i < j

\* The filler between vtables is no vtable's slot.
LEMMA DummyIsNoSlot ==
    ASSUME Queries, NEW root \in vtables, NEW pre, IsPreorder(root, pre)
    PROVE  Dummy \notin AllSlots(pre)
<1>1. \A s \in AllSlots(pre) : s[1] \in vtables
    BY SlotFacts
<1>2. Dummy[1] \notin vtables
    BY VtableFacts DEF Dummy
<1>3. QED
    BY <1>1, <1>2

\* The interleaved layout holds every slot once, behind as many as come before
\* it, and no filler.
LEMMA InterleavedLists ==
    ASSUME Queries, NEW root \in vtables, NEW pre, IsPreorder(root, pre)
    PROVE  /\ IsLayout(pre, Interleaved(pre, NoPads))
           /\ \A i \in DOMAIN Interleaved(pre, NoPads) : Interleaved(pre, NoPads)[i] # Dummy
           /\ \A i \in DOMAIN Interleaved(pre, NoPads) :
                 LET before == Preceding(AllSlots(pre), ComesBefore(pre), Interleaved(pre, NoPads)[i])
                 IN  IsFiniteSet(before) /\ Cardinality(before) = i - 1
<1> DEFINE S == AllSlots(pre)
           B == ComesBefore(pre)
           n == Cardinality(S)
<1>1. PICK list : list = Interleaved(pre, NoPads)
    OBVIOUS
<1>2. list = Sorted(S, B)
    BY <1>1, InterleavedSorts
<1>3. IsFiniteSet(S) /\ Orders(B, S)
    BY SlotFacts
<1>4. /\ \A s \in S : s[1] \in Defined(pre) /\ s[2] \in start(s[1])..end(s[1]) /\ Row(s) \in Int
      /\ Defined(pre) \subseteq vtables
    BY SlotFacts
<1>5. Dummy \notin S
    BY DummyIsNoSlot
<1>6. \A s, t \in S : <<s, t>> \in B <=> Comes(pre, s, t)
    BY DEF ComesBefore
<1> HIDE DEF S, B
<1>7. /\ n \in Nat
      /\ list \in [1..n -> S]
      /\ \A s \in S : \E i \in 1..n : list[i] = s
      /\ \A i \in 1..n : IsFiniteSet(Preceding(S, B, list[i])) /\ Cardinality(Preceding(S, B, list[i])) = i - 1
      /\ \A i, j \in 1..n : i < j <=> <<list[i], list[j]>> \in B
      /\ \A i, j \in 1..n : list[i] = list[j] => i = j
    BY <1>2, <1>3, SortedLists
<1> HIDE DEF n
<1>8. DOMAIN list = 1..n /\ list \in Seq(S)
    BY <1>7
<1>9. list \in Seq(S \cup {Dummy})
    BY <1>8, SeqWidens
<1>10. \A i \in DOMAIN list : list[i] \in S /\ list[i] # Dummy
    BY <1>5, <1>7, <1>8
<1>11. ASSUME NEW i \in DOMAIN list, NEW j \in DOMAIN list, list[i][1] = list[j][1], list[i][2] < list[j][2]
       PROVE  i < j
    <2>1. list[i] \in S /\ list[j] \in S
        BY <1>10
    <2>2. list[i][2] \in Int /\ list[j][2] \in Int /\ cha.addrPt[list[i][1]] \in Nat
        BY <1>4, <2>1, ShapeFacts
    <2>3. Row(list[i]) < Row(list[j])
        BY <1>11, <2>2 DEF Row
    <2>4. Comes(pre, list[i], list[j])
        BY <2>3 DEF Comes
    <2>5. QED
        BY <1>6, <1>7, <1>8, <2>1, <2>4
<1>12. IsLayout(pre, list)
    BY <1>7, <1>8, <1>9, <1>11 DEF IsLayout, S
<1>13. QED
    BY <1>1, <1>7, <1>8, <1>10, <1>12 DEF S, B

\* In the rows from one vtable to another, every vtable between them has one slot.
Between(pre, v, w) ==
    {u \in Defined(pre) : IndexMap(pre)[v] <= IndexMap(pre)[u] /\ IndexMap(pre)[u] < IndexMap(pre)[w]}

\* Where all vtables from v to w have a slot at an offset from the address
\* point, those slots are one behind the other, as many as there are vtables.
LEMMA RowDistance ==
    ASSUME Queries, NEW root \in vtables, NEW pre, IsPreorder(root, pre),
           NEW v \in Defined(pre), NEW w \in Defined(pre), IndexMap(pre)[v] <= IndexMap(pre)[w], NEW k \in Int,
           \A u \in Defined(pre) :
               IndexMap(pre)[v] <= IndexMap(pre)[u] /\ IndexMap(pre)[u] <= IndexMap(pre)[w] =>
                   cha.addrPt[u] + k \in start(u)..end(u),
           NEW i \in DOMAIN Interleaved(pre, NoPads), Interleaved(pre, NoPads)[i] = <<v, cha.addrPt[v] + k>>,
           NEW j \in DOMAIN Interleaved(pre, NoPads), Interleaved(pre, NoPads)[j] = <<w, cha.addrPt[w] + k>>
    PROVE  Cardinality(Between(pre, v, w)) \in Nat /\ j = i + Cardinality(Between(pre, v, w))
<1> DEFINE S == AllSlots(pre)
           B == ComesBefore(pre)
           ind == IndexMap(pre)
           At(u) == <<u, cha.addrPt[u] + k>>
           Bet == Between(pre, v, w)
           P == Preceding(S, B, At(v))
           Q == Preceding(S, B, At(w))
           T == {At(u) : u \in Bet}
<1>1. IsFiniteSet(P) /\ Cardinality(P) = i - 1 /\ IsFiniteSet(Q) /\ Cardinality(Q) = j - 1
    BY InterleavedLists
<1>2. /\ \A s : s \in S <=> \E u \in Defined(pre) : \E n \in start(u)..end(u) : s = <<u, n>>
      /\ \A s \in S : s[1] \in Defined(pre) /\ s[2] \in start(s[1])..end(s[1]) /\ s = <<s[1], s[2]>> /\ Row(s) \in Int
      /\ Defined(pre) \subseteq vtables /\ Defined(pre) \subseteq Range(pre) /\ IsFiniteSet(Defined(pre))
    BY SlotFacts
<1>3. \A u \in Defined(pre) : ind[u] \in Int /\ cha.addrPt[u] \in Nat
    <2>1. Len(pre) \in Nat
        BY DEF IsPreorder
    <2>2. \A u \in Defined(pre) : ind[u] \in Int
        BY <1>2, <2>1, IndexMapFacts
    <2>3. QED
        BY <1>2, <2>2, ShapeFacts
<1>4. \A u \in Bet : u \in Defined(pre) /\ ind[v] <= ind[u] /\ ind[u] < ind[w]
    BY DEF Between
<1>5. \A u \in Bet \cup {v, w} : At(u) \in S
    <2>1. \A u \in Bet \cup {v, w} : u \in Defined(pre) /\ ind[v] <= ind[u] /\ ind[u] <= ind[w]
        BY <1>3, <1>4
    <2>2. \A u \in Bet \cup {v, w} : cha.addrPt[u] + k \in start(u)..end(u)
        BY <2>1
    <2> HIDE DEF S, Bet
    <2>3. QED
        BY <1>2, <2>1, <2>2
<1>6. \A u \in Defined(pre) : Row(At(u)) = k /\ At(u)[1] = u
    BY <1>3 DEF Row
<1>7. \A s \in S : Row(s) = k => s = At(s[1])
    <2> TAKE s \in S
    <2> HAVE Row(s) = k
    <2>1. s[1] \in Defined(pre) /\ s[2] \in Int /\ s = <<s[1], s[2]>>
        BY <1>2, <1>3, ShapeFacts
    <2>2. s[2] = cha.addrPt[s[1]] + k
        BY <1>3, <2>1 DEF Row
    <2>3. QED
        BY <2>1, <2>2
<1>8. \A s, t \in S : <<s, t>> \in B <=> Row(s) < Row(t) \/ (Row(s) = Row(t) /\ ind[s[1]] < ind[t[1]])
    BY DEF ComesBefore, Comes
<1> HIDE DEF S, B, ind, Bet, At
<1>9. /\ \A s : s \in P <=> s \in S /\ (Row(s) < k \/ (Row(s) = k /\ ind[s[1]] < ind[v]))
      /\ \A s : s \in Q <=> s \in S /\ (Row(s) < k \/ (Row(s) = k /\ ind[s[1]] < ind[w]))
    BY <1>5, <1>6, <1>8 DEF Preceding
<1> HIDE DEF P, Q
<1>10. \A s : s \in T <=> s \in S /\ Row(s) = k /\ ind[v] <= ind[s[1]] /\ ind[s[1]] < ind[w]
    <2>1. ASSUME NEW u \in Bet PROVE At(u) \in S /\ Row(At(u)) = k /\ ind[v] <= ind[At(u)[1]] /\ ind[At(u)[1]] < ind[w]
        BY <1>4, <1>5, <1>6
    <2>2. ASSUME NEW s \in S, Row(s) = k, ind[v] <= ind[s[1]], ind[s[1]] < ind[w] PROVE s[1] \in Bet /\ s = At(s[1])
        BY <1>2, <1>7, <2>2 DEF Bet, Between, ind
    <2>3. QED
        BY <2>1, <2>2
<1>11. Q = P \cup T /\ P \cap T = {}
    <2>1. ind[v] <= ind[w] /\ ind[v] \in Int /\ ind[w] \in Int
        BY <1>3 DEF ind
    <2>2. \A s \in S : ind[s[1]] \in Int
        BY <1>2, <1>3
    <2> HIDE DEF T
    <2>3. QED
        BY <1>9, <1>10, <2>1, <2>2
<1>12. IsFiniteSet(Bet) /\ Cardinality(Bet) \in Nat
    <2>1. Bet \subseteq Defined(pre)
        BY <1>4
    <2>2. QED
        BY <1>2, <2>1, FS_Subset, FS_CardinalityType
<1>13. Cardinality(T) = Cardinality(Bet)
    <2> DEFINE f == [u \in Bet |-> At(u)]
    <2>1. f \in Bijection(Bet, T)
        <3>1. \A u, x \in Bet : f[u] = f[x] => u = x
            BY DEF At
        <3>2. QED
            BY <3>1 DEF Bijection, Injection, Surjection, IsInjective
    <2> HIDE DEF f, T
    <2>2. ExistsBijection(Bet, T)
        BY <2>1 DEF ExistsBijection
    <2>3. QED
        BY <1>12, <2>2, FS_Bijection
<1>14. Cardinality(Q) = Cardinality(P) + Cardinality(T)
    <2>1. T \subseteq Q
        BY <1>11
    <2> HIDE DEF T
    <2>2. IsFiniteSet(T)
        BY <1>1, <2>1, FS_Subset
    <2>3. Cardinality(P \cup T) = Cardinality(P) + Cardinality(T) - Cardinality(P \cap T)
        BY <1>1, <2>2, FS_Union
    <2>4. Cardinality(P \cap T) = 0
        BY <1>11, FS_EmptySet
    <2>5. Cardinality(P) \in Int /\ Cardinality(T) \in Int
        BY <1>1, <2>2, FS_CardinalityType
    <2>6. QED
        BY <1>11, <2>3, <2>4, <2>5
<1>15. i \in Int /\ j \in Int
    <2>1. IsLayout(pre, Interleaved(pre, NoPads))
        BY InterleavedLists
    <2>2. QED
        BY <2>1 DEF IsLayout
<1>16. j - 1 = (i - 1) + Cardinality(Bet)
    BY <1>1, <1>13, <1>14
<1>17. QED
    BY <1>12, <1>15, <1>16 DEF Bet

\* A finite set of numbers has a greatest one.
LEMMA FiniteHasGreatest ==
    ASSUME NEW S, S \subseteq Int, IsFiniteSet(S), S # {}
    PROVE  Max(S) \in S /\ \A x \in S : x <= Max(S)
<1> DEFINE b == {p \in S \X S : p[1] < p[2]}
           n == Cardinality(S)
<1>1. Orders(b, S)
    BY NumbersOrdered
<1>2. \A x, y \in S : <<x, y>> \in b <=> x < y
    OBVIOUS
<1> HIDE DEF b
<1>3. PICK s : s = Sorted(S, b)
    OBVIOUS
<1>4. /\ n \in Nat /\ s \in [1..n -> S] /\ \A x \in S : \E i \in 1..n : s[i] = x
      /\ \A i, j \in 1..n : i < j <=> <<s[i], s[j]>> \in b
    BY <1>1, <1>3, SortedLists
<1> HIDE DEF n
<1>5. n \in 1..n
    <2>1. PICK x \in S : TRUE
        OBVIOUS
    <2>2. PICK i \in 1..n : s[i] = x
        BY <1>4
    <2>3. QED
        BY <1>4, <2>2
<1>6. \A x \in S : x <= s[n]
    <2> TAKE x \in S
    <2>1. PICK i \in 1..n : s[i] = x
        BY <1>4
    <2>2. i = n \/ i < n
        BY <1>4
    <2>3. s[n] \in Int /\ x \in Int /\ s[i] \in S /\ s[n] \in S
        BY <1>4, <1>5
    <2>4. CASE i < n
        <3>1. <<s[i], s[n]>> \in b
            BY <1>4, <1>5, <2>4
        <3>2. x < s[n]
            BY <1>2, <2>1, <2>3, <3>1
        <3>3. QED
            BY <2>3, <3>2
    <2>5. CASE i = n
        BY <2>1, <2>3, <2>5
    <2>6. QED
        BY <2>2, <2>4, <2>5
<1>7. \E x \in S : \A y \in S : x >= y
    <2>1. s[n] \in S
        BY <1>4, <1>5
    <2>2. QED
        BY <1>6, <2>1
<1>8. Max(S) \in S /\ \A y \in S : Max(S) >= y
    BY <1>7, Zenon DEF Max
<1>9. QED
    BY <1>8

\* The order of names.
LEMMA NamesOrdered ==
    ASSUME Queries
    PROVE  /\ \A v \in vtables : ~ByName(v, v)
           /\ \A v, w \in vtables : v # w => ByName(v, w) \/ ByName(w, v)
           /\ \A v, w, x \in vtables : ByName(v, w) /\ ByName(w, x) => ByName(v, x)
<1>1. /\ \A v \in vtables : v = <<v[1], v[2]>> /\ v[2] \in Nat /\ cha.rank[v[1]] \in Nat
      /\ \A v, w \in vtables : cha.rank[v[1]] = cha.rank[w[1]] => v[1] = w[1]
    BY VtableFacts
<1>2. \A v \in vtables : ~ByName(v, v)
    BY <1>1 DEF ByName
<1>3. \A v, w \in vtables : v # w => ByName(v, w) \/ ByName(w, v)
    BY <1>1 DEF ByName
<1>4. \A v, w, x \in vtables : ByName(v, w) /\ ByName(w, x) => ByName(v, x)
    BY <1>1 DEF ByName
<1>5. QED
    BY <1>2, <1>3, <1>4

\* The edges that PrePads follows, in its order.
PadEdges(pre) == {e \in Defined(pre) \X vtables : e[2] \in cha.children[e[1]]}
PadBefore(pre, e, f) == \/ IndexMap(pre)[e[1]] < IndexMap(pre)[f[1]]
                        \/ e[1] = f[1] /\ ByName(e[2], f[2])
PadOrder(pre) == {p \in PadEdges(pre) \X PadEdges(pre) : PadBefore(pre, p[1], p[2])}

\* The edges that pads are computed for are listed one by one.
LEMMA PadEdgesList ==
    ASSUME Queries, NEW root \in vtables, NEW pre, IsPreorder(root, pre)
    PROVE  /\ Len(Sorted(PadEdges(pre), PadOrder(pre))) \in Nat
           /\ \A n \in 1..Len(Sorted(PadEdges(pre), PadOrder(pre))) :
                 Sorted(PadEdges(pre), PadOrder(pre))[n] \in PadEdges(pre)
<1> DEFINE all == PadEdges(pre)
           b == PadOrder(pre)
           ind == IndexMap(pre)
<1>1. Defined(pre) \subseteq vtables /\ Defined(pre) \subseteq Range(pre) /\ IsFiniteSet(Defined(pre))
    BY SlotFacts
<1>2. IsFiniteSet(all)
    <2>1. IsFiniteSet(Defined(pre) \X vtables)
        BY <1>1, VtablesFinite, FS_Product
    <2>2. all \subseteq Defined(pre) \X vtables
        BY DEF PadEdges
    <2>3. QED
        BY <2>1, <2>2, FS_Subset
<1>3. \A e \in all : e[1] \in Defined(pre) /\ e[1] \in vtables /\ e[2] \in vtables /\ e = <<e[1], e[2]>>
    BY <1>1 DEF PadEdges
<1>4. /\ \A v \in Defined(pre) : ind[v] \in Int
      /\ \A v, w \in Defined(pre) : ind[v] = ind[w] => v = w
    <2>1. Len(pre) \in Nat
        BY DEF IsPreorder
    <2>2. \A v \in Range(pre) : pre[ind[v] + 1] = v /\ ind[v] \in 0..(Len(pre) - 1)
        BY IndexMapFacts
    <2> HIDE DEF ind
    <2>3. QED
        BY <1>1, <2>1, <2>2
<1>5. \A e, f \in all : <<e, f>> \in b <=> PadBefore(pre, e, f)
    BY DEF PadOrder
<1>6. \A e, f : PadBefore(pre, e, f) <=> ind[e[1]] < ind[f[1]] \/ (e[1] = f[1] /\ ByName(e[2], f[2]))
    BY DEF PadBefore
<1> HIDE DEF ind, all, b
<1>7. \A e \in all : ind[e[1]] \in Int
    BY <1>3, <1>4
<1>8. \A e \in all : ~PadBefore(pre, e, e)
    BY <1>3, <1>6, <1>7, NamesOrdered
<1>9. \A e, f \in all : e # f => PadBefore(pre, e, f) \/ PadBefore(pre, f, e)
    <2> TAKE e, f \in all
    <2> HAVE e # f
    <2>1. CASE e[1] = f[1]
        BY <1>3, <1>6, <2>1, NamesOrdered
    <2>2. CASE e[1] # f[1]
        BY <1>3, <1>4, <1>6, <1>7, <2>2
    <2>3. QED
        BY <2>1, <2>2
<1>10. \A e, f, g \in all : PadBefore(pre, e, f) /\ PadBefore(pre, f, g) => PadBefore(pre, e, g)
    <2> TAKE e, f, g \in all
    <2>1. \A v, w, x \in vtables : ByName(v, w) /\ ByName(w, x) => ByName(v, x)
        BY NamesOrdered
    <2>2. ByName(e[2], f[2]) /\ ByName(f[2], g[2]) => ByName(e[2], g[2])
        BY <1>3, <2>1
    <2>3. ind[e[1]] \in Int /\ ind[f[1]] \in Int /\ ind[g[1]] \in Int
        BY <1>7
    <2>4. QED
        BY <1>6, <2>2, <2>3
<1>11. Orders(b, all)
    BY <1>5, <1>8, <1>9, <1>10 DEF Orders
<1>12. PICK s : s = Sorted(all, b)
    OBVIOUS
<1>13. Cardinality(all) \in Nat /\ s \in [1..Cardinality(all) -> all]
    BY <1>2, <1>11, <1>12, SortedLists
<1>14. Len(s) = Cardinality(all) /\ \A n \in 1..Cardinality(all) : s[n] \in all
    BY <1>13
<1>15. QED
    BY <1>12, <1>13, <1>14 DEF all, b

\* Nothing is missing, so nothing is padded.
LEMMA PadsStayZero ==
    ASSUME Queries, NEW root \in vtables, NEW pre, IsPreorder(root, pre), prePadMap = NoPads
    PROVE  PrePads(pre) = NoPads
<1> DEFINE edges == Sorted(PadEdges(pre), PadOrder(pre))
           N == Len(edges)
           Missing(n, x) == relAddrPt(edges[n][1]) + x[edges[n][1]] - (relAddrPt(edges[n][2]) + x[edges[n][2]])
           Body(n, x) == IF IndexMap(pre)[edges[n][2]] < IndexMap(pre)[edges[n][1]] \/ Missing(n, x) <= 0
                         THEN x ELSE [x EXCEPT ![edges[n][2]] = Missing(n, x)]
           Sol(f) == f = [n \in 0..N |-> IF n = 0 THEN prePadMap ELSE Body(n, f[n - 1])]
           pads == CHOOSE f : Sol(f)
<1>1. PrePads(pre) = pads[N]
    BY DEF PrePads, PadEdges, PadOrder, PadBefore
<1>2. N \in Nat /\ \A n \in 1..N : edges[n] \in PadEdges(pre)
    BY PadEdgesList
<1>3. \A n \in 1..N : Missing(n, NoPads) <= 0
    <2> TAKE n \in 1..N
    <2> DEFINE p == edges[n][1]
               c == edges[n][2]
    <2>1. p \in vtables /\ c \in vtables /\ c \in cha.children[p]
        <3>1. edges[n] \in PadEdges(pre) /\ Defined(pre) \subseteq vtables
            BY <1>2, SlotFacts
        <3> HIDE DEF edges
        <3>2. QED
            BY <3>1 DEF PadEdges
    <2> HIDE DEF edges
    <2>2. Missing(n, NoPads) = relAddrPt(p) + NoPads[p] - (relAddrPt(c) + NoPads[c])
        OBVIOUS
    <2> HIDE DEF p, c
    <2>3. NoPads[p] = 0 /\ NoPads[c] = 0
        BY <2>1 DEF NoPads
    <2>4. relAddrPt(p) \in Int /\ relAddrPt(c) \in Int
        <3>1. cha.addrPt[p] \in Nat /\ start(p) \in Nat /\ cha.addrPt[c] \in Nat /\ start(c) \in Nat
            BY <2>1, ShapeFacts
        <3>2. QED
            BY <3>1 DEF relAddrPt
    <2>5. relAddrPt(p) <= relAddrPt(c)
        BY <2>1, ShapeFacts
    <2>6. QED
        BY <2>2, <2>3, <2>4, <2>5
<1> HIDE DEF edges, N, Missing
<1>4. \A n \in 1..N : Body(n, NoPads) = NoPads
    BY <1>3
<1> DEFINE f == [n \in 0..N |-> NoPads]
<1>5. Sol(f)
    <2>1. \A n \in 0..N : n # 0 => n \in 1..N /\ n - 1 \in 0..N
        BY <1>2
    <2>2. \A n \in 0..N : (IF n = 0 THEN prePadMap ELSE Body(n, f[n - 1])) = NoPads
        <3>1. \A n \in 0..N : f[n] = NoPads
            OBVIOUS
        <3> HIDE DEF f, Body
        <3>2. QED
            BY <1>4, <2>1, <3>1
    <2> HIDE DEF Body
    <2>3. QED
        BY <2>2
<1>6. Sol(pads)
    <2> HIDE DEF Sol
    <2>1. QED
        BY <1>5
<1> HIDE DEF pads
<1>7. pads[0] = NoPads /\ \A n \in 1..N : pads[n] = Body(n, pads[n - 1])
    <2>1. 0 \in 0..N /\ \A n \in 1..N : n \in 0..N /\ n # 0
        BY <1>2
    <2> HIDE DEF Body
    <2>2. QED
        BY <1>6, <2>1
<1> HIDE DEF Sol, Body
<1> DEFINE T == {n \in 0..N : pads[n] = NoPads}
<1>8. N \in T
    <2>1. 0 \in T
        BY <1>2, <1>7
    <2>2. \A n \in 1..N : n - 1 \in T => n \in T
        BY <1>2, <1>4, <1>7
    <2> HIDE DEF T
    <2>3. \A n \in 0..N : n \in T
        BY <1>2, <2>1, <2>2, CountUp
    <2>4. QED
        BY <1>2, <2>3
<1>9. QED
    BY <1>1, <1>8

\* There is a power of two that is as large as the largest vtable.
LEMMA StrideIsPositive ==
    ASSUME Queries, NEW root \in vtables, NEW pre, IsPreorder(root, pre)
    PROVE  Stride(pre) \in Nat \ {0}
<1> DEFINE sizes == {end(v) - start(v) + 1 : v \in Range(pre)}
           largest == Max(sizes)
           Sol(f) == f = [k \in 0..largest |-> IF k = 0 THEN 1 ELSE 2 * f[k - 1]]
           power == CHOOSE f : Sol(f)
<1>1. Stride(pre) = CHOOSE p \in Range(power) : largest <= p /\ p < 2 * largest
    BY DEF Stride
<1>2. Range(pre) \subseteq vtables /\ IsFiniteSet(Range(pre)) /\ Range(pre) # {}
    <2>1. root \in Range(pre)
        BY DEF IsPreorder, Range
    <2>2. QED
        BY <2>1, RangeFinite DEF IsPreorder
<1>3. \A v \in Range(pre) : end(v) - start(v) + 1 \in Nat \ {0}
    BY <1>2, ShapeFacts
<1>4. IsFiniteSet(sizes) /\ sizes # {} /\ sizes \subseteq Nat \ {0}
    <2> DEFINE f == [v \in Range(pre) |-> end(v) - start(v) + 1]
    <2>1. f \in Surjection(Range(pre), sizes)
        BY DEF Surjection
    <2>2. IsFiniteSet(sizes)
        <3> HIDE DEF f, sizes
        <3>1. QED
            BY <1>2, <2>1, FS_Surjection
    <2>3. QED
        BY <1>2, <1>3, <2>2
<1> HIDE DEF sizes
<1>5. largest \in Nat \ {0}
    <2>1. sizes \subseteq Int
        BY <1>4
    <2>2. QED
        BY <1>4, <2>1, FiniteHasGreatest
<1> HIDE DEF largest
<1>6. \E f : Sol(f)
    <2> DEFINE H == [k \in 1..largest |-> [x \in Nat |-> 2 * x]]
    <2>1. Steps(largest, Nat, 1, H)
        BY <1>5 DEF Steps
    <2> HIDE DEF H
    <2>2. PICK f \in [0..largest -> Nat] : Stepped(largest, 1, H, f)
        BY <2>1, StepsHaveSolution
    <2>3. \A k \in 0..largest : f[k] = IF k = 0 THEN 1 ELSE 2 * f[k - 1]
        <3> TAKE k \in 0..largest
        <3>1. CASE k = 0
            BY <2>2, <3>1 DEF Stepped
        <3>2. CASE k # 0
            <4>1. k \in 1..largest /\ k - 1 \in 0..largest
                BY <1>5, <3>2
            <4>2. f[k] = H[k][f[k - 1]] /\ f[k - 1] \in Nat
                BY <2>2, <4>1 DEF Stepped
            <4>3. QED
                BY <3>2, <4>1, <4>2 DEF H
        <3>3. QED
            BY <3>1, <3>2
    <2>4. f = [k \in 0..largest |-> IF k = 0 THEN 1 ELSE 2 * f[k - 1]]
        BY <2>2, <2>3
    <2>5. QED
        BY <2>4
<1>7. Sol(power)
    <2> HIDE DEF Sol
    <2>1. QED
        BY <1>6
<1> HIDE DEF power
<1>8. power[0] = 1 /\ DOMAIN power = 0..largest /\ \A k \in 1..largest : power[k] = 2 * power[k - 1]
    BY <1>5, <1>7
<1> DEFINE T == {k \in 0..largest : power[k] \in Nat /\ power[k] >= k + 1}
<1>9. \A k \in 0..largest : k \in T
    <2>1. 0 \in T
        BY <1>5, <1>8
    <2>2. ASSUME NEW k \in 1..largest, k - 1 \in T PROVE k \in T
        <3>1. power[k - 1] \in Nat /\ power[k - 1] >= k /\ k \in Nat /\ k >= 1
            BY <1>5, <2>2
        <3>2. power[k] = 2 * power[k - 1]
            BY <1>8
        <3>3. QED
            BY <3>1, <3>2
    <2> HIDE DEF T
    <2>3. QED
        BY <1>5, <2>1, <2>2, CountUp
<1> DEFINE S == {k \in 0..largest : largest <= power[k]}
<1>10. S \subseteq Nat /\ S # {}
    <2>1. largest \in 0..largest
        BY <1>5
    <2>2. power[largest] \in Nat /\ power[largest] >= largest + 1
        BY <1>9, <2>1
    <2>3. largest \in S
        BY <1>5, <2>1, <2>2
    <2>4. QED
        BY <2>3
<1>11. PICK k \in S : \A j \in S : k <= j
    <2> HIDE DEF S
    <2>1. QED
        BY <1>10, Least
<1>12. k \in 0..largest /\ power[k] \in Nat /\ largest <= power[k]
    BY <1>9
<1>13. power[k] < 2 * largest
    <2>1. CASE k = 0
        BY <1>5, <1>8, <2>1
    <2>2. CASE k # 0
        <3>1. k \in 1..largest /\ k - 1 \in 0..largest
            BY <1>5, <1>12, <2>2
        <3>2. k - 1 \notin S
            <4>1. ~(k <= k - 1)
                BY <3>1
            <4> HIDE DEF S
            <4>2. QED
                BY <1>11, <4>1
        <3>3. power[k - 1] \in Nat /\ power[k - 1] < largest
            BY <1>5, <1>9, <3>1, <3>2
        <3>4. power[k] = 2 * power[k - 1]
            BY <1>8, <3>1
        <3>5. QED
            BY <1>5, <3>3, <3>4
    <2>3. QED
        BY <2>1, <2>2
<1>14. \E p \in Range(power) : largest <= p /\ p < 2 * largest
    BY <1>8, <1>12, <1>13 DEF Range
<1>15. \A p \in Range(power) : p \in Nat
    BY <1>8, <1>9 DEF Range
<1>16. PICK p \in Range(power) : p = Stride(pre) /\ largest <= p /\ p < 2 * largest
    BY <1>1, <1>14
<1>17. QED
    BY <1>5, <1>15, <1>16

-----------------------------------------------------------------------------
(* One vtable after the other.                                             *)

\* The slots of a vtable follow each other.
Contiguous(list) ==
    \A i, j \in DOMAIN list : list[i] # Dummy /\ list[j] # Dummy /\ list[i][1] = list[j][1] =>
        j - i = list[j][2] - list[i][2]

\* A vtable is placed behind what is there, with a dummies in between.
PlacedAt(list, a, v, low, high) ==
    list \o [i \in 1..a |-> Dummy] \o [i \in 1..(high - low + 1) |-> <<v, low + i - 1>>]

Placeable(S, list, a, v, low, high) ==
    /\ list \in Seq(S \cup {Dummy}) /\ a \in Nat /\ low \in Nat /\ high \in Nat /\ low <= high
    /\ v # dummyVtable /\ \A n \in low..high : <<v, n>> \in S
    /\ \A i \in DOMAIN list : list[i][1] # v
    /\ Contiguous(list)

IsPlaced(S, list, v, low, high, new) ==
    /\ new \in Seq(S \cup {Dummy}) /\ Contiguous(new)
    /\ \A n \in low..high : \E i \in DOMAIN new : new[i] = <<v, n>>
    /\ \A i \in DOMAIN list : i \in DOMAIN new /\ new[i] = list[i]
    /\ \A i \in DOMAIN new : new[i] = Dummy \/ new[i][1] = v \/ \E j \in DOMAIN list : list[j] = new[i]

\* Slots that are put one behind the other, behind all that is placed, are
\* placed as a vtable's slots.
LEMMA PlacedBehind ==
    ASSUME NEW S, NEW list, NEW a, NEW v, NEW low, NEW high, Placeable(S, list, a, v, low, high)
    PROVE  IsPlaced(S, list, v, low, high, PlacedAt(list, a, v, low, high))
<1>0. /\ list \in Seq(S \cup {Dummy}) /\ a \in Nat /\ low \in Nat /\ high \in Nat /\ low <= high
      /\ v # dummyVtable /\ \A n \in low..high : <<v, n>> \in S
      /\ \A i \in DOMAIN list : list[i][1] # v
      /\ Contiguous(list)
    BY DEF Placeable
<1> DEFINE d == [i \in 1..a |-> Dummy]
           b == [i \in 1..(high - low + 1) |-> <<v, low + i - 1>>]
           X == S \cup {Dummy}
           m == list \o d
           new == m \o b
           L == Len(list)
           size == high - low + 1
<1>1. L \in Nat /\ DOMAIN list = 1..L /\ size \in Nat
    BY <1>0
<1>2. d \in Seq(X) /\ Len(d) = a /\ \A i \in 1..a : d[i] = Dummy
    <2>1. d \in [1..a -> X]
        BY <1>0
    <2>2. QED
        BY <1>0, <2>1
<1>3. b \in Seq(X) /\ Len(b) = size /\ \A i \in 1..size : b[i] = <<v, low + i - 1>>
    <2>1. \A i \in 1..size : low + i - 1 \in low..high
        BY <1>0
    <2>2. b \in [1..size -> X]
        BY <1>0, <2>1
    <2> HIDE DEF X, b
    <2>3. b \in Seq(X) /\ Len(b) = size
        BY <1>1, <2>2
    <2>4. QED
        BY <1>0, <2>3 DEF b
<1> HIDE DEF d, b, size, L
<1>4. /\ m \in Seq(X) /\ Len(m) = L + a /\ \A i \in 1..L : m[i] = list[i]
      /\ \A i \in 1..a : m[L + i] = Dummy
    <2>1. list \in Seq(X) /\ d \in Seq(X)
        BY <1>0, <1>2
    <2> HIDE DEF X, m
    <2>2. /\ list \o d \in Seq(X) /\ Len(list \o d) = Len(list) + Len(d)
          /\ \A k \in 1..Len(list) : (list \o d)[k] = list[k]
          /\ \A k \in 1..Len(d) : (list \o d)[Len(list) + k] = d[k]
        BY <1>0, <2>1, Joined
    <2>3. QED
        BY <1>0, <1>2, <2>2 DEF L, m
<1> HIDE DEF m, X
<1>5. /\ new \in Seq(X) /\ Len(new) = Len(m) + size /\ \A i \in 1..Len(m) : new[i] = m[i]
      /\ \A i \in 1..size : new[Len(m) + i] = b[i]
    <2>1. b \in Seq(X)
        BY <1>0, <1>3 DEF X
    <2> HIDE DEF new
    <2>2. /\ m \o b \in Seq(X) /\ Len(m \o b) = Len(m) + Len(b)
          /\ \A k \in 1..Len(m) : (m \o b)[k] = m[k]
          /\ \A k \in 1..Len(b) : (m \o b)[Len(m) + k] = b[k]
        <3>1. m \in Seq(X)
            BY <1>0, <1>4
        <3>2. QED
            BY <1>0, <2>1, <3>1, Joined
    <2>3. QED
        BY <1>0, <1>3, <2>2 DEF new
<1>6. DOMAIN new = 1..(L + a + size)
    BY <1>0, <1>4, <1>5
<1> HIDE DEF new
<1>7. \A i \in 1..L : i \in DOMAIN new /\ new[i] = list[i]
    BY <1>0, <1>1, <1>4, <1>5, <1>6
<1>8. \A i \in DOMAIN new : i > L /\ i <= L + a => new[i] = Dummy
    <2> TAKE i \in DOMAIN new
    <2> HAVE i > L /\ i <= L + a
    <2>1. i - L \in 1..a /\ L + (i - L) = i /\ i \in 1..(L + a)
        BY <1>0, <1>1, <1>6
    <2>2. QED
        BY <1>0, <1>4, <1>5, <2>1
<1>9. \A i \in DOMAIN new : i > L + a => new[i] = <<v, low + (i - (L + a)) - 1>>
    <2> TAKE i \in DOMAIN new
    <2> HAVE i > L + a
    <2>1. i - (L + a) \in 1..size /\ (L + a) + (i - (L + a)) = i
        BY <1>0, <1>1, <1>6
    <2>2. PICK k \in 1..size : k = i - (L + a)
        BY <1>0, <2>1
    <2>3. new[(L + a) + k] = b[k] /\ b[k] = <<v, low + k - 1>>
        BY <1>0, <1>3, <1>4, <1>5
    <2>4. QED
        BY <1>0, <2>1, <2>2, <2>3
<1>10. \A n \in low..high : \E i \in DOMAIN new : new[i] = <<v, n>>
    <2> TAKE n \in low..high
    <2> DEFINE i == (L + a) + (n - low + 1)
    <2>1. i \in DOMAIN new /\ i > L + a /\ low + (i - (L + a)) - 1 = n
        BY <1>0, <1>1, <1>6 DEF size
    <2> HIDE DEF i
    <2>2. new[i] = <<v, n>>
        BY <1>0, <1>9, <2>1
    <2>3. QED
        BY <1>0, <2>1, <2>2
<1>11. \A i \in DOMAIN new :
          /\ i \in Int
          /\ (i \in 1..L /\ new[i] = list[i]) \/ new[i] = Dummy \/ (i > L + a /\ new[i] = <<v, low + (i - (L + a)) - 1>>)
    <2> TAKE i \in DOMAIN new
    <2>1. i \in Int /\ (i \in 1..L \/ (i > L /\ i <= L + a) \/ i > L + a)
        BY <1>0, <1>1, <1>6
    <2>2. QED
        BY <1>0, <1>7, <1>8, <1>9, <2>1
<1>12. \A i \in DOMAIN new : new[i] = Dummy \/ new[i][1] = v \/ \E j \in DOMAIN list : list[j] = new[i]
    BY <1>0, <1>1, <1>11
<1>13. Contiguous(new)
    <2> SUFFICES ASSUME NEW i \in DOMAIN new, NEW j \in DOMAIN new, new[i] # Dummy, new[j] # Dummy, new[i][1] = new[j][1]
                 PROVE  j - i = new[j][2] - new[i][2]
        BY DEF Contiguous
    <2>1. \A k \in 1..L : list[k][1] # v
        BY <1>0, <1>1
    <2>2. CASE i \in 1..L /\ new[i] = list[i]
        <3>1. new[i][1] # v
            BY <1>0, <2>1, <2>2
        <3>2. j \in 1..L /\ new[j] = list[j]
            BY <1>0, <1>11, <3>1
        <3>3. QED
            BY <1>0, <1>1, <2>2, <3>2 DEF Contiguous
    <2>3. CASE i > L + a /\ new[i] = <<v, low + (i - (L + a)) - 1>>
        <3>1. j > L + a /\ new[j] = <<v, low + (j - (L + a)) - 1>>
            BY <1>0, <1>11, <2>1, <2>3
        <3>2. i \in Int /\ j \in Int
            BY <1>0, <1>11
        <3>3. new[i][2] = low + (i - (L + a)) - 1 /\ new[j][2] = low + (j - (L + a)) - 1
            BY <1>0, <2>3, <3>1
        <3>4. QED
            BY <1>0, <1>1, <3>2, <3>3
    <2>4. QED
        BY <1>0, <1>11, <2>2, <2>3
<1>14. QED
    BY <1>0, <1>1, <1>5, <1>7, <1>10, <1>12, <1>13 DEF new, m, d, b, X, size, PlacedAt, IsPlaced

\* The pad up to the next multiple is a number.
LEMMA AlignIsNat ==
    ASSUME NEW max \in Nat \ {0}, NEW n \in Int
    PROVE  (max - (n % max)) % max \in Nat
<1>1. n % max \in Int
    OBVIOUS
<1>2. PICK m \in Int : m = n % max
    BY <1>1
<1>3. PICK k \in Int : k = max - m
    OBVIOUS
<1>4. k % max \in Nat
    OBVIOUS
<1>5. QED
    BY <1>2, <1>3, <1>4

\* orderCloud with n vtables done.
PlacedFirst(pre, n, list) ==
    /\ list \in Seq(AllSlots(pre) \cup {Dummy}) /\ Contiguous(list)
    /\ \A i \in DOMAIN list : list[i] = Dummy \/ \E m \in 1..n : list[i][1] = pre[m]
    /\ \A m \in 1..n : isDefined(pre[m]) =>
          \A k \in start(pre[m])..end(pre[m]) : \E i \in DOMAIN list : list[i] = <<pre[m], k>>

\* The layout in order holds every slot once, and a vtable's slots one behind
\* the other.
LEMMA OrderedLists ==
    ASSUME Queries, NEW root \in vtables, NEW pre, IsPreorder(root, pre)
    PROVE  IsLayout(pre, Ordered(pre)) /\ Contiguous(Ordered(pre))
<1> DEFINE max == Stride(pre)
           Align(n) == (max - (n % max)) % max
           Place(list, v) ==
               list \o [i \in 1..Align(Len(list) + relAddrPt(v)) |-> Dummy]
                    \o [i \in 1..(end(v) - start(v) + 1) |-> <<v, start(v) + i - 1>>]
           N == Len(pre)
           Body(n, x) == IF isDefined(pre[n]) THEN Place(x, pre[n]) ELSE x
           Sol(f) == f = [n \in 0..N |-> IF n = 0 THEN <<>> ELSE
                             IF isDefined(pre[n]) THEN Place(f[n - 1], pre[n]) ELSE f[n - 1]]
           placed == CHOOSE f : Sol(f)
           X == AllSlots(pre) \cup {Dummy}
<1>1. Ordered(pre) = placed[N]
    BY DEF Ordered
<1>2. max \in Nat \ {0}
    BY StrideIsPositive
<1>3. /\ N \in Nat /\ DOMAIN pre = 1..N
      /\ \A n \in 1..N : pre[n] \in vtables /\ pre[n] \in Range(pre) /\ (isDefined(pre[n]) => pre[n] \in Defined(pre))
      /\ \A m, n \in 1..N : pre[m] = pre[n] => m = n
    <2>1. pre \in Seq(vtables) /\ \A m, n \in DOMAIN pre : pre[m] = pre[n] => m = n
        BY DEF IsPreorder
    <2>2. N \in Nat /\ DOMAIN pre = 1..N /\ \A n \in 1..N : pre[n] \in vtables
        BY <2>1
    <2>3. \A n \in 1..N : pre[n] \in Range(pre)
        BY <2>2 DEF Range
    <2>4. QED
        BY <2>1, <2>2, <2>3 DEF Defined
<1>4. /\ \A v \in Defined(pre) : \A k \in start(v)..end(v) : <<v, k>> \in AllSlots(pre)
      /\ \A s \in AllSlots(pre) : s[1] \in Defined(pre) /\ s[2] \in start(s[1])..end(s[1]) /\ s = <<s[1], s[2]>>
      /\ \A v \in Defined(pre) : v \in Range(pre)
    BY SlotFacts
<1>5. \A v \in vtables : /\ start(v) \in Nat /\ end(v) \in Nat /\ start(v) <= end(v) /\ relAddrPt(v) \in Int
                         /\ v # dummyVtable
    BY ShapeFacts, VtableFacts DEF relAddrPt
<1> HIDE DEF max
\* One step.
<1>6. ASSUME NEW n \in 1..N, NEW x, PlacedFirst(pre, n - 1, x)
      PROVE  PlacedFirst(pre, n, Body(n, x))
    <2>1. CASE ~isDefined(pre[n])
        <3>1. Body(n, x) = x
            BY <2>1
        <3>2. \A m \in 1..n : m = n \/ m \in 1..(n - 1)
            OBVIOUS
        <3>3. \A m \in 1..(n - 1) : m \in 1..n
            OBVIOUS
        <3> HIDE DEF Body
        <3>4. QED
            BY <1>6, <2>1, <3>1, <3>2, <3>3 DEF PlacedFirst
    <2>2. CASE isDefined(pre[n])
        <3> DEFINE v == pre[n]
                   a == Align(Len(x) + relAddrPt(v))
        <3>1. v \in Defined(pre) /\ v \in vtables
            BY <1>3, <2>2
        <3>2. x \in Seq(X) /\ Contiguous(x)
            BY <1>6 DEF PlacedFirst
        <3>3. a \in Nat
            <4>1. Len(x) \in Nat
                BY <3>2
            <4>2. Len(x) + relAddrPt(v) \in Int
                BY <1>5, <3>1, <4>1
            <4>3. QED
                BY <1>2, <4>2, AlignIsNat
        <3>4. \A i \in DOMAIN x : x[i][1] # v
            <4> SUFFICES ASSUME NEW i \in DOMAIN x, x[i][1] = v PROVE FALSE
                OBVIOUS
            <4>1. x[i] # Dummy
                BY <1>5, <3>1 DEF Dummy
            <4>2. PICK m \in 1..(n - 1) : x[i][1] = pre[m]
                BY <1>6, <4>1 DEF PlacedFirst
            <4>3. m \in 1..N /\ m # n
                BY <1>3
            <4>4. QED
                BY <1>3, <4>2, <4>3
        <3>5. \A k \in start(v)..end(v) : <<v, k>> \in AllSlots(pre)
            BY <1>4, <3>1
        <3>6. start(v) \in Nat /\ end(v) \in Nat /\ start(v) <= end(v) /\ v # dummyVtable
            BY <1>5, <3>1
        <3>7. Body(n, x) = x \o [i \in 1..a |-> Dummy] \o [i \in 1..(end(v) - start(v) + 1) |-> <<v, start(v) + i - 1>>]
            BY <2>2
        <3> HIDE DEF Body, a, v, Place, Align
        <3>8. PICK new : new = Body(n, x)
            OBVIOUS
        <3>9. /\ new \in Seq(X) /\ Contiguous(new)
              /\ \A k \in start(v)..end(v) : \E i \in DOMAIN new : new[i] = <<v, k>>
              /\ \A i \in DOMAIN x : i \in DOMAIN new /\ new[i] = x[i]
              /\ \A i \in DOMAIN new : new[i] = Dummy \/ new[i][1] = v \/ \E j \in DOMAIN x : x[j] = new[i]
            <4>1. Placeable(AllSlots(pre), x, a, v, start(v), end(v))
                BY <3>2, <3>3, <3>4, <3>5, <3>6 DEF Placeable
            <4>2. new = PlacedAt(x, a, v, start(v), end(v))
                BY <3>7, <3>8 DEF PlacedAt
            <4>3. IsPlaced(AllSlots(pre), x, v, start(v), end(v), new)
                BY <4>1, <4>2, PlacedBehind
            <4>4. QED
                BY <4>3 DEF IsPlaced
        <3>10. \A i \in DOMAIN new : new[i] = Dummy \/ \E m \in 1..n : new[i][1] = pre[m]
            <4> TAKE i \in DOMAIN new
            <4>1. n \in 1..n /\ \A m \in 1..(n - 1) : m \in 1..n
                BY <1>3
            <4>2. CASE new[i][1] = v
                BY <4>1, <4>2 DEF v
            <4>3. CASE \E j \in DOMAIN x : x[j] = new[i]
                BY <1>6, <4>1, <4>3 DEF PlacedFirst
            <4>4. QED
                BY <3>9, <4>2, <4>3
        <3>11. ASSUME NEW m \in 1..n, isDefined(pre[m]), NEW k \in start(pre[m])..end(pre[m])
               PROVE  \E i \in DOMAIN new : new[i] = <<pre[m], k>>
            <4>1. CASE m = n
                BY <3>9, <3>11, <4>1 DEF v
            <4>2. CASE m # n
                <5>1. m \in 1..(n - 1)
                    BY <4>2
                <5>2. PICK i \in DOMAIN x : x[i] = <<pre[m], k>>
                    BY <1>6, <3>11, <5>1 DEF PlacedFirst
                <5>3. QED
                    BY <3>9, <5>2
            <4>3. QED
                BY <4>1, <4>2
        <3>12. PlacedFirst(pre, n, new)
            BY <3>9, <3>10, <3>11 DEF PlacedFirst
        <3>13. QED
            BY <3>8, <3>12
    <2>3. QED
        BY <2>1, <2>2
<1>7. PlacedFirst(pre, 0, <<>>)
    <2>1. <<>> \in Seq(X) /\ DOMAIN <<>> = {}
        OBVIOUS
    <2>2. \A m \in 1..0 : FALSE
        OBVIOUS
    <2>3. QED
        BY <2>1, <2>2 DEF PlacedFirst, Contiguous
<1>8. \E f : Sol(f)
    <2> DEFINE R == Seq(X)
               H == [n \in 1..N |-> [x \in R |-> Body(n, x)]]
    <2>1. ASSUME NEW n \in 1..N, NEW x \in R PROVE Body(n, x) \in R
        <3>1. CASE ~isDefined(pre[n])
            BY <3>1
        <3>2. CASE isDefined(pre[n])
            <4> DEFINE v == pre[n]
                       a == Align(Len(x) + relAddrPt(v))
                       d == [i \in 1..a |-> Dummy]
                       b == [i \in 1..(end(v) - start(v) + 1) |-> <<v, start(v) + i - 1>>]
            <4>1. v \in Defined(pre) /\ v \in vtables
                BY <1>3, <3>2
            <4>2. a \in Nat
                <5>1. Len(x) \in Nat
                    OBVIOUS
                <5>2. Len(x) + relAddrPt(v) \in Int
                    BY <1>5, <4>1, <5>1
                <5>3. QED
                    BY <1>2, <5>2, AlignIsNat
            <4>3. d \in Seq(X)
                <5> HIDE DEF a
                <5>1. QED
                    BY <4>2
            <4>4. b \in Seq(X)
                <5>1. start(v) \in Nat /\ end(v) \in Nat /\ start(v) <= end(v)
                    BY <1>5, <4>1
                <5>2. \A k \in start(v)..end(v) : <<v, k>> \in X
                    BY <1>4, <4>1
                <5> HIDE DEF v, X
                <5>3. \A i \in 1..(end(v) - start(v) + 1) : start(v) + i - 1 \in start(v)..end(v)
                    BY <5>1
                <5>4. b \in [1..(end(v) - start(v) + 1) -> X]
                    BY <5>1, <5>2, <5>3
                <5>5. PICK size \in Nat : size = end(v) - start(v) + 1
                    BY <5>1
                <5>6. b \in [1..size -> X]
                    BY <5>4, <5>5
                <5> HIDE DEF b
                <5>7. QED
                    BY <5>6
            <4>5. Body(n, x) = x \o d \o b
                BY <3>2
            <4> HIDE DEF v, a, d, b, Body, X, Place, Align
            <4>6. x \o d \in Seq(X)
                BY <4>3
            <4>7. QED
                BY <4>4, <4>5, <4>6
        <3>3. QED
            BY <3>1, <3>2
    <2>2. Steps(N, R, <<>>, H)
        <3>1. <<>> \in R
            OBVIOUS
        <3>2. \A n \in 1..N : \A x \in R : H[n][x] = Body(n, x)
            OBVIOUS
        <3> HIDE DEF H, R, Body, N
        <3>3. QED
            BY <1>3, <2>1, <3>1, <3>2 DEF Steps
    <2> HIDE DEF H, R
    <2>3. PICK f \in [0..N -> R] : Stepped(N, <<>>, H, f)
        BY <2>2, StepsHaveSolution
    <2>4. \A n \in 1..N : f[n] = Body(n, f[n - 1])
        <3> TAKE n \in 1..N
        <3>1. n - 1 \in 0..N
            BY <1>3
        <3>2. f[n] = H[n][f[n - 1]] /\ f[n - 1] \in R
            BY <2>3, <3>1 DEF Stepped
        <3> HIDE DEF Body
        <3>3. QED
            BY <3>2 DEF H
    <2>5. \A n \in 0..N : f[n] = IF n = 0 THEN <<>> ELSE
                             IF isDefined(pre[n]) THEN Place(f[n - 1], pre[n]) ELSE f[n - 1]
        <3> TAKE n \in 0..N
        <3>1. CASE n = 0
            BY <2>3, <3>1 DEF Stepped
        <3>2. CASE n # 0
            <4>1. n \in 1..N
                BY <1>3, <3>2
            <4> HIDE DEF Place
            <4>2. QED
                BY <2>4, <3>2, <4>1
        <3>3. QED
            BY <3>1, <3>2
    <2>6. f = [n \in 0..N |-> f[n]]
        BY <2>3
    <2> HIDE DEF Place
    <2>7. Sol(f)
        BY <2>5, <2>6
    <2> HIDE DEF Sol
    <2>8. QED
        BY <2>7
<1>9. Sol(placed)
    <2> HIDE DEF Sol
    <2>1. QED
        BY <1>8
<1> HIDE DEF placed
<1>10. placed[0] = <<>> /\ \A n \in 1..N : placed[n] = Body(n, placed[n - 1])
    <2>1. 0 \in 0..N /\ \A n \in 1..N : n \in 0..N /\ n # 0
        BY <1>3
    <2> HIDE DEF Place
    <2>2. QED
        BY <1>9, <2>1
<1> HIDE DEF Sol, Body, Place
<1> DEFINE T == {n \in 0..N : PlacedFirst(pre, n, placed[n])}
<1>11. N \in T
    <2>1. 0 \in T
        BY <1>3, <1>7, <1>10
    <2>2. \A n \in 1..N : n - 1 \in T => n \in T
        BY <1>3, <1>6, <1>10
    <2> HIDE DEF T
    <2>3. \A n \in 0..N : n \in T
        BY <1>3, <2>1, <2>2, CountUp
    <2>4. QED
        BY <1>3, <2>3
<1>12. PICK list : list = Ordered(pre)
    OBVIOUS
<1>13. PlacedFirst(pre, N, list)
    BY <1>1, <1>11, <1>12
<1>14. \A s \in AllSlots(pre) : \E i \in DOMAIN list : list[i] = s
    <2> TAKE s \in AllSlots(pre)
    <2>1. s[1] \in Defined(pre) /\ s[2] \in start(s[1])..end(s[1]) /\ s = <<s[1], s[2]>> /\ s[1] \in Range(pre)
        BY <1>4
    <2>2. PICK m \in 1..N : pre[m] = s[1]
        BY <1>3, <2>1 DEF Range
    <2>3. isDefined(pre[m])
        BY <2>1, <2>2 DEF Defined
    <2>4. QED
        BY <1>13, <2>1, <2>2, <2>3 DEF PlacedFirst
<1>15. \A i \in DOMAIN list : i \in Int /\ (list[i] # Dummy => list[i] \in AllSlots(pre))
    BY <1>13 DEF PlacedFirst
<1>16. \A i, j \in DOMAIN list : list[i] # Dummy /\ list[i] = list[j] => i = j
    <2> TAKE i, j \in DOMAIN list
    <2> HAVE list[i] # Dummy /\ list[i] = list[j]
    <2>1. j - i = list[j][2] - list[i][2]
        BY <1>13 DEF PlacedFirst, Contiguous
    <2>2. list[i] \in AllSlots(pre) /\ list[i][1] \in vtables
        BY <1>15, SlotFacts
    <2>3. list[i][2] \in Int
        BY <1>4, <1>5, <2>2
    <2>4. QED
        BY <1>15, <2>1, <2>3
<1>17. ASSUME NEW i \in DOMAIN list, NEW j \in DOMAIN list, list[i] # Dummy, list[i][1] = list[j][1], list[i][2] < list[j][2]
       PROVE  i < j
    <2>1. list[i] \in AllSlots(pre) /\ list[i][1] \in vtables
        BY <1>15, <1>17, SlotFacts
    <2>2. list[j] # Dummy
        BY <1>5, <1>17, <2>1 DEF Dummy
    <2>3. list[j] \in AllSlots(pre) /\ list[j][1] \in vtables
        BY <1>15, <2>2, SlotFacts
    <2>4. j - i = list[j][2] - list[i][2]
        BY <1>13, <1>17, <2>2 DEF PlacedFirst, Contiguous
    <2>5. list[i][2] \in Int /\ list[j][2] \in Int
        BY <1>4, <1>5, <2>1, <2>3
    <2>6. QED
        BY <1>15, <1>17, <2>4, <2>5
<1>18. IsLayout(pre, list)
    BY <1>13, <1>14, <1>16, <1>17 DEF IsLayout, PlacedFirst
<1>19. QED
    BY <1>12, <1>13, <1>18 DEF PlacedFirst

-----------------------------------------------------------------------------
(* The new indices.                                                        *)

PlaceOf(list, e) == CHOOSE i \in DOMAIN list : list[i] = e

\* Where a vtable's slots are, from the first to the last.
IndsOf(list, v) == [k \in 1..(end(v) - start(v) + 1) |-> PlaceOf(list, <<v, start(v) + k - 1>>) - 1]

\* In a layout the place of a slot is where it is.
LEMMA PlaceFacts ==
    ASSUME NEW pre, NEW list, IsLayout(pre, list)
    PROVE  /\ \A i \in DOMAIN list : i \in Nat \ {0} /\ i <= Len(list) /\ (list[i] = Dummy \/ list[i] \in AllSlots(pre))
           /\ Len(list) \in Nat /\ DOMAIN list = 1..Len(list)
           /\ \A s \in AllSlots(pre) : PlaceOf(list, s) \in DOMAIN list /\ list[PlaceOf(list, s)] = s
           /\ \A i \in DOMAIN list : list[i] # Dummy => PlaceOf(list, list[i]) = i
<1>1. list \in Seq(AllSlots(pre) \cup {Dummy})
    BY DEF IsLayout
<1>2. Len(list) \in Nat /\ DOMAIN list = 1..Len(list) /\ \A i \in DOMAIN list : i \in Nat \ {0} /\ i <= Len(list) /\ (list[i] = Dummy \/ list[i] \in AllSlots(pre))
    BY <1>1
<1>3. ASSUME NEW s, \E i \in DOMAIN list : list[i] = s
      PROVE  PlaceOf(list, s) \in DOMAIN list /\ list[PlaceOf(list, s)] = s
    BY <1>3, Zenon DEF PlaceOf
<1>4. \A s \in AllSlots(pre) : PlaceOf(list, s) \in DOMAIN list /\ list[PlaceOf(list, s)] = s
    BY <1>3 DEF IsLayout
<1>5. \A i \in DOMAIN list : list[i] # Dummy => PlaceOf(list, list[i]) = i
    <2> TAKE i \in DOMAIN list
    <2> HAVE list[i] # Dummy
    <2>1. PlaceOf(list, list[i]) \in DOMAIN list /\ list[PlaceOf(list, list[i])] = list[i]
        BY <1>3
    <2>2. QED
        BY <2>1 DEF IsLayout
<1>6. QED
    BY <1>2, <1>4, <1>5

\* The slots of one vtable in a layout.
AreInds(list, v, size, at) ==
    /\ size \in Nat \ {0} /\ at \in [1..size -> Nat]
    /\ \A k \in 1..size :
          /\ at[k] \in Nat /\ at[k] + 1 \in DOMAIN list /\ list[at[k] + 1] = <<v, start(v) + k - 1>>
          /\ at[k] + 1 = PlaceOf(list, <<v, start(v) + k - 1>>)
    /\ \A k, l \in 1..size : k < l => at[k] < at[l]
    /\ \A i \in DOMAIN list : list[i][1] = v => \E k \in 1..size : at[k] = i - 1

\* The search that fills newLayoutInds finds the places of a vtable's slots, in
\* their order.
LEMMA SlotPlaces ==
    ASSUME Queries, NEW root \in vtables, NEW pre, IsPreorder(root, pre), NEW list, IsLayout(pre, list),
           NEW v \in Defined(pre)
    PROVE  AreInds(list, v, end(v) - start(v) + 1, IndsOf(list, v))
<1> DEFINE size == end(v) - start(v) + 1
           at == IndsOf(list, v)
<1>1. v \in vtables /\ start(v) \in Nat /\ end(v) \in Nat /\ start(v) <= end(v) /\ v # dummyVtable
    <2>1. v \in vtables
        BY SlotFacts
    <2>2. QED
        BY <2>1, ShapeFacts, VtableFacts
<1>2. size \in Nat \ {0}
    BY <1>1
<1>3. \A k \in 1..size : <<v, start(v) + k - 1>> \in AllSlots(pre)
    <2>1. \A k \in 1..size : start(v) + k - 1 \in start(v)..end(v)
        BY <1>1
    <2>2. QED
        BY <2>1, SlotFacts
<1>4. at = [k \in 1..size |-> PlaceOf(list, <<v, start(v) + k - 1>>) - 1]
    BY DEF IndsOf
<1>5. /\ \A i \in DOMAIN list : i \in Nat \ {0} /\ (list[i] = Dummy \/ list[i] \in AllSlots(pre))
      /\ \A s \in AllSlots(pre) : PlaceOf(list, s) \in DOMAIN list /\ list[PlaceOf(list, s)] = s
      /\ \A i \in DOMAIN list : list[i] # Dummy => PlaceOf(list, list[i]) = i
    BY PlaceFacts
<1> HIDE DEF at
<1>6. \A k \in 1..size :
          /\ at[k] \in Nat /\ at[k] + 1 \in DOMAIN list /\ list[at[k] + 1] = <<v, start(v) + k - 1>>
          /\ at[k] + 1 = PlaceOf(list, <<v, start(v) + k - 1>>)
    <2> TAKE k \in 1..size
    <2> DEFINE p == PlaceOf(list, <<v, start(v) + k - 1>>)
    <2>1. p \in DOMAIN list /\ list[p] = <<v, start(v) + k - 1>> /\ p \in Nat \ {0}
        BY <1>3, <1>5
    <2>2. at[k] = p - 1
        BY <1>4
    <2> HIDE DEF p
    <2>3. p - 1 \in Nat /\ (p - 1) + 1 = p
        BY <2>1
    <2>4. QED
        BY <2>1, <2>2, <2>3 DEF p
<1> HIDE DEF size
<1>7. \A k, l \in 1..size : k < l => at[k] < at[l]
    <2> TAKE k, l \in 1..size
    <2> HAVE k < l
    <2>1. k \in Int /\ l \in Int /\ start(v) + k - 1 < start(v) + l - 1
        BY <1>1, <1>2
    <2>2. list[at[k] + 1] = <<v, start(v) + k - 1>> /\ list[at[l] + 1] = <<v, start(v) + l - 1>>
        BY <1>6
    <2>3. list[at[k] + 1] # Dummy
        BY <1>1, <2>2 DEF Dummy
    <2>4. at[k] + 1 < at[l] + 1
        <3>1. at[k] + 1 \in DOMAIN list /\ at[l] + 1 \in DOMAIN list
            BY <1>6
        <3>2. list[at[k] + 1][1] = list[at[l] + 1][1] /\ list[at[k] + 1][2] < list[at[l] + 1][2]
            BY <2>1, <2>2
        <3>3. QED
            BY <2>3, <3>1, <3>2 DEF IsLayout
    <2>5. at[k] \in Nat /\ at[l] \in Nat
        BY <1>6
    <2>6. QED
        BY <2>4, <2>5
<1>8. \A i \in DOMAIN list : list[i][1] = v => \E k \in 1..size : at[k] = i - 1
    <2> TAKE i \in DOMAIN list
    <2> HAVE list[i][1] = v
    <2>1. list[i] # Dummy /\ list[i] \in AllSlots(pre)
        BY <1>1, <1>5 DEF Dummy
    <2>2. list[i][2] \in start(v)..end(v) /\ list[i] = <<v, list[i][2]>>
        BY <2>1, SlotFacts
    <2>3. PICK k \in 1..size : list[i][2] = start(v) + k - 1
        <3>1. list[i][2] - start(v) + 1 \in 1..size /\ list[i][2] = start(v) + (list[i][2] - start(v) + 1) - 1
            BY <1>1, <2>2 DEF size
        <3>2. QED
            BY <3>1
    <2>4. PlaceOf(list, list[i]) = i
        BY <1>5, <2>1
    <2>5. list[i] = <<v, start(v) + k - 1>>
        BY <2>2, <2>3
    <2>6. at[k] + 1 = i
        BY <1>6, <2>4, <2>5
    <2>7. at[k] \in Nat
        BY <1>6
    <2>8. at[k] = i - 1
        BY <2>6, <2>7
    <2>9. QED
        BY <2>8
<1>9. at \in [1..size -> Nat]
    BY <1>4, <1>6
<1>10. AreInds(list, v, size, at)
    BY <1>2, <1>6, <1>7, <1>8, <1>9 DEF AreInds
<1>11. QED
    BY <1>10 DEF size, at

\* calculateNewLayoutInds lists these.
LEMMA NewIndsFacts ==
    ASSUME Queries, NEW root \in vtables, NEW pre, IsPreorder(root, pre), NEW list, IsLayout(pre, list),
           \A v \in Defined(pre) : v \notin DOMAIN newLayoutInds,
           \A v \in DOMAIN newLayoutInds : newLayoutInds[v] \in Seq(Nat)
    PROVE  /\ DOMAIN NewInds(list) = DOMAIN newLayoutInds \cup Defined(pre)
           /\ \A v \in DOMAIN newLayoutInds : NewInds(list)[v] = newLayoutInds[v]
           /\ \A v \in Defined(pre) : NewInds(list)[v] = IndsOf(list, v)
<1> DEFINE placed == {list[i][1] : i \in DOMAIN list} \ {dummyVtable}
           indsOf(v) == Increasing({i - 1 : i \in {j \in DOMAIN list : list[j][1] = v}})
<1>1. NewInds(list) = [v \in DOMAIN newLayoutInds \cup placed |->
            (IF v \in DOMAIN newLayoutInds THEN newLayoutInds[v] ELSE <<>>)
            \o (IF v \in placed THEN indsOf(v) ELSE <<>>)]
    BY DEF NewInds
<1>2. placed = Defined(pre)
    <2>1. \A i \in DOMAIN list : list[i][1] # dummyVtable => list[i][1] \in Defined(pre)
        <3>1. \A i \in DOMAIN list : list[i] = Dummy \/ list[i] \in AllSlots(pre)
            BY PlaceFacts
        <3>2. QED
            BY <3>1, SlotFacts DEF Dummy
    <2>2. ASSUME NEW v \in Defined(pre) PROVE v \in placed
        <3>1. AreInds(list, v, end(v) - start(v) + 1, IndsOf(list, v))
            BY SlotPlaces
        <3>a. 1 \in 1..(end(v) - start(v) + 1)
            BY <3>1 DEF AreInds
        <3>2. PICK i \in DOMAIN list : list[i] = <<v, start(v) + 1 - 1>>
            BY <3>1, <3>a DEF AreInds
        <3>3. v # dummyVtable
            BY SlotFacts, VtableFacts
        <3>4. QED
            BY <3>2, <3>3
    <2>3. QED
        BY <2>1, <2>2
<1>3. ASSUME NEW v \in Defined(pre) PROVE indsOf(v) = IndsOf(list, v)
    <2> DEFINE size == end(v) - start(v) + 1
               at == IndsOf(list, v)
               S == {i - 1 : i \in {j \in DOMAIN list : list[j][1] = v}}
    <2>1. AreInds(list, v, size, at)
        BY SlotPlaces
    <2> HIDE DEF at, size
    <2>2. /\ size \in Nat /\ at \in [1..size -> Nat]
          /\ \A k \in 1..size : at[k] \in Nat /\ at[k] + 1 \in DOMAIN list /\ list[at[k] + 1][1] = v
          /\ \A k, l \in 1..size : k < l => at[k] < at[l]
          /\ \A i \in DOMAIN list : list[i][1] = v => \E k \in 1..size : at[k] = i - 1
        <3>1. \A k \in 1..size : list[at[k] + 1] = <<v, start(v) + k - 1>>
            BY <2>1 DEF AreInds
        <3>2. \A k \in 1..size : list[at[k] + 1][1] = v
            BY <3>1
        <3>3. size \in Nat
            BY <2>1 DEF AreInds
        <3> HIDE DEF S
        <3>4. QED
            BY <2>1, <3>2, <3>3, Zenon DEF AreInds
    <2>3. S \subseteq Int
        BY PlaceFacts
    <2>4. \A k \in 1..size : at[k] \in S
        <3> TAKE k \in 1..size
        <3>1. at[k] = (at[k] + 1) - 1
            BY <2>2
        <3>2. QED
            BY <2>2, <3>1
    <2>5. \A x \in S : \E k \in 1..size : at[k] = x
        BY <2>2
    <2>6. at \in [1..size -> S]
        BY <2>2, <2>4
    <2> DEFINE b == {p \in S \X S : p[1] < p[2]}
    <2>7. Orders(b, S)
        BY <2>3, NumbersOrdered
    <2>8. \A k, l \in 1..size : k < l => <<at[k], at[l]>> \in b
        BY <2>2, <2>4
    <2>9. indsOf(v) = Sorted(S, b)
        BY DEF Increasing
    <2> HIDE DEF S, b
    <2>10. Sorted(S, b) = at
        <3>1. PICK T, c, m, f : T = S /\ c = b /\ m = size /\ f = at
            OBVIOUS
        <3>2. m \in Nat
            BY <2>2, <3>1
        <3>3. f \in [1..m -> T] /\ Orders(c, T)
            BY <2>6, <2>7, <3>1
        <3>4. /\ \A x \in T : \E k \in 1..m : f[k] = x
              /\ \A k, l \in 1..m : k < l => <<f[k], f[l]>> \in c
            BY <2>5, <2>8, <3>1
        <3>5. Sorted(T, c) = f
            BY <3>2, <3>3, <3>4, SortedIsOnly
        <3>6. QED
            BY <3>1, <3>5
    <2>11. QED
        BY <2>9, <2>10 DEF at
<1>4. \A v \in Defined(pre) : IndsOf(list, v) \in Seq(Nat)
    <2> TAKE v \in Defined(pre)
    <2> DEFINE size == end(v) - start(v) + 1
               at == IndsOf(list, v)
    <2>1. AreInds(list, v, size, at)
        BY SlotPlaces
    <2> HIDE DEF at, size
    <2>2. size \in Nat /\ at \in [1..size -> Nat]
        BY <2>1 DEF AreInds
    <2>3. QED
        BY <2>2 DEF at
<1> HIDE DEF placed, indsOf
<1>5. \A s \in Seq(Nat) : s \o <<>> = s /\ <<>> \o s = s
    OBVIOUS
<1>6. \A v \in DOMAIN newLayoutInds : v \notin placed
    BY <1>2
<1>7. QED
    BY <1>1, <1>2, <1>3, <1>4, <1>5, <1>6

-----------------------------------------------------------------------------
(* The layouts, as the first loop leaves them.                             *)

IsLaidOut(r) ==
    /\ IsLayout(Cloud(r), interleavingMap[r])
    /\ alignmentMap[r] \in Nat \ {0}
    /\ interleave => interleavingMap[r] = Interleaved(Cloud(r), NoPads) /\ alignmentMap[r] = 1
    /\ ~interleave => Contiguous(interleavingMap[r])

LayoutsDone ==
    /\ prePadMap = NoPads
    /\ DOMAIN interleavingMap = laidOut /\ DOMAIN alignmentMap = laidOut
    /\ \A r \in laidOut : IsLaidOut(r)
    /\ DOMAIN newLayoutInds = {v \in vtables : isDefined(v) /\ cha.ancestor[v] \in laidOut}
    /\ \A v \in DOMAIN newLayoutInds : newLayoutInds[v] = IndsOf(interleavingMap[cha.ancestor[v]], v)

\* No cloud is laid out at first.
LEMMA LayoutsInit == ChecksInit => LayoutsDone
BY DEF ChecksInit, InitFrom, LayoutsDone, NoPads, NoMap

\* Queries that stay the same answer the same.
LEMMA SameAnswers ==
    ASSUME cha' = cha
    PROVE  /\ vtables' = vtables /\ NoPads' = NoPads
           /\ \A v : Reach(v)' = Reach(v) /\ Cloud(v)' = Cloud(v) /\ isDefined(v)' = isDefined(v)
           /\ \A p, l : IsLayout(p, l)' = IsLayout(p, l)
           /\ \A p : Interleaved(p, NoPads)' = Interleaved(p, NoPads)
           /\ \A l, v : IndsOf(l, v)' = IndsOf(l, v)
<1>1. vtables' = vtables /\ NoPads' = NoPads
    BY DEF vtables, NoPads
<1>2. \A v : Reach(v)' = Reach(v) /\ Cloud(v)' = Cloud(v) /\ isDefined(v)' = isDefined(v)
    BY DEF vtables, Reach, Closed, Cloud, preorder, InOrder, ByName, isDefined
<1>3. \A p : AllSlots(p)' = AllSlots(p)
    BY DEF AllSlots, Slots, NoPads, Defined, isDefined, start, end, vtables
<1>4. \A p, l : IsLayout(p, l)' = IsLayout(p, l)
    BY <1>3, Zenon DEF IsLayout
<1>5. \A p : Interleaved(p, NoPads)' = Interleaved(p, NoPads)
    BY DEF Interleaved, Slots, NoPads, Defined, isDefined, start, end, vtables, Row
<1>6. \A l, v : IndsOf(l, v)' = IndsOf(l, v)
    BY DEF IndsOf, start, end
<1>7. QED
    BY <1>1, <1>2, <1>4, <1>5, <1>6

\* What newLayoutInds holds of a vtable are the places of its slots.
LEMMA IndsAreNats ==
    ASSUME Queries, LayoutsDone, laidOut \subseteq cha.roots, NEW v \in DOMAIN newLayoutInds
    PROVE  /\ newLayoutInds[v] \in Seq(Nat)
           /\ cha.ancestor[v] \in laidOut
           /\ AreInds(interleavingMap[cha.ancestor[v]], v, end(v) - start(v) + 1, newLayoutInds[v])
<1> DEFINE r == cha.ancestor[v]
<1>1. v \in vtables /\ isDefined(v) /\ r \in laidOut /\ r \in cha.roots
    BY DEF LayoutsDone
<1>2. <<r, 0>> \in vtables /\ IsPreorder(<<r, 0>>, Cloud(r)) /\ v \in Range(Cloud(r))
    BY <1>1, CloudFacts
<1>3. v \in Defined(Cloud(r))
    BY <1>1, <1>2 DEF Defined
<1>4. IsLayout(Cloud(r), interleavingMap[r]) /\ newLayoutInds[v] = IndsOf(interleavingMap[r], v)
    BY <1>1 DEF LayoutsDone, IsLaidOut
<1>5. AreInds(interleavingMap[r], v, end(v) - start(v) + 1, newLayoutInds[v])
    BY <1>2, <1>3, <1>4, SlotPlaces
<1>6. newLayoutInds[v] \in Seq(Nat)
    <2>1. PICK n, a : n = end(v) - start(v) + 1 /\ a = newLayoutInds[v]
        OBVIOUS
    <2>2. n \in Nat /\ a \in [1..n -> Nat]
        BY <1>5, <2>1 DEF AreInds
    <2>3. a \in Seq(Nat)
        BY <2>2
    <2>4. QED
        BY <2>1, <2>3
<1>7. QED
    BY <1>1, <1>5, <1>6

\* The first loop lays a cloud out as LayoutsDone says.
LEMMA LayoutsAdded ==
    ASSUME RangesInv, LayoutsDone, NEW root \in cha.roots, Layout(root)
    PROVE  LayoutsDone'
<1> DEFINE pre == Cloud(root)
<1>1. Queries /\ interleave \in BOOLEAN
    BY ReadIsWellFormed DEF RangesInv
<1>2. root \notin laidOut /\ laidOut \subseteq cha.roots /\ laidOut' = laidOut \cup {root} /\ cha' = cha /\ interleave' = interleave
    BY DEF Layout, IsNext, inputVars, RangesInv, Loops
<1>3. <<root, 0>> \in vtables /\ IsPreorder(<<root, 0>>, pre) /\ Range(pre) = {v \in vtables : cha.ancestor[v] = root}
    BY <1>1, CloudFacts
<1>4. prePadMap = NoPads
    BY DEF LayoutsDone
<1>5. PICK list, stride :
         /\ prePadMap' = IF interleave THEN PrePads(pre) ELSE prePadMap
         /\ list = IF interleave THEN Interleaved(pre, prePadMap') ELSE Ordered(pre)
         /\ stride = IF interleave THEN 1 ELSE Stride(pre)
         /\ interleavingMap' = Extend([r \in {root} |-> list], interleavingMap)
         /\ alignmentMap' = Extend([r \in {root} |-> stride], alignmentMap)
         /\ newLayoutInds' = NewInds(list)
    BY DEF Layout, Cloud
<1> HIDE DEF pre
<1>6. prePadMap' = NoPads
    BY <1>1, <1>3, <1>4, <1>5, PadsStayZero
<1>7. /\ IsLayout(pre, list) /\ stride \in Nat \ {0}
      /\ interleave => list = Interleaved(pre, NoPads) /\ stride = 1
      /\ ~interleave => Contiguous(list)
    <2>1. CASE interleave
        BY <1>1, <1>3, <1>5, <1>6, <2>1, InterleavedLists
    <2>2. CASE ~interleave
        BY <1>1, <1>3, <1>5, <2>2, OrderedLists, StrideIsPositive
    <2>3. QED
        BY <2>1, <2>2
<1>8. /\ DOMAIN interleavingMap' = laidOut' /\ DOMAIN alignmentMap' = laidOut'
      /\ interleavingMap'[root] = list /\ alignmentMap'[root] = stride
      /\ \A r \in laidOut : interleavingMap'[r] = interleavingMap[r] /\ alignmentMap'[r] = alignmentMap[r]
    BY <1>2, <1>5 DEF LayoutsDone, Extend
<1>9. DOMAIN newLayoutInds = {v \in vtables : isDefined(v) /\ cha.ancestor[v] \in laidOut}
    BY DEF LayoutsDone
<1>10. Defined(pre) = {v \in vtables : isDefined(v) /\ cha.ancestor[v] = root}
    BY <1>3 DEF Defined
<1>11. /\ \A v \in Defined(pre) : v \notin DOMAIN newLayoutInds
       /\ \A v \in DOMAIN newLayoutInds : newLayoutInds[v] \in Seq(Nat)
    BY <1>1, <1>2, <1>9, <1>10, IndsAreNats
<1>12. /\ DOMAIN newLayoutInds' = DOMAIN newLayoutInds \cup Defined(pre)
       /\ \A v \in DOMAIN newLayoutInds : newLayoutInds'[v] = newLayoutInds[v]
       /\ \A v \in Defined(pre) : newLayoutInds'[v] = IndsOf(list, v)
    <2>1. /\ DOMAIN NewInds(list) = DOMAIN newLayoutInds \cup Defined(pre)
          /\ \A v \in DOMAIN newLayoutInds : NewInds(list)[v] = newLayoutInds[v]
          /\ \A v \in Defined(pre) : NewInds(list)[v] = IndsOf(list, v)
        BY <1>1, <1>3, <1>7, <1>11, NewIndsFacts
    <2>2. QED
        BY <1>5, <2>1
<1>13. /\ vtables' = vtables /\ NoPads' = NoPads
       /\ \A v : Reach(v)' = Reach(v) /\ Cloud(v)' = Cloud(v) /\ isDefined(v)' = isDefined(v)
       /\ \A p, l : IsLayout(p, l)' = IsLayout(p, l)
       /\ \A p : Interleaved(p, NoPads)' = Interleaved(p, NoPads)
       /\ \A l, v : IndsOf(l, v)' = IndsOf(l, v)
    BY <1>2, SameAnswers
<1>14. ASSUME NEW r \in laidOut'
       PROVE  /\ IsLayout(Cloud(r), interleavingMap'[r]) /\ alignmentMap'[r] \in Nat \ {0}
              /\ interleave => interleavingMap'[r] = Interleaved(Cloud(r), NoPads) /\ alignmentMap'[r] = 1
              /\ ~interleave => Contiguous(interleavingMap'[r])
    <2>1. CASE r \in laidOut
        BY <1>8, <2>1 DEF LayoutsDone, IsLaidOut
    <2>2. CASE r = root
        BY <1>7, <1>8, <2>2 DEF pre
    <2>3. QED
        BY <1>2, <2>1, <2>2
<1>15. \A r \in laidOut' : IsLaidOut(r)'
    <2> TAKE r \in laidOut'
    <2>1. IsLayout(Cloud(r), interleavingMap[r])' = IsLayout(Cloud(r), interleavingMap'[r])
        <3>1. PICK p, l : p = Cloud(r) /\ l = interleavingMap'[r] /\ p = Cloud(r)'
            BY <1>13
        <3>2. IsLayout(p, l)' = IsLayout(p, l)
            BY <1>13
        <3>3. QED
            BY <3>1, <3>2
    <2>2. Interleaved(Cloud(r), NoPads)' = Interleaved(Cloud(r), NoPads)
        <3>1. PICK p : p = Cloud(r) /\ p = Cloud(r)'
            BY <1>13
        <3>2. Interleaved(p, NoPads)' = Interleaved(p, NoPads)
            BY <1>13
        <3>3. QED
            BY <3>1, <3>2
    <2>3. Contiguous(interleavingMap[r])' = Contiguous(interleavingMap'[r])
        BY DEF Contiguous
    <2>4. QED
        BY <1>2, <1>14, <2>1, <2>2, <2>3 DEF IsLaidOut
<1>16. DOMAIN newLayoutInds' = {v \in vtables : isDefined(v) /\ cha.ancestor[v] \in laidOut'}
    BY <1>2, <1>9, <1>10, <1>12
<1>17. \A v \in DOMAIN newLayoutInds' : newLayoutInds'[v] = IndsOf(interleavingMap'[cha.ancestor[v]], v)
    <2> TAKE v \in DOMAIN newLayoutInds'
    <2>1. CASE v \in DOMAIN newLayoutInds
        <3>1. cha.ancestor[v] \in laidOut
            BY <1>9, <2>1
        <3>2. newLayoutInds[v] = IndsOf(interleavingMap[cha.ancestor[v]], v)
            BY <2>1 DEF LayoutsDone
        <3>3. QED
            BY <1>8, <1>12, <2>1, <3>1, <3>2
    <2>2. CASE v \in Defined(pre)
        BY <1>8, <1>10, <1>12, <2>2
    <2>3. QED
        BY <1>12, <2>1, <2>2
<1>18. \A v \in DOMAIN newLayoutInds' : newLayoutInds'[v] = IndsOf(interleavingMap[cha.ancestor[v]], v)'
    <2> TAKE v \in DOMAIN newLayoutInds'
    <2>1. PICK l : l = interleavingMap'[cha.ancestor[v]]
        OBVIOUS
    <2>2. IndsOf(l, v)' = IndsOf(l, v)
        BY <1>13
    <2>3. QED
        BY <1>2, <1>17, <2>1, <2>2
<1>19. QED
    BY <1>2, <1>6, <1>8, <1>13, <1>15, <1>16, <1>18 DEF LayoutsDone

\* Steps that leave the layouts alone keep LayoutsDone.
LEMMA LayoutsKept ==
    ASSUME LayoutsDone, cha' = cha, interleave' = interleave, UNCHANGED <<laidOut, layoutVars>>
    PROVE  LayoutsDone'
<1>1. /\ vtables' = vtables /\ NoPads' = NoPads
      /\ \A v : Reach(v)' = Reach(v) /\ Cloud(v)' = Cloud(v) /\ isDefined(v)' = isDefined(v)
      /\ \A p, l : IsLayout(p, l)' = IsLayout(p, l)
      /\ \A p : Interleaved(p, NoPads)' = Interleaved(p, NoPads)
      /\ \A l, v : IndsOf(l, v)' = IndsOf(l, v)
    BY SameAnswers
<1>2. prePadMap' = prePadMap /\ interleavingMap' = interleavingMap /\ alignmentMap' = alignmentMap /\ newLayoutInds' = newLayoutInds /\ laidOut' = laidOut
    BY DEF layoutVars
<1>3. ASSUME NEW r \in laidOut PROVE IsLaidOut(r)'
    <2>1. IsLaidOut(r)
        BY DEF LayoutsDone
    <2>2. PICK p, l : p = Cloud(r) /\ l = interleavingMap[r] /\ p = Cloud(r)' /\ l = interleavingMap'[r]
        BY <1>1, <1>2
    <2>3. IsLayout(p, l)' = IsLayout(p, l) /\ Interleaved(p, NoPads)' = Interleaved(p, NoPads)
        BY <1>1
    <2>4. Contiguous(l)' = Contiguous(l)
        BY DEF Contiguous
    <2>5. QED
        BY <1>2, <2>1, <2>2, <2>3, <2>4 DEF IsLaidOut
<1>4. ASSUME NEW v \in DOMAIN newLayoutInds PROVE newLayoutInds[v] = IndsOf(interleavingMap[cha.ancestor[v]], v)'
    <2>1. PICK l : l = interleavingMap[cha.ancestor[v]] /\ l = interleavingMap'[cha.ancestor[v]]
        BY <1>2
    <2>2. IndsOf(l, v)' = IndsOf(l, v)
        BY <1>1
    <2>3. newLayoutInds[v] = IndsOf(l, v)
        BY <2>1 DEF LayoutsDone
    <2>4. QED
        BY <2>1, <2>2, <2>3
<1>5. QED
    BY <1>1, <1>2, <1>3, <1>4 DEF LayoutsDone

-----------------------------------------------------------------------------
(* What verifyNewLayouts finds.                                            *)

\* An interval has its bounds as least and greatest element.
LEMMA IntervalFacts ==
    ASSUME NEW a \in Int, NEW b \in Int, a <= b
    PROVE  /\ a..b # {} /\ IsFiniteSet(a..b) /\ Cardinality(a..b) = b - a + 1
           /\ Max(a..b) = b /\ Min(a..b) = a
<1>1. a..b # {} /\ a..b \subseteq Int /\ a \in a..b /\ b \in a..b
    OBVIOUS
<1>2. IsFiniteSet(a..b) /\ Cardinality(a..b) = b - a + 1
    BY FS_Interval
<1>3. Max(a..b) \in a..b /\ \A x \in a..b : x <= Max(a..b)
    BY <1>1, <1>2, FiniteHasGreatest
<1>4. Min(a..b) = a
    <2>1. \A y \in a..b : a <= y
        OBVIOUS
    <2>2. \E x \in a..b : \A y \in a..b : x <= y
        BY <1>1, <2>1
    <2>3. Min(a..b) \in a..b /\ \A y \in a..b : Min(a..b) <= y
        BY <2>2 DEF Min
    <2>4. QED
        BY <1>1, <2>3
<1>5. Max(a..b) = b
    BY <1>1, <1>3
<1>6. QED
    BY <1>1, <1>2, <1>4, <1>5

\* A cloud whose layout is done.
InLayout(r) == r \in cha.roots /\ laidOut = cha.roots /\ IsLayout(Cloud(r), interleavingMap[r])
               /\ IsPreorder(<<r, 0>>, Cloud(r)) /\ <<r, 0>> \in vtables

\* The map that verifyNewLayouts builds leads from a slot to its place.
LEMMA OldToNewFacts ==
    ASSUME Queries, NEW r, InLayout(r)
    PROVE  /\ DOMAIN OldToNew(r) = AllSlots(Cloud(r))
           /\ (\A i \in DOMAIN interleavingMap[r] : interleavingMap[r][i] # Dummy) =>
                 \A s \in AllSlots(Cloud(r)) : OldToNew(r)[s] = PlaceOf(interleavingMap[r], s) - 1
<1> DEFINE pre == Cloud(r)
           list == interleavingMap[r]
<1>1. IsLayout(pre, list) /\ IsPreorder(<<r, 0>>, pre) /\ <<r, 0>> \in vtables
    BY DEF InLayout
<1>2. /\ \A i \in DOMAIN list : i \in Nat \ {0} /\ i <= Len(list) /\ (list[i] = Dummy \/ list[i] \in AllSlots(pre))
      /\ Len(list) \in Nat /\ DOMAIN list = 1..Len(list)
      /\ \A s \in AllSlots(pre) : PlaceOf(list, s) \in DOMAIN list /\ list[PlaceOf(list, s)] = s
      /\ \A i \in DOMAIN list : list[i] # Dummy => PlaceOf(list, list[i]) = i
    BY <1>1, PlaceFacts
<1>3. Dummy \notin AllSlots(pre)
    BY <1>1, DummyIsNoSlot
<1>4. Places(r) = {i \in DOMAIN list : list[i] # Dummy}
    BY DEF Places
<1>5. OldToNew(r) = [e \in {list[i] : i \in Places(r)} |->
                        Cardinality({j \in Places(r) : j < CHOOSE i \in Places(r) : list[i] = e})]
    BY DEF OldToNew
<1> HIDE DEF list, pre
<1>6. {list[i] : i \in Places(r)} = AllSlots(pre)
    BY <1>2, <1>3, <1>4
<1>7. ASSUME \A i \in DOMAIN list : list[i] # Dummy, NEW s \in AllSlots(pre)
      PROVE  OldToNew(r)[s] = PlaceOf(list, s) - 1
    <2>1. Places(r) = 1..Len(list)
        BY <1>2, <1>4, <1>7
    <2>2. (CHOOSE i \in Places(r) : list[i] = s) = PlaceOf(list, s)
        BY <1>2, <2>1 DEF PlaceOf
    <2>3. OldToNew(r)[s] = Cardinality({j \in Places(r) : j < PlaceOf(list, s)})
        BY <1>5, <1>6, <2>2
    <2>4. PICK n : n = PlaceOf(list, s)
        OBVIOUS
    <2>5. n \in Nat \ {0} /\ n <= Len(list)
        BY <1>2, <2>4
    <2>6. {j \in Places(r) : j < n} = 1..(n - 1)
        BY <1>2, <2>1, <2>5
    <2>7. Cardinality(1..(n - 1)) = n - 1
        BY <2>5, FS_Interval
    <2>8. QED
        BY <2>3, <2>4, <2>6, <2>7
<1>8. QED
    BY <1>5, <1>6, <1>7 DEF list, pre

\* No slot is found twice.
LEMMA LaidOutNoneTwice ==
    ASSUME Queries, NEW r, InLayout(r)
    PROVE  NoneTwice(r)
BY DEF InLayout, NoneTwice, Places, IsLayout

\* All slots of a defined vtable are found, without gaps.
LEMMA LaidOutDense ==
    ASSUME Queries, NEW r, InLayout(r), prePadMap = NoPads
    PROVE  Dense(r)
<1> DEFINE pre == Cloud(r)
<1>1. IsPreorder(<<r, 0>>, pre) /\ <<r, 0>> \in vtables
    BY DEF InLayout
<1>2. /\ \A s : s \in AllSlots(pre) <=> \E v \in Defined(pre) : \E n \in start(v)..end(v) : s = <<v, n>>
      /\ Defined(pre) \subseteq vtables
    BY <1>1, SlotFacts
<1>3. DOMAIN OldToNew(r) = AllSlots(pre)
    BY OldToNewFacts
<1> HIDE DEF pre
<1>4. ASSUME NEW v \in Defined(pre)
      PROVE  LET slots == {e[2] : e \in {d \in DOMAIN OldToNew(r) : d[1] = v}}
                 size == end(v) - (start(v) - prePadMap[v]) + 1
             IN  slots # {} /\ Max(slots) - Min(slots) + 1 = size /\ Cardinality(slots) = size
    <2> DEFINE slots == {e[2] : e \in {d \in DOMAIN OldToNew(r) : d[1] = v}}
               a == start(v)
               b == end(v)
    <2>1. v \in vtables /\ prePadMap[v] = 0
        BY <1>2, <1>4 DEF NoPads
    <2>2. a \in Int /\ b \in Int /\ a <= b
        BY <2>1, ShapeFacts
    <2> HIDE DEF a, b
    <2>3. slots = a..b
        <3>1. ASSUME NEW d \in AllSlots(pre), d[1] = v PROVE d[2] \in a..b
            BY <1>2, <3>1 DEF a, b
        <3>2. ASSUME NEW n \in a..b PROVE <<v, n>> \in AllSlots(pre)
            BY <1>2, <3>2 DEF a, b
        <3>3. slots \subseteq a..b
            BY <1>3, <3>1
        <3>4. ASSUME NEW n \in a..b PROVE n \in slots
            <4>1. <<v, n>> \in {d \in DOMAIN OldToNew(r) : d[1] = v} /\ <<v, n>>[2] = n
                BY <1>3, <3>2
            <4>2. QED
                BY <4>1
        <3>5. QED
            BY <3>3, <3>4
    <2> HIDE DEF slots
    <2>4. /\ a..b # {} /\ Cardinality(a..b) = b - a + 1
          /\ Max(a..b) = b /\ Min(a..b) = a
        BY <2>2, IntervalFacts
    <2>5. b - (a - 0) + 1 = b - a + 1
        BY <2>2
    <2>6. slots # {} /\ Max(slots) - Min(slots) + 1 = b - (a - prePadMap[v]) + 1 /\ Cardinality(slots) = b - (a - prePadMap[v]) + 1
        BY <2>1, <2>3, <2>4, <2>5
    <2>7. QED
        BY <2>6 DEF slots, a, b
<1>5. QED
    BY <1>4 DEF Dense, pre, Cloud

\* What a vtable has around its address point, its children have as well.
LEMMA LaidOutContained ==
    ASSUME Queries, NEW r, InLayout(r), prePadMap = NoPads
    PROVE  Contained(r)
<1>1. Defined(Cloud(r)) \subseteq vtables
    BY SlotFacts DEF InLayout
<1>2. ASSUME NEW e \in Edges(r)
      PROVE  /\ relAddrPt(e[1]) + prePadMap[e[1]] <= relAddrPt(e[2]) + prePadMap[e[2]]
             /\ end(e[1]) - cha.addrPt[e[1]] <= end(e[2]) - cha.addrPt[e[2]]
    <2>1. e[1] \in vtables /\ e[2] \in vtables /\ e[2] \in cha.children[e[1]]
        BY <1>1, <1>2 DEF Edges, Cloud
    <2>2. prePadMap[e[1]] = 0 /\ prePadMap[e[2]] = 0
        BY <2>1 DEF NoPads
    <2>3. relAddrPt(e[1]) <= relAddrPt(e[2]) /\ end(e[1]) - cha.addrPt[e[1]] <= end(e[2]) - cha.addrPt[e[2]]
        BY <2>1, ShapeFacts
    <2>4. relAddrPt(e[1]) \in Int /\ relAddrPt(e[2]) \in Int
        BY <2>1, ShapeFacts DEF relAddrPt
    <2>5. QED
        BY <2>2, <2>3, <2>4
<1>3. QED
    BY <1>2 DEF Contained

\* Below a vtable what is listed between it and a child has all its rows.
LEMMA BetweenHasRows ==
    ASSUME Queries, NEW root \in vtables, NEW pre, IsPreorder(root, pre),
           NEW v \in Range(pre), NEW w \in cha.children[v], w \in Range(pre),
           IndexMap(pre)[v] <= IndexMap(pre)[w]
    PROVE  \A u \in Range(pre) :
               IndexMap(pre)[v] <= IndexMap(pre)[u] /\ IndexMap(pre)[u] <= IndexMap(pre)[w] => u \in Reach(v)
<1> DEFINE ind == IndexMap(pre)
<1>1. /\ ind \in [Range(pre) -> 0..(Len(pre) - 1)]
      /\ \A i \in DOMAIN pre : pre[i] \in Range(pre) /\ ind[pre[i]] = i - 1
      /\ \A u \in Range(pre) : ind[u] + 1 \in DOMAIN pre /\ pre[ind[u] + 1] = u
    BY IndexMapFacts
<1>2. Len(pre) \in Nat /\ DOMAIN pre = 1..Len(pre) /\ v \in vtables
    BY ReachFacts DEF IsPreorder
<1>3. \A j, k \in DOMAIN pre : j < k /\ pre[k] \in cha.children[pre[j]] =>
          \A i \in j..k : pre[i] \in Reach(pre[j])
    BY DEF IsPreorder
<1> HIDE DEF ind
<1>4. ASSUME NEW u \in Range(pre), ind[v] <= ind[u], ind[u] <= ind[w] PROVE u \in Reach(v)
    <2>1. PICK i, j, k : i = ind[u] + 1 /\ j = ind[v] + 1 /\ k = ind[w] + 1
        OBVIOUS
    <2>2. i \in DOMAIN pre /\ j \in DOMAIN pre /\ k \in DOMAIN pre /\ pre[i] = u /\ pre[j] = v /\ pre[k] = w
        BY <1>1, <2>1
    <2>3. ind[u] \in Int /\ ind[v] \in Int /\ ind[w] \in Int
        BY <1>1, <1>2
    <2>4. j <= i /\ i <= k
        BY <1>4, <2>1, <2>3
    <2>5. CASE j < k
        BY <1>2, <1>3, <2>2, <2>4, <2>5
    <2>6. CASE ~(j < k)
        <3>1. i = j
            BY <1>2, <2>2, <2>4, <2>6
        <3>2. QED
            BY <1>2, <2>2, <3>1, ReachFacts
    <2>7. QED
        BY <2>5, <2>6
<1>5. QED
    BY <1>4 DEF ind

\* What a vtable has at some distance, all vtables below it have.
LEMMA RowsBelow ==
    ASSUME Queries, NEW c \in vtables, NEW u \in Reach(c), NEW k \in Int, cha.addrPt[c] + k \in start(c)..end(c)
    PROVE  /\ cha.addrPt[u] + k \in start(u)..end(u) /\ cha.addrPt[u] \in start(u)..end(u)
           /\ cha.addrPt[u] + 0 = cha.addrPt[u]
<1>1. u \in vtables
    BY ReachFacts
<1>2. relAddrPt(c) <= relAddrPt(u) /\ end(c) - cha.addrPt[c] <= end(u) - cha.addrPt[u]
    BY ShapeFacts
<1>3. \A x \in {c, u} : /\ start(x) \in Nat /\ cha.addrPt[x] \in Nat /\ end(x) \in Nat
                        /\ start(x) <= cha.addrPt[x] /\ cha.addrPt[x] <= end(x)
    BY <1>1, ShapeFacts
<1>4. cha.addrPt[c] - start(c) <= cha.addrPt[u] - start(u)
    BY <1>2 DEF relAddrPt
<1>5. ASSUME NEW a \in Int, NEW b \in Int, NEW d \in Int, NEW a2 \in Int, NEW b2 \in Int, NEW d2 \in Int,
             b - a <= b2 - a2, d - b <= d2 - b2, a <= b + k, b + k <= d
      PROVE  a2 <= b2 + k /\ b2 + k <= d2
    BY <1>5
<1>6. start(c) <= cha.addrPt[c] + k /\ cha.addrPt[c] + k <= end(c)
    BY <1>3
<1>7. start(u) <= cha.addrPt[u] + k /\ cha.addrPt[u] + k <= end(u)
    BY <1>2, <1>3, <1>4, <1>5, <1>6
<1>8. QED
    BY <1>3, <1>7

\* What all vtables between two have, the two included, they have equally far
\* from their address points.
LEMMA RowsMove ==
    ASSUME Queries, NEW root \in vtables, NEW pre, IsPreorder(root, pre),
           NEW list, list = Interleaved(pre, NoPads),
           NEW k \in Int,
           NEW v \in Defined(pre), NEW w \in Defined(pre), IndexMap(pre)[v] <= IndexMap(pre)[w],
           \A u \in Defined(pre) :
               IndexMap(pre)[v] <= IndexMap(pre)[u] /\ IndexMap(pre)[u] <= IndexMap(pre)[w] =>
                   cha.addrPt[u] + k \in start(u)..end(u)
    PROVE  PlaceOf(list, <<v, cha.addrPt[v] + k>>) - PlaceOf(list, <<v, cha.addrPt[v]>>) =
           PlaceOf(list, <<w, cha.addrPt[w] + k>>) - PlaceOf(list, <<w, cha.addrPt[w]>>)
<1> DEFINE ind == IndexMap(pre)
           B == Cardinality(Between(pre, v, w))
<1>1. IsLayout(pre, list)
    BY InterleavedLists
<1>2. /\ \A s : s \in AllSlots(pre) <=> \E u \in Defined(pre) : \E n \in start(u)..end(u) : s = <<u, n>>
      /\ Defined(pre) \subseteq vtables /\ Defined(pre) \subseteq Range(pre)
    BY SlotFacts
<1>3. \A s \in AllSlots(pre) : PlaceOf(list, s) \in DOMAIN list /\ list[PlaceOf(list, s)] = s /\ PlaceOf(list, s) \in Int
    BY <1>1, PlaceFacts
<1>4. ASSUME NEW u \in Defined(pre), ind[v] <= ind[u], ind[u] <= ind[w]
      PROVE  /\ cha.addrPt[u] + k \in start(u)..end(u) /\ cha.addrPt[u] + 0 \in start(u)..end(u)
             /\ cha.addrPt[u] + 0 = cha.addrPt[u]
    <2>1. /\ start(u) \in Nat /\ cha.addrPt[u] \in Nat /\ end(u) \in Nat
          /\ start(u) <= cha.addrPt[u] /\ cha.addrPt[u] <= end(u)
        BY <1>2, ShapeFacts
    <2>2. cha.addrPt[u] + k \in start(u)..end(u)
        BY <1>4
    <2>3. QED
        BY <2>1, <2>2
<1>5. ind[v] <= ind[v] /\ ind[w] <= ind[w]
    <2>1. Len(pre) \in Nat
        BY DEF IsPreorder
    <2>2. \A u \in Range(pre) : ind[u] \in Int
        BY <2>1, IndexMapFacts
    <2>3. QED
        BY <1>2, <2>2
<1>6. \A n \in {k, 0} : \A u \in {v, w} : <<u, cha.addrPt[u] + n>> \in AllSlots(pre)
    BY <1>2, <1>4, <1>5
<1>7. ASSUME NEW n \in {k, 0}
      PROVE  B \in Nat /\ PlaceOf(list, <<w, cha.addrPt[w] + n>>) = PlaceOf(list, <<v, cha.addrPt[v] + n>>) + B
    <2>1. PICK i, j : i = PlaceOf(list, <<v, cha.addrPt[v] + n>>) /\ j = PlaceOf(list, <<w, cha.addrPt[w] + n>>)
        OBVIOUS
    <2>2. /\ i \in DOMAIN Interleaved(pre, NoPads) /\ Interleaved(pre, NoPads)[i] = <<v, cha.addrPt[v] + n>>
          /\ j \in DOMAIN Interleaved(pre, NoPads) /\ Interleaved(pre, NoPads)[j] = <<w, cha.addrPt[w] + n>>
        BY <1>3, <1>6, <2>1
    <2>3. n \in Int
        OBVIOUS
    <2>4. \A u \in Defined(pre) : ind[v] <= ind[u] /\ ind[u] <= ind[w] => cha.addrPt[u] + n \in start(u)..end(u)
        BY <1>4
    <2> HIDE DEF B
    <2>5. B \in Nat /\ j = i + B
        BY <2>2, <2>3, <2>4, RowDistance DEF B
    <2>6. QED
        BY <2>1, <2>5
<1> HIDE DEF B
<1>8. \A n \in {k, 0} : \A u \in {v, w} : PlaceOf(list, <<u, cha.addrPt[u] + n>>) \in Int
    BY <1>3, <1>6
<1>9. cha.addrPt[v] + 0 = cha.addrPt[v] /\ cha.addrPt[w] + 0 = cha.addrPt[w]
    BY <1>4, <1>5
<1>10. PICK p, q, x, y : /\ p = PlaceOf(list, <<v, cha.addrPt[v] + k>>) /\ q = PlaceOf(list, <<v, cha.addrPt[v]>>)
                         /\ x = PlaceOf(list, <<w, cha.addrPt[w] + k>>) /\ y = PlaceOf(list, <<w, cha.addrPt[w]>>)
    OBVIOUS
<1>11. p \in Int /\ q \in Int /\ x \in Int /\ y \in Int /\ B \in Nat /\ x = p + B /\ y = q + B
    BY <1>7, <1>8, <1>9, <1>10
<1>12. p - q = x - y
    BY <1>11
<1>13. QED
    BY <1>10, <1>12

\* What a vtable has, all those below it have.
LEMMA RowsApart ==
    ASSUME Queries, NEW root \in vtables, NEW pre, IsPreorder(root, pre),
           NEW list, list = Interleaved(pre, NoPads),
           NEW c \in vtables, NEW k \in Int, cha.addrPt[c] + k \in start(c)..end(c),
           NEW v \in Defined(pre), NEW w \in Defined(pre), IndexMap(pre)[v] <= IndexMap(pre)[w],
           \A u \in Range(pre) :
               IndexMap(pre)[v] <= IndexMap(pre)[u] /\ IndexMap(pre)[u] <= IndexMap(pre)[w] => u \in Reach(c)
    PROVE  PlaceOf(list, <<v, cha.addrPt[v] + k>>) - PlaceOf(list, <<v, cha.addrPt[v]>>) =
           PlaceOf(list, <<w, cha.addrPt[w] + k>>) - PlaceOf(list, <<w, cha.addrPt[w]>>)
<1>1. Defined(pre) \subseteq Range(pre)
    BY SlotFacts
<1>2. ASSUME NEW u \in Defined(pre), IndexMap(pre)[v] <= IndexMap(pre)[u], IndexMap(pre)[u] <= IndexMap(pre)[w]
      PROVE  cha.addrPt[u] + k \in start(u)..end(u)
    <2>1. u \in Reach(c)
        BY <1>1, <1>2
    <2>2. QED
        BY <2>1, RowsBelow
<1>3. QED
    BY <1>2, RowsMove

\* A slot that a child shares is at the same distance from its address point.
LEMMA LaidOutSameRelative ==
    ASSUME Queries, NEW r, InLayout(r), prePadMap = NoPads, interleavingMap[r] = Interleaved(Cloud(r), NoPads)
    PROVE  SameRelative(r)
<1> DEFINE pre == Cloud(r)
           list == interleavingMap[r]
           new == OldToNew(r)
           ind == IndexMap(pre)
<1>1. IsPreorder(<<r, 0>>, pre) /\ <<r, 0>> \in vtables /\ IsLayout(pre, list)
    BY DEF InLayout
<1>2. /\ \A s : s \in AllSlots(pre) <=> \E v \in Defined(pre) : \E n \in start(v)..end(v) : s = <<v, n>>
      /\ Defined(pre) \subseteq vtables /\ Defined(pre) \subseteq Range(pre)
    BY <1>1, SlotFacts
<1>3. \A i \in DOMAIN list : list[i] # Dummy
    BY <1>1, InterleavedLists
<1>4. \A s \in AllSlots(pre) : new[s] = PlaceOf(list, s) - 1 /\ PlaceOf(list, s) \in Int
    BY <1>1, <1>3, OldToNewFacts, PlaceFacts
<1>5. \A e \in Edges(r) : e[1] \in Defined(pre) /\ e[2] \in Defined(pre) /\ e[2] \in cha.children[e[1]] /\ ind[e[1]] <= ind[e[2]]
    BY DEF Edges, Cloud
<1>6. list = Interleaved(pre, NoPads)
    OBVIOUS
<1> HIDE DEF pre, list, new, ind
<1>7. ASSUME NEW e \in Edges(r), NEW k \in (start(e[1]) - prePadMap[e[1]] - cha.addrPt[e[1]])..(end(e[1]) - cha.addrPt[e[1]])
      PROVE  new[<<e[1], cha.addrPt[e[1]] + k>>] - new[<<e[1], cha.addrPt[e[1]]>>] =
             new[<<e[2], cha.addrPt[e[2]] + k>>] - new[<<e[2], cha.addrPt[e[2]]>>]
    <2>1. PICK v, w : v = e[1] /\ w = e[2]
        OBVIOUS
    <2>2. v \in Defined(pre) /\ w \in Defined(pre) /\ w \in cha.children[v] /\ ind[v] <= ind[w] /\ v \in vtables /\ w \in vtables
        BY <1>2, <1>5, <2>1
    <2>3. prePadMap[v] = 0 /\ start(v) \in Nat /\ end(v) \in Nat /\ cha.addrPt[v] \in Nat
        BY <2>2, ShapeFacts DEF NoPads
    <2>4. k \in Int /\ cha.addrPt[v] + k \in start(v)..end(v)
        BY <2>1, <2>3
    <2>5. \A u \in Range(pre) : ind[v] <= ind[u] /\ ind[u] <= ind[w] => u \in Reach(v)
        BY <1>1, <1>2, <2>2, BetweenHasRows DEF ind
    <2>6. PlaceOf(list, <<v, cha.addrPt[v] + k>>) - PlaceOf(list, <<v, cha.addrPt[v]>>) =
          PlaceOf(list, <<w, cha.addrPt[w] + k>>) - PlaceOf(list, <<w, cha.addrPt[w]>>)
        BY <1>1, <1>6, <2>2, <2>4, <2>5, RowsApart DEF ind
    <2>7. \A u \in {v, w} : <<u, cha.addrPt[u] + k>> \in AllSlots(pre) /\ <<u, cha.addrPt[u]>> \in AllSlots(pre)
        <3>1. v \in Reach(v) /\ w \in Reach(v)
            BY <2>2, ReachFacts
        <3>2. \A u \in {v, w} : cha.addrPt[u] + k \in start(u)..end(u) /\ cha.addrPt[u] \in start(u)..end(u)
            BY <2>2, <2>4, <3>1, RowsBelow
        <3>3. QED
            BY <1>2, <2>2, <3>2
    <2>8. PICK p, q, x, y : /\ p = PlaceOf(list, <<v, cha.addrPt[v] + k>>) /\ q = PlaceOf(list, <<v, cha.addrPt[v]>>)
                            /\ x = PlaceOf(list, <<w, cha.addrPt[w] + k>>) /\ y = PlaceOf(list, <<w, cha.addrPt[w]>>)
        OBVIOUS
    <2>9. p \in Int /\ q \in Int /\ x \in Int /\ y \in Int /\ p - q = x - y
        BY <1>4, <2>6, <2>7, <2>8
    <2>10. /\ new[<<v, cha.addrPt[v] + k>>] = p - 1 /\ new[<<v, cha.addrPt[v]>>] = q - 1
           /\ new[<<w, cha.addrPt[w] + k>>] = x - 1 /\ new[<<w, cha.addrPt[w]>>] = y - 1
        BY <1>4, <2>7, <2>8
    <2>11. (p - 1) - (q - 1) = (x - 1) - (y - 1)
        BY <2>9
    <2>12. QED
        BY <2>1, <2>10, <2>11
<1>8. QED
    BY <1>7 DEF SameRelative, new

LayoutsInv == RangesInv /\ LayoutsDone /\ LayoutVerified

\* What the first loop has left of every cloud when it is done.
LEMMA LaidOutRoots ==
    ASSUME RangesInv, LayoutsDone, laidOut = cha.roots, NEW r \in cha.roots
    PROVE  /\ Queries /\ prePadMap = NoPads /\ InLayout(r) /\ alignmentMap[r] \in Nat \ {0}
           /\ interleave => interleavingMap[r] = Interleaved(Cloud(r), NoPads) /\ alignmentMap[r] = 1
           /\ ~interleave => Contiguous(interleavingMap[r])
<1>1. Queries
    BY ReadIsWellFormed DEF RangesInv
<1>2. <<r, 0>> \in vtables /\ IsPreorder(<<r, 0>>, Cloud(r))
    BY <1>1, CloudFacts
<1>3. IsLaidOut(r) /\ prePadMap = NoPads
    BY DEF LayoutsDone
<1>4. QED
    BY <1>1, <1>2, <1>3 DEF IsLaidOut, InLayout

\* verifyNewLayouts finds nothing wrong.
LEMMA VerifyPasses ==
    ASSUME RangesInv, LayoutsDone, verifyNewLayouts
    PROVE  LayoutVerified'
<1>1. laidOut = cha.roots
    BY DEF verifyNewLayouts, Built
<1>2. ASSUME NEW r \in cha.roots
      PROVE  NoneTwice(r) /\ Dense(r) /\ (interleave => Contained(r) /\ SameRelative(r))
    BY <1>1, <1>2, LaidOutRoots, LaidOutNoneTwice, LaidOutDense, LaidOutContained, LaidOutSameRelative
<1>3. verified' = "correct"
    BY <1>2 DEF verifyNewLayouts
<1>4. QED
    BY <1>3 DEF LayoutVerified

\* The invariant of the layouts holds at first.
LEMMA LayoutsInvInit == ChecksInit => LayoutsInv
<1> SUFFICES ASSUME ChecksInit PROVE LayoutsInv
    OBVIOUS
<1>1. LayoutVerified
    BY DEF ChecksInit, InitFrom, LayoutVerified
<1>2. QED
    BY <1>1, RangesInit, LayoutsInit DEF LayoutsInv

\* Every step keeps the invariant of the layouts.
LEMMA LayoutsStep == LayoutsInv /\ [ChecksNext]_ChecksVars => LayoutsInv'
<1> SUFFICES ASSUME LayoutsInv, [ChecksNext]_ChecksVars PROVE LayoutsInv'
    OBVIOUS
<1>1. RangesInv /\ LayoutsDone /\ LayoutVerified /\ RangesInv'
    BY RangesStep DEF LayoutsInv
<1>2. \/ \E root \in cha.roots : Layout(root) /\ verified' = verified
      \/ /\ cha' = cha /\ interleave' = interleave /\ UNCHANGED <<laidOut, layoutVars>>
         /\ verified' = verified \/ verifyNewLayouts
    BY DEF ChecksNext, ChecksVars, LayoutNext, Layout, Emit, calculateVPtrRanges, verifyNewLayouts,
           handleSDGetVtblIndex, handleSDGetCheckedVtbl, Link, ChecksDone, inputVars, vars, checkVars, emitVars, rangeVars
<1>3. CASE \E root \in cha.roots : Layout(root) /\ verified' = verified
    <2>1. LayoutsDone'
        BY <1>1, <1>3, LayoutsAdded
    <2>2. LayoutVerified'
        BY <1>1, <1>3 DEF LayoutVerified
    <2>3. QED
        BY <1>1, <2>1, <2>2 DEF LayoutsInv
<1>4. CASE /\ cha' = cha /\ interleave' = interleave /\ UNCHANGED <<laidOut, layoutVars>>
           /\ verified' = verified \/ verifyNewLayouts
    <2>1. LayoutsDone'
        BY <1>1, <1>4, LayoutsKept
    <2>2. LayoutVerified'
        BY <1>1, <1>4, VerifyPasses DEF LayoutVerified
    <2>3. QED
        BY <1>1, <2>1, <2>2 DEF LayoutsInv
<1>5. QED
    BY <1>2, <1>3, <1>4

\* "assert(verifyNewLayouts(M))", for all programs.
THEOREM LayoutVerifiedHolds == ChecksSpec => []LayoutVerified
<1>1. LayoutsInv /\ [ChecksNext]_<<vars, checkVars>> => LayoutsInv'
    BY LayoutsStep DEF ChecksVars
<1>2. LayoutsInv => LayoutVerified
    BY DEF LayoutsInv
<1>3. QED
    BY <1>1, <1>2, LayoutsInvInit, PTL DEF ChecksSpec

-----------------------------------------------------------------------------
(* The emitted arrays, as the second loop leaves them.                     *)

EmitsDone ==
    /\ DOMAIN vptrs = {v \in vtables : isDefined(v) /\ cha.ancestor[v] \in emitted}
    /\ \A v \in DOMAIN vptrs : vptrs[v] = newVtblAddressConst(v)
    /\ DOMAIN newVTables = emitted
    /\ \A r \in emitted :
          newVTables[r] = [i \in DOMAIN interleavingMap[r] |-> Content(interleavingMap[r][i])]

\* The indices that a range holds of defined vtables, and what the checks know
\* of the range.
DefinedIn(pre, range) == {i \in range[1]..(range[2] - 1) : isDefined(pre[i + 1])}
MemRange(pre, range) ==
    <<newVtblAddressConst(pre[Min(DefinedIn(pre, range)) + 1]), Cardinality(DefinedIn(pre, range))>>
MemOf(v) == MemRanges(Cloud(cha.ancestor[v]), rangeMap[v])

MemDone ==
    /\ DOMAIN memRangeMap = {v \in DOMAIN rangeMap : MemOf(v) # <<>>}
    /\ \A v \in DOMAIN memRangeMap : memRangeMap[v] = MemOf(v)

\* The ranges in memory are those of the ranges that hold a defined vtable.
LEMMA MemRangesList ==
    ASSUME NEW pre, NEW ranges \in Seq(Ranges)
    PROVE  /\ Listed(MemRanges(pre, ranges))
           /\ \A j \in DOMAIN MemRanges(pre, ranges) : \E k \in DOMAIN ranges :
                 DefinedIn(pre, ranges[k]) # {} /\ MemRanges(pre, ranges)[j] = MemRange(pre, ranges[k])
           /\ \A k \in DOMAIN ranges : DefinedIn(pre, ranges[k]) # {} =>
                 \E j \in DOMAIN MemRanges(pre, ranges) : MemRanges(pre, ranges)[j] = MemRange(pre, ranges[k])
<1> DEFINE S == {k \in DOMAIN ranges : DefinedIn(pre, ranges[k]) # {}}
           kept == Increasing(S)
           mem == MemRanges(pre, ranges)
<1>1. mem = [j \in DOMAIN kept |-> MemRange(pre, ranges[kept[j]])]
    BY DEF MemRanges, MemRange, DefinedIn
<1>2. S \subseteq Int /\ IsFiniteSet(S)
    <2>1. S \subseteq 1..Len(ranges) /\ Len(ranges) \in Nat
        OBVIOUS
    <2>2. IsFiniteSet(1..Len(ranges)) /\ 1..Len(ranges) \subseteq Int
        BY <2>1, FS_Interval
    <2> HIDE DEF S
    <2>3. QED
        BY <2>1, <2>2, FS_Subset
<1>3. \A k : k \in S <=> k \in DOMAIN ranges /\ DefinedIn(pre, ranges[k]) # {}
    OBVIOUS
<1> HIDE DEF S
<1> DEFINE m == Cardinality(S)
<1>4. m \in Nat /\ kept \in [1..m -> S] /\ \A x \in S : \E i \in 1..m : kept[i] = x
    <2>1. Orders({p \in S \X S : p[1] < p[2]}, S)
        BY <1>2, NumbersOrdered
    <2>2. PICK before : before = {p \in S \X S : p[1] < p[2]}
        OBVIOUS
    <2>3. kept = Sorted(S, before) /\ Orders(before, S)
        BY <2>1, <2>2 DEF Increasing
    <2>4. QED
        BY <1>2, <2>3, SortedLists
<1> HIDE DEF kept, mem, m
<1>5. mem = [j \in 1..m |-> MemRange(pre, ranges[kept[j]])] /\ DOMAIN mem = 1..m
    BY <1>1, <1>4
<1>6. mem \in Seq({mem[k] : k \in DOMAIN mem})
    <2> DEFINE T == {mem[k] : k \in DOMAIN mem}
    <2>1. \A j \in 1..m : mem[j] \in T
        BY <1>5
    <2> HIDE DEF T
    <2>2. mem \in [1..m -> T]
        BY <1>5, <2>1
    <2>3. mem \in Seq(T)
        BY <1>4, <2>2
    <2>4. QED
        BY <2>3 DEF T
<1>7. \A j \in DOMAIN mem : \E k \in DOMAIN ranges : DefinedIn(pre, ranges[k]) # {} /\ mem[j] = MemRange(pre, ranges[k])
    BY <1>3, <1>4, <1>5
<1>8. \A k \in DOMAIN ranges : DefinedIn(pre, ranges[k]) # {} => \E j \in DOMAIN mem : mem[j] = MemRange(pre, ranges[k])
    BY <1>3, <1>4, <1>5
<1>9. QED
    BY <1>6, <1>7, <1>8, Zenon DEF Listed, mem

\* Nothing is emitted and no range is in memory at first.
LEMMA EmitsInit == ChecksInit => EmitsDone /\ MemDone
<1> SUFFICES ASSUME ChecksInit PROVE EmitsDone /\ MemDone
    OBVIOUS
<1>1. vptrs = NoMap /\ newVTables = NoMap /\ emitted = {} /\ rangeMap = NoMap /\ memRangeMap = NoMap
    BY DEF ChecksInit, InitFrom
<1>2. EmitsDone
    BY <1>1 DEF EmitsDone, NoMap
<1>3. MemDone
    BY <1>1 DEF MemDone, NoMap
<1>4. QED
    BY <1>2, <1>3

\* The second loop emits a cloud as EmitsDone says.
LEMMA EmitsAdded ==
    ASSUME RangesInv, EmitsDone, NEW root \in cha.roots, Emit(root)
    PROVE  EmitsDone'
<1> DEFINE pre == Cloud(root)
           list == interleavingMap[root]
<1>1. Queries
    BY ReadIsWellFormed DEF RangesInv
<1>2. /\ root \notin emitted /\ emitted' = emitted \cup {root}
      /\ cha' = cha /\ newLayoutInds' = newLayoutInds /\ interleavingMap' = interleavingMap
      /\ newVTables' = Extend([r \in {root} |-> [i \in DOMAIN list |-> Content(list[i])]], newVTables)
      /\ vptrs' = Extend(vptrs, [v \in Defined(pre) |-> <<root, newLayoutInds[v][cha.addrPt[v] - start(v) + 1]>>])
    BY DEF Emit, IsNext, inputVars, layoutVars, Cloud
<1>3. Range(pre) = {v \in vtables : cha.ancestor[v] = root}
    BY <1>1, CloudFacts
<1>4. Defined(pre) = {v \in vtables : isDefined(v) /\ cha.ancestor[v] = root}
    BY <1>3 DEF Defined
<1> HIDE DEF pre, list
<1>5. /\ vtables' = vtables /\ \A v : isDefined(v)' = isDefined(v) /\ newVtblAddressConst(v)' = newVtblAddressConst(v)
      /\ \A s : Content(s)' = Content(s)
    BY <1>2 DEF vtables, isDefined, newVtblAddressConst, relAddrPt, start, Content
<1>6. /\ DOMAIN vptrs = {v \in vtables : isDefined(v) /\ cha.ancestor[v] \in emitted}
      /\ \A v \in DOMAIN vptrs : vptrs[v] = newVtblAddressConst(v)
      /\ DOMAIN newVTables = emitted
      /\ \A r \in emitted : newVTables[r] = [i \in DOMAIN interleavingMap[r] |-> Content(interleavingMap[r][i])]
    BY DEF EmitsDone
<1>7. \A v \in Defined(pre) : <<root, newLayoutInds[v][cha.addrPt[v] - start(v) + 1]>> = newVtblAddressConst(v)
    BY <1>4 DEF newVtblAddressConst, relAddrPt
<1>8. DOMAIN vptrs' = DOMAIN vptrs \cup Defined(pre)
    BY <1>2 DEF Extend
<1>9. \A v \in DOMAIN vptrs' : vptrs'[v] = newVtblAddressConst(v)
    BY <1>2, <1>6, <1>7, <1>8 DEF Extend
<1>10. DOMAIN vptrs' = {v \in vtables : isDefined(v) /\ cha.ancestor[v] \in emitted'}
    BY <1>2, <1>4, <1>6, <1>8
<1>11. DOMAIN newVTables' = emitted' /\ \A r \in emitted : newVTables'[r] = newVTables[r]
    BY <1>2, <1>6 DEF Extend
<1>12. newVTables'[root] = [i \in DOMAIN list |-> Content(list[i])]
    BY <1>2 DEF Extend
<1>13. \A r \in emitted' : newVTables'[r] = [i \in DOMAIN interleavingMap[r] |-> Content(interleavingMap[r][i])]
    BY <1>2, <1>6, <1>11, <1>12 DEF list
<1>14. QED
    BY <1>2, <1>5, <1>9, <1>10, <1>11, <1>13 DEF EmitsDone

\* Steps that leave the arrays alone, and the layouts if there are arrays, keep
\* EmitsDone.
LEMMA EmitsKept ==
    ASSUME EmitsDone, cha' = cha, UNCHANGED <<vptrs, newVTables, emitted>>,
           emitted # {} => UNCHANGED layoutVars
    PROVE  EmitsDone'
<1>1. CASE emitted = {}
    BY <1>1 DEF EmitsDone, vtables
<1>2. CASE emitted # {}
    <2>1. newLayoutInds' = newLayoutInds /\ interleavingMap' = interleavingMap
        BY <1>2 DEF layoutVars
    <2>2. /\ vtables' = vtables /\ \A v : isDefined(v)' = isDefined(v) /\ newVtblAddressConst(v)' = newVtblAddressConst(v)
          /\ \A s : Content(s)' = Content(s)
        BY <2>1 DEF vtables, isDefined, newVtblAddressConst, relAddrPt, start, Content
    <2>3. QED
        BY <2>1, <2>2 DEF EmitsDone
<1>3. QED
    BY <1>1, <1>2

\* The third loop computes the ranges of a cloud as MemDone says.
LEMMA MemAdded ==
    ASSUME RangesInv, RangesDone', MemDone, NEW root \in cha.roots, calculateVPtrRanges(root)
    PROVE  MemDone'
<1> DEFINE pre == Cloud(root)
           all == VPtrRanges(pre)
           mem == [v \in Range(pre) |-> MemRanges(pre, all[v])]
<1>1. Queries
    BY ReadIsWellFormed DEF RangesInv
<1>2. /\ root \notin ranged /\ ranged' = ranged \cup {root}
      /\ rangeMap' = Extend(rangeMap, all) /\ cha' = cha /\ newLayoutInds' = newLayoutInds
      /\ memRangeMap' = [v \in DOMAIN memRangeMap \cup {w \in Range(pre) : mem[w] # <<>>} |->
                  (IF v \in DOMAIN memRangeMap THEN memRangeMap[v] ELSE <<>>)
                  \o (IF v \in Range(pre) THEN mem[v] ELSE <<>>)]
    BY DEF calculateVPtrRanges, IsNext, inputVars, layoutVars, Cloud
<1>3. Range(pre) = {v \in vtables : cha.ancestor[v] = root} /\ IsPreorder(<<root, 0>>, pre) /\ <<root, 0>> \in vtables
    BY <1>1, CloudFacts
<1>4. DOMAIN rangeMap = {v \in vtables : cha.ancestor[v] \in ranged}
    BY DEF RangesInv, RangesDone
<1>5. \A v \in Range(pre) : v \notin DOMAIN rangeMap
    BY <1>2, <1>3, <1>4
<1> HIDE DEF pre
<1>6. DOMAIN all = Range(pre)
    BY <1>1, <1>3, <1>5, VPtrRangesHold
<1> HIDE DEF all
<1>7. /\ DOMAIN rangeMap' = DOMAIN rangeMap \cup Range(pre)
      /\ \A v \in DOMAIN rangeMap : rangeMap'[v] = rangeMap[v]
      /\ \A v \in Range(pre) : rangeMap'[v] = all[v]
    BY <1>2, <1>5, <1>6 DEF Extend
<1>8. \A v \in DOMAIN rangeMap' : rangeMap'[v] \in Seq(Ranges)
    BY DEF RangesDone, HasRanges, Separate
<1>9. DOMAIN memRangeMap \subseteq DOMAIN rangeMap /\ DOMAIN memRangeMap = {v \in DOMAIN rangeMap : MemOf(v) # <<>>}
      /\ \A v \in DOMAIN memRangeMap : memRangeMap[v] = MemOf(v)
    BY DEF MemDone
<1>10. \A v \in Range(pre) : mem[v] = MemRanges(pre, rangeMap'[v]) /\ Listed(mem[v])
    BY <1>7, <1>8, MemRangesList
<1>11. \A v \in DOMAIN rangeMap : Listed(MemOf(v))
    BY <1>7, <1>8, MemRangesList DEF MemOf
<1>12. \A s : Listed(s) => s \o <<>> = s /\ <<>> \o s = s
    BY DEF Listed
<1> HIDE DEF mem
<1>13. DOMAIN memRangeMap' = {v \in DOMAIN rangeMap : MemOf(v) # <<>>} \cup {w \in Range(pre) : mem[w] # <<>>}
    BY <1>2, <1>9
<1>14. /\ \A v \in DOMAIN memRangeMap : memRangeMap'[v] = MemOf(v)
       /\ \A v \in Range(pre) : mem[v] # <<>> => memRangeMap'[v] = mem[v]
    <2>1. ASSUME NEW v \in DOMAIN memRangeMap PROVE memRangeMap'[v] = MemOf(v)
        <3>1. v \notin Range(pre) /\ memRangeMap[v] = MemOf(v) /\ Listed(MemOf(v))
            BY <1>5, <1>9, <1>11
        <3>2. memRangeMap'[v] = MemOf(v) \o <<>>
            BY <1>2, <2>1, <3>1
        <3>3. QED
            BY <1>12, <3>1, <3>2
    <2>2. ASSUME NEW v \in Range(pre), mem[v] # <<>> PROVE memRangeMap'[v] = mem[v]
        <3>1. v \notin DOMAIN memRangeMap /\ Listed(mem[v])
            BY <1>5, <1>9, <1>10
        <3>2. memRangeMap'[v] = <<>> \o mem[v]
            BY <1>2, <2>2, <3>1
        <3>3. QED
            BY <1>12, <3>1, <3>2
    <2>3. QED
        BY <2>1, <2>2
<1>15. \A p, s : MemRanges(p, s)' = MemRanges(p, s)
    BY <1>2 DEF MemRanges, newVtblAddressConst, relAddrPt, start, isDefined
<1>16. \A r : Cloud(r)' = Cloud(r)
    BY <1>2, SameAnswers
<1>17. ASSUME NEW v \in DOMAIN rangeMap' PROVE MemOf(v)' = IF v \in DOMAIN rangeMap THEN MemOf(v) ELSE mem[v]
    <2>1. PICK p, s : p = Cloud(cha.ancestor[v]) /\ p = Cloud(cha.ancestor[v])' /\ s = rangeMap'[v]
        BY <1>2, <1>16
    <2>2. MemOf(v)' = MemRanges(p, s)
        BY <1>15, <2>1 DEF MemOf
    <2>3. CASE v \in DOMAIN rangeMap
        BY <1>7, <2>1, <2>2, <2>3 DEF MemOf
    <2>4. CASE v \notin DOMAIN rangeMap
        <3>1. v \in Range(pre) /\ cha.ancestor[v] = root
            BY <1>3, <1>7, <2>4
        <3>2. QED
            BY <1>10, <2>1, <2>2, <2>4, <3>1 DEF pre
    <2>5. QED
        BY <2>3, <2>4
<1>18. DOMAIN memRangeMap' = {v \in DOMAIN rangeMap' : MemOf(v)' # <<>>}
    BY <1>5, <1>7, <1>13, <1>17
<1>19. \A v \in DOMAIN memRangeMap' : memRangeMap'[v] = MemOf(v)'
    BY <1>5, <1>7, <1>9, <1>13, <1>14, <1>17
<1>20. QED
    BY <1>18, <1>19 DEF MemDone

\* Steps that leave the ranges alone, and the layouts if there are ranges, keep
\* MemDone.
LEMMA MemKept ==
    ASSUME MemDone, RangesInv, cha' = cha, UNCHANGED <<rangeMap, memRangeMap>>,
           ranged # {} => UNCHANGED layoutVars
    PROVE  MemDone'
<1>1. CASE ranged = {}
    <2>1. DOMAIN rangeMap = {}
        BY <1>1 DEF RangesInv, RangesDone
    <2>2. QED
        BY <2>1 DEF MemDone
<1>2. CASE ranged # {}
    <2>1. newLayoutInds' = newLayoutInds
        BY <1>2 DEF layoutVars
    <2>2. \A p, s : MemRanges(p, s)' = MemRanges(p, s)
        BY <2>1 DEF MemRanges, newVtblAddressConst, relAddrPt, start, isDefined
    <2>3. \A v : MemOf(v)' = MemOf(v)
        <3> TAKE v
        <3>1. PICK p, s : p = Cloud(cha.ancestor[v]) /\ p = Cloud(cha.ancestor[v])' /\ s = rangeMap[v] /\ s = rangeMap'[v]
            BY SameAnswers
        <3>2. QED
            BY <2>2, <3>1 DEF MemOf
    <2>4. QED
        BY <2>3 DEF MemDone
<1>3. QED
    BY <1>1, <1>2

-----------------------------------------------------------------------------
(* Arrays that are put one behind the other.                               *)

UpTo(a, n) == n * ((a + n - 1) \div n)

\* Division with remainder.
LEMMA DivMod ==
    ASSUME NEW x \in Int, NEW n \in Nat \ {0}
    PROVE  x \div n \in Int /\ x % n \in 0..(n - 1) /\ x = n * (x \div n) + (x % n)
OBVIOUS

\* Rounding up to a multiple does not fall.
LEMMA UpToRises ==
    ASSUME NEW a \in Nat, NEW n \in Nat \ {0}
    PROVE  UpTo(a, n) \in Nat /\ a <= UpTo(a, n)
<1>1. PICK q, m : q = (a + n - 1) \div n /\ m = (a + n - 1) % n
    OBVIOUS
<1>2. q \in Int /\ m \in 0..(n - 1) /\ a + n - 1 = n * q + m
    BY <1>1, DivMod
<1>3. PICK p \in Int : p = n * q
    BY <1>2
<1>4. a <= p /\ p \in Nat
    BY <1>2, <1>3
<1>5. QED
    BY <1>1, <1>3, <1>4 DEF UpTo

Arrays(n, len, align) == n \in Nat /\ len \in [1..n -> Nat] /\ align \in [1..n -> Nat \ {0}]
NextStart(len, align, i, x) == UpTo(IF i = 1 THEN 1 ELSE x + len[i - 1], align[i])
Placing(n, len, align, at) == at = [i \in 1..n |-> NextStart(len, align, i, at[i - 1])]

\* An array's start is not before the end of the one before it.
LEMMA StartRises ==
    ASSUME NEW n, NEW len, NEW align, Arrays(n, len, align), NEW i \in 1..n, NEW x \in Nat
    PROVE  /\ NextStart(len, align, i, x) \in Nat
           /\ i = 1 => 1 <= NextStart(len, align, i, x)
           /\ i # 1 => len[i - 1] \in Nat /\ x + len[i - 1] <= NextStart(len, align, i, x)
<1>1. align[i] \in Nat \ {0}
    BY DEF Arrays
<1>2. CASE i = 1
    <2>1. UpTo(1, align[i]) \in Nat /\ 1 <= UpTo(1, align[i])
        BY <1>1, UpToRises
    <2>2. QED
        BY <1>2, <2>1 DEF NextStart
<1>3. CASE i # 1
    <2>1. i - 1 \in 1..n
        BY <1>3 DEF Arrays
    <2>2. len[i - 1] \in Nat /\ x + len[i - 1] \in Nat
        BY <2>1 DEF Arrays
    <2>3. PICK y \in Nat : y = x + len[i - 1]
        BY <2>2
    <2>4. UpTo(y, align[i]) \in Nat /\ y <= UpTo(y, align[i])
        BY <1>1, UpToRises
    <2>5. QED
        BY <1>3, <2>2, <2>3, <2>4 DEF NextStart
<1>4. QED
    BY <1>2, <1>3

\* Arrays can be put one behind the other.
LEMMA PlacingExists ==
    ASSUME NEW n, NEW len, NEW align, Arrays(n, len, align)
    PROVE  \E at : Placing(n, len, align, at)
<1> DEFINE H == [i \in 1..n |-> [x \in Nat |-> NextStart(len, align, i, x)]]
<1>1. Steps(n, Nat, 0, H)
    <2>1. \A i \in 1..n : \A x \in Nat : H[i][x] \in Nat
        BY StartRises
    <2> HIDE DEF H
    <2>2. QED
        BY <2>1 DEF Steps, Arrays
<1>2. \A i \in 1..n : \A x \in Nat : H[i][x] = NextStart(len, align, i, x)
    OBVIOUS
<1> HIDE DEF H
<1>3. PICK f \in [0..n -> Nat] : Stepped(n, 0, H, f)
    BY <1>1, StepsHaveSolution
<1> DEFINE at == [i \in 1..n |-> f[i]]
<1>4. ASSUME NEW i \in 1..n PROVE f[i] = NextStart(len, align, i, at[i - 1])
    <2>1. i \in Nat /\ i - 1 \in 0..n /\ f[i - 1] \in Nat
        BY <1>3 DEF Arrays
    <2>2. f[i] = NextStart(len, align, i, f[i - 1])
        BY <1>2, <1>3, <2>1 DEF Stepped
    <2>3. i # 1 => at[i - 1] = f[i - 1]
        BY <2>1 DEF Arrays
    <2>4. NextStart(len, align, i, f[i - 1]) = NextStart(len, align, i, at[i - 1])
        BY <2>3 DEF NextStart
    <2>5. QED
        BY <2>2, <2>4
<1>5. at = [i \in 1..n |-> NextStart(len, align, i, at[i - 1])]
    BY <1>4
<1> HIDE DEF at
<1>6. QED
    BY <1>5 DEF Placing

\* Arrays that are put one behind the other do not overlap.
LEMMA PlacingSeparates ==
    ASSUME NEW n, NEW len, NEW align, Arrays(n, len, align), NEW at, Placing(n, len, align, at)
    PROVE  /\ at \in [1..n -> Nat \ {0}]
           /\ \A i, j \in 1..n : j < i => at[j] + len[j] <= at[i]
<1>1. /\ n \in Nat /\ \A i \in 1..n : len[i] \in Nat
      /\ DOMAIN at = 1..n /\ \A i \in 1..n : at[i] = NextStart(len, align, i, at[i - 1])
      /\ at = [i \in 1..n |-> at[i]]
    BY DEF Placing, Arrays
<1> DEFINE T == {i \in 0..n : i = 0 \/ (/\ at[i] \in Nat \ {0}
                                        /\ \A j \in 1..n : j < i => at[j] \in Nat /\ at[j] + len[j] <= at[i])}
<1>2. 0 \in T
    BY <1>1
<1>3. ASSUME NEW i \in 1..n, i - 1 \in T PROVE i \in T
    <2>1. CASE i = 1
        <3>1. NextStart(len, align, i, 0) = NextStart(len, align, i, at[i - 1])
            BY <2>1 DEF NextStart
        <3>2. NextStart(len, align, i, 0) \in Nat /\ 1 <= NextStart(len, align, i, 0)
            BY <2>1, StartRises
        <3>5. at[i] \in Nat /\ 1 <= at[i]
            <4> HIDE DEF T
            <4>1. QED
                BY <1>1, <3>1, <3>2
        <3>3. \A j \in 1..n : ~(j < i)
            BY <2>1
        <3>4. QED
            BY <3>3, <3>5
    <2>2. CASE i # 1
        <3>1. i - 1 \in 1..n /\ i - 1 # 0 /\ i - 1 \in Nat
            BY <1>1, <2>2
        <3>2. at[i - 1] \in Nat \ {0} /\ \A j \in 1..n : j < i - 1 => at[j] \in Nat /\ at[j] + len[j] <= at[i - 1]
            BY <1>3, <3>1
        <3> HIDE DEF T
        <3>3. at[i] \in Nat /\ len[i - 1] \in Nat /\ at[i - 1] + len[i - 1] <= at[i]
            <4>1. PICK x \in Nat : x = at[i - 1]
                BY <3>2
            <4>2. NextStart(len, align, i, x) \in Nat /\ len[i - 1] \in Nat /\ x + len[i - 1] <= NextStart(len, align, i, x)
                BY <2>2, StartRises
            <4>3. QED
                BY <1>1, <4>1, <4>2
        <3>4. at[i] # 0
            BY <3>2, <3>3
        <3>5. ASSUME NEW j \in 1..n, j < i PROVE at[j] \in Nat /\ at[j] + len[j] <= at[i]
            <4>1. CASE j = i - 1
                BY <3>2, <3>3, <4>1
            <4>2. CASE j # i - 1
                <5>1. j < i - 1
                    BY <1>1, <3>1, <3>5, <4>2
                <5>2. at[j] \in Nat /\ at[j] + len[j] <= at[i - 1] /\ len[j] \in Nat
                    BY <1>1, <3>2, <5>1
                <5>3. QED
                    BY <3>2, <3>3, <5>2
            <4>3. QED
                BY <4>1, <4>2
        <3>6. QED
            BY <3>3, <3>4, <3>5 DEF T
    <2>3. QED
        BY <2>1, <2>2
<1>4. \A i \in 0..n : i \in T
    <2> HIDE DEF T
    <2>1. QED
        BY <1>1, <1>2, <1>3, CountUp
<1>5. \A i \in 1..n : at[i] \in Nat \ {0} /\ \A j \in 1..n : j < i => at[j] + len[j] <= at[i]
    <2>1. \A i \in 1..n : i \in 0..n /\ i # 0
        OBVIOUS
    <2>2. QED
        BY <1>4, <2>1
<1>6. QED
    BY <1>1, <1>5

-----------------------------------------------------------------------------
(* The call sites, once the layouts have been verified.                    *)

\* The linker has put the arrays apart from each other.
IsLoaded ==
    /\ \A r \in cha.roots : loadedAt[r] \in Nat \ {0}
    /\ \A r, q \in cha.roots : r # q =>
          \/ loadedAt[r] + Len(newVTables[r]) <= loadedAt[q]
          \/ loadedAt[q] + Len(newVTables[q]) <= loadedAt[r]

SitesDone ==
    /\ vtblIndex # <<>> => /\ verified # "pending"
                           /\ vtblIndex = [s \in callSites |-> translateVtblInd(<<s.className, 0>>, s.offset)]
    /\ checks # <<>> => vtblIndex # <<>> /\ checks = [s \in callSites |-> RangeChecks(s)]
    /\ loadedAt # <<>> => checks # <<>> /\ IsLoaded

\* An array holds what its layout says, slot by slot.
LEMMA EmittedLists ==
    ASSUME RangesInv, LayoutsDone, EmitsDone, laidOut = cha.roots, emitted = cha.roots, NEW r \in cha.roots
    PROVE  /\ newVTables[r] = [i \in DOMAIN interleavingMap[r] |-> Content(interleavingMap[r][i])]
           /\ Len(interleavingMap[r]) \in Nat /\ DOMAIN interleavingMap[r] = 1..Len(interleavingMap[r])
           /\ Len(newVTables[r]) = Len(interleavingMap[r])
           /\ DOMAIN newVTables[r] = DOMAIN interleavingMap[r]
<1>1. newVTables[r] = [i \in DOMAIN interleavingMap[r] |-> Content(interleavingMap[r][i])]
    BY DEF EmitsDone
<1>2. IsLayout(Cloud(r), interleavingMap[r])
    BY DEF LayoutsDone, IsLaidOut
<1>3. interleavingMap[r] \in Seq(AllSlots(Cloud(r)) \cup {Dummy})
    BY <1>2 DEF IsLayout
<1>4. PICK n, list, new : n = Len(list) /\ list = interleavingMap[r] /\ new = newVTables[r]
    OBVIOUS
<1>5. n \in Nat /\ DOMAIN list = 1..n
    BY <1>3, <1>4
<1>6. DOMAIN new = 1..n
    BY <1>1, <1>4, <1>5
<1>7. Len(new) = n
    <2> DEFINE T == {new[i] : i \in DOMAIN new}
    <2>1. \A i \in 1..n : new[i] \in T
        BY <1>6
    <2>2. new = [i \in 1..n |-> new[i]]
        BY <1>1, <1>4, <1>5
    <2> HIDE DEF T
    <2>3. new \in Seq(T)
        BY <1>5, <2>1, <2>2
    <2>4. QED
        BY <1>5, <1>6, <2>3
<1>8. QED
    BY <1>1, <1>4, <1>5, <1>6, <1>7

\* The linker leaves the arrays apart, and none at address zero.
LEMMA LinkSeparates ==
    ASSUME RangesInv, LayoutsDone, EmitsDone, laidOut = cha.roots, emitted = cha.roots, Link
    PROVE  IsLoaded'
<1> DEFINE n == Cardinality(cha.roots)
<1>1. PICK order \in Bijection(1..n, cha.roots) :
         loadedAt' =
            LET Up(a, k) == k * ((a + k - 1) \div k)
                at[i \in DOMAIN order] ==
                    Up(IF i = 1 THEN 1 ELSE at[i - 1] + Len(newVTables[order[i - 1]]),
                       alignmentMap[order[i]])
            IN  [r \in cha.roots |-> at[CHOOSE i \in DOMAIN order : order[i] = r]]
    BY Zenon DEF Link
<1> DEFINE Sol(f) == f = [i \in DOMAIN order |->
                            UpTo(IF i = 1 THEN 1 ELSE f[i - 1] + Len(newVTables[order[i - 1]]),
                                 alignmentMap[order[i]])]
           at == CHOOSE f : Sol(f)
           len == [i \in 1..n |-> Len(newVTables[order[i]])]
           align == [i \in 1..n |-> alignmentMap[order[i]]]
<1>2. loadedAt' = [r \in cha.roots |-> at[CHOOSE i \in DOMAIN order : order[i] = r]]
    BY <1>1 DEF UpTo
<1>3. /\ DOMAIN order = 1..n /\ \A i \in 1..n : order[i] \in cha.roots
      /\ \A r \in cha.roots : \E i \in 1..n : order[i] = r
    BY DEF Bijection, Injection, Surjection, IsInjective
<1>4. n \in Nat
    <2>1. IsFiniteSet(cha.roots)
        <3>1. Queries /\ \A r \in cha.roots : <<r, 0>> \in vtables
            BY ReadIsWellFormed, CloudFacts DEF RangesInv
        <3>2. IsFiniteSet({v[1] : v \in vtables})
            BY <3>1, ClassesFinite
        <3>3. cha.roots \subseteq {v[1] : v \in vtables}
            <4>1. \A r \in cha.roots : <<r, 0>>[1] = r
                OBVIOUS
            <4>2. QED
                BY <3>1, <4>1
        <3>4. QED
            BY <3>2, <3>3, FS_Subset
    <2>2. QED
        BY <2>1, FS_CardinalityType
<1> HIDE DEF n
<1>5. \A r \in cha.roots : Len(newVTables[r]) \in Nat /\ alignmentMap[r] \in Nat \ {0}
    BY EmittedLists, LaidOutRoots
<1>6. Arrays(n, len, align)
    BY <1>3, <1>4, <1>5 DEF Arrays
<1>7. \A f : Sol(f) <=> Placing(n, len, align, f)
    <2> TAKE f
    <2>1. ASSUME NEW i \in 1..n
          PROVE  UpTo(IF i = 1 THEN 1 ELSE f[i - 1] + Len(newVTables[order[i - 1]]), alignmentMap[order[i]]) =
                 NextStart(len, align, i, f[i - 1])
        <3>1. i # 1 => i - 1 \in 1..n
            BY <1>4
        <3>2. i # 1 => len[i - 1] = Len(newVTables[order[i - 1]])
            BY <3>1
        <3>3. align[i] = alignmentMap[order[i]]
            OBVIOUS
        <3> HIDE DEF len, align
        <3>4. QED
            BY <3>2, <3>3 DEF NextStart
    <2> HIDE DEF len, align
    <2>2. QED
        BY <1>3, <2>1 DEF Placing
<1> HIDE DEF Sol, len, align
<1>8. Placing(n, len, align, at)
    BY <1>6, <1>7, PlacingExists
<1>9. /\ at \in [1..n -> Nat \ {0}]
      /\ \A i, j \in 1..n : j < i => at[j] + len[j] <= at[i]
    BY <1>6, <1>8, PlacingSeparates
<1> HIDE DEF at
<1> DEFINE pos == [r \in cha.roots |-> CHOOSE i \in DOMAIN order : order[i] = r]
<1>10. \A r \in cha.roots : pos[r] \in 1..n /\ order[pos[r]] = r /\ loadedAt'[r] = at[pos[r]]
    BY <1>2, <1>3
<1> HIDE DEF pos
<1>11. \A r \in cha.roots : len[pos[r]] = Len(newVTables[r])
    BY <1>10 DEF len
<1>12. cha' = cha /\ newVTables' = newVTables
    BY DEF Link, vars, inputVars, emitVars
<1>13. \A r \in cha.roots : loadedAt'[r] \in Nat \ {0}
    BY <1>9, <1>10
<1>14. \A r, q \in cha.roots : r # q =>
          \/ loadedAt'[r] + Len(newVTables[r]) <= loadedAt'[q]
          \/ loadedAt'[q] + Len(newVTables[q]) <= loadedAt'[r]
    <2> TAKE r, q \in cha.roots
    <2> HAVE r # q
    <2>1. pos[r] \in Nat /\ pos[q] \in Nat /\ pos[r] # pos[q]
        BY <1>4, <1>10
    <2>2. pos[r] < pos[q] \/ pos[q] < pos[r]
        BY <2>1
    <2>3. QED
        BY <1>9, <1>10, <1>11, <2>2
<1>15. QED
    BY <1>12, <1>13, <1>14 DEF IsLoaded

ChecksInv == LayoutsInv /\ EmitsDone /\ MemDone /\ SitesDone

\* A new index depends on the hierarchy and on newLayoutInds only.
LEMMA SameTranslation ==
    ASSUME cha' = cha, newLayoutInds' = newLayoutInds
    PROVE  \A v, n : translateVtblInd(v, n)' = translateVtblInd(v, n)
<1>1. \A v : preorder(v)' = preorder(v) /\ isDefined(v)' = isDefined(v)
    BY DEF preorder, InOrder, ByName, vtables, isDefined
<1>2. \A v : Representative(v)' = Representative(v)
    <2> TAKE v
    <2>1. PICK p : p = preorder(v) /\ p = preorder(v)'
        BY <1>1
    <2>2. QED
        BY <1>1, <2>1 DEF Representative
<1>3. QED
    <2> TAKE v, n
    <2>1. PICK w : w = Representative(v) /\ w = Representative(v)'
        BY <1>2
    <2>2. QED
        BY <2>1 DEF translateVtblInd, relAddrPt, start

\* What a call site becomes depends on what the pass has built only.
LEMMA SameSites ==
    ASSUME UNCHANGED vars
    PROVE  /\ \A v, n : translateVtblInd(v, n)' = translateVtblInd(v, n)
           /\ \A s : RangeChecks(s)' = RangeChecks(s)
<1>1. cha' = cha /\ newLayoutInds' = newLayoutInds /\ memRangeMap' = memRangeMap /\ alignmentMap' = alignmentMap
    BY DEF vars, inputVars, layoutVars, rangeVars
<1>2. \A v : preorder(v)' = preorder(v)
    BY <1>1 DEF preorder, InOrder, ByName, vtables
<1>3. \A v, n : translateVtblInd(v, n)' = translateVtblInd(v, n)
    BY <1>1, SameTranslation
<1>4. \A b, w : isAncestor(b, w)' = isAncestor(b, w)
    BY <1>2 DEF isAncestor
<1>5. \A d, b : getSubVTableIndex(d, b)' = getSubVTableIndex(d, b)
    BY <1>1, <1>4 DEF getSubVTableIndex, vtables
<1>6. \A s : CheckedVtable(s)' = CheckedVtable(s)
    BY <1>1, <1>5 DEF CheckedVtable, knowsAbout, vtables
<1>7. \A s : RangeChecks(s)' = RangeChecks(s)
    <2> TAKE s
    <2>1. PICK v : v = CheckedVtable(s) /\ v = CheckedVtable(s)'
        BY <1>6
    <2>2. QED
        BY <1>1, <2>1 DEF RangeChecks
<1>8. QED
    BY <1>3, <1>7

\* Steps that change nothing of what sites depend on keep SitesDone.
LEMMA SitesKept ==
    ASSUME SitesDone, UNCHANGED <<vars, callSites, vtblIndex, checks>>,
           loadedAt' = loadedAt
    PROVE  SitesDone'
<1>1. cha' = cha /\ newVTables' = newVTables /\ verified' = verified
    BY DEF vars, inputVars, emitVars
<1>2. IsLoaded' = IsLoaded
    BY <1>1 DEF IsLoaded
<1>3. \A s : translateVtblInd(<<s.className, 0>>, s.offset)' = translateVtblInd(<<s.className, 0>>, s.offset)
    BY SameSites
<1>4. \A s : RangeChecks(s)' = RangeChecks(s)
    BY SameSites
<1>5. QED
    BY <1>1, <1>2, <1>3, <1>4 DEF SitesDone

\* While no site is translated, steps that leave the sites alone keep SitesDone.
LEMMA SitesNotYet ==
    ASSUME SitesDone, vtblIndex = <<>>, UNCHANGED checkVars
    PROVE  SitesDone'
BY DEF SitesDone, checkVars

\* Replacing the index calls makes SitesDone true of the indices.
LEMMA IndexStep ==
    ASSUME SitesDone, handleSDGetVtblIndex
    PROVE  SitesDone'
<1>1. /\ verified # "pending" /\ vtblIndex = <<>> /\ UNCHANGED <<vars, callSites, checks, loadedAt>>
      /\ vtblIndex' = [s \in callSites |-> translateVtblInd(<<s.className, 0>>, s.offset)]
    BY DEF handleSDGetVtblIndex
<1>2. checks = <<>> /\ loadedAt = <<>> /\ verified' = verified
    BY <1>1 DEF SitesDone, vars
<1>3. \A s : translateVtblInd(<<s.className, 0>>, s.offset)' = translateVtblInd(<<s.className, 0>>, s.offset)
    BY <1>1, SameSites
<1>4. QED
    BY <1>1, <1>2, <1>3 DEF SitesDone

\* Replacing the checked calls makes SitesDone true of the checks.
LEMMA CheckedStep ==
    ASSUME SitesDone, handleSDGetCheckedVtbl
    PROVE  SitesDone'
<1>1. /\ vtblIndex # <<>> /\ checks = <<>> /\ UNCHANGED <<vars, callSites, vtblIndex, loadedAt>>
      /\ checks' = [s \in callSites |-> RangeChecks(s)]
    BY DEF handleSDGetCheckedVtbl
<1>2. loadedAt = <<>> /\ verified' = verified
    BY <1>1 DEF SitesDone, vars
<1>3. \A s : translateVtblInd(<<s.className, 0>>, s.offset)' = translateVtblInd(<<s.className, 0>>, s.offset)
    BY <1>1, SameSites
<1>4. \A s : RangeChecks(s)' = RangeChecks(s)
    BY <1>1, SameSites
<1>5. QED
    BY <1>1, <1>2, <1>3, <1>4 DEF SitesDone

\* Linking makes SitesDone true of the addresses.
LEMMA LinkStep ==
    ASSUME LayoutsInv, EmitsDone, SitesDone, Link
    PROVE  SitesDone'
<1>1. checks # <<>> /\ loadedAt = <<>> /\ UNCHANGED <<vars, callSites, vtblIndex, checks>>
    BY DEF Link
<1>2. verified # "pending"
    BY <1>1 DEF SitesDone
<1>3. laidOut = cha.roots /\ emitted = cha.roots
    BY <1>2 DEF LayoutsInv, RangesInv, Loops, Built
<1>4. IsLoaded'
    BY <1>3, LinkSeparates DEF LayoutsInv
<1>5. verified' = verified
    BY <1>1 DEF vars
<1>6. \A s : translateVtblInd(<<s.className, 0>>, s.offset)' = translateVtblInd(<<s.className, 0>>, s.offset)
    BY <1>1, SameSites
<1>7. \A s : RangeChecks(s)' = RangeChecks(s)
    BY <1>1, SameSites
<1>8. QED
    BY <1>1, <1>4, <1>5, <1>6, <1>7 DEF SitesDone

\* The inductive invariant holds at first.
LEMMA ChecksInvInit == ChecksInit => ChecksInv
<1> SUFFICES ASSUME ChecksInit PROVE ChecksInv
    OBVIOUS
<1>1. SitesDone
    BY DEF ChecksInit, SitesDone
<1>2. QED
    BY <1>1, LayoutsInvInit, EmitsInit DEF ChecksInv

\* Every step keeps the inductive invariant.
LEMMA ChecksStep == ChecksInv /\ [ChecksNext]_ChecksVars => ChecksInv'
<1> SUFFICES ASSUME ChecksInv, [ChecksNext]_ChecksVars PROVE ChecksInv'
    OBVIOUS
<1>1. LayoutsInv /\ LayoutsInv' /\ EmitsDone /\ MemDone /\ SitesDone /\ RangesInv /\ RangesDone' /\ Loops
    BY LayoutsStep DEF ChecksInv, LayoutsInv, RangesInv
<1>2. /\ laidOut \subseteq cha.roots /\ emitted \subseteq cha.roots /\ ranged \subseteq cha.roots
      /\ emitted # {} => laidOut = cha.roots
      /\ ranged # {} => emitted = cha.roots
      /\ verified # "pending" => Built
    BY <1>1 DEF Loops
<1>3. vtblIndex # <<>> => verified # "pending"
    BY <1>1 DEF SitesDone
<1>4. ASSUME NEW root \in cha.roots, Layout(root), UNCHANGED checkVars PROVE ChecksInv'
    <2>1. root \notin laidOut /\ cha' = cha /\ UNCHANGED <<emitted, vptrs, newVTables, rangeMap, memRangeMap>>
        BY <1>4 DEF Layout, IsNext, inputVars, emitVars, rangeVars
    <2>2. emitted = {} /\ ranged = {} /\ vtblIndex = <<>>
        BY <1>2, <1>3, <2>1 DEF Built
    <2>3. QED
        BY <1>1, <1>4, <2>1, <2>2, EmitsKept, MemKept, SitesNotYet DEF ChecksInv
<1>5. ASSUME NEW root \in cha.roots, Emit(root), UNCHANGED checkVars PROVE ChecksInv'
    <2>1. root \notin emitted /\ cha' = cha /\ UNCHANGED <<rangeMap, memRangeMap>> /\ UNCHANGED layoutVars
        BY <1>5 DEF Emit, IsNext, inputVars, rangeVars
    <2>2. vtblIndex = <<>>
        BY <1>2, <1>3, <2>1 DEF Built
    <2>3. QED
        BY <1>1, <1>5, <2>1, <2>2, EmitsAdded, MemKept, SitesNotYet DEF ChecksInv
<1>6. ASSUME NEW root \in cha.roots, calculateVPtrRanges(root), UNCHANGED checkVars PROVE ChecksInv'
    <2>1. root \notin ranged /\ cha' = cha /\ UNCHANGED <<emitted, vptrs, newVTables>> /\ UNCHANGED layoutVars
        BY <1>6 DEF calculateVPtrRanges, IsNext, inputVars, emitVars
    <2>2. vtblIndex = <<>>
        BY <1>2, <1>3, <2>1 DEF Built
    <2>3. QED
        BY <1>1, <1>6, <2>1, <2>2, EmitsKept, MemAdded, SitesNotYet DEF ChecksInv
<1>7. ASSUME verifyNewLayouts, UNCHANGED checkVars PROVE ChecksInv'
    <2>1. verified = "pending" /\ cha' = cha /\ UNCHANGED <<emitted, vptrs, newVTables, rangeMap, memRangeMap>> /\ UNCHANGED layoutVars
        BY <1>7 DEF verifyNewLayouts, inputVars, emitVars, rangeVars
    <2>2. vtblIndex = <<>>
        BY <1>3, <2>1
    <2>3. QED
        BY <1>1, <1>7, <2>1, <2>2, EmitsKept, MemKept, SitesNotYet DEF ChecksInv
<1>8. ASSUME UNCHANGED vars, SitesDone' PROVE ChecksInv'
    <2>1. cha' = cha /\ UNCHANGED <<emitted, vptrs, newVTables, rangeMap, memRangeMap>> /\ UNCHANGED layoutVars
        BY <1>8 DEF vars, inputVars, emitVars, rangeVars, layoutVars
    <2>2. QED
        BY <1>1, <1>8, <2>1, EmitsKept, MemKept DEF ChecksInv
<1>9. CASE handleSDGetVtblIndex
    <2>1. UNCHANGED vars
        BY <1>9 DEF handleSDGetVtblIndex
    <2>2. QED
        BY <1>1, <1>8, <1>9, <2>1, IndexStep
<1>10. CASE handleSDGetCheckedVtbl
    <2>1. UNCHANGED vars
        BY <1>10 DEF handleSDGetCheckedVtbl
    <2>2. QED
        BY <1>1, <1>8, <1>10, <2>1, CheckedStep
<1>11. CASE Link
    <2>1. UNCHANGED vars
        BY <1>11 DEF Link
    <2>2. QED
        BY <1>1, <1>8, <1>11, <2>1, LinkStep
<1>12. CASE UNCHANGED ChecksVars
    <2>1. UNCHANGED vars /\ UNCHANGED <<callSites, vtblIndex, checks, loadedAt>>
        BY <1>12 DEF ChecksVars, checkVars
    <2>2. QED
        BY <1>1, <1>8, <2>1, SitesKept
<1>13. QED
    BY <1>4, <1>5, <1>6, <1>7, <1>9, <1>10, <1>11, <1>12 DEF ChecksNext, ChecksVars, LayoutNext, ChecksDone

-----------------------------------------------------------------------------
(* What a call site checks.                                                *)

\* What holds once the loops are done.
LEMMA BuiltFacts ==
    ASSUME ChecksInv
    PROVE  Queries /\ FromInput /\ RangesInv /\ LayoutsDone /\ EmitsDone /\ MemDone
<1>1. RangesInv /\ LayoutsDone /\ EmitsDone /\ MemDone /\ FromInput
    BY DEF ChecksInv, LayoutsInv, RangesInv
<1>2. QED
    BY <1>1, ReadIsWellFormed

\* What the invariant says of a linked program.
LEMMA LinkedFacts ==
    ASSUME ChecksInv, Linked
    PROVE  /\ Queries /\ FromInput /\ Built /\ RangesInv /\ LayoutsDone /\ EmitsDone /\ MemDone /\ IsLoaded
           /\ vtblIndex = [s \in callSites |-> translateVtblInd(<<s.className, 0>>, s.offset)]
           /\ checks = [s \in callSites |-> RangeChecks(s)]
<1>1. loadedAt # <<>>
    BY DEF Linked
<1>2. /\ checks # <<>> /\ vtblIndex # <<>> /\ IsLoaded /\ verified # "pending"
      /\ vtblIndex = [s \in callSites |-> translateVtblInd(<<s.className, 0>>, s.offset)]
      /\ checks = [s \in callSites |-> RangeChecks(s)]
    BY <1>1 DEF ChecksInv, SitesDone
<1>3. RangesInv /\ LayoutsDone /\ EmitsDone /\ MemDone /\ FromInput /\ Loops
    BY DEF ChecksInv, LayoutsInv, RangesInv
<1>4. Queries
    BY <1>3, ReadIsWellFormed
<1>5. Built
    BY <1>2, <1>3 DEF Loops
<1>6. QED
    BY <1>2, <1>3, <1>4, <1>5

\* A call site's class has a first vtable, with the slot that the site reads.
LEMMA SiteFacts ==
    ASSUME FromInput, NEW s \in callSites
    PROVE  /\ <<s.className, 0>> \in vtables /\ s.offset \in Int
           /\ cha.addrPt[<<s.className, 0>>] + s.offset \in start(<<s.className, 0>>)..end(<<s.className, 0>>)
BY CallSitesAssumption DEF FromInput, vtables, start, end

\* A vtable below another one is of a class with a greater number.
LEMMA ReachLevels ==
    ASSUME Queries
    PROVE  \E N \in Nat : \E level \in [{v[1] : v \in vtables} -> 1..N] :
              \A v \in vtables : \A w \in Reach(v) : w = v \/ level[v[1]] < level[w[1]]
<1>1. PICK N \in Nat : \E level \in [{v[1] : v \in vtables} -> 1..N] :
         \A v \in vtables : level[v[1]] \in 1..N /\ \A c \in cha.children[v] : level[v[1]] < level[c[1]]
    BY ClassLevels
<1>2. PICK level \in [{v[1] : v \in vtables} -> 1..N] :
         \A v \in vtables : level[v[1]] \in 1..N /\ \A c \in cha.children[v] : level[v[1]] < level[c[1]]
    BY <1>1
<1>3. ASSUME NEW v \in vtables, NEW w \in Reach(v) PROVE w = v \/ level[v[1]] < level[w[1]]
    <2> DEFINE X == {x \in vtables : x = v \/ level[v[1]] < level[x[1]]}
    <2>1. X \in SUBSET vtables /\ v \in X
        OBVIOUS
    <2>2. Closed(X)
        <3> SUFFICES ASSUME NEW x \in X, NEW c \in cha.children[x] PROVE c \in X
            BY DEF Closed
        <3>1. x \in vtables /\ c \in vtables /\ level[x[1]] < level[c[1]]
            BY <1>2, ChildrenAreVtables
        <3>2. level[v[1]] \in Nat /\ level[x[1]] \in Nat /\ level[c[1]] \in Nat
            BY <1>2, <3>1
        <3>3. x = v \/ level[v[1]] < level[x[1]]
            OBVIOUS
        <3>4. level[v[1]] < level[c[1]]
            BY <3>1, <3>2, <3>3
        <3>5. QED
            BY <3>1, <3>4
    <2> HIDE DEF X
    <2>3. w \in X
        BY <2>1, <2>2, ReachFacts
    <2>4. QED
        BY <2>3 DEF X
<1>4. QED
    BY <1>2, <1>3

\* isAncestor finds exactly what is below.
LEMMA AncestorIsReach ==
    ASSUME Queries, NEW v \in vtables
    PROVE  \A w : isAncestor(v, w) <=> w \in Reach(v)
BY PreorderFacts DEF isAncestor, IsPreorder

\* getSubVTableIndex returns the only vtable of a class that is below the base's
\* first one.
LEMMA SubVTableIndexFacts ==
    ASSUME Queries, NEW d, NEW b, getSubVTableIndex(d, b) # -1
    PROVE  /\ <<d, getSubVTableIndex(d, b)>> \in vtables
           /\ isAncestor(<<b, 0>>, <<d, getSubVTableIndex(d, b)>>)
           /\ \A w \in vtables : w[1] = d /\ isAncestor(<<b, 0>>, w) => w = <<d, getSubVTableIndex(d, b)>>
<1> DEFINE ws == {w \in vtables : w[1] = d /\ isAncestor(<<b, 0>>, w)}
           inds == {v[2] : v \in ws}
<1>1. Cardinality(inds) = 1 /\ getSubVTableIndex(d, b) = Min(inds)
    BY DEF getSubVTableIndex
<1>2. \A v \in vtables : v = <<v[1], v[2]>> /\ v[2] \in Nat
    BY VtableFacts
<1>3. IsFiniteSet(inds)
    <2>1. IsFiniteSet(ws)
        BY VtablesFinite, FS_Subset
    <2> DEFINE f == [v \in ws |-> v[2]]
    <2>2. f \in Surjection(ws, inds)
        BY DEF Surjection
    <2> HIDE DEF f, ws, inds
    <2>3. QED
        BY <2>1, <2>2, FS_Surjection
<1>4. PICK i : inds = {i}
    <2> HIDE DEF inds
    <2>1. QED
        BY <1>1, <1>3, FS_Singleton
<1>5. i \in Nat
    <2>1. i \in inds
        BY <1>4
    <2>2. \A j \in inds : j \in Nat
        BY <1>2
    <2>3. QED
        BY <2>1, <2>2
<1>6. Min(inds) = i
    BY <1>4, <1>5 DEF Min
<1>7. PICK w \in ws : w[2] = i
    <2>1. i \in inds
        BY <1>4
    <2>2. QED
        BY <2>1
<1>8. \A u \in ws : u[2] = i
    <2>1. \A u \in ws : u[2] \in inds
        OBVIOUS
    <2> HIDE DEF inds
    <2>2. QED
        BY <1>4, <2>1
<1>9. \A u \in ws : u = <<d, i>>
    BY <1>2, <1>8
<1>10. QED
    BY <1>1, <1>6, <1>7, <1>9

\* The static class has one sub-vtable for the class of the method.
UniqueSite(s) ==
    s.preciseClassName = s.className \/ getSubVTableIndex(s.preciseClassName, s.className) # -1

\* A site checks against a vtable.
LEMMA CheckedIsVtable ==
    ASSUME Queries, FromInput, NEW s \in callSites
    PROVE  CheckedVtable(s) \in vtables
BY SiteFacts, SubVTableIndexFacts DEF CheckedVtable

\* What a legal call reads is emitted, and below the vtable that is checked.
LEMMA TargetsAreChecked ==
    ASSUME Queries, FromInput, NEW s \in callSites, NEW v \in Targets(s)
    PROVE  v \in DOMAIN vptrs /\ v \in Reach(CheckedVtable(s)) /\ v \in Reach(<<s.className, 0>>)
<1> DEFINE c == <<s.className, 0>>
           p == s.preciseClassName
           down == getSubVTableIndex(p, s.className)
           up == getSubVTableIndex(s.className, p)
<1>1. c \in vtables
    BY SiteFacts
<1>2. v \in DOMAIN vptrs
    BY DEF Targets
<1>3. PICK w \in vtables : w[1] = p /\ isAncestor(c, w) /\ isAncestor(w, v)
    BY DEF Targets
<1>4. w \in Reach(c) /\ v \in Reach(w) /\ v \in Reach(c)
    BY <1>1, <1>3, AncestorIsReach, ReachFacts
<1>5. knowsAbout(c)
    BY <1>1 DEF knowsAbout
<1> HIDE DEF down, up, p
<1>6. CheckedVtable(s) = IF p = s.className THEN c ELSE IF down # -1 THEN <<p, down>>
                         ELSE IF up # -1 THEN <<s.className, up>> ELSE c
    BY <1>5 DEF CheckedVtable, down, up, p
<1>7. CASE p # s.className /\ down # -1
    <2>1. w = <<p, down>>
        BY <1>3, <1>7, SubVTableIndexFacts DEF down
    <2>2. QED
        BY <1>2, <1>4, <1>6, <1>7, <2>1
<1>8. ASSUME p # s.className, up # -1 PROVE FALSE
    <2>1. PICK N \in Nat : \E level \in [{x[1] : x \in vtables} -> 1..N] :
             \A x \in vtables : \A y \in Reach(x) : y = x \/ level[x[1]] < level[y[1]]
        BY ReachLevels
    <2>2. PICK level \in [{x[1] : x \in vtables} -> 1..N] :
             \A x \in vtables : \A y \in Reach(x) : y = x \/ level[x[1]] < level[y[1]]
        BY <2>1
    <2>3. c[1] = s.className /\ w[1] = p
        BY <1>3
    <2>4. level[s.className] < level[p]
        BY <1>1, <1>4, <1>8, <2>2, <2>3
    <2>5. <<p, 0>> \in vtables
        BY <1>3, VtableFacts
    <2> DEFINE x == <<s.className, up>>
    <2>6. x \in vtables /\ isAncestor(<<p, 0>>, x)
        BY <1>8, SubVTableIndexFacts DEF up
    <2>7. x \in Reach(<<p, 0>>)
        BY <2>5, <2>6, AncestorIsReach
    <2>8. <<p, 0>>[1] = p /\ x[1] = s.className
        OBVIOUS
    <2>9. level[p] < level[s.className]
        BY <1>8, <2>2, <2>5, <2>7, <2>8
    <2>10. level[p] \in Int /\ level[s.className] \in Int
        <3>1. p \in {y[1] : y \in vtables} /\ s.className \in {y[1] : y \in vtables}
            BY <1>1, <1>3, <2>3
        <3>2. QED
            BY <2>2, <3>1
    <2>11. QED
        BY <2>4, <2>9, <2>10
<1>9. QED
    BY <1>2, <1>4, <1>6, <1>7, <1>8

\* At a unique site whatever is emitted below the checked vtable is a legal
\* target.
LEMMA CheckedAreTargets ==
    ASSUME Queries, FromInput, NEW s \in callSites, UniqueSite(s),
           NEW v \in DOMAIN vptrs, v \in Reach(CheckedVtable(s))
    PROVE  v \in Targets(s)
<1> DEFINE c == <<s.className, 0>>
           p == s.preciseClassName
           down == getSubVTableIndex(p, s.className)
<1>1. c \in vtables /\ knowsAbout(c)
    BY SiteFacts DEF knowsAbout
<1>2. CASE p = s.className
    <2>1. CheckedVtable(s) = c
        BY <1>2 DEF CheckedVtable
    <2>2. c[1] = p /\ isAncestor(c, c) /\ isAncestor(c, v)
        BY <1>1, <1>2, <2>1, AncestorIsReach, ReachFacts
    <2>3. QED
        BY <1>1, <2>2 DEF Targets
<1>3. CASE p # s.className /\ down # -1
    <2>1. CheckedVtable(s) = <<p, down>>
        BY <1>1, <1>3 DEF CheckedVtable
    <2>2. <<p, down>> \in vtables /\ isAncestor(c, <<p, down>>)
        BY <1>3, SubVTableIndexFacts
    <2>3. isAncestor(<<p, down>>, v) /\ <<p, down>>[1] = p
        BY <2>1, <2>2, AncestorIsReach
    <2>4. QED
        BY <2>2, <2>3 DEF Targets
<1>4. QED
    BY <1>2, <1>3 DEF UniqueSite

-----------------------------------------------------------------------------
(* The address points of an interleaved cloud follow the preorder.         *)

\* A range holds finitely many defined vtables.
LEMMA DefinedInFacts ==
    ASSUME NEW pre, NEW low \in Nat, NEW high \in Nat
    PROVE  /\ IsFiniteSet(DefinedIn(pre, <<low, high>>)) /\ Cardinality(DefinedIn(pre, <<low, high>>)) \in Nat
           /\ \A x : x \in DefinedIn(pre, <<low, high>>) <=>
                        x \in Nat /\ low <= x /\ x < high /\ isDefined(pre[x + 1])
<1> DEFINE D == DefinedIn(pre, <<low, high>>)
<1>1. D = {i \in low..(high - 1) : isDefined(pre[i + 1])}
    BY DEF DefinedIn
<1> HIDE DEF D
<1>2. IsFiniteSet(low..(high - 1))
    BY FS_Interval
<1>3. D \subseteq low..(high - 1)
    BY <1>1
<1>4. IsFiniteSet(D) /\ Cardinality(D) \in Nat
    BY <1>2, <1>3, FS_Subset, FS_CardinalityType
<1>5. \A x : x \in D <=> x \in Nat /\ low <= x /\ x < high /\ isDefined(pre[x + 1])
    BY <1>1
<1>6. QED
    BY <1>4, <1>5 DEF D

\* Between two vtables of a cloud there are as many as their range holds.
LEMMA BetweenCounts ==
    ASSUME Queries, NEW root \in vtables, NEW pre, IsPreorder(root, pre),
           NEW v \in Defined(pre), NEW w \in Defined(pre)
    PROVE  Cardinality(Between(pre, v, w)) =
           Cardinality(DefinedIn(pre, <<IndexMap(pre)[v], IndexMap(pre)[w]>>))
<1> DEFINE ind == IndexMap(pre)
           B == Between(pre, v, w)
           D == DefinedIn(pre, <<ind[v], ind[w]>>)
           f == [u \in B |-> ind[u]]
<1>1. /\ ind \in [Range(pre) -> 0..(Len(pre) - 1)]
      /\ \A i \in DOMAIN pre : pre[i] \in Range(pre) /\ ind[pre[i]] = i - 1
      /\ \A u \in Range(pre) : ind[u] + 1 \in DOMAIN pre /\ pre[ind[u] + 1] = u
    BY IndexMapFacts
<1>2. Len(pre) \in Nat /\ DOMAIN pre = 1..Len(pre)
    BY DEF IsPreorder
<1>3. \A u : u \in Defined(pre) <=> u \in Range(pre) /\ isDefined(u)
    BY DEF Defined
<1>4. \A u \in Range(pre) : ind[u] \in Nat
    BY <1>1, <1>2
<1>5. \A u : u \in B <=> u \in Defined(pre) /\ ind[v] <= ind[u] /\ ind[u] < ind[w]
    BY DEF Between
<1> HIDE DEF ind
<1>6. IsFiniteSet(D) /\ \A x : x \in D <=> x \in Nat /\ ind[v] <= x /\ x < ind[w] /\ isDefined(pre[x + 1])
    BY <1>3, <1>4, DefinedInFacts
<1>7. \A u \in B : ind[u] \in D
    BY <1>1, <1>3, <1>4, <1>5, <1>6
<1>8. \A x \in D : pre[x + 1] \in B /\ ind[pre[x + 1]] = x
    <2> TAKE x \in D
    <2>1. x \in Nat /\ ind[v] <= x /\ x < ind[w] /\ isDefined(pre[x + 1])
        BY <1>6
    <2>2. ind[w] \in Nat /\ ind[w] + 1 <= Len(pre)
        BY <1>1, <1>2, <1>3
    <2>3. x + 1 \in DOMAIN pre
        BY <1>2, <2>1, <2>2
    <2>4. pre[x + 1] \in Range(pre) /\ ind[pre[x + 1]] = x
        BY <1>1, <2>1, <2>3
    <2>5. QED
        BY <1>3, <1>5, <2>1, <2>4
<1>9. \A t, u \in B : ind[t] = ind[u] => t = u
    BY <1>1, <1>3, <1>5
<1> HIDE DEF B, D
<1>10. f \in Bijection(B, D)
    <2>1. f \in [B -> D]
        BY <1>7
    <2>2. \A t, u \in B : f[t] = f[u] => t = u
        BY <1>9
    <2>3. \A x \in D : \E u \in B : f[u] = x
        BY <1>8
    <2> HIDE DEF f
    <2>4. QED
        BY <2>1, <2>2, <2>3 DEF Bijection, Injection, Surjection, IsInjective
<1>11. IsFiniteSet(B)
    <2>1. IsFiniteSet(Defined(pre))
        BY SlotFacts
    <2>2. QED
        BY <1>5, <2>1, FS_Subset
<1> HIDE DEF f
<1>12. Cardinality(B) = Cardinality(D)
    BY <1>6, <1>10, <1>11, FS_Bijection DEF ExistsBijection
<1>13. QED
    BY <1>12 DEF B, D, ind

\* Where the address point of a vtable is.
LEMMA AddressPoints ==
    ASSUME ChecksInv, Built, NEW v \in DOMAIN vptrs
    PROVE  LET r == cha.ancestor[v]
           IN  /\ v \in vtables /\ isDefined(v) /\ r \in cha.roots /\ v \in Defined(Cloud(r))
               /\ IsPreorder(<<r, 0>>, Cloud(r)) /\ <<r, 0>> \in vtables
               /\ IsLayout(Cloud(r), interleavingMap[r])
               /\ <<v, cha.addrPt[v]>> \in AllSlots(Cloud(r))
               /\ vptrs[v] = newVtblAddressConst(v)
               /\ vptrs[v] = <<r, PlaceOf(interleavingMap[r], <<v, cha.addrPt[v]>>) - 1>>
               /\ vptrs[v][2] \in Nat /\ vptrs[v][2] + 1 \in DOMAIN interleavingMap[r]
               /\ interleavingMap[r][vptrs[v][2] + 1] = <<v, cha.addrPt[v]>>
               /\ Len(newVTables[r]) \in Nat /\ vptrs[v][2] < Len(newVTables[r])
<1> DEFINE r == cha.ancestor[v]
           list == interleavingMap[r]
<1>1. Queries /\ Built /\ RangesInv /\ LayoutsDone /\ EmitsDone
    BY BuiltFacts
<1>2. v \in vtables /\ isDefined(v) /\ r \in cha.roots /\ vptrs[v] = newVtblAddressConst(v)
    BY <1>1, CloudFacts DEF EmitsDone
<1>3. IsPreorder(<<r, 0>>, Cloud(r)) /\ <<r, 0>> \in vtables /\ Range(Cloud(r)) = {u \in vtables : cha.ancestor[u] = r}
    BY <1>1, <1>2, CloudFacts
<1>4. v \in Defined(Cloud(r))
    BY <1>2, <1>3 DEF Defined
<1>5. IsLayout(Cloud(r), list)
    BY <1>1, <1>2 DEF LayoutsDone, IsLaidOut, Built
<1>6. start(v) \in Nat /\ cha.addrPt[v] \in Nat /\ end(v) \in Nat /\ start(v) <= cha.addrPt[v] /\ cha.addrPt[v] <= end(v)
    BY <1>1, <1>2, ShapeFacts
<1>7. <<v, cha.addrPt[v]>> \in AllSlots(Cloud(r))
    <2>1. cha.addrPt[v] \in start(v)..end(v)
        BY <1>6
    <2>2. QED
        BY <1>1, <1>3, <1>4, <2>1, SlotFacts
<1>8. newLayoutInds[v] = IndsOf(list, v)
    BY <1>1, <1>2 DEF LayoutsDone, Built
<1> HIDE DEF list, r
<1>9. IndsOf(list, v)[relAddrPt(v) + 1] = PlaceOf(list, <<v, cha.addrPt[v]>>) - 1
    <2>1. relAddrPt(v) + 1 \in 1..(end(v) - start(v) + 1) /\ start(v) + (relAddrPt(v) + 1) - 1 = cha.addrPt[v]
        BY <1>6 DEF relAddrPt
    <2>2. QED
        BY <2>1 DEF IndsOf
<1>10. vptrs[v] = <<r, PlaceOf(list, <<v, cha.addrPt[v]>>) - 1>>
    BY <1>2, <1>8, <1>9 DEF newVtblAddressConst, r
<1>11. /\ PlaceOf(list, <<v, cha.addrPt[v]>>) \in DOMAIN list
       /\ list[PlaceOf(list, <<v, cha.addrPt[v]>>)] = <<v, cha.addrPt[v]>>
       /\ Len(list) \in Nat /\ DOMAIN list = 1..Len(list)
    BY <1>5, <1>7, PlaceFacts
<1>12. Len(newVTables[r]) = Len(list)
    <2>1. laidOut = cha.roots /\ emitted = cha.roots
        BY <1>1 DEF Built
    <2>2. QED
        BY <1>1, <1>2, <2>1, EmittedLists DEF list, r
<1>13. PICK p : p = PlaceOf(list, <<v, cha.addrPt[v]>>)
    OBVIOUS
<1>14. p \in Nat /\ p - 1 \in Nat /\ (p - 1) + 1 = p /\ p - 1 < Len(list)
    BY <1>11, <1>13
<1>15. vptrs[v][2] = p - 1
    BY <1>10, <1>13
<1>16. vptrs[v][2] \in Nat /\ vptrs[v][2] + 1 = p /\ vptrs[v][2] < Len(newVTables[r])
    BY <1>12, <1>14, <1>15
<1>17. QED
    BY <1>2, <1>3, <1>4, <1>5, <1>7, <1>10, <1>11, <1>12, <1>13, <1>16 DEF list, r

\* In an interleaved cloud address points are as far apart as there are defined
\* vtables between them.
LEMMA PointDistance ==
    ASSUME ChecksInv, Linked, interleave, NEW v \in DOMAIN vptrs, NEW w \in DOMAIN vptrs,
           NEW r, cha.ancestor[v] = r, cha.ancestor[w] = r,
           IndexMap(Cloud(r))[v] <= IndexMap(Cloud(r))[w]
    PROVE  vptrs[w][2] = vptrs[v][2] + Cardinality(DefinedIn(Cloud(r), <<IndexMap(Cloud(r))[v], IndexMap(Cloud(r))[w]>>))
<1> DEFINE pre == Cloud(r)
           ind == IndexMap(pre)
           list == interleavingMap[r]
<1>1. Queries /\ Built /\ RangesInv /\ LayoutsDone
    BY LinkedFacts
<1>2. /\ v \in Defined(pre) /\ w \in Defined(pre) /\ IsPreorder(<<r, 0>>, pre) /\ <<r, 0>> \in vtables
      /\ r \in cha.roots
      /\ vptrs[v][2] \in Nat /\ vptrs[v][2] + 1 \in DOMAIN list /\ list[vptrs[v][2] + 1] = <<v, cha.addrPt[v]>>
      /\ vptrs[w][2] \in Nat /\ vptrs[w][2] + 1 \in DOMAIN list /\ list[vptrs[w][2] + 1] = <<w, cha.addrPt[w]>>
    BY LinkedFacts, AddressPoints
<1>3. list = Interleaved(pre, NoPads)
    <2>1. laidOut = cha.roots
        BY <1>1 DEF Built
    <2>2. QED
        BY <1>1, <1>2, <2>1, LaidOutRoots
<1>4. Defined(pre) \subseteq vtables
    BY <1>1, <1>2, SlotFacts
<1>5. \A u \in Defined(pre) : cha.addrPt[u] + 0 = cha.addrPt[u] /\ cha.addrPt[u] + 0 \in start(u)..end(u)
    <2> TAKE u \in Defined(pre)
    <2>1. start(u) \in Nat /\ cha.addrPt[u] \in Nat /\ end(u) \in Nat /\ start(u) <= cha.addrPt[u] /\ cha.addrPt[u] <= end(u)
        BY <1>1, <1>4, ShapeFacts
    <2>2. QED
        BY <2>1
<1> HIDE DEF pre, list, ind
<1>6. PICK i, j : i = vptrs[v][2] + 1 /\ j = vptrs[w][2] + 1
    OBVIOUS
<1>7. /\ i \in DOMAIN Interleaved(pre, NoPads) /\ Interleaved(pre, NoPads)[i] = <<v, cha.addrPt[v] + 0>>
      /\ j \in DOMAIN Interleaved(pre, NoPads) /\ Interleaved(pre, NoPads)[j] = <<w, cha.addrPt[w] + 0>>
    BY <1>2, <1>3, <1>5, <1>6
<1>8. IndexMap(pre)[v] <= IndexMap(pre)[w]
    BY DEF pre
<1>9. \A u \in Defined(pre) : IndexMap(pre)[v] <= IndexMap(pre)[u] /\ IndexMap(pre)[u] <= IndexMap(pre)[w] =>
          cha.addrPt[u] + 0 \in start(u)..end(u)
    BY <1>5
<1>10. 0 \in Int
    OBVIOUS
<1>11. Cardinality(Between(pre, v, w)) \in Nat /\ j = i + Cardinality(Between(pre, v, w))
    BY <1>1, <1>2, <1>7, <1>8, <1>9, <1>10, RowDistance
<1>12. Cardinality(Between(pre, v, w)) = Cardinality(DefinedIn(pre, <<IndexMap(pre)[v], IndexMap(pre)[w]>>))
    BY <1>1, <1>2, BetweenCounts
<1>13. vptrs[w][2] = vptrs[v][2] + Cardinality(Between(pre, v, w))
    BY <1>2, <1>6, <1>11
<1>14. QED
    BY <1>12, <1>13 DEF pre

-----------------------------------------------------------------------------
(* The checks of a call site are the ranges of the vtable that it checks.  *)

CheckOf(check, v, range) ==
    LET r == cha.ancestor[v]
        D == DefinedIn(Cloud(r), range)
    IN  /\ D # {}
        /\ check.start = newVtblAddressConst(Cloud(r)[Min(D) + 1])
        /\ check.width = Cardinality(D) /\ check.alignment = alignmentMap[r]

\* A site has one check for each range, of the checked vtable, that holds a
\* defined vtable.
LEMMA ChecksAreRanges ==
    ASSUME ChecksInv, Linked, NEW s \in callSites
    PROVE  LET v == CheckedVtable(s)
           IN  /\ v \in vtables /\ v \in DOMAIN rangeMap /\ HasRanges(v)
               /\ \A i \in DOMAIN checks[s] : \E k \in DOMAIN rangeMap[v] : CheckOf(checks[s][i], v, rangeMap[v][k])
               /\ \A k \in DOMAIN rangeMap[v] : DefinedIn(Cloud(cha.ancestor[v]), rangeMap[v][k]) # {} =>
                     \E i \in DOMAIN checks[s] : CheckOf(checks[s][i], v, rangeMap[v][k])
<1> DEFINE v == CheckedVtable(s)
           r == cha.ancestor[v]
           pre == Cloud(r)
           ranges == rangeMap[v]
           mem == MemOf(v)
           Good(k) == k \in DOMAIN ranges /\ DefinedIn(pre, ranges[k]) # {}
<1>1. Queries /\ FromInput /\ Built /\ RangesInv /\ MemDone /\ checks[s] = RangeChecks(s)
    BY LinkedFacts
<1>2. v \in vtables
    BY <1>1, CheckedIsVtable
<1>3. v \in DOMAIN rangeMap /\ HasRanges(v)
    <2>1. r \in cha.roots
        BY <1>1, <1>2, CloudFacts
    <2>2. r \in ranged
        BY <1>1, <2>1 DEF Built
    <2>3. QED
        BY <1>1, <1>2, <2>2 DEF RangesInv, RangesDone
<1>4. ranges \in Seq(Ranges)
    BY <1>3 DEF HasRanges, Separate
<1>5. mem = MemRanges(pre, ranges)
    BY DEF MemOf
<1>6. v \in DOMAIN memRangeMap <=> mem # <<>>
    BY <1>1, <1>3 DEF MemDone
<1>7. v \in DOMAIN memRangeMap => memRangeMap[v] = mem
    BY <1>1 DEF MemDone
<1> HIDE DEF v, r, pre, ranges, mem
<1>8. /\ Listed(mem)
      /\ \A j \in DOMAIN mem : \E k : Good(k) /\ mem[j] = MemRange(pre, ranges[k])
      /\ \A k : Good(k) => \E j \in DOMAIN mem : mem[j] = MemRange(pre, ranges[k])
    <2>1. /\ Listed(MemRanges(pre, ranges))
          /\ \A j \in DOMAIN MemRanges(pre, ranges) : \E k \in DOMAIN ranges :
                DefinedIn(pre, ranges[k]) # {} /\ MemRanges(pre, ranges)[j] = MemRange(pre, ranges[k])
          /\ \A k \in DOMAIN ranges : DefinedIn(pre, ranges[k]) # {} =>
                \E j \in DOMAIN MemRanges(pre, ranges) : MemRanges(pre, ranges)[j] = MemRange(pre, ranges[k])
        BY <1>4, MemRangesList
    <2>2. QED
        BY <1>5, <2>1
<1>9. CASE mem = <<>>
    <2>1. RangeChecks(s) = <<>>
        BY <1>6, <1>9 DEF RangeChecks, v
    <2>2. DOMAIN checks[s] = {}
        BY <1>1, <2>1
    <2>3. \A k : ~Good(k)
        BY <1>8, <1>9
    <2>4. QED
        BY <1>2, <1>3, <2>2, <2>3 DEF ranges, pre, r, v
<1>10. CASE mem # <<>>
    <2> DEFINE Before(i, j) == \/ mem[i][2] > mem[j][2]
                               \/ mem[i][2] = mem[j][2] /\ i < j
               J == DOMAIN mem
               before == {p \in J \X J : Before(p[1], p[2])}
               order == Sorted(J, before)
    <2>1. RangeChecks(s) = [i \in DOMAIN order |-> [start |-> mem[order[i]][1], width |-> mem[order[i]][2],
                                                    alignment |-> alignmentMap[r]]]
        BY <1>6, <1>7, <1>10 DEF RangeChecks, v, r
    <2>2. J = 1..Len(mem) /\ Len(mem) \in Nat /\ IsFiniteSet(J)
        <3>1. J = 1..Len(mem) /\ Len(mem) \in Nat
            BY <1>8 DEF Listed
        <3>2. IsFiniteSet(1..Len(mem))
            BY <3>1, FS_Interval
        <3>3. QED
            BY <3>1, <3>2
    <2>3. \A j \in J : mem[j][2] \in Nat
        <3> TAKE j \in J
        <3>1. PICK k : Good(k) /\ mem[j] = MemRange(pre, ranges[k])
            BY <1>8
        <3>2. PICK low, high : low \in Nat /\ high \in Nat /\ ranges[k] = <<low, high>>
            BY <1>4, <3>1 DEF Ranges
        <3>3. Cardinality(DefinedIn(pre, ranges[k])) \in Nat
            BY <3>2, DefinedInFacts
        <3>4. QED
            BY <3>1, <3>3 DEF MemRange
    <2> HIDE DEF order
    <2>4. Orders(before, J)
        <3>1. \A x \in J : ~Before(x, x)
            BY <2>2, <2>3
        <3>2. \A x, y \in J : x # y => Before(x, y) \/ Before(y, x)
            BY <2>2, <2>3
        <3>3. \A x, y, z \in J : Before(x, y) /\ Before(y, z) => Before(x, z)
            BY <2>2, <2>3
        <3> HIDE DEF Before, J
        <3>4. QED
            BY <3>1, <3>2, <3>3 DEF Orders
    <2> HIDE DEF J, before, Before
    <2>5. /\ Cardinality(J) \in Nat /\ order \in [1..Cardinality(J) -> J]
          /\ \A x \in J : \E i \in 1..Cardinality(J) : order[i] = x
        <3>1. /\ Cardinality(J) \in Nat /\ Sorted(J, before) \in [1..Cardinality(J) -> J]
              /\ \A x \in J : \E i \in 1..Cardinality(J) : Sorted(J, before)[i] = x
            <4>1. PICK S, b : S = J /\ b = before /\ IsFiniteSet(S) /\ Orders(b, S)
                BY <2>2, <2>4
            <4>2. /\ Cardinality(S) \in Nat /\ Sorted(S, b) \in [1..Cardinality(S) -> S]
                  /\ \A x \in S : \E i \in 1..Cardinality(S) : Sorted(S, b)[i] = x
                BY <4>1, SortedLists
            <4>3. QED
                BY <4>1, <4>2
        <3>2. QED
            BY <3>1 DEF order
    <2>6. ASSUME NEW j \in J, NEW k, Good(k), mem[j] = MemRange(pre, ranges[k]), NEW check,
                 check = [start |-> mem[j][1], width |-> mem[j][2], alignment |-> alignmentMap[r]]
          PROVE  CheckOf(check, v, ranges[k])
        BY <2>6 DEF CheckOf, MemRange, pre, r
    <2>7. /\ DOMAIN checks[s] = 1..Cardinality(J)
          /\ \A i \in 1..Cardinality(J) :
                checks[s][i] = [start |-> mem[order[i]][1], width |-> mem[order[i]][2], alignment |-> alignmentMap[r]]
        BY <1>1, <2>1, <2>5
    <2>8. ASSUME NEW i \in DOMAIN checks[s] PROVE \E k \in DOMAIN ranges : CheckOf(checks[s][i], v, ranges[k])
        <3>1. order[i] \in J
            BY <2>5, <2>7
        <3>2. PICK k : Good(k) /\ mem[order[i]] = MemRange(pre, ranges[k])
            BY <1>8, <3>1 DEF J
        <3>3. CheckOf(checks[s][i], v, ranges[k])
            BY <2>6, <2>7, <3>1, <3>2
        <3>4. QED
            BY <3>2, <3>3
    <2>9. ASSUME NEW k, Good(k) PROVE \E i \in DOMAIN checks[s] : CheckOf(checks[s][i], v, ranges[k])
        <3>1. PICK j \in J : mem[j] = MemRange(pre, ranges[k])
            BY <1>8, <2>9 DEF J
        <3>2. PICK i \in 1..Cardinality(J) : order[i] = j
            BY <2>5
        <3>3. CheckOf(checks[s][i], v, ranges[k])
            BY <2>6, <2>7, <2>9, <3>1, <3>2
        <3>4. QED
            BY <2>7, <3>3
    <2>10. QED
        BY <1>2, <1>3, <2>8, <2>9 DEF ranges, pre, r, v
<1>11. QED
    BY <1>9, <1>10

\* The address points that a check covers.
Covers(check, v, range) ==
    LET r == cha.ancestor[v]
        ind == IndexMap(Cloud(r))
    IN  /\ check.start[1] = r /\ check.start[2] \in Nat /\ check.width \in Nat \ {0}
        /\ check.alignment = 1
        /\ check.start[2] + check.width <= Len(newVTables[r])
        /\ \A w \in DOMAIN vptrs : cha.ancestor[w] = r =>
              /\ range[1] <= ind[w] /\ ind[w] < range[2] =>
                    check.start[2] <= vptrs[w][2] /\ vptrs[w][2] < check.start[2] + check.width
              /\ range[2] <= ind[w] => check.start[2] + check.width <= vptrs[w][2]
              /\ ind[w] < range[1] => vptrs[w][2] < check.start[2]

\* A set of numbers that is not empty has a least one.
LEMMA LeastOf ==
    ASSUME NEW D, D \subseteq Nat, D # {}
    PROVE  Min(D) \in D /\ \A x \in D : Min(D) <= x
<1>1. \E i \in D : \A j \in D : i <= j
    BY Least
<1>2. QED
    BY <1>1 DEF Min

\* The addresses that a check accepts are the address points of its range's
\* vtables.
LEMMA ChecksCover ==
    ASSUME ChecksInv, Linked, interleave, NEW v \in vtables, HasRanges(v),
           NEW k \in DOMAIN rangeMap[v], NEW check, CheckOf(check, v, rangeMap[v][k])
    PROVE  Covers(check, v, rangeMap[v][k])
<1> DEFINE r == cha.ancestor[v]
           pre == Cloud(r)
           ind == IndexMap(pre)
           range == rangeMap[v][k]
           D == DefinedIn(pre, range)
           u == pre[Min(D) + 1]
           a == check.start[2]
<1>1. Queries /\ Built /\ RangesInv /\ LayoutsDone /\ EmitsDone
    BY LinkedFacts
<1>2. r \in cha.roots /\ <<r, 0>> \in vtables /\ IsPreorder(<<r, 0>>, pre) /\ Range(pre) = {w \in vtables : cha.ancestor[w] = r}
    BY <1>1, CloudFacts
<1>3. /\ ind \in [Range(pre) -> 0..(Len(pre) - 1)]
      /\ \A i \in DOMAIN pre : pre[i] \in Range(pre) /\ ind[pre[i]] = i - 1
      /\ \A w \in Range(pre) : ind[w] + 1 \in DOMAIN pre /\ pre[ind[w] + 1] = w
    BY <1>2, IndexMapFacts
<1>4. Len(pre) \in Nat /\ DOMAIN pre = 1..Len(pre)
    BY <1>2 DEF IsPreorder
<1>5. \A w \in Range(pre) : ind[w] \in Nat
    BY <1>3, <1>4
<1>6. DOMAIN vptrs = {w \in vtables : isDefined(w)}
    <2>1. \A w \in vtables : cha.ancestor[w] \in emitted
        BY <1>1, CloudFacts DEF Built
    <2>2. QED
        BY <1>1, <2>1 DEF EmitsDone
<1>7. alignmentMap[r] = 1
    <2>1. laidOut = cha.roots
        BY <1>1 DEF Built
    <2>2. QED
        BY <1>1, <1>2, <2>1, LaidOutRoots
<1>8. /\ range \in Ranges /\ rangeMap[v] \in Seq(Ranges)
      /\ \A x \in Nat : Holds(rangeMap[v], x) <=> \E w \in Reach(v) : x = ind[w]
    BY DEF HasRanges, Separate
<1>9. \A x \in Nat : range[1] <= x /\ x < range[2] => \E w \in Reach(v) : x = ind[w]
    <2>1. \A x \in Nat : range[1] <= x /\ x < range[2] => Holds(rangeMap[v], x)
        BY DEF Holds
    <2>2. QED
        BY <1>8, <2>1
<1>10. \A w \in Reach(v) : w \in Range(pre)
    BY <1>1, <1>2, CloudFacts
<1>11. D # {} /\ check.start = newVtblAddressConst(u) /\ check.width = Cardinality(D) /\ check.alignment = 1
    BY <1>7 DEF CheckOf
<1> HIDE DEF ind, pre, range, D, r
<1>12. PICK low, high : low \in Nat /\ high \in Nat /\ range = <<low, high>>
    BY <1>8 DEF Ranges
<1>13. /\ IsFiniteSet(D) /\ Cardinality(D) \in Nat
       /\ \A x : x \in D <=> x \in Nat /\ low <= x /\ x < high /\ isDefined(pre[x + 1])
    BY <1>12, DefinedInFacts DEF D
\* Every index of the range is that of a vtable of the cloud.
<1>14. \A x \in D : x + 1 \in DOMAIN pre /\ pre[x + 1] \in DOMAIN vptrs /\ ind[pre[x + 1]] = x /\ cha.ancestor[pre[x + 1]] = r
    <2> TAKE x \in D
    <2>1. x \in Nat /\ low <= x /\ x < high /\ isDefined(pre[x + 1])
        BY <1>13
    <2>2. PICK w \in Range(pre) : x = ind[w]
        BY <1>9, <1>10, <1>12, <2>1
    <2>3. pre[x + 1] = w /\ x + 1 \in DOMAIN pre
        BY <1>3, <2>2
    <2>4. QED
        BY <1>2, <1>6, <2>1, <2>2, <2>3
<1>15. PICK m : m = Min(D)
    OBVIOUS
<1>16. m \in D /\ m \in Nat /\ \A x \in D : m <= x
    <2>1. D \subseteq Nat
        BY <1>13
    <2>2. QED
        BY <1>11, <1>13, <1>15, <2>1, LeastOf
<1>17. u = pre[m + 1]
    BY <1>15
<1> HIDE DEF u
<1>18. u \in DOMAIN vptrs /\ ind[u] = m /\ cha.ancestor[u] = r
    BY <1>14, <1>16, <1>17
<1>19. vptrs[u] = newVtblAddressConst(u) /\ vptrs[u][2] \in Nat /\ newVtblAddressConst(u)[1] = r
    <2>1. vptrs[u] = newVtblAddressConst(u) /\ vptrs[u][2] \in Nat
        BY <1>18, LinkedFacts, AddressPoints
    <2>2. QED
        BY <1>18, <2>1 DEF newVtblAddressConst
<1>20. check.start[1] = r /\ a = vptrs[u][2] /\ a \in Nat
    BY <1>11, <1>19
<1> HIDE DEF a
<1>21. \A w \in DOMAIN vptrs : cha.ancestor[w] = r => w \in Range(pre) /\ ind[w] \in Nat /\ pre[ind[w] + 1] = w
                                                      /\ isDefined(w) /\ vptrs[w][2] \in Nat
    <2> TAKE w \in DOMAIN vptrs
    <2> HAVE cha.ancestor[w] = r
    <2>1. w \in Range(pre) /\ isDefined(w)
        BY <1>2, <1>6
    <2>2. vptrs[w][2] \in Nat
        BY LinkedFacts, AddressPoints
    <2>3. QED
        BY <1>3, <1>5, <2>1, <2>2
<1>22. ASSUME NEW x \in DOMAIN vptrs, NEW y \in DOMAIN vptrs, cha.ancestor[x] = r, cha.ancestor[y] = r, ind[x] <= ind[y]
       PROVE  vptrs[y][2] = vptrs[x][2] + Cardinality(DefinedIn(pre, <<ind[x], ind[y]>>))
    BY <1>22, PointDistance DEF ind, pre
<1>23. ASSUME NEW w \in DOMAIN vptrs, cha.ancestor[w] = r, low <= ind[w], ind[w] < high
       PROVE  a <= vptrs[w][2] /\ vptrs[w][2] < a + check.width
    <2> DEFINE E == DefinedIn(pre, <<m, ind[w]>>)
    <2>1. ind[w] \in D
        BY <1>13, <1>21, <1>23
    <2>2. m <= ind[w] /\ ind[w] \in Nat
        BY <1>16, <1>21, <1>23, <2>1
    <2>3. vptrs[w][2] = a + Cardinality(E)
        BY <1>18, <1>20, <1>22, <1>23, <2>2
    <2>4. IsFiniteSet(E) /\ Cardinality(E) \in Nat /\ \A x : x \in E <=> x \in Nat /\ m <= x /\ x < ind[w] /\ isDefined(pre[x + 1])
        BY <1>16, <2>2, DefinedInFacts
    <2> HIDE DEF E
    <2>5. E \subseteq D /\ E # D
        <3>1. ASSUME NEW x \in E PROVE x \in D
            <4>1. x \in Nat /\ m <= x /\ x < ind[w] /\ isDefined(pre[x + 1])
                BY <2>4
            <4>2. low <= m
                BY <1>13, <1>16
            <4>3. low <= x /\ x < high
                BY <1>12, <1>16, <1>23, <2>2, <4>1, <4>2
            <4>4. QED
                BY <1>13, <4>1, <4>3
        <3>2. ind[w] \notin E
            BY <2>2, <2>4
        <3>3. QED
            BY <2>1, <3>1, <3>2
    <2>6. Cardinality(E) < Cardinality(D)
        <3>1. Cardinality(E) <= Cardinality(D) /\ (Cardinality(E) = Cardinality(D) => E = D)
            BY <1>13, <2>5, FS_Subset
        <3>2. QED
            BY <1>13, <2>4, <2>5, <3>1
    <2>7. QED
        BY <1>11, <1>13, <1>20, <2>3, <2>4, <2>6
<1>24. ASSUME NEW w \in DOMAIN vptrs, cha.ancestor[w] = r, high <= ind[w]
       PROVE  a + check.width <= vptrs[w][2]
    <2> DEFINE E == DefinedIn(pre, <<m, ind[w]>>)
    <2>1. ind[w] \in Nat /\ m < high /\ m <= ind[w]
        BY <1>12, <1>13, <1>16, <1>21, <1>24
    <2>2. vptrs[w][2] = a + Cardinality(E)
        BY <1>18, <1>20, <1>22, <1>24, <2>1
    <2>3. IsFiniteSet(E) /\ Cardinality(E) \in Nat /\ \A x : x \in E <=> x \in Nat /\ m <= x /\ x < ind[w] /\ isDefined(pre[x + 1])
        BY <1>16, <2>1, DefinedInFacts
    <2> HIDE DEF E
    <2>4. D \subseteq E
        BY <1>12, <1>13, <1>16, <1>24, <2>1, <2>3
    <2>5. Cardinality(D) <= Cardinality(E)
        BY <2>3, <2>4, FS_Subset
    <2>6. QED
        BY <1>11, <1>13, <1>20, <2>2, <2>3, <2>5
<1>25. ASSUME NEW w \in DOMAIN vptrs, cha.ancestor[w] = r, ind[w] < low
       PROVE  vptrs[w][2] < a
    <2> DEFINE E == DefinedIn(pre, <<ind[w], m>>)
    <2>1. ind[w] \in Nat /\ low <= m /\ ind[w] < m
        BY <1>12, <1>13, <1>16, <1>21, <1>25
    <2>2. a = vptrs[w][2] + Cardinality(E)
        <3>1. ind[w] <= ind[u]
            BY <1>16, <1>18, <2>1
        <3>2. QED
            BY <1>18, <1>20, <1>22, <1>25, <3>1
    <2>3. IsFiniteSet(E) /\ Cardinality(E) \in Nat /\ \A x : x \in E <=> x \in Nat /\ ind[w] <= x /\ x < m /\ isDefined(pre[x + 1])
        BY <1>16, <2>1, DefinedInFacts
    <2> HIDE DEF E
    <2>4. ind[w] \in E
        BY <1>21, <1>25, <2>1, <2>3
    <2>5. Cardinality(E) # 0
        BY <2>3, <2>4, FS_EmptySet
    <2>6. vptrs[w][2] \in Nat
        BY <1>21, <1>25
    <2>7. QED
        BY <1>20, <2>2, <2>3, <2>5, <2>6
<1>26. check.width \in Nat \ {0}
    BY <1>11, <1>13, FS_EmptySet
<1>27. a + check.width <= Len(newVTables[r])
    <2> DEFINE z == Max(D)
    <2>1. z \in D /\ \A x \in D : x <= z
        <3>1. D \subseteq Int
            BY <1>13
        <3>2. QED
            BY <1>11, <1>13, <3>1, FiniteHasGreatest
    <2> HIDE DEF z
    <2> DEFINE w == pre[z + 1]
               E == DefinedIn(pre, <<m, z>>)
    <2>2. w \in DOMAIN vptrs /\ ind[w] = z /\ cha.ancestor[w] = r /\ z \in Nat
        BY <1>13, <1>14, <2>1
    <2> HIDE DEF w
    <2>3. m <= z
        BY <1>16, <2>1
    <2>4. vptrs[w][2] = a + Cardinality(E)
        BY <1>18, <1>20, <1>22, <2>2, <2>3
    <2>5. IsFiniteSet(E) /\ Cardinality(E) \in Nat /\ \A x : x \in E <=> x \in Nat /\ m <= x /\ x < z /\ isDefined(pre[x + 1])
        BY <1>16, <2>2, DefinedInFacts
    <2> HIDE DEF E
    <2>6. D \ {z} \subseteq E
        <3> SUFFICES ASSUME NEW x \in D, x # z PROVE x \in E
            OBVIOUS
        <3>1. x \in Nat /\ m <= x /\ x <= z /\ isDefined(pre[x + 1])
            BY <1>13, <1>16, <2>1
        <3>2. x < z
            BY <2>2, <3>1
        <3>3. QED
            BY <2>5, <3>1, <3>2
    <2>7. Cardinality(D \ {z}) = Cardinality(D) - 1 /\ IsFiniteSet(D \ {z})
        BY <1>13, <2>1, FS_RemoveElement
    <2>8. Cardinality(D \ {z}) <= Cardinality(E)
        BY <2>5, <2>6, FS_Subset
    <2>9. vptrs[w][2] < Len(newVTables[r]) /\ Len(newVTables[r]) \in Nat
        BY <2>2, LinkedFacts, AddressPoints
    <2>10. QED
        <3>1. PICK d, e, n : d = Cardinality(D) /\ e = Cardinality(E) /\ n = Len(newVTables[r])
            OBVIOUS
        <3>2. d \in Nat /\ e \in Nat /\ n \in Nat /\ a \in Nat /\ d - 1 <= e /\ a + e < n
            BY <1>13, <1>20, <2>4, <2>5, <2>7, <2>8, <2>9, <3>1
        <3>3. a + d <= n
            BY <3>2
        <3>4. QED
            BY <1>11, <3>1, <3>3
<1>28. range[1] = low /\ range[2] = high
    BY <1>12
<1>29. QED
    BY <1>11, <1>20, <1>23, <1>24, <1>25, <1>26, <1>27, <1>28 DEF Covers, a, range, ind, pre, r

-----------------------------------------------------------------------------
(* The comparison of a check, on addresses that wrap around.               *)

\* With an alignment of one slot, rotating changes nothing.
LEMMA RorByOne ==
    ASSUME NEW d \in Nat
    PROVE  Ror(d, 1) = d
<1>1. Words \in Nat \ {0}
    BY WordsAssumption
<1>2. d \div 1 = d /\ d % 1 = 0 /\ Words \div 1 = Words
    BY <1>1
<1>3. QED
    BY <1>1, <1>2 DEF Ror

\* The remainder is known from the quotient.
LEMMA ModIs ==
    ASSUME NEW n \in Nat \ {0}, NEW q \in Int, NEW m \in 0..(n - 1)
    PROVE  (n * q + m) % n = m
<1>1. PICK x \in Int : x = n * q + m
    OBVIOUS
<1>2. x \div n \in Int /\ x % n \in 0..(n - 1) /\ x = n * (x \div n) + (x % n)
    BY DivMod
<1>3. PICK p, k : p = x \div n /\ k = x % n
    OBVIOUS
<1>4. p \in Int /\ k \in 0..(n - 1) /\ n * q + m = n * p + k
    BY <1>1, <1>2, <1>3
<1>5. p = q
    <2>1. CASE p < q
        <3>1. n * (p + 1) <= n * q
            <4>1. p + 1 <= q
                BY <1>4, <2>1
            <4>2. PICK e \in Nat : q = p + 1 + e
                <5>1. q - p - 1 \in Nat /\ q = p + 1 + (q - p - 1)
                    BY <1>4, <4>1
                <5>2. QED
                    BY <5>1
            <4>3. n * q = n * (p + 1) + n * e /\ n * e \in Nat
                BY <1>4, <4>2
            <4>4. QED
                BY <1>4, <4>3
        <3>2. n * (p + 1) = n * p + n
            BY <1>4
        <3>3. QED
            BY <1>4, <3>1, <3>2
    <2>2. CASE p > q
        <3>1. n * (q + 1) <= n * p
            <4>1. PICK e \in Nat : p = q + 1 + e
                <5>1. p - q - 1 \in Nat /\ p = q + 1 + (p - q - 1)
                    BY <1>4, <2>2
                <5>2. QED
                    BY <5>1
            <4>2. n * p = n * (q + 1) + n * e /\ n * e \in Nat
                BY <1>4, <4>1
            <4>3. QED
                BY <1>4, <4>2
        <3>2. n * (q + 1) = n * q + n
            OBVIOUS
        <3>3. QED
            BY <1>4, <3>1, <3>2
    <2>3. QED
        BY <1>4, <2>1, <2>2
<1>6. QED
    BY <1>1, <1>3, <1>4, <1>5

\* From one address to another one behind it the distance counts, at most.
LEMMA WrappedDistance ==
    ASSUME NEW n \in Nat \ {0}, NEW x \in Nat, NEW d \in Nat
    PROVE  /\ (((x + d) % n) - (x % n) + n) % n \in Nat
           /\ (((x + d) % n) - (x % n) + n) % n <= d
<1>1. PICK p, j, q, k : p = x \div n /\ j = x % n /\ q = (x + d) \div n /\ k = (x + d) % n
    OBVIOUS
<1>2. /\ p \in Int /\ j \in 0..(n - 1) /\ x = n * p + j
      /\ q \in Int /\ k \in 0..(n - 1) /\ x + d = n * q + k
    <2>1. PICK y \in Int : y = x + d
        OBVIOUS
    <2>2. y \div n \in Int /\ y % n \in 0..(n - 1) /\ y = n * (y \div n) + (y % n)
        BY <2>1, DivMod
    <2>3. x \div n \in Int /\ x % n \in 0..(n - 1) /\ x = n * (x \div n) + (x % n)
        BY DivMod
    <2>4. QED
        BY <1>1, <2>1, <2>2, <2>3
<1>3. PICK e \in Int : e = q - p
    BY <1>2
<1>4. n * q = n * p + n * e
    BY <1>2, <1>3
<1>5. PICK f \in Int : f = n * e
    OBVIOUS
<1>6. d = f + k - j
    <2>1. PICK a \in Int : a = n * p
        BY <1>2
    <2>2. QED
        BY <1>2, <1>4, <1>5, <2>1
<1>7. e >= 0
    <2> SUFFICES ASSUME e <= -1 PROVE FALSE
        BY <1>3
    <2>1. PICK g \in Nat : e = -1 - g
        <3>1. -1 - e \in Nat /\ e = -1 - (-1 - e)
            OBVIOUS
        <3>2. QED
            BY <3>1
    <2>2. n * e = -n - n * g /\ n * g \in Nat
        BY <2>1
    <2>3. f <= -n
        BY <1>5, <2>2
    <2>4. QED
        BY <1>2, <1>6, <2>3
<1>8. CASE k >= j
    <2>1. k - j + n = n * 1 + (k - j) /\ k - j \in 0..(n - 1)
        BY <1>2, <1>8
    <2>2. (k - j + n) % n = k - j
        BY <2>1, ModIs
    <2>3. f >= 0
        BY <1>5, <1>7
    <2>4. k - j <= d /\ k - j \in Nat
        BY <1>2, <1>6, <1>8, <2>3
    <2>5. QED
        BY <1>1, <2>2, <2>4
<1>9. CASE k < j
    <2>1. k - j + n = n * 0 + (k - j + n) /\ k - j + n \in 0..(n - 1)
        BY <1>2, <1>9
    <2>2. (k - j + n) % n = k - j + n
        BY <2>1, ModIs
    <2>3. e # 0
        BY <1>2, <1>5, <1>6, <1>9
    <2>4. PICK g \in Nat : e = g + 1
        <3>1. e - 1 \in Nat /\ e = (e - 1) + 1
            BY <1>7, <2>3
        <3>2. QED
            BY <3>1
    <2>5. n * e = n * g + n /\ n * g \in Nat
        BY <2>4
    <2>6. f >= n
        BY <1>5, <2>5
    <2>7. k - j + n <= d /\ k - j + n \in Nat
        BY <1>2, <1>6, <1>9, <2>6
    <2>8. QED
        BY <1>1, <2>2, <2>7
<1>10. QED
    BY <1>2, <1>8, <1>9

\* A check covers an address point: it lets it through.
LEMMA CoveredPasses ==
    ASSUME NEW r, NEW check, NEW a, loadedAt[r] \in Nat,
           check.start[1] = r, check.start[2] \in Nat, check.width \in Nat \ {0}, check.alignment = 1,
           a[1] = r, a[2] \in Nat, check.start[2] <= a[2], a[2] < check.start[2] + check.width
    PROVE  InRange(check, AddressOf(a))
<1>1. PICK n, at, s, p, w : n = Words /\ at = loadedAt[r] /\ s = check.start[2] /\ p = a[2] /\ w = check.width
    OBVIOUS
<1>2. n \in Nat \ {0} /\ at \in Nat /\ s \in Nat /\ p \in Nat /\ w \in Nat \ {0} /\ s <= p /\ p < s + w
    BY <1>1, WordsAssumption
<1>3. AddressOf(a) = (at + p) % n /\ AddressOf(check.start) = (at + s) % n
    BY <1>1 DEF AddressOf
<1>4. PICK x, d : x = at + s /\ d = p - s
    OBVIOUS
<1>5. x \in Nat /\ d \in Nat /\ at + p = x + d /\ d < w
    BY <1>2, <1>4
<1>6. PICK diff : diff = (AddressOf(a) - AddressOf(check.start) + n) % n
    OBVIOUS
<1>7. diff = (((x + d) % n) - (x % n) + n) % n
    BY <1>3, <1>4, <1>5, <1>6
<1>8. diff \in Nat /\ diff <= d
    BY <1>2, <1>5, <1>7, WrappedDistance
<1>9. CASE w > 1
    <2>1. Ror(diff, 1) = diff
        BY <1>8, RorByOne
    <2>2. diff <= w
        BY <1>2, <1>5, <1>8
    <2>3. QED
        BY <1>1, <1>6, <1>9, <2>1, <2>2 DEF InRange
<1>10. CASE ~(w > 1)
    <2>1. diff = 0
        BY <1>2, <1>5, <1>8, <1>10
    <2>2. QED
        BY <1>1, <1>6, <1>10, <2>1 DEF InRange
<1>11. QED
    BY <1>9, <1>10

\* A vtable at or below the checked one is in one of its ranges.
LEMMA ReachedIsCovered ==
    ASSUME ChecksInv, Linked, interleave, NEW s \in callSites,
           NEW w \in DOMAIN vptrs, w \in Reach(CheckedVtable(s))
    PROVE  \E i \in DOMAIN checks[s] :
              LET check == checks[s][i]
              IN  /\ check.start[1] = cha.ancestor[w] /\ check.start[2] \in Nat /\ check.width \in Nat \ {0}
                  /\ check.alignment = 1
                  /\ check.start[2] <= vptrs[w][2] /\ vptrs[w][2] < check.start[2] + check.width
<1> DEFINE v == CheckedVtable(s)
           r == cha.ancestor[v]
           pre == Cloud(r)
           ind == IndexMap(pre)
           ranges == rangeMap[v]
<1>1. /\ v \in vtables /\ HasRanges(v)
      /\ \A k \in DOMAIN ranges : DefinedIn(pre, ranges[k]) # {} =>
            \E i \in DOMAIN checks[s] : CheckOf(checks[s][i], v, ranges[k])
    BY ChecksAreRanges
<1>2. Queries
    BY LinkedFacts
<1>3. cha.ancestor[w] = r /\ w \in vtables /\ isDefined(w)
    BY <1>1, <1>2, CloudFacts, LinkedFacts, AddressPoints
<1>4. r \in cha.roots /\ IsPreorder(<<r, 0>>, pre) /\ w \in Range(pre)
    BY <1>1, <1>2, <1>3, CloudFacts
<1>5. ind[w] + 1 \in DOMAIN pre /\ pre[ind[w] + 1] = w /\ ind[w] \in Nat
    <2>1. ind[w] \in 0..(Len(pre) - 1) /\ ind[w] + 1 \in DOMAIN pre /\ pre[ind[w] + 1] = w
        BY <1>4, IndexMapFacts
    <2>2. QED
        BY <2>1
<1>6. Holds(ranges, ind[w]) /\ ranges \in Seq(Ranges)
    BY <1>1, <1>5 DEF HasRanges, Separate
<1> HIDE DEF v, r, pre, ind, ranges
<1>7. PICK k \in DOMAIN ranges : ranges[k][1] <= ind[w] /\ ind[w] < ranges[k][2]
    BY <1>6 DEF Holds
<1>8. PICK low, high : low \in Nat /\ high \in Nat /\ ranges[k] = <<low, high>>
    BY <1>6 DEF Ranges
<1>9. ind[w] \in DefinedIn(pre, ranges[k])
    BY <1>3, <1>5, <1>7, <1>8, DefinedInFacts
<1>10. PICK i \in DOMAIN checks[s] : CheckOf(checks[s][i], v, ranges[k])
    BY <1>1, <1>9
<1>11. Covers(checks[s][i], v, ranges[k])
    BY <1>1, <1>7, <1>10, ChecksCover DEF ranges
<1>12. QED
    BY <1>3, <1>7, <1>11 DEF Covers, r, ind, pre

\* In a state of the invariant the checks of an interleaved program let every
\* legal call pass.
LEMMA CallsPass ==
    ASSUME ChecksInv, interleave
    PROVE  LegalCallsPass
<1> SUFFICES ASSUME Linked, NEW s \in callSites, NEW w \in Targets(s)
             PROVE  Passes(s, vptrs[w])
    BY DEF LegalCallsPass
<1>1. Queries /\ FromInput /\ IsLoaded
    BY LinkedFacts
<1>2. w \in DOMAIN vptrs /\ w \in Reach(CheckedVtable(s))
    BY <1>1, TargetsAreChecked
<1>3. PICK i \in DOMAIN checks[s] :
         LET check == checks[s][i]
         IN  /\ check.start[1] = cha.ancestor[w] /\ check.start[2] \in Nat /\ check.width \in Nat \ {0}
             /\ check.alignment = 1
             /\ check.start[2] <= vptrs[w][2] /\ vptrs[w][2] < check.start[2] + check.width
    BY <1>2, ReachedIsCovered
<1>4. vptrs[w][1] = cha.ancestor[w] /\ vptrs[w][2] \in Nat /\ cha.ancestor[w] \in cha.roots
    <2>1. /\ vptrs[w] = <<cha.ancestor[w], PlaceOf(interleavingMap[cha.ancestor[w]], <<w, cha.addrPt[w]>>) - 1>>
          /\ vptrs[w][2] \in Nat /\ cha.ancestor[w] \in cha.roots
        BY <1>2, LinkedFacts, AddressPoints
    <2>2. QED
        BY <2>1
<1>5. loadedAt[cha.ancestor[w]] \in Nat
    BY <1>1, <1>4 DEF IsLoaded
<1>6. InRange(checks[s][i], AddressOf(vptrs[w]))
    BY <1>3, <1>4, <1>5, CoveredPasses
<1>7. QED
    BY <1>3, <1>6 DEF Passes

\* The inductive invariant holds in every reachable state.
LEMMA ChecksInvHolds == ChecksSpec => []ChecksInv
<1>1. ChecksInv /\ [ChecksNext]_<<vars, checkVars>> => ChecksInv'
    BY ChecksStep DEF ChecksVars
<1>2. QED
    BY <1>1, ChecksInvInit, PTL DEF ChecksSpec

\* In interleaved clouds no call of the program is trapped, wherever the arrays
\* have been put, even if they wrap around the addresses.
THEOREM LegalCallsPassHolds == ChecksSpec => [](interleave => LegalCallsPass)
<1>1. ChecksInv => (interleave => LegalCallsPass)
    BY CallsPass
<1>2. QED
    BY <1>1, ChecksInvHolds, PTL

-----------------------------------------------------------------------------
(* What else is there is trapped.                                          *)

\* No array wraps around the addresses.
ArraysFit == \A r \in cha.roots : loadedAt[r] + Len(newVTables[r]) <= Words

\* An address point that no range holds, from one behind a range or before it.
LEMMA NotCovered ==
    ASSUME ChecksInv, Linked, interleave, ArraysFit, NEW s \in callSites, UniqueSite(s),
           NEW v \in DOMAIN vptrs, v \notin Targets(s), NEW i \in DOMAIN checks[s]
    PROVE  LET check == checks[s][i]
               from == loadedAt[check.start[1]] + check.start[2]
               at == loadedAt[vptrs[v][1]] + vptrs[v][2]
           IN  /\ check.start[2] \in Nat /\ check.width \in Nat \ {0} /\ check.alignment = 1
               /\ loadedAt[check.start[1]] \in Nat
               /\ from \in Nat /\ at \in Nat /\ AddressOf(check.start) = from /\ AddressOf(vptrs[v]) = at
               /\ 0 < at /\ from + check.width <= Words
               /\ at < from \/ from + check.width <= at
<1> DEFINE c == CheckedVtable(s)
           r == cha.ancestor[c]
           pre == Cloud(r)
           ind == IndexMap(pre)
           ranges == rangeMap[c]
           check == checks[s][i]
           q == cha.ancestor[v]
<1>1. Queries /\ FromInput /\ IsLoaded /\ EmitsDone /\ Built /\ RangesInv /\ LayoutsDone
    BY LinkedFacts
<1>2. c \in vtables /\ HasRanges(c) /\ \E k \in DOMAIN ranges : CheckOf(check, c, ranges[k])
    BY ChecksAreRanges
<1>3. v \notin Reach(c)
    BY <1>1, CheckedAreTargets
<1>4. r \in cha.roots /\ IsPreorder(<<r, 0>>, pre) /\ Range(pre) = {w \in vtables : cha.ancestor[w] = r}
      /\ \A w \in Reach(c) : w \in Range(pre)
    BY <1>1, <1>2, CloudFacts
<1>5. /\ v \in vtables /\ q \in cha.roots
      /\ vptrs[v] = <<q, PlaceOf(interleavingMap[q], <<v, cha.addrPt[v]>>) - 1>>
      /\ vptrs[v][2] \in Nat /\ Len(newVTables[q]) \in Nat /\ vptrs[v][2] < Len(newVTables[q])
    BY LinkedFacts, AddressPoints
<1>6. vptrs[v][1] = q
    BY <1>5
<1>7. ranges \in Seq(Ranges) /\ \A x \in Nat : Holds(ranges, x) <=> \E w \in Reach(c) : x = ind[w]
    BY <1>2 DEF HasRanges, Separate
<1>8. \A w \in Range(pre) : ind[w] \in Nat /\ pre[ind[w] + 1] = w
    <2>1. Len(pre) \in Nat
        BY <1>4 DEF IsPreorder
    <2>2. QED
        BY <1>4, <2>1, IndexMapFacts
<1>9. PICK k \in DOMAIN ranges : CheckOf(check, c, ranges[k])
    BY <1>2
<1>10. Covers(check, c, ranges[k])
    BY <1>2, <1>9, ChecksCover
<1>11. Len(newVTables[r]) \in Nat
    <2>1. laidOut = cha.roots /\ emitted = cha.roots
        BY <1>1 DEF Built
    <2>2. QED
        BY <1>1, <1>4, <2>1, EmittedLists
<1>12. PICK a, width, p, lr, lq, nr, nq :
          /\ a = check.start[2] /\ width = check.width /\ p = vptrs[v][2]
          /\ lr = loadedAt[r] /\ lq = loadedAt[q] /\ nr = Len(newVTables[r]) /\ nq = Len(newVTables[q])
    OBVIOUS
<1> HIDE DEF check, c, pre, ind, ranges, r, q
<1>13. /\ check.start[1] = r /\ a \in Nat /\ width \in Nat \ {0} /\ check.alignment = 1 /\ a + width <= nr
    BY <1>10, <1>12 DEF Covers, r
<1>14. /\ lr \in Nat \ {0} /\ lq \in Nat \ {0} /\ lr + nr <= Words /\ lq + nq <= Words
       /\ r # q => lr + nr <= lq \/ lq + nq <= lr
       /\ nr \in Nat /\ nq \in Nat /\ p \in Nat /\ p < nq
    BY <1>1, <1>4, <1>5, <1>11, <1>12 DEF IsLoaded, ArraysFit
<1>15. lq + p < lr + a \/ lr + a + width <= lq + p
    <2>1. CASE q # r
        BY <1>13, <1>14, <2>1
    <2>2. CASE q = r
        <3>1. v \in Range(pre)
            BY <1>4, <1>5, <2>2 DEF q
        <3>2. ind[v] \in Nat
            BY <1>8, <3>1
        <3>3. PICK low, high : low \in Nat /\ high \in Nat /\ ranges[k] = <<low, high>>
            BY <1>7 DEF Ranges
        <3>4. ~(low <= ind[v] /\ ind[v] < high)
            <4> SUFFICES ASSUME low <= ind[v], ind[v] < high PROVE FALSE
                OBVIOUS
            <4>1. Holds(ranges, ind[v])
                BY <3>3 DEF Holds
            <4>2. PICK w \in Reach(c) : ind[v] = ind[w]
                BY <1>7, <3>2, <4>1
            <4>3. v = w
                BY <1>4, <1>8, <3>1, <4>2
            <4>4. QED
                BY <1>3, <4>2, <4>3 DEF c
        <3>5. /\ high <= ind[v] => a + width <= p
              /\ ind[v] < low => p < a
            BY <1>10, <1>12, <2>2, <3>3 DEF Covers, ind, pre, r, q
        <3>6. lq = lr
            BY <1>12, <2>2
        <3>7. high <= ind[v] \/ ind[v] < low
            BY <3>2, <3>3, <3>4
        <3>8. QED
            BY <1>13, <1>14, <3>5, <3>6, <3>7
    <2>3. QED
        BY <2>1, <2>2
<1>16. Words \in Nat \ {0}
    BY WordsAssumption
<1>17. (lr + a) % Words = lr + a /\ (lq + p) % Words = lq + p
    <2>1. lr + a \in 0..(Words - 1) /\ lq + p \in 0..(Words - 1)
        BY <1>13, <1>14, <1>16
    <2>2. \A x \in 0..(Words - 1) : x % Words = x
        BY <1>16
    <2>3. QED
        BY <2>1, <2>2
<1>18. AddressOf(check.start) = lr + a /\ AddressOf(vptrs[v]) = lq + p
    BY <1>6, <1>12, <1>13, <1>17 DEF AddressOf
<1>19. lr + a \in Nat /\ lq + p \in Nat /\ 0 < lq + p /\ lr + a + width <= Words
    BY <1>13, <1>14, <1>16
<1>20. QED
    BY <1>6, <1>12, <1>13, <1>14, <1>15, <1>18, <1>19 DEF check

\* The comparison with the width, for addresses that do not wrap around.
LEMMA OutsideIsTrapped ==
    ASSUME NEW check, NEW a, NEW from \in Nat, NEW at \in Nat,
           AddressOf(check.start) = from, AddressOf(a) = at,
           check.width \in Nat \ {0}, check.alignment = 1,
           0 < at, at < Words, from + check.width <= Words,
           at < from \/ from + check.width <= at,
           InRange(check, AddressOf(a))
    PROVE  check.width > 1 /\ at = from + check.width * check.alignment
<1>1. PICK n, w : n = Words /\ w = check.width
    OBVIOUS
<1>2. n \in Nat \ {0} /\ w \in Nat \ {0} /\ at < n /\ from + w <= n /\ (at < from \/ from + w <= at)
    BY <1>1, WordsAssumption
<1>3. PICK diff : diff = (at - from + n) % n
    OBVIOUS
<1>4. IF w > 1 THEN Ror(diff, 1) <= w ELSE diff = 0
    BY <1>1, <1>3 DEF InRange
<1>5. CASE at < from
    <2>1. at - from + n = n * 0 + (at - from + n) /\ at - from + n \in 0..(n - 1)
        BY <1>2, <1>5
    <2>2. diff = at - from + n
        BY <1>2, <1>3, <2>1, ModIs
    <2>3. diff \in Nat /\ diff > w
        BY <1>2, <2>1, <2>2
    <2>4. Ror(diff, 1) = diff
        BY <2>3, RorByOne
    <2>5. QED
        BY <1>2, <1>4, <2>3, <2>4
<1>6. CASE from + w <= at
    <2>1. PICK m : m = at - from
        OBVIOUS
    <2>2. diff = at - from
        <3>1. at - from + n = n * 1 + m /\ m \in 0..(n - 1)
            BY <1>2, <1>6, <2>1
        <3>2. (n * 1 + m) % n = m
            BY <1>2, <3>1, ModIs
        <3>3. QED
            BY <1>3, <2>1, <3>1, <3>2
    <2>3. diff \in Nat /\ diff >= w
        BY <1>2, <1>6, <2>2
    <2>4. Ror(diff, 1) = diff
        BY <2>3, RorByOne
    <2>5. w > 1 /\ diff = w
        BY <1>2, <1>4, <2>3, <2>4
    <2>6. at = from + w * 1
        BY <1>2, <2>2, <2>5
    <2>7. QED
        BY <1>1, <2>5, <2>6
<1>7. QED
    BY <1>2, <1>5, <1>6

\* In a state of the invariant, where no array wraps around and sites are
\* unique, an interleaved program traps every other address point.
LEMMA OthersTrapped ==
    ASSUME ChecksInv, interleave, ArraysFit, \A s \in callSites : UniqueSite(s)
    PROVE  OthersAreTrapped
<1> SUFFICES ASSUME Linked, NEW s \in callSites, NEW v \in DOMAIN vptrs, v \notin Targets(s), NEW i \in DOMAIN checks[s]
             PROVE  LET check == checks[s][i]
                    IN  /\ InRange(check, AddressOf(vptrs[v])) =>
                              /\ check.width > 1
                              /\ AddressOf(vptrs[v]) = AddressOf(check.start) + check.width * check.alignment
                        /\ validConstVptr(check, vptrs[v]) => InRange(check, AddressOf(vptrs[v]))
    BY DEF OthersAreTrapped
<1>1. PICK check, from, at : /\ check = checks[s][i] /\ from = loadedAt[check.start[1]] + check.start[2]
                             /\ at = loadedAt[vptrs[v][1]] + vptrs[v][2]
    OBVIOUS
<1>2. /\ check.start[2] \in Nat /\ check.width \in Nat \ {0} /\ check.alignment = 1
      /\ loadedAt[check.start[1]] \in Nat
      /\ from \in Nat /\ at \in Nat /\ AddressOf(check.start) = from /\ AddressOf(vptrs[v]) = at
      /\ 0 < at /\ from + check.width <= Words
      /\ at < from \/ from + check.width <= at
    BY <1>1, NotCovered
<1>3. at < Words
    <2>1. AddressOf(vptrs[v]) \in 0..(Words - 1)
        <3>1. PICK x \in Int : x = loadedAt[vptrs[v][1]] + vptrs[v][2]
            BY <1>1, <1>2
        <3>2. x % Words \in 0..(Words - 1)
            BY WordsAssumption
        <3>3. QED
            BY <3>1, <3>2 DEF AddressOf
    <2>2. QED
        BY <1>2, <2>1, WordsAssumption
<1>4. ASSUME InRange(check, AddressOf(vptrs[v]))
      PROVE  check.width > 1 /\ AddressOf(vptrs[v]) = AddressOf(check.start) + check.width * check.alignment
    BY <1>2, <1>3, <1>4, OutsideIsTrapped
<1>5. ASSUME validConstVptr(check, vptrs[v]) PROVE InRange(check, AddressOf(vptrs[v]))
    <2>1. /\ vptrs[v][1] = check.start[1] /\ check.start[2] <= vptrs[v][2]
          /\ vptrs[v][2] < check.start[2] + check.width
        BY <1>5 DEF validConstVptr
    <2>2. vptrs[v][2] \in Nat
        BY LinkedFacts, AddressPoints
    <2>3. QED
        BY <1>2, <2>1, <2>2, CoveredPasses
<1>6. QED
    BY <1>1, <1>4, <1>5

\* In interleaved clouds that do not wrap around the addresses, every other vptr
\* is trapped but the one right behind a range, where the static class has one
\* sub-vtable for the class of the method.
THEOREM OthersAreTrappedHolds ==
    ChecksSpec => [](interleave /\ ArraysFit /\ (\A s \in callSites : UniqueSite(s)) => OthersAreTrapped)
<1>1. ChecksInv => (interleave /\ ArraysFit /\ (\A s \in callSites : UniqueSite(s)) => OthersAreTrapped)
    BY OthersTrapped
<1>2. QED
    BY <1>1, ChecksInvHolds, PTL

-----------------------------------------------------------------------------
(* A call reads the function that it read before.                          *)

\* No vtable is listed before a vtable it derives from.
ParentsFirst ==
    \A r \in cha.roots : \A v \in Range(Cloud(r)) : \A c \in cha.children[v] :
        IndexMap(Cloud(r))[v] <= IndexMap(Cloud(r))[c]

\* What is then listed between a vtable and one below it is below it as well.
LEMMA BelowIsTogether ==
    ASSUME Queries, ParentsFirst, NEW c \in vtables, NEW r, r = cha.ancestor[c]
    PROVE  \A x \in Reach(c) : \A u \in Range(Cloud(r)) :
              IndexMap(Cloud(r))[c] <= IndexMap(Cloud(r))[x] /\
              (IndexMap(Cloud(r))[c] <= IndexMap(Cloud(r))[u] /\ IndexMap(Cloud(r))[u] <= IndexMap(Cloud(r))[x] =>
                  u \in Reach(c))
<1> DEFINE pre == Cloud(r)
           ind == IndexMap(pre)
           Good(x) == ind[c] <= ind[x] /\ \A u \in Range(pre) : ind[c] <= ind[u] /\ ind[u] <= ind[x] => u \in Reach(c)
           X == {x \in vtables : x \in Reach(c) /\ Good(x)}
<1>1. /\ r \in cha.roots /\ <<r, 0>> \in vtables /\ IsPreorder(<<r, 0>>, pre)
      /\ \A w \in Reach(c) : w \in Range(pre) /\ w \in vtables
    BY CloudFacts
<1>2. \A w \in Range(pre) : ind[w] \in Nat /\ pre[ind[w] + 1] = w
    <2>1. Len(pre) \in Nat
        BY <1>1 DEF IsPreorder
    <2>2. QED
        BY <1>1, <2>1, IndexMapFacts
<1>3. \A x \in Reach(c) : cha.children[x] \subseteq Reach(c) /\ Reach(x) \subseteq Reach(c)
    BY ReachFacts
<1>4. c \in Reach(c)
    BY ReachFacts
<1>5. \A v \in Range(pre) : \A d \in cha.children[v] : ind[v] <= ind[d]
    BY <1>1 DEF ParentsFirst
<1> HIDE DEF pre, ind
<1>6. c \in X
    <2>1. ASSUME NEW u \in Range(pre), ind[c] <= ind[u], ind[u] <= ind[c] PROVE u \in Reach(c)
        <3>1. u = c
            BY <1>1, <1>2, <1>4, <2>1
        <3>2. QED
            BY <1>4, <3>1
    <2>2. ind[c] <= ind[c]
        BY <1>1, <1>2, <1>4
    <2>3. QED
        BY <1>4, <2>1, <2>2
<1>7. Closed(X)
    <2> SUFFICES ASSUME NEW x \in X, NEW d \in cha.children[x] PROVE d \in X
        BY DEF Closed
    <2>1. x \in Reach(c) /\ Good(x) /\ d \in Reach(c) /\ d \in vtables /\ x \in Range(pre) /\ d \in Range(pre)
        BY <1>1, <1>3
    <2>2. ind[x] <= ind[d]
        BY <1>5, <2>1
    <2>3. \A u \in Range(pre) : ind[x] <= ind[u] /\ ind[u] <= ind[d] => u \in Reach(x)
        BY <1>1, <2>1, <2>2, BetweenHasRows DEF ind
    <2>4. ASSUME NEW u \in Range(pre), ind[c] <= ind[u], ind[u] <= ind[d] PROVE u \in Reach(c)
        <3>1. ind[u] <= ind[x] \/ ind[x] <= ind[u]
            BY <1>2, <2>1
        <3>2. QED
            BY <1>3, <2>1, <2>3, <2>4, <3>1
    <2>5. ind[c] <= ind[d]
        <3>1. ind[c] <= ind[x] /\ ind[c] \in Nat /\ ind[x] \in Nat /\ ind[d] \in Nat
            BY <1>1, <1>2, <1>4, <2>1
        <3>2. QED
            BY <2>2, <3>1
    <2>6. QED
        BY <2>1, <2>4, <2>5
<1>8. Reach(c) \subseteq X
    <2>1. X \in SUBSET vtables
        OBVIOUS
    <2> HIDE DEF X
    <2>2. QED
        BY <1>6, <1>7, <2>1, ReachFacts
<1>9. QED
    BY <1>8 DEF ind, pre

\* How far the slot at distance k from the address point is from it in the new
\* array.
Distance(v, k) ==
    LET list == interleavingMap[cha.ancestor[v]]
    IN  PlaceOf(list, <<v, cha.addrPt[v] + k>>) - PlaceOf(list, <<v, cha.addrPt[v]>>)

\* In a cloud that is put in order a row is as far from the address point as it
\* was.
LEMMA ContiguousRows ==
    ASSUME ChecksInv, Built, ~interleave, NEW x \in vtables, isDefined(x),
           NEW k \in Int, cha.addrPt[x] + k \in start(x)..end(x)
    PROVE  Distance(x, k) = k
<1> DEFINE r == cha.ancestor[x]
           pre == Cloud(r)
           list == interleavingMap[r]
<1>1. Queries /\ RangesInv /\ LayoutsDone
    BY BuiltFacts
<1>2. r \in cha.roots /\ <<r, 0>> \in vtables /\ IsPreorder(<<r, 0>>, pre) /\ Range(pre) = {v \in vtables : cha.ancestor[v] = r}
    BY <1>1, CloudFacts
<1>3. x \in Defined(pre)
    BY <1>2 DEF Defined
<1>4. InLayout(r) /\ Contiguous(list)
    <2>1. laidOut = cha.roots
        BY DEF Built
    <2>2. QED
        BY <1>1, <1>2, <2>1, LaidOutRoots
<1>5. IsLayout(pre, list) /\ Dummy \notin AllSlots(pre)
    BY <1>1, <1>2, <1>4, DummyIsNoSlot DEF InLayout
<1>6. start(x) \in Nat /\ cha.addrPt[x] \in Nat /\ end(x) \in Nat /\ start(x) <= cha.addrPt[x] /\ cha.addrPt[x] <= end(x)
    BY <1>1, ShapeFacts
<1>7. <<x, cha.addrPt[x] + k>> \in AllSlots(pre) /\ <<x, cha.addrPt[x]>> \in AllSlots(pre)
    <2>1. cha.addrPt[x] \in start(x)..end(x)
        BY <1>6
    <2>2. QED
        BY <1>1, <1>2, <1>3, <2>1, SlotFacts
<1> HIDE DEF pre, list
<1>8. PICK i, j : i = PlaceOf(list, <<x, cha.addrPt[x] + k>>) /\ j = PlaceOf(list, <<x, cha.addrPt[x]>>)
    OBVIOUS
<1>9. /\ i \in DOMAIN list /\ list[i] = <<x, cha.addrPt[x] + k>>
      /\ j \in DOMAIN list /\ list[j] = <<x, cha.addrPt[x]>>
      /\ i \in Int /\ j \in Int
    BY <1>5, <1>7, <1>8, PlaceFacts
<1>10. i - j = (cha.addrPt[x] + k) - cha.addrPt[x]
    BY <1>4, <1>5, <1>7, <1>9 DEF Contiguous
<1>11. QED
    BY <1>6, <1>8, <1>10 DEF list, Distance

\* Every defined vtable that is listed from u to v has a slot at distance k.
RowBetween(u, v, k) ==
    LET pre == Cloud(cha.ancestor[u])
        ind == IndexMap(pre)
    IN  \A w \in Defined(pre) : ind[u] <= ind[w] /\ ind[w] <= ind[v] =>
            cha.addrPt[w] + k \in start(w)..end(w)

\* Vtables have a slot equally far from their address points if all that are
\* listed between them have it.
LEMMA TogetherDistance ==
    ASSUME ChecksInv, Built, NEW u \in vtables, NEW v \in vtables, isDefined(u), isDefined(v),
           NEW k \in Int, cha.addrPt[u] + k \in start(u)..end(u), cha.addrPt[v] + k \in start(v)..end(v),
           ~interleave \/ (cha.ancestor[u] = cha.ancestor[v] /\ RowBetween(u, v, k) /\ RowBetween(v, u, k))
    PROVE  Distance(u, k) = Distance(v, k)
<1>1. CASE ~interleave
    <2>1. Distance(u, k) = k /\ Distance(v, k) = k
        BY <1>1, ContiguousRows
    <2>2. QED
        BY <2>1
<1>2. CASE interleave
    <2> DEFINE r == cha.ancestor[v]
               pre == Cloud(r)
               ind == IndexMap(pre)
    <2>1. Queries /\ RangesInv /\ LayoutsDone
        BY BuiltFacts
    <2>2. cha.ancestor[u] = r
        BY <1>2
    <2>3. /\ r \in cha.roots /\ <<r, 0>> \in vtables /\ IsPreorder(<<r, 0>>, pre)
          /\ Range(pre) = {x \in vtables : cha.ancestor[x] = r}
        BY <2>1, CloudFacts
    <2>4. u \in Defined(pre) /\ v \in Defined(pre)
        BY <2>2, <2>3 DEF Defined
    <2>5. interleavingMap[r] = Interleaved(pre, NoPads)
        <3>1. laidOut = cha.roots
            BY DEF Built
        <3>2. QED
            BY <1>2, <2>1, <2>3, <3>1, LaidOutRoots
    <2>6. RowBetween(u, v, k) /\ RowBetween(v, u, k)
        BY <1>2
    <2>7. /\ \A w \in Defined(pre) : ind[u] <= ind[w] /\ ind[w] <= ind[v] => cha.addrPt[w] + k \in start(w)..end(w)
          /\ \A w \in Defined(pre) : ind[v] <= ind[w] /\ ind[w] <= ind[u] => cha.addrPt[w] + k \in start(w)..end(w)
        BY <2>2, <2>6 DEF RowBetween
    <2>8. ind[u] <= ind[v] \/ ind[v] <= ind[u]
        <3>1. Len(pre) \in Nat
            BY <2>3 DEF IsPreorder
        <3>2. ind[u] \in Nat /\ ind[v] \in Nat
            BY <2>3, <2>4, <3>1, IndexMapFacts DEF Defined
        <3>3. QED
            BY <3>2
    <2>9. PICK list : list = interleavingMap[r]
        OBVIOUS
    <2> HIDE DEF pre, ind, r
    <2>10. ASSUME NEW x \in Defined(pre), NEW y \in Defined(pre), ind[x] <= ind[y],
                  \A w \in Defined(pre) : ind[x] <= ind[w] /\ ind[w] <= ind[y] => cha.addrPt[w] + k \in start(w)..end(w)
           PROVE  PlaceOf(list, <<x, cha.addrPt[x] + k>>) - PlaceOf(list, <<x, cha.addrPt[x]>>) =
                  PlaceOf(list, <<y, cha.addrPt[y] + k>>) - PlaceOf(list, <<y, cha.addrPt[y]>>)
        BY <2>1, <2>3, <2>5, <2>9, <2>10, RowsMove DEF ind
    <2>11. PlaceOf(list, <<v, cha.addrPt[v] + k>>) - PlaceOf(list, <<v, cha.addrPt[v]>>) =
           PlaceOf(list, <<u, cha.addrPt[u] + k>>) - PlaceOf(list, <<u, cha.addrPt[u]>>)
        BY <2>4, <2>7, <2>8, <2>10
    <2>12. QED
        BY <2>2, <2>9, <2>11 DEF Distance, r
<1>3. QED
    BY <1>1, <1>2

\* Between the vtables that a call may see every vtable has the slot of its method.
SitesTogether ==
    \A s \in callSites : \A u, v \in Reach(<<s.className, 0>>) :
        isDefined(u) /\ isDefined(v) => RowBetween(u, v, s.offset)

\* Where no vtable is listed before one that it derives from, this is so.
LEMMA ParentsFirstSuffices ==
    ASSUME Queries, FromInput, ParentsFirst
    PROVE  SitesTogether
<1> SUFFICES ASSUME NEW s \in callSites, NEW u \in Reach(<<s.className, 0>>), NEW v \in Reach(<<s.className, 0>>)
             PROVE  RowBetween(u, v, s.offset)
    BY DEF SitesTogether
<1> DEFINE c == <<s.className, 0>>
           k == s.offset
           r == cha.ancestor[c]
           pre == Cloud(r)
           ind == IndexMap(pre)
<1>1. c \in vtables /\ cha.addrPt[c] + k \in start(c)..end(c) /\ k \in Int
    BY SiteFacts
<1>2. cha.ancestor[u] = r /\ cha.ancestor[v] = r
    BY <1>1, CloudFacts
<1>3. IsPreorder(<<r, 0>>, pre) /\ \A x \in Reach(c) : x \in Range(pre)
    BY <1>1, CloudFacts
<1>4. \A x \in Range(pre) : ind[x] \in Nat
    <2>1. Len(pre) \in Nat
        BY <1>3 DEF IsPreorder
    <2>2. QED
        BY <1>3, <2>1, IndexMapFacts
<1>5. c \in Reach(c)
    BY <1>1, ReachFacts
<1> HIDE DEF c, k
<1>6. \A x \in Reach(c) : \A w \in Range(pre) :
         ind[c] <= ind[x] /\ (ind[c] <= ind[w] /\ ind[w] <= ind[x] => w \in Reach(c))
    BY <1>1, BelowIsTogether
<1> HIDE DEF pre, ind, r
<1>7. ASSUME NEW w \in Defined(pre), ind[u] <= ind[w], ind[w] <= ind[v] PROVE cha.addrPt[w] + k \in start(w)..end(w)
    <2>1. w \in Range(pre) /\ u \in Reach(c) /\ v \in Reach(c)
        BY DEF Defined, c
    <2>2. ind[c] <= ind[u] /\ ind[c] \in Nat /\ ind[u] \in Nat /\ ind[w] \in Nat
        BY <1>3, <1>4, <1>5, <1>6, <2>1
    <2>3. ind[c] <= ind[w]
        BY <1>7, <2>2
    <2>4. w \in Reach(c)
        BY <1>6, <1>7, <2>1, <2>3
    <2>5. QED
        BY <1>1, <2>4, RowsBelow
<1>8. QED
    BY <1>2, <1>7 DEF RowBetween, pre, ind, k

\* An undefined vtable is stood for by one below it, if any has been defined.
LEMMA RepresentativeFacts ==
    ASSUME Queries, NEW c \in vtables, NEW v \in Reach(c), isDefined(v)
    PROVE  Representative(c) \in Reach(c) /\ isDefined(Representative(c))
<1> DEFINE pre == preorder(c)
           defined == {i \in 2..Len(pre) : isDefined(pre[i])}
<1>1. IsPreorder(c, pre) /\ c \in Reach(c)
    BY PreorderFacts, ReachFacts
<1>2. Representative(c) = IF isDefined(c) \/ defined = {} THEN c ELSE pre[Min(defined)]
    BY DEF Representative
<1>3. pre \in Seq(vtables) /\ pre[1] = c /\ Range(pre) = Reach(c)
    BY <1>1 DEF IsPreorder
<1> HIDE DEF pre
<1>4. DOMAIN pre = 1..Len(pre) /\ Len(pre) \in Nat
    BY <1>3
<1>5. \A i \in DOMAIN pre : pre[i] \in Reach(c)
    BY <1>3 DEF Range
<1>6. CASE isDefined(c)
    BY <1>1, <1>2, <1>6
<1>7. CASE ~isDefined(c)
    <2>1. PICK i \in DOMAIN pre : pre[i] = v
        BY <1>3 DEF Range
    <2>2. i \in defined
        BY <1>3, <1>4, <1>7, <2>1
    <2>3. defined \subseteq Nat /\ \A j \in defined : j \in DOMAIN pre /\ isDefined(pre[j])
        BY <1>4
    <2> HIDE DEF defined
    <2>4. Min(defined) \in defined
        BY <2>2, <2>3, LeastOf
    <2>5. QED
        BY <1>2, <1>5, <1>7, <2>2, <2>3, <2>4
<1>8. QED
    BY <1>6, <1>7

\* Where the slot at some distance from the address point has gone.
LEMMA NewIndexOf ==
    ASSUME ChecksInv, Built, NEW v \in vtables, isDefined(v), NEW k \in Int, cha.addrPt[v] + k \in start(v)..end(v)
    PROVE  /\ v \in DOMAIN newLayoutInds
           /\ newLayoutInds[v][relAddrPt(v) + k + 1] = PlaceOf(interleavingMap[cha.ancestor[v]], <<v, cha.addrPt[v] + k>>) - 1
<1>1. Queries /\ Built /\ LayoutsDone
    BY BuiltFacts
<1>2. v \in DOMAIN newLayoutInds /\ newLayoutInds[v] = IndsOf(interleavingMap[cha.ancestor[v]], v)
    BY <1>1, CloudFacts DEF LayoutsDone, Built
<1>3. start(v) \in Nat /\ cha.addrPt[v] \in Nat /\ end(v) \in Nat
    BY <1>1, ShapeFacts
<1>4. relAddrPt(v) + k + 1 \in 1..(end(v) - start(v) + 1) /\ start(v) + (relAddrPt(v) + k + 1) - 1 = cha.addrPt[v] + k
    BY <1>3 DEF relAddrPt
<1>5. QED
    BY <1>2, <1>4 DEF IndsOf

\* Where a defined vtable has a slot.
LEMMA PlacesAreInts ==
    ASSUME ChecksInv, Built, NEW w \in vtables, isDefined(w), NEW n \in start(w)..end(w)
    PROVE  LET list == interleavingMap[cha.ancestor[w]]
           IN  /\ PlaceOf(list, <<w, n>>) \in Nat /\ PlaceOf(list, <<w, n>>) \in DOMAIN list
               /\ list[PlaceOf(list, <<w, n>>)] = <<w, n>> /\ <<w, n>> # Dummy
<1> DEFINE q == cha.ancestor[w]
           list == interleavingMap[q]
<1>1. Queries /\ RangesInv /\ LayoutsDone
    BY BuiltFacts
<1>2. q \in cha.roots /\ IsPreorder(<<q, 0>>, Cloud(q)) /\ <<q, 0>> \in vtables /\ w \in Defined(Cloud(q))
    BY <1>1, CloudFacts DEF Defined
<1>3. IsLayout(Cloud(q), list)
    <2>1. laidOut = cha.roots
        BY DEF Built
    <2>2. QED
        BY <1>1, <1>2, <2>1, LaidOutRoots DEF InLayout
<1>4. <<w, n>> \in AllSlots(Cloud(q))
    BY <1>1, <1>2, SlotFacts
<1>5. <<w, n>> # Dummy
    BY <1>1, <1>2, <1>4, DummyIsNoSlot
<1> HIDE DEF list, q
<1>6. PlaceOf(list, <<w, n>>) \in DOMAIN list /\ list[PlaceOf(list, <<w, n>>)] = <<w, n>>
    BY <1>3, <1>4, PlaceFacts
<1>7. PlaceOf(list, <<w, n>>) \in Nat
    BY <1>3, <1>6, PlaceFacts
<1>8. QED
    BY <1>5, <1>6, <1>7 DEF list, q

\* The new distance is that in the vtable which stands for the one asked about.
LEMMA TranslationIs ==
    ASSUME ChecksInv, Built, NEW c, NEW w \in vtables, w = Representative(c), isDefined(w),
           NEW k \in Int, cha.addrPt[w] + k \in start(w)..end(w)
    PROVE  translateVtblInd(c, k) = Distance(w, k)
<1> DEFINE list == interleavingMap[cha.ancestor[w]]
<1>1. Queries
    BY BuiltFacts
<1>2. /\ w \in DOMAIN newLayoutInds
      /\ newLayoutInds[w][relAddrPt(w) + k + 1] = PlaceOf(list, <<w, cha.addrPt[w] + k>>) - 1
    BY NewIndexOf
<1>3. start(w) \in Nat /\ cha.addrPt[w] \in Nat /\ end(w) \in Nat /\ start(w) <= cha.addrPt[w] /\ cha.addrPt[w] <= end(w)
    BY <1>1, ShapeFacts
<1>4. cha.addrPt[w] + 0 = cha.addrPt[w] /\ cha.addrPt[w] + 0 \in start(w)..end(w)
    BY <1>3
<1>5. newLayoutInds[w][relAddrPt(w) + 0 + 1] = PlaceOf(list, <<w, cha.addrPt[w] + 0>>) - 1
    BY <1>4, NewIndexOf
<1>6. relAddrPt(w) + 0 + 1 = relAddrPt(w) + 1
    BY <1>3 DEF relAddrPt
<1>7. translateVtblInd(c, k) = (PlaceOf(list, <<w, cha.addrPt[w] + k>>) - 1) - (PlaceOf(list, <<w, cha.addrPt[w]>>) - 1)
    BY <1>2, <1>4, <1>5, <1>6 DEF translateVtblInd
<1>8. \A p \in {k, 0} : PlaceOf(list, <<w, cha.addrPt[w] + p>>) \in Int
    BY <1>4, PlacesAreInts
<1>9. PICK wk, w0 : wk = PlaceOf(list, <<w, cha.addrPt[w] + k>>) /\ w0 = PlaceOf(list, <<w, cha.addrPt[w]>>)
    OBVIOUS
<1>10. wk \in Int /\ w0 \in Int
    BY <1>4, <1>8, <1>9
<1>11. (wk - 1) - (w0 - 1) = wk - w0
    BY <1>10
<1>12. QED
    BY <1>7, <1>9, <1>11 DEF Distance

\* The slot at distance k is n behind the vptr.
HasSlotAt(v, n, k) ==
    LET at == vptrs[v][2] + n
        array == newVTables[vptrs[v][1]]
    IN  at + 1 \in DOMAIN array /\ array[at + 1].of = <<v, cha.addrPt[v] + k>>

\* A slot is where the distance from the address point says.
LEMMA SlotIsRead ==
    ASSUME ChecksInv, Built, NEW v \in DOMAIN vptrs, NEW k \in Int, cha.addrPt[v] + k \in start(v)..end(v)
    PROVE  HasSlotAt(v, Distance(v, k), k)
<1> DEFINE r == cha.ancestor[v]
           list == interleavingMap[r]
<1>1. Queries /\ RangesInv /\ LayoutsDone /\ EmitsDone
    BY BuiltFacts
<1>2. laidOut = cha.roots /\ emitted = cha.roots
    BY DEF Built
<1>3. v \in vtables /\ isDefined(v) /\ r \in cha.roots /\ vptrs[v] = <<r, PlaceOf(list, <<v, cha.addrPt[v]>>) - 1>>
    BY AddressPoints
<1>4. start(v) \in Nat /\ cha.addrPt[v] \in Nat /\ end(v) \in Nat /\ start(v) <= cha.addrPt[v] /\ cha.addrPt[v] <= end(v)
    BY <1>1, <1>3, ShapeFacts
<1>5. cha.addrPt[v] \in start(v)..end(v) /\ ~(cha.addrPt[v] + k < start(v))
    BY <1>4
<1>6. PICK vk, v0 : vk = PlaceOf(list, <<v, cha.addrPt[v] + k>>) /\ v0 = PlaceOf(list, <<v, cha.addrPt[v]>>)
    OBVIOUS
<1>7. vk \in Nat /\ vk \in DOMAIN list /\ list[vk] = <<v, cha.addrPt[v] + k>> /\ v0 \in Nat
      /\ <<v, cha.addrPt[v] + k>> # Dummy
    BY <1>3, <1>5, <1>6, PlacesAreInts
<1>8. Distance(v, k) = vk - v0
    BY <1>6 DEF Distance
<1> HIDE DEF list, r
<1>9. newVTables[r] = [i \in DOMAIN list |-> Content(list[i])]
    BY <1>1, <1>2, <1>3, EmittedLists DEF list
<1>10. Content(<<v, cha.addrPt[v] + k>>).of = <<v, cha.addrPt[v] + k>>
    BY <1>3, <1>5, <1>7 DEF Content
<1>11. vptrs[v][1] = r /\ vptrs[v][2] = v0 - 1
    BY <1>3, <1>6
<1>12. vptrs[v][2] + Distance(v, k) + 1 = vk
    BY <1>7, <1>8, <1>11
<1>13. QED
    BY <1>7, <1>9, <1>10, <1>11, <1>12 DEF HasSlotAt

\* In a state of the invariant, calls find their slots in order, and interleaved
\* where SitesTogether.
LEMMA SlotsKept ==
    ASSUME ChecksInv, ~interleave \/ SitesTogether
    PROVE  CallsKeepTheirSlots
<1> SUFFICES ASSUME Linked, NEW s \in callSites, NEW v \in Targets(s)
             PROVE  LET at == vptrs[v][2] + vtblIndex[s]
                        array == newVTables[vptrs[v][1]]
                    IN  /\ at + 1 \in DOMAIN array
                        /\ array[at + 1].of = <<v, cha.addrPt[v] + s.offset>>
    BY DEF CallsKeepTheirSlots
<1> DEFINE c == <<s.className, 0>>
           k == s.offset
           r == cha.ancestor[c]
           w == Representative(c)
<1>1. Queries /\ FromInput /\ Built /\ RangesInv /\ LayoutsDone /\ EmitsDone /\ vtblIndex[s] = translateVtblInd(c, k)
    BY LinkedFacts
<1>2. c \in vtables /\ cha.addrPt[c] + k \in start(c)..end(c) /\ k \in Int
    BY <1>1, SiteFacts
<1>3. v \in DOMAIN vptrs /\ v \in Reach(c)
    BY <1>1, TargetsAreChecked
<1>4. v \in vtables /\ isDefined(v) /\ cha.ancestor[v] = r /\ r \in cha.roots
    BY <1>1, <1>2, <1>3, LinkedFacts, AddressPoints, CloudFacts
<1>5. w \in Reach(c) /\ isDefined(w) /\ w \in vtables /\ cha.ancestor[w] = r
    <2>1. w \in Reach(c) /\ isDefined(w)
        BY <1>1, <1>2, <1>3, <1>4, RepresentativeFacts
    <2>2. QED
        BY <1>1, <1>2, <2>1, CloudFacts
<1>6. \A x \in {v, w} : /\ cha.addrPt[x] + k \in start(x)..end(x) /\ cha.addrPt[x] \in start(x)..end(x)
                        /\ cha.addrPt[x] + 0 = cha.addrPt[x]
    BY <1>1, <1>2, <1>3, <1>5, RowsBelow
<1>7. Distance(v, k) = Distance(w, k)
    <2>1. ~interleave \/ (RowBetween(v, w, k) /\ RowBetween(w, v, k))
        BY <1>3, <1>4, <1>5 DEF SitesTogether
    <2>2. QED
        BY <1>1, <1>2, <1>4, <1>5, <1>6, <2>1, TogetherDistance
<1>8. vtblIndex[s] = Distance(w, k)
    BY <1>1, <1>2, <1>5, <1>6, TranslationIs
<1>9. HasSlotAt(v, Distance(v, k), k)
    BY <1>1, <1>2, <1>3, <1>6, SlotIsRead
<1>10. QED
    BY <1>7, <1>8, <1>9 DEF HasSlotAt

\* In clouds that are put in order, and in interleaved ones where the vtables that
\* a call may see have the slot of its method together, as they have where no
\* vtable is listed before one that it derives from, the call reads the function
\* that it read in the old vtable.
THEOREM CallsKeepTheirSlotsHolds ==
    ChecksSpec => [](~interleave \/ ParentsFirst \/ SitesTogether => CallsKeepTheirSlots)
<1>1. ChecksInv /\ ParentsFirst => SitesTogether
    BY BuiltFacts, ParentsFirstSuffices
<1>2. ChecksInv => (~interleave \/ ParentsFirst \/ SitesTogether => CallsKeepTheirSlots)
    BY <1>1, SlotsKept
<1>3. QED
    BY <1>2, ChecksInvHolds, PTL

-----------------------------------------------------------------------------
(* Thunks.                                                                 *)

ReadThunks == Queries /\ ThunksFit(cha)

ThunkKey(v, t) == <<t.name, cha.layoutClass[v]>>

\* The thunks that createThunkFunctions meets in a cloud, and their order.
Met(pre) ==
    LET old == {p \in (DOMAIN pre) \X vtables : isDefined(p[2]) /\ p[2][1] = pre[p[1]][1]}
    IN  UNION {{<<p[1], p[2], t>> : t \in cha.thunks[p[2]]} : p \in old}
MetBefore(m, n) == \/ m[1] < n[1]
                   \/ m[1] = n[1] /\ m[2][2] < n[2][2]
                   \/ m[1] = n[1] /\ m[2] = n[2] /\ m[3].slot < n[3].slot

\* Some thunk is met first.
LEMMA SomeIsFirst ==
    ASSUME NEW M, M # {}, \A m \in M : m[1] \in Nat /\ m[2][2] \in Nat /\ m[3].slot \in Nat
    PROVE  \E m \in M : \A n \in M : ~MetBefore(n, m)
<1>1. PICK a \in M : \A n \in M : a[1] <= n[1]
    <2> DEFINE D == {m[1] : m \in M}
    <2>1. D \subseteq Nat /\ D # {}
        OBVIOUS
    <2> HIDE DEF D
    <2>2. PICK i \in D : \A j \in D : i <= j
        BY <2>1, Least
    <2>3. QED
        BY <2>2 DEF D
<1> DEFINE A == {m \in M : m[1] = a[1]}
<1>2. PICK b \in A : \A n \in A : b[2][2] <= n[2][2]
    <2> DEFINE D == {m[2][2] : m \in A}
    <2>1. D \subseteq Nat /\ D # {}
        OBVIOUS
    <2> HIDE DEF D
    <2>2. PICK i \in D : \A j \in D : i <= j
        BY <2>1, Least
    <2>3. QED
        BY <2>2 DEF D
<1> DEFINE B == {m \in A : m[2] = b[2]}
<1>3. PICK c \in B : \A n \in B : c[3].slot <= n[3].slot
    <2> DEFINE D == {m[3].slot : m \in B}
    <2>1. D \subseteq Nat /\ D # {}
        OBVIOUS
    <2> HIDE DEF D
    <2>2. PICK i \in D : \A j \in D : i <= j
        BY <2>1, Least
    <2>3. QED
        BY <2>2 DEF D
<1>4. c \in M /\ c[1] = a[1] /\ c[2] = b[2]
    OBVIOUS
<1>5. ASSUME NEW n \in M PROVE ~MetBefore(n, c)
    <2>1. ~(n[1] < c[1])
        BY <1>1, <1>4
    <2>2. n[1] = c[1] => ~(n[2][2] < c[2][2])
        BY <1>2, <1>4
    <2>3. n[1] = c[1] /\ n[2] = c[2] => ~(n[3].slot < c[3].slot)
        BY <1>3, <1>4
    <2>4. QED
        BY <2>1, <2>2, <2>3 DEF MetBefore
<1>6. QED
    BY <1>4, <1>5

\* A clone has the index of some thunk of its name, in a vtable of its layout
\* class; and every thunk of a defined vtable is cloned.
LEMMA ClonesFacts ==
    ASSUME ReadThunks, NEW root \in vtables, NEW pre, IsPreorder(root, pre)
    PROVE  /\ \A key \in DOMAIN Clones(pre) : \E u \in vtables : \E t \in cha.thunks[u] :
                 isDefined(u) /\ key = ThunkKey(u, t) /\ Clones(pre)[key] = translateVtblInd(u, t.vcall)
           /\ \A v \in Defined(pre) : \A t \in cha.thunks[v] : ThunkKey(v, t) \in DOMAIN Clones(pre)
<1> DEFINE met == Met(pre)
           Key(m) == ThunkKey(m[2], m[3])
           Firsts(key) == CHOOSE m \in met : Key(m) = key /\ \A n \in met : Key(n) = key => ~MetBefore(n, m)
<1>1. Clones(pre) = [key \in {Key(m) : m \in met} |-> translateVtblInd(Firsts(key)[2], Firsts(key)[3].vcall)]
    BY DEF Clones, Met, MetBefore, ThunkKey
<1>2. Queries /\ ThunksFit(cha)
    BY DEF ReadThunks
<1>3. DOMAIN pre \subseteq Nat /\ Range(pre) \subseteq vtables
    <2>1. pre \in Seq(vtables)
        BY DEF IsPreorder
    <2>2. QED
        BY <2>1 DEF Range
<1>4. ASSUME NEW m \in met
      PROVE  /\ m[1] \in Nat /\ m[2] \in vtables /\ isDefined(m[2]) /\ m[3] \in cha.thunks[m[2]]
             /\ m[2][2] \in Nat /\ m[3].slot \in Nat
    <2>1. PICK p \in (DOMAIN pre) \X vtables : isDefined(p[2]) /\ \E t \in cha.thunks[p[2]] : m = <<p[1], p[2], t>>
        BY DEF Met
    <2>2. PICK t \in cha.thunks[p[2]] : m = <<p[1], p[2], t>>
        BY <2>1
    <2>3. m[1] = p[1] /\ m[2] = p[2] /\ m[3] = t /\ p[1] \in DOMAIN pre /\ p[2] \in vtables
        BY <2>2
    <2>4. m[2][2] \in Nat
        BY <1>2, <2>3, VtableFacts
    <2>5. m[3].slot \in Nat
        BY <1>2, <2>2, <2>3 DEF ThunksFit, vtables
    <2>6. QED
        BY <1>3, <2>1, <2>2, <2>3, <2>4, <2>5
<1>5. ASSUME NEW v \in Defined(pre), NEW t \in cha.thunks[v] PROVE \E m \in met : Key(m) = ThunkKey(v, t)
    <2>1. PICK i \in DOMAIN pre : pre[i] = v
        BY DEF Defined, Range
    <2>2. v \in vtables /\ isDefined(v)
        BY <1>3 DEF Defined
    <2>3. <<i, v>> \in {p \in (DOMAIN pre) \X vtables : isDefined(p[2]) /\ p[2][1] = pre[p[1]][1]}
        BY <2>1, <2>2
    <2>4. <<i, v, t>> \in met
        BY <2>3 DEF Met
    <2>5. QED
        BY <2>4
<1>6. ASSUME NEW key, NEW m \in met, Key(m) = key
      PROVE  Firsts(key) \in met /\ Key(Firsts(key)) = key
    <2> DEFINE M == {n \in met : Key(n) = key}
    <2>1. M # {} /\ \A n \in M : n[1] \in Nat /\ n[2][2] \in Nat /\ n[3].slot \in Nat
        BY <1>4, <1>6
    <2> HIDE DEF met
    <2>2. \E n \in M : \A o \in M : ~MetBefore(o, n)
        <3> HIDE DEF M
        <3>1. QED
            BY <2>1, SomeIsFirst
    <2>3. \E n \in met : Key(n) = key /\ \A o \in met : Key(o) = key => ~MetBefore(o, n)
        BY <2>2
    <2> HIDE DEF M
    <2>4. QED
        BY <2>3
<1> HIDE DEF met, Firsts
<1>7. ASSUME NEW key \in DOMAIN Clones(pre)
      PROVE  \E u \in vtables : \E t \in cha.thunks[u] :
                 isDefined(u) /\ key = ThunkKey(u, t) /\ Clones(pre)[key] = translateVtblInd(u, t.vcall)
    <2>1. PICK m \in met : Key(m) = key
        BY <1>1, <1>7
    <2>2. Firsts(key) \in met /\ Key(Firsts(key)) = key
        BY <1>6, <2>1
    <2>3. Clones(pre)[key] = translateVtblInd(Firsts(key)[2], Firsts(key)[3].vcall)
        BY <1>1, <1>7
    <2>4. PICK f : f = Firsts(key)
        OBVIOUS
    <2>5. f[2] \in vtables /\ isDefined(f[2]) /\ f[3] \in cha.thunks[f[2]]
        BY <1>4, <2>2, <2>4
    <2>6. key = ThunkKey(f[2], f[3]) /\ Clones(pre)[key] = translateVtblInd(f[2], f[3].vcall)
        BY <2>2, <2>3, <2>4
    <2>7. QED
        BY <2>5, <2>6
<1>8. \A v \in Defined(pre) : \A t \in cha.thunks[v] : ThunkKey(v, t) \in DOMAIN Clones(pre)
    BY <1>1, <1>5
<1>9. QED
    BY <1>7, <1>8

\* The clones that have been made.
ThunksDone ==
    /\ emitted = {} => vthunks = NoMap
    /\ \A v \in DOMAIN vptrs : \A t \in cha.thunks[v] : ThunkKey(v, t) \in DOMAIN vthunks
    /\ \A key \in DOMAIN vthunks : \E u \in vtables : \E t \in cha.thunks[u] :
          isDefined(u) /\ key = ThunkKey(u, t) /\ vthunks[key] = translateVtblInd(u, t.vcall)

\* What the pass reads satisfies the assumption on thunks.
LEMMA ThunksRead ==
    ASSUME FromInput
    PROVE  ReadThunks
BY ReadIsWellFormed, ThunksAssumption DEF FromInput, ReadThunks

\* There are no clones at first.
LEMMA ThunksInit == ChecksInit => ThunksDone
BY DEF ChecksInit, InitFrom, ThunksDone, NoMap

\* What has been translated stays so once the layouts are done.
LEMMA ThunksKept ==
    ASSUME ChecksInv, ThunksDone, cha' = cha, UNCHANGED <<emitted, vthunks, vptrs>>,
           emitted # {} => newLayoutInds' = newLayoutInds
    PROVE  ThunksDone'
<1>1. CASE emitted = {}
    <2>1. DOMAIN vthunks = {}
        BY <1>1 DEF ThunksDone, NoMap
    <2>2. DOMAIN vptrs = {}
        BY <1>1, BuiltFacts DEF EmitsDone
    <2>3. QED
        BY <1>1, <2>1, <2>2 DEF ThunksDone, NoMap
<1>2. CASE emitted # {}
    <2>1. newLayoutInds' = newLayoutInds
        BY <1>2
    <2>2. \A u, n : translateVtblInd(u, n)' = translateVtblInd(u, n)
        BY <2>1, SameTranslation
    <2>3. vtables' = vtables /\ \A u : isDefined(u)' = isDefined(u) /\ \A t : ThunkKey(u, t)' = ThunkKey(u, t)
        BY DEF vtables, isDefined, ThunkKey
    <2>4. QED
        BY <1>2, <2>2, <2>3 DEF ThunksDone
<1>3. QED
    BY <1>1, <1>2

\* The second loop clones the thunks of a cloud as ThunksDone says.
LEMMA ThunksAdded ==
    ASSUME ChecksInv, ThunksDone, NEW root \in cha.roots, Emit(root)
    PROVE  ThunksDone'
<1> DEFINE pre == Cloud(root)
           clones == Clones(pre)
<1>1. Queries /\ FromInput /\ ReadThunks
    BY BuiltFacts, ThunksRead
<1>2. <<root, 0>> \in vtables /\ IsPreorder(<<root, 0>>, pre)
    BY <1>1, CloudFacts
<1>3. /\ emitted' # {} /\ cha' = cha /\ newLayoutInds' = newLayoutInds
      /\ vthunks' = Extend(vthunks, clones)
      /\ DOMAIN vptrs' = DOMAIN vptrs \cup Defined(pre)
    BY DEF Emit, IsNext, inputVars, layoutVars, Cloud, Extend
<1>4. /\ \A key \in DOMAIN clones : \E u \in vtables : \E t \in cha.thunks[u] :
            isDefined(u) /\ key = ThunkKey(u, t) /\ clones[key] = translateVtblInd(u, t.vcall)
      /\ \A v \in Defined(pre) : \A t \in cha.thunks[v] : ThunkKey(v, t) \in DOMAIN clones
    BY <1>1, <1>2, ClonesFacts
<1> HIDE DEF clones, pre
<1>5. /\ DOMAIN vthunks' = DOMAIN vthunks \cup DOMAIN clones
      /\ \A key \in DOMAIN vthunks : vthunks'[key] = vthunks[key]
      /\ \A key \in DOMAIN vthunks' : key \notin DOMAIN vthunks => vthunks'[key] = clones[key]
    BY <1>3 DEF Extend
<1>6. \A u, n : translateVtblInd(u, n)' = translateVtblInd(u, n)
    BY <1>3, SameTranslation
<1>7. vtables' = vtables /\ \A u : isDefined(u)' = isDefined(u) /\ \A t : ThunkKey(u, t)' = ThunkKey(u, t)
    BY <1>3 DEF vtables, isDefined, ThunkKey
<1>8. \A v \in DOMAIN vptrs' : \A t \in cha.thunks[v] : ThunkKey(v, t) \in DOMAIN vthunks'
    BY <1>3, <1>4, <1>5 DEF ThunksDone
<1>9. \A key \in DOMAIN vthunks' : \E u \in vtables : \E t \in cha.thunks[u] :
          isDefined(u) /\ key = ThunkKey(u, t) /\ vthunks'[key] = translateVtblInd(u, t.vcall)
    <2> TAKE key \in DOMAIN vthunks'
    <2>1. CASE key \in DOMAIN vthunks
        BY <1>5, <2>1 DEF ThunksDone
    <2>2. CASE key \notin DOMAIN vthunks
        BY <1>4, <1>5, <2>2
    <2>3. QED
        BY <2>1, <2>2
<1>10. QED
    BY <1>3, <1>6, <1>7, <1>8, <1>9 DEF ThunksDone

\* Every step keeps ThunksDone.
LEMMA ThunksStep == ChecksInv /\ ThunksDone /\ [ChecksNext]_ChecksVars => ThunksDone'
<1> SUFFICES ASSUME ChecksInv, ThunksDone, [ChecksNext]_ChecksVars PROVE ThunksDone'
    OBVIOUS
<1>1. emitted # {} => laidOut = cha.roots
    BY DEF ChecksInv, LayoutsInv, RangesInv, Loops
<1>2. ASSUME NEW root \in cha.roots, Layout(root) PROVE ThunksDone'
    <2>1. root \notin laidOut /\ cha' = cha /\ UNCHANGED <<emitted, vthunks, vptrs>>
        BY <1>2 DEF Layout, IsNext, inputVars, emitVars
    <2>2. QED
        BY <1>1, <2>1, ThunksKept
<1>3. ASSUME NEW root \in cha.roots, Emit(root) PROVE ThunksDone'
    BY <1>3, ThunksAdded
<1>4. ASSUME NEW root \in cha.roots, calculateVPtrRanges(root) PROVE ThunksDone'
    <2>1. cha' = cha /\ UNCHANGED <<emitted, vthunks, vptrs, newLayoutInds>>
        BY <1>4 DEF calculateVPtrRanges, inputVars, emitVars, layoutVars
    <2>2. QED
        BY <2>1, ThunksKept
<1>5. CASE verifyNewLayouts
    <2>1. cha' = cha /\ UNCHANGED <<emitted, vthunks, vptrs, newLayoutInds>>
        BY <1>5 DEF verifyNewLayouts, inputVars, emitVars, layoutVars
    <2>2. QED
        BY <2>1, ThunksKept
<1>6. ASSUME UNCHANGED vars PROVE ThunksDone'
    <2>1. cha' = cha /\ UNCHANGED <<emitted, vthunks, vptrs, newLayoutInds>>
        BY <1>6 DEF vars, inputVars, emitVars, layoutVars
    <2>2. QED
        BY <2>1, ThunksKept
<1>7. CASE handleSDGetVtblIndex \/ handleSDGetCheckedVtbl \/ Link \/ ChecksDone \/ UNCHANGED ChecksVars
    <2>1. UNCHANGED vars
        BY <1>7 DEF handleSDGetVtblIndex, handleSDGetCheckedVtbl, Link, ChecksDone, ChecksVars
    <2>2. QED
        BY <1>6, <2>1
<1>8. QED
    BY <1>2, <1>3, <1>4, <1>5, <1>7 DEF ChecksNext, LayoutNext

\* Between vtables that share the clone of a thunk every vtable has the slot that
\* the thunk reads.
ThunksTogether ==
    \A u, v \in vtables : \A t \in cha.thunks[u] : \A s \in cha.thunks[v] :
        isDefined(u) /\ isDefined(v) /\ ThunkKey(u, t) = ThunkKey(v, s) =>
            cha.ancestor[u] = cha.ancestor[v] /\ RowBetween(u, v, t.vcall)

\* These have it equally far from their address points.
LEMMA ThunksSameDistance ==
    ASSUME ChecksInv, Built, ReadThunks, ~interleave \/ ThunksTogether,
           NEW u \in vtables, NEW v \in vtables, isDefined(u), isDefined(v),
           NEW t \in cha.thunks[u], NEW s \in cha.thunks[v], ThunkKey(u, t) = ThunkKey(v, s),
           NEW k \in Int, k = t.vcall, k = s.vcall,
           cha.addrPt[u] + k \in start(u)..end(u), cha.addrPt[v] + k \in start(v)..end(v)
    PROVE  Distance(u, k) = Distance(v, k)
<1>1. ~interleave \/ (cha.ancestor[u] = cha.ancestor[v] /\ RowBetween(u, v, k) /\ RowBetween(v, u, k))
    BY DEF ThunksTogether
<1>2. QED
    BY <1>1, TogetherDistance

\* In a state of both invariants, clones read the offsets they should, in order,
\* and interleaved where ThunksTogether.
LEMMA OffsetsKept ==
    ASSUME ChecksInv, ThunksDone, ~interleave \/ ThunksTogether
    PROVE  ThunksKeepTheirOffsets
<1> SUFFICES ASSUME Built, NEW v \in DOMAIN vptrs, NEW t \in cha.thunks[v]
             PROVE  LET key == <<t.name, cha.layoutClass[v]>>
                        array == newVTables[vptrs[v][1]]
                        at == vptrs[v][2] + vthunks[key]
                    IN  /\ key \in DOMAIN vthunks
                        /\ at + 1 \in DOMAIN array
                        /\ array[at + 1].of = <<v, cha.addrPt[v] + t.vcall>>
    BY DEF ThunksKeepTheirOffsets
<1>1. Queries /\ FromInput /\ ReadThunks
    BY BuiltFacts, ThunksRead
<1>2. ThunkKey(v, t) \in DOMAIN vthunks
    BY DEF ThunksDone
<1>3. PICK u \in vtables : \E s \in cha.thunks[u] :
         isDefined(u) /\ ThunkKey(v, t) = ThunkKey(u, s) /\ vthunks[ThunkKey(v, t)] = translateVtblInd(u, s.vcall)
    BY <1>2 DEF ThunksDone
<1>4. PICK s \in cha.thunks[u] :
         isDefined(u) /\ ThunkKey(v, t) = ThunkKey(u, s) /\ vthunks[ThunkKey(v, t)] = translateVtblInd(u, s.vcall)
    BY <1>3
<1>5. v \in vtables /\ isDefined(v)
    BY AddressPoints
<1>6. PICK k : k = t.vcall
    OBVIOUS
<1>7. /\ k = s.vcall /\ k \in Int
      /\ cha.addrPt[v] + k \in start(v)..end(v) /\ cha.addrPt[u] + k \in start(u)..end(u)
    <2>1. t.name = s.name
        BY <1>4 DEF ThunkKey
    <2>2. QED
        BY <1>1, <1>4, <1>5, <1>6, <2>1 DEF ReadThunks, ThunksFit, vtables, start, end
<1>8. ThunkKey(u, s) = ThunkKey(v, t) /\ isDefined(u) /\ u = Representative(u)
    BY <1>4 DEF Representative
<1>9. Distance(u, k) = Distance(v, k)
    BY <1>1, <1>5, <1>6, <1>7, <1>8, ThunksSameDistance
<1>10. vthunks[ThunkKey(v, t)] = Distance(u, k)
    BY <1>4, <1>7, <1>8, TranslationIs
<1>11. HasSlotAt(v, Distance(v, k), k)
    BY <1>7, SlotIsRead
<1>12. QED
    BY <1>2, <1>6, <1>9, <1>10, <1>11 DEF ThunkKey, HasSlotAt

\* In clouds that are put in order, and in interleaved ones where the vtables
\* that share a clone have its slot together, a clone reads the vcall offset that
\* the thunk read.
THEOREM ThunksKeepTheirOffsetsHolds ==
    ChecksSpec => [](~interleave \/ ThunksTogether => ThunksKeepTheirOffsets)
<1>1. ChecksInit => ChecksInv /\ ThunksDone
    BY ChecksInvInit, ThunksInit
<1>2. ChecksInv /\ ThunksDone /\ [ChecksNext]_ChecksVars => (ChecksInv /\ ThunksDone)'
    BY ChecksStep, ThunksStep
<1>3. ChecksInv /\ ThunksDone => (~interleave \/ ThunksTogether => ThunksKeepTheirOffsets)
    BY OffsetsKept
<1>4. QED
    BY <1>1, <1>2, <1>3, PTL DEF ChecksSpec, ChecksVars
=============================================================================
