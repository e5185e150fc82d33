--------------------------- MODULE SequenceLemmas ---------------------------
(***************************************************************************)
(* Facts about sequences of any elements, about finite sets of positions,  *)
(* about recursive functions and about what is below a vtable in a graph,  *)
(* that proofs about the passes' lists and clouds need.                    *)
(***************************************************************************)
EXTENDS Naturals, Sequences, WellFoundedInduction, CloudGraph, TLAPS

\* s is a sequence, of whatever it holds.
Listed(s) == s \in Seq({s[k] : k \in DOMAIN s})

\* Appending to a sequence, whatever the new element is.
LEMMA ListedAppend ==
    ASSUME NEW s, Listed(s), NEW e
    PROVE  /\ Listed(Append(s, e))
           /\ Len(s) \in Nat /\ DOMAIN s = 1..Len(s)
           /\ Len(Append(s, e)) = Len(s) + 1
           /\ DOMAIN Append(s, e) = 1..(Len(s) + 1)
           /\ Append(s, e)[Len(s) + 1] = e
           /\ \A k \in DOMAIN s : Append(s, e)[k] = s[k]
<1> DEFINE S == {s[k] : k \in DOMAIN s}
           t == Append(s, e)
           T == {t[k] : k \in DOMAIN t}
           U == S \cup {e}
<1>1. s \in Seq(U) /\ e \in U
    <2>1. s \in Seq(S) /\ S \subseteq U
        BY DEF Listed
    <2> HIDE DEF S, U
    <2>2. s \in Seq(U)
        BY <2>1
    <2>3. QED
        BY <2>2 DEF U
<1> HIDE DEF S, U, T
<1>2. /\ t \in Seq(U) /\ Len(t) = Len(s) + 1 /\ t[Len(s) + 1] = e
      /\ \A k \in 1..Len(s) : t[k] = s[k]
    <2>1. t \in Seq(U)
        BY <1>1
    <2>2. Len(t) = Len(s) + 1
        BY <1>1
    <2>3. t[Len(s) + 1] = e
        BY <1>1
    <2>4. \A k \in 1..Len(s) : t[k] = s[k]
        BY <1>1
    <2>5. QED
        BY <2>1, <2>2, <2>3, <2>4
<1>3. Len(s) \in Nat /\ DOMAIN s = 1..Len(s)
    BY <1>1
<1> HIDE DEF t
<1>4. DOMAIN t = 1..Len(t) /\ Len(t) \in Nat /\ t = [k \in 1..Len(t) |-> t[k]]
    BY <1>2
<1>5. t \in Seq(T)
    <2>1. \A k \in 1..Len(t) : t[k] \in T
        BY <1>4 DEF T
    <2>2. t \in [1..Len(t) -> T]
        BY <1>4, <2>1
    <2>3. QED
        BY <1>4, <2>2
<1>6. QED
    BY <1>2, <1>3, <1>4, <1>5 DEF Listed, t, T

\* What is left of a sequence without its head.
LEMMA ListedTail ==
    ASSUME NEW s, Listed(s), s # <<>>
    PROVE  /\ Listed(Tail(s))
           /\ Len(s) \in Nat \ {0} /\ DOMAIN s = 1..Len(s)
           /\ Len(Tail(s)) = Len(s) - 1
           /\ DOMAIN Tail(s) = 1..(Len(s) - 1)
           /\ Head(s) = s[1]
           /\ \A k \in 1..(Len(s) - 1) : Tail(s)[k] = s[k + 1]
<1> DEFINE S == {s[k] : k \in DOMAIN s}
           t == Tail(s)
           T == {t[k] : k \in DOMAIN t}
<1>1. s \in Seq(S)
    BY DEF Listed
<1> HIDE DEF S, T
<1>2. Len(s) \in Nat \ {0} /\ DOMAIN s = 1..Len(s) /\ Head(s) = s[1]
    BY <1>1
<1>3. t \in Seq(S) /\ Len(t) = Len(s) - 1
    BY <1>1
<1>4. \A k \in 1..(Len(s) - 1) : t[k] = s[k + 1]
    BY <1>1
<1> HIDE DEF t
<1>5. DOMAIN t = 1..Len(t) /\ Len(t) \in Nat /\ t = [k \in 1..Len(t) |-> t[k]]
    BY <1>3
<1>6. t \in Seq(T)
    <2>1. \A k \in 1..Len(t) : t[k] \in T
        BY <1>5 DEF T
    <2>2. t \in [1..Len(t) -> T]
        BY <1>5, <2>1
    <2>3. QED
        BY <1>5, <2>2
<1>7. QED
    BY <1>2, <1>3, <1>4, <1>5, <1>6 DEF Listed, t, T

\* The elements of a sequence, and that they are all it needs.
LEMMA SeqListed ==
    ASSUME NEW S, NEW s \in Seq(S)
    PROVE  Listed(s) /\ \A k \in DOMAIN s : s[k] \in S
<1> DEFINE T == {s[k] : k \in DOMAIN s}
<1>1. Len(s) \in Nat /\ s \in [1..Len(s) -> S]
    OBVIOUS
<1>2. s \in [1..Len(s) -> T]
    BY <1>1
<1> HIDE DEF T
<1>3. s \in Seq(T)
    BY <1>1, <1>2
<1>4. QED
    BY <1>1, <1>3 DEF Listed, T

LEMMA EmptyListed == Listed(<<>>)
BY DEF Listed

LEMMA SeqWidens ==
    ASSUME NEW S, NEW T, S \subseteq T, NEW s \in Seq(S)
    PROVE  s \in Seq(T)
<1>1. Len(s) \in Nat /\ s \in [1..Len(s) -> S]
    OBVIOUS
<1>2. s \in [1..Len(s) -> T]
    BY <1>1
<1>3. QED
    BY <1>1, <1>2

LEMMA ShortSeqs ==
    ASSUME NEW S, NEW x \in S, NEW y \in S
    PROVE  /\ <<>> \in Seq(S) /\ Len(<<>>) = 0
           /\ <<x>> \in Seq(S) /\ Len(<<x>>) = 1 /\ <<x>>[1] = x
           /\ <<x, y>> \in Seq(S) /\ Len(<<x, y>>) = 2 /\ <<x, y>>[1] = x /\ <<x, y>>[2] = y
OBVIOUS

LEMMA Joined ==
    ASSUME NEW S, NEW s \in Seq(S), NEW t \in Seq(S)
    PROVE  /\ s \o t \in Seq(S) /\ Len(s \o t) = Len(s) + Len(t)
           /\ \A k \in 1..Len(s) : (s \o t)[k] = s[k]
           /\ \A k \in 1..Len(t) : (s \o t)[Len(s) + k] = t[k]
<1>1. Len(s) \in Nat /\ Len(t) \in Nat
    OBVIOUS
<1>2. /\ s \o t \in Seq(S) /\ Len(s \o t) = Len(s) + Len(t)
      /\ \A k \in 1..(Len(s) + Len(t)) :
            (s \o t)[k] = IF k <= Len(s) THEN s[k] ELSE t[k - Len(s)]
    OBVIOUS
<1>3. QED
    BY <1>1, <1>2

\* What stands between a head and a tail is found again.
LEMMA Middle ==
    ASSUME NEW S, NEW s \in Seq(S), NEW t \in Seq(S), NEW u \in Seq(S), NEW q, q = (s \o t) \o u
    PROVE  /\ q \in Seq(S) /\ Len(q) = Len(s) + Len(t) + Len(u)
           /\ \A k \in 1..Len(s) : q[k] = s[k]
           /\ \A k \in 1..Len(u) : q[Len(s) + Len(t) + k] = u[k]
           /\ SubSeq(q, Len(s) + 1, Len(s) + Len(t)) = t
<1>1. Len(s) \in Nat /\ Len(t) \in Nat /\ Len(u) \in Nat
    OBVIOUS
<1>2. PICK v : v = s \o t
    OBVIOUS
<1>3. /\ v \in Seq(S) /\ Len(v) = Len(s) + Len(t)
      /\ \A k \in 1..Len(s) : v[k] = s[k]
      /\ \A k \in 1..Len(t) : v[Len(s) + k] = t[k]
    BY <1>2, Joined
<1>4. /\ q \in Seq(S) /\ Len(q) = Len(v) + Len(u)
      /\ \A k \in 1..Len(v) : q[k] = v[k]
      /\ \A k \in 1..Len(u) : q[Len(v) + k] = u[k]
    BY <1>2, <1>3, Joined
<1>5. \A k \in 1..Len(t) : q[Len(s) + k] = t[k]
    BY <1>1, <1>3, <1>4
<1>6. PICK m : m = SubSeq(q, Len(s) + 1, Len(s) + Len(t))
    OBVIOUS
<1>7. m \in Seq(S) /\ Len(m) = Len(t) /\ \A k \in 1..Len(t) : m[k] = q[Len(s) + k]
    <2>1. DOMAIN q = 1..(Len(s) + Len(t) + Len(u)) /\ \A k \in DOMAIN q : q[k] \in S
        BY <1>1, <1>3, <1>4
    <2>2. /\ Len(m) = Len(t) /\ DOMAIN m = 1..Len(t)
          /\ \A k \in 1..Len(t) : m[k] = q[(Len(s) + 1) + k - 1]
        BY <1>1, <1>6, <2>1
    <2>3. \A k \in 1..Len(t) : m[k] = q[Len(s) + k]
        <3>1. \A k \in 1..Len(t) : (Len(s) + 1) + k - 1 = Len(s) + k
            BY <1>1
        <3>2. QED
            BY <2>2, <3>1, Zenon
    <2>4. m \in Seq(S)
        BY <1>1, <1>4, <1>6
    <2>5. QED
        BY <2>2, <2>3, <2>4
<1>8. m = t
    <2>1. m \in [1..Len(t) -> S] /\ t \in [1..Len(t) -> S]
        BY <1>7
    <2>2. \A k \in 1..Len(t) : m[k] = t[k]
        BY <1>5, <1>7
    <2>3. QED
        BY <2>1, <2>2
<1>9. QED
    BY <1>1, <1>3, <1>4, <1>6, <1>8

\* The first elements of a sequence.
LEMMA Prefix ==
    ASSUME NEW S, NEW s \in Seq(S), NEW n \in 0..Len(s)
    PROVE  /\ SubSeq(s, 1, n) \in Seq(S)
           /\ Len(SubSeq(s, 1, n)) = n
           /\ \A i \in 1..n : SubSeq(s, 1, n)[i] = s[i]
<1>1. /\ Len(SubSeq(s, 1, n)) = n
      /\ \A i \in 1..n : SubSeq(s, 1, n)[i] = s[i]
    OBVIOUS
<1>2. \A i \in 1..n : s[i] \in S
    OBVIOUS
<1>3. QED
    BY <1>1, <1>2

\* Building a sequence up from its elements.
LEMMA PrefixGrows ==
    ASSUME NEW S, NEW s \in Seq(S), NEW n \in 0..(Len(s) - 1)
    PROVE  Append(SubSeq(s, 1, n), s[n + 1]) = SubSeq(s, 1, n + 1)
<1>1. Len(s) \in Nat /\ n \in 0..Len(s) /\ n + 1 \in 0..Len(s) /\ n + 1 \in 1..Len(s)
    OBVIOUS
<1>2. s[n + 1] \in S
    BY <1>1
<1>3. PICK t : t = SubSeq(s, 1, n)
    OBVIOUS
<1>4. t \in Seq(S) /\ Len(t) = n /\ \A i \in 1..n : t[i] = s[i]
    BY <1>1, <1>3, Prefix
<1>5. PICK u : u = SubSeq(s, 1, n + 1)
    OBVIOUS
<1>6. u \in Seq(S) /\ Len(u) = n + 1 /\ \A i \in 1..(n + 1) : u[i] = s[i]
    BY <1>1, <1>5, Prefix
<1>7. Append(t, s[n + 1]) = u
    BY <1>1, <1>2, <1>4, <1>6
<1>8. QED
    BY <1>3, <1>5, <1>7

LEMMA PrefixEnds ==
    ASSUME NEW S, NEW s \in Seq(S)
    PROVE  SubSeq(s, 1, Len(s)) = s /\ SubSeq(s, 1, 0) = <<>>
<1>1. PICK t : t = SubSeq(s, 1, Len(s))
    OBVIOUS
<1>2. t \in Seq(S) /\ Len(t) = Len(s) /\ \A i \in 1..Len(s) : t[i] = s[i]
    BY <1>1, Prefix
<1>3. t = s
    BY <1>2
<1>4. QED
    BY <1>1, <1>3

\* A set of numbers that is not empty has a least one.
LEMMA Least ==
    ASSUME NEW T, T \subseteq Nat, T # {}
    PROVE  \E x \in T : \A y \in T : x <= y
<1>1. PICK x \in T : \A y \in T : ~(<<y, x>> \in OpToRel(<, Nat))
    BY NatLessThanWellFounded, WFMin
<1>2. \A y \in T : ~(y < x)
    BY <1>1 DEF OpToRel
<1>3. QED
    BY <1>2

\* A set of positions that is not empty has a last one.
LEMMA Greatest ==
    ASSUME NEW n \in Nat, NEW S, S \subseteq 1..n, S # {}
    PROVE  \E i \in S : \A j \in S : j <= i
<1> DEFINE T == {n - i : i \in S}
<1>1. T \subseteq Nat /\ T # {}
    <2>1. \A i \in S : n - i \in Nat
        OBVIOUS
    <2>2. PICK i \in S : TRUE
        OBVIOUS
    <2>3. n - i \in T
        OBVIOUS
    <2>4. QED
        BY <2>1, <2>3
<1>2. PICK x \in T : \A y \in T : x <= y
    <2> HIDE DEF T
    <2>1. QED
        BY <1>1, Least
<1>3. PICK i \in S : x = n - i
    OBVIOUS
<1>4. \A j \in S : j <= i
    BY <1>2, <1>3
<1>5. QED
    BY <1>4

\* Intervals that join one another hold every number up to the last end, and
\* are in order.
LEMMA JoinedIntervals ==
    ASSUME NEW n \in Nat \ {0}, NEW low \in [1..n -> Nat], NEW high \in [1..n -> Nat],
           low[1] = 0,
           \A k \in 1..n : low[k] <= high[k],
           \A k \in 1..(n - 1) : low[k + 1] = high[k] + 1
    PROVE  /\ \A x \in 0..high[n] : \E k \in 1..n : low[k] <= x /\ x <= high[k]
           /\ \A i, j \in 1..n : i < j => high[i] < low[j]
<1>1. ASSUME NEW x \in 0..high[n] PROVE \E k \in 1..n : low[k] <= x /\ x <= high[k]
    <2> DEFINE S == {k \in 1..n : low[k] <= x}
    <2>1. S \subseteq 1..n /\ S # {}
        <3>1. 1 \in S
            OBVIOUS
        <3>2. QED
            BY <3>1
    <2>2. PICK k \in S : \A j \in S : j <= k
        <3> HIDE DEF S
        <3>1. QED
            BY <2>1, Greatest
    <2>3. CASE k = n
        BY <2>2, <2>3
    <2>4. CASE k # n
        <3>1. k + 1 \in 1..n /\ k \in 1..(n - 1) /\ k + 1 \notin S
            BY <2>2, <2>4
        <3>2. ~(low[k + 1] <= x) /\ low[k + 1] = high[k] + 1
            BY <3>1
        <3>3. x <= high[k] /\ low[k] <= x /\ k \in 1..n
            BY <2>2, <3>1, <3>2
        <3>4. QED
            BY <3>3
    <2>5. QED
        BY <2>3, <2>4
<1>2. ASSUME NEW i \in 1..n PROVE \A j \in 1..n : i < j => high[i] < low[j]
    <2> DEFINE Bad == {j \in 1..n : i < j /\ ~(high[i] < low[j])}
    <2> SUFFICES ASSUME Bad # {} PROVE FALSE
        OBVIOUS
    <2>1. PICK j \in Bad : \A k \in Bad : j <= k
        <3>1. Bad \subseteq Nat
            OBVIOUS
        <3> HIDE DEF Bad
        <3>2. QED
            BY <3>1, Least
    <2>2. j - 1 \in 1..(n - 1) /\ j - 1 \in 1..n /\ low[j] = high[j - 1] + 1 /\ j - 1 \notin Bad
        BY <2>1
    <2>3. CASE j - 1 = i
        BY <2>1, <2>2, <2>3
    <2>4. CASE j - 1 # i
        <3>1. high[i] < low[j - 1] /\ low[j - 1] <= high[j - 1]
            BY <2>1, <2>2, <2>4
        <3>2. QED
            BY <2>1, <2>2, <3>1
    <2>5. QED
        BY <2>3, <2>4
<1>3. QED
    BY <1>1, <1>2
-----------------------------------------------------------------------------
(* Functions that are defined by recursion.                                *)

\* What M ranks lower than x, and what a recursion computes for x from it.
Under(S, M, x) == {y \in S : M[y] < M[x]}
Recursion(S, R, M, G) ==
    /\ M \in [S -> Nat]
    /\ \A x \in S : \A h \in [Under(S, M, x) -> R] : G[x][h] \in R
Follows(D, S, M, G, f) == \A x \in D : f[x] = G[x][[y \in Under(S, M, x) |-> f[y]]]

\* Two functions that follow a recursion are the same wherever both follow it.
LEMMA OneFollows ==
    ASSUME NEW S, NEW R, NEW M, NEW G, Recursion(S, R, M, G),
           NEW D \in SUBSET S, \A x \in D : Under(S, M, x) \subseteq D,
           NEW f, Follows(D, S, M, G, f), NEW g, Follows(D, S, M, G, g)
    PROVE  \A x \in D : f[x] = g[x]
<1> DEFINE Bad == {x \in D : f[x] # g[x]}
           T == {M[x] : x \in Bad}
<1> SUFFICES ASSUME Bad # {} PROVE FALSE
    OBVIOUS
<1>1. T \subseteq Nat /\ T # {}
    BY DEF Recursion
<1>2. PICK i \in T : \A j \in T : i <= j
    <2> HIDE DEF T
    <2>1. QED
        BY <1>1, Least
<1>3. PICK x \in Bad : M[x] = i
    OBVIOUS
<1>4. \A y \in Under(S, M, x) : f[y] = g[y]
    <2> SUFFICES ASSUME NEW y \in Under(S, M, x), f[y] # g[y] PROVE FALSE
        OBVIOUS
    <2>1. y \in D /\ M[y] < M[x] /\ M[y] \in Nat /\ M[x] \in Nat
        BY <1>3 DEF Under, Recursion
    <2>2. M[y] \in T
        BY <2>1
    <2>3. QED
        BY <1>2, <1>3, <2>1, <2>2
<1>5. [y \in Under(S, M, x) |-> f[y]] = [y \in Under(S, M, x) |-> g[y]]
    BY <1>4
<1>6. f[x] = G[x][[y \in Under(S, M, x) |-> f[y]]] /\ g[x] = G[x][[y \in Under(S, M, x) |-> g[y]]]
    BY <1>3 DEF Follows
<1>7. QED
    BY <1>3, <1>5, <1>6

\* A recursion over what is ranked lower has a solution.
LEMMA RecursionHasSolution ==
    ASSUME NEW S, NEW R, NEW M, NEW G, Recursion(S, R, M, G)
    PROVE  \E f \in [S -> R] : Follows(S, S, M, G, f)
<1> DEFINE Lower(n) == {x \in S : M[x] < n}
           Solves(n, f) == f \in [Lower(n) -> R] /\ Follows(Lower(n), S, M, G, f)
<1>0. \A x \in S : M[x] \in Nat
    BY DEF Recursion
<1>1. \A n \in Nat : \A x \in Lower(n) : Under(S, M, x) \subseteq Lower(n)
    BY <1>0 DEF Under
<1>2. \A n \in Nat : \E f : Solves(n, f)
    <2> DEFINE T == {n \in Nat : ~\E f : Solves(n, f)}
    <2> SUFFICES ASSUME T # {} PROVE FALSE
        OBVIOUS
    <2>1. PICK n \in T : \A m \in T : n <= m
        BY Least
    <2>2. CASE n = 0
        <3>1. Lower(n) = {}
            BY <1>0, <2>2
        <3>2. Solves(n, [x \in {} |-> x])
            <4> HIDE DEF Lower
            <4>1. QED
                BY <3>1 DEF Follows
        <3>3. QED
            BY <3>2
    <2>3. CASE n # 0
        <3>0. n \in Nat /\ T \subseteq Nat /\ \A m \in T : n <= m
            BY <2>1
        <3>1. n - 1 \in Nat /\ n - 1 \notin T
            <4> HIDE DEF T
            <4>1. QED
                BY <2>3, <3>0
        <3>2. PICK g : Solves(n - 1, g)
            BY <3>1
        <3> DEFINE f == [x \in Lower(n) |-> IF x \in Lower(n - 1) THEN g[x] ELSE G[x][g]]
        <3> HIDE DEF Solves
        <3>3. ASSUME NEW x \in Lower(n), x \notin Lower(n - 1)
              PROVE  Under(S, M, x) = Lower(n - 1)
            BY <1>0, <3>1, <3>3 DEF Under
        <3>4. Lower(n - 1) \subseteq Lower(n)
            BY <1>0, <3>1
        <3>g. g \in [Lower(n - 1) -> R] /\ Follows(Lower(n - 1), S, M, G, g)
            BY <3>2 DEF Solves
        <3>5. ASSUME NEW x \in Lower(n)
              PROVE  f[x] \in R /\ f[x] = G[x][[y \in Under(S, M, x) |-> f[y]]]
            <4>0. x \in S
                OBVIOUS
            <4>1. CASE x \in Lower(n - 1)
                <5>1. Under(S, M, x) \subseteq Lower(n - 1)
                    BY <1>1, <3>1, <4>1
                <5> HIDE DEF Lower
                <5>2. \A y \in Under(S, M, x) : f[y] = g[y]
                    BY <3>4, <5>1
                <5>3. [y \in Under(S, M, x) |-> f[y]] = [y \in Under(S, M, x) |-> g[y]]
                    BY <5>2
                <5>4. f[x] = g[x] /\ g[x] \in R
                    BY <3>g, <4>1
                <5>5. g[x] = G[x][[y \in Under(S, M, x) |-> g[y]]]
                    BY <3>g, <4>1 DEF Follows
                <5>6. QED
                    BY <5>3, <5>4, <5>5
            <4>2. CASE x \notin Lower(n - 1)
                <5>1. Under(S, M, x) = Lower(n - 1)
                    BY <3>3, <4>2
                <5> HIDE DEF Lower
                <5>2. \A y \in Under(S, M, x) : f[y] = g[y]
                    BY <3>4, <5>1
                <5>3. [y \in Under(S, M, x) |-> f[y]] = [y \in Under(S, M, x) |-> g[y]]
                    BY <5>2
                <5>4. g = [y \in Under(S, M, x) |-> g[y]] /\ g \in [Under(S, M, x) -> R]
                    BY <3>g, <5>1
                <5>5. f[x] = G[x][g]
                    BY <4>2
                <5>6. G[x][g] \in R
                    BY <4>0, <5>4 DEF Recursion
                <5>7. QED
                    BY <5>3, <5>4, <5>5, <5>6
            <4>3. QED
                BY <4>1, <4>2
        <3>6. f \in [Lower(n) -> R]
            <4> HIDE DEF Lower
            <4>1. f = [x \in Lower(n) |-> f[x]]
                OBVIOUS
            <4>2. \A x \in Lower(n) : f[x] \in R
                BY <3>5
            <4> HIDE DEF f
            <4>3. QED
                BY <4>1, <4>2
        <3>7. Solves(n, f)
            <4> HIDE DEF f, Lower
            <4>1. QED
                BY <3>5, <3>6 DEF Solves, Follows
        <3>8. QED
            BY <2>1, <3>7
    <2>4. QED
        BY <2>2, <2>3
<1> DEFINE F == [n \in Nat |-> CHOOSE f : Solves(n, f)]
           sol == [x \in S |-> F[M[x] + 1][x]]
<1> HIDE DEF Solves
<1>3. \A n \in Nat : Solves(n, F[n])
    BY <1>2
<1> HIDE DEF F
<1>f. \A n \in Nat : F[n] \in [Lower(n) -> R] /\ Follows(Lower(n), S, M, G, F[n])
    BY <1>3 DEF Solves
<1>4. ASSUME NEW x \in S, NEW y \in Under(S, M, x) PROVE sol[y] = F[M[x] + 1][y]
    <2> DEFINE n == M[y] + 1
               k == M[x] + 1
    <2>1. n \in Nat /\ k \in Nat /\ y \in Lower(n) /\ Lower(n) \subseteq Lower(k)
        BY <1>0, <1>4 DEF Under
    <2>2. Follows(Lower(n), S, M, G, F[n])
        BY <1>f, <2>1
    <2>3. Follows(Lower(k), S, M, G, F[k])
        BY <1>f, <2>1
    <2>4. \A z \in Lower(n) : Under(S, M, z) \subseteq Lower(n)
        BY <1>1, <2>1
    <2>s. y \in S /\ Lower(n) \in SUBSET S
        BY DEF Under
    <2>5. \A z \in Lower(n) : F[n][z] = F[k][z]
        <3> HIDE DEF Lower, n, k
        <3>1. Follows(Lower(n), S, M, G, F[k])
            BY <2>1, <2>3 DEF Follows
        <3>2. QED
            BY <2>2, <2>4, <2>s, <3>1, OneFollows
    <2>6. QED
        BY <2>1, <2>5, <2>s
<1>5. ASSUME NEW x \in S
      PROVE  sol[x] \in R /\ sol[x] = G[x][[y \in Under(S, M, x) |-> sol[y]]]
    <2> DEFINE k == M[x] + 1
    <2>1. k \in Nat /\ x \in Lower(k)
        BY <1>0
    <2>2. [y \in Under(S, M, x) |-> sol[y]] = [y \in Under(S, M, x) |-> F[k][y]]
        BY <1>4
    <2>3. F[k][x] \in R /\ F[k][x] = G[x][[y \in Under(S, M, x) |-> F[k][y]]]
        <3> HIDE DEF Lower, k
        <3>1. QED
            BY <1>f, <2>1 DEF Follows
    <2>4. sol[x] = F[k][x]
        OBVIOUS
    <2>5. QED
        BY <2>2, <2>3, <2>4
<1>6. sol \in [S -> R]
    <2>1. \A x \in S : sol[x] \in R
        BY <1>5
    <2>2. sol = [x \in S |-> sol[x]]
        OBVIOUS
    <2> HIDE DEF sol
    <2>3. QED
        BY <2>1, <2>2
<1>7. QED
    BY <1>5, <1>6 DEF Follows

-----------------------------------------------------------------------------
(* Below, over a graph whose edges lead to higher ranks.                   *)

Ranked(V, children, rank, n) ==
    /\ n \in Nat
    /\ children \in [V -> SUBSET V]
    /\ rank \in [V -> 1..n]
    /\ \A v \in V : \A w \in children[v] : rank[v] < rank[w]

\* The recursion that defines Below has a solution: the least closed sets.
LEMMA BelowUnfolds ==
    ASSUME NEW V, NEW children \in [V -> SUBSET V]
    PROVE  \A v \in V :
              Below(children, v) = {v} \cup UNION {Below(children, c) : c \in children[v]}
<1> DEFINE Closed(S) == \A x \in S : children[x] \subseteq S
           reach == [v \in V |-> {w \in V : \A S \in SUBSET V : v \in S /\ Closed(S) => w \in S}]
           Solves(f) == f = [w \in V |-> {w} \cup UNION {f[c] : c \in children[w]}]
           below == CHOOSE f : Solves(f)
<1>1. ASSUME NEW v \in V PROVE reach[v] = {v} \cup UNION {reach[c] : c \in children[v]}
    <2> DEFINE T == {v} \cup UNION {reach[c] : c \in children[v]}
    <2>1. T \in SUBSET V
        BY <1>1
    <2>2. Closed(T)
        <3> SUFFICES ASSUME NEW x \in T, NEW y \in children[x] PROVE y \in T
            BY DEF Closed
        <3>1. y \in V
            BY <2>1
        <3>2. CASE x = v
            <4>1. y \in reach[y]
                BY <3>1 DEF Closed
            <4>2. QED
                BY <3>2, <4>1
        <3>3. CASE x # v
            <4>1. PICK c \in children[v] : x \in reach[c]
                BY <3>3
            <4>2. y \in reach[c]
                BY <3>1, <4>1 DEF Closed
            <4>3. QED
                BY <4>2
        <3>4. QED
            BY <3>2, <3>3
    <2>3. reach[v] \subseteq T
        BY <2>1, <2>2
    <2>4. T \subseteq reach[v]
        <3>1. v \in reach[v]
            OBVIOUS
        <3>2. ASSUME NEW c \in children[v] PROVE reach[c] \subseteq reach[v]
            BY <3>2 DEF Closed
        <3> HIDE DEF reach
        <3>3. QED
            BY <3>1, <3>2
    <2>5. QED
        BY <2>3, <2>4
<1>2. Solves(reach)
    <2>1. reach = [v \in V |-> reach[v]]
        OBVIOUS
    <2> HIDE DEF reach
    <2>2. QED
        BY <1>1, <2>1
<1>3. Solves(below)
    <2> HIDE DEF Solves, reach
    <2>1. QED
        BY <1>2
<1>4. \A v \in V : Below(children, v) = below[v]
    BY DEF Below
<1>5. \A v \in V : below[v] = {v} \cup UNION {below[c] : c \in children[v]}
    <2> HIDE DEF below
    <2>1. QED
        BY <1>3
<1>6. \A v \in V : \A c \in children[v] : c \in V
    OBVIOUS
<1> HIDE DEF below
<1>7. ASSUME NEW v \in V
      PROVE  {Below(children, c) : c \in children[v]} = {below[c] : c \in children[v]}
    BY <1>4, <1>6
<1>8. QED
    BY <1>4, <1>5, <1>7

\* A set that holds v and, with a vtable, its children, holds all below v.
LEMMA BelowLeast ==
    ASSUME NEW V, NEW children, NEW rank, NEW n, Ranked(V, children, rank, n),
           NEW S, S \subseteq V, \A x \in S : children[x] \subseteq S
    PROVE  \A v \in S : Below(children, v) \subseteq S
<1> DEFINE Bad == {v \in S : ~(Below(children, v) \subseteq S)}
           R == {rank[v] : v \in Bad}
<1> SUFFICES ASSUME Bad # {} PROVE FALSE
    OBVIOUS
<1>1. n \in Nat /\ R \subseteq 1..n /\ R # {}
    BY DEF Ranked
<1>2. PICK i \in R : \A j \in R : j <= i
    <2> HIDE DEF R
    <2>1. QED
        BY <1>1, Greatest
<1>3. PICK v \in Bad : rank[v] = i
    OBVIOUS
<1>4. Below(children, v) = {v} \cup UNION {Below(children, c) : c \in children[v]}
    BY BelowUnfolds DEF Ranked
<1>5. \A c \in children[v] : c \in S /\ c \notin Bad
    <2> SUFFICES ASSUME NEW c \in children[v], c \in Bad PROVE FALSE
        OBVIOUS
    <2>1. rank[v] < rank[c] /\ rank[c] \in Nat /\ rank[v] \in Nat
        BY DEF Ranked
    <2>2. rank[c] <= rank[v]
        BY <1>2, <1>3
    <2>3. QED
        BY <2>1, <2>2
<1>6. \A c \in children[v] : Below(children, c) \subseteq S
    BY <1>5
<1>7. QED
    BY <1>4, <1>6

LEMMA BelowFacts ==
    ASSUME NEW V, NEW children, NEW rank, NEW n, Ranked(V, children, rank, n)
    PROVE  /\ \A v \in V : v \in Below(children, v) /\ Below(children, v) \subseteq V
           /\ \A v \in V : \A w \in children[v] : Below(children, w) \subseteq Below(children, v)
           /\ \A v \in V : \A w \in Below(children, v) :
                 /\ Below(children, w) \subseteq Below(children, v)
                 /\ children[w] \subseteq Below(children, v)
                 /\ w = v \/ rank[v] < rank[w]
<1>1. \A v \in V :
          Below(children, v) = {v} \cup UNION {Below(children, c) : c \in children[v]}
    BY BelowUnfolds DEF Ranked
<1>2. \A v \in V : children[v] \subseteq V
    BY DEF Ranked
<1>3. \A v \in V : Below(children, v) \subseteq V
    BY <1>2, BelowLeast
<1>4. \A v \in V : \A w \in children[v] : Below(children, w) \subseteq Below(children, v)
    BY <1>1
<1>5. ASSUME NEW v \in V, NEW w \in Below(children, v)
      PROVE  /\ Below(children, w) \subseteq Below(children, v)
             /\ children[w] \subseteq Below(children, v)
    <2> DEFINE S == {x \in V : Below(children, x) \subseteq Below(children, v)}
    <2>1. \A x \in S : children[x] \subseteq S
        BY <1>2, <1>4
    <2>2. v \in S
        OBVIOUS
    <2>3. Below(children, v) \subseteq S
        <3> HIDE DEF S
        <3>1. S \subseteq V
            BY DEF S
        <3>2. QED
            BY <2>1, <2>2, <3>1, BelowLeast
    <2>4. Below(children, w) \subseteq Below(children, v)
        BY <2>3
    <2>5. \A c \in children[w] : c \in Below(children, w)
        BY <1>1, <1>2, <1>3
    <2>6. QED
        BY <2>4, <2>5
<1>6. ASSUME NEW v \in V PROVE \A w \in Below(children, v) : w = v \/ rank[v] < rank[w]
    <2> DEFINE S == {x \in V : x = v \/ rank[v] < rank[x]}
    <2>1. ASSUME NEW x \in S, NEW y \in children[x] PROVE y \in S
        <3>1. y \in V /\ rank[x] < rank[y] /\ rank[x] \in Nat /\ rank[y] \in Nat /\ rank[v] \in Nat
            BY DEF Ranked
        <3>2. x = v \/ rank[v] < rank[x]
            OBVIOUS
        <3>3. rank[v] < rank[y]
            BY <3>1, <3>2
        <3>4. QED
            BY <3>1, <3>3
    <2>2. v \in S /\ S \subseteq V
        OBVIOUS
    <2>3. Below(children, v) \subseteq S
        <3> HIDE DEF S
        <3>1. QED
            BY <2>1, <2>2, BelowLeast
    <2>4. QED
        BY <2>3
<1>7. QED
    BY <1>1, <1>3, <1>4, <1>5, <1>6

\* What is below v and is not v has a parent there.
LEMMA BelowParent ==
    ASSUME NEW V, NEW children, NEW rank, NEW n, Ranked(V, children, rank, n),
           NEW v \in V, NEW w \in Below(children, v), w # v
    PROVE  \E u \in Below(children, v) : w \in children[u]
<1> DEFINE S == {v} \cup {x \in V : \E u \in Below(children, v) : x \in children[u]}
<1>1. S \subseteq Below(children, v)
    BY BelowFacts
<1>2. \A x \in S : children[x] \subseteq S
    <2> SUFFICES ASSUME NEW x \in S, NEW y \in children[x] PROVE y \in S
        OBVIOUS
    <2>1. x \in Below(children, v)
        BY <1>1
    <2>2. y \in V
        BY BelowFacts, <2>1 DEF Ranked
    <2>3. QED
        BY <2>1, <2>2
<1>3. Below(children, v) \subseteq S
    <2> HIDE DEF S
    <2>1. v \in S /\ S \subseteq V
        BY DEF S
    <2>2. QED
        BY <1>2, <2>1, BelowLeast
<1>4. QED
    BY <1>3

\* In a forest, two vtables with something below both are above each other.
LEMMA ForestComparable ==
    ASSUME NEW V, NEW children, NEW rank, NEW n, Ranked(V, children, rank, n),
           IsForest(children), NEW v \in V, NEW u \in V,
           NEW w \in Below(children, v), w \in Below(children, u)
    PROVE  u \in Below(children, v) \/ v \in Below(children, u)
<1> DEFINE S == {x \in Below(children, v) : x \in Below(children, u) =>
                    u \in Below(children, v) \/ v \in Below(children, u)}
<1>1. Below(children, v) \subseteq V /\ Below(children, u) \subseteq V /\ DOMAIN children = V
    BY BelowFacts DEF Ranked
<1>2. \A x \in S : children[x] \subseteq S
    <2> SUFFICES ASSUME NEW x \in S, NEW y \in children[x], y \in Below(children, u)
                 PROVE  y \in Below(children, v)
                        /\ (u \in Below(children, v) \/ v \in Below(children, u))
        BY BelowFacts
    <2>1. y \in Below(children, v)
        BY BelowFacts
    <2>2. CASE y = u
        BY <2>1, <2>2
    <2>3. CASE y # u
        <3>1. PICK z \in Below(children, u) : y \in children[z]
            BY <2>3, BelowParent
        <3>2. z = x
            BY <1>1, <3>1 DEF IsForest
        <3>3. QED
            BY <2>1, <3>1, <3>2
    <2>4. QED
        BY <2>2, <2>3
<1>3. v \in S /\ S \subseteq V
    BY <1>1, BelowFacts
<1>4. Below(children, v) \subseteq S
    <2> HIDE DEF S
    <2>1. QED
        BY <1>2, <1>3, BelowLeast
<1>5. QED
    BY <1>4

\* A vtable is not below its children.
LEMMA NotBelowChild ==
    ASSUME NEW V, NEW children, NEW rank, NEW n, Ranked(V, children, rank, n),
           NEW v \in V, NEW x \in children[v]
    PROVE  v \notin Below(children, x)
<1>1. x \in V /\ rank[v] < rank[x] /\ rank[v] \in Nat /\ rank[x] \in Nat
    BY DEF Ranked
<1>2. v \in Below(children, x) => v = x \/ rank[x] < rank[v]
    BY <1>1, BelowFacts
<1>3. QED
    BY <1>1, <1>2

\* In a forest, nothing is below two children of one vtable.
LEMMA SiblingsDisjoint ==
    ASSUME NEW V, NEW children, NEW rank, NEW n, Ranked(V, children, rank, n),
           IsForest(children), NEW v \in V, NEW c \in children[v]
    PROVE  \A d \in children[v] : c # d => Below(children, c) \cap Below(children, d) = {}
<1>1. \A x \in children[v] : v \notin Below(children, x)
    BY NotBelowChild
<1>2. ASSUME NEW x \in children[v], NEW y \in children[v], x # y, y \in Below(children, x)
      PROVE  FALSE
    <2>1. x \in V /\ DOMAIN children = V
        BY DEF Ranked
    <2>2. PICK u \in Below(children, x) : y \in children[u]
        BY <1>2, <2>1, BelowParent
    <2>3. u \in V
        BY <2>1, BelowFacts
    <2>4. u = v
        BY <2>1, <2>2, <2>3 DEF IsForest
    <2>5. QED
        BY <1>1, <2>2, <2>4
<1>3. ASSUME NEW d \in children[v], c # d, NEW w \in Below(children, c), w \in Below(children, d)
      PROVE  FALSE
    <2>1. c \in V /\ d \in V
        BY DEF Ranked
    <2>2. d \in Below(children, c) \/ c \in Below(children, d)
        BY <1>3, <2>1, ForestComparable
    <2>3. QED
        BY <1>2, <1>3, <2>2
<1>4. QED
    BY <1>3
=============================================================================
