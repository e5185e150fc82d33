---------------------------- MODULE VTableLayout ----------------------------
(***************************************************************************)
(* SDLayoutBuilder: the vtables of every cloud, a root with all the        *)
(* vtables below it, are laid out anew in one array, interleaved or in     *)
(* preorder, so that the address points of the vtables that a call may use *)
(* are a few arithmetic progressions.                                      *)
(*                                                                         *)
(* A vtable (vtbl_t) is a pair <<class, sub-vtable>>.  A slot is counted   *)
(* from the start of the vtable group of its class, an index from the      *)
(* start of the new array; both in words.  An address is a pair            *)
(* <<root, index>>.                                                        *)
(***************************************************************************)
EXTENDS Integers, Sequences, FiniteSetsExt, SortedSets

CONSTANT Inputs     \* what SDBuildCHA holds, and whether to interleave

dummyVtable == <<0, 0>>

(***************************************************************************)
(* What SDBuildCHA answers: the children of the vtables, of which the      *)
(* primary ones of the roots have no parents; for each vtable the root it  *)
(* is below; for each class the place of its name in the order of names.   *)
(* Classes derive from classes declared earlier.  A vtable has an address  *)
(* point between its first and its last slot, and from there on at least   *)
(* what its parents have, in both directions.                              *)
(***************************************************************************)
WellFormed(h) ==
    LET vs == DOMAIN h.children
        classes == {v[1] : v \in vs}
        edges == {e \in vs \X vs : e[2] \in h.children[e[1]]}
    IN  /\ IsFiniteSet(vs) /\ dummyVtable \notin vs
        /\ \A v \in vs : /\ v = <<v[1], v[2]>> /\ v[2] \in Nat /\ <<v[1], 0>> \in vs
                         /\ h.children[v] \subseteq vs
        /\ \E level \in [classes -> 1..Cardinality(classes)] :
              \A e \in edges : level[e[1][1]] < level[e[2][1]]
        /\ \A c, d \in classes : h.rank[c] \in Nat /\ (h.rank[c] = h.rank[d] => c = d)
        /\ \A r \in h.roots : <<r, 0>> \in vs /\ h.ancestor[<<r, 0>>] = r
        /\ \A v \in vs : v \in {<<r, 0>> : r \in h.roots} \/ \E u \in vs : v \in h.children[u]
        /\ \A v \in vs : /\ h.range[v][1] \in Nat /\ h.addrPt[v] \in Nat /\ h.range[v][2] \in Nat
                         /\ h.range[v][1] <= h.addrPt[v] /\ h.addrPt[v] <= h.range[v][2]
        /\ \A e \in edges :
              /\ h.ancestor[e[1]] = h.ancestor[e[2]]
              /\ h.addrPt[e[1]] - h.range[e[1]][1] <= h.addrPt[e[2]] - h.range[e[2]][1]
              /\ h.range[e[1]][2] - h.addrPt[e[1]] <= h.range[e[2]][2] - h.addrPt[e[2]]

ASSUME InputsAssumption ==
    \A input \in Inputs : input.interleave \in BOOLEAN /\ WellFormed(input.cha)

\* A thunk lies in a slot of its vtable and reads a vcall offset of the vtable;
\* its name, a mangled one, says which.
ThunksFit(h) ==
    LET vs == DOMAIN h.children
    IN  /\ \A v \in vs : \A t \in h.thunks[v] :
              /\ t.slot \in Nat /\ t.vcall \in Int
              /\ h.addrPt[v] + t.vcall \in h.range[v][1]..h.range[v][2]
        /\ \A v, w \in vs : \A t \in h.thunks[v] : \A u \in h.thunks[w] :
              t.name = u.name => t.vcall = u.vcall

ASSUME ThunksAssumption == \A input \in Inputs : ThunksFit(input.cha)

VARIABLES
    cha,                    \* queries to SDBuildCHA, and the old vtables' thunks
    interleave,             \* interleave the clouds, or put them in order
    laidOut, emitted, ranged,   \* roots done in each loop of buildNewLayouts
    prePadMap,              \* vtable -> null entries to put in front of it
    interleavingMap,        \* root -> old slots in their new order
    alignmentMap,           \* root -> words from one address point to the next
    newLayoutInds,          \* vtable -> new index of each of its slots
    vthunks,                \* clone of a thunk for a layout class -> vcall index
    newVTables,             \* root -> contents of the new array
    newVTableStartAddrMap,  \* vtable -> its address point in the new layout
    vptrs,                  \* vtable -> the address that constructors store
    rangeMap,               \* vtable -> preorder ranges of what is below it
    memRangeMap,            \* vtable -> address and length of these ranges
    verified                \* what verifyNewLayouts has said

layoutVars == <<prePadMap, interleavingMap, alignmentMap, newLayoutInds>>
emitVars == <<vthunks, newVTables, newVTableStartAddrMap, vptrs>>
rangeVars == <<rangeMap, memRangeMap>>
inputVars == <<cha, interleave>>
vars == <<inputVars, laidOut, emitted, ranged, layoutVars, emitVars, rangeVars, verified>>

NoMap == [x \in {} |-> 0]

\* f with the entries of g added; f's own are kept.
Extend(f, g) == [x \in DOMAIN f \cup DOMAIN g |-> IF x \in DOMAIN f THEN f[x] ELSE g[x]]

vtables == DOMAIN cha.children

InitFrom(input) ==
    /\ cha = input.cha /\ interleave = input.interleave
    /\ laidOut = {} /\ emitted = {} /\ ranged = {}
    /\ prePadMap = [v \in vtables |-> 0] /\ interleavingMap = NoMap /\ alignmentMap = NoMap
    /\ newLayoutInds = NoMap
    /\ vthunks = NoMap /\ newVTables = NoMap
    /\ newVTableStartAddrMap = NoMap /\ vptrs = NoMap
    /\ rangeMap = NoMap /\ memRangeMap = NoMap
    /\ verified = "pending"

-----------------------------------------------------------------------------
(* Queries to SDBuildCHA.                                                  *)

isDefined(v) == v[1] \notin cha.undefined
start(v) == cha.range[v][1]
end(v) == cha.range[v][2]
relAddrPt(v) == cha.addrPt[v] - start(v)

\* std::set<vtbl_t> and std::set<vtbl_name_t> are sorted by name.
ByName(v, w) == \/ cha.rank[v[1]] < cha.rank[w[1]]
                \/ v[1] = w[1] /\ v[2] < w[2]
InOrder(vs) == Sorted(vs, {p \in vs \X vs : ByName(p[1], p[2])})

\* Depth first, every vtable once: walk takes what is still to do and the nodes
\* that it has met.
preorder(root) ==
    LET walk[w \in Seq(vtables) \X Seq(vtables)] ==
            LET todo == w[1]
                nodes == w[2]
            IN  IF todo = <<>> THEN nodes
                ELSE IF Head(todo) \in Range(nodes) THEN walk[<<Tail(todo), nodes>>]
                ELSE walk[<<InOrder(cha.children[Head(todo)]) \o Tail(todo),
                            Append(nodes, Head(todo))>>]
    IN  walk[<<<<root>>, <<>>>>]

\* The indices of the vtables in a preorder, counted from 0.
IndexMap(pre) == [v \in Range(pre) |-> (CHOOSE i \in DOMAIN pre : pre[i] = v) - 1]

Defined(pre) == {v \in Range(pre) : isDefined(v)}

\* Roots are iterated in the order of their names.
IsNext(root, done) ==
    root \in cha.roots \ done /\ \A r \in cha.roots \ done : cha.rank[root] <= cha.rank[r]

-----------------------------------------------------------------------------
(* First loop: lay out the clouds.                                         *)

\* A child starts at least as far before its address point as its parent: parent
\* after parent and child after child, the pads grow by what is missing.
PrePads(pre) ==
    LET ind == IndexMap(pre)
        all == {e \in Defined(pre) \X vtables : e[2] \in cha.children[e[1]]}
        Before(e, f) == \/ ind[e[1]] < ind[f[1]]
                        \/ e[1] = f[1] /\ ByName(e[2], f[2])
        edges == Sorted(all, {p \in all \X all : Before(p[1], p[2])})
        pads[n \in 0..Len(edges)] ==
            IF n = 0 THEN prePadMap
            ELSE LET p == edges[n][1]
                     c == edges[n][2]
                     missing == relAddrPt(p) + pads[n - 1][p] - (relAddrPt(c) + pads[n - 1][c])
                 IN  IF ind[c] < ind[p] \/ missing <= 0 THEN pads[n - 1]
                     ELSE [pads[n - 1] EXCEPT ![c] = missing]
    IN  pads[Len(edges)]

\* fillVtablePart: the slots that a vtable has, and the row that one goes to,
\* its distance from the address point.
Slots(v, pads) == {v} \X ((start(v) - pads[v])..end(v))
Row(slot) == slot[2] - cha.addrPt[slot[1]]

\* Mutant: the slots of a negative row are inserted one by one at the front.
PushedFront(pre, pads) ==
    LET ind == IndexMap(pre)
        slots == UNION {Slots(v, pads) : v \in Defined(pre)}
        Before(s, t) == \/ Row(s) < Row(t)
                        \/ Row(s) = Row(t) /\ Row(s) >= 0 /\ ind[s[1]] < ind[t[1]]
                        \/ Row(s) = Row(t) /\ Row(s) < 0 /\ ind[s[1]] > ind[t[1]]
    IN  Sorted(slots, {p \in slots \X slots : Before(p[1], p[2])})

\* interleaveCloudNew: the rows, from the lowest slots to the highest, each in
\* preorder.
Interleaved(pre, pads) ==
    LET ind == IndexMap(pre)
        slots == UNION {Slots(v, pads) : v \in Defined(pre)}
        Before(s, t) == \/ Row(s) < Row(t)
                        \/ Row(s) = Row(t) /\ ind[s[1]] < ind[t[1]]
    IN  Sorted(slots, {p \in slots \X slots : Before(p[1], p[2])})

Dummy == <<dummyVtable, 0>>

\* Words from one aligned address point to the next: the next power of two of
\* the largest vtable.
Stride(pre) ==
    LET largest == Max({end(v) - start(v) + 1 : v \in Range(pre)})
        power[k \in 0..largest] == IF k = 0 THEN 1 ELSE 2 * power[k - 1]
    IN  CHOOSE p \in Range(power) : largest <= p /\ p < 2 * largest

\* orderCloud: one vtable after the other, dummies in front of it to align its
\* address point.
Ordered(pre) ==
    LET max == Stride(pre)
        Align(n) == (max - (n % max)) % max
        Place(list, v) ==
            list \o [i \in 1..Align(Len(list) + relAddrPt(v)) |-> Dummy]
                 \o [i \in 1..(end(v) - start(v) + 1) |-> <<v, start(v) + i - 1>>]
        placed[n \in 0..Len(pre)] ==
            IF n = 0 THEN <<>>
            ELSE IF isDefined(pre[n]) THEN Place(placed[n - 1], pre[n])
            ELSE placed[n - 1]
    IN  placed[Len(pre)]

\* calculateNewLayoutInds
NewInds(list) ==
    LET placed == {list[i][1] : i \in DOMAIN list} \ {dummyVtable}
        indsOf(v) == Increasing({i - 1 : i \in {j \in DOMAIN list : list[j][1] = v}})
    IN  [v \in DOMAIN newLayoutInds \cup placed |->
            (IF v \in DOMAIN newLayoutInds THEN newLayoutInds[v] ELSE <<>>)
            \o (IF v \in placed THEN indsOf(v) ELSE <<>>)]

Layout(root) ==
    /\ IsNext(root, laidOut)
    /\ laidOut' = laidOut \cup {root}
    /\ LET pre == preorder(<<root, 0>>)
           pads == IF interleave THEN PrePads(pre) ELSE prePadMap
           list == IF interleave THEN Interleaved(pre, pads) ELSE Ordered(pre)
           stride == IF interleave THEN 1 ELSE Stride(pre)
       IN  /\ prePadMap' = pads
           /\ interleavingMap' = Extend([r \in {root} |-> list], interleavingMap)
           /\ alignmentMap' = Extend([r \in {root} |-> stride], alignmentMap)
           /\ newLayoutInds' = NewInds(list)
    /\ UNCHANGED <<inputVars, emitted, ranged, emitVars, rangeVars, verified>>

-----------------------------------------------------------------------------
(* Second loop: clone the thunks and emit the new arrays.                  *)

\* Mutant: an undefined vtable is looked up itself.
NoRepresentative(v) == v

\* The vtable that stands for an undefined one: the first one below it that has
\* been defined, if there is any.
Representative(v) ==
    LET pre == preorder(v)
        defined == {i \in 2..Len(pre) : isDefined(pre[i])}
    IN  IF isDefined(v) \/ defined = {} THEN v ELSE pre[Min(defined)]

\* The new distance from the address point of what was at distance offset.
translateVtblInd(v, offset) ==
    LET w == Representative(v)
    IN  IF w \notin DOMAIN newLayoutInds THEN offset
        ELSE newLayoutInds[w][relAddrPt(w) + offset + 1] - newLayoutInds[w][relAddrPt(w) + 1]

\* Mutant: the clone keeps the index of the original.
ClonesAsTheyAre(pre) ==
    LET old == {p \in (DOMAIN pre) \X vtables : isDefined(p[2]) /\ p[2][1] = pre[p[1]][1]}
        met == UNION {{<<p[1], p[2], t>> : t \in cha.thunks[p[2]]} : p \in old}
        Key(m) == <<m[3].name, cha.layoutClass[m[2]]>>
    IN  [key \in {Key(m) : m \in met} |-> (CHOOSE m \in met : Key(m) = key)[3].vcall]

\* createThunkFunctions: a thunk is cloned once for each layout class, for the
\* first vtable in which it is met.
Clones(pre) ==
    LET old == {p \in (DOMAIN pre) \X vtables : isDefined(p[2]) /\ p[2][1] = pre[p[1]][1]}
        met == UNION {{<<p[1], p[2], t>> : t \in cha.thunks[p[2]]} : p \in old}
        Key(m) == <<m[3].name, cha.layoutClass[m[2]]>>
        Before(m, n) == \/ m[1] < n[1]
                        \/ m[1] = n[1] /\ m[2][2] < n[2][2]
                        \/ m[1] = n[1] /\ m[2] = n[2] /\ m[3].slot < n[3].slot
        Firsts(key) == CHOOSE m \in met : Key(m) = key /\ \A n \in met : Key(n) = key => ~ Before(n, m)
    IN  [key \in {Key(m) : m \in met} |->
            LET m == Firsts(key) IN translateVtblInd(m[2], m[3].vcall)]

\* newVtblAddressConst
newVtblAddressConst(v) == <<cha.ancestor[v], newLayoutInds[v][relAddrPt(v) + 1]>>

NoClone == <<>>
Null == [of |-> Dummy, clone |-> NoClone]

\* What a slot of an old vtable becomes in a new one: null if it is padding, a
\* clone if it is a virtual thunk.
Content(slot) ==
    LET v == slot[1]
        thunk == {t \in cha.thunks[v] : t.slot = slot[2]}
    IN  IF slot = Dummy \/ ~ isDefined(v) \/ slot[2] < start(v) THEN Null
        ELSE [of    |-> slot,
              clone |-> IF thunk = {} THEN NoClone
                        ELSE <<(CHOOSE t \in thunk : TRUE).name, cha.layoutClass[v]>>]

\* The uses of an old address point become uses of the new array.
Emit(root) ==
    /\ laidOut = cha.roots
    /\ IsNext(root, emitted)
    /\ emitted' = emitted \cup {root}
    /\ LET pre == preorder(<<root, 0>>)
           list == interleavingMap[root]
           defined == Defined(pre)
       IN  /\ vthunks' = Extend(vthunks, Clones(pre))
           /\ newVTables' = Extend([r \in {root} |-> [i \in DOMAIN list |-> Content(list[i])]], newVTables)
           /\ newVTableStartAddrMap' =
                  Extend([v \in defined |-> newVtblAddressConst(v)], newVTableStartAddrMap)
           /\ vptrs' = Extend(vptrs, [v \in defined |->
                  <<root, newLayoutInds[v][cha.addrPt[v] - start(v) + 1]>>])
    /\ UNCHANGED <<inputVars, laidOut, ranged, layoutVars, rangeVars, verified>>

-----------------------------------------------------------------------------
(* Third loop: the ranges of address points that the checks allow.         *)

\* Ranges [start, end) in the order of std::sort.
InOrderOfStart(ranges) ==
    Sorted(ranges, {p \in ranges \X ranges : \/ p[1][1] < p[2][1]
                                             \/ p[1][1] = p[2][1] /\ p[1][2] < p[2][2]})

\* Mutant: adjacent ranges stay two.
CoalescedIfOverlapping(ranges) ==
    LET sorted == InOrderOfStart(ranges)
        Wider(last, r) == <<last[1], IF r[2] > last[2] THEN r[2] ELSE last[2]>>
        merged[n \in 0..Len(sorted)] ==
            IF n = 0 THEN <<>>
            ELSE LET done == merged[n - 1]
                 IN  IF done # <<>> /\ sorted[n][1] < done[Len(done)][2]
                     THEN [done EXCEPT ![Len(done)] = Wider(@, sorted[n])]
                     ELSE Append(done, sorted[n])
    IN  merged[Len(sorted)]

\* Sorted ranges, overlapping and adjacent ones made one.
Coalesced(ranges) ==
    LET sorted == InOrderOfStart(ranges)
        Wider(last, r) == <<last[1], IF r[2] > last[2] THEN r[2] ELSE last[2]>>
        merged[n \in 0..Len(sorted)] ==
            IF n = 0 THEN <<>>
            ELSE LET done == merged[n - 1]
                 IN  IF done # <<>> /\ sorted[n][1] <= done[Len(done)][2]
                     THEN [done EXCEPT ![Len(done)] = Wider(@, sorted[n])]
                     ELSE Append(done, sorted[n])
    IN  merged[Len(sorted)]

\* calculateVPtrRangesHelper
VPtrRanges(pre) ==
    LET ind == IndexMap(pre)
        ranges[v \in Range(pre)] ==
            IF v \in DOMAIN rangeMap THEN rangeMap[v]
            ELSE Coalesced({<<ind[v], ind[v] + 1>>}
                           \cup UNION {Range(ranges[c]) : c \in cha.children[v]})
    IN  ranges

\* The address of the first defined vtable of a range, and how many there are;
\* ranges without any are left out.
MemRanges(pre, ranges) ==
    LET defined(k) == {i \in ranges[k][1]..(ranges[k][2] - 1) : isDefined(pre[i + 1])}
        kept == Increasing({k \in DOMAIN ranges : defined(k) # {}})
    IN  [j \in DOMAIN kept |-> <<newVtblAddressConst(pre[Min(defined(kept[j])) + 1]),
                                 Cardinality(defined(kept[j]))>>]

calculateVPtrRanges(root) ==
    /\ laidOut = cha.roots /\ emitted = cha.roots
    /\ IsNext(root, ranged)
    /\ ranged' = ranged \cup {root}
    /\ LET pre == preorder(<<root, 0>>)
           all == VPtrRanges(pre)
           mem == [v \in Range(pre) |-> MemRanges(pre, all[v])]
       IN  /\ rangeMap' = Extend(rangeMap, all)
           /\ memRangeMap' = [v \in DOMAIN memRangeMap \cup {w \in Range(pre) : mem[w] # <<>>} |->
                  (IF v \in DOMAIN memRangeMap THEN memRangeMap[v] ELSE <<>>)
                  \o (IF v \in Range(pre) THEN mem[v] ELSE <<>>)]
    /\ UNCHANGED <<inputVars, laidOut, emitted, layoutVars, emitVars, verified>>

Built == laidOut = cha.roots /\ emitted = cha.roots /\ ranged = cha.roots

-----------------------------------------------------------------------------
(* verifyNewLayouts                                                        *)

\* Where a new array has slots of vtables, and not dummies.
Places(root) == {i \in DOMAIN interleavingMap[root] : interleavingMap[root][i] # Dummy}

\* The new index of each old slot; dummies are not counted.
OldToNew(root) ==
    LET list == interleavingMap[root]
        place(e) == CHOOSE i \in Places(root) : list[i] = e
    IN  [e \in {list[i] : i \in Places(root)} |->
            Cardinality({j \in Places(root) : j < place(e)})]

NoneTwice(root) ==
    \A i, j \in Places(root) : interleavingMap[root][i] = interleavingMap[root][j] => i = j

Dense(root) ==
    \A v \in Defined(preorder(<<root, 0>>)) :
        LET slots == {e[2] : e \in {d \in DOMAIN OldToNew(root) : d[1] = v}}
            size == end(v) - (start(v) - prePadMap[v]) + 1
        IN  slots # {} /\ Max(slots) - Min(slots) + 1 = size /\ Cardinality(slots) = size

\* Edges between defined vtables, without those back to an earlier vtable.
Edges(root) ==
    LET pre == preorder(<<root, 0>>)
        ind == IndexMap(pre)
    IN  {e \in Defined(pre) \X Defined(pre) :
            e[2] \in cha.children[e[1]] /\ ind[e[1]] <= ind[e[2]]}

Contained(root) ==
    \A e \in Edges(root) :
        /\ relAddrPt(e[1]) + prePadMap[e[1]] <= relAddrPt(e[2]) + prePadMap[e[2]]
        /\ end(e[1]) - cha.addrPt[e[1]] <= end(e[2]) - cha.addrPt[e[2]]

SameRelative(root) ==
    LET new == OldToNew(root)
        Relative(v, k) == new[<<v, cha.addrPt[v] + k>>] - new[<<v, cha.addrPt[v]>>]
    IN  \A e \in Edges(root) :
            \A k \in (start(e[1]) - prePadMap[e[1]] - cha.addrPt[e[1]])..(end(e[1]) - cha.addrPt[e[1]]) :
                Relative(e[1], k) = Relative(e[2], k)

\* In order, only the first root is looked at.
verifyNewLayouts ==
    /\ Built /\ verified = "pending"
    /\ verified' = IF /\ \A root \in cha.roots :
                             interleave \/ IsNext(root, {}) => NoneTwice(root) /\ Dense(root)
                      /\ interleave => \A root \in cha.roots :
                                           Contained(root) /\ SameRelative(root)
                   THEN "correct" ELSE "wrong"
    /\ UNCHANGED <<inputVars, laidOut, emitted, ranged, layoutVars, emitVars, rangeVars>>

LayoutNext ==
    \/ \E root \in cha.roots : Layout(root) \/ Emit(root) \/ calculateVPtrRanges(root)
    \/ verifyNewLayouts

-----------------------------------------------------------------------------
(* What the layout promises.                                               *)

\* The assertion of runOnModule, "assert(verifyNewLayouts(M))": each vtable is
\* in its cloud once and whole, and what a parent has at some distance from its
\* address point the children have at the same distance.
LayoutVerified == verified # "wrong"

\* The assertions of verifyVPtrRanges: the ranges of a vtable do not touch each
\* other, and they hold the preorder indices of the vtables at or below it
\* and no others.
RangesAreDescendants ==
    \A root \in ranged :
        LET pre == preorder(<<root, 0>>)
            ind == IndexMap(pre)
        IN  \A v \in Range(pre) :
            LET ranges == rangeMap[v]
            IN  /\ \A k \in 1..(Len(ranges) - 1) : ranges[k][2] < ranges[k + 1][1]
                /\ UNION {ranges[k][1]..(ranges[k][2] - 1) : k \in DOMAIN ranges} =
                      {ind[w] : w \in Range(preorder(v))}

\* "Check that the relative vtable offsets are the same for every parent/child
\* class pair" (the comment in verifyNewLayouts), the pairs included that it
\* skips because the child comes first in the preorder.
PairsKeepDistances ==
    Built => \A v \in DOMAIN vptrs : \A w \in cha.children[v] \cap DOMAIN vptrs :
        \A k \in (start(v) - cha.addrPt[v])..(end(v) - cha.addrPt[v]) :
            translateVtblInd(w, k) = translateVtblInd(v, k)

\* A clone reads the same vcall offset from every vtable that refers to it as
\* the thunk read from the old vtable: "we already created such function, will
\* use that later" does no harm to the later vtables.
ThunksKeepTheirOffsets ==
    Built => \A v \in DOMAIN vptrs : \A t \in cha.thunks[v] :
        LET key == <<t.name, cha.layoutClass[v]>>
            array == newVTables[vptrs[v][1]]
            at == vptrs[v][2] + vthunks[key]
        IN  /\ key \in DOMAIN vthunks
            /\ at + 1 \in DOMAIN array
            /\ array[at + 1].of = <<v, cha.addrPt[v] + t.vcall>>
=============================================================================
