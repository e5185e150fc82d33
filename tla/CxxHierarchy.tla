---------------------------- MODULE CxxHierarchy ----------------------------
(***************************************************************************)
(* The class metadata ("sd.class_info.*") that clang attaches to a module  *)
(* and that the whole link-time part of SafeDispatch and rhoFEM reads: for *)
(* every polymorphic class its sub-vtables in address order, each with its *)
(* parent sub-vtables, its extent and the virtual functions in its slots.  *)
(*                                                                         *)
(* A program is a declaration D, a function from its classes 1..n to       *)
(*    bases    - the non-virtual direct bases, in declaration order;       *)
(*    vbases   - the virtual direct bases;                                 *)
(*    declares - the virtual methods the class declares or overrides.      *)
(* A base has a smaller number than the classes derived from it.  Virtual  *)
(* bases are laid out as non-primary bases (they carry data); a virtual    *)
(* base that is a primary base and construction vtables are left out.      *)
(***************************************************************************)
LOCAL INSTANCE Naturals
LOCAL INSTANCE FiniteSets
LOCAL INSTANCE Sequences
LOCAL INSTANCE SequencesExt

\* The parent ("", 0) of a sub-vtable that no base class lays out.
NoParent == <<0, 0>>

\* Slots of every vtable that precede the address point: offset-to-top and
\* RTTI.  The vcall and vbase offsets lie before them.
HeaderSlots == 2

(***************************************************************************)
(* A sub-vtable while it is laid out: its parents, the number of vcall and *)
(* vbase offsets in front of its header, its functions (a function is the  *)
(* pair <<declaring class, method>>, at a slot), and key, which is <<0,0>> *)
(* or the sub-vtable of the virtual base it stands for.                    *)
(***************************************************************************)
NonVirtual == <<0, 0>>

\* The slots of the methods that class c declares and no slot of fs holds.
NewSlots(c, declares, fs) ==
    LET fresh == {m \in declares : \A f \in fs : f.name[2] # m}
    IN  {[name |-> <<c, m>>,
          off  |-> Cardinality(fs) + Cardinality({k \in fresh : k < m})] : m \in fresh}

\* Slots taken over from a base, with the overrides of class c in place.
Overridden(c, declares, fs) ==
    {[f EXCEPT !.name = IF f.name[2] \in declares THEN <<c, f.name[2]>> ELSE f.name]
        : f \in fs}

\* Of the functions that the parents have in one slot, the final overrider is
\* the one of the most derived class.
FinalOverriders(fs) ==
    {f \in fs : \A g \in fs : f.off = g.off => g.name[1] <= f.name[1]}

\* A base's sub-vtables, virtual or not, as parents of those of a derived class.
Part(layout, b, virtual) ==
    SelectSeq([i \in DOMAIN layout[b] |-> [layout[b][i] EXCEPT !.parents = {<<b, i - 1>>}]],
              LAMBDA s : (s.key # NonVirtual) = virtual)

\* The sub-vtables class d inherits from its non-virtual bases; a class that
\* has none starts a primary vtable of its own.
PlainPart(layout, d) ==
    LET inherited == FlattenSeq([k \in DOMAIN d.bases |-> Part(layout, d.bases[k], FALSE)])
    IN  IF inherited = <<>>
        THEN <<[parents |-> {NoParent}, offsets |-> 0, functions |-> {}, key |-> NonVirtual]>>
        ELSE inherited

\* A virtual base has a vcall offset for each method that it or a non-virtual
\* base of it has, in its primary vtable.
VCallOffsets(layout, v) ==
    {f.name[2] : f \in UNION {s.functions : s \in {t \in ToSet(layout[v]) : t.key = NonVirtual}}}

\* The sub-vtables of virtual bases, one for each however many paths lead there.
SharedPart(layout, d) ==
    LET direct(v) == {[layout[v][i] EXCEPT !.parents = {<<v, i - 1>>}, !.key = <<v, i>>,
                          !.offsets = @ + (IF i = 1 THEN Cardinality(VCallOffsets(layout, v)) ELSE 0)]
                        : i \in {j \in DOMAIN layout[v] : layout[v][j].key = NonVirtual}}
        shared == UNION {ToSet(Part(layout, b, TRUE)) : b \in ToSet(d.bases) \cup d.vbases}
                  \cup UNION {direct(v) : v \in d.vbases}
        Merged(k) == LET same == {s \in shared : s.key = k}
                     IN  [parents   |-> UNION {s.parents : s \in same},
                          offsets   |-> (CHOOSE s \in same : TRUE).offsets,
                          functions |-> FinalOverriders(UNION {s.functions : s \in same}),
                          key       |-> k]
    IN  SetToSortSeq({Merged(s.key) : s \in shared},
            LAMBDA s, t : \/ s.key[1] < t.key[1]
                          \/ s.key[1] = t.key[1] /\ s.key[2] < t.key[2])

\* The sub-vtables of every class of D, laid out base classes first; the
\* primary vtable has a vbase offset for each virtual base.
SubVTables(D) ==
    LET Layout(layout, c) ==
            LET shared == SharedPart(layout, D[c])
                all == PlainPart(layout, D[c]) \o shared
                Override(s) ==
                    [s EXCEPT !.functions = Overridden(c, D[c].declares, @)]
                Introduce(s) ==
                    [s EXCEPT !.functions = @ \cup NewSlots(c, D[c].declares, @),
                              !.offsets = Cardinality({t.key[1] : t \in ToSet(shared)})]
            IN  <<Introduce(Override(Head(all)))>>
                \o [i \in 1..(Len(all) - 1) |-> Override(all[i + 1])]
    IN  FoldLeft(LAMBDA layout, c : Append(layout, Layout(layout, c)),
                 <<>>, [c \in DOMAIN D |-> c])

(***************************************************************************)
(* What sd_insertVtableMD stores for class c: its sub-vtables one after    *)
(* the other, [start, end] their slots, functions relative to the address  *)
(* point.                                                                  *)
(***************************************************************************)
ClassInfo(layout, c) ==
    LET Size(s) == s.offsets + HeaderSlots + Cardinality(s.functions)
        starts[i \in 1..Len(layout[c])] ==
            IF i = 1 THEN 0 ELSE starts[i - 1] + Size(layout[c][i - 1])
    IN  [className |-> c,
         subVTables |-> [i \in DOMAIN layout[c] |->
            [parents      |-> layout[c][i].parents,
             functions    |-> layout[c][i].functions,
             start        |-> starts[i],
             end          |-> starts[i] + Size(layout[c][i]) - 1,
             addressPoint |-> starts[i] + layout[c][i].offsets + HeaderSlots]]]

ClassInfos(D) == LET layout == SubVTables(D) IN {ClassInfo(layout, c) : c \in DOMAIN D}

(***************************************************************************)
(* The virtual thunks in the vtable of class c: an overrider of a method   *)
(* of a virtual base is called through the base's vtable by a thunk that   *)
(* finds the object with the vcall offset of the method, the index vcall   *)
(* from the address point.  (Virtual bases with one sub-vtable.)           *)
(***************************************************************************)
VirtualThunks(layout, c) ==
    LET info == ClassInfo(layout, c).subVTables
        ThunkOf(i, f) ==
            LET base == layout[layout[c][i].key[1]][1]
                vcall == 0 - (HeaderSlots + base.offsets + 1 + f.off)
            IN  [slot |-> info[i].addressPoint + f.off, name |-> <<f.name, vcall>>, vcall |-> vcall]
    IN  [i \in DOMAIN info |->
            {ThunkOf(i, f) : f \in {g \in layout[c][i].functions :
                /\ layout[c][i].key # NonVirtual
                /\ g \notin layout[layout[c][i].key[1]][1].functions}}]
=============================================================================
