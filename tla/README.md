# A verification project for rhoFEM

rhoFEM is a version of LLVM and Clang that protects function returns. The compiler gives every
function one or more IDs, stores in NOPs behind every call which IDs may return there, and lets
every function compare its own ID with them before it returns. It is built on SafeDispatch, which
protects virtual calls by laying out vtables so that the vtables of a class and its descendants are
contiguous. Both rest on one analysis of the class hierarchy at link time. Around the passes are the
compiler processes themselves, which agree by lock files on who compiles a module.

This directory holds TLA+ models of the code that is specific to rhoFEM and SafeDispatch and of the
lock files, TLC runs on small instances and TLAPS proofs. `PROJECT.json` maps every definition to the lines it models.
Paths below are relative to `src/lib/Transforms/IPO/` unless they say otherwise.

## 1. The system

| part | code | state | operations | talks to |
|---|---|---|---|---|
| class metadata | clang, `SafeDispatchVtblMD.h` | `sd.class_info.*` nodes of a module | `sd_insertVtableMD` | SDBuildCHA, through the linked module |
| SDFix | `SafeDispatchFix.cpp` | none of its own | rewrites destructors and metadata | SDBuildCHA |
| SDBuildCHA | `SafeDispatchCHA.cpp/.h` | cloudMap, roots, parentMap, addrPtMap, rangeMap, ancestorMap, subObjNameMap, cloudSizeMap; functionMap, functionImplMap, functionIDMap, functionRangeMap, currentID | buildClouds, calculateChildrenCounts, topoSort, buildFunctionInfo, queries | every pass below calls its queries |
| SDReturnAddress | `SafeDispatchReturnAddressPass.cpp` | functionID, FunctionIDMap, `SD_MD_FUNCINFO_*` metadata | processFunction for each function | asks SDBuildCHA; owns the SDEncoder |
| SDEncoder | `SDEncode.h` | EncodingToTypeID, NextTypeID | getTypeID | shared by SDReturnAddress and SDReturnRange |
| SDReturnRange | `SafeDispatchReturnRange.cpp` | VirtualCallSites, lists of call sites, pseudoDebugLoc | virtual loop, static loop, storeCallSites | IDs and ranges in, metadata out |
| SDLayoutBuilder | `SafeDispatchLayoutBuilder.cpp` | prePadMap, interleavingMap, alignmentMap, newLayoutInds, newVTableStartAddrMap, rangeMap, memRangeMap, the new arrays and thunk clones in the module | buildNewLayouts (interleave or order, createThunkFunctions, createNewVTable, calculateVPtrRanges), verifyNewLayouts, translateVtblInd | clouds in; indices and ranges out to SDUpdateIndices |
| SDUpdateIndices, SDSubstModule | `SafeDispatchUpdateIndices.cpp` | none of their own; intrinsics in the module | rewrite indices, choose the checked vtable, emit range checks and the comparisons behind them | SDLayoutBuilder, SDBuildCHA |
| SDReturnChecks | `SafeDispatchReturnChecks.cpp` | IDs, type, flags per function; the generated blocks | loadFunctionData, processFunction; blocks run at run time | SDReturnAddress through metadata, SDMachineFunction through NOPs |
| SDMachineFunction | `lib/CodeGen/SafeDispatchMachineFunction.cpp` | maps from location to range, ID and kind; SkipPass | load, processVirtual/Static/UnknownCallSite | SDReturnRange through metadata and debug locations |
| SDCleanup, SDMoveBasicBlocks | same names | none | drop intrinsics, place blocks | - |
| LockFileManager, compileAndLoadModule | `src/lib/Support/LockFileManager.cpp`, `src/tools/clang/lib/Frontend/CompilerInstance.cpp:1000` | the lock file, the unique files and the module file on disk; Owner and Error of each process | lock, waitForUnlock, unlock; compile, wait or load | the other compilers, through the file system only |
| libdlcfi | `sd/libdlcfi/dlcfi.cpp` | range maps of loaded libraries | look up a vptr | run time |

The order of the passes is fixed in `PassManagerBuilder.cpp`: SDFix, SDBuildCHA, SDReturnAddress,
SDReturnRange, SDLayoutBuilder, SDUpdateIndices, SDSubstModule, SDReturnChecks, SDCleanup,
SDMoveBasicBlocks; SDMachineFunction runs in the code generator.

The passes are sequential: nothing in them runs concurrently, and nothing survives the process. What
makes them hard is of another kind:

* **order**: the metadata of classes comes in the order of linking, sets and maps are iterated in
  the order of mangled names, uses in the order of a use list. The result must not depend on it;
* **numbers kept in step by recursion**: a range is meant to be exactly the IDs of a subtree, though
  its ends come from a counter that runs on in every recursive call;
* **two counters in one space**: function IDs upwards, type IDs downwards;
* **data handed on through a detour**: metadata read back by counting operands, calls found again by
  source location, numbers recovered from NOP displacements in unsigned arithmetic;
* **address arithmetic**: a check stands for a set of classes, but compares a rotated difference of
  addresses with a number; vtables of unequal length must come out at equal distances;
* **asserts that only some builds have**.

The compilers around the module cache are concurrent: they interleave between any two system calls,
on several hosts, end at any point and leave their files behind, give up after a time, and take away
locks that they believe dead.

What makes each part correct: the clouds are the hierarchy of the metadata and all asserts hold; the
sort lists bases first; each function entry has one ID, each range is its subtree (without virtual bases) and covers every
override that a call may reach; static, virtual and type IDs are apart; equal type IDs mean types
the encoding treats alike; a call carries the label of its own callees; a legal return passes its
check and another fails it; in the new vtables every slot a class shares with its bases is at the
same distance from the address point, a legal virtual call passes its check and reads what it read
before, and a vptr of another class is trapped. From end to end: whatever slot, thunk or destructor a
call reaches, the function returns to it. Of the lock files: a lock that names a running process names
one that holds it, files do not dangle or pile up, and nobody waits forever.

## 2. The modules

    CxxHierarchy   class metadata of a C++ program          (pure operators)
    CloudGraph     the graph this metadata describes        (pure operators, reference)
    ClassClouds    SDBuildCHA::buildClouds and sizes        (state machine)
    TopoSort       SDBuildCHA::topoSort                     (state machine)
    BuildCHA       ClassClouds, then TopoSort on its result (composition) + BuildCHAProofs (TopoSort's too), MCBuildCHA
    FunctionInfo   SDBuildCHA::buildFunctionInfo            (state machine)
    FunctionTrees  what FunctionInfo's IDs are for          (properties)    + FunctionTreesProofs, MCFunctionInfo
    IdSpace        abstract: every owner gets its own IDs   (specification)
    TypeEncoding, TypeEncoder   SDEncode.h
    ReturnIds      SDReturnAddress                          (state machine) + ReturnIdsProofs, MCReturnIds
    Nops           the words in the NOPs
    CallSites      SDReturnRange                            (state machine)
    MachineCalls   SDMachineFunction                        (state machine)
    CallLabels     CallSites, its metadata, MachineCalls    (composition) + CallLabelsProofs, MCCallLabels
    SequenceLemmas facts about sequences, recursive functions and graphs for the proofs
    SortedSets     the elements of a finite set in an order (pure operators)
    ReturnChecks   SDReturnChecks and the generated blocks  (state machine) MCReturnChecks
    VTableLayout   SDLayoutBuilder                          (state machine)
    VptrChecks     VTableLayout, then SDUpdateIndices, SDSubstModule and the linker
                                                            (composition) + VptrChecksProofs (VTableLayout's too), MCVptrChecks
    BackwardEdge   FunctionInfo, ReturnIds, CallLabels, ReturnChecks on one program
                                                            (composition) + BackwardEdgeProofs, MCBackwardEdge
    LockFile       LockFileManager                          (actions of one process)
    ModuleBuild    LockFile under compileAndLoadModule      (state machine) + ModuleBuildProofs, MCModuleBuild

Names of operators, actions and variables are those of the code. Definitions marked "Mutant" are
wrong variants of the definition that follows them; nothing in a specification uses them. They
record which bug each property would notice.

**CxxHierarchy** takes a program as a declaration of its classes: bases, virtual bases and declared
methods. `SubVTables` lays the classes out as clang's VTableBuilder does, `ClassInfos` is what
`sd_insertVtableMD` stores. It serves the runs as the source of inputs: every hierarchy that TLC sees is
one that a C++ program has. Vbase and vcall offsets lie before the header of a vtable, and
`VirtualThunks` says which slots hold thunks that read them. Simplifications: a virtual
base carries data and so is never a primary base; it has one sub-vtable where thunks are asked for; no
construction vtables; one slot per method; no return adjustments. `MCFunctionInfo` and `MCBackwardEdge` make two
slots with one name out of two methods, as the two slots of a destructor have.

**ClassClouds**: `ReadNode` takes one of the metadata nodes in any order (`extractMetadata` drops
repetitions of a class), `ReadSubVTable` is one round of the loop at `SafeDispatchCHA.cpp:250`, with
everything that it records. `RecordAncestors`, `NameSubObjects` and `calculateChildrenCounts` are the
loops behind it, one root or class per step. `build_undefinedVtables` is the local set of the code,
kept as state so that its assert can be stated.

**TopoSort**: the recursion of `topoSortHelper` as a stack of frames, a node and the children still to
be visited. `tempMarked` is never cleared, as in the code. **BuildCHA** calls it when the clouds are
finished, on the children of primary vtables that they hold.

**FunctionInfo**: first the loop that fills `functionImplMap` (`NextClass`, `NewImpl`, `KnownImpl`), then
the one that numbers (`NumberBase`, `SkipNumbered`), with `buildFunctionInfoForFunction` as a stack
of frames (`Enter` on a call, `NumberChild` per child, `FinishFunction` on return, which checks
`RangeConsistent` against the caller's frame). The class order is any topological order, since what
BuildCHA shows of the sort is that it is one; the names order the slots of a vtable arbitrarily.
Asserts are not guards: the code goes on as a build without asserts does.

**FunctionTrees** says what the numbering achieves, and what it needs of the metadata for that, as `LaidAssumption`:
the class order lists bases first (what TopoSort shows) and no class twice; a slot is inherited by the vtables below,
keeps its function or gets one of the derived class, and two slots of a class with one function do so alike
(`SlotsParallel`: destructors, covariant overrides, the same method in secondary vtables); and a function is named by
a class that has it in its primary vtable. Shared virtual bases are admitted. That the vtables are a forest, as they
are without virtual bases, is a premise (`IsForest`) only of what needs it: that ranges are subtrees, and the upper
end of the range of a call. TLC evaluates the assumption on all inputs of `numbering`, which CxxHierarchy lays out as
clang does.

**ReturnIds**: one action per outcome of `processFunction`. A function has a kind that stands for what
the pass tests in its name. **TypeEncoder** is shared state of ReturnIds and CallSites. Types are
records; the encoding is computed as in the code, with parameters in base 32. `Shape` says independently of it what an
encoding is meant to keep of a type.

**CallSites**, **MachineCalls**, **CallLabels**: a call has a kind, a source location or none, and what the
passes ask of it. The virtual loop takes uses in any order, the static loop goes through the module.
`storeCallSites` fixes the metadata and stands for instruction selection, which keeps locations and
turns direct calls into calls of symbols. MachineCalls loads the two lists into maps at the first
machine function and looks each call up. Locations are model values; a made-up one is its number.

**ReturnChecks**: `loadFunctionData` reads operands by their number, as the code does, from operands that
`Operands` writes as SDReturnAddress does. `Return` picks a return site; from there on each basic
block that the pass has generated is an action. Arithmetic is modulo `Word`.

**VTableLayout** has one action per round of the three loops of `buildNewLayouts`: `Layout(root)`
interleaves or orders a cloud, `Emit(root)` clones the thunks and emits the new array,
`calculateVPtrRanges(root)` computes the ranges. Roots are taken in the order of names, and within
`Emit` the thunks before the array, as in the code. `verifyNewLayouts` states what the assertion of the pass
tests, with its early returns: for ordered layouts only the first root is looked at. What the pass asks of
SDBuildCHA is in `cha`, with `rank` the order of names and `undefined` the classes without a vtable.
Sub-vtables are not strings of constants: a slot of a new array holds the old slot that it
stands for, and the clone if that is a thunk. The recursive helpers are recursive functions. Where the code walks over a
`std::set`, calls `std::sort` or fills a layout row by row, the model lists a set in an order with `Sorted` of
**SortedSets**: an element comes behind as many others as precede it. `WellFormed` says what the queries answer in
a C++ program whose primary vtables are those of non-virtual bases, `ThunksFit` that a thunk's name says which vcall offset it reads, and
`CallSitesAssumption` that a call site names a class with the slot of the method. TLC evaluates them on all inputs of the runs.

**VptrChecks** takes over when the layout is done: `handleSDGetVtblIndex` and
`handleSDGetCheckedVtbl` rewrite all call sites, `Link` stands for the linker, which puts
the arrays of the clouds at aligned addresses one behind the other in any order. `InRange` is the
comparison that SDSubstModule generates, with the rotation, modulo `Words`, the number of words that can be addressed.
`Targets` says independently of the pass which vptrs a call may legally meet. `VptrChecks` goes on whatever
`verifyNewLayouts` has said, as a build without asserts does. `MCVptrChecks` derives the queries and
the call sites of a program from CxxHierarchy and CloudGraph; that SDBuildCHA answers these queries so is
part of `CloudsAreHierarchy` of `build_cha`, which is proved as well.

**BackwardEdge** instantiates the four modules of the backward edge over one state and says what each
hands to the next: the numbering's IDs and ranges go to SDReturnAddress (`runReturnAddress`), its
FunctionIDMap and the ranges of the called methods to SDReturnRange (`runReturnRange`), the NOPs behind a call
and the metadata of a function to SDReturnChecks (`runReturnChecks`). Then one function runs and
returns to one call of the program (`returnToCall`). Which functions a call may reach is an input: `MCBackwardEdge`
takes it from the slots of the vtables, not from the passes. A method may be in
a slot as itself, as a thunk, or as one of the destructors; the two destructor slots of a class have one
name in the metadata, as in the code. What stands in the first of them is an input too, the complete destructor or the base
destructor, so that the two outcomes of SDFix are both covered. What a program is, for the run and for the proofs, says
`SystemsAssumption`: metadata as in FunctionTrees; functions with names of their own; calls with locations of their own or none;
a virtual call names a method in a class that declares it, and a function it reaches, or the one behind a thunk,
has one of its slots in a vtable below, if the metadata names it at all; a direct call reaches what it names.
TLC evaluates it on all programs of the run.

**LockFile** has one action per system call of LockFileManager on Unix (read the lock file, ask for the
owner, remove, create the unique file, link, poll, unlink), and `Exit` at any point. The lock file is a symbolic link, so the
model keeps the process whose unique file it names; a link whose file is gone is not visible
but in the way. A process knows of others only what the files say and whether a process of its host
runs; one of another host is taken to run, as in the code. **ModuleBuild** puts `compileAndLoadModule`
around it: the retry loop over the states of the lock, compilation as a step that
writes the module for the configuration of the process or fails, and the load that decides whether it is out of date.

**IdSpace** is the abstract specification of both numberings: an owner that has no ID claims one
that nobody has, an owner that has one keeps it. FunctionInfo and ReturnIds implement it under a
refinement mapping from entries or functions to their IDs (`ImplementsIdSpace`).

## 3. The runs

| run | shows | bounds and why they are enough |
|---|---|---|
| `numbering` | UniqueIDs, RangeConsistent, RangesAreSubtrees, CallsCovered, ImplementsIdSpace, Terminates | four classes without virtual bases: 256 combinations of bases and overrides of two methods, and 48 of destructors, whose two slots have one name; every class order and slot order. This has multiple inheritance, chains, siblings and overrides in secondary vtables: all cases that the recursion and the entry lists distinguish |
| `return_ids` | StaticIDsAreOwn, SpacesApart, TypeIDsAreShapes, ImplementsIdSpace | modules of three functions of all kinds, and pairs of address-taken functions over 31 signatures up to the limit of parameters (3 instead of 8); type IDs start at 9, where the two spaces can fill up |
| `call_labels` | LabelsAreOwn, PseudoLocsAreUnique, VirtualsStayVirtual | three calls, every pair of kinds for the first two, locations own, shared or missing. Interference between calls is pairwise (through a location, the counter of made-up locations or the encoder); the third call shows that it does not add up |
| `backward_edge` | VirtualReturnsPass, DirectReturnsPass, EarlierIDsFail, TypesMeet | six hierarchies of two to four classes: chains, secondary bases, a shared virtual base, destructors with one and with two bases; every topological order, each method called in each class that declares it, direct and indirect calls with and without tail marker. `MarkBit` 32 and `Word` 128 instead of 2^19 and 2^32: IDs, widths and wrapped differences keep their order. Behind calls without NOPs, and in place of a second NOP, stand two words of code, the least and the greatest |
| `checks_width`, `checks_static` | **violated**: `OutOfRangeFails`, `OwnCallPasses` | SDReturnChecks alone, `MarkBit` 16, `Word` 64: functions with up to three IDs, and ranges of up to four |
| `build_cha` | UndefinedAreUnread, SlotsHaveOneOrder, CloudsAreHierarchy, NeverCyclic, BasesFirst, NoneMissing | four classes, with multiple inheritance and diamonds, each linked from several sets of units, so that classes are repeated in the metadata and some have no emitted vtable; classes with virtual bases only and no functions; nodes in every order |
| `vtable_layout` | LayoutVerified, RangesAreDescendants, ThunksKeepTheirOffsets, LegalCallsPass, CallsKeepTheirSlots, OthersAreTrapped | programs of four classes with single, multiple and secondary inheritance and with diamonds, and of five with a class that derives from the shared base on its own; both layouts, two orders of names, up to two classes without a vtable; every virtual call that each class admits; every order of the arrays in memory. A cloud has up to seven vtables, so that ranges fall in pieces, are merged, and have undefined ends. `Words` 1024: all arrays fit, differences wrap |
| `layout_between` | **violated**: `PairsKeepDistances` | five classes; the one that does not share the virtual base has its name between two that do |
| `layout_gap` | **violated**: `LegalCallsPass` | six classes in the ordered layout |
| `module_lock` | LockIsHeld, NoDanglingLock, NoUniqueLeft, OnlyOwnersReport, NobodyWaitsForever, StaleLocksGo | three processes: two on one host, of which one needs another configuration, and one on another host, so that every pair of what they can know of each other occurs and a third can act between two; the module missing or out of date; every process may end anywhere; `MaxPolls` 2: a timeout can come first or last |
| `lock_owner` | **violated**: `OneOwner` | as `module_lock`, without fairness |

The passing runs have a type invariant as well, except `call_labels` and `vtable_layout`, where the
properties say more about each variable than its type. `CloudsAreHierarchy` compares the result of
ClassClouds, with the queries that later passes ask and the sizes of clouds that are forests, with
`CloudGraph`, which reads the graph directly off the metadata. `OthersAreTrapped` also says that a check replaced by
a comparison with one constant decides as the range check would.

### What the violated runs say

* `OwnCallPasses`: in `generateCompareChecks` the branch to the failure block is taken when the IDs are
  equal (`SafeDispatchReturnChecks.cpp:514`).
* `OutOfRangeFails`: the width is compared with its mark bit set, so the upper end of a range has no
  effect (`:391`, `:396`). `EarlierIDsFail` of `backward_edge` is what is left of the check.
  (A failed check does not keep the function from returning in any case: `sd.fail` calls `donothing`
  and branches to the return, `:461`.)
* `PairsKeepDistances`: two classes share a virtual base; a third derives from it and comes between them in
  the order of names. The common child of the two is then met before the third class in the preorder, and the
  rows before the address points get an entry more between their vcall offsets than in the
  other parent. `SafeDispatchLayoutBuilder.cpp:219` skips pairs whose child comes first, so `LayoutVerified` still
  holds, and the one clone of a thunk (`:342`) has the vcall index of only one of them.
* `LegalCallsPass` in the ordered layout: address points are multiples of the stride, but a vtable with a long tail
  followed by one with a long head leaves a multiple free. The range is stored as the number of its
  vtables (`:912`), so its end comes before the last vtable. One such gap is masked, because the emitted
  comparison includes the end (`SafeDispatchUpdateIndices.cpp:781`); the run has two. `OthersAreTrapped` states
  exactly what that inclusive end lets through otherwise.

* `OneOwner`: `readLockFile` removes the lock file by name after it has failed to read it or has found
  its owner dead (`LockFileManager.cpp:37`, `:49`). Between the two another process may have created
  it; it goes on as the owner while the first creates the lock anew. `LockIsHeld` is what remains:
  the lock file itself never names a running process that does not own it. Two compilations at a
  time cost time only, since a module is written under another name and renamed.

The passing run of the layout leaves the two constellations of `layout_between` and `layout_gap` out by its programs and orders of names
(`MixedVariants` against `BetweenInputs` and `GapInputs`); everything else of it is the same module.

Notes from reading, which the models agree with and no run of the list shows:

* With a shared virtual base `buildFunctionInfoForFunction` reaches an entry on two paths. The assert
  "Function already has an ID?" (`SafeDispatchCHA.cpp:512`) fails; a build without asserts replaces the
  ID. `UniqueIDs` and `RangeConsistent` still hold then, and so does the lower end of `CallsCovered`; all three are
  proved. The new ID may leave the range of a call at its upper end; `backward_edge` has such a program.
* An inclusive end cannot express a sub-vtable without functions (`SafeDispatchVtblMD.h:347`), and the
  assert at `SafeDispatchCHA.cpp:654` fails for one. `build_cha` has such classes.
* A static function without a type ID has two operands and loses its ID when they are read back
  (`SafeDispatchReturnChecks.cpp:308`).
* The blocks for indirect calls compare the type ID without the mark bit of the NOP (`:435`), so a virtual
  function that is called through a plain pointer always runs into `sd.fail`.
* Virtual thunks (`_ZTv`) and deleting destructors get static IDs. They pass virtual calls only because the
  comparison of static IDs is inverted: were `OwnCallPasses` repaired alone, `VirtualReturnsPass` would break.

### Fairness

`FairSpec` of FunctionInfo is weak fairness of `Next`. A pass is a sequential program that runs until it
returns; nothing it does waits for anybody. `Terminates` rests on nothing else.

`FairSpec` of ModuleBuild is weak fairness of `Proceed(p)` for each process: the operating system lets every
running process take its next step. `Start`, `Compile`, `CompileFails` and `Exit` are not fair: a
compiler need not come to the import, its compilation may never end, and nobody has to crash.
`NobodyWaitsForever` and `StaleLocksGo` hold all the same, since a waiting process gives up
after `MaxPolls` polls and removes the lock.

`Done` stutters in final states, so that TLC's deadlock check tells a run that has ended from one that is stuck.

## 4. The proofs

All theorems hold for every value of the constants that satisfies the named assumptions.

**FunctionTreesProofs, the numbering.** Assumption: `WellFormed` of every hierarchy (children, functions and roots
are over its vtables). It does not exclude diamonds or cycles. `TypeCorrect` has a frame type as its
core. `IDsAreUnique` is inductive once every ID in use is known to be below `currentID`.
`RangesAreConsistent` needs what connects the recursion with the counter: `Adjacent`, each frame's
range ends right before the range of the frame that it has called begins, and the topmost one ends
right before `currentID`. Returning widens the caller's range to the callee's end, so the relation
moves down by one frame. This is the argument for `SafeDispatchCHA.cpp:528` that no test run can give.

**FunctionTreesProofs, the trees.** Assumption: `LaidAssumption` (see FunctionTrees). `Below`, the set of vtables at or below
one, is recursive in the model; the proofs use it as the least set that holds the vtable and is closed under
children (`BelowUnfolds`, `BelowLeast`), by a minimal counterexample over the length of paths, so no induction theorem is needed.
The inductive invariant has three parts. `LaidInv` is about the loops: which classes have been read
(`Reading`, `Collecting`), that an implementation that is listed is in the lists of all its slots (`Implemented`,
`Queued`, `Keyed`), that the first slot of a function comes first in the list (`Based`). `HeapInv` is about the
recursion in any program: what was numbered below an entry has IDs from the first of its range on. A shared
virtual base is numbered again on its second path, with a greater ID, so this survives, and it gives the lower end of
`CallsAreCovered` (with `SameFunctions`: slots of one function stay parallel all the way down). `TreeInv` is the
third part, for forests: what has an ID is a union of finished slot trees and the path on the stack (`Ranged`,
`Walking`). From it follows `BaseIsFresh`: the entry that `NumberBase` takes has a slot tree without any ID, since a
tree that overlaps another lies in it or around it (`ForestComparable`) and a base is read before what overrides it.
So no entry is numbered twice, every step that gives an ID is a claim of IdSpace (`NumberingImplementsIdSpace`, for
programs that are all forests), a range is its subtree (`RangesAreTheSubtrees`), and the range of a call holds an ID of
whatever it may run.

**ReturnIdsProofs.** Assumptions: `WellFormed` modules (virtual IDs are below `maxID`, names of
functions are distinct, an integer type has a width), `StartTypeID` and `MaxParams` positive. `IInv` adds to the types that static IDs are
exactly between the start and the counter (`Counted`), in the order of the functions done, and
that no name to come has an entry (`Numbered`). `StaticIDsAreOwn` and `SpacesApart` follow. `TypesKept` adds that what is still to be processed is a tail of the
module's functions. From it and from `Fresh` (a function to come has no entry yet, so none is
processed twice) follows the refinement `NumberingIsASpace`: every outcome of `processFunction` is a
claim of an ID that nobody has, or stutters. `TypeIDsTellShapes` needs two things: that the encoder's map is
injective, which holds because its counter only goes down (`Counted`), and that the encoding is one of shapes
(`EncodingIsShape`). The encoding is a number in base 32 whose digits, the codes of types, are never 0; so the encodings of
two lists that differ in length, or in the code of one position, differ (take the last position where they do,
`DigitsAgree`), and 32 itself, for functions with too many parameters, is the encoding of nothing else. The encoding is a
recursive function; that it has the values which its definition says is `RecursionHasSolution` of SequenceLemmas, proved for any
recursion in which a measure gets smaller.

**CallLabelsProofs.** Assumption: `LocationsAssumption` (a real location is none of those made up, which
have an empty file name; a program is a sequence). `LInv` says that made-up locations are numbered below the
counter and no two calls share one: `PseudoLocsNeverShared`. `FInv` says what the two lists hold at every
moment of the two loops: an entry for exactly the calls that have been processed and can be described,
under locations that no longer change. `MInv` adds that the NOPs emitted and the calls to come are
together the calls of the module in their order, and that the maps hold the lists. A lookup by location
then meets an entry of the same location, and its own if locations are distinct: `LabelsStayOwn`, and
without distinct locations `VirtualsKeepTheirs`. SequenceLemmas holds the facts about sequences of any elements.

**BackwardEdgeProofs.** Assumptions: `ConstantsAssumption` (a word holds more than two marks, type IDs start below the mark
bit; 2^32 and 2^19 do) and `SystemsAssumption` (see BackwardEdge). The modules above are instantiated by BackwardEdge over
one state, and their proofs are instantiated likewise (`InfoP`, `AddressP`, `LabelsP`): a step of the
composition is a step of one of them, or hands something over, or leaves the part alone. `Invariant` has four parts.
`ChaInv` is that of FunctionTreesProofs, shared virtual bases included. `AddressInv` says that what SDReturnAddress was asked
is what the numbering left, and adds to its invariant `Outcomes`: which list, IDs and
type ID each kind of function ends up with. `LabelsInv` is that of CallLabelsProofs about the calls as `CallOf`
describes them. `ChecksInv` follows the function that returns: what it has read back is what SDReturnAddress stored,
classified by its operands, and whichever block runs, the comparisons before it have failed.
The argument for `VirtualCallsReturn`: what the call reaches has an entry in the call's slot, so by the heap order of the numbering
an ID of it is at least the first of the range (`CallReaches`), and the difference is below the mark bit; the width in
the NOP has the mark bit set, which makes it at least as large, so the function passes though the width is
meaningless. A thunk or deleting destructor with a static ID passes because its ID differs from
the first of the range. For `EarlierAreCaught` the ID is below the range, so the difference wraps to one
greater than any marked width. Both need `Fits`, that the function IDs handed out stay at or below the mark bit; the code does not test it.
`DirectCallsReturn` and `TypesAgree` hold without `Fits`. The order of the entries of a function, `InOrder`, matters to
none of them.

**ModuleBuildProofs.** Assumptions: `NoProc` is no process, `MaxPolls` is positive, configurations are not
the marks for a missing or outdated file. `LockInvariant` adds to the safety properties `Local`: what
a process knows and has follows from where it is. A lock can name a running process only from its
`CreateLink` to its `Release`; whoever removes the lock in between leaves no name at all. `LocksAreHeld`,
`LocksNeverDangle`, `UniqueFilesGo` and `WaitersNeverReport` hold for any number of processes and hosts.

**BuildCHAProofs, the sort.** Assumption: `WellFormed` hierarchies: children are among the classes and a
class is declared before those derived from it, which is what makes a C++ hierarchy acyclic. `IInv` says
that the frames form a path of descending classes, each marked and unvisited, that what is visited
is closed under children except for what the frames still have to do, and that
everything in `ordered` stands before its children. A marked class that is not on the stack is
visited: hence the assert on `tempMarked` holds though marks are never removed.
`AllSorted` says that when the roots are done every class is listed, if every class other than a root is a child of another's primary vtable: otherwise take the missing class that is declared first.
`SortInvariant`, `ResultIsTopological` and `AssertionNeverFails` are about TopoSort's own `Spec`, for a given hierarchy;
the theorems of the next paragraph are about the hierarchy that the clouds hold.

**BuildCHAProofs, the clouds.** Assumption: `ModulesAssumption`, of every linked module: parents are described in the
module themselves (`WellLinked`), a base class is complete where a class is derived from it
(`BasesDeclaredFirst`), a node describes one class and no two nodes the same (`OneClassNodes`), a primary vtable without a parentless
address point extends a base's primary vtable (`PrimaryExtends`), and the sub-vtables of a class join, from slot 0 on (`SubVTablesJoin`, what
`sd_generateSubvtableInfo` asserts while it computes them). `UInv` says that every vtable the module describes has been read or is in a
node or list still to come, that the graph holds no others, and that `build_undefinedVtables` is the part of
the graph that has not been read. So it is empty at the end in whatever order the nodes come:
`UndefinedAreLater`. `CInv` says that a child in the graph has been read and has the vtable among its
parents. With both, what the clouds give to the sort is `WellFormed`, `IInv` of the sort holds from there
on, and the sort in the composition has its types (`CloudsSortTypes`), lists bases first
(`CloudsSortBasesFirst`) and never meets its assert (`CloudsNeverCyclic`). `PInv` says that a class that has been
read is a root or the child of a base's primary vtable, so the sort, which goes down over primary vtables only, reaches
them all: `CloudsMissNone`. `RInv` says that the ranges and address points recorded for a class are those of the sub-vtables of its
node, as many as have been read, however often the class is repeated; so they lie one behind the other
and a slot has one order: `CloudsOrderSlots`.

`CloudsAreTheHierarchy` needs two assumptions more, also in `ModulesAssumption`: a class has the same info in all units
(`UnitsAgree`, the one definition rule), and a sub-vtable has a parent unless it is the primary one of a root
(`OneCloudEach`, the assert in `buildClouds`, `SafeDispatchCHA.cpp:305`), where nothing is below two roots: otherwise `ancestorMap`
would hold the root that comes first, and there would be no one layout class. Virtual primary bases aside, all that a vtable is laid out around
extends one root; diamonds are admitted. `GInv` says what the graph is while it is read: under each vtable the
vtables read so far that name it as a parent. At the end it is the hierarchy (`GraphIsHierarchy`), its edges
lead to classes defined later and it is finite (`GraphRanked`), so every vtable is below one root (`OneRootAbove`). `DInv` says
that the loops behind it record for a vtable a root that it is below, for a sub-vtable the ancestor of one of its parents,
and for a vtable its count. The count is a recursion over the graph with a sum over sets in it; where no vtable has two
parents what is below two children of a vtable is disjoint, so that the sizes solve the recursion, and by a counterexample of greatest rank
nothing else does (`CountsAreSizes`, `SizesAddUp`).

**VptrChecksProofs.** Assumptions: `InputsAssumption` (`WellFormed` queries: classes can be numbered so that deriving
leads upwards, names are in an order, a vtable is below the root that it is said to be below and has around its address point at least what
its parents have), `ThunksAssumption`, `CallSitesAssumption`, and `WordsAssumption` (there is an address; it need
not be a power of two). Diamonds are admitted. The inductive invariant `ChecksInv` follows the loops of
`buildNewLayouts` and the two passes behind them; each part says what one of them has left for the roots it has done:
* `RangesInv`, the ranges. The preorder of a cloud is the solution of the recursion of `preorderHelper`, which ends because every round
  either drops an entry of the list or meets one of finitely many vtables (`RestIsNat`); what it has met and what is still to do are together closed under
  children (`Walking`), so it lists exactly what is below its root, once (`PreorderFacts`). `calculateVPtrRangesHelper`
  merges ranges that overlap or touch, which loses and adds no index (`MergeKeeps`), and a vtable's indices are its own and those of its children
  (`ReachUnfolds`): `RangesAreDescendantsHold`.
* `LayoutsDone`, the layouts. In the interleaved one the entry of a slot is the number of slots in lower rows, or in the same row and earlier in
  preorder. From a vtable v to a later one w the entries of a row are therefore apart by the number of vtables from v to w, if all of these have
  the row (`RowDistance`); in particular address points follow the preorder, since every vtable has row 0. In order, a vtable's slots
  are one behind the other. This gives every assertion of `verifyNewLayouts`: `LayoutVerifiedHolds`.
* `EmitsDone`, `MemDone` and `ThunksDone`, the arrays, the ranges in memory and the clones.
* `SitesDone`, the call sites, and `IsLoaded`: the linker puts arrays one behind the other, so they do not overlap (`PlacingSeparates`).

`LegalCallsPassHolds` (clouds interleaved): the vptr of a legal target is the address point of a defined vtable below the one that is checked, so one
of the ranges holds its index; the vtables of a range have address points one word apart from the first on, and the width is their number
(`ChecksCover`). The difference of two addresses modulo `Words` is then less than the width, even if an array wraps around.
`OthersAreTrappedHolds` needs two premises more. `ArraysFit`: no array wraps around the addresses; one that did
could meet a range from the other side. `UniqueSite`: the static class has one sub-vtable for the class of the method; where it has none or several, `getSubVTableIndex` says -1
(`SafeDispatchCHA.cpp:833`) and the check is that of a class further up, which admits more than `Targets`. The address point of another
vtable is then outside all ranges, and its difference is the width, which is the inclusive end that the property spells out, or greater. `CallsKeepTheirSlotsHolds`:
the new index of a site was read off the class of the method or, if that is undefined, off the first defined class below it; in order all distances
from the address point stay, and interleaved they stay where `SitesTogether` holds, that is, where all vtables that are listed between two
possible targets have the row of the method. That follows if no vtable is listed before one that it derives from (`ParentsFirstSuffices`); with
diamonds it may be, and `layout_between` shows what happens to rows before the address point then.
`ThunksKeepTheirOffsetsHolds` says the same of the vtables that share a clone (`ThunksTogether`), where `createThunkFunctions` takes the index of the first
and skips the others. The premises are about the hierarchy, the call sites and the link only; evaluated on the inputs of `vtable_layout`
`UniqueSite`, `SitesTogether`, `ThunksTogether` and `ArraysFit` hold of every one, and `ParentsFirst` of those without such
diamonds, so the run checks the three properties without them.

Only model-checked: of VptrChecks, `LegalCallsPass` and `OthersAreTrapped` for clouds that are put in
order, where the first is false in general (`layout_gap`). Out of the prover's reach: liveness under fairness (`Terminates`, `NobodyWaitsForever`,
`StaleLocksGo`) and ENABLED. The library's induction theorems have an operator parameter, which the provers cannot
instantiate. Where a recursion only collects a set, as `Below` and `extractMetadata` do, the
proofs get by with least sets and minimal counterexamples, and where it computes a number, as the encoding does, with
`RecursionHasSolution`: so do the preorder, the ranges and the layouts. Orders are given as sets of pairs, since a
lemma cannot take an operator. No module declares a RECURSIVE operator.

## 5. Not modelled

* **SDFix**: replaces complete destructors that are only declared by the base destructor. It edits LLVM
  functions and metadata names; what the analysis sees of it, which function stands in the slot, is an input of
  MCBackwardEdge with both outcomes.
* **libdlcfi**: run-time lookup of ranges across shared libraries; see the plan.
* **Around the lock files**: the reuse of process numbers, the Windows variant, and GlobalModuleIndex, the
  other user of the lock; the rest of CompilerInstance.
* **Parts of the layout passes**: `interleaveCloud` and `newVtblAddress`, which nothing calls;
  `handleSDCheckVtbl`, because the only function of clang that emits its intrinsic (`sd_getCheckedVTable`) is
  never called; `handleRemainingSDGetVcallIndex`, `removeOldLayouts` and `clearAnalysisResults`.
  `prePadMap` stays 0 in the programs of the run: a derived class has at least its bases' entries before the
  address point unless a virtual base is primary, which CxxHierarchy leaves out.
* **SDCleanup, SDMoveBasicBlocks**: no state or decision of their own that a property would
  be about; SDCleanup erases uses while it iterates them, which depends on LLVM's lists.
* **Clang's emission of intrinsics, LLVM, the gold plugin**: upstream code, used as an environment.
* Statistics, logs, dot files.

## 6. Plan

Sitting order; what is done is marked.

1. *(done)* The backward edge up to single passes: FunctionInfo, ReturnIds, CallLabels,
   ReturnChecks; the hierarchy below it: ClassClouds, TopoSort.
2. *(done)* **BackwardEdge**: the composition of FunctionInfo, ReturnIds, CallLabels and ReturnChecks over
   whole programs, thunks and destructor slots included.
3. *(done)* **VTableLayout**: both layouts, thunks, ranges and their verification.
4. *(done)* **VptrChecks**: indices and range checks on top of it, up to the linked program. Left:
   virtual primary bases (they make `prePadMap` grow), destructor slots, `handleRemainingSDGetVcallIndex`.
5. *(done)* **LockFile** and **ModuleBuild**, with crashes, timeouts and liveness. Left: GlobalModuleIndex as a
   second user of the same directory.
6. *(done)* Proofs of ReturnIds' refinement, of CallLabels, of ModuleBuild and of BuildCHA; of FunctionTrees,
   shared virtual bases included, with its refinement; that type IDs tell shapes; that the clouds are the hierarchy, that the sort misses no class and slots have one order; of
   BackwardEdge from end to end; of VTableLayout and VptrChecks, up to the addresses of the linked program.
7. **Dlcfi** and **FixDestructors**, small modules of their own.
8. More proofs: of a condition on a hierarchy under which the checks
   of clouds in order have no gap, and then of `LegalCallsPass` there.
