---------------------------- MODULE ReturnChecks ----------------------------
(***************************************************************************)
(* SDReturnChecks: a function that has IDs compares them, before each of   *)
(* its returns, with what the NOPs at the return address hold.  First the  *)
(* pass reads what SDReturnAddress stored for the function and generates   *)
(* the blocks of the check; then the function is called, and the blocks    *)
(* run one by one when it returns.                                         *)
(*                                                                         *)
(* A function f has the metadata that is stored for it (list, ids, typeID, *)
(* which is NoType if its address was not taken then), its number of       *)
(* return instructions, whether its address is taken now, and whether it   *)
(* is a declaration or visible outside the module (external).              *)
(*                                                                         *)
(* A return site has the word that each of the two NOPs would hold; far    *)
(* tells that its address is above 0x2000000, where shared libraries are.  *)
(* kind, lo and hi say which call it is of, for the properties only.       *)
(***************************************************************************)
EXTENDS Naturals, Integers, Sequences, Nops

CONSTANTS Functions, Sites,
          Word    \* 2^32 in the code: the arithmetic of the checks is unsigned

VARIABLES f,               \* the function
          IDs, TypeID,     \* what is read for it
          Type, Flags,     \* how the pass has classified it
          NumberOfChecks,  \* checks that have been generated
          site,            \* where the function is about to return
          block,           \* the pass's phase, then the block that runs next
          next,            \* the ID that the next range block compares
          failed           \* the sd.fail block has run

vars == <<f, IDs, TypeID, Type, Flags, NumberOfChecks, site, block, next, failed>>
passVars == <<f, IDs, TypeID, Type, Flags, NumberOfChecks>>

NoType == 0
NoSite == [kind |-> "none", lo |-> 0, hi |-> 0, first |-> 0, second |-> 0, far |-> FALSE]

Init ==
    /\ f \in Functions
    /\ IDs = <<>> /\ TypeID = -1
    /\ Type = "None" /\ Flags = {} /\ NumberOfChecks = 0
    /\ site = NoSite
    /\ block = "load" /\ next = 1 /\ failed = FALSE

-----------------------------------------------------------------------------
(* The pass.                                                               *)

\* The operands of the metadata, as SDReturnAddress has written them: the name,
\* for a virtual function the number of its IDs, the IDs, and the type's ID.
Operands ==
    LET typed == IF f.typeID = NoType THEN <<>> ELSE <<f.typeID>>
    IN  CASE f.list = "virtual" /\ f.ids # <<>> ->
                 <<"name", Len(f.ids)>> \o f.ids \o typed
          [] f.list = "static" -> <<"name">> \o f.ids \o typed
          [] OTHER -> <<"name">>

\* What is read back depends on the number of operands.
loadFunctionData ==
    /\ block = "load"
    /\ block' = "process"
    /\ LET num == Len(Operands)
           ids == CASE num <= 2 -> <<>>
                    [] f.list = "static" -> <<Operands[2]>>
                    [] OTHER -> SubSeq(Operands, 3, 2 + Operands[2])
       IN  /\ IDs' = ids
           /\ TypeID' = CASE f.list = "static" /\ num > 3 -> Operands[3]
                          [] f.list = "virtual" /\ num > 2 /\ Len(ids) + 2 < num ->
                                 Operands[3 + Len(ids)]
                          [] OTHER -> -1
    /\ UNCHANGED <<f, Type, Flags, NumberOfChecks, site, next, failed>>

\* Every return instruction gets a check, if there is an ID to look for.
ChecksOf == IF IDs = <<>> THEN 0 ELSE f.returns

processFunction ==
    /\ block = "process"
    /\ f.list \in {"static", "virtual"}
    /\ Type' = IF f.list = "static" THEN "Static" ELSE "Virtual"
    /\ NumberOfChecks' = ChecksOf
    /\ Flags' = (IF ChecksOf = 0 THEN {"NoReturn"} ELSE {})
                \cup (IF f.external THEN {"External"} ELSE {})
    /\ block' = "body"
    /\ UNCHANGED <<f, IDs, TypeID, site, next, failed>>

\* Blacklisted, or a function that later passes have added.
processOther ==
    /\ block = "process"
    /\ f.list \notin {"static", "virtual"}
    /\ Type' = "BlackListed"
    /\ block' = "body"
    /\ UNCHANGED <<f, IDs, TypeID, Flags, NumberOfChecks, site, next, failed>>

-----------------------------------------------------------------------------
(* The function runs.                                                      *)

\* It has been called from the site s and reaches a return instruction.
ReturnTo(s) ==
    /\ block = "body" /\ f.returns > 0
    /\ site' = s
    /\ block' = IF NumberOfChecks = 0 THEN "return"
                ELSE IF Type = "Virtual" THEN "range" ELSE "compare"
    /\ UNCHANGED <<passVars, next, failed>>

Return == \E s \in Sites : ReturnTo(s)

minID == site.first
width == site.second

\* Mutant: the comparison is signed.
SubSigned(a, b) == a - b

Sub(a, b) == (a + Word - b) % Word

Goto(b) == block' = b /\ UNCHANGED <<passVars, site, failed>>

\* The block that follows the comparisons of IDs.
AfterIDs == IF f.addressTaken /\ TypeID # -1 THEN "external" ELSE "fail"

\* Mutant: only the first ID is looked at.
RangeFirstOnly ==
    /\ block = "range"
    /\ next' = next + 1
    /\ Goto(IF Sub(Mark(IDs[next]), minID) <= width THEN "return" ELSE AfterIDs)

\* Mutant: the last ID of the range is outside of it.
RangeStrict ==
    /\ block = "range"
    /\ next' = next + 1
    /\ Goto(IF Sub(Mark(IDs[next]), minID) < width THEN "return"
            ELSE IF next < Len(IDs) THEN "range" ELSE AfterIDs)

\* sd.range: one ID of a virtual function against the site's range.
RangeBlock ==
    /\ block = "range"
    /\ next' = next + 1
    /\ Goto(IF Sub(Mark(IDs[next]), minID) <= width THEN "return"
            ELSE IF next < Len(IDs) THEN "range" ELSE AfterIDs)

\* The ID of a static function; equal IDs lead to the block of further checks.
CompareBlock ==
    /\ block = "compare"
    /\ Goto(IF Mark(IDs[1]) = minID THEN AfterIDs ELSE "return")
    /\ UNCHANGED next

ExternalBlock ==
    /\ block = "external"
    /\ Goto(IF site.far THEN "return" ELSE "indirect")
    /\ UNCHANGED next

IndirectBlock ==
    /\ block = "indirect"
    /\ Goto(IF minID = TypeID THEN "return" ELSE "indirect2")
    /\ UNCHANGED next

UnknownBlock ==
    /\ block = "indirect2"
    /\ Goto(IF minID = unknownMagic THEN "return" ELSE "fail")
    /\ UNCHANGED next

\* sd.fail does nothing and goes on to the return.
FailBlock ==
    /\ block = "fail"
    /\ failed' = TRUE
    /\ block' = "return"
    /\ UNCHANGED <<passVars, site, next>>

Leave ==
    /\ block = "return"
    /\ block' = "returned"
    /\ UNCHANGED <<passVars, site, next, failed>>

Stopped == block = "returned" \/ (block = "body" /\ f.returns = 0)
Done == Stopped /\ UNCHANGED vars

Next == \/ loadFunctionData \/ processFunction \/ processOther
        \/ Return
        \/ RangeBlock \/ CompareBlock
        \/ ExternalBlock \/ IndirectBlock \/ UnknownBlock
        \/ FailBlock \/ Leave
        \/ Done

Spec == Init /\ [][Next]_vars
-----------------------------------------------------------------------------
Returned == block = "returned"
HasID(lo, hi) == \E i \in DOMAIN f.ids : f.ids[i] \in lo..hi

\* The variables have the values the code gives them.
TypeOK ==
    /\ Type \in {"None", "Static", "Virtual", "BlackListed"}
    /\ Flags \subseteq {"NoReturn", "External"}
    /\ NumberOfChecks \in 0..f.returns
    /\ TypeID \in Nat \cup {-1}
    /\ block \in {"load", "process", "body", "range", "compare", "external", "indirect",
                  "indirect2", "fail", "return", "returned"}
    /\ block = "range" => next \in DOMAIN IDs
    /\ block \in {"compare", "external"} => IDs # <<>>

-----------------------------------------------------------------------------
(* What comments and messages of the code say.                             *)

\* "extract actual value using the bit mask" (SafeDispatchReturnChecks.cpp:383
\* and 388): the check compares with the minimum and the width of the range,
\* so a function all of whose IDs are outside of it runs into sd.fail.
OutOfRangeFails ==
    Returned /\ f.list = "virtual" /\ f.ids # <<>> /\ ~f.addressTaken /\ site.kind = "virtual"
    /\ ~HasID(site.lo, site.hi) => failed

\* "Branch to CheckFailed if the ID check fails" (SafeDispatchReturnChecks.cpp:516):
\* a static function that returns to a direct call of it passes its check.
OwnCallPasses ==
    f.list = "static" /\ site.kind = "direct" /\ HasID(site.lo, site.lo) => ~failed
=============================================================================
