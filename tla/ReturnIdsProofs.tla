-------------------------- MODULE ReturnIdsProofs --------------------------
(***************************************************************************)
(* The ID space of the backward edge, for every module: virtual IDs below  *)
(* maxID, static IDs between maxID and functionID, type IDs above          *)
(* NextTypeID.                                                             *)
(***************************************************************************)
EXTENDS ReturnIds, SequenceLemmas, TLAPS

\* Where the IDs of a function lie.
Numbered ==
    /\ module.maxID \in Nat /\ functionID \in Nat /\ functionID > module.maxID
    /\ \A n \in DOMAIN module.virtualIDs : module.virtualIDs[n] \in Seq(0..(module.maxID - 1))
    /\ \A n \in DOMAIN funcInfo :
          Ids(n) \subseteq IF funcInfo[n].list = "static"
                           THEN (module.maxID + 1)..(functionID - 1)
                           ELSE 0..(module.maxID - 1)

\* Where the IDs of the types lie; each stands for one encoding.
Counted ==
    /\ NextTypeID \in Nat
    /\ \A e \in DOMAIN EncodingToTypeID :
          EncodingToTypeID[e] \in Nat /\ EncodingToTypeID[e] > NextTypeID
    /\ \A d, e \in DOMAIN EncodingToTypeID : EncodingToTypeID[d] = EncodingToTypeID[e] => d = e

IInv == Numbered /\ Counted /\ StaticIDsAreOwn

\* The pass starts on a module.
Started ==
    /\ WellFormed(module)
    /\ todo = module.functions
    /\ functionID = module.maxID + 1
    /\ DOMAIN FunctionIDMap = {} /\ DOMAIN funcInfo = {}
    /\ DOMAIN EncodingToTypeID = {} /\ NextTypeID = StartTypeID

LEMMA InitStarted == Init => Started
BY ModulesAssumption DEF Init, EncoderInit, Started

LEMMA InitInv == Started => IInv
<1> SUFFICES ASSUME Started PROVE IInv
    OBVIOUS
<1>1. WellFormed(module) /\ functionID = module.maxID + 1
    BY DEF Started
<1>2. DOMAIN funcInfo = {} /\ DOMAIN EncodingToTypeID = {} /\ NextTypeID = StartTypeID
    BY DEF Started
<1>3. Numbered
    BY <1>1, <1>2 DEF WellFormed, Numbered
<1>4. Counted /\ StaticIDsAreOwn
    BY <1>2, StartTypeIDAssumption DEF Counted, StaticIDsAreOwn, StaticNames
<1>5. QED
    BY <1>3, <1>4 DEF IInv

\* What an action stores for the function it processes, whose name is f.
Stores(f, list, ids) ==
    /\ DOMAIN funcInfo' = DOMAIN funcInfo \cup {f}
    /\ funcInfo'[f].list = list /\ funcInfo'[f].ids = ids
    /\ \A n \in DOMAIN funcInfo : n # f => funcInfo'[n] = funcInfo[n]

LEMMA ElementOfSeq ==
    ASSUME NEW S, NEW s \in Seq(S), NEW i \in DOMAIN s
    PROVE  s[i] \in S
BY DOMAIN s = 1..Len(s)

LEMMA StoreStores ==
    ASSUME NEW list, NEW ids, Store(list, ids)
    PROVE  Stores(F.name, list, ids)
<1>1. CASE F.addressTaken
    <2>1. PICK t : funcInfo' = Put(funcInfo, F.name, [list |-> list, ids |-> ids, typeID |-> t])
        BY <1>1 DEF Store
    <2>2. QED
        BY <2>1 DEF Put, Stores
<1>2. CASE ~F.addressTaken
    BY <1>2 DEF Store, Put, Stores
<1>3. QED
    BY <1>1, <1>2

LEMMA EncoderCounts ==
    ASSUME Counted, NEW T, NEW id, getTypeID(T, id)
    PROVE  Counted'
<1>1. CASE UNCHANGED encoderVars
    BY <1>1 DEF Counted, encoderVars
<1>2. CASE ~UNCHANGED encoderVars
    <2>1. /\ DOMAIN EncodingToTypeID' = DOMAIN EncodingToTypeID \cup {Precise(T)}
          /\ \A e \in DOMAIN EncodingToTypeID' :
                EncodingToTypeID'[e] = IF e = Precise(T) THEN NextTypeID ELSE EncodingToTypeID[e]
          /\ NextTypeID > 0 /\ NextTypeID' = NextTypeID - 1
        BY <1>2 DEF getTypeID
    <2>2. NextTypeID' \in Nat /\ NextTypeID' < NextTypeID
        BY <2>1 DEF Counted
    <2>3. QED
        BY <2>1, <2>2 DEF Counted
<1>3. QED
    BY <1>1, <1>2

LEMMA StoreCounts ==
    ASSUME Counted, NEW list, NEW ids, Store(list, ids)
    PROVE  Counted'
<1>1. CASE F.addressTaken
    BY <1>1, EncoderCounts DEF Store
<1>2. CASE ~F.addressTaken
    BY <1>2 DEF Store, Counted, encoderVars
<1>3. QED
    BY <1>1, <1>2

\* A function that is not numbered by the pass takes IDs below maxID.
LEMMA KeepsNumbering ==
    ASSUME Numbered, StaticIDsAreOwn, NEW list, list # "static",
           NEW ids \in Seq(0..(module.maxID - 1)), NEW f, Stores(f, list, ids),
           UNCHANGED <<module, functionID>>
    PROVE  Numbered' /\ StaticIDsAreOwn'
<1>1. Ids(f)' \subseteq 0..(module.maxID - 1) /\ funcInfo'[f].list # "static"
    <2>1. \A i \in DOMAIN ids : ids[i] \in 0..(module.maxID - 1)
        <3> DEFINE S == 0..(module.maxID - 1)
        <3>1. ids \in Seq(S)
            OBVIOUS
        <3> HIDE DEF S
        <3>2. \A i \in DOMAIN ids : ids[i] \in S
            BY <3>1, ElementOfSeq
        <3>3. QED
            BY <3>2 DEF S
    <2>2. Ids(f)' = {ids[i] : i \in DOMAIN ids}
        BY DEF Stores, Ids
    <2>3. QED
        BY <2>1, <2>2 DEF Stores
<1>2. \A n \in DOMAIN funcInfo : n # f => Ids(n)' = Ids(n)
    BY DEF Stores, Ids
<1>3. \A n \in DOMAIN funcInfo' :
          Ids(n)' \subseteq IF funcInfo'[n].list = "static"
                            THEN (module.maxID + 1)..(functionID - 1)
                            ELSE 0..(module.maxID - 1)
    BY <1>1, <1>2 DEF Stores, Numbered
<1>4. Numbered'
    BY <1>3 DEF Numbered
<1>5. ASSUME NEW n \in StaticNames', NEW k \in DOMAIN funcInfo', Ids(n)' \cap Ids(k)' # {}
      PROVE  n = k
    <2>1. n # f /\ n \in StaticNames
        BY <1>1 DEF Stores, StaticNames
    <2>2. CASE k = f
        BY <1>1, <1>3, <1>5, <2>2 DEF Numbered, StaticNames
    <2>3. CASE k # f
        BY <1>2, <1>5, <2>1, <2>3 DEF Stores, StaticIDsAreOwn, StaticNames
    <2>4. QED
        BY <2>2, <2>3
<1>6. QED
    BY <1>4, <1>5 DEF StaticIDsAreOwn

\* A function that the pass numbers takes an ID above all the others.
LEMMA AddsNumber ==
    ASSUME Numbered, StaticIDsAreOwn, NEW f, Stores(f, "static", <<functionID>>),
           functionID' = functionID + 1, UNCHANGED module
    PROVE  Numbered' /\ StaticIDsAreOwn'
<1>1. Ids(f)' = {functionID} /\ funcInfo'[f].list = "static"
    BY DEF Stores, Ids
<1>2. \A n \in DOMAIN funcInfo : n # f => Ids(n)' = Ids(n)
    BY DEF Stores, Ids
<1>3. \A n \in DOMAIN funcInfo : functionID \notin Ids(n)
    BY DEF Numbered
<1>4. \A n \in DOMAIN funcInfo' :
          Ids(n)' \subseteq IF funcInfo'[n].list = "static"
                            THEN (module.maxID + 1)..functionID
                            ELSE 0..(module.maxID - 1)
    <2> SUFFICES ASSUME NEW n \in DOMAIN funcInfo'
                 PROVE  Ids(n)' \subseteq IF funcInfo'[n].list = "static"
                                          THEN (module.maxID + 1)..functionID
                                          ELSE 0..(module.maxID - 1)
        OBVIOUS
    <2>1. CASE n = f
        BY <1>1, <2>1 DEF Numbered
    <2>2. CASE n # f
        <3>1. n \in DOMAIN funcInfo /\ funcInfo'[n] = funcInfo[n] /\ Ids(n)' = Ids(n)
            BY <1>2, <2>2 DEF Stores
        <3>2. QED
            BY <3>1 DEF Numbered
    <2>3. QED
        BY <2>1, <2>2
<1>5. Numbered'
    BY <1>4 DEF Numbered
<1>6. ASSUME NEW n \in StaticNames', NEW k \in DOMAIN funcInfo', Ids(n)' \cap Ids(k)' # {}
      PROVE  n = k
    <2>1. CASE n = f \/ k = f
        BY <1>1, <1>2, <1>3, <1>6, <2>1 DEF Stores, StaticNames
    <2>2. CASE n # f /\ k # f
        BY <1>2, <1>6, <2>2 DEF Stores, StaticIDsAreOwn, StaticNames
    <2>3. QED
        BY <2>1, <2>2
<1>7. QED
    BY <1>5, <1>6 DEF StaticIDsAreOwn

LEMMA NextInv == IInv /\ [Next]_vars => IInv'
<1> SUFFICES ASSUME IInv, [Next]_vars PROVE IInv'
    OBVIOUS
<1> USE DEF IInv
<1>1. CASE BlackListFunction
    <2>1. Stores(F.name, "blacklist", <<>>) /\ UNCHANGED <<module, functionID, encoderVars>>
        BY <1>1 DEF BlackListFunction, Process, Put, Stores
    <2>2. <<>> \in Seq(0..(module.maxID - 1))
        OBVIOUS
    <2>3. QED
        BY <2>1, <2>2, KeepsNumbering DEF Counted, encoderVars
<1>2. CASE processVirtualFunction
    <2>1. Store("virtual", CallableIDs) /\ UNCHANGED <<module, functionID>>
        BY <1>2 DEF processVirtualFunction, Process
    <2>2. \A n : VirtualIDs(module, n) \in Seq(0..(module.maxID - 1))
        <3>1. <<>> \in Seq(0..(module.maxID - 1))
            OBVIOUS
        <3>2. QED
            BY <3>1 DEF Numbered, VirtualIDs
    <2>3. CallableIDs \in Seq(0..(module.maxID - 1))
        BY <2>2 DEF CallableIDs
    <2>4. Stores(F.name, "virtual", CallableIDs) /\ Counted'
        BY <2>1, StoreStores, StoreCounts
    <2>5. QED
        BY <2>1, <2>3, <2>4, KeepsNumbering
<1>3. CASE FailedThunk
    <2>1. Stores(F.name, "virtual", <<>>) /\ UNCHANGED <<module, functionID, encoderVars>>
        BY <1>3 DEF FailedThunk, Process, Put, Stores
    <2>2. <<>> \in Seq(0..(module.maxID - 1))
        OBVIOUS
    <2>3. QED
        BY <2>1, <2>2, KeepsNumbering DEF Counted, encoderVars
<1>4. CASE processStaticFunction
    <2>1. /\ Store("static", <<functionID>>) /\ UNCHANGED module
          /\ functionID' = functionID + 1
        BY <1>4 DEF processStaticFunction, Process
    <2>2. Stores(F.name, "static", <<functionID>>) /\ Counted'
        BY <2>1, StoreStores, StoreCounts
    <2>3. QED
        BY <2>1, <2>2, AddsNumber
<1>5. CASE UNCHANGED vars
    <2>1. UNCHANGED <<module, functionID, funcInfo, EncodingToTypeID, NextTypeID>>
        BY <1>5 DEF vars, encoderVars
    <2>2. \A n : Ids(n)' = Ids(n)
        BY <2>1 DEF Ids
    <2>3. Numbered'
        BY <2>1, <2>2 DEF Numbered
    <2>4. Counted' /\ StaticIDsAreOwn'
        BY <2>1, <2>2 DEF Counted, StaticIDsAreOwn, StaticNames
    <2>5. QED
        BY <2>3, <2>4
<1>6. QED
    BY <1>1, <1>2, <1>3, <1>4, <1>5 DEF Next, Done

THEOREM NumberingInvariant == Spec => []IInv
BY InitStarted, InitInv, NextInv, PTL DEF Spec

\* For every module, a static function shares its ID with no other function.
THEOREM StaticIDsNeverShared == Spec => []StaticIDsAreOwn
BY NumberingInvariant, PTL DEF IInv

\* For every module in which the two counters have not met, function IDs and
\* type IDs are disjoint.
THEOREM SpacesNeverMeet == Spec => []SpacesApart
<1>1. IInv => SpacesApart
    <2> SUFFICES ASSUME IInv, functionID <= NextTypeID + 1,
                        NEW n \in DOMAIN funcInfo, NEW e \in DOMAIN EncodingToTypeID
                 PROVE  EncodingToTypeID[e] \notin Ids(n)
        BY DEF SpacesApart
    <2>1. Ids(n) \subseteq 0..(functionID - 1)
        BY DEF IInv, Numbered
    <2>2. EncodingToTypeID[e] \in Nat /\ EncodingToTypeID[e] > functionID - 1
        BY DEF IInv, Numbered, Counted
    <2>3. QED
        BY <2>1, <2>2 DEF IInv, Numbered
<1>2. QED
    BY <1>1, NumberingInvariant, PTL
-----------------------------------------------------------------------------
(* The encoding of types: a numeral in base 32 without a zero digit.        *)

\* The class that each code of a type stands for.
Classes == <<<<"void", 0>>, <<"integer", 1>>, <<"integer", 8>>, <<"integer", 16>>,
             <<"integer", 32>>, <<"integer", 64>>, <<"half", 0>>, <<"float", 0>>,
             <<"double", 0>>, <<"longdouble", 0>>, <<"pointer", 0>>, <<"struct", 0>>,
             <<"array", 0>>, <<"other", 0>>>>

LEMMA WidthOfBits ==
    ASSUME NEW bits \in Nat
    PROVE  /\ bits <= 1 => Width(bits) = 1
           /\ bits \in 2..8 => Width(bits) = 8
           /\ bits \in 9..16 => Width(bits) = 16
           /\ bits \in 17..32 => Width(bits) = 32
           /\ bits > 32 => Width(bits) = 64
<1> DEFINE W == {1, 8, 16, 32}
           Fits(w) == bits <= w /\ \A v \in W : bits <= v => w <= v
<1>1. ASSUME NEW a \in W, Fits(a), bits <= 32 PROVE Width(bits) = a
    <2>1. \A w \in W : Fits(w) => w = a
        BY <1>1
    <2>2. Width(bits) = CHOOSE w \in W : Fits(w)
        BY <1>1 DEF Width
    <2> HIDE DEF Fits, W
    <2>3. QED
        BY <1>1, <2>1, <2>2
<1>2. bits <= 1 => Fits(1)
    OBVIOUS
<1>3. bits \in 2..8 => Fits(8)
    OBVIOUS
<1>4. bits \in 9..16 => Fits(16)
    OBVIOUS
<1>5. bits \in 17..32 => Fits(32)
    OBVIOUS
<1>6. bits > 32 => Width(bits) = 64
    BY DEF Width
<1> HIDE DEF Fits
<1>7. QED
    BY <1>1, <1>2, <1>3, <1>4, <1>5, <1>6

\* A code is below 16 and tells the class of its type.
LEMMA FlatClass ==
    ASSUME NEW T, T.kind = "integer" => T.bits \in Nat
    PROVE  Flat(T) \in 1..14 /\ Class(T) = Classes[Flat(T)]
<1>1. CASE T.kind = "integer"
    <2>1. T.bits \in Nat
        BY <1>1
    <2>2. /\ T.bits <= 1 => Flat(T) = 2
          /\ T.bits \in 2..8 => Flat(T) = 3
          /\ T.bits \in 9..16 => Flat(T) = 4
          /\ T.bits \in 17..32 => Flat(T) = 5
          /\ T.bits > 32 => Flat(T) = 6
        BY <1>1, <2>1 DEF Flat
    <2>3. Class(T) = <<"integer", Width(T.bits)>>
        BY <1>1 DEF Class
    <2>4. T.bits <= 1 \/ T.bits \in 2..8 \/ T.bits \in 9..16 \/ T.bits \in 17..32 \/ T.bits > 32
        BY <2>1
    <2>5. QED
        BY <2>1, <2>2, <2>3, <2>4, WidthOfBits DEF Classes
<1>2. CASE T.kind \in Known
    <2>1. T.kind # "integer" /\ Class(T) = <<T.kind, 0>>
        BY <1>2 DEF Class, Known
    <2>2. /\ T.kind = "void" => Flat(T) = 1
          /\ T.kind = "half" => Flat(T) = 7
          /\ T.kind = "float" => Flat(T) = 8
          /\ T.kind = "double" => Flat(T) = 9
          /\ T.kind = "longdouble" => Flat(T) = 10
          /\ T.kind = "pointer" => Flat(T) = 11
          /\ T.kind = "struct" => Flat(T) = 12
          /\ T.kind = "array" => Flat(T) = 13
        BY DEF Flat
    <2>3. QED
        BY <1>2, <2>1, <2>2 DEF Known, Classes
<1>3. CASE T.kind # "integer" /\ T.kind \notin Known
    <2>1. Flat(T) = 14
        BY <1>3 DEF Flat, Known
    <2>2. QED
        BY <1>3, <2>1 DEF Class, Classes
<1>4. QED
    BY <1>1, <1>2, <1>3

LEMMA ClassesDiffer ==
    ASSUME NEW a \in 1..14, NEW b \in 1..14, Classes[a] = Classes[b]
    PROVE  a = b
BY DEF Classes

\* The code of a type behind whose pointers the encoding looks.
CodeOf(T) == encodeType(T, TRUE)

\* It tells the shape of the type.
LEMMA CodeIsShape ==
    ASSUME NEW S, NEW T, IsType(S), IsType(T)
    PROVE  /\ CodeOf(S) \in 1..30
           /\ CodeOf(S) = CodeOf(T) <=> Shape(S) = Shape(T)
<1> DEFINE Code(U, inner, up) ==
        /\ CodeOf(U) = up + Flat(inner) /\ Flat(inner) \in 1..14
        /\ up = IF U.kind = "pointer" THEN 16 ELSE 0
        /\ Shape(U) = <<IF U.kind = "pointer" THEN "pointer" ELSE "value", Classes[Flat(inner)]>>
<1>1. ASSUME NEW U, IsType(U) PROVE \E inner, up : Code(U, inner, up)
    <2>1. CASE U.kind = "pointer"
        <3>1. Flat(U.element) \in 1..14 /\ Class(U.element) = Classes[Flat(U.element)]
            BY <1>1, <2>1, FlatClass DEF IsType
        <3>2. Code(U, U.element, 16)
            BY <2>1, <3>1 DEF CodeOf, encodeType, Shape
        <3>3. QED
            BY <3>2
    <2>2. CASE U.kind # "pointer"
        <3>1. Flat(U) \in 1..14 /\ Class(U) = Classes[Flat(U)]
            BY <1>1, FlatClass DEF IsType
        <3>2. Code(U, U, 0)
            BY <2>2, <3>1 DEF CodeOf, encodeType, Shape
        <3>3. QED
            BY <3>2
    <2>3. QED
        BY <2>1, <2>2
<1> HIDE DEF Code
<1>2. PICK s, u : Code(S, s, u)
    BY <1>1
<1>3. PICK t, w : Code(T, t, w)
    BY <1>1
<1> DEFINE a == Flat(s)
           b == Flat(t)
           tagS == IF S.kind = "pointer" THEN "pointer" ELSE "value"
           tagT == IF T.kind = "pointer" THEN "pointer" ELSE "value"
<1>4. /\ CodeOf(S) = u + a /\ a \in 1..14
      /\ u = IF S.kind = "pointer" THEN 16 ELSE 0
      /\ Shape(S) = <<tagS, Classes[a]>>
    BY <1>2 DEF Code
<1>5. /\ CodeOf(T) = w + b /\ b \in 1..14
      /\ w = IF T.kind = "pointer" THEN 16 ELSE 0
      /\ Shape(T) = <<tagT, Classes[b]>>
    BY <1>3 DEF Code
<1> HIDE DEF a, b
<1>s. \/ u = 16 /\ tagS = "pointer"
      \/ u = 0 /\ tagS = "value"
    BY <1>4
<1>t. \/ w = 16 /\ tagT = "pointer"
      \/ w = 0 /\ tagT = "value"
    BY <1>5
<1> HIDE DEF tagS, tagT
<1>6. (u = 0 \/ u = 16) /\ (w = 0 \/ w = 16)
    BY <1>s, <1>t
<1>7. CodeOf(S) = CodeOf(T) <=> u = w /\ a = b
    <2>1. CodeOf(S) = u + a /\ a \in 1..14 /\ CodeOf(T) = w + b /\ b \in 1..14
        BY <1>4, <1>5
    <2>2. QED
        BY <1>6, <2>1
<1>8. u = w <=> tagS = tagT
    BY <1>s, <1>t
<1>9. Shape(S) = Shape(T) <=> tagS = tagT /\ a = b
    BY <1>4, <1>5, ClassesDiffer
<1>10. CodeOf(S) \in 1..30
    BY <1>4, <1>6
<1>11. QED
    BY <1>7, <1>8, <1>9, <1>10

\* enc holds the numbers that the loop of encodeFunction passes through.
Encodes(F0, enc) ==
    /\ enc \in [0..Len(F0.params) -> Nat]
    /\ enc[0] = CodeOf(F0.ret)
    /\ \A n \in 1..Len(F0.params) : enc[n] = CodeOf(F0.params[n]) + enc[n - 1] * 32
    /\ Precise(F0) = IF Len(F0.params) >= MaxParams THEN 32 ELSE enc[Len(F0.params)]

LEMMA EncodingUnfolds ==
    ASSUME NEW F0, IsFunctionType(F0)
    PROVE  \E enc : Encodes(F0, enc)
<1> DEFINE S == 0..Len(F0.params)
           M == [n \in S |-> n]
           Body(n, h) == IF n = 0 THEN CodeOf(F0.ret)
                         ELSE CodeOf(F0.params[n]) + h[n - 1] * 32
           G == [n \in S |-> [h \in [Under(S, M, n) -> Nat] |-> Body(n, h)]]
           Sol(e) == e = [n \in S |-> Body(n, e)]
           enc == CHOOSE e : Sol(e)
<1>1. Len(F0.params) \in Nat /\ DOMAIN F0.params = 1..Len(F0.params)
    BY DEF IsFunctionType
<1>2. /\ CodeOf(F0.ret) \in Nat
      /\ \A n \in 1..Len(F0.params) : CodeOf(F0.params[n]) \in Nat
    <2>1. \A T : IsType(T) => CodeOf(T) \in Nat
        BY CodeIsShape
    <2>2. IsType(F0.ret) /\ \A n \in 1..Len(F0.params) : IsType(F0.params[n])
        BY <1>1 DEF IsFunctionType
    <2>3. QED
        BY <2>1, <2>2
<1>3. \A n \in S : n # 0 => n \in 1..Len(F0.params) /\ n - 1 \in Under(S, M, n)
    <2>1. \A n \in S : n # 0 => n \in 1..Len(F0.params) /\ n - 1 \in S /\ n - 1 < n
        BY <1>1
    <2>2. \A n \in S : M[n] = n
        OBVIOUS
    <2> HIDE DEF S, M
    <2>3. QED
        BY <2>1, <2>2 DEF Under
<1>4. Recursion(S, Nat, M, G)
    <2>1. M \in [S -> Nat]
        BY <1>1
    <2>2. ASSUME NEW n \in S, NEW h \in [Under(S, M, n) -> Nat] PROVE G[n][h] \in Nat
        <3>1. Body(n, h) \in Nat
            BY <1>2, <1>3
        <3>2. G[n][h] = Body(n, h)
            OBVIOUS
        <3>3. QED
            BY <3>1, <3>2
    <2> HIDE DEF S, M, G
    <2>3. QED
        BY <2>1, <2>2 DEF Recursion
<1>5. PICK f \in [S -> Nat] : Follows(S, S, M, G, f)
    <2> HIDE DEF S, M, G
    <2>1. QED
        BY <1>4, RecursionHasSolution
<1>6. ASSUME NEW n \in S PROVE f[n] = Body(n, f)
    <2> DEFINE h == [y \in Under(S, M, n) |-> f[y]]
    <2>1. h \in [Under(S, M, n) -> Nat]
        BY DEF Under
    <2>2. f[n] = G[n][h]
        BY <1>5 DEF Follows
    <2>3. G[n][h] = Body(n, h)
        BY <2>1
    <2>4. Body(n, h) = Body(n, f)
        BY <1>3
    <2>5. QED
        BY <2>2, <2>3, <2>4
<1>7. Sol(f)
    <2>1. f = [n \in S |-> f[n]]
        OBVIOUS
    <2> HIDE DEF S, Body
    <2>2. QED
        BY <1>6, <2>1
<1>8. Sol(enc)
    <2> HIDE DEF Sol
    <2>1. QED
        BY <1>7
<1>9. Precise(F0) = IF Len(F0.params) >= MaxParams THEN 32 ELSE enc[Len(F0.params)]
    BY DEF Precise, encodeFunction, encodeReturn, Base, CodeOf
<1> HIDE DEF enc
<1>10. \A n \in S : enc[n] \in Nat /\ enc[n] = Body(n, enc)
    <2> DEFINE Same == [n \in S |-> enc[n]]
    <2>1. \A n \in S : enc[n] = Body(n, enc)
        BY <1>8
    <2>2. Follows(S, S, M, G, f)
        BY <1>5
    <2>3. ASSUME NEW n \in S, \A m \in S : m < n => enc[m] \in Nat
          PROVE  enc[n] \in Nat
        <3>1. n # 0 => enc[n - 1] \in Nat
            BY <1>1, <2>3
        <3>2. CASE n = 0
            BY <1>2, <2>1, <3>2
        <3>3. CASE n # 0
            <4>1. CodeOf(F0.params[n]) \in Nat /\ enc[n] = CodeOf(F0.params[n]) + enc[n - 1] * 32
                BY <1>2, <1>3, <2>1, <3>3
            <4>2. QED
                BY <3>1, <3>3, <4>1
        <3>4. QED
            BY <3>2, <3>3
    <2>4. \A n \in S : enc[n] \in Nat
        <3> DEFINE Bad == {n \in S : enc[n] \notin Nat}
        <3> SUFFICES ASSUME Bad # {} PROVE FALSE
            OBVIOUS
        <3>1. Bad \subseteq Nat
            BY <1>1
        <3>2. PICK n \in Bad : \A m \in Bad : n <= m
            <4> HIDE DEF Bad
            <4>1. QED
                BY <3>1, Least
        <3>3. n \in S /\ n \in Nat /\ \A m \in S : m < n => enc[m] \in Nat
            BY <1>1, <3>2
        <3>4. QED
            BY <2>3, <3>2, <3>3
    <2>5. QED
        BY <2>1, <2>4
<1>11. enc \in [S -> Nat]
    <2>1. enc = [n \in S |-> Body(n, enc)]
        BY <1>8
    <2>2. enc = [n \in S |-> enc[n]]
        <3> HIDE DEF S, Body
        <3>1. QED
            BY <1>10, <2>1
    <2> HIDE DEF S
    <2>3. QED
        BY <1>10, <2>2
<1>12. \A n \in 1..Len(F0.params) : n \in S /\ n # 0
    BY <1>1
<1>13. 0 \in S
    BY <1>1
<1>14. QED
    BY <1>9, <1>10, <1>11, <1>12, <1>13 DEF Encodes

\* Digits that are not zero can be read back from the number.
LEMMA LastDigit ==
    ASSUME NEW a \in 1..30, NEW b \in 1..30, NEW x \in Nat, NEW y \in Nat
    PROVE  a + x * 32 = b + y * 32 <=> a = b /\ x = y
OBVIOUS

LEMMA DigitBounds ==
    ASSUME NEW a \in 1..30, NEW x \in Nat
    PROVE  /\ a >= 1 /\ a < 31 /\ a # 32
           /\ a + x * 32 >= 1 /\ a + x * 32 # 32
           /\ x >= 1 => a + x * 32 >= 33
OBVIOUS

LEMMA Apart ==
    ASSUME NEW a \in Nat, NEW b \in Nat, a < 31, b >= 33
    PROVE  a # b
OBVIOUS

\* Equal encodings have as many digits, and the same ones.
LEMMA DigitsAgree ==
    ASSUME NEW S, NEW T, IsFunctionType(S), IsFunctionType(T),
           NEW c, NEW d, Encodes(S, c), Encodes(T, d)
    PROVE  \A i \in 0..Len(S.params), j \in 0..Len(T.params) :
              c[i] = d[j] <=> /\ i = j
                              /\ CodeOf(S.ret) = CodeOf(T.ret)
                              /\ \A n \in 1..i : CodeOf(S.params[n]) = CodeOf(T.params[n])
<1> DEFINE I == 0..Len(S.params)
           J == 0..Len(T.params)
           Same(i, j) == /\ i = j
                         /\ CodeOf(S.ret) = CodeOf(T.ret)
                         /\ \A n \in 1..i : CodeOf(S.params[n]) = CodeOf(T.params[n])
           Bad == {i \in I : ~\A j \in J : c[i] = d[j] <=> Same(i, j)}
<1>0. /\ Len(S.params) \in Nat /\ Len(T.params) \in Nat
      /\ DOMAIN S.params = 1..Len(S.params) /\ DOMAIN T.params = 1..Len(T.params)
    BY DEF IsFunctionType
<1>1. \A U : IsType(U) => CodeOf(U) \in 1..30
    BY CodeIsShape
<1>2. /\ CodeOf(S.ret) \in 1..30 /\ CodeOf(T.ret) \in 1..30
      /\ \A n \in 1..Len(S.params) : CodeOf(S.params[n]) \in 1..30
      /\ \A n \in 1..Len(T.params) : CodeOf(T.params[n]) \in 1..30
    BY <1>0, <1>1 DEF IsFunctionType
<1>3. /\ c[0] = CodeOf(S.ret) /\ d[0] = CodeOf(T.ret)
      /\ \A n \in 1..Len(S.params) : c[n] = CodeOf(S.params[n]) + c[n - 1] * 32
      /\ \A n \in 1..Len(T.params) : d[n] = CodeOf(T.params[n]) + d[n - 1] * 32
      /\ \A n \in I : c[n] \in Nat
      /\ \A n \in J : d[n] \in Nat
    BY DEF Encodes
<1>4. /\ \A n \in I : c[n] >= 1 /\ (n # 0 => c[n] >= 33 /\ n \in 1..Len(S.params) /\ n - 1 \in I)
      /\ \A n \in J : d[n] >= 1 /\ (n # 0 => d[n] >= 33 /\ n \in 1..Len(T.params) /\ n - 1 \in J)
    <2>1. \A n \in I : c[n] >= 1
        <3> TAKE n \in I
        <3>1. CASE n = 0
            BY <1>2, <1>3, <3>1, DigitBounds
        <3>2. CASE n # 0
            <4>1. n \in 1..Len(S.params) /\ n - 1 \in I
                BY <1>0, <3>2
            <4>2. CodeOf(S.params[n]) \in 1..30 /\ c[n - 1] \in Nat
                BY <1>2, <1>3, <4>1
            <4>3. c[n] = CodeOf(S.params[n]) + c[n - 1] * 32
                BY <1>3, <4>1
            <4>4. QED
                BY <4>2, <4>3, DigitBounds
        <3>3. QED
            BY <3>1, <3>2
    <2>2. \A n \in J : d[n] >= 1
        <3> TAKE n \in J
        <3>1. CASE n = 0
            BY <1>2, <1>3, <3>1, DigitBounds
        <3>2. CASE n # 0
            <4>1. n \in 1..Len(T.params) /\ n - 1 \in J
                BY <1>0, <3>2
            <4>2. CodeOf(T.params[n]) \in 1..30 /\ d[n - 1] \in Nat
                BY <1>2, <1>3, <4>1
            <4>3. d[n] = CodeOf(T.params[n]) + d[n - 1] * 32
                BY <1>3, <4>1
            <4>4. QED
                BY <4>2, <4>3, DigitBounds
        <3>3. QED
            BY <3>1, <3>2
    <2>3. ASSUME NEW n \in I, n # 0 PROVE c[n] >= 33 /\ n \in 1..Len(S.params) /\ n - 1 \in I
        <3>1. n \in 1..Len(S.params) /\ n - 1 \in I
            BY <1>0, <2>3
        <3>2. CodeOf(S.params[n]) \in 1..30 /\ c[n - 1] \in Nat /\ c[n - 1] >= 1
            BY <1>2, <1>3, <2>1, <3>1
        <3>3. c[n] = CodeOf(S.params[n]) + c[n - 1] * 32
            BY <1>3, <3>1
        <3>4. QED
            BY <3>1, <3>2, <3>3, DigitBounds
    <2>4. ASSUME NEW n \in J, n # 0 PROVE d[n] >= 33 /\ n \in 1..Len(T.params) /\ n - 1 \in J
        <3>1. n \in 1..Len(T.params) /\ n - 1 \in J
            BY <1>0, <2>4
        <3>2. CodeOf(T.params[n]) \in 1..30 /\ d[n - 1] \in Nat /\ d[n - 1] >= 1
            BY <1>2, <1>3, <2>2, <3>1
        <3>3. d[n] = CodeOf(T.params[n]) + d[n - 1] * 32
            BY <1>3, <3>1
        <3>4. QED
            BY <3>1, <3>2, <3>3, DigitBounds
    <2>5. QED
        BY <2>1, <2>2, <2>3, <2>4
<1>5. ASSUME NEW i \in I, NEW j \in J, i # 0 => \A l \in J : c[i - 1] = d[l] <=> Same(i - 1, l)
      PROVE  c[i] = d[j] <=> Same(i, j)
    <2>1. CASE i = 0 /\ j = 0
        BY <1>3, <2>1
    <2>2. CASE i = 0 /\ j # 0
        <3>1. c[i] < 31 /\ d[j] >= 33 /\ c[i] \in Nat /\ d[j] \in Nat
            BY <1>2, <1>3, <1>4, <2>2, DigitBounds
        <3>2. QED
            BY <2>2, <3>1, Apart
    <2>3. CASE i # 0 /\ j = 0
        <3>1. c[i] >= 33 /\ d[j] < 31 /\ c[i] \in Nat /\ d[j] \in Nat
            BY <1>2, <1>3, <1>4, <2>3, DigitBounds
        <3>2. QED
            BY <2>3, <3>1, Apart
    <2>4. CASE i # 0 /\ j # 0
        <3>1. /\ i \in 1..Len(S.params) /\ i - 1 \in I /\ j \in 1..Len(T.params) /\ j - 1 \in J
              /\ i \in Nat /\ j \in Nat
            BY <1>0, <1>4, <2>4
        <3> DEFINE p == CodeOf(S.params[i])
                   q == CodeOf(T.params[j])
        <3>2. /\ c[i] = p + c[i - 1] * 32 /\ d[j] = q + d[j - 1] * 32
              /\ p \in 1..30 /\ q \in 1..30 /\ c[i - 1] \in Nat /\ d[j - 1] \in Nat
            BY <1>2, <1>3, <3>1
        <3>3. c[i] = d[j] <=> p = q /\ c[i - 1] = d[j - 1]
            <4> DEFINE x == c[i - 1]
                       y == d[j - 1]
            <4>1. c[i] = p + x * 32 /\ d[j] = q + y * 32
                BY <3>2
            <4>2. p \in 1..30 /\ q \in 1..30 /\ x \in Nat /\ y \in Nat
                BY <3>2
            <4> HIDE DEF p, q, x, y
            <4>3. p + x * 32 = q + y * 32 <=> p = q /\ x = y
                BY <4>2, LastDigit
            <4>4. c[i] = d[j] <=> p = q /\ x = y
                BY <4>1, <4>3
            <4>5. QED
                BY <4>4 DEF x, y
        <3>4. c[i - 1] = d[j - 1] <=> Same(i - 1, j - 1)
            BY <1>5, <2>4, <3>1
        <3>5. i - 1 = j - 1 <=> i = j
            BY <3>1
        <3>6. \A n \in 1..i : n \in 1..(i - 1) \/ n = i
            BY <3>1
        <3>7. Same(i, j) <=> p = q /\ Same(i - 1, j - 1)
            <4>1. Same(i, j) => p = q /\ Same(i - 1, j - 1)
                BY <3>1
            <4>2. p = q /\ Same(i - 1, j - 1) => Same(i, j)
                BY <3>5, <3>6
            <4>3. QED
                BY <4>1, <4>2
        <3>8. QED
            BY <3>3, <3>4, <3>7
    <2>5. QED
        BY <2>1, <2>2, <2>3, <2>4
<1>6. Bad = {}
    <2> SUFFICES ASSUME Bad # {} PROVE FALSE
        OBVIOUS
    <2>1. Bad \subseteq Nat
        BY <1>0
    <2>2. PICK i \in Bad : \A j \in Bad : i <= j
        <3> HIDE DEF Bad
        <3>1. QED
            BY <2>1, Least
    <2>3. i \in I /\ i \in Nat
        BY <1>0, <2>2
    <2>4. i # 0 => i - 1 \in I /\ i - 1 \notin Bad
        <3> SUFFICES ASSUME i # 0 PROVE i - 1 \in I /\ i - 1 \notin Bad
            OBVIOUS
        <3>1. i - 1 \in I /\ ~(i <= i - 1)
            BY <1>4, <2>3
        <3> HIDE DEF Bad
        <3>2. QED
            BY <2>2, <3>1
    <2>5. i # 0 => \A l \in J : c[i - 1] = d[l] <=> Same(i - 1, l)
        <3> HIDE DEF Same
        <3>1. QED
            BY <2>4
    <2>6. \A j \in J : c[i] = d[j] <=> Same(i, j)
        <3> HIDE DEF Same
        <3>1. QED
            BY <1>5, <2>3, <2>5
    <2> HIDE DEF Same
    <2>7. QED
        BY <2>2, <2>6
<1>7. QED
    <2> HIDE DEF Same
    <2>1. \A i \in I, j \in J : c[i] = d[j] <=> Same(i, j)
        BY <1>6
    <2>2. QED
        BY <2>1 DEF Same

\* Two types have one encoding exactly if they have one shape; the number that
\* stands for all types with many parameters is the encoding of no other.
LEMMA EncodingIsShape ==
    ASSUME NEW S, NEW T, IsFunctionType(S), IsFunctionType(T)
    PROVE  Precise(S) = Precise(T) <=> SameShape(S, T)
<1> DEFINE k == Len(S.params)
           m == Len(T.params)
<1>1. PICK c : Encodes(S, c)
    BY EncodingUnfolds
<1>2. PICK d : Encodes(T, d)
    BY EncodingUnfolds
<1>3. /\ k \in Nat /\ m \in Nat /\ DOMAIN S.params = 1..k
      /\ IsType(S.ret) /\ IsType(T.ret)
      /\ \A i \in 1..k : IsType(S.params[i])
      /\ \A i \in 1..m : IsType(T.params[i])
    BY DEF IsFunctionType
<1>4. /\ Precise(S) = IF k >= MaxParams THEN 32 ELSE c[k]
      /\ Precise(T) = IF m >= MaxParams THEN 32 ELSE d[m]
    BY <1>1, <1>2 DEF Encodes
<1>5. k \in 0..k /\ m \in 0..m
    BY <1>3
<1>6. c[k] = d[m] <=> /\ k = m
                      /\ CodeOf(S.ret) = CodeOf(T.ret)
                      /\ \A n \in 1..k : CodeOf(S.params[n]) = CodeOf(T.params[n])
    BY <1>1, <1>2, <1>5, DigitsAgree
<1>7. \A A, B : IsType(A) /\ IsType(B) => (CodeOf(A) = CodeOf(B) <=> Shape(A) = Shape(B))
    BY CodeIsShape
<1>8. k = m => \A n \in 1..k : CodeOf(S.params[n]) = CodeOf(T.params[n]) <=>
                               Shape(S.params[n]) = Shape(T.params[n])
    BY <1>3, <1>7
<1>9. c[k] = d[m] <=> /\ k = m
                      /\ Shape(S.ret) = Shape(T.ret)
                      /\ \A n \in 1..k : Shape(S.params[n]) = Shape(T.params[n])
    BY <1>3, <1>6, <1>7, <1>8
<1>10. c[k] # 32 /\ d[m] # 32
    <2>1. ASSUME NEW U, NEW e, IsFunctionType(U), Encodes(U, e) PROVE e[Len(U.params)] # 32
        <3> DEFINE n == Len(U.params)
        <3>1. n \in Nat /\ IsType(U.ret) /\ DOMAIN U.params = 1..n
            BY <2>1 DEF IsFunctionType
        <3>2. CASE n = 0
            <4>1. e[n] = CodeOf(U.ret) /\ CodeOf(U.ret) \in 1..30
                BY <2>1, <3>1, <3>2, CodeIsShape DEF Encodes
            <4>2. QED
                BY <4>1, DigitBounds
        <3>3. CASE n # 0
            <4>1. n \in 1..n /\ n - 1 \in 0..n
                BY <3>1, <3>3
            <4>2. e[n] = CodeOf(U.params[n]) + e[n - 1] * 32 /\ e[n - 1] \in Nat
                BY <2>1, <4>1 DEF Encodes
            <4>3. CodeOf(U.params[n]) \in 1..30
                <5>1. IsType(U.params[n])
                    BY <2>1, <3>1, <4>1 DEF IsFunctionType
                <5>2. QED
                    BY <5>1, CodeIsShape
            <4>4. QED
                BY <4>2, <4>3, DigitBounds
        <3>4. QED
            BY <3>2, <3>3
    <2>2. QED
        BY <1>1, <1>2, <2>1
<1>11. Precise(S) = Precise(T) <=>
           \/ k >= MaxParams /\ m >= MaxParams
           \/ k < MaxParams /\ m < MaxParams /\ c[k] = d[m]
    BY <1>3, <1>4, <1>10, MaxParamsAssumption
<1>12. SameShape(S, T) <=>
           \/ k >= MaxParams /\ m >= MaxParams
           \/ /\ k < MaxParams /\ k = m
              /\ Shape(S.ret) = Shape(T.ret)
              /\ \A n \in 1..k : Shape(S.params[n]) = Shape(T.params[n])
    BY <1>3 DEF SameShape
<1>13. QED
    BY <1>3, <1>9, <1>11, <1>12, MaxParamsAssumption

-----------------------------------------------------------------------------
(* Types, and the ID space of the static functions.                        *)

\* The functions still to come have no entry, and a static one that is done
\* has the ID for its direct calls.
Fresh ==
    /\ \A i \in DOMAIN todo : todo[i].name \notin DOMAIN funcInfo
    /\ StaticNames \subseteq DOMAIN FunctionIDMap

TInv == TypeOK /\ Fresh

LEMMA InitTypes == Started => TInv
<1> SUFFICES ASSUME Started PROVE TInv
    OBVIOUS
<1>1. /\ WellFormed(module) /\ functionID = module.maxID + 1 /\ todo = module.functions
      /\ DOMAIN FunctionIDMap = {} /\ DOMAIN funcInfo = {} /\ NextTypeID = StartTypeID
    BY DEF Started
<1>2. todo = SubSeq(module.functions, 0 + 1, Len(module.functions))
    BY <1>1 DEF WellFormed
<1>3. 0 \in 0..Len(module.functions)
    BY <1>1 DEF WellFormed
<1>4. TypeOK
    <2>1. \E k \in 0..Len(module.functions) :
              todo = SubSeq(module.functions, k + 1, Len(module.functions))
        BY <1>2, <1>3
    <2>2. functionID \in Nat /\ functionID > module.maxID /\ NextTypeID \in 0..StartTypeID
        BY <1>1, StartTypeIDAssumption DEF WellFormed
    <2>3. QED
        BY <1>1, <2>1, <2>2 DEF TypeOK
<1>5. QED
    BY <1>1, <1>4 DEF TInv, Fresh, StaticNames

\* The function that is processed is one of the module's, without an entry,
\* and those behind it have other names.
LEMMA Popped ==
    ASSUME TInv, Process
    PROVE  /\ \E i \in DOMAIN module.functions : F = module.functions[i]
           /\ F.name \notin DOMAIN funcInfo
           /\ \A i \in DOMAIN todo' : /\ todo'[i].name # F.name
                                      /\ todo'[i].name \notin DOMAIN funcInfo
           /\ \E k \in 0..Len(module.functions) :
                 todo' = SubSeq(module.functions, k + 1, Len(module.functions))
<1> DEFINE fs == module.functions
<1>1. PICK k \in 0..Len(fs) : todo = SubSeq(fs, k + 1, Len(fs))
    BY DEF TInv, TypeOK
<1>2. PICK S : fs \in Seq(S)
    BY DEF TInv, TypeOK, WellFormed
<1> HIDE DEF fs
<1>3. /\ Len(todo) = Len(fs) - k
      /\ \A i \in 1..(Len(fs) - k) : todo[i] = fs[k + i]
      /\ todo \in Seq(S)
    BY <1>1, <1>2
<1>4. k < Len(fs) /\ Head(todo) = fs[k + 1]
    BY <1>2, <1>3 DEF Process
<1>5. todo' = SubSeq(fs, (k + 1) + 1, Len(fs))
    BY <1>1, <1>2, <1>3, <1>4 DEF Process
<1>6. \A i \in DOMAIN todo' : i + 1 \in DOMAIN todo /\ todo'[i] = todo[i + 1] /\ todo[i + 1] = fs[k + i + 1]
    BY <1>2, <1>3, <1>4 DEF Process
<1>7. \A i, j \in DOMAIN fs : fs[i].name = fs[j].name => i = j
    BY DEF TInv, TypeOK, WellFormed, fs
<1>8. F \in {fs[i] : i \in DOMAIN fs} /\ F.name \notin DOMAIN funcInfo
    <2>1. F = todo[1] /\ 1 \in DOMAIN todo
        BY <1>3, <1>4 DEF F
    <2>2. F \in {fs[i] : i \in DOMAIN fs}
        BY <1>2, <1>4 DEF F
    <2>3. QED
        BY <2>1, <2>2 DEF TInv, Fresh
<1>9. ASSUME NEW i \in DOMAIN todo'
      PROVE  todo'[i].name # F.name /\ todo'[i].name \notin DOMAIN funcInfo
    <2>1. i \in Nat \ {0} /\ i + 1 \in DOMAIN todo /\ todo'[i] = fs[k + i + 1] /\ todo'[i] = todo[i + 1]
        <3>1. i + 1 \in DOMAIN todo /\ todo'[i] = fs[k + i + 1] /\ todo'[i] = todo[i + 1]
            BY <1>6, <1>9
        <3>2. todo' \in Seq(S)
            BY <1>3, <1>4 DEF Process
        <3>3. i \in Nat \ {0}
            BY <1>9, <3>2
        <3>4. QED
            BY <3>1, <3>3
    <2>2. k + i + 1 \in DOMAIN fs /\ k + 1 \in DOMAIN fs /\ k + i + 1 # k + 1
        BY <1>2, <1>3, <1>4, <2>1
    <2>3. QED
        BY <1>4, <1>7, <2>1, <2>2 DEF F, TInv, Fresh
<1>10. k + 1 \in 0..Len(fs)
    BY <1>2, <1>4
<1>11. QED
    BY <1>5, <1>8, <1>9, <1>10 DEF fs

\* What all outcomes of processFunction have in common.
LEMMA StoreTypes ==
    ASSUME TInv, NEW list, NEW ids1, Store(list, ids1)
    PROVE  /\ DOMAIN funcInfo' = DOMAIN funcInfo \cup {F.name}
           /\ funcInfo'[F.name].list = list
           /\ funcInfo'[F.name].typeID \in 0..StartTypeID
           /\ \A n \in DOMAIN funcInfo : n # F.name => funcInfo'[n] = funcInfo[n]
           /\ NextTypeID' \in 0..StartTypeID
<1> USE StartTypeIDAssumption
<1>1. NextTypeID \in 0..StartTypeID
    BY DEF TInv, TypeOK
<1>2. CASE F.addressTaken
    <2>1. PICK t \in 1..StartTypeID :
              /\ getTypeID(F.type, t)
              /\ funcInfo' = Put(funcInfo, F.name, [list |-> list, ids |-> ids1, typeID |-> t])
        BY <1>2 DEF Store
    <2>2. NextTypeID' \in 0..StartTypeID
        BY <1>1, <2>1 DEF getTypeID, encoderVars
    <2>3. QED
        BY <2>1, <2>2 DEF Put
<1>3. CASE ~F.addressTaken
    <2>1. /\ funcInfo' = Put(funcInfo, F.name, [list |-> list, ids |-> ids1, typeID |-> NoType])
          /\ NextTypeID' = NextTypeID
        BY <1>3 DEF Store, encoderVars
    <2>2. NoType \in 0..StartTypeID
        BY DEF NoType
    <2>3. QED
        BY <1>1, <2>1, <2>2 DEF Put
<1>4. QED
    BY <1>2, <1>3

\* An entry of the right types for the function that is processed keeps the
\* types; it goes to the static ones only with an ID for direct calls.
LEMMA EntryKeepsTypes ==
    ASSUME TInv, IInv', Process,
           DOMAIN funcInfo' = DOMAIN funcInfo \cup {F.name},
           funcInfo'[F.name].list \in {"blacklist", "static", "virtual"},
           funcInfo'[F.name].typeID \in 0..StartTypeID,
           \A n \in DOMAIN funcInfo : n # F.name => funcInfo'[n] = funcInfo[n],
           NextTypeID' \in 0..StartTypeID,
           \A n \in DOMAIN FunctionIDMap' : FunctionIDMap'[n] \in Nat,
           DOMAIN FunctionIDMap \subseteq DOMAIN FunctionIDMap',
           funcInfo'[F.name].list = "static" => F.name \in DOMAIN FunctionIDMap'
    PROVE  TInv'
<1>1. UNCHANGED module
    BY DEF Process
<1>2. WellFormed(module)
    BY DEF TInv, TypeOK
<1>3. \E k \in 0..Len(module.functions) :
          todo' = SubSeq(module.functions, k + 1, Len(module.functions))
    BY Popped
<1>4. \A n \in DOMAIN funcInfo' :
          /\ funcInfo'[n].list \in {"blacklist", "static", "virtual"}
          /\ funcInfo'[n].typeID \in 0..StartTypeID
    BY DEF TInv, TypeOK
<1>5. /\ functionID' \in Nat /\ functionID' > module'.maxID
      /\ \A n \in DOMAIN funcInfo' : Ids(n)' \subseteq Nat
    <2>1. Numbered'
        BY DEF IInv
    <2>2. functionID' \in Nat /\ functionID' > module'.maxID /\ module'.maxID \in Nat
        BY <2>1 DEF Numbered
    <2>3. \A n \in DOMAIN funcInfo' :
              \/ Ids(n)' \subseteq (module'.maxID + 1)..(functionID' - 1)
              \/ Ids(n)' \subseteq 0..(module'.maxID - 1)
        BY <2>1 DEF Numbered
    <2>4. (module'.maxID + 1)..(functionID' - 1) \subseteq Nat /\ 0..(module'.maxID - 1) \subseteq Nat
        BY <2>2
    <2>5. QED
        BY <2>2, <2>3, <2>4
<1>6. TypeOK'
    BY <1>1, <1>2, <1>3, <1>4, <1>5 DEF TypeOK
<1>7. \A i \in DOMAIN todo' : todo'[i].name \notin DOMAIN funcInfo'
    BY Popped
<1>8. StaticNames' \subseteq DOMAIN FunctionIDMap'
    BY DEF TInv, Fresh, StaticNames
<1>9. QED
    BY <1>1, <1>2, <1>6, <1>7, <1>8 DEF TInv, Fresh

LEMMA NextTypes == TInv /\ IInv /\ [Next]_vars => TInv'
<1> SUFFICES ASSUME TInv, IInv, [Next]_vars PROVE TInv'
    OBVIOUS
<1>1. IInv'
    BY NextInv
<1>2. /\ \A n \in DOMAIN FunctionIDMap : FunctionIDMap[n] \in Nat
      /\ NextTypeID \in 0..StartTypeID /\ functionID \in Nat
    BY DEF TInv, TypeOK
<1>3. NoType \in 0..StartTypeID
    BY StartTypeIDAssumption DEF NoType
<1>4. CASE BlackListFunction
    <2>1. /\ Process
          /\ funcInfo' = Put(funcInfo, F.name, [list |-> "blacklist", ids |-> <<>>, typeID |-> NoType])
          /\ UNCHANGED <<FunctionIDMap, NextTypeID>>
        BY <1>4 DEF BlackListFunction, encoderVars
    <2>2. /\ DOMAIN funcInfo' = DOMAIN funcInfo \cup {F.name}
          /\ funcInfo'[F.name].list = "blacklist" /\ funcInfo'[F.name].typeID = NoType
          /\ \A n \in DOMAIN funcInfo : n # F.name => funcInfo'[n] = funcInfo[n]
        BY <2>1 DEF Put
    <2>3. QED
        BY <1>1, <1>2, <1>3, <2>1, <2>2, EntryKeepsTypes
<1>5. CASE FailedThunk
    <2>1. /\ Process
          /\ funcInfo' = Put(funcInfo, F.name, [list |-> "virtual", ids |-> <<>>, typeID |-> NoType])
          /\ UNCHANGED <<FunctionIDMap, NextTypeID>>
        BY <1>5 DEF FailedThunk, encoderVars
    <2>2. /\ DOMAIN funcInfo' = DOMAIN funcInfo \cup {F.name}
          /\ funcInfo'[F.name].list = "virtual" /\ funcInfo'[F.name].typeID = NoType
          /\ \A n \in DOMAIN funcInfo : n # F.name => funcInfo'[n] = funcInfo[n]
        BY <2>1 DEF Put
    <2>3. QED
        BY <1>1, <1>2, <1>3, <2>1, <2>2, EntryKeepsTypes
<1>6. CASE processVirtualFunction
    <2>1. /\ Process /\ Store("virtual", CallableIDs) /\ CallableIDs # <<>>
          /\ FunctionIDMap' = Put(FunctionIDMap, F.name, CallableIDs[1])
        BY <1>6 DEF processVirtualFunction
    <2>2. CallableIDs[1] \in Nat
        <3>1. <<>> \in Seq(0..(module.maxID - 1))
            OBVIOUS
        <3>2. CallableIDs \in Seq(0..(module.maxID - 1)) /\ module.maxID \in Nat
            BY <3>1 DEF IInv, Numbered, CallableIDs, VirtualIDs
        <3>3. QED
            BY <2>1, <3>2
    <2>3. /\ \A n \in DOMAIN FunctionIDMap' : FunctionIDMap'[n] \in Nat
          /\ DOMAIN FunctionIDMap \subseteq DOMAIN FunctionIDMap'
        BY <1>2, <2>1, <2>2 DEF Put
    <2>4. QED
        BY <1>1, <2>1, <2>3, StoreTypes, EntryKeepsTypes
<1>7. CASE processStaticFunction
    <2>1. /\ Process /\ Store("static", <<functionID>>)
          /\ FunctionIDMap' = Put(FunctionIDMap, F.name, functionID)
        BY <1>7 DEF processStaticFunction
    <2>2. /\ \A n \in DOMAIN FunctionIDMap' : FunctionIDMap'[n] \in Nat
          /\ DOMAIN FunctionIDMap' = DOMAIN FunctionIDMap \cup {F.name}
        BY <1>2, <2>1 DEF Put
    <2>3. QED
        BY <1>1, <2>1, <2>2, StoreTypes, EntryKeepsTypes
<1>8. CASE UNCHANGED vars
    <2>1. UNCHANGED <<module, todo, functionID, FunctionIDMap, funcInfo, NextTypeID>>
        BY <1>8 DEF vars, encoderVars
    <2>2. \A n : Ids(n)' = Ids(n)
        BY <2>1 DEF Ids
    <2>3. TypeOK'
        BY <2>1, <2>2 DEF TInv, TypeOK
    <2>4. Fresh'
        BY <2>1 DEF TInv, Fresh, StaticNames
    <2>5. QED
        BY <2>3, <2>4 DEF TInv
<1>9. QED
    BY <1>4, <1>5, <1>6, <1>7, <1>8 DEF Next, Done

LEMMA TypesAndNames == Spec => []TInv
BY InitStarted, InitTypes, NextTypes, NumberingInvariant, PTL DEF Spec

\* For every module, the maps and counters of SDReturnAddress keep the shapes
\* that the code gives them.
THEOREM TypesKept == Spec => []TypeOK
BY TypesAndNames, PTL DEF TInv

-----------------------------------------------------------------------------
(* What is stored for each function, and the space of the static IDs.      *)

\* The IDs that a virtual function or a thunk runs under.
Callable(fn) ==
    IF VirtualIDs(module, fn.name) # <<>> THEN VirtualIDs(module, fn.name)
    ELSE IF fn.kind = "thunk" THEN VirtualIDs(module, fn.thunkOf)
    ELSE <<>>

\* The entry of a function that has been processed agrees with its kind, with
\* the ID that direct calls of it have, and with the encoder.
Outcome(fn) ==
    /\ fn.name \in DOMAIN funcInfo
    /\ \/ funcInfo[fn.name].list = "blacklist" /\ funcInfo[fn.name].ids = <<>>
       \/ /\ funcInfo[fn.name].list = "virtual" /\ fn.kind # "blacklisted"
          /\ funcInfo[fn.name].ids = Callable(fn)
       \/ /\ funcInfo[fn.name].list = "static" /\ fn.kind # "blacklisted"
          /\ \E id \in (module.maxID + 1)..(functionID - 1) : funcInfo[fn.name].ids = <<id>>
    /\ funcInfo[fn.name].ids # <<>> =>
          /\ fn.name \in DOMAIN FunctionIDMap
          /\ FunctionIDMap[fn.name] = funcInfo[fn.name].ids[1]
          /\ fn.addressTaken =>
                /\ Precise(fn.type) \in DOMAIN EncodingToTypeID
                /\ funcInfo[fn.name].typeID = EncodingToTypeID[Precise(fn.type)]
    /\ funcInfo[fn.name].typeID # NoType => funcInfo[fn.name].ids # <<>> /\ fn.addressTaken

Outcomes ==
    \A i \in DOMAIN module.functions :
        \/ \E j \in DOMAIN todo : todo[j] = module.functions[i]
        \/ Outcome(module.functions[i])

LEMMA InitOutcomes == Started => Outcomes
BY DEF Started, Outcomes, WellFormed

\* The type of an encoding stays.
LEMMA EncoderKeeps ==
    ASSUME NEW T, NEW id, getTypeID(T, id)
    PROVE  /\ \A e \in DOMAIN EncodingToTypeID :
                 e \in DOMAIN EncodingToTypeID' /\ EncodingToTypeID'[e] = EncodingToTypeID[e]
           /\ Precise(T) \in DOMAIN EncodingToTypeID'
           /\ id = EncodingToTypeID'[Precise(T)]
BY DEF getTypeID, encoderVars

\* The outcomes stand while the pass goes on and the encoder learns more types.
LEMMA OutcomeStays ==
    ASSUME NEW fn, Outcome(fn), UNCHANGED module,
           fn.name \in DOMAIN funcInfo', funcInfo'[fn.name] = funcInfo[fn.name],
           fn.name \in DOMAIN FunctionIDMap =>
               fn.name \in DOMAIN FunctionIDMap' /\ FunctionIDMap'[fn.name] = FunctionIDMap[fn.name],
           \A e \in DOMAIN EncodingToTypeID :
               e \in DOMAIN EncodingToTypeID' /\ EncodingToTypeID'[e] = EncodingToTypeID[e],
           module.maxID \in Nat, functionID \in Nat, functionID' \in Nat, functionID <= functionID'
    PROVE  Outcome(fn)'
<1>1. Callable(fn)' = Callable(fn)
    BY DEF Callable, VirtualIDs
<1>2. (module.maxID + 1)..(functionID - 1) \subseteq (module.maxID + 1)..(functionID' - 1)
    OBVIOUS
<1>3. QED
    BY <1>1, <1>2 DEF Outcome

\* One function is processed; the others keep their entries.
LEMMA ProcessOutcomes ==
    ASSUME TInv, TInv', Outcomes, Process, NEW fn, fn = F, Outcome(fn)',
           \A n \in DOMAIN funcInfo : n # fn.name =>
               n \in DOMAIN funcInfo' /\ funcInfo'[n] = funcInfo[n],
           \A n \in DOMAIN FunctionIDMap : n # fn.name =>
               n \in DOMAIN FunctionIDMap' /\ FunctionIDMap'[n] = FunctionIDMap[n],
           \A e \in DOMAIN EncodingToTypeID :
               e \in DOMAIN EncodingToTypeID' /\ EncodingToTypeID'[e] = EncodingToTypeID[e],
           functionID <= functionID'
    PROVE  Outcomes'
<1> DEFINE fs == module.functions
<1>1. module' = module /\ todo # <<>> /\ todo' = Tail(todo)
    BY DEF Process
<1>2. PICK k \in DOMAIN fs : fn = fs[k]
    BY Popped
<1>3. /\ \A i, j \in DOMAIN fs : fs[i].name = fs[j].name => i = j
      /\ module.maxID \in Nat /\ functionID \in Nat /\ functionID' \in Nat
    BY DEF TInv, TypeOK, WellFormed
<1>4. ASSUME NEW j \in DOMAIN todo, todo[j] # fn
      PROVE  \E l \in DOMAIN todo' : todo'[l] = todo[j]
    <2> DEFINE S == {fs[i] : i \in DOMAIN fs}
    <2>1. fs \in Seq(S) /\ \E n \in Nat : todo = SubSeq(fs, n + 1, Len(fs))
        <3>1. WellFormed(module) => fs \in Seq(S)
            BY DEF WellFormed
        <3>2. \E n \in 0..Len(module.functions) : todo = SubSeq(fs, n + 1, Len(fs))
            BY DEF TInv, TypeOK
        <3>3. WellFormed(module)
            BY DEF TInv, TypeOK
        <3> HIDE DEF fs, S
        <3>4. QED
            BY <3>1, <3>2, <3>3 DEF fs
    <2> HIDE DEF fs, S
    <2>2. todo \in Seq(S)
        BY <2>1
    <2>3. j \in 1..Len(todo) /\ j # 1
        BY <1>4, <2>2 DEF F
    <2>4. j - 1 \in DOMAIN todo' /\ todo'[j - 1] = todo[j]
        BY <1>1, <2>2, <2>3
    <2>5. QED
        BY <2>4
<1>5. ASSUME NEW i \in DOMAIN fs, NEW g, g = fs[i]
      PROVE  (\E j \in DOMAIN todo' : todo'[j] = g) \/ Outcome(g)'
    <2>1. CASE i = k
        BY <1>2, <1>5, <2>1
    <2>2. CASE i # k /\ \E j \in DOMAIN todo : todo[j] = fs[i]
        <3>1. g # fn
            BY <1>2, <1>3, <1>5, <2>2
        <3>2. QED
            BY <1>4, <1>5, <2>2, <3>1
    <2>3. CASE i # k /\ Outcome(fs[i])
        <3>1. Outcome(g) /\ g.name # fn.name /\ g.name \in DOMAIN funcInfo
            BY <1>2, <1>3, <1>5, <2>3 DEF Outcome
        <3>2. QED
            BY <1>1, <1>3, <3>1, OutcomeStays
    <2>4. QED
        BY <1>5, <2>1, <2>2, <2>3 DEF Outcomes
<1>6. \A i \in DOMAIN fs : (\E j \in DOMAIN todo' : todo'[j] = fs[i]) \/ Outcome(module.functions[i])'
    <2> TAKE i \in DOMAIN fs
    <2>1. PICK g : g = fs[i]
        OBVIOUS
    <2>2. module'.functions[i] = g
        BY <1>1, <2>1
    <2>3. QED
        BY <1>5, <2>1, <2>2
<1>7. QED
    BY <1>1, <1>6 DEF Outcomes

\* The entry of the function that is processed.
LEMMA StoreOutcome ==
    ASSUME NEW list, NEW ids1, Store(list, ids1), ids1 # <<>>
    PROVE  /\ \A e \in DOMAIN EncodingToTypeID :
                 e \in DOMAIN EncodingToTypeID' /\ EncodingToTypeID'[e] = EncodingToTypeID[e]
           /\ F.addressTaken =>
                 /\ Precise(F.type) \in DOMAIN EncodingToTypeID'
                 /\ funcInfo'[F.name].typeID = EncodingToTypeID'[Precise(F.type)]
           /\ ~F.addressTaken => funcInfo'[F.name].typeID = NoType
<1>1. CASE F.addressTaken
    <2>1. PICK t \in 1..StartTypeID :
              /\ getTypeID(F.type, t)
              /\ funcInfo' = Put(funcInfo, F.name, [list |-> list, ids |-> ids1, typeID |-> t])
        BY <1>1 DEF Store
    <2>2. funcInfo'[F.name].typeID = t
        BY <2>1 DEF Put
    <2>3. QED
        BY <1>1, <2>1, <2>2, EncoderKeeps
<1>2. CASE ~F.addressTaken
    BY <1>2 DEF Store, encoderVars, Put
<1>3. QED
    BY <1>1, <1>2

LEMMA NextOutcomes == TInv /\ IInv /\ Outcomes /\ [Next]_vars => Outcomes'
<1> SUFFICES ASSUME TInv, IInv, Outcomes, [Next]_vars PROVE Outcomes'
    OBVIOUS
<1>1. TInv'
    BY NextTypes
<1>2. PICK fn : fn = F
    OBVIOUS
<1>3. module.maxID \in Nat /\ functionID \in Nat /\ functionID > module.maxID
    BY DEF IInv, Numbered
<1>4. CASE BlackListFunction
    <2>1. /\ Process /\ UNCHANGED <<functionID, FunctionIDMap, EncodingToTypeID>>
          /\ funcInfo' = Put(funcInfo, fn.name, [list |-> "blacklist", ids |-> <<>>, typeID |-> NoType])
        BY <1>2, <1>4 DEF BlackListFunction, encoderVars
    <2>2. Outcome(fn)'
        BY <2>1 DEF Put, Outcome, NoType
    <2>3. QED
        BY <1>1, <1>2, <1>3, <2>1, <2>2, ProcessOutcomes DEF Put
<1>5. CASE FailedThunk
    <2>1. /\ Process /\ UNCHANGED <<functionID, FunctionIDMap, EncodingToTypeID, module>>
          /\ funcInfo' = Put(funcInfo, fn.name, [list |-> "virtual", ids |-> <<>>, typeID |-> NoType])
          /\ fn.kind # "blacklisted" /\ Callable(fn) = <<>>
        BY <1>2, <1>5 DEF FailedThunk, encoderVars, Process, CallableIDs, Callable
    <2>2. Callable(fn)' = <<>>
        BY <2>1 DEF Callable, VirtualIDs
    <2>3. Outcome(fn)'
        BY <2>1, <2>2 DEF Put, Outcome, NoType
    <2>4. QED
        BY <1>1, <1>2, <1>3, <2>1, <2>3, ProcessOutcomes DEF Put
<1>6. CASE processVirtualFunction
    <2>1. /\ Process /\ UNCHANGED <<functionID, module>>
          /\ Store("virtual", Callable(fn)) /\ Callable(fn) # <<>>
          /\ fn.kind # "blacklisted"
          /\ FunctionIDMap' = Put(FunctionIDMap, fn.name, Callable(fn)[1])
        BY <1>2, <1>6 DEF processVirtualFunction, Process, CallableIDs, Callable
    <2>2. Callable(fn)' = Callable(fn)
        BY <2>1 DEF Callable, VirtualIDs
    <2>3. Stores(fn.name, "virtual", Callable(fn))
        BY <1>2, <2>1, StoreStores
    <2>4. /\ \A e \in DOMAIN EncodingToTypeID :
                 e \in DOMAIN EncodingToTypeID' /\ EncodingToTypeID'[e] = EncodingToTypeID[e]
          /\ fn.addressTaken =>
                 /\ Precise(fn.type) \in DOMAIN EncodingToTypeID'
                 /\ funcInfo'[fn.name].typeID = EncodingToTypeID'[Precise(fn.type)]
          /\ ~fn.addressTaken => funcInfo'[fn.name].typeID = NoType
        BY <1>2, <2>1, StoreOutcome
    <2>5. /\ fn.name \in DOMAIN FunctionIDMap' /\ FunctionIDMap'[fn.name] = Callable(fn)[1]
          /\ \A n \in DOMAIN FunctionIDMap : n # fn.name =>
                 n \in DOMAIN FunctionIDMap' /\ FunctionIDMap'[n] = FunctionIDMap[n]
        BY <2>1 DEF Put
    <2>6. Outcome(fn)'
        BY <2>1, <2>2, <2>3, <2>4, <2>5 DEF Outcome, Stores, NoType
    <2>7. QED
        BY <1>1, <1>2, <1>3, <2>1, <2>3, <2>4, <2>5, <2>6, ProcessOutcomes DEF Stores
<1>7. CASE processStaticFunction
    <2>1. /\ Process /\ UNCHANGED module /\ functionID' = functionID + 1
          /\ Store("static", <<functionID>>) /\ fn.kind # "blacklisted"
          /\ FunctionIDMap' = Put(FunctionIDMap, fn.name, functionID)
        BY <1>2, <1>7 DEF processStaticFunction, Process
    <2>2. Stores(fn.name, "static", <<functionID>>)
        BY <1>2, <2>1, StoreStores
    <2>3. /\ \A e \in DOMAIN EncodingToTypeID :
                 e \in DOMAIN EncodingToTypeID' /\ EncodingToTypeID'[e] = EncodingToTypeID[e]
          /\ fn.addressTaken =>
                 /\ Precise(fn.type) \in DOMAIN EncodingToTypeID'
                 /\ funcInfo'[fn.name].typeID = EncodingToTypeID'[Precise(fn.type)]
          /\ ~fn.addressTaken => funcInfo'[fn.name].typeID = NoType
        BY <1>2, <2>1, StoreOutcome
    <2>4. /\ fn.name \in DOMAIN FunctionIDMap' /\ FunctionIDMap'[fn.name] = functionID
          /\ \A n \in DOMAIN FunctionIDMap : n # fn.name =>
                 n \in DOMAIN FunctionIDMap' /\ FunctionIDMap'[n] = FunctionIDMap[n]
        BY <2>1 DEF Put
    <2>5. functionID \in (module.maxID + 1)..(functionID' - 1) /\ <<functionID>>[1] = functionID
        BY <1>3, <2>1
    <2>6. Outcome(fn)'
        BY <2>1, <2>2, <2>3, <2>4, <2>5 DEF Outcome, Stores, NoType
    <2>7. QED
        BY <1>1, <1>2, <1>3, <2>1, <2>2, <2>3, <2>4, <2>6, ProcessOutcomes DEF Stores
<1>8. CASE UNCHANGED vars
    BY <1>8 DEF vars, encoderVars, Outcomes, Outcome, Callable, VirtualIDs
<1>9. QED
    BY <1>4, <1>5, <1>6, <1>7, <1>8 DEF Next, Done

LEMMA OutcomesKept == Spec => [](TInv /\ IInv /\ Outcomes)
<1>1. Init => TInv /\ IInv /\ Outcomes
    BY InitStarted, InitInv, InitTypes, InitOutcomes
<1>2. TInv /\ IInv /\ Outcomes /\ [Next]_vars => TInv' /\ IInv' /\ Outcomes'
    BY NextTypes, NextInv, NextOutcomes
<1>3. QED
    BY <1>1, <1>2, PTL DEF Spec

\* For every module, two functions whose address is taken have one type ID
\* exactly if their types have one shape: SDEncoder gives no number to two
\* shapes, and an encoding that it meets again keeps its ID.
THEOREM TypeIDsTellShapes == Spec => []TypeIDsAreShapes
<1>1. TInv /\ IInv /\ Outcomes => TypeIDsAreShapes
    <2> SUFFICES ASSUME TInv, IInv, Outcomes,
                        NEW i \in DOMAIN module.functions, NEW j \in DOMAIN module.functions,
                        NEW f, f = module.functions[i], NEW g, g = module.functions[j],
                        f.name \in DOMAIN funcInfo, funcInfo[f.name].typeID # NoType,
                        g.name \in DOMAIN funcInfo, funcInfo[g.name].typeID # NoType
                 PROVE  funcInfo[f.name].typeID = funcInfo[g.name].typeID <=> SameShape(f.type, g.type)
        BY DEF TypeIDsAreShapes
    <2>1. \A k \in DOMAIN module.functions :
              module.functions[k].name \in DOMAIN funcInfo => Outcome(module.functions[k])
        BY DEF Outcomes, TInv, Fresh
    <2>2. Outcome(f) /\ Outcome(g)
        BY <2>1
    <2>3. /\ Precise(f.type) \in DOMAIN EncodingToTypeID
          /\ funcInfo[f.name].typeID = EncodingToTypeID[Precise(f.type)]
          /\ Precise(g.type) \in DOMAIN EncodingToTypeID
          /\ funcInfo[g.name].typeID = EncodingToTypeID[Precise(g.type)]
        BY <2>2 DEF Outcome
    <2>4. funcInfo[f.name].typeID = funcInfo[g.name].typeID <=> Precise(f.type) = Precise(g.type)
        BY <2>3 DEF IInv, Counted
    <2>5. IsFunctionType(f.type) /\ IsFunctionType(g.type)
        BY DEF TInv, TypeOK, WellFormed
    <2>6. QED
        BY <2>4, <2>5, EncodingIsShape
<1>2. QED
    BY <1>1, OutcomesKept, PTL

LEMMA FirstOfSpace == Init => Space!Init
<1> SUFFICES ASSUME Init PROVE Space!Init
    OBVIOUS
<1>1. StaticNames = {}
    BY DEF Init, StaticNames
<1>2. functionID \in Nat
    <2>1. WellFormed(module) /\ functionID = module.maxID + 1
        BY ModulesAssumption DEF Init
    <2>2. module.maxID \in Nat
        BY <2>1 DEF WellFormed
    <2>3. QED
        BY <2>1, <2>2
<1>3. QED
    BY <1>1, <1>2 DEF Space!Init

LEMMA ModuleStays == Spec => [](module \in Modules)
<1>1. module \in Modules /\ [Next]_vars => (module \in Modules)'
    BY DEF Next, BlackListFunction, processVirtualFunction, FailedThunk, processStaticFunction,
           Process, Done, vars
<1>2. Init => module \in Modules
    BY DEF Init
<1>3. QED
    BY <1>1, <1>2, PTL DEF Spec

LEMMA NextOfSpace == TInv /\ module \in Modules /\ [Next]_vars => [Space!Next]_Space!vars
<1> SUFFICES ASSUME TInv, module \in Modules, [Next]_vars PROVE [Space!Next]_Space!vars
    OBVIOUS
<1> DEFINE idOf == [n \in StaticNames |-> FunctionIDMap[n]]
\* A function that is not static leaves the static ones and the counter alone.
<1>1. ASSUME NEW list, list # "static", NEW i, Process, Stores(F.name, list, i),
             UNCHANGED functionID,
             FunctionIDMap' = FunctionIDMap \/ \E x : FunctionIDMap' = Put(FunctionIDMap, F.name, x)
      PROVE  UNCHANGED Space!vars
    <2>1. F.name \notin DOMAIN funcInfo
        BY <1>1, Popped
    <2>2. StaticNames' = StaticNames
        BY <1>1, <2>1 DEF Stores, StaticNames
    <2>3. \A n \in StaticNames : FunctionIDMap'[n] = FunctionIDMap[n]
        BY <1>1, <2>1 DEF Put, StaticNames, TInv, Fresh
    <2>4. idOf' = idOf
        BY <2>2, <2>3
    <2>5. QED
        BY <1>1, <2>4 DEF Space!vars
<1>2. CASE BlackListFunction
    <2>1. Process /\ Stores(F.name, "blacklist", <<>>) /\ UNCHANGED <<functionID, FunctionIDMap>>
        BY <1>2 DEF BlackListFunction, Process, Put, Stores
    <2>2. QED
        BY <1>1, <2>1
<1>3. CASE FailedThunk
    <2>1. Process /\ Stores(F.name, "virtual", <<>>) /\ UNCHANGED <<functionID, FunctionIDMap>>
        BY <1>3 DEF FailedThunk, Process, Put, Stores
    <2>2. QED
        BY <1>1, <2>1
<1>4. CASE processVirtualFunction
    <2>1. /\ Process /\ Stores(F.name, "virtual", CallableIDs) /\ UNCHANGED functionID
          /\ FunctionIDMap' = Put(FunctionIDMap, F.name, CallableIDs[1])
        BY <1>4, StoreStores DEF processVirtualFunction
    <2>2. QED
        BY <1>1, <2>1
<1>5. CASE processStaticFunction
    <2>1. /\ Process /\ Stores(F.name, "static", <<functionID>>) /\ functionID' = functionID + 1
          /\ FunctionIDMap' = Put(FunctionIDMap, F.name, functionID)
        BY <1>5, StoreStores DEF processStaticFunction
    <2>2. F.name \in Names /\ F.name \notin DOMAIN funcInfo
        BY <2>1, Popped DEF Names
    <2>3. StaticNames' = StaticNames \cup {F.name} /\ F.name \notin StaticNames
        BY <2>1, <2>2 DEF Stores, StaticNames
    <2>4. \A n \in StaticNames : FunctionIDMap'[n] = FunctionIDMap[n]
        BY <2>1, <2>3 DEF Put, TInv, Fresh
    <2>5. FunctionIDMap'[F.name] = functionID
        BY <2>1 DEF Put
    <2>6. functionID \in Nat
        BY DEF TInv, TypeOK
    <2>7. PICK o \in Names : o = F.name
        BY <2>2
    <2>8. Space!Claim(o)
        BY <2>1, <2>3, <2>4, <2>5, <2>6, <2>7 DEF Space!Claim
    <2>9. QED
        BY <2>8 DEF Space!Next
<1>6. CASE UNCHANGED vars
    <2>1. UNCHANGED <<functionID, FunctionIDMap, funcInfo>>
        BY <1>6 DEF vars
    <2>2. QED
        BY <2>1 DEF Space!vars, StaticNames
<1>7. QED
    BY <1>2, <1>3, <1>4, <1>5, <1>6 DEF Next, Done

\* For every module, the numbering of static functions is that of an ID space
\* that hands out each ID once: processStaticFunction claims one, every other
\* step of the pass leaves the IDs that direct calls are annotated with alone.
THEOREM NumberingIsASpace == Spec => ImplementsIdSpace
BY FirstOfSpace, NextOfSpace, ModuleStays, TypesAndNames, PTL DEF Spec, ImplementsIdSpace, Space!Spec
=============================================================================
