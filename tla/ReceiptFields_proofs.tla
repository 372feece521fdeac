------------------------ MODULE ReceiptFields_proofs ------------------------
(***************************************************************************)
(* Proofs about the arrays of a receipt_t, for every CMD_LEN and            *)
(* INDEX_VALUE_KEY_LEN of a build whose metadata is followed by padding,   *)
(* and for every length and number of the inputs.                          *)
(***************************************************************************)
EXTENDS ReceiptFields, WellFoundedInduction, TLAPS

\* What the checks of the parser leave: room for the terminator in every
\* array, but for a metadata that fills its own.
Room(f) == IF f = "metadata" THEN METADATA_LEN ELSE Capacity(f) - 1

\* The sign comes on top of it.
LengthsFit ==
  \A f \in Fields : f # "clearanceOrder" => length[f] <= Room(f) + sign[f]

\* Nothing is copied before the answer is there, and only the numbers of an
\* answer that is not the request's may be negative.
SignsFit ==
  /\ pc \in {"init", "login", "locate", "sign"} => \A f \in Fields : sign[f] = 0
  /\ \A f \in Fields :
       sign[f] = 1 => /\ ~genuine
                      /\ f \in {"timestamp", "timestampSPO", "clearanceOrder"}

IInv == TypeOK /\ LengthsFit /\ SignsFit

\* Every array has at least one byte.
LEMMA RoomIsNat == \A f \in Fields : Capacity(f) \in Nat /\ Room(f) \in Nat
  BY LayoutAssumption
  DEF Fields, Capacity, Room, INDEX_VALUE_LEN, MAX_CLEARANCE_COUNT_STR_LEN,
      ADDRESS_0X_STR_LEN, TIMESTAMP_STR_LEN, METADATA_LEN, RESULT_LEN,
      HASH_STR_LEN, SIG_V_STR_LEN

\* The clearance order starts behind at least one byte of padding.
LEMMA Padding ==
  /\ MetadataEnd \in Nat
  /\ Aligned(MetadataEnd) \in Nat
  /\ Aligned(MetadataEnd) > MetadataEnd
  <1>1. MetadataEnd \in Nat /\ MetadataEnd % 8 # 0
    BY LayoutAssumption
    DEF MetadataEnd, INDEX_VALUE_LEN, MAX_CLEARANCE_COUNT_STR_LEN,
        ADDRESS_0X_STR_LEN, TIMESTAMP_STR_LEN, METADATA_LEN
  <1>2. ASSUME NEW n \in Nat, n % 8 # 0
        PROVE  (-n) % 8 \in Nat /\ (-n) % 8 > 0
    BY <1>2
  <1> QED BY <1>1, <1>2 DEF Aligned

\* The first state has empty fields.
LEMMA InitInv == Init => IInv
  <1> SUFFICES ASSUME Init PROVE IInv
    OBVIOUS
  <1>1. genuine \in BOOLEAN
    BY DEF Init
  <1>2. TypeOK
    BY <1>1 DEF Init, TypeOK, Order
  <1>3. LengthsFit
    BY RoomIsNat DEF Init, LengthsFit
  <1>4. SignsFit
    BY DEF Init, SignsFit
  <1> QED BY <1>2, <1>3, <1>4 DEF IInv

\* A field that passes its check leaves room, and so do the others.
LEMMA ParseFieldInv ==
  ASSUME IInv, position <= Len(Order), NEW form \in Form, NEW n \in Nat,
         NEW sgn \in AnswerSign(form), ParseField(form, n, sgn)
  PROVE  IInv'
  <1> DEFINE f == Order[position]
  <1>1. \/ length' = length /\ sign' = sign /\ position' = position
        \/ /\ length' = [length EXCEPT ![f] = n + sgn]
           /\ sign' = [sign EXCEPT ![f] = sgn]
           /\ position' = position + 1
           /\ ~TooLong(f, n) /\ FormAccepted(f, form)
    BY DEF ParseField
  <1>2. /\ pc' \in {"done", "texts", "parse"} /\ pc = "parse"
        /\ UNCHANGED <<key, locator, cmd, genuine>>
    BY DEF ParseField, Stop, GoOn
  <1>3. Len(Order) \in Nat /\ sgn \in {0, 1}
    BY DEF Order, AnswerSign
  <1>4. TypeOK'
    <2>1. length' \in [Fields -> Nat] /\ sign' \in [Fields -> {0, 1}]
      <3>1. /\ length' = length \/ length' = [length EXCEPT ![f] = n + sgn]
            /\ sign' = sign \/ sign' = [sign EXCEPT ![f] = sgn]
        BY <1>1
      <3>2. n + sgn \in Nat
        BY <1>3
      <3> HIDE DEF f
      <3> QED BY <1>3, <3>1, <3>2 DEF IInv, TypeOK
    <2>2. position' \in 1..(Len(Order) + 1)
      BY <1>1, <1>3 DEF IInv, TypeOK
    <2>3. exitCode' \in {"OK", "KEY_LEN", "CO", "SN", "PARSE", "SIZE"}
      BY DEF ParseField, Stop, GoOn, IInv, TypeOK
    <2>4. genuine' \in BOOLEAN
      BY <1>2 DEF IInv, TypeOK
    <2> QED
      BY <1>2, <2>1, <2>2, <2>3, <2>4 DEF IInv, TypeOK
  <1>5. LengthsFit'
    <2> SUFFICES ASSUME NEW g \in Fields, g # "clearanceOrder"
                 PROVE  length'[g] <= Room(g) + sign'[g]
      BY DEF LengthsFit
    <2>1. length[g] <= Room(g) + sign[g]
      BY DEF IInv, LengthsFit
    <2>2. CASE length' = length /\ sign' = sign
      BY <2>1, <2>2
    <2>3. CASE /\ length' = [length EXCEPT ![f] = n + sgn]
               /\ sign' = [sign EXCEPT ![f] = sgn]
               /\ ~TooLong(f, n)
      <3>1. CASE g = f
        <4>1. n <= Room(g)
          BY <2>3, <3>1, RoomIsNat DEF TooLong, Room
        <4>2. length'[g] = n + sgn /\ sign'[g] = sgn
          BY <2>3, <3>1 DEF IInv, TypeOK
        <4> QED BY <1>3, <4>1, <4>2, RoomIsNat
      <3>2. CASE g # f
        BY <2>1, <2>3, <3>2 DEF IInv, TypeOK
      <3> QED BY <3>1, <3>2
    <2> QED BY <1>1, <2>2, <2>3
  <1>6. SignsFit'
    <2> SUFFICES ASSUME NEW g \in Fields, sign'[g] = 1
                 PROVE  /\ ~genuine
                        /\ g \in {"timestamp", "timestampSPO", "clearanceOrder"}
      BY <1>2 DEF SignsFit
    <2>1. sign[g] = 1 =>
            /\ ~genuine
            /\ g \in {"timestamp", "timestampSPO", "clearanceOrder"}
      BY DEF IInv, SignsFit
    <2>2. CASE sign' = sign
      BY <2>1, <2>2
    <2>3. CASE sign' = [sign EXCEPT ![f] = sgn] /\ FormAccepted(f, form)
      <3>1. CASE g = f
        <4>1. sgn = 1
          BY <2>3, <3>1 DEF IInv, TypeOK
        <4>2. form = "number" /\ ~genuine
          BY <4>1 DEF AnswerSign
        <4> QED BY <2>3, <3>1, <4>2 DEF FormAccepted
      <3>2. CASE g # f
        BY <2>1, <2>3, <3>2 DEF IInv, TypeOK
      <3> QED BY <3>1, <3>2
    <2> QED BY <1>1, <2>2, <2>3
  <1> QED BY <1>4, <1>5, <1>6 DEF IInv

\* Every step keeps the types, the room and the signs.
LEMMA NextInv == IInv /\ [Next]_vars => IInv'
  <1> SUFFICES ASSUME IInv, [Next]_vars PROVE IInv'
    OBVIOUS
  <1> USE DEF IInv, TypeOK, LengthsFit, SignsFit, Stop, GoOn
  <1>1. ASSUME NEW k \in KeyLengths, CheckInitArgs(k) PROVE IInv'
    BY <1>1, InputAssumption DEF CheckInitArgs
  <1>2. CASE BuildLoginRequest
    BY <1>2 DEF BuildLoginRequest
  <1>3. ASSUME NEW l \in Locators, BuildReceiptLocator(l) PROVE IInv'
    <2>1. l \in [sn : Int, clearanceOrder : Int]
      BY <1>3, InputAssumption DEF Locators
    <2>2. /\ locator' = l /\ pc = "locate"
          /\ UNCHANGED <<key, cmd, genuine, position, length, sign>>
      BY <1>3 DEF BuildReceiptLocator
    <2>3. CASE LocatorRefused(l)
      <3>1. pc' = "done" /\ exitCode' \in {"CO", "SN"}
        BY <1>3, <2>3 DEF BuildReceiptLocator
      <3> QED BY <2>1, <2>2, <3>1
    <2>4. CASE ~LocatorRefused(l)
      <3>1. pc' = "sign" /\ exitCode' = exitCode
        BY <1>3, <2>4 DEF BuildReceiptLocator
      <3>2. l.sn >= 0 /\ l.clearanceOrder > 0
        BY <2>1, <2>4 DEF LocatorRefused
      <3> QED BY <2>1, <2>2, <3>1, <3>2
    <2> QED BY <2>3, <2>4
  <1>4. ASSUME NEW c \in CmdLengths, NEW g \in BOOLEAN,
               LedgerInputRequestSign(c, g)
        PROVE  IInv'
    <2>1. genuine' \in BOOLEAN
      BY <1>4 DEF LedgerInputRequestSign
    <2> QED BY <1>4, <2>1, InputAssumption DEF LedgerInputRequestSign
  <1>5. CASE ParseNextField
    BY <1>5, ParseFieldInv DEF ParseNextField
  <1>6. CASE BuildTexts
    BY <1>6 DEF BuildTexts
  <1>7. CASE UNCHANGED vars
    BY <1>7 DEF vars
  <1> QED BY <1>1, <1>2, <1>3, <1>4, <1>5, <1>6, <1>7 DEF Next

\* The bytes of a field stay within the room its neighbour leaves, but for
\* the terminator of a timestamp that is full with its sign.
LEMMA FieldsAreApart == IInv => OnlyASignReachesFurther
  <1> SUFFICES ASSUME IInv, NEW f \in Fields, NEW g \in Fields, ReachesInto(f, g)
               PROVE  /\ f \in {"timestamp", "timestampSPO"}
                      /\ sign[f] = 1
                      /\ Start(f) + length[f] = Start(g)
                      /\ ~genuine
    BY DEF OnlyASignReachesFurther
  <1> DEFINE Most(h) == IF h = "metadata" THEN METADATA_LEN + 1 ELSE Capacity(h)
  <1>1. \A h \in Fields : Start(h) \in Nat /\ Most(h) \in Nat
    <2>1. \A h \in Fields : Start(h) \in Nat
      BY Padding, LayoutAssumption
      DEF Fields, Start, INDEX_VALUE_LEN, MAX_CLEARANCE_COUNT_STR_LEN
    <2> QED BY <2>1, RoomIsNat DEF METADATA_LEN
  <1>2. Start(f) < Start(g) => Start(f) + Most(f) <= Start(g)
    BY Padding, LayoutAssumption
    DEF Fields, Start, Capacity, MetadataEnd, INDEX_VALUE_LEN,
        MAX_CLEARANCE_COUNT_STR_LEN, ADDRESS_0X_STR_LEN, TIMESTAMP_STR_LEN,
        METADATA_LEN, RESULT_LEN, HASH_STR_LEN, SIG_V_STR_LEN
  <1>3. f # "clearanceOrder"
    <2> SUFFICES ASSUME f = "clearanceOrder" PROVE FALSE
      OBVIOUS
    <2>1. Width(f) = 8 /\ Most(f) = 8
      BY DEF Width, Capacity
    <2> HIDE DEF Most
    <2> QED BY <1>1, <1>2, <2>1 DEF ReachesInto
  <1>4. length[f] \in Nat /\ sign[f] \in {0, 1} /\ Width(f) = length[f] + 1
    BY <1>3 DEF IInv, TypeOK, Width
  <1>5. length[f] + 1 <= Most(f) + sign[f]
    <2>1. length[f] <= Room(f) + sign[f] /\ Room(f) \in Nat
      BY <1>3, RoomIsNat DEF IInv, LengthsFit
    <2>2. Room(f) + 1 = Most(f)
      BY RoomIsNat DEF Room, METADATA_LEN
    <2> HIDE DEF Most
    <2> QED BY <1>1, <1>4, <2>1, <2>2
  <1>6. sign[f] = 1 /\ Start(f) + length[f] = Start(g)
    <2> HIDE DEF Most
    <2> QED BY <1>1, <1>2, <1>4, <1>5 DEF ReachesInto
  <1> QED BY <1>3, <1>6 DEF IInv, SignsFit

-----------------------------------------------------------------------------
(* bns_digits() and sprintf() agree.  The induction theorems of the library *)
(* take an operator as a parameter; the least element of a set of           *)
(* counterexamples takes their place.                                       *)

\* Every set of naturals that is not empty has a least element.
LEMMA LeastElement ==
  ASSUME NEW T \in SUBSET Nat, T # {}
  PROVE  \E x \in T : \A y \in T : x <= y
  <1> DEFINE less == {ss \in Nat \X Nat : ss[1] < ss[2]}
  <1>1. IsWellFoundedOn(less, Nat)
    BY NatLessThanWellFounded DEF OpToRel
  <1>2. \A x, y \in Nat : <<y, x>> \in less <=> y < x
    OBVIOUS
  <1>3. PICK x \in T : \A y \in T : ~(<<y, x>> \in less)
    <2> HIDE DEF less
    <2> QED BY <1>1, WFMin
  <1>4. ASSUME NEW y \in T PROVE x <= y
    <2>1. x \in Nat /\ y \in Nat /\ <<y, x>> \notin less
      BY <1>3
    <2>2. ~(y < x)
      BY <1>2, <2>1
    <2> QED BY <2>1, <2>2
  <1> QED BY <1>4

\* What a recursive definition asks: base cases, smaller arguments elsewhere,
\* and a function that is 1 in a base case and elsewhere a step away from its
\* value at the smaller argument.
Descends(Base, prev) ==
  Base \in SUBSET Nat /\ prev \in [Nat -> Nat] /\ \A m \in Nat \ Base : prev[m] < m

Solution(f, Base, prev, step) ==
  f \in [Nat -> Nat] /\ \A m \in Nat : f[m] = IF m \in Base THEN 1 ELSE step[f[prev[m]]]

\* Such a function exists.
LEMMA Recursion ==
  ASSUME NEW Base, NEW prev, NEW step \in [Nat -> Nat], Descends(Base, prev)
  PROVE  \E f : Solution(f, Base, prev, step)
  <1> USE DEF Descends
  <1> DEFINE Val(g, m) == IF m \in Base THEN 1 ELSE step[g[prev[m]]]
             Upto(k) == {g \in [0..k -> Nat] : \A m \in 0..k : g[m] = Val(g, m)}
  <1>1. ASSUME NEW k \in Nat, NEW l \in Nat, NEW g \in Upto(k), NEW h \in Upto(l),
               NEW n \in (0..k) \cap (0..l)
        PROVE  g[n] = h[n]
    <2> DEFINE Apart == {m \in (0..k) \cap (0..l) : g[m] # h[m]}
    <2>1. SUFFICES ASSUME Apart # {} PROVE FALSE
      OBVIOUS
    <2>2. PICK x \in Apart : \A y \in Apart : x <= y
      <3>1. Apart \in SUBSET Nat
        OBVIOUS
      <3> HIDE DEF Apart
      <3> QED BY <2>1, <3>1, LeastElement
    <2>3. x \in Nat /\ g[x] = Val(g, x) /\ h[x] = Val(h, x) /\ g[x] # h[x]
      <3>1. x \in 0..k /\ x \in 0..l /\ g[x] # h[x]
        OBVIOUS
      <3>2. g[x] = Val(g, x)
        <4> HIDE DEF Val, Apart
        <4> QED BY <3>1
      <3>3. h[x] = Val(h, x)
        <4> HIDE DEF Val, Apart
        <4> QED BY <3>1
      <3> QED BY <3>1, <3>2, <3>3
    <2>4. x \notin Base
      BY <2>3
    <2>5. prev[x] \in Nat /\ prev[x] < x
      BY <2>3, <2>4
    <2>6. prev[x] \in (0..k) \cap (0..l) /\ prev[x] \notin Apart
      <3>1. ASSUME prev[x] \in Apart PROVE FALSE
        <4>1. x <= prev[x]
          BY <2>2, <3>1
        <4> QED BY <2>3, <2>5, <4>1
      <3>2. x \in 0..k /\ x \in 0..l
        OBVIOUS
      <3> HIDE DEF Apart
      <3> QED BY <2>3, <2>5, <3>1, <3>2
    <2> QED BY <2>3, <2>4, <2>6
  <1>2. ASSUME NEW n \in Nat PROVE Upto(n) # {}
    <2> DEFINE Missing == {k \in Nat : Upto(k) = {}}
    <2>1. SUFFICES ASSUME Missing # {} PROVE FALSE
      OBVIOUS
    <2>2. PICK k \in Missing : \A y \in Missing : k <= y
      <3>1. Missing \in SUBSET Nat
        OBVIOUS
      <3> HIDE DEF Missing
      <3> QED BY <2>1, <3>1, LeastElement
    <2>3. CASE k = 0
      <3> DEFINE g == [m \in 0..0 |-> 1]
      <3>1. g \in [0..0 -> Nat]
        OBVIOUS
      <3>2. 0 \in Base
        <4> SUFFICES ASSUME 0 \notin Base PROVE FALSE
          OBVIOUS
        <4>1. prev[0] < 0 /\ prev[0] \in Nat
          OBVIOUS
        <4> QED BY <4>1
      <3>3. \A m \in 0..0 : g[m] = Val(g, m)
        BY <3>2
      <3> QED BY <2>3, <3>1, <3>3
    <2>4. CASE k # 0
      <3>1. k \in Nat /\ k - 1 \in Nat /\ k - 1 \notin Missing
        <4> HIDE DEF Upto
        <4>1. k \in Nat
          OBVIOUS
        <4>2. ASSUME k - 1 \in Missing PROVE FALSE
          <5>1. k <= k - 1
            BY <2>2, <4>2
          <5> QED BY <4>1, <5>1
        <4> HIDE DEF Missing
        <4> QED BY <2>4, <4>1, <4>2
      <3>2. PICK g \in Upto(k - 1) : TRUE
        BY <3>1
      <3> DEFINE h == [m \in 0..k |-> IF m < k THEN g[m] ELSE Val(g, k)]
      <3>3. g \in [0..(k - 1) -> Nat] /\ \A m \in 0..(k - 1) : g[m] = Val(g, m)
        BY <3>2
      <3>4. Val(g, k) \in Nat
        <4>1. CASE k \in Base
          BY <4>1
        <4>2. CASE k \notin Base
          <5>1. prev[k] \in 0..(k - 1)
            BY <3>1, <4>2
          <5> QED BY <3>3, <4>2, <5>1
        <4> QED BY <4>1, <4>2
      <3>5. h \in [0..k -> Nat]
        <4>1. ASSUME NEW m \in 0..k
              PROVE  (IF m < k THEN g[m] ELSE Val(g, k)) \in Nat
          <5>1. m < k => m \in 0..(k - 1)
            BY <3>1
          <5> HIDE DEF Val, Upto, Missing
          <5> QED BY <3>3, <3>4, <5>1
        <4> HIDE DEF Val
        <4> QED BY <4>1
      <3>6. ASSUME NEW m \in 0..k PROVE h[m] = Val(h, m)
        <4>1. h[m] = Val(g, m)
          <5>1. m < k \/ m = k
            BY <3>1
          <5>2. m < k => m \in 0..(k - 1)
            BY <3>1
          <5> HIDE DEF Val, Upto, Missing
          <5> QED BY <3>3, <5>1, <5>2
        <4>2. CASE m \in Base
          BY <4>1, <4>2
        <4>3. CASE m \notin Base
          <5>1. prev[m] \in 0..k /\ prev[m] < k
            <6>1. m \in Nat /\ m <= k
              BY <3>1
            <6>2. prev[m] \in Nat /\ prev[m] < m
              BY <4>3, <6>1
            <6> HIDE DEF Missing, Upto, Val, h
            <6> QED BY <3>1, <6>1, <6>2
          <5>2. h[prev[m]] = g[prev[m]]
            <6> HIDE DEF Val
            <6> QED BY <5>1
          <5> HIDE DEF h
          <5> QED BY <4>1, <4>3, <5>2
        <4> QED BY <4>2, <4>3
      <3>7. h \in Upto(k)
        <4> HIDE DEF h, Val
        <4> QED BY <3>5, <3>6
      <3> HIDE DEF Upto
      <3> QED BY <3>7
    <2> QED BY <2>3, <2>4
  <1> DEFINE G(n) == CHOOSE g \in Upto(n) : TRUE
             f == [n \in Nat |-> G(n)[n]]
  <1>3. ASSUME NEW n \in Nat PROVE G(n) \in Upto(n)
    <2> HIDE DEF Upto
    <2> QED BY <1>2
  <1>4. ASSUME NEW n \in Nat
        PROVE  f[n] \in Nat /\ f[n] = G(n)[n] /\ G(n)[n] = Val(G(n), n)
    <2>1. f[n] = G(n)[n]
      <3> HIDE DEF G
      <3> QED OBVIOUS
    <2>2. G(n) \in [0..n -> Nat] /\ \A m \in 0..n : G(n)[m] = Val(G(n), m)
      <3> HIDE DEF G, Val
      <3> QED BY <1>3
    <2> HIDE DEF G, f, Val
    <2> QED BY <2>1, <2>2
  <1>5. ASSUME NEW n \in Nat PROVE f[n] = Val(f, n)
    <2>1. CASE n \in Base
      <3> HIDE DEF G, f
      <3> QED BY <1>4, <2>1
    <2>2. CASE n \notin Base
      <3>1. prev[n] \in Nat /\ prev[n] < n
        BY <2>2
      <3>2. G(n)[prev[n]] = G(prev[n])[prev[n]]
        <4>1. prev[n] \in (0..n) \cap (0..prev[n])
          BY <3>1
        <4>2. G(n) \in Upto(n) /\ G(prev[n]) \in Upto(prev[n])
          <5> HIDE DEF G, Upto
          <5> QED BY <1>3, <3>1
        <4> HIDE DEF G, Upto, f
        <4> QED BY <1>1, <3>1, <4>1, <4>2
      <3> HIDE DEF G, f
      <3> QED BY <1>4, <2>2, <3>1, <3>2
    <2> QED BY <2>1, <2>2
  <1>6. f \in [Nat -> Nat]
    <2>1. \A n \in Nat : f[n] \in Nat
      <3> HIDE DEF f, G, Val
      <3> QED BY <1>4
    <2>2. f = [n \in Nat |-> f[n]]
      <3> HIDE DEF G
      <3> QED OBVIOUS
    <2> HIDE DEF f
    <2> QED BY <2>1, <2>2
  <1>7. Solution(f, Base, prev, step)
    <2> HIDE DEF f
    <2> QED BY <1>5, <1>6 DEF Solution
  <1> QED BY <1>7

\* The recursive definition of the loop of bns_digits() has a solution.
LEMMA LoopTurns ==
  /\ loopTurns \in [Nat -> Nat]
  /\ \A m \in Nat : loopTurns[m] = IF m < 10 THEN 1 ELSE 1 + loopTurns[m \div 10]
  <1> DEFINE Base == 0..9
             prev == [m \in Nat |-> m \div 10]
             step == [v \in Nat |-> 1 + v]
             Solves(f) == f = [m \in Nat |-> IF m < 10 THEN 1 ELSE 1 + f[m \div 10]]
  <1>1. Descends(Base, prev) /\ step \in [Nat -> Nat]
    BY DEF Descends
  <1>2. PICK f : Solution(f, Base, prev, step)
    <2> HIDE DEF Base, prev, step
    <2> QED BY <1>1, Recursion
  <1>3. ASSUME NEW m \in Nat
        PROVE  (IF m \in Base THEN 1 ELSE step[f[prev[m]]])
                 = IF m < 10 THEN 1 ELSE 1 + f[m \div 10]
    <2>1. m \div 10 \in Nat /\ (m \in Base <=> m < 10)
      OBVIOUS
    <2>2. prev[m] = m \div 10 /\ step[f[m \div 10]] = 1 + f[m \div 10]
      BY <1>2, <2>1 DEF Solution
    <2> QED BY <2>1, <2>2
  <1>4. Solves(f)
    <2> HIDE DEF Base, prev, step
    <2> QED BY <1>2, <1>3 DEF Solution
  <1>5. Solves(loopTurns)
    <2>1. loopTurns = CHOOSE g : Solves(g)
      BY DEF loopTurns
    <2> HIDE DEF Solves
    <2> QED BY <1>4, <2>1
  <1>6. ASSUME NEW m \in Nat
        PROVE  loopTurns[m] = IF m < 10 THEN 1 ELSE 1 + loopTurns[m \div 10]
    BY <1>5
  <1>7. \A m \in Nat : loopTurns[m] \in Nat
    <2> DEFINE Bad == {m \in Nat : loopTurns[m] \notin Nat}
    <2>1. SUFFICES ASSUME Bad # {} PROVE FALSE
      OBVIOUS
    <2>2. PICK x \in Bad : \A y \in Bad : x <= y
      <3>1. Bad \in SUBSET Nat
        OBVIOUS
      <3> HIDE DEF Bad
      <3> QED BY <2>1, <3>1, LeastElement
    <2>3. x \in Nat /\ loopTurns[x] \notin Nat
      OBVIOUS
    <2>4. ~(x < 10) /\ loopTurns[x \div 10] \notin Nat
      BY <1>6, <2>3
    <2>5. x \div 10 \in Nat /\ x \div 10 < x
      BY <2>3, <2>4
    <2> QED BY <2>2, <2>3, <2>4, <2>5
  <1>8. loopTurns \in [Nat -> Nat]
    BY <1>5, <1>7
  <1> QED BY <1>6, <1>8

\* So has the definition of the powers of ten.
LEMMA Pow10 ==
  /\ pow10 \in [Nat -> Nat]
  /\ \A d \in Nat : pow10[d] = IF d = 0 THEN 1 ELSE 10 * pow10[d - 1]
  <1> DEFINE Base == {0}
             prev == [m \in Nat |-> IF m = 0 THEN 0 ELSE m - 1]
             step == [v \in Nat |-> 10 * v]
             Solves(f) == f = [d \in Nat |-> IF d = 0 THEN 1 ELSE 10 * f[d - 1]]
  <1>1. Descends(Base, prev) /\ step \in [Nat -> Nat]
    BY DEF Descends
  <1>2. PICK f : Solution(f, Base, prev, step)
    <2> HIDE DEF Base, prev, step
    <2> QED BY <1>1, Recursion
  <1>3. ASSUME NEW m \in Nat
        PROVE  (IF m \in Base THEN 1 ELSE step[f[prev[m]]])
                 = IF m = 0 THEN 1 ELSE 10 * f[m - 1]
    BY <1>2 DEF Solution
  <1>4. Solves(f)
    <2> HIDE DEF Base, prev, step
    <2> QED BY <1>2, <1>3 DEF Solution
  <1>5. Solves(pow10)
    <2>1. pow10 = CHOOSE g : Solves(g)
      BY DEF pow10
    <2> HIDE DEF Solves
    <2> QED BY <1>4, <2>1
  <1>6. ASSUME NEW m \in Nat
        PROVE  pow10[m] = IF m = 0 THEN 1 ELSE 10 * pow10[m - 1]
    BY <1>5
  <1>7. \A m \in Nat : pow10[m] \in Nat
    <2> DEFINE Bad == {m \in Nat : pow10[m] \notin Nat}
    <2>1. SUFFICES ASSUME Bad # {} PROVE FALSE
      OBVIOUS
    <2>2. PICK x \in Bad : \A y \in Bad : x <= y
      <3>1. Bad \in SUBSET Nat
        OBVIOUS
      <3> HIDE DEF Bad
      <3> QED BY <2>1, <3>1, LeastElement
    <2>3. x \in Nat /\ pow10[x] \notin Nat
      OBVIOUS
    <2>4. x # 0 /\ pow10[x - 1] \notin Nat
      BY <1>6, <2>3
    <2> QED BY <2>2, <2>3, <2>4
  <1>8. pow10 \in [Nat -> Nat]
    BY <1>5, <1>7
  <1> QED BY <1>6, <1>8

\* More digits, a greater power.
LEMMA Pow10Grows ==
  ASSUME NEW a \in Nat, NEW b \in Nat, a <= b
  PROVE  pow10[a] <= pow10[b]
  <1> DEFINE Bad == {d \in Nat : a <= d /\ pow10[a] > pow10[d]}
  <1>1. SUFFICES ASSUME Bad # {} PROVE FALSE
    BY Pow10
  <1>2. PICK x \in Bad : \A y \in Bad : x <= y
    <2>1. Bad \in SUBSET Nat
      OBVIOUS
    <2> HIDE DEF Bad
    <2> QED BY <1>1, <2>1, LeastElement
  <1>3. x \in Nat /\ a <= x /\ pow10[a] > pow10[x] /\ x # a
    BY Pow10
  <1>4. x - 1 \in Nat /\ a <= x - 1 /\ pow10[x] = 10 * pow10[x - 1]
    BY <1>3, Pow10
  <1>5. pow10[a] <= pow10[x - 1]
    BY <1>2, <1>4, Pow10
  <1> QED BY <1>3, <1>4, <1>5, Pow10

\* The loop runs once for each digit.
LEMMA LoopTurnsCount ==
  ASSUME NEW m \in Nat
  PROVE  loopTurns[m] \in 1..(m + 1) /\ HasDigits(m, loopTurns[m])
  <1> DEFINE Right(n) == loopTurns[n] \in 1..(n + 1) /\ HasDigits(n, loopTurns[n])
             Wrong == {n \in Nat : ~Right(n)}
  <1>1. SUFFICES ASSUME Wrong # {} PROVE FALSE
    OBVIOUS
  <1>2. PICK x \in Wrong : \A y \in Wrong : x <= y
    <2>1. Wrong \in SUBSET Nat
      OBVIOUS
    <2> HIDE DEF Wrong
    <2> QED BY <1>1, <2>1, LeastElement
  <1>3. x \in Nat /\ ~Right(x)
    <2> HIDE DEF Right
    <2> QED OBVIOUS
  <1>4. pow10[0] = 1 /\ pow10[1] = 10
    BY Pow10
  <1>5. ~(x < 10)
    BY <1>3, <1>4, LoopTurns DEF HasDigits
  <1> DEFINE q == x \div 10
             d == loopTurns[q]
  <1>6. /\ q \in Nat /\ q < x /\ 10 * q <= x /\ x < 10 * (q + 1)
        /\ loopTurns[x] = 1 + d
    BY <1>3, <1>5, LoopTurns
  <1>7. Right(q)
    <2>1. q \notin Wrong
      BY <1>2, <1>3, <1>6
    <2> HIDE DEF Right, q
    <2> QED BY <1>6, <2>1
  <1>8. /\ d \in Nat /\ 1 <= d /\ d <= q + 1 /\ q < pow10[d]
        /\ d > 1 => q >= pow10[d - 1]
    BY <1>7 DEF HasDigits
  <1>9. pow10[d + 1] = 10 * pow10[d] /\ (d > 1 => pow10[d] = 10 * pow10[d - 1])
    <2> HIDE DEF d
    <2> QED BY <1>8, Pow10
  <1>10. pow10[d] \in Nat /\ (d > 1 => pow10[d - 1] \in Nat)
    <2> HIDE DEF d
    <2> QED BY <1>8, Pow10
  <1>11. x < pow10[d + 1] /\ x >= pow10[d]
    <2>1. CASE d > 1
      <3> HIDE DEF d, q
      <3> QED BY <1>3, <1>6, <1>8, <1>9, <1>10, <2>1
    <2>2. CASE d = 1
      <3> HIDE DEF d, q
      <3> QED BY <1>3, <1>4, <1>5, <1>6, <1>8, <1>9, <1>10, <2>2
    <2> HIDE DEF d
    <2> QED BY <1>8, <2>1, <2>2
  <1>12. Right(x)
    <2> HIDE DEF d, q
    <2> QED BY <1>3, <1>6, <1>8, <1>11 DEF HasDigits
  <1> QED BY <1>3, <1>12

\* A number has one number of digits.
LEMMA DigitsUnique ==
  ASSUME NEW m \in Nat, NEW a \in Nat \ {0}, NEW b \in Nat \ {0},
         HasDigits(m, a), HasDigits(m, b)
  PROVE  a = b
  <1>1. ASSUME NEW k \in Nat \ {0}, NEW l \in Nat \ {0}, k < l,
               HasDigits(m, k), HasDigits(m, l)
        PROVE  FALSE
    <2>1. m < pow10[k] /\ m >= pow10[l - 1] /\ k <= l - 1 /\ l - 1 \in Nat
      BY <1>1 DEF HasDigits
    <2>2. pow10[k] <= pow10[l - 1] /\ pow10[k] \in Nat /\ pow10[l - 1] \in Nat
      BY <2>1, Pow10, Pow10Grows
    <2> QED BY <2>1, <2>2
  <1> QED BY <1>1

\* sprintf() prints as many characters as bns_digits() counts, and a sign.
LEMMA PrintedDigits ==
  ASSUME NEW n \in Int
  PROVE  /\ Digits(n) \in Nat \ {0}
         /\ Printed(n) = Digits(n) + IF n < 0 THEN 1 ELSE 0
  <1> DEFINE m == Magnitude(n)
             d == CHOOSE e \in 1..(m + 1) : HasDigits(m, e)
  <1>1. m \in Nat
    BY DEF Magnitude
  <1> HIDE DEF m
  <1>2. loopTurns[m] \in 1..(m + 1) /\ HasDigits(m, loopTurns[m])
    BY <1>1, LoopTurnsCount
  <1>3. d \in 1..(m + 1) /\ HasDigits(m, d)
    BY <1>2
  <1>4. d = loopTurns[m]
    <2> HIDE DEF d
    <2> QED BY <1>1, <1>2, <1>3, DigitsUnique
  <1>5. Printed(n) = (IF n < 0 THEN 1 ELSE 0) + d /\ Digits(n) = loopTurns[m]
    BY DEF Printed, Digits, m
  <1> HIDE DEF d
  <1> QED BY <1>1, <1>2, <1>4, <1>5

\* Three digits are enough below a thousand.
LEMMA ThreeDigits ==
  ASSUME NEW n \in 0..999
  PROVE  Digits(n) <= 3
  <1>1. Digits(n) = loopTurns[n]
    BY DEF Digits, Magnitude
  <1>2. n \div 10 \in 0..99 /\ (n \div 10) \div 10 \in 0..9
    OBVIOUS
  <1>3. loopTurns[(n \div 10) \div 10] = 1
    BY <1>2, LoopTurns
  <1>4. loopTurns[n \div 10] <= 2
    BY <1>2, <1>3, LoopTurns
  <1> QED BY <1>1, <1>2, <1>4, LoopTurns

-----------------------------------------------------------------------------
\* Until the texts of the answer are built, at the end, every text fits.
AllFit == \A b \in built : b.printed < b.allocated

TextsInv == (pc # "done" => AllFit) /\ OnlyTheSignOutgrows

\* The texts of the request fit the buffers counted for them.
LEMMA RequestTexts ==
  ASSUME TypeOK, AllFit, pc # "done", [Next]_vars, ~BuildTexts
  PROVE  AllFit'
  <1>1. CASE BuildLoginRequest
    <2> DEFINE b == Buffer("login", ADDRESS_0X_STR_LEN + 16,
                           (ADDRESS_0X_STR_LEN - 1) + TimestampLength + 1)
    <2>1. b.printed < b.allocated
      BY DEF Buffer, ADDRESS_0X_STR_LEN, TimestampLength
    <2> QED BY <1>1, <2>1 DEF BuildLoginRequest, AllFit
  <1>2. ASSUME NEW l \in Locators, BuildReceiptLocator(l)
        PROVE  AllFit'
    <2>1. l.sn \in Int /\ l.clearanceOrder \in Int
      BY InputAssumption DEF Locators
    <2>2. CASE LocatorRefused(l)
      BY <1>2, <2>2 DEF BuildReceiptLocator, AllFit
    <2>3. CASE ~LocatorRefused(l)
      <3> DEFINE b == Buffer("indexValue", key + 2 + Digits(l.sn) + 1,
                             key + 2 + Printed(l.sn))
      <3>1. built' = built \cup {b}
        BY <1>2, <2>3 DEF BuildReceiptLocator
      <3>2. Digits(l.sn) \in Nat /\ Printed(l.sn) = Digits(l.sn)
        BY <2>1, <2>3, PrintedDigits DEF LocatorRefused
      <3>3. b.printed < b.allocated
        BY <3>2 DEF TypeOK, Buffer
      <3> QED BY <3>1, <3>3 DEF AllFit
    <2> QED BY <2>2, <2>3
  <1>3. ASSUME NEW c \in CmdLengths, NEW g \in BOOLEAN,
               LedgerInputRequestSign(c, g)
        PROVE  AllFit'
    <2> DEFINE texts == (ADDRESS_0X_STR_LEN - 1) + TimestampLength + c + IndexValueLength
               order == locator.clearanceOrder
               b == Buffer("request", texts + Digits(order) + 1, texts + Printed(order))
    <2>1. built' = built \cup {b}
      BY <1>3 DEF LedgerInputRequestSign
    <2>2. order \in Int /\ order > 0 /\ locator.sn \in Int /\ key \in Nat
      BY <1>3 DEF LedgerInputRequestSign, TypeOK
    <2>3. Digits(order) \in Nat /\ Printed(order) = Digits(order)
      BY <2>2, PrintedDigits
    <2>4. texts \in Nat
      <3>1. Digits(locator.sn) \in Nat
        BY <2>2, PrintedDigits
      <3> QED BY <2>2, <3>1, InputAssumption
              DEF IndexValueLength, ADDRESS_0X_STR_LEN, TimestampLength
    <2>5. b.printed < b.allocated
      <3> HIDE DEF texts, order
      <3> QED BY <2>3, <2>4 DEF Buffer
    <2> QED BY <2>1, <2>5 DEF AllFit
  <1>4. ASSUME UNCHANGED built PROVE AllFit'
    BY <1>4 DEF AllFit
  <1>5. ASSUME NEW k \in KeyLengths, CheckInitArgs(k) PROVE UNCHANGED built
    BY <1>5 DEF CheckInitArgs
  <1>6. CASE ParseNextField
    BY <1>4, <1>6 DEF ParseNextField, ParseField
  <1>7. CASE UNCHANGED vars
    BY <1>4, <1>7 DEF vars
  <1> QED BY <1>1, <1>2, <1>3, <1>4, <1>5, <1>6, <1>7 DEF Next

\* Of the texts of the answer only the first part may not, by its sign.
LEMMA AnswerTexts ==
  ASSUME IInv, AllFit, BuildTexts
  PROVE  OnlyTheSignOutgrows'
  <1> DEFINE index   == length["indexValue"]
             order   == length["clearanceOrder"]
             minus   == sign["clearanceOrder"]
             printed == index + order
             signed  == printed + HashLength
             first   == Buffer("firstPart", index + (order - minus) + 1, printed)
             others  == {Buffer("secondPart", SecondPartLength + 1, SecondPartLength),
                         Buffer("signed", signed + 1, signed),
                         Buffer("digest", signed + ServerSigLength + 1,
                                signed + ServerSigLength)}
  <1>1. built' = built \cup {first} \cup others /\ UNCHANGED <<sign, genuine>>
    BY DEF BuildTexts
  <1>2. length \in [Fields -> Nat] /\ index \in Nat /\ order \in Nat
        /\ minus \in {0, 1} /\ (minus = 1 => ~genuine)
    BY DEF IInv, TypeOK, SignsFit, Fields
  <1>3. /\ \A f \in Fields : Strlen(f) \in Nat
        /\ SecondPartLength \in Nat /\ ServerSigLength \in Nat
    <2>1. \A f \in Fields : Strlen(f) \in Nat
      <3> SUFFICES ASSUME NEW f \in Fields PROVE Strlen(f) \in Nat
        OBVIOUS
      <3>1. length[f] \in Nat /\ length["cmd"] \in Nat /\ length["result"] \in Nat
        BY <1>2 DEF Fields
      <3>2. f \in DOMAIN Behind => Behind[f] \in {"cmd", "result"}
        BY DEF Behind
      <3> QED BY <3>1, <3>2 DEF Strlen
    <2> QED BY <1>2, <2>1 DEF SecondPartLength, ServerSigLength, Fields
  <1>4. signed \in Nat
    <2> HIDE DEF index, order
    <2> QED BY <1>2 DEF HashLength, HASH_STR_LEN
  <1>5. ASSUME NEW n \in Nat, NEW text
        PROVE  Buffer(text, n + 1, n).printed < Buffer(text, n + 1, n).allocated
    BY DEF Buffer
  <1>6. ASSUME NEW b \in others PROVE b.printed < b.allocated
    <2> HIDE DEF signed
    <2>1. signed + ServerSigLength \in Nat
      BY <1>3, <1>4
    <2>2. CASE b = Buffer("secondPart", SecondPartLength + 1, SecondPartLength)
      BY <1>3, <1>5, <2>2
    <2>3. CASE b = Buffer("signed", signed + 1, signed)
      BY <1>4, <1>5, <2>3
    <2>4. CASE b = Buffer("digest", signed + ServerSigLength + 1,
                          signed + ServerSigLength)
      BY <1>5, <2>1, <2>4
    <2> QED BY <1>6, <2>2, <2>3, <2>4
  <1>7. first.printed < first.allocated \/
        (first.text = "firstPart" /\ minus = 1 /\ first.printed = first.allocated)
    <2> HIDE DEF index, order, minus
    <2> QED BY <1>2 DEF Buffer
  <1>8. ASSUME NEW b \in built'
        PROVE  \/ b.printed < b.allocated
               \/ /\ b.text = "firstPart" /\ sign'["clearanceOrder"] = 1
                  /\ b.printed = b.allocated /\ ~genuine'
    <2>1. CASE b \in built
      BY <2>1 DEF AllFit
    <2>2. CASE b = first
      <3> HIDE DEF first
      <3> QED BY <1>1, <1>2, <1>7, <2>2
    <2>3. CASE b \in others
      BY <1>6, <2>3
    <2> HIDE DEF first, others
    <2> QED BY <1>1, <2>1, <2>2, <2>3
  <1> QED BY <1>8 DEF OnlyTheSignOutgrows

LEMMA TextsStep == IInv /\ TextsInv /\ [Next]_vars => TextsInv'
  <1> SUFFICES ASSUME IInv, TextsInv, [Next]_vars PROVE TextsInv'
    OBVIOUS
  <1>1. AllFit' => OnlyTheSignOutgrows'
    BY DEF AllFit, OnlyTheSignOutgrows
  <1>2. CASE BuildTexts
    <2>1. pc # "done" /\ pc' = "done"
      BY <1>2 DEF BuildTexts
    <2> QED BY <1>2, <2>1, AnswerTexts DEF TextsInv
  <1>3. CASE ~BuildTexts /\ pc # "done"
    BY <1>1, <1>3, RequestTexts DEF TextsInv, IInv
  <1>4. CASE pc = "done"
    <2>1. UNCHANGED vars
      BY <1>4 DEF Next, CheckInitArgs, BuildLoginRequest, BuildReceiptLocator,
                  LedgerInputRequestSign, ParseNextField, ParseField, BuildTexts
    <2> QED BY <2>1 DEF vars, TextsInv, AllFit, OnlyTheSignOutgrows
  <1> QED BY <1>2, <1>3, <1>4

\* An exit code ends the input.
Running == pc # "done" => exitCode = "OK"

\* A field of the receipt of a request within the limits fits its array.
LEMMA GenuineFieldFits ==
  ASSUME TypeOK, pc = "parse", NEW f \in Fields, NEW form \in Form,
         NEW n \in AnswerLength(f, form), FormAccepted(f, form),
         genuine, key < INDEX_VALUE_KEY_LEN, locator.sn <= 999, cmd < CMD_LEN
  PROVE  ~TooLong(f, n)
  <1>1. Digits(locator.sn) \in Nat /\ Digits(locator.sn) <= 3
    <2>1. locator.sn \in Int /\ locator.sn >= 0
      BY DEF TypeOK
    <2>2. locator.sn \in 0..999
      BY <2>1
    <2>3. Digits(locator.sn) \in Nat
      BY <2>1, PrintedDigits
    <2>4. Digits(locator.sn) <= 3
      BY <2>2, ThreeDigits
    <2> QED BY <2>3, <2>4
  <1>2. IndexValueLength \in Nat /\ IndexValueLength < INDEX_VALUE_LEN
    BY <1>1, LayoutAssumption
    DEF TypeOK, IndexValueLength, INDEX_VALUE_LEN, MAX_CLEARANCE_COUNT_STR_LEN
  <1>3. CASE f = "clearanceOrder"
    BY <1>3 DEF TooLong
  <1>4. CASE f \in {"timestamp", "timestampSPO"}
    <2>1. n = 13
      BY <1>4 DEF AnswerLength, RequestLength, FormAccepted, Form, TimestampLength
    <2> QED BY <1>4, <2>1 DEF TooLong, Capacity, TIMESTAMP_STR_LEN
  <1>5. CASE f \in Fields \ {"clearanceOrder", "timestamp", "timestampSPO"}
    <2>1. form = "text"
      BY <1>5 DEF FormAccepted
    <2>2. CASE f = "cmd"
      <3>1. n = cmd
        BY <2>1, <2>2 DEF AnswerLength, RequestLength
      <3>2. TooLong(f, n) => n >= CMD_LEN
        BY <2>2 DEF TooLong, Capacity
      <3>3. cmd \in Nat /\ CMD_LEN \in Nat
        BY LayoutAssumption DEF TypeOK
      <3> QED BY <3>1, <3>2, <3>3
    <2>3. CASE f = "indexValue"
      <3>1. n = IndexValueLength
        BY <2>1, <2>3 DEF AnswerLength, RequestLength
      <3>2. TooLong(f, n) => n >= INDEX_VALUE_LEN
        BY <2>3 DEF TooLong, Capacity
      <3>3. INDEX_VALUE_LEN \in Nat
        BY LayoutAssumption DEF INDEX_VALUE_LEN, MAX_CLEARANCE_COUNT_STR_LEN
      <3> QED BY <1>2, <3>1, <3>2, <3>3
    <2>4. CASE f = "metadata"
      BY <2>1, <2>4 DEF AnswerLength, RequestLength, TooLong, METADATA_LEN
    <2>5. CASE f \in {"callerAddress", "result", "clientR", "clientS", "clientV",
                      "serverR", "serverS", "serverV"}
      BY <2>1, <2>5
      DEF AnswerLength, RequestLength, TooLong, Capacity, ADDRESS_0X_STR_LEN, RESULT_LEN,
          HASH_STR_LEN, SIG_V_STR_LEN
    <2> QED BY <1>5, <2>2, <2>3, <2>4, <2>5 DEF Fields
  <1> QED BY <1>3, <1>4, <1>5

\* The parser does not refuse a receipt within the limits for its size.
LEMMA GenuineStep ==
  TypeOK /\ Running /\ GenuineReceiptIsParsed /\ [Next]_vars
    => Running' /\ GenuineReceiptIsParsed'
  <1> SUFFICES ASSUME TypeOK, Running, GenuineReceiptIsParsed, [Next]_vars
               PROVE  Running' /\ GenuineReceiptIsParsed'
    OBVIOUS
  <1> USE DEF Running
  <1>1. ASSUME NEW k \in KeyLengths, CheckInitArgs(k)
        PROVE  Running' /\ exitCode' # "SIZE"
    BY <1>1 DEF CheckInitArgs, Stop, GoOn
  <1>2. CASE BuildLoginRequest
    BY <1>2 DEF BuildLoginRequest, GoOn, GenuineReceiptIsParsed
  <1>3. ASSUME NEW l \in Locators, BuildReceiptLocator(l)
        PROVE  Running' /\ exitCode' # "SIZE"
    BY <1>3 DEF BuildReceiptLocator, Stop, GoOn
  <1>4. ASSUME NEW c \in CmdLengths, NEW g \in BOOLEAN,
               LedgerInputRequestSign(c, g)
        PROVE  Running' /\ exitCode' # "SIZE"
    BY <1>4 DEF LedgerInputRequestSign, GoOn
  <1>5. CASE ParseNextField
    <2>1. PICK form \in Form :
            \E n \in AnswerLength(Order[position], form), sgn \in AnswerSign(form) :
              ParseField(form, n, sgn)
      BY <1>5 DEF ParseNextField
    <2>2. PICK n \in AnswerLength(Order[position], form), sgn \in AnswerSign(form) :
            ParseField(form, n, sgn)
      BY <2>1
    <2> DEFINE f == Order[position]
    <2>3. f \in Fields
      BY <1>5 DEF ParseNextField, TypeOK, Order, Fields
    <2>4. /\ pc = "parse" /\ exitCode = "OK"
          /\ UNCHANGED <<key, locator, cmd, genuine>>
      BY <2>2 DEF ParseField
    <2>5. Running'
      BY <2>2, <2>4 DEF ParseField, Stop, GoOn
    <2>6. ASSUME exitCode' = "SIZE"
          PROVE  FormAccepted(f, form) /\ TooLong(f, n)
      BY <2>2, <2>4, <2>6 DEF ParseField, Stop, GoOn
    <2>7. GenuineReceiptIsParsed'
      <3> HIDE DEF f
      <3>1. n \in AnswerLength(f, form)
        BY DEF f
      <3> QED BY <2>3, <2>4, <2>6, <3>1, GenuineFieldFits DEF GenuineReceiptIsParsed
    <2> QED BY <2>5, <2>7
  <1>6. CASE BuildTexts
    BY <1>6 DEF BuildTexts, GenuineReceiptIsParsed
  <1>7. CASE UNCHANGED vars
    BY <1>7 DEF vars, GenuineReceiptIsParsed
  <1>8. exitCode' # "SIZE" => GenuineReceiptIsParsed'
    BY DEF GenuineReceiptIsParsed
  <1> QED BY <1>1, <1>2, <1>3, <1>4, <1>5, <1>6, <1>7, <1>8 DEF Next

-----------------------------------------------------------------------------
\* The variables keep their types, and a locator in use was checked.
THEOREM FieldsTypeCorrect == Spec => []TypeOK
  <1>1. IInv => TypeOK
    BY DEF IInv
  <1> QED BY <1>1, InitInv, NextInv, PTL DEF Spec

\* No field of a receipt reaches into another one, but for the terminator of
\* a timestamp that is full with the sign of its number, for every size of
\* the command and of the key that leaves padding behind the metadata, and
\* for every length of the texts and number of digits of an answer.
THEOREM FieldsStayApart == Spec => []OnlyASignReachesFurther
  <1> QED BY FieldsAreApart, InitInv, NextInv, PTL DEF Spec

\* No text outgrows the buffer counted for it, for every key, command and
\* locator and every answer, but for the first part of an answer that has a
\* negative clearance order: bns_digits() counts what sprintf() prints of
\* every number that the checks of the locator let through, and all but the
\* sign of the one that no check has looked at.
THEOREM TextsFit == Spec => []OnlyTheSignOutgrows
  <1>1. Init => TextsInv
    BY DEF Init, TextsInv, AllFit, OnlyTheSignOutgrows
  <1>2. TextsInv => OnlyTheSignOutgrows
    BY DEF TextsInv
  <1> QED BY <1>1, <1>2, InitInv, NextInv, TextsStep, PTL DEF Spec

\* The receipt of a request within the limits is never refused for its size,
\* for every size of the command and of the key.
THEOREM GenuineIsParsed == Spec => []GenuineReceiptIsParsed
  <1>1. Init => Running /\ GenuineReceiptIsParsed
    BY DEF Init, Running, GenuineReceiptIsParsed
  <1>2. IInv => TypeOK
    BY DEF IInv
  <1> QED BY <1>1, <1>2, InitInv, NextInv, GenuineStep, PTL DEF Spec
=============================================================================
