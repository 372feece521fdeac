-------------------------- MODULE ReceiptDao_proofs --------------------------
(***************************************************************************)
(* Proofs about the receipt DAO for every size of the array, every set of  *)
(* clearance orders and every page: it stays compact and free of           *)
(* duplicates, and implements the bounded set of ReceiptStore.             *)
(***************************************************************************)
EXTENDS ReceiptDao, TLAPS, FiniteSetTheorems

(* What the loops rely on.                                                 *)
LoopInv ==
  /\ op \in {"save", "delete"} => receipt \in Receipt
  /\ op = "find" => query \in Query
  /\ op = "save" => /\ receipt \notin Stored
                    /\ \A k \in Slots : k < i => receiptPtr[k] # NULL
  /\ op = "delete" => \A k \in Slots : k < i => receiptPtr[k] # receipt

DaoInv == TypeOK /\ Compact /\ NoDuplicates /\ LoopInv

(* In a compact array the inner loop of receipt_cache_delete() shifts all  *)
(* the slots behind the deleted one.                                       *)
LEMMA ShiftIsPlain ==
  ASSUME TypeOK, Compact, NEW n \in Slots, NEW j \in Slots
  PROVE  ShiftLeft(receiptPtr, n)[j] =
           IF j < n THEN receiptPtr[j]
           ELSE IF j = ReceiptCacheSize - 1 THEN NULL
           ELSE receiptPtr[j + 1]
<1>1. ReceiptCacheSize \in Nat \ {0}
  BY DaoConstants
<1>2. CASE j < n
  BY <1>1, <1>2 DEF ShiftLeft, Slots
<1>3. CASE j >= n /\ j = ReceiptCacheSize - 1
  BY <1>1, <1>3 DEF ShiftLeft, Slots
<1>4. CASE j >= n /\ j # ReceiptCacheSize - 1 /\ ~(\E k \in (n + 1)..j : receiptPtr[k] = NULL)
  BY <1>1, <1>4 DEF ShiftLeft, Slots
<1>5. CASE j >= n /\ j # ReceiptCacheSize - 1 /\ \E k \in (n + 1)..j : receiptPtr[k] = NULL
  <2>1. PICK k \in (n + 1)..j : receiptPtr[k] = NULL
    BY <1>5
  <2>2. k \in Slots /\ j + 1 \in Slots /\ k <= j
    BY <1>1, <1>5, <2>1 DEF Slots
  <2>3. receiptPtr[j] = NULL
    BY <1>1, <2>1, <2>2 DEF Compact, Slots
  <2>4. receiptPtr[j + 1] = NULL
    BY <1>1, <2>1, <2>2 DEF Compact, Slots
  <2> QED
    BY <1>1, <1>5, <2>3, <2>4 DEF ShiftLeft, Slots
<1> QED
  BY <1>1, <1>2, <1>3, <1>4, <1>5 DEF Slots

LEMMA ShiftKeeps ==
  ASSUME TypeOK, Compact, NoDuplicates, NEW n \in Slots, receiptPtr[n] # NULL,
         receiptPtr' = ShiftLeft(receiptPtr, n)
  PROVE  /\ receiptPtr' \in [Slots -> Receipt \cup {NULL}]
         /\ Compact'
         /\ NoDuplicates'
         /\ Stored' = Stored \ {receiptPtr[n]}
         /\ \A j \in Slots : j <= n => receiptPtr'[j] # receiptPtr[n]
<1> USE DaoConstants DEF Slots
<1>1. \A j \in Slots : receiptPtr'[j] = IF j < n THEN receiptPtr[j]
                                        ELSE IF j = ReceiptCacheSize - 1 THEN NULL
                                        ELSE receiptPtr[j + 1]
  BY ShiftIsPlain
<1>2. receiptPtr' \in [Slots -> Receipt \cup {NULL}]
  <2>1. \A j \in Slots : receiptPtr'[j] \in Receipt \cup {NULL}
    BY <1>1 DEF TypeOK
  <2> QED
    BY <2>1 DEF ShiftLeft
<1>3. Compact'
  BY <1>1 DEF Compact
<1>4. NoDuplicates'
  BY <1>1 DEF NoDuplicates
<1>5. Stored' = Stored \ {receiptPtr[n]}
  <2>1. ASSUME NEW r \in Stored' PROVE r \in Stored \ {receiptPtr[n]}
    <3>1. PICK j \in Slots : receiptPtr'[j] = r /\ r # NULL
      BY DEF Stored
    <3>2. CASE j < n
      BY <1>1, <3>1, <3>2 DEF Stored, NoDuplicates
    <3>3. CASE j >= n
      <4>1. j + 1 \in Slots /\ receiptPtr[j + 1] = r /\ j + 1 # n
        BY <1>1, <3>1, <3>3
      <4> QED
        BY <3>1, <4>1 DEF Stored, NoDuplicates
    <3> QED
      BY <3>2, <3>3
  <2>2. ASSUME NEW r \in Stored \ {receiptPtr[n]} PROVE r \in Stored'
    <3>1. PICK j \in Slots : receiptPtr[j] = r /\ r # NULL
      BY DEF Stored
    <3>2. CASE j < n
      BY <1>1, <3>1, <3>2 DEF Stored
    <3>3. CASE j > n
      <4>1. j - 1 \in Slots /\ receiptPtr'[j - 1] = r
        BY <1>1, <3>1, <3>3
      <4> QED
        BY <3>1, <4>1 DEF Stored
    <3> QED
      BY <3>1, <3>2, <3>3
  <2> QED
    BY <2>1, <2>2
<1>6. \A j \in Slots : j <= n => receiptPtr'[j] # receiptPtr[n]
  BY <1>1 DEF NoDuplicates
<1> QED
  BY <1>2, <1>3, <1>4, <1>5, <1>6

-----------------------------------------------------------------------------
LEMMA DaoInit == Init => DaoInv
BY DaoConstants
   DEF Init, DaoInv, TypeOK, Compact, NoDuplicates, LoopInv, Slots

LEMMA CallsInv ==
  ASSUME DaoInv,
         \/ \E r \in Receipt : Save(r) \/ Delete(r)
         \/ \E q \in Query : Find(q)
  PROVE  DaoInv'
<1> USE DEF DaoInv, Compact, NoDuplicates, LoopInv, Stored, Ready
<1>1. CASE \E r \in Receipt : Save(r)
  <2>1. PICK r \in Receipt : Save(r)
    BY <1>1
  <2>2. TypeOK'
    BY <2>1, DaoConstants DEF Save, TypeOK
  <2> QED
    BY <2>1, <2>2, DaoConstants DEF Save, Slots
<1>2. CASE \E r \in Receipt : Delete(r)
  <2>1. PICK r \in Receipt : Delete(r)
    BY <1>2
  <2>2. TypeOK'
    BY <2>1, DaoConstants DEF Delete, TypeOK
  <2> QED
    BY <2>1, <2>2, DaoConstants DEF Delete, Slots
<1>3. CASE \E q \in Query : Find(q)
  <2>1. PICK q \in Query : Find(q)
    BY <1>3
  <2>2. TypeOK'
    BY <2>1, DaoConstants DEF Find, TypeOK
  <2> QED
    BY <2>1, <2>2 DEF Find
<1> QED
  BY <1>1, <1>2, <1>3

LEMMA SaveStepInv ==
  ASSUME DaoInv, SaveStep
  PROVE  DaoInv'
<1> USE DaoConstants DEF Slots, DaoInv, LoopInv
<1>1. CASE receiptPtr' = receiptPtr
  BY <1>1 DEF SaveStep, TypeOK, Compact, NoDuplicates, Stored, callVars
<1>2. CASE /\ i < ReceiptCacheSize /\ receiptPtr[i] = NULL
           /\ receiptPtr' = [receiptPtr EXCEPT ![i] = receipt]
           /\ op' = "idle" /\ UNCHANGED i /\ UNCHANGED callVars
  <2>1. /\ op = "save" /\ i \in Slots /\ receipt \in Receipt
        /\ \A k \in Slots : receiptPtr[k] # receipt
    BY <1>2 DEF SaveStep, TypeOK, Stored
  <2>2. TypeOK'
    BY <1>2, <2>1 DEF TypeOK, callVars
  <2>3. Compact'
    BY <1>2, <2>1 DEF TypeOK, Compact
  <2>4. NoDuplicates'
    BY <1>2, <2>1 DEF TypeOK, NoDuplicates
  <2> QED
    BY <1>2, <2>2, <2>3, <2>4
<1> QED
  BY <1>1, <1>2 DEF SaveStep

LEMMA FindStepInv ==
  ASSUME DaoInv, FindStep
  PROVE  DaoInv'
<1> USE DaoConstants DEF Slots, DaoInv, LoopInv
<1>1. op = "find" /\ UNCHANGED <<receiptPtr, receipt, query>>
  BY DEF FindStep
<1>2. op' \in {"find", "found"}
  BY <1>1 DEF FindStep
<1>3. i' \in 0..ReceiptCacheSize
  BY DEF FindStep, FindEnds, TypeOK
<1>4. currentOffset' \in Nat
  BY DEF FindStep, TypeOK
<1>5. outputReceipt' \in Seq(Receipt)
  <2>1. CASE UNCHANGED outputReceipt
    BY <2>1 DEF TypeOK
  <2>2. CASE ~FindEnds /\ outputReceipt' = Append(outputReceipt, receiptPtr[i])
    <3>1. receiptPtr[i] \in Receipt
      BY <2>2 DEF FindEnds, TypeOK
    <3> QED
      BY <2>2, <3>1 DEF TypeOK
  <2> QED
    BY <2>1, <2>2 DEF FindStep
<1>6. TypeOK'
  BY <1>1, <1>2, <1>3, <1>4, <1>5 DEF TypeOK
<1> QED
  BY <1>1, <1>2, <1>6 DEF Compact, NoDuplicates, Stored

LEMMA DeleteStepInv ==
  ASSUME DaoInv, DeleteStep
  PROVE  DaoInv'
<1> USE DaoConstants DEF DaoInv
<1>1. /\ op = "delete" /\ op' \in {"delete", "idle"}
      /\ i' \in 0..ReceiptCacheSize
      /\ UNCHANGED callVars
  BY DEF DeleteStep, TypeOK
<1>2. /\ receiptPtr' \in [Slots -> Receipt \cup {NULL}]
      /\ Compact'
      /\ NoDuplicates'
      /\ op' = "delete" => \A k \in Slots : k < i' => receiptPtr'[k] # receipt
  <2>1. CASE receiptPtr' = receiptPtr /\ (i < ReceiptCacheSize => ~IsDeleted(i))
    BY <2>1 DEF DeleteStep, TypeOK, Compact, NoDuplicates, LoopInv, Slots, IsDeleted
  <2>2. CASE /\ i < ReceiptCacheSize /\ IsDeleted(i) /\ i' = i + 1
             /\ receiptPtr' = ShiftLeft(receiptPtr, i)
    <3>1. i \in Slots /\ receiptPtr[i] = receipt /\ receiptPtr[i] # NULL
      BY <1>1, <2>2 DEF TypeOK, Slots, LoopInv, IsDeleted
    <3>2. \A k \in Slots : k < i' => k <= i
      BY <2>2, <3>1 DEF Slots
    <3> QED
      BY <2>2, <3>1, <3>2, ShiftKeeps
  <2> QED
    BY <2>1, <2>2 DEF DeleteStep
<1> QED
  BY <1>1, <1>2 DEF TypeOK, LoopInv, callVars

LEMMA DaoNext == DaoInv /\ [Next]_vars => DaoInv'
<1> SUFFICES ASSUME DaoInv, [Next]_vars PROVE DaoInv'
  OBVIOUS
<1>1. CASE UNCHANGED vars
  BY <1>1 DEF vars, callVars, DaoInv, TypeOK, Compact, NoDuplicates, LoopInv,
     Stored, Slots
<1> QED
  BY <1>1, CallsInv, SaveStepInv, FindStepInv, DeleteStepInv DEF Next

(* The inductive invariant: the array is compact and free of duplicates,   *)
(* and the loops of receipt_cache_save() and receipt_cache_delete() have   *)
(* dealt with every slot before i.                                         *)
THEOREM DaoInvariant == Spec => []DaoInv
BY DaoInit, DaoNext, PTL DEF Spec

(* The variables of the three loops keep their types: no loop leaves the   *)
(* array.                                                                  *)
THEOREM DaoTypeCorrect == Spec => []TypeOK
<1>1. DaoInv => TypeOK
  BY DEF DaoInv
<1> QED
  BY <1>1, DaoInvariant, PTL

(* receipt_cache_delete() never leaves a hole for                          *)
(* receipt_cache_find...() to stop at.                                     *)
THEOREM AlwaysCompact == Spec => []Compact
<1>1. DaoInv => Compact
  BY DEF DaoInv
<1> QED
  BY <1>1, DaoInvariant, PTL

(* A receipt sits in one slot, so that one delete removes it.              *)
THEOREM NeverDuplicated == Spec => []NoDuplicates
<1>1. DaoInv => NoDuplicates
  BY DEF DaoInv
<1> QED
  BY <1>1, DaoInvariant, PTL

-----------------------------------------------------------------------------
(* The array implements the bounded set.                                   *)

(* A compact array with an empty slot holds fewer receipts than slots.     *)
LEMMA RoomLeft ==
  ASSUME TypeOK, Compact, NoDuplicates, NEW n \in Slots, receiptPtr[n] = NULL
  PROVE  Cardinality(Stored) < ReceiptCacheSize
<1> USE DaoConstants DEF Slots
<1>1. \A k \in Slots : receiptPtr[k] # NULL => k < n
  BY DEF Compact, TypeOK
<1> DEFINE Used   == {k \in Slots : receiptPtr[k] # NULL}
           Upto   == 0..(n - 1)
           ptr    == [k \in Used |-> receiptPtr[k]]
<1>2. IsFiniteSet(Upto) /\ Cardinality(Upto) = n
  BY FS_Interval
<1>3. Used \in SUBSET Upto
  BY <1>1
<1>4. /\ IsFiniteSet(Used) /\ Cardinality(Used) <= n
      /\ Cardinality(Used) \in Nat
  <2> HIDE DEF Used, Upto
  <2> QED
    BY <1>2, <1>3, FS_Subset, FS_CardinalityType
<1>5. ptr \in Surjection(Used, Stored)
  BY DEF Surjection, Stored
<1>6. IsFiniteSet(Stored) /\ Cardinality(Stored) <= Cardinality(Used)
  <2> HIDE DEF Used, ptr
  <2> QED
    BY <1>4, <1>5, FS_Surjection
<1>7. Cardinality(Stored) \in Nat
  BY <1>6, FS_CardinalityType
<1> HIDE DEF Used
<1> QED
  BY <1>4, <1>6, <1>7

(* An array without an empty slot holds as many receipts as slots.         *)
LEMMA NoRoomLeft ==
  ASSUME TypeOK, NoDuplicates, \A k \in Slots : receiptPtr[k] # NULL
  PROVE  Cardinality(Stored) = ReceiptCacheSize
<1> USE DaoConstants
<1>1. IsFiniteSet(Slots) /\ Cardinality(Slots) = ReceiptCacheSize
  BY FS_Interval DEF Slots
<1>2. receiptPtr \in Surjection(Slots, Stored) /\ receiptPtr \in Injection(Slots, Stored)
  BY DEF Surjection, Injection, IsInjective, Stored, TypeOK, NoDuplicates
<1> QED
  BY <1>1, <1>2, FS_Surjection

LEMMA StoreInit == Init => Store!Init
BY DEF Init, Store!Init, Stored

LEMMA SaveStepStores ==
  ASSUME DaoInv, SaveStep
  PROVE  [Store!Next]_(Store!vars)
<1> USE DaoConstants DEF DaoInv
<1>1. CASE receiptPtr' = receiptPtr /\ op' = op
  BY <1>1 DEF SaveStep, callVars, Stored, Store!vars
<1>2. CASE /\ i < ReceiptCacheSize /\ receiptPtr[i] = NULL
           /\ receiptPtr' = [receiptPtr EXCEPT ![i] = receipt]
           /\ op' = "idle"
  <2>1. i \in Slots /\ receipt \in Receipt /\ receipt # NULL
    BY <1>2 DEF SaveStep, TypeOK, Slots, LoopInv
  <2>2. Stored' = Stored \cup {receipt}
    BY <1>2, <2>1 DEF Stored, TypeOK
  <2>3. Cardinality(Stored) < ReceiptCacheSize
    BY <1>2, <2>1, RoomLeft
  <2>4. Store!Save
    BY <1>2, <2>2, <2>3
       DEF SaveStep, callVars, Store!Save, Store!Cardinality, Cardinality
  <2> QED
    BY <2>4 DEF Store!Next
<1>3. CASE i = ReceiptCacheSize /\ op' = "idle" /\ receiptPtr' = receiptPtr
  <2>1. \A k \in Slots : receiptPtr[k] # NULL
    BY <1>3 DEF SaveStep, LoopInv, Slots
  <2>2. ~(Cardinality(Stored) < ReceiptCacheSize)
    BY <2>1, NoRoomLeft
  <2>3. Store!Save
    BY <1>3, <2>2
       DEF SaveStep, callVars, Stored, Store!Save, Store!Cardinality, Cardinality
  <2> QED
    BY <2>3 DEF Store!Next
<1> QED
  BY <1>1, <1>2, <1>3 DEF SaveStep

LEMMA DeleteStepDeletes ==
  ASSUME DaoInv, DeleteStep
  PROVE  [Store!Next]_(Store!vars)
<1> USE DaoConstants DEF DaoInv
<1>1. CASE receiptPtr' = receiptPtr /\ op' = op
  BY <1>1 DEF DeleteStep, callVars, Stored, Store!vars
<1>2. CASE /\ i < ReceiptCacheSize /\ IsDeleted(i) /\ op' = op
           /\ receiptPtr' = ShiftLeft(receiptPtr, i)
  <2>1. /\ i \in Slots /\ receipt \in Receipt
        /\ receiptPtr[i] = receipt /\ receiptPtr[i] # NULL
    BY <1>2 DEF DeleteStep, TypeOK, Slots, LoopInv, IsDeleted
  <2>2. Stored' = Stored \ {receipt}
    BY <1>2, <2>1, ShiftKeeps
  <2> QED
    BY <1>2, <2>1, <2>2 DEF DeleteStep, callVars, Store!Next, Store!Delete
<1>3. CASE i = ReceiptCacheSize /\ op' = "idle" /\ receiptPtr' = receiptPtr
  <2>1. receipt \notin Stored
    BY <1>3 DEF DeleteStep, LoopInv, Stored, Slots
  <2> QED
    BY <1>3, <2>1
       DEF DeleteStep, callVars, Stored, Store!Next, Store!DeleteReturns
<1> QED
  BY <1>1, <1>2, <1>3 DEF DeleteStep

LEMMA StoreStep == DaoInv /\ [Next]_vars => [Store!Next]_(Store!vars)
<1> SUFFICES ASSUME DaoInv, [Next]_vars PROVE [Store!Next]_(Store!vars)
  OBVIOUS
<1>1. CASE \E r \in Receipt : Save(r) \/ Delete(r)
  <2>1. PICK r \in Receipt : Save(r) \/ Delete(r)
    BY <1>1
  <2>2. Store!Call("save", r) \/ Store!Call("delete", r)
    BY <2>1 DEF Save, Delete, Ready, Stored, Store!Call
  <2> QED
    BY <2>2 DEF Store!Next
<1>2. CASE (\E q \in Query : Find(q)) \/ FindStep
  BY <1>2 DEF Find, FindStep, Ready, Stored, Store!vars
<1>3. CASE UNCHANGED vars
  BY <1>3 DEF vars, callVars, Stored, Store!vars
<1> QED
  BY <1>1, <1>2, <1>3, SaveStepStores, DeleteStepDeletes DEF Next

(* receipt_dao.c implements the bounded set BnsClient works with, for      *)
(* every RECEIPT_CACHE_SIZE: a save that returns has added its receipt or  *)
(* found the array full, a delete that returns has removed its receipt,    *)
(* and a find changes nothing.                                             *)
THEOREM StoreImplemented == Spec => StoreSpec
BY StoreInit, StoreStep, DaoInvariant, PTL DEF Spec, StoreSpec, Store!Spec

-----------------------------------------------------------------------------
(* The pages of find.                                                      *)

(* The receipts before slot i that match have been skipped or are on the   *)
(* page, and the page begins only when First of them have been skipped.    *)
PageInv ==
  op = "find" =>
    /\ currentOffset <= First
    /\ Rank(i) = currentOffset + Len(outputReceipt)
    /\ currentOffset < First => Len(outputReceipt) = 0
    /\ Len(outputReceipt) <= query.pageSize
    /\ \A k \in Before(i) :
         Rank(k) >= First => outputReceipt[Rank(k) - First + 1] = receiptPtr[k]

(* Ranks are numbers, and count the matching receipts from the front.      *)
LEMMA BeforeIsFinite ==
  ASSUME NEW n \in Int
  PROVE  /\ IsFiniteSet(Matching) /\ Cardinality(Matching) \in Nat
         /\ IsFiniteSet(Before(n)) /\ Rank(n) \in Nat
         /\ Rank(n) <= Cardinality(Matching)
<1>1. IsFiniteSet(Slots)
  BY FS_Interval, DaoConstants DEF Slots
<1>2. Matching \in SUBSET Slots /\ Before(n) \in SUBSET Matching
  BY DEF Matching, Before
<1>3. IsFiniteSet(Matching) /\ Cardinality(Matching) \in Nat
  BY <1>1, <1>2, FS_Subset, FS_CardinalityType
<1> QED
  BY <1>2, <1>3, FS_Subset, FS_CardinalityType DEF Rank

LEMMA RankGrows ==
  ASSUME NEW m \in Int, NEW n \in Int, m <= n
  PROVE  Rank(m) <= Rank(n)
<1>1. Before(m) \in SUBSET Before(n)
  BY DaoConstants DEF Before, Matching, Slots
<1> QED
  BY <1>1, BeforeIsFinite, FS_Subset DEF Rank

LEMMA RankOfNext ==
  ASSUME NEW n \in Int
  PROVE  /\ n \in Matching => Rank(n + 1) = Rank(n) + 1
         /\ n \notin Matching => Before(n + 1) = Before(n) /\ Rank(n + 1) = Rank(n)
<1>1. CASE n \in Matching
  <2>1. Before(n + 1) = Before(n) \cup {n} /\ n \notin Before(n)
    BY <1>1, DaoConstants DEF Before, Matching, Slots
  <2> QED
    BY <1>1, <2>1, BeforeIsFinite, FS_AddElement DEF Rank
<1>2. CASE n \notin Matching
  <2>1. Before(n + 1) = Before(n)
    BY <1>2, DaoConstants DEF Before, Matching, Slots
  <2> QED
    BY <1>2, <2>1 DEF Rank
<1> QED
  BY <1>1, <1>2

(* A page starts empty, at slot 0.                                         *)
LEMMA FindPageInv ==
  ASSUME DaoInv, NEW q \in Query, Find(q)
  PROVE  PageInv'
<1>1. /\ query' = q /\ i' = 0 /\ currentOffset' = 0 /\ outputReceipt' = <<>>
  BY DEF Find
<1>2. Before(0)' = {}
  BY <1>1, DaoConstants DEF Before, Matching, Slots
<1>3. Rank(i)' = 0
  BY <1>1, <1>2, FS_EmptySet DEF Rank
<1>4. First' \in Nat /\ q.pageSize \in Nat
  BY <1>1, DaoConstants DEF First, Query
<1> QED
  BY <1>1, <1>2, <1>3, <1>4 DEF PageInv

(* One turn of the loop takes one more slot into account.                  *)
LEMMA FindStepPageInv ==
  ASSUME DaoInv, PageInv, FindStep
  PROVE  PageInv'
<1> USE DaoConstants
<1>1. CASE FindEnds
  BY <1>1 DEF FindStep, PageInv
<1>2. CASE ~FindEnds
  <2>1. /\ op = "find" /\ i' = i + 1 /\ UNCHANGED <<receiptPtr, query>>
        /\ i \in Slots /\ i \in Int /\ receiptPtr[i] \in Receipt /\ receiptPtr[i] # NULL
        /\ query \in Query
        /\ Len(outputReceipt) < query.pageSize
    BY <1>2 DEF FindStep, FindEnds, DaoInv, TypeOK, LoopInv, Slots, Query
  <2>2. /\ First \in Nat /\ query.pageSize \in Nat
        /\ currentOffset \in Nat /\ Len(outputReceipt) \in Nat
        /\ outputReceipt \in Seq(Receipt)
    BY <2>1 DEF First, Query, DaoInv, TypeOK
  <2>3. /\ Matching' = Matching /\ First' = First
        /\ \A n : Before(n)' = Before(n) /\ Rank(n)' = Rank(n)
    BY <2>1 DEF Matching, First, Before, Rank
  <2>4. /\ currentOffset <= First
        /\ Rank(i) = currentOffset + Len(outputReceipt)
        /\ currentOffset < First => Len(outputReceipt) = 0
        /\ \A k \in Before(i) :
             Rank(k) >= First => outputReceipt[Rank(k) - First + 1] = receiptPtr[k]
    BY <2>1 DEF PageInv
  <2>5. Rank(i)' = Rank(i + 1)
    BY <2>1, <2>3 DEF Rank, Before
  <2>0. receiptPtr[i].clearanceOrder \in Int /\ query.clearanceOrder \in Int
    BY <2>1 DEF Receipt, Query
  <2>6. CASE receiptPtr[i].clearanceOrder > query.clearanceOrder
    <3>1. i \notin Matching
      BY <2>0, <2>6 DEF Matching
    <3>2. UNCHANGED <<currentOffset, outputReceipt>>
      BY <1>2, <2>6 DEF FindStep
    <3>3. Before(i)' = Before(i) /\ Rank(i)' = Rank(i)
      BY <2>1, <2>3, <2>5, <3>1, RankOfNext DEF Before
    <3> QED
      BY <2>1, <2>3, <2>4, <3>2, <3>3 DEF PageInv
  <2>7. CASE ~(receiptPtr[i].clearanceOrder > query.clearanceOrder)
    <3>1. i \in Matching
      BY <2>0, <2>1, <2>7 DEF Matching
    <3>2. Rank(i)' = Rank(i) + 1
      BY <2>1, <2>5, <3>1, RankOfNext
    <3>3. Before(i)' = Before(i) \cup {i}
      BY <2>1, <3>1 DEF Before, Matching, Slots
    <3>4. CASE Skips
      <4>1. currentOffset < First
        BY <3>4 DEF Skips, First
      <4>2. currentOffset' = currentOffset + 1 /\ outputReceipt' = outputReceipt
        BY <1>2, <2>7, <3>4 DEF FindStep
      <4>3. Rank(i) < First
        BY <2>2, <2>4, <4>1
      <4> QED
        BY <2>1, <2>2, <2>3, <2>4, <3>2, <3>3, <4>1, <4>2, <4>3 DEF PageInv
    <3>5. CASE ~Skips
      <4>1. currentOffset = First
        BY <2>2, <2>4, <3>5 DEF Skips, First
      <4>2. currentOffset' = currentOffset /\ outputReceipt' = Append(outputReceipt, receiptPtr[i])
        BY <1>2, <2>7, <3>5 DEF FindStep
      <4>3. /\ Len(outputReceipt') = Len(outputReceipt) + 1
            /\ outputReceipt'[Len(outputReceipt) + 1] = receiptPtr[i]
            /\ \A n \in 1..Len(outputReceipt) : outputReceipt'[n] = outputReceipt[n]
        BY <2>1, <2>2, <4>2
      <4>4. outputReceipt'[Rank(i) - First + 1] = receiptPtr[i]
        BY <2>2, <2>4, <4>1, <4>3
      <4>5. ASSUME NEW k \in Before(i), Rank(k) >= First
            PROVE  outputReceipt'[Rank(k) - First + 1] = receiptPtr[k]
        <5>1. k \in Int /\ k + 1 <= i /\ k \in Matching
          BY <2>1 DEF Before, Matching, Slots
        <5>2. Rank(k) \in Nat /\ Rank(k) + 1 <= Rank(i)
          BY <2>1, <5>1, BeforeIsFinite, RankOfNext, RankGrows
        <5>3. Rank(k) - First + 1 \in 1..Len(outputReceipt)
          BY <2>2, <2>4, <4>1, <4>5, <5>2
        <5> QED
          BY <2>4, <4>3, <4>5, <5>3
      <4>6. \A k \in Before(i)' :
              Rank(k)' >= First' => outputReceipt'[Rank(k)' - First' + 1] = receiptPtr'[k]
        BY <2>1, <2>3, <3>3, <4>4, <4>5
      <4>7. /\ currentOffset' <= First'
            /\ Rank(i)' = currentOffset' + Len(outputReceipt')
            /\ ~(currentOffset' < First')
            /\ Len(outputReceipt') <= query'.pageSize
        BY <2>1, <2>2, <2>3, <2>4, <3>2, <4>1, <4>2, <4>3
      <4> QED
        BY <4>6, <4>7 DEF PageInv
    <3> QED
      BY <3>4, <3>5
  <2> QED
    BY <2>6, <2>7
<1> QED
  BY <1>1, <1>2

(* When the loop ends, the page is the one asked for.                      *)
LEMMA FindEndsExact ==
  ASSUME DaoInv, PageInv, op = "find", FindEnds
  PROVE  /\ Len(outputReceipt) = PageLength
         /\ \A k \in Matching :
              Rank(k) \in First..(First + query.pageSize - 1)
                => outputReceipt[Rank(k) - First + 1] = receiptPtr[k]
<1> USE DaoConstants
<1>1. /\ i \in 0..ReceiptCacheSize /\ i \in Int /\ query \in Query
      /\ First \in Nat /\ query.pageSize \in Nat
      /\ currentOffset \in Nat /\ Len(outputReceipt) \in Nat
  BY DEF First, Query, DaoInv, TypeOK, LoopInv
<1>2. /\ currentOffset <= First
      /\ Rank(i) = currentOffset + Len(outputReceipt)
      /\ currentOffset < First => Len(outputReceipt) = 0
      /\ Len(outputReceipt) <= query.pageSize
      /\ \A k \in Before(i) :
           Rank(k) >= First => outputReceipt[Rank(k) - First + 1] = receiptPtr[k]
  BY DEF PageInv
<1>3. Cardinality(Matching) \in Nat /\ Rank(i) <= Cardinality(Matching)
  BY <1>1, BeforeIsFinite
<1>4. CASE Len(outputReceipt) >= query.pageSize
  <2>1. Len(outputReceipt) = query.pageSize
    BY <1>1, <1>2, <1>4
  <2>2. query.pageSize > 0 => Rank(i) = First + query.pageSize
    BY <1>1, <1>2, <2>1
  <2>3. Len(outputReceipt) = PageLength
    BY <1>1, <1>3, <2>1, <2>2 DEF PageLength
  <2>4. ASSUME NEW k \in Matching, Rank(k) \in First..(First + query.pageSize - 1)
        PROVE  k \in Before(i)
    <3>1. k \in Int
      BY DEF Matching, Slots
    <3>2. Rank(k) < Rank(i)
      BY <1>1, <2>2, <2>4
    <3>3. ~(i <= k)
      BY <1>1, <1>2, <3>1, <3>2, BeforeIsFinite, RankGrows
    <3> QED
      BY <1>1, <3>1, <3>3 DEF Before
  <2> QED
    BY <1>1, <1>2, <2>3, <2>4
<1>5. CASE Len(outputReceipt) < query.pageSize
  <2>1. Before(i) = Matching
    <3>1. i = ReceiptCacheSize \/ (i \in Slots /\ receiptPtr[i] = NULL)
      BY <1>1, <1>5 DEF FindEnds, Slots
    <3>2. \A k \in Slots : receiptPtr[k] # NULL => k < i
      BY <3>1 DEF DaoInv, TypeOK, Compact, Slots
    <3> QED
      BY <3>2 DEF Before, Matching
  <2>2. Cardinality(Matching) = currentOffset + Len(outputReceipt)
    BY <1>2, <2>1 DEF Rank
  <2>3. Len(outputReceipt) = PageLength
    BY <1>1, <1>2, <1>5, <2>2 DEF PageLength
  <2> QED
    BY <1>1, <1>2, <2>1, <2>3
<1> QED
  BY <1>1, <1>4, <1>5

LEMMA PageStep ==
  ASSUME DaoInv, PageInv, FoundPageIsExact, [Next]_vars
  PROVE  PageInv' /\ FoundPageIsExact'
<1>1. CASE \E r \in Receipt : Save(r) \/ Delete(r)
  BY <1>1 DEF Save, Delete, PageInv, FoundPageIsExact
<1>2. CASE \E q \in Query : Find(q)
  <2>1. PageInv'
    BY <1>2, FindPageInv
  <2>2. op' = "find"
    BY <1>2 DEF Find
  <2> QED
    BY <2>1, <2>2 DEF FoundPageIsExact
<1>3. CASE SaveStep \/ DeleteStep
  <2>1. op' \in {"save", "delete", "idle"}
    BY <1>3 DEF SaveStep, DeleteStep
  <2> QED
    BY <2>1 DEF PageInv, FoundPageIsExact
<1>4. CASE FindStep
  <2>1. PageInv'
    BY <1>4, FindStepPageInv
  <2>2. CASE FindEnds
    <3>1. /\ UNCHANGED <<receiptPtr, query, outputReceipt>> /\ op = "find"
      BY <1>4, <2>2 DEF FindStep
    <3>2. /\ Matching' = Matching /\ First' = First /\ PageLength' = PageLength
          /\ \A n : Rank(n)' = Rank(n)
      BY <3>1 DEF Matching, First, Before, Rank, PageLength
    <3>3. FoundPageIsExact'
      BY <2>2, <3>1, <3>2, FindEndsExact DEF FoundPageIsExact
    <3> QED
      BY <2>1, <3>3
  <2>3. CASE ~FindEnds
    <3>1. op' = "find"
      BY <1>4, <2>3 DEF FindStep
    <3> QED
      BY <2>1, <3>1 DEF FoundPageIsExact
  <2> QED
    BY <2>2, <2>3
<1>5. CASE UNCHANGED vars
  <2>1. UNCHANGED <<receiptPtr, op, query, i, currentOffset, outputReceipt>>
    BY <1>5 DEF vars, callVars
  <2>2. /\ Matching' = Matching /\ First' = First /\ PageLength' = PageLength
        /\ \A n : Rank(n)' = Rank(n) /\ Before(n)' = Before(n)
    BY <2>1 DEF Matching, First, Before, Rank, PageLength
  <2>3. Before(i)' = Before(i) /\ Rank(i)' = Rank(i)
    BY <2>1 DEF Matching, Before, Rank
  <2> QED
    BY <2>1, <2>2, <2>3 DEF PageInv, FoundPageIsExact
<1> QED
  BY <1>1, <1>2, <1>3, <1>4, <1>5 DEF Next

(* Every page receipt_cache_find...() returns is exact, for every size of  *)
(* the array, every page size and every mixture of clearance orders, pages *)
(* of size 0 and pages behind the last one included.                       *)
THEOREM PagesAreExact == Spec => []FoundPageIsExact
<1>1. Init => PageInv /\ FoundPageIsExact
  BY DEF Init, PageInv, FoundPageIsExact
<1> QED
  BY <1>1, PageStep, DaoInvariant, PTL DEF Spec

=============================================================================
