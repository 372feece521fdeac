----------------------------- MODULE ReceiptDao -----------------------------
(***************************************************************************)
(* The receipt DAO of src/example/bns-client-example/receipt_dao.c: an     *)
(* array of pointers, filled from the front, in which saving, finding and  *)
(* deleting are loops over the slots.  One action is one turn of a loop;   *)
(* the operations themselves are called one after the other.               *)
(*                                                                         *)
(* A receipt is its key, the clearance order and the index value: the only *)
(* fields the DAO looks at.  No two receipts with the same key are saved,  *)
(* which BnsClient!KeysIdentifyReceipts shows of the client.               *)
(***************************************************************************)
EXTENDS Integers, FiniteSets, Sequences

CONSTANTS
  ClearanceOrder,    \* the clearance orders of the receipts, integers
  IndexValue,        \* their index values
  ReceiptCacheSize,  \* RECEIPT_CACHE_SIZE
  MaxPage,           \* bound: the pages and page sizes asked for
  NULL               \* a null pointer

Receipt == [clearanceOrder : ClearanceOrder, indexValue : IndexValue]

ASSUME DaoConstants ==
  /\ ClearanceOrder \subseteq Int
  /\ ReceiptCacheSize \in Nat \ {0}
  /\ MaxPage \in Nat
  /\ NULL \notin Receipt

Slots == 0..ReceiptCacheSize - 1

Query == [clearanceOrder : ClearanceOrder, page : 0..MaxPage,
          pageSize : 0..MaxPage]

VARIABLES
  receiptPtr,     \* the array
  op,             \* the operation in progress, "found" once a page is returned
  receipt,        \* the argument of save and delete
  query,          \* the arguments of find
  i,              \* the loop variable
  currentOffset,  \* matching receipts find has skipped
  outputReceipt   \* the page find has filled so far

callVars == <<receipt, query, currentOffset, outputReceipt>>
vars     == <<receiptPtr, op, i, callVars>>

TypeOK ==
  /\ receiptPtr \in [Slots -> Receipt \cup {NULL}]
  /\ op \in {"idle", "save", "find", "found", "delete"}
  /\ receipt \in Receipt \cup {NULL}
  /\ query \in Query \cup {NULL}
  /\ i \in 0..ReceiptCacheSize
  /\ currentOffset \in Nat
  /\ outputReceipt \in Seq(Receipt)

Init ==
  /\ receiptPtr = [k \in Slots |-> NULL]
  /\ op = "idle"
  /\ receipt = NULL
  /\ query = NULL
  /\ i = 0
  /\ currentOffset = 0
  /\ outputReceipt = <<>>

Stored == {receiptPtr[k] : k \in Slots} \ {NULL}

Ready == op \in {"idle", "found"}

-----------------------------------------------------------------------------
(* receipt_cache_save()                                                    *)

Save(r) ==
  /\ Ready
  /\ r \notin Stored
  /\ op' = "save"
  /\ receipt' = r
  /\ i' = 0
  /\ UNCHANGED <<receiptPtr, query, currentOffset, outputReceipt>>

(* Variant: the loop runs one slot past the array.                         *)
SaveStep_OffByOne ==
  /\ op = "save"
  /\ \/ /\ i <= ReceiptCacheSize
        /\ i \in Slots => receiptPtr[i] # NULL
        /\ i' = i + 1
        /\ UNCHANGED <<receiptPtr, op>>
     \/ /\ i < ReceiptCacheSize
        /\ receiptPtr[i] = NULL
        /\ receiptPtr' = [receiptPtr EXCEPT ![i] = receipt]
        /\ op' = "idle"
        /\ UNCHANGED i
  /\ UNCHANGED callVars

(* The first empty slot takes the receipt; a full array drops it.          *)
SaveStep ==
  /\ op = "save"
  /\ \/ /\ i < ReceiptCacheSize
        /\ receiptPtr[i] # NULL
        /\ i' = i + 1
        /\ UNCHANGED <<receiptPtr, op>>
     \/ /\ i < ReceiptCacheSize
        /\ receiptPtr[i] = NULL
        /\ receiptPtr' = [receiptPtr EXCEPT ![i] = receipt]
        /\ op' = "idle"
        /\ UNCHANGED i
     \/ /\ i = ReceiptCacheSize
        /\ op' = "idle"
        /\ UNCHANGED <<receiptPtr, i>>
  /\ UNCHANGED callVars

-----------------------------------------------------------------------------
(* receipt_cache_findPageByClearanceOrderEqualOrLessThan()                 *)

Find(q) ==
  /\ Ready
  /\ op' = "find"
  /\ query' = q
  /\ i' = 0
  /\ currentOffset' = 0
  /\ outputReceipt' = <<>>
  /\ UNCHANGED <<receiptPtr, receipt>>

(* Variant: the receipt after the skipped ones is skipped, too.            *)
Skips_OffByOne == currentOffset <= query.page * query.pageSize

(* The receipts of the earlier pages are skipped.                          *)
Skips == currentOffset < query.page * query.pageSize

FindEnds ==
  \/ i = ReceiptCacheSize
  \/ Len(outputReceipt) >= query.pageSize
  \/ receiptPtr[i] = NULL

FindStep ==
  /\ op = "find"
  /\ IF FindEnds
       THEN /\ op' = "found"
            /\ UNCHANGED <<i, currentOffset, outputReceipt>>
       ELSE /\ i' = i + 1
            /\ UNCHANGED op
            /\ IF receiptPtr[i].clearanceOrder > query.clearanceOrder
                 THEN UNCHANGED <<currentOffset, outputReceipt>>
                 ELSE IF Skips
                   THEN /\ currentOffset' = currentOffset + 1
                        /\ UNCHANGED outputReceipt
                   ELSE /\ outputReceipt' = Append(outputReceipt, receiptPtr[i])
                        /\ UNCHANGED currentOffset
  /\ UNCHANGED <<receiptPtr, receipt, query>>

-----------------------------------------------------------------------------
(* receipt_cache_delete()                                                  *)

Delete(r) ==
  /\ Ready
  /\ op' = "delete"
  /\ receipt' = r
  /\ i' = 0
  /\ UNCHANGED <<receiptPtr, query, currentOffset, outputReceipt>>

(* Variants: the slot is cleared and the receipts behind it stay; the loop *)
(* over j goes on when it should stop at the last slot but one.            *)
ShiftLeft_Hole(ptr, n) == [ptr EXCEPT ![n] = NULL]

ShiftLeft_KeepsLast(ptr, n) ==
  [j \in Slots |-> IF n <= j /\ j < ReceiptCacheSize - 1 THEN ptr[j + 1]
                                                         ELSE ptr[j]]

(* The inner loop: slots from n on take the pointer of their successor, up *)
(* to and including the first null pointer; the last slot is cleared.      *)
ShiftLeft(ptr, n) ==
  [j \in Slots |->
     IF j = ReceiptCacheSize - 1 THEN NULL
     ELSE IF j < n \/ \E k \in (n + 1)..j : ptr[k] = NULL THEN ptr[j]
     ELSE ptr[j + 1]]

(* The receipt in slot n is the one to delete; the variant compares the    *)
(* clearance order only.                                                   *)
IsDeleted_AnyIndex(n) ==
  receiptPtr[n] # NULL /\ receiptPtr[n].clearanceOrder = receipt.clearanceOrder

IsDeleted(n) == receiptPtr[n] = receipt

DeleteStep ==
  /\ op = "delete"
  /\ \/ /\ i < ReceiptCacheSize
        /\ receiptPtr' = IF IsDeleted(i)
                           THEN ShiftLeft(receiptPtr, i) ELSE receiptPtr
        /\ i' = i + 1
        /\ UNCHANGED op
     \/ /\ i = ReceiptCacheSize
        /\ op' = "idle"
        /\ UNCHANGED <<receiptPtr, i>>
  /\ UNCHANGED callVars

-----------------------------------------------------------------------------
Next ==
  \/ \E r \in Receipt : Save(r) \/ Delete(r)
  \/ \E q \in Query : Find(q)
  \/ SaveStep
  \/ FindStep
  \/ DeleteStep

Spec == Init /\ [][Next]_vars

-----------------------------------------------------------------------------
(* Properties                                                              *)

(* The used slots come first.  receipt_cache_find...() stops at the first  *)
(* null pointer, so a hole would hide the receipts behind it for good; the *)
(* array stays compact through every turn of every loop.                   *)
Compact == \A k, l \in Slots : k < l /\ receiptPtr[l] # NULL => receiptPtr[k] # NULL

(* No receipt sits in two slots, not even while a delete shifts the array. *)
NoDuplicates ==
  \A k, l \in Slots : k # l /\ receiptPtr[k] # NULL => receiptPtr[k] # receiptPtr[l]

(* The receipts find looks for, and how many of them come before slot n.   *)
Matching == {k \in Slots : /\ receiptPtr[k] # NULL
                           /\ receiptPtr[k].clearanceOrder <= query.clearanceOrder}

Before(n) == {k \in Matching : k < n}

Rank(n) == Cardinality(Before(n))

First == query.page * query.pageSize

PageLength ==
  LET rest == Cardinality(Matching) - First
  IN  IF rest < 0 THEN 0 ELSE IF rest < query.pageSize THEN rest ELSE query.pageSize

(* A page is what page, page size and clearance order ask of the receipts, *)
(* oldest first: page after page the client sees every receipt it can      *)
(* verify, each once and in the order they were saved.                     *)
FoundPageIsExact ==
  op = "found" =>
    /\ Len(outputReceipt) = PageLength
    /\ \A k \in Matching :
         Rank(k) \in First..(First + query.pageSize - 1)
           => outputReceipt[Rank(k) - First + 1] = receiptPtr[k]

(* The array implements the bounded set the client counts on: a save that  *)
(* returns has added its receipt unless the store was full, a delete that  *)
(* returns has removed its receipt, and nothing else ever changes the      *)
(* store.                                                                  *)
Store == INSTANCE ReceiptStore WITH
  stored <- Stored,
  op     <- IF op \in {"save", "delete"} THEN op ELSE "idle"

StoreSpec == Store!Spec

=============================================================================
