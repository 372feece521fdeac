---------------------------- MODULE Verify_proofs ----------------------------
(***************************************************************************)
(* Proof that verify() passes committed receipts only, but for the gap     *)
(* RootNotReached names, for every tree, every receipt and every proof a   *)
(* server may sign, with lists of hashes of every length.                  *)
(*                                                                         *)
(* The climb goes from the leaf to the root, while what is known comes     *)
(* from the root, the only hash that is in the contract.  The invariant    *)
(* of the climb is therefore an implication: if the hash the climb has     *)
(* come to is that of its node, the hash it started from is the leaf's.    *)
(* It speaks of hashes in the list only.  A turn that has read behind the  *)
(* end leaves the climb there, with nothing known of the leaf.             *)
(***************************************************************************)
EXTENDS Verify, TLAPS

Late(pcs) == pc \in pcs \cup {"slice", "clearanceRecordRootHash"}

HasArguments ==
  /\ pc # "idle" => receipt \in Receipt /\ exitCode # "OK"
  /\ Late({"clearanceRecord", "receiptSignature", "merkleproofSignature",
           "clearanceOrder", "pbPair"}) => merkleProof \in Proof
  /\ Late({"receiptSignature", "merkleproofSignature", "clearanceOrder",
           "pbPair"}) => clearanceRecord \in ClearanceRecord

(* The climb has come to a hash of the list, and to its node's.            *)
InPlace == /\ i < Size /\ Position(i, index) < Size
           /\ HashAt(Position(i, index)) = index

(* If the node the climb has come to is in its place, so is the leaf.      *)
Chain ==
  LET start == merkleProof.slice.index
  IN  /\ index \in Nat
      /\ index = 0 => start = 0 /\ i = 0
      /\ start = 0 => index = 0
      /\ index > 0 /\ InPlace => HashAt(Position(0, start)) = start

RecordIsOwn == clearanceRecord.clearanceOrder = Own

ChecksHold ==
  /\ Late({"merkleproofSignature", "clearanceOrder", "pbPair"}) =>
       receipt \in SignedReceipt
  /\ Late({"pbPair"}) => RecordIsOwn
  /\ Late({}) => ReceiptInPbPair /\ IsLeafNode /\ Chain
  /\ pc = "clearanceRecordRootHash" => index <= 1

PassedAll ==
  /\ receipt \in SignedReceipt
  /\ merkleProof \in Proof
  /\ clearanceRecord \in ClearanceRecord
  /\ RecordIsOwn /\ ReceiptInPbPair /\ IsLeafNode /\ Chain
  /\ index <= 1
  /\ HashAt(Size - 1) = clearanceRecord.rootHash

VerifyInv == TypeOK /\ HasArguments /\ ChecksHold /\ (exitCode = "OK" => PassedAll)

-----------------------------------------------------------------------------
(* A node's hash can only come from its two children.                      *)
LEMMA ChildrenOf ==
  ASSUME NEW l, NEW r, NEW n \in Nat \ {0}, Sha256(l, r) = n
  PROVE  l = 2 * n /\ r = 2 * n + 1
<1>1. PICK m \in Node : l = 2 * m /\ r = 2 * m + 1 /\ r \in Node
  BY DEF Sha256, Other
<1>2. m \in Nat
  BY <1>1, VerifyConstants DEF Node
<1>3. l \div 2 = m
  BY <1>1, <1>2
<1> QED
  BY <1>1, <1>2, <1>3 DEF Sha256

(* One turn of the climb keeps the chain.                                  *)
LEMMA ClimbKeepsChain ==
  ASSUME Chain, i \in Nat, Size \in Nat, index > 1,
         ~PastEnd => SiblingsHashToParent,
         i' = i + 2, index' = index \div 2, UNCHANGED merkleProof
  PROVE  Chain'
<1>1. index \in Nat /\ index' \in Nat \ {0} /\ merkleProof.slice.index # 0
  BY DEF Chain
<1>2. Size' = Size /\ HashAt(Position(i, index))' = HashAt(Position(i', index'))
  BY DEF Size, HashAt, Position
<1>3. Position(i, index) = i + (index % 2) /\ index % 2 \in {0, 1}
  BY <1>1 DEF Position
<1>4. ASSUME InPlace' PROVE InPlace
  <2>1. i + 2 < Size /\ Position(i + 2, index') < Size
        /\ HashAt(Position(i + 2, index')) = index'
    BY <1>2, <1>4 DEF InPlace, Position
  <2>2. ~PastEnd
    <3>1. Position(i + 2, index') \in Int /\ index' = index \div 2
      BY <1>1 DEF Position
    <3> QED
      BY <2>1, <3>1 DEF PastEnd
  <2>3. Sha256(HashAt(i), HashAt(i + 1)) = index'
    BY <2>1, <2>2 DEF SiblingsHashToParent
  <2>4. HashAt(i) = 2 * index' /\ HashAt(i + 1) = 2 * index' + 1
    BY <1>1, <2>3, ChildrenOf
  <2>5. i < Size /\ Position(i, index) < Size
    BY <1>3, <2>1
  <2>6. CASE index % 2 = 0
    <3>1. Position(i, index) = i /\ index = 2 * index'
      BY <1>1, <1>3, <2>6
    <3> QED
      BY <2>4, <2>5, <3>1 DEF InPlace
  <2>7. CASE index % 2 = 1
    <3>1. Position(i, index) = i + 1 /\ index = 2 * index' + 1
      BY <1>1, <1>3, <2>7
    <3> QED
      BY <2>4, <2>5, <3>1 DEF InPlace
  <2> QED
    BY <1>3, <2>6, <2>7
<1>5. HashAt(Position(0, merkleProof.slice.index))' =
        HashAt(Position(0, merkleProof.slice.index))
  BY DEF HashAt, Position
<1> QED
  BY <1>1, <1>4, <1>5 DEF Chain

-----------------------------------------------------------------------------
LEMMA MaxRetryIsNat == MaxRetryCount \in Nat
BY VerifyConstants

LEMMA VerifyInit == Init => VerifyInv
<1>1. Init => TypeOK
  BY MaxRetryIsNat DEF Init, TypeOK
<1> QED
  BY <1>1 DEF Init, VerifyInv, HasArguments, ChecksHold, Late

LEMMA StartInv ==
  ASSUME VerifyInv, NEW r \in Receipt, Verify(r)
  PROVE  VerifyInv'
<1>1. TypeOK'
  BY MaxRetryIsNat DEF Verify, VerifyInv, TypeOK
<1> QED
  BY <1>1 DEF Verify, VerifyInv, HasArguments, ChecksHold, Late

LEMMA FetchInv ==
  ASSUME VerifyInv,
         \/ GetMerkleProof \/ GetMerkleProofFails
         \/ PostClearanceRecord \/ PostClearanceRecordFails
  PROVE  VerifyInv'
<1> USE VerifyConstants
    DEF VerifyInv, HasArguments, ChecksHold, Late, Fail, RetriesLeft
<1>1. CASE GetMerkleProof
  <2>1. TypeOK'
    BY <1>1 DEF GetMerkleProof, TypeOK
  <2> QED
    BY <1>1, <2>1 DEF GetMerkleProof
<1>2. CASE GetMerkleProofFails
  <2>1. TypeOK'
    BY <1>2 DEF GetMerkleProofFails, TypeOK
  <2> QED
    BY <1>2, <2>1 DEF GetMerkleProofFails
<1>3. CASE PostClearanceRecord
  <2>1. clearanceRecord' \in ClearanceRecord
    BY <1>3 DEF PostClearanceRecord, ClearanceRecord, Anchored
  <2>2. TypeOK'
    BY <1>3, <2>1 DEF PostClearanceRecord, TypeOK, Checks
  <2> QED
    BY <1>3, <2>1, <2>2 DEF PostClearanceRecord
<1>4. CASE PostClearanceRecordFails
  <2>1. TypeOK'
    BY <1>4 DEF PostClearanceRecordFails, TypeOK
  <2> QED
    BY <1>4, <2>1 DEF PostClearanceRecordFails
<1> QED
  BY <1>1, <1>2, <1>3, <1>4

LEMMA EarlyChecksInv ==
  ASSUME VerifyInv,
         \/ VerifyReceiptSignature \/ VerifyMerkleProofSignature
         \/ VerifyClearanceOrder
  PROVE  VerifyInv'
<1> USE DEF VerifyInv, HasArguments, ChecksHold, Late, Fail, Check
<1>1. CASE VerifyReceiptSignature
  <2>1. TypeOK'
    BY <1>1 DEF VerifyReceiptSignature, TypeOK, Checks
  <2> QED
    BY <1>1, <2>1 DEF VerifyReceiptSignature
<1>2. CASE VerifyMerkleProofSignature
  <2>1. TypeOK'
    BY <1>2 DEF VerifyMerkleProofSignature, TypeOK, Checks
  <2> QED
    BY <1>2, <2>1 DEF VerifyMerkleProofSignature
<1>3. CASE VerifyClearanceOrder
  <2>1. TypeOK'
    BY <1>3 DEF VerifyClearanceOrder, TypeOK, Checks
  <2>2. pc' = "pbPair" => RecordIsOwn'
    BY <1>3 DEF VerifyClearanceOrder, RecordIsOwn
  <2> QED
    BY <1>3, <2>1, <2>2 DEF VerifyClearanceOrder
<1> QED
  BY <1>1, <1>2, <1>3

LEMMA PbPairInv ==
  ASSUME VerifyInv, VerifyPbPair
  PROVE  VerifyInv'
<1>1. /\ pc = "pbPair" /\ i' = 0 /\ index' = merkleProof.slice.index
      /\ UNCHANGED <<receipt, count, merkleProof, clearanceRecord>>
      /\ \/ pc' = "slice" /\ ReceiptInPbPair /\ IsLeafNode /\ exitCode' = exitCode
         \/ pc' = "idle" /\ exitCode' = "ERROR"
  BY DEF VerifyPbPair, Check, Fail
<1>2. /\ merkleProof \in Proof /\ receipt \in SignedReceipt /\ RecordIsOwn
      /\ receipt \in Receipt /\ exitCode # "OK" /\ clearanceRecord \in ClearanceRecord
  BY <1>1 DEF VerifyInv, HasArguments, ChecksHold, Late
<1>3. merkleProof.slice.index \in Int
  BY <1>2 DEF Proof, Slice
<1>4. TypeOK'
  <2>1. ok' \in {ok, ok \cup {"pbPair"}} /\ exitCode' \in {exitCode, "ERROR"}
    BY DEF VerifyPbPair, Check, Fail
  <2>2. ok' \subseteq Checks
    BY <2>1 DEF VerifyInv, TypeOK, Checks
  <2>3. pc' \in {"slice", "idle"}
    BY <1>1
  <2> QED
    BY <1>1, <1>3, <2>1, <2>2, <2>3 DEF VerifyInv, TypeOK, Checks
<1>5. CASE pc' = "slice" /\ ReceiptInPbPair /\ IsLeafNode /\ exitCode' = exitCode
  <2>1. ReceiptInPbPair' /\ IsLeafNode' /\ RecordIsOwn'
    BY <1>1, <1>2, <1>5
       DEF ReceiptInPbPair, IsLeafNode, RecordIsOwn, HashAt, Size, Position,
           ValuesOf, HashTo
  <2>2. Chain'
    BY <1>1, <1>3, <1>5 DEF Chain, InPlace, IsLeafNode, HashAt, Position
  <2> QED
    BY <1>1, <1>2, <1>4, <1>5, <2>1, <2>2
       DEF VerifyInv, HasArguments, ChecksHold, Late
<1>6. CASE pc' = "idle" /\ exitCode' = "ERROR"
  BY <1>1, <1>2, <1>4, <1>6 DEF VerifyInv, HasArguments, ChecksHold, Late
<1> QED
  BY <1>1, <1>5, <1>6

LEMMA ClimbInv ==
  ASSUME VerifyInv, ClimbSlice
  PROVE  VerifyInv'
<1>1. /\ pc = "slice" /\ index > 1
      /\ UNCHANGED <<receipt, count, merkleProof, clearanceRecord, ok>>
  BY DEF ClimbSlice
<1>2. /\ merkleProof \in Proof /\ receipt \in SignedReceipt /\ RecordIsOwn
      /\ receipt \in Receipt /\ exitCode # "OK" /\ clearanceRecord \in ClearanceRecord
      /\ ReceiptInPbPair /\ IsLeafNode /\ Chain /\ i \in Nat
  BY <1>1 DEF VerifyInv, HasArguments, ChecksHold, Late, TypeOK
<1>3. ReceiptInPbPair' /\ IsLeafNode' /\ RecordIsOwn'
  BY <1>1, <1>2
     DEF ReceiptInPbPair, IsLeafNode, RecordIsOwn, HashAt, Size, Position,
           ValuesOf, HashTo
<1>4. CASE /\ ~PastEnd => SiblingsHashToParent
           /\ i' = i + 2 /\ index' = index \div 2 /\ UNCHANGED <<pc, exitCode>>
  <2>1. Chain'
    <3>1. Size \in Nat
      BY <1>2 DEF Proof, Slice, Size
    <3> QED
      BY <1>1, <1>2, <1>4, <3>1, ClimbKeepsChain
  <2>2. TypeOK'
    BY <1>1, <1>2, <1>4 DEF VerifyInv, TypeOK, Chain
  <2> QED
    BY <1>1, <1>2, <1>3, <1>4, <2>1, <2>2
       DEF VerifyInv, HasArguments, ChecksHold, Late
<1>5. CASE Fail("ERROR") /\ UNCHANGED <<i, index>>
  <2>1. TypeOK'
    BY <1>1, <1>5 DEF VerifyInv, TypeOK, Fail
  <2> QED
    BY <1>1, <1>2, <1>5, <2>1
       DEF VerifyInv, HasArguments, ChecksHold, Late, Fail
<1> QED
  BY <1>4, <1>5 DEF ClimbSlice

LEMMA SliceInv ==
  ASSUME VerifyInv, VerifySlice
  PROVE  VerifyInv'
<1>1. /\ pc = "slice" /\ pc' = "clearanceRecordRootHash" /\ index <= 1
      /\ UNCHANGED <<receipt, count, merkleProof, clearanceRecord, i, index,
                     exitCode>>
  BY DEF VerifySlice, Check
<1>2. /\ ReceiptInPbPair /\ IsLeafNode /\ Chain /\ RecordIsOwn
  BY <1>1 DEF VerifyInv, ChecksHold, Late
<1>3. ReceiptInPbPair' /\ IsLeafNode' /\ RecordIsOwn' /\ Chain'
  BY <1>1, <1>2
     DEF ReceiptInPbPair, IsLeafNode, RecordIsOwn, Chain, InPlace, HashAt, Size,
         Position, ValuesOf, HashTo
<1>4. TypeOK'
  BY <1>1 DEF VerifyInv, TypeOK, VerifySlice, Check, Checks
<1> QED
  BY <1>1, <1>3, <1>4 DEF VerifyInv, HasArguments, ChecksHold, Late

LEMMA RootHashInv ==
  ASSUME VerifyInv, VerifyRootHash
  PROVE  VerifyInv'
<1>1. /\ pc = "clearanceRecordRootHash" /\ pc' = "idle"
      /\ UNCHANGED <<receipt, count, merkleProof, clearanceRecord, i, index>>
      /\ exitCode' = "OK" => HashAt(Size - 1) = clearanceRecord.rootHash
  BY DEF VerifyRootHash
<1>2. /\ merkleProof \in Proof /\ receipt \in SignedReceipt /\ RecordIsOwn
      /\ clearanceRecord \in ClearanceRecord /\ index <= 1
      /\ ReceiptInPbPair /\ IsLeafNode /\ Chain
  BY <1>1 DEF VerifyInv, HasArguments, ChecksHold, Late
<1>3. TypeOK'
  BY <1>1 DEF VerifyInv, TypeOK, VerifyRootHash, Checks
<1>4. ReceiptInPbPair' /\ IsLeafNode' /\ RecordIsOwn' /\ Chain'
  BY <1>1, <1>2
     DEF ReceiptInPbPair, IsLeafNode, RecordIsOwn, Chain, InPlace, HashAt, Size,
         Position, ValuesOf, HashTo
<1>5. exitCode' = "OK" => (HashAt(Size - 1) = clearanceRecord.rootHash)'
  BY <1>1 DEF HashAt, Size
<1>6. exitCode' = "OK" => PassedAll'
  BY <1>1, <1>2, <1>4, <1>5 DEF PassedAll
<1> QED
  BY <1>1, <1>3, <1>6 DEF VerifyInv, HasArguments, ChecksHold, Late

LEMMA VerifyNext == VerifyInv /\ [Next]_vars => VerifyInv'
<1> SUFFICES ASSUME VerifyInv, [Next]_vars PROVE VerifyInv'
  OBVIOUS
<1>1. CASE UNCHANGED vars
  <2>1. /\ ReceiptInPbPair' = ReceiptInPbPair /\ IsLeafNode' = IsLeafNode
        /\ RecordIsOwn' = RecordIsOwn
    BY <1>1 DEF vars, ReceiptInPbPair, IsLeafNode, RecordIsOwn, HashAt, Size,
                Position, ValuesOf, HashTo
  <2>2. Chain' = Chain /\ Size' = Size /\ HashAt(Size - 1)' = HashAt(Size - 1)
    BY <1>1 DEF vars, Chain, InPlace, HashAt, Size, Position
  <2>3. TypeOK' = TypeOK /\ HasArguments' = HasArguments
    BY <1>1 DEF vars, TypeOK, HasArguments, Late
  <2>4. ChecksHold' = ChecksHold
    BY <1>1, <2>1, <2>2 DEF vars, ChecksHold, Late
  <2>5. PassedAll' = PassedAll
    BY <1>1, <2>1, <2>2 DEF vars, PassedAll
  <2> QED
    BY <1>1, <2>3, <2>4, <2>5 DEF vars, VerifyInv
<1> QED
  BY <1>1, StartInv, FetchInv, EarlyChecksInv, PbPairInv, ClimbInv, SliceInv,
     RootHashInv DEF Next, VerifyStep

(* The inductive invariant: each check that lies behind verify() holds,    *)
(* and the climb has kept its chain.                                       *)
THEOREM VerifyInvariant == Spec => []VerifyInv
BY VerifyInit, VerifyNext, PTL DEF Spec

(* The variables of verify() keep their types, the retries their bound.    *)
THEOREM VerifyTypeCorrect == Spec => []TypeOK
<1>1. VerifyInv => TypeOK
  BY DEF VerifyInv
<1> QED
  BY <1>1, VerifyInvariant, PTL

LEMMA PassedIsCommitted ==
  ASSUME PassedAll, i \in Nat
  PROVE  /\ clearanceRecord = Anchored
         /\ Committed(receipt) \/ RootNotReached
<1> DEFINE start  == merkleProof.slice.index
           pairs  == merkleProof.pbPair
           hashes == merkleProof.slice.hashStringList
<1>1. /\ hashes \in Seq(Hash) /\ start \in Int
      /\ pairs \in Seq([keyHash : IndexValue, value : Receipt])
  BY DEF PassedAll, Proof, Slice, PbPair
<1>2. /\ start >= 0 /\ Size \in Nat /\ Position(0, start) < Size
      /\ HashTo(ValuesOf(pairs), HashAt(Position(0, start)))
  BY <1>1 DEF PassedAll, IsLeafNode, Size
<1>3. Position(0, start) \in {0, 1}
  BY <1>1, <1>2 DEF Position
<1>4. HashAt(Size - 1) \in Hash
  BY <1>1, <1>2, <1>3 DEF HashAt, Size
<1>5. clearanceRecord.rootHash = Root
  <2>1. clearanceRecord.rootHash \in {Root, NULL}
    BY DEF PassedAll, ClearanceRecord
  <2> QED
    BY <1>4, <2>1, VerifyConstants DEF PassedAll
<1>6. clearanceRecord = Anchored
  BY <1>5 DEF PassedAll, RecordIsOwn, ClearanceRecord, Anchored
<1> SUFFICES ASSUME ~RootNotReached PROVE Committed(receipt)
  BY <1>6
<1>7. i < Size /\ HashAt(i) = 1
  BY <1>2, <1>5 DEF PassedAll, RootNotReached, Root
<1>8. HashAt(Position(0, start)) # Other
  <2>1. index \in {0, 1}
    BY DEF PassedAll, Chain
  <2>2. CASE index = 1
    <3>1. Position(i, index) = i
      BY <2>2 DEF Position
    <3>2. HashAt(Position(0, start)) = start /\ start # 0
      BY <1>7, <2>2, <3>1 DEF PassedAll, Chain, InPlace
    <3> QED
      BY <1>2, <3>2 DEF Other
  <2>3. CASE index = 0
    <3>1. start = 0 /\ i = 0
      BY <2>3 DEF PassedAll, Chain
    <3>2. Position(0, start) = i
      BY <3>1 DEF Position
    <3> QED
      BY <1>2, <1>7, <3>2 DEF Other
  <2> QED
    BY <2>1, <2>2, <2>3
<1>9. PICK n \in Leaf : Content[n] = ValuesOf(pairs)
  BY <1>2, <1>8 DEF HashTo
<1>10. PICK k \in 1..Len(pairs) :
         pairs[k] = [keyHash |-> IndexValueOf[receipt], value |-> receipt]
  BY DEF PassedAll, ReceiptInPbPair
<1>11. Len(ValuesOf(pairs)) = Len(pairs) /\ ValuesOf(pairs)[k] = receipt
  <2>1. ValuesOf(pairs)[k] = receipt
    BY <1>10 DEF ValuesOf
  <2>2. Len(pairs) \in Nat
    BY <1>1
  <2>3. Len(ValuesOf(pairs)) = Len(pairs)
    <3> HIDE DEF pairs
    <3>1. ValuesOf(pairs) \in Seq({pairs[j].value : j \in 1..Len(pairs)})
      BY <2>2 DEF ValuesOf
    <3> QED
      BY <2>2, <3>1 DEF ValuesOf
  <2> QED
    BY <2>1, <2>3
<1>12. Committed(receipt)
  BY <1>9, <1>11 DEF Committed
<1> QED
  BY <1>6, <1>12

(* verify() passes a signed receipt of an anchored clearance order only,   *)
(* and only if the root hash in the contract commits to it or the climb    *)
(* has ended at another hash than the contract's root, for every size of   *)
(* tree and every proof the server may sign, of whatever length its list.  *)
THEOREM VerifySound == Spec => []VerifiedIsCommitted
<1>1. VerifyInv => VerifiedIsCommitted
  <2> SUFFICES ASSUME VerifyInv, exitCode = "OK"
               PROVE  /\ clearanceRecord = Anchored
                      /\ receipt \in SignedReceipt
                      /\ Committed(receipt) \/ RootNotReached
    BY DEF VerifiedIsCommitted
  <2>1. PassedAll /\ i \in Nat
    BY DEF VerifyInv, TypeOK
  <2> QED
    BY <2>1, PassedIsCommitted DEF PassedAll
<1> QED
  BY <1>1, VerifyInvariant, PTL

-----------------------------------------------------------------------------
(* The converse: what the climb does with a genuine proof.  The loop of    *)
(* eval_root_hash_from_slice() follows the path from the leaf to the root. *)

Pairs == Len(merkleProof.slice.hashStringList) \div 2

NodeAt(n, k) == IF k = 0 THEN n
                ELSE merkleProof.slice.hashStringList[2 * k - 1] \div 2

Undamaged(n) ==
  /\ clearanceRecord = Anchored
  /\ receipt \in SignedReceipt
  /\ merkleProof # NULL
  /\ GenuineProof(merkleProof, n)
  /\ \E k \in 1..Len(Content[n]) : Content[n][k] = receipt

OnPath(n) == \E k \in 0..Pairs : i = 2 * k /\ index = NodeAt(n, k)

HonestInv ==
  /\ pc \in {"merkleProof", "clearanceRecord"} => clearanceRecord = NULL
  /\ \A n \in Leaf : Undamaged(n) => /\ pc = "idle" => exitCode = "OK"
                                     /\ pc = "slice" => OnPath(n)

(* What a genuine slice is, in the terms of the climb.                     *)
LEMMA PathFacts ==
  ASSUME merkleProof \in Proof, NEW n \in Leaf, GenuineProof(merkleProof, n)
  PROVE  /\ n \in Nat /\ n >= 1 /\ n = merkleProof.slice.index
         /\ Pairs \in Nat /\ Size = 2 * Pairs + 1
         /\ \A k \in 0..Pairs : NodeAt(n, k) \in Nat /\ NodeAt(n, k) >= 1
         /\ NodeAt(n, Pairs) = 1 /\ HashAt(2 * Pairs) = 1
         /\ \A k \in 1..Pairs : /\ NodeAt(n, k) \in Node
                                /\ NodeAt(n, k) = NodeAt(n, k - 1) \div 2
                                /\ HashAt(2 * k - 2) = 2 * NodeAt(n, k)
                                /\ HashAt(2 * k - 1) = 2 * NodeAt(n, k) + 1
                                /\ HashAt(2 * k - 1) \in Node
<1> DEFINE hashes == merkleProof.slice.hashStringList
<1>1. hashes \in Seq(Hash) /\ Len(hashes) \in Nat
  BY DEF Proof, Slice
<1>2. n \in Nat /\ n >= 1 /\ LeafCount \in Nat
  BY VerifyConstants DEF Leaf
<1>3. Node \subseteq Nat /\ \A m \in Node : m >= 1 /\ m <= 2 * LeafCount - 1
  BY <1>2 DEF Node
<1>4. /\ n = merkleProof.slice.index
      /\ Len(hashes) = 2 * Pairs + 1 /\ Pairs \in Nat
      /\ \A k \in 1..Len(hashes) : hashes[k] \in Node
      /\ \A k \in 1..Pairs : /\ NodeAt(n, k) = NodeAt(n, k - 1) \div 2
                             /\ hashes[2 * k - 1] = 2 * NodeAt(n, k)
                             /\ hashes[2 * k] = 2 * NodeAt(n, k) + 1
      /\ NodeAt(n, Pairs) = 1
      /\ hashes[2 * Pairs + 1] = 1
  <2>1. GenuineSlice(merkleProof.slice, n)
    BY DEF GenuineProof
  <2>2. Pairs \in Nat
    <3>1. Pairs = Len(hashes) \div 2
      BY DEF Pairs
    <3> HIDE DEF hashes
    <3> QED
      BY <1>1, <3>1
  <2> QED
    BY <1>1, <2>1, <2>2 DEF GenuineSlice, Pairs, NodeAt, Root
<1> HIDE DEF hashes
<1>5. \A k \in Int : HashAt(k) = hashes[k + 1]
  BY DEF HashAt, hashes
<1>6. Size = 2 * Pairs + 1
  BY <1>4 DEF Size, hashes
<1>7. ASSUME NEW k \in 1..Pairs
      PROVE  /\ NodeAt(n, k) \in Nat /\ NodeAt(n, k) >= 1 /\ NodeAt(n, k) \in Node
             /\ HashAt(2 * k - 2) = 2 * NodeAt(n, k)
             /\ HashAt(2 * k - 1) = 2 * NodeAt(n, k) + 1
             /\ HashAt(2 * k - 1) \in Node
  <2>1. k \in Int /\ 2 * k - 1 \in 1..Len(hashes) /\ 2 * k \in 1..Len(hashes)
    BY <1>1, <1>4
  <2>2. hashes[2 * k - 1] \in Node /\ hashes[2 * k] \in Node
    BY <1>4, <2>1
  <2>3. NodeAt(n, k) = hashes[2 * k - 1] \div 2
    BY <2>1 DEF NodeAt, hashes
  <2>4. hashes[2 * k - 1] = 2 * NodeAt(n, k) /\ hashes[2 * k] = 2 * NodeAt(n, k) + 1
    BY <1>4
  <2>5. /\ hashes[2 * k - 1] \in Nat /\ hashes[2 * k - 1] >= 1
        /\ hashes[2 * k - 1] <= 2 * LeafCount - 1
    BY <1>3, <2>2
  <2>6. NodeAt(n, k) \in Nat /\ NodeAt(n, k) >= 1 /\ NodeAt(n, k) <= 2 * LeafCount - 1
    BY <1>2, <2>3, <2>4, <2>5
  <2>7. NodeAt(n, k) \in Node
    BY <1>2, <2>6 DEF Node
  <2>8. HashAt(2 * k - 2) = hashes[2 * k - 1] /\ HashAt(2 * k - 1) = hashes[2 * k]
    <3>1. /\ 2 * k - 2 \in Int /\ (2 * k - 2) + 1 = 2 * k - 1
          /\ 2 * k - 1 \in Int /\ (2 * k - 1) + 1 = 2 * k
      BY <2>1
    <3> QED
      BY <1>5, <3>1
  <2> QED
    BY <2>2, <2>4, <2>6, <2>7, <2>8
<1>8. NodeAt(n, 0) = n
  BY DEF NodeAt
<1>9. \A k \in 0..Pairs : NodeAt(n, k) \in Nat /\ NodeAt(n, k) >= 1
  BY <1>2, <1>4, <1>7, <1>8
<1>10. HashAt(2 * Pairs) = 1
  BY <1>4, <1>5
<1> QED
  BY <1>2, <1>4, <1>6, <1>7, <1>9, <1>10

(* The k-th node of the path is where Position looks for it.               *)
LEMMA NodeInPlace ==
  ASSUME merkleProof \in Proof, NEW n \in Leaf, GenuineProof(merkleProof, n),
         NEW k \in 0..Pairs
  PROVE  /\ HashAt(Position(2 * k, NodeAt(n, k))) = NodeAt(n, k)
         /\ Position(2 * k, NodeAt(n, k)) < Size
<1> DEFINE m == NodeAt(n, k)
<1>1. Pairs \in Nat /\ k \in Nat /\ Size = 2 * Pairs + 1 /\ m \in Nat /\ m >= 1
  BY PathFacts
<1>2. CASE k = Pairs
  <2>1. m = 1 /\ HashAt(2 * k) = 1
    BY <1>2, PathFacts
  <2>2. Position(2 * k, m) = 2 * k
    BY <1>1, <2>1 DEF Position
  <2> QED
    BY <1>1, <1>2, <2>1, <2>2
<1>3. CASE k # Pairs
  <2>1. k + 1 \in 1..Pairs /\ (k + 1) - 1 = k /\ 2 * (k + 1) - 2 = 2 * k
        /\ 2 * (k + 1) - 1 = 2 * k + 1
    BY <1>1, <1>3
  <2>2. /\ NodeAt(n, k + 1) = m \div 2
        /\ HashAt(2 * k) = 2 * NodeAt(n, k + 1)
        /\ HashAt(2 * k + 1) = 2 * NodeAt(n, k + 1) + 1
        /\ NodeAt(n, k + 1) >= 1
    <3>1. k + 1 \in 0..Pairs
      BY <2>1, <1>1
    <3> QED
      BY <2>1, <3>1, PathFacts
  <2>3. m # 1
    BY <1>1, <2>2
  <2>4. Position(2 * k, m) = 2 * k + (m % 2)
    BY <2>3 DEF Position
  <2> HIDE DEF m
  <2>5. CASE m % 2 = 0
    <3>1. m = 2 * (m \div 2) /\ Position(2 * k, m) = 2 * k
      BY <1>1, <2>4, <2>5
    <3> QED
      BY <1>1, <2>2, <3>1 DEF m
  <2>6. CASE m % 2 = 1
    <3>1. m = 2 * (m \div 2) + 1 /\ Position(2 * k, m) = 2 * k + 1
      BY <1>1, <2>4, <2>6
    <3> QED
      BY <1>1, <1>3, <2>2, <3>1 DEF m
  <2> QED
    BY <1>1, <2>5, <2>6
<1> QED
  BY <1>2, <1>3

(* A turn of the climb finds the parent where it looks for it.             *)
LEMMA TurnHolds ==
  ASSUME merkleProof \in Proof, NEW n \in Leaf, GenuineProof(merkleProof, n),
         NEW k \in 0..Pairs, NodeAt(n, k) > 1
  PROVE  /\ k + 1 \in 0..Pairs
         /\ NodeAt(n, k + 1) = NodeAt(n, k) \div 2
         /\ Sha256(HashAt(2 * k), HashAt(2 * k + 1)) =
              HashAt(Position(2 * k + 2, NodeAt(n, k) \div 2))
         /\ Position(2 * k + 2, NodeAt(n, k) \div 2) < Size
         /\ 2 * k < Size /\ 2 * k + 1 < Size
<1>1. /\ Pairs \in Nat /\ k \in Nat /\ NodeAt(n, Pairs) = 1
      /\ Size = 2 * Pairs + 1
  BY PathFacts
<1>2. k # Pairs
  BY <1>1
<1>3. k + 1 \in 1..Pairs /\ k + 1 \in 0..Pairs /\ 2 * (k + 1) = 2 * k + 2
      /\ (k + 1) - 1 = k /\ 2 * (k + 1) - 2 = 2 * k /\ 2 * (k + 1) - 1 = 2 * k + 1
  BY <1>1, <1>2
<1> DEFINE m == NodeAt(n, k + 1)
<1>4. /\ m \in Node /\ m \in Nat /\ m = NodeAt(n, k) \div 2
      /\ HashAt(2 * k) = 2 * m /\ HashAt(2 * k + 1) = 2 * m + 1
      /\ HashAt(2 * k + 1) \in Node
  BY <1>3, PathFacts
<1>5. Sha256(HashAt(2 * k), HashAt(2 * k + 1)) = m
  <2> HIDE DEF m
  <2>1. (2 * m) \div 2 = m
    BY <1>4
  <2> QED
    BY <1>4, <2>1 DEF Sha256
<1>6. HashAt(Position(2 * k + 2, m)) = m /\ Position(2 * k + 2, m) < Size
  BY <1>3, NodeInPlace
<1>7. 2 * k < Size /\ 2 * k + 1 < Size
  BY <1>1, <1>3
<1> QED
  BY <1>3, <1>4, <1>5, <1>6, <1>7

(* The leaf's pairs are found in the leaf, and the receipt among them.     *)
LEMMA GenuinePairs ==
  ASSUME merkleProof \in Proof, NEW n \in Leaf, Undamaged(n)
  PROVE  ReceiptInPbPair /\ IsLeafNode
<1>1. /\ GenuineProof(merkleProof, n) /\ merkleProof.pbPair = PbPairOf(n)
      /\ Content[n] \in Seq(Receipt) /\ Len(Content[n]) \in Nat
  BY VerifyConstants DEF Undamaged, GenuineProof
<1> DEFINE content == Content[n]
           pairOf(k) == [keyHash |-> IndexValueOf[content[k]], value |-> content[k]]
<1>2. /\ Len(merkleProof.pbPair) = Len(content)
      /\ \A k \in 1..Len(content) : merkleProof.pbPair[k] = pairOf(k)
  <2>1. merkleProof.pbPair = [k \in 1..Len(content) |-> pairOf(k)]
    BY <1>1 DEF PbPairOf
  <2>2. merkleProof.pbPair \in Seq([keyHash : IndexValue, value : Receipt])
    BY DEF Proof, PbPair
  <2>3. /\ DOMAIN merkleProof.pbPair = 1..Len(content)
        /\ DOMAIN merkleProof.pbPair = 1..Len(merkleProof.pbPair)
        /\ Len(merkleProof.pbPair) \in Nat
    <3>1. DOMAIN merkleProof.pbPair = 1..Len(content)
      BY <2>1
    <3> QED
      BY <2>2, <3>1
  <2>4. Len(merkleProof.pbPair) = Len(content)
    <3> HIDE DEF content
    <3> QED
      BY <1>1, <2>3 DEF content
  <2> QED
    BY <2>1, <2>4
<1>3. ReceiptInPbPair
  <2>1. PICK k \in 1..Len(content) : content[k] = receipt
    BY DEF Undamaged
  <2>2. merkleProof.pbPair[k] = [keyHash |-> IndexValueOf[receipt], value |-> receipt]
    BY <1>2, <2>1
  <2>3. ASSUME NEW j \in 1..(k - 1)
        PROVE  merkleProof.pbPair[j].keyHash # IndexValueOf[receipt]
    <3>1. j \in 1..Len(content) /\ j # k
      BY <1>1
    <3>2. IndexValueOf[content[j]] # IndexValueOf[content[k]]
      BY <3>1, IndexValuesAreUsedOnce
    <3>3. merkleProof.pbPair[j].keyHash = IndexValueOf[content[j]]
      <4>1. merkleProof.pbPair[j] = pairOf(j)
        BY <1>2, <3>1
      <4> HIDE DEF content
      <4> QED
        BY <4>1
    <3> QED
      BY <2>1, <3>2, <3>3
  <2> QED
    BY <1>2, <2>2, <2>3 DEF ReceiptInPbPair
<1>4. ValuesOf(merkleProof.pbPair) = content
  <2>1. ValuesOf(merkleProof.pbPair) = [k \in 1..Len(content) |-> content[k]]
    <3>1. \A k \in 1..Len(content) : merkleProof.pbPair[k].value = content[k]
      <4> SUFFICES ASSUME NEW k \in 1..Len(content)
                   PROVE  merkleProof.pbPair[k].value = content[k]
        OBVIOUS
      <4>1. merkleProof.pbPair[k] = pairOf(k)
        BY <1>2
      <4> HIDE DEF content
      <4> QED
        BY <4>1
    <3> HIDE DEF content, pairOf
    <3> QED
      BY <1>2, <3>1 DEF ValuesOf
  <2>2. content = [k \in 1..Len(content) |-> content[k]]
    BY <1>1
  <2> QED
    BY <2>1, <2>2
<1>5. IsLeafNode
  <2>1. /\ n \in Nat /\ n = merkleProof.slice.index /\ 0 \in 0..Pairs
    BY <1>1, PathFacts
  <2>2. NodeAt(n, 0) = n
    BY DEF NodeAt
  <2>3. HashAt(Position(0, n)) = n /\ Position(0, n) < Size
    <3>1. HashAt(Position(2 * 0, NodeAt(n, 0))) = NodeAt(n, 0)
          /\ Position(2 * 0, NodeAt(n, 0)) < Size
      BY <1>1, <2>1, NodeInPlace
    <3> QED
      BY <2>2, <3>1
  <2>4. HashTo(content, n)
    BY DEF HashTo
  <2> QED
    BY <1>4, <2>1, <2>3, <2>4 DEF IsLeafNode
<1> QED
  BY <1>3, <1>5

-----------------------------------------------------------------------------
LEMMA HonestInit == Init => HonestInv
BY VerifyConstants DEF Init, HonestInv, Undamaged, Anchored, ClearanceRecord

LEMMA UndamagedKept ==
  ASSUME UNCHANGED <<receipt, merkleProof, clearanceRecord>>, NEW n \in Leaf
  PROVE  Undamaged(n)' <=> Undamaged(n)
BY DEF Undamaged

LEMMA HonestNext == VerifyInv /\ HonestInv /\ [Next]_vars => HonestInv'
<1> SUFFICES ASSUME VerifyInv, HonestInv, [Next]_vars PROVE HonestInv'
  OBVIOUS
<1>1. Anchored # NULL
  BY VerifyConstants DEF Anchored, ClearanceRecord
<1>2. ASSUME clearanceRecord' = NULL PROVE HonestInv'
  BY <1>1, <1>2 DEF HonestInv, Undamaged
<1>3. CASE \E r \in Receipt : Verify(r)
  BY <1>2, <1>3 DEF Verify
<1>4. CASE \/ GetMerkleProof \/ GetMerkleProofFails \/ PostClearanceRecordFails
  BY <1>2, <1>4
     DEF GetMerkleProof, GetMerkleProofFails, PostClearanceRecordFails, HonestInv
<1>5. CASE PostClearanceRecord
  BY <1>5 DEF PostClearanceRecord, HonestInv
<1>6. ASSUME NEW n \in Leaf, Undamaged(n)',
             UNCHANGED <<receipt, merkleProof, clearanceRecord>>,
             pc \in Checks
      PROVE  /\ Undamaged(n) /\ GenuineProof(merkleProof, n) /\ merkleProof \in Proof
             /\ ReceiptInPbPair /\ IsLeafNode
  <2>1. Undamaged(n)
    BY <1>6, UndamagedKept
  <2>2. merkleProof \in Proof
    BY <1>6 DEF VerifyInv, HasArguments, Late, Checks
  <2> QED
    BY <2>1, <2>2, GenuinePairs DEF Undamaged
<1>7. CASE \/ VerifyReceiptSignature \/ VerifyMerkleProofSignature \/ VerifyClearanceOrder
  <2>1. /\ UNCHANGED <<receipt, merkleProof, clearanceRecord>> /\ pc \in Checks
        /\ pc' \notin {"merkleProof", "clearanceRecord", "slice"}
    BY <1>7 DEF VerifyReceiptSignature, VerifyMerkleProofSignature,
                VerifyClearanceOrder, Check, Fail, Checks
  <2>2. ASSUME NEW n \in Leaf, Undamaged(n)'
        PROVE  pc' # "idle"
    <3>1. Undamaged(n) /\ GenuineProof(merkleProof, n)
      BY <1>6, <2>1, <2>2
    <3> QED
      BY <1>7, <3>1 DEF VerifyReceiptSignature, VerifyMerkleProofSignature,
         VerifyClearanceOrder, Check, Undamaged, GenuineProof, Anchored
  <2> QED
    BY <2>1, <2>2 DEF HonestInv
<1>8. CASE VerifyPbPair
  <2>1. /\ UNCHANGED <<receipt, merkleProof, clearanceRecord>> /\ pc \in Checks
        /\ pc' \in {"idle", "slice"}
        /\ i' = 0 /\ index' = merkleProof.slice.index
    BY <1>8 DEF VerifyPbPair, Check, Fail, Checks
  <2>2. ASSUME NEW n \in Leaf, Undamaged(n)'
        PROVE  pc' # "idle" /\ OnPath(n)'
    <3>1. /\ ReceiptInPbPair /\ IsLeafNode /\ GenuineProof(merkleProof, n)
          /\ merkleProof \in Proof
      BY <1>6, <2>1, <2>2
    <3>2. pc' = "slice"
      BY <1>8, <3>1 DEF VerifyPbPair, Check
    <3>3. 0 \in 0..Pairs /\ i' = 2 * 0 /\ index' = NodeAt(n, 0)
      BY <2>1, <3>1, PathFacts DEF NodeAt
    <3>4. Pairs' = Pairs /\ NodeAt(n, 0)' = NodeAt(n, 0)
      BY <2>1 DEF Pairs, NodeAt
    <3> QED
      BY <3>2, <3>3, <3>4 DEF OnPath
  <2> QED
    BY <2>1, <2>2 DEF HonestInv
<1>9. CASE ClimbSlice
  <2>1. /\ UNCHANGED <<receipt, merkleProof, clearanceRecord>> /\ pc \in Checks
        /\ pc = "slice" /\ index > 1 /\ pc' \in {"idle", "slice"}
    BY <1>9 DEF ClimbSlice, Fail, Checks
  <2>2. ASSUME NEW n \in Leaf, Undamaged(n)'
        PROVE  pc' # "idle" /\ OnPath(n)'
    <3>1. /\ Undamaged(n) /\ GenuineProof(merkleProof, n) /\ merkleProof \in Proof
      BY <1>6, <2>1, <2>2
    <3>2. PICK k \in 0..Pairs : i = 2 * k /\ index = NodeAt(n, k)
      BY <2>1, <3>1 DEF HonestInv, OnPath
    <3>3. /\ k + 1 \in 0..Pairs /\ NodeAt(n, k + 1) = index \div 2
          /\ SiblingsHashToParent
          /\ Position(i + 2, index \div 2) < Size /\ i < Size /\ i + 1 < Size
      BY <2>1, <3>1, <3>2, TurnHolds DEF SiblingsHashToParent
    <3>4. ~PastEnd
      <4>1. Size \in Nat /\ i \in Nat /\ Position(i + 2, index \div 2) \in Int
        <5>1. index \in Int /\ i \in Nat
          BY DEF VerifyInv, TypeOK
        <5> QED
          BY <3>1, <5>1, PathFacts DEF Position
      <4> QED
        BY <3>3, <4>1 DEF PastEnd
    <3>5. pc' = pc /\ i' = i + 2 /\ index' = index \div 2
      BY <1>9, <3>3, <3>4 DEF ClimbSlice
    <3>6. Pairs' = Pairs /\ NodeAt(n, k + 1)' = NodeAt(n, k + 1)
      BY <2>1 DEF Pairs, NodeAt
    <3>7. i' = 2 * (k + 1) /\ index' = NodeAt(n, k + 1)
      BY <3>2, <3>3, <3>5
    <3> QED
      BY <2>1, <3>3, <3>5, <3>6, <3>7 DEF OnPath
  <2> QED
    BY <2>1, <2>2 DEF HonestInv
<1>10. CASE VerifySlice
  <2>1. pc' = "clearanceRecordRootHash"
    BY <1>10 DEF VerifySlice, Check
  <2> QED
    BY <2>1 DEF HonestInv
<1>11. CASE VerifyRootHash
  <2>1. /\ UNCHANGED <<receipt, merkleProof, clearanceRecord>> /\ pc \in Checks
        /\ pc' = "idle"
    BY <1>11 DEF VerifyRootHash, Checks
  <2>2. ASSUME NEW n \in Leaf, Undamaged(n)'
        PROVE  exitCode' = "OK"
    <3>1. /\ Undamaged(n) /\ GenuineProof(merkleProof, n) /\ merkleProof \in Proof
      BY <1>6, <2>1, <2>2
    <3>2. Size = 2 * Pairs + 1 /\ Pairs \in Nat /\ HashAt(2 * Pairs) = 1
      BY <3>1, PathFacts
    <3>3. HashAt(Size - 1) = 1
      BY <3>2
    <3>4. clearanceRecord.rootHash = 1
      BY <3>1 DEF Undamaged, Anchored, Root
    <3> QED
      BY <1>11, <3>3, <3>4 DEF VerifyRootHash
  <2> QED
    BY <2>1, <2>2 DEF HonestInv
<1>12. CASE UNCHANGED vars
  BY <1>12, UndamagedKept DEF vars, HonestInv, OnPath, Pairs, NodeAt
<1> QED
  BY <1>3, <1>4, <1>5, <1>7, <1>8, <1>9, <1>10, <1>11, <1>12 DEF Next, VerifyStep

(* verify() is complete: whatever the size of the tree, the leaf and the   *)
(* receipts in it, a signed receipt the contract commits to passes when    *)
(* the server's genuine proof and the contract's record arrive.            *)
THEOREM VerifyComplete == Spec => []GenuineProofPasses
<1>1. HonestInv => GenuineProofPasses
  BY DEF HonestInv, GenuineProofPasses, Undamaged
<1> QED
  BY <1>1, HonestInit, HonestNext, VerifyInvariant, PTL DEF Spec

=============================================================================
