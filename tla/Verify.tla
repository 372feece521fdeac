------------------------------- MODULE Verify -------------------------------
(***************************************************************************)
(* verify() of src/src/bns-client/verify: one receipt is checked against   *)
(* the merkle proof the server gives for it and the clearance record of    *)
(* the contract.                                                           *)
(*                                                                         *)
(* The receipt's clearance order has a merkle tree, whose nodes are        *)
(* numbered 1, 2, ... from the root downwards, the children of n being 2n  *)
(* and 2n + 1.  SHA-256 is taken for collision free, so the hash of a node *)
(* is represented by the node, and any hash no node has by Other.  The     *)
(* digest of a receipt is represented by the receipt.                      *)
(***************************************************************************)
EXTENDS Integers, Sequences

CONSTANTS
  LeafCount,      \* leaves of the tree
  Receipt,        \* receipts of the clearance order
  IndexValue,     \* index values
  IndexValueOf,   \* the index value of each receipt
  SignedReceipt,  \* the receipts whose server signature is right
  Content,        \* the receipts each leaf commits to, in the tree's order
  MerkleProof,    \* bound: the merkle proofs the server answers with
  MaxRetryCount,  \* *bnsClient->maxRetryCount
  NULL            \* a null pointer

Other == 0
Node  == 1..2 * LeafCount - 1
Leaf  == LeafCount..2 * LeafCount - 1
Hash  == Node \cup {Other}
Root  == 1

(* Clearance orders are compared with the receipt's only.                  *)
Own      == 1
NotOwn   == 0
Slice    == [index : Int, hashStringList : Seq(Hash)]
PbPair   == Seq([keyHash : IndexValue, value : Receipt])
Proof    == [slice : Slice, pbPair : PbPair, clearanceOrder : {Own, NotOwn},
             signed : BOOLEAN]

(* The zeros of a clearance order not anchored yet, and what a damaged     *)
(* answer leaves in a record, are the hash of nothing.                     *)
ClearanceRecord == [clearanceOrder : {Own, NotOwn}, rootHash : {Root, NULL}]
Anchored        == [clearanceOrder |-> Own, rootHash |-> Root]

ASSUME VerifyConstants ==
  /\ LeafCount \in Nat \ {0}
  /\ IndexValueOf \in [Receipt -> IndexValue]
  /\ SignedReceipt \subseteq Receipt
  /\ Content \in [Leaf -> Seq(Receipt)]
  /\ \A m, n \in Leaf : m # n => Content[m] # Content[n]
  /\ MerkleProof \subseteq Proof
  /\ MaxRetryCount \in Nat
  /\ NULL \notin Proof \cup ClearanceRecord \cup Receipt \cup Hash

(* The server refuses an index value it has an entry for.                  *)
ASSUME IndexValuesAreUsedOnce ==
  \A n \in Leaf : \A j, k \in 1..Len(Content[n]) :
    j # k => IndexValueOf[Content[n][j]] # IndexValueOf[Content[n][k]]

VARIABLES
  pc,               \* the check verify() has come to, "idle" outside of it
  receipt,          \* its argument
  count,            \* retries of bns_get_merkle_proof()
  merkleProof,      \* the proof it has parsed
  clearanceRecord,  \* what contract_post_clearance_record() has returned
  i,                \* the loop variables of eval_root_hash_from_slice()
  index,
  ok,               \* the checks passed: verifyReceiptResult->...Ok
  exitCode          \* the return value; verifyReceiptResult->pass is set
                    \* where it becomes "OK"

vars == <<pc, receipt, count, merkleProof, clearanceRecord, i, index, ok,
          exitCode>>

Checks == {"receiptSignature", "merkleproofSignature", "clearanceOrder",
           "pbPair", "slice", "clearanceRecordRootHash"}

TypeOK ==
  /\ pc \in Checks \cup {"idle", "merkleProof", "clearanceRecord"}
  /\ receipt \in Receipt \cup {NULL}
  /\ count \in 0..MaxRetryCount
  /\ merkleProof \in Proof \cup {NULL}
  /\ clearanceRecord \in ClearanceRecord \cup {NULL}
  /\ i \in Nat
  /\ index \in Int
  /\ ok \subseteq Checks
  /\ exitCode \in {"OK", "ERROR", "NO_PROOF"}

Init ==
  /\ pc = "idle"
  /\ receipt = NULL
  /\ count = 0
  /\ merkleProof = NULL
  /\ clearanceRecord = NULL
  /\ i = 0
  /\ index = 0
  /\ ok = {}
  /\ exitCode = "ERROR"

-----------------------------------------------------------------------------
(* The tree                                                                *)

(* The hash of two hashes: their parent's if they are the children of a    *)
(* node, in their order.                                                   *)
Sha256(l, r) ==
  IF \E n \in Node : l = 2 * n /\ r = 2 * n + 1 /\ r \in Node
    THEN l \div 2 ELSE Other

(* The concatenated values of a pbPair, and what they hash to.             *)
ValuesOf(pbPair) == [k \in 1..Len(pbPair) |-> pbPair[k].value]

HashTo(values, hash) ==
  IF \E n \in Leaf : Content[n] = values
    THEN hash \in Leaf /\ Content[hash] = values
    ELSE hash = Other

-----------------------------------------------------------------------------
(* Where a list of hashes has the node of index n, k being the position of *)
(* the pair of siblings it belongs to; the variant takes the left sibling  *)
(* always.                                                                 *)
Position_Left(k, n) == k

Position(k, n) == k + (IF n = 1 THEN 0 ELSE n % 2)

HashAt(k) == merkleProof.slice.hashStringList[k + 1]

Size == Len(merkleProof.slice.hashStringList)

-----------------------------------------------------------------------------
Verify(r) ==
  /\ pc = "idle"
  /\ pc' = "merkleProof"
  /\ receipt' = r
  /\ count' = 0
  /\ merkleProof' = NULL
  /\ clearanceRecord' = NULL
  /\ i' = 0
  /\ index' = 0
  /\ ok' = {}
  /\ exitCode' = "ERROR"

Fail(code) == /\ pc' = "idle"
              /\ exitCode' = code

(* bns_get_merkle_proof(): an answer that parses, whatever is in it ...    *)
GetMerkleProof ==
  /\ pc = "merkleProof"
  /\ merkleProof' \in MerkleProof
  /\ pc' = "clearanceRecord"
  /\ UNCHANGED <<receipt, count, clearanceRecord, i, index, ok, exitCode>>

RetriesLeft_OffByOne == count <= MaxRetryCount

RetriesLeft == count < MaxRetryCount

(* ... or none, and another try.                                           *)
GetMerkleProofFails ==
  /\ pc = "merkleProof"
  /\ IF RetriesLeft
       THEN count' = count + 1 /\ UNCHANGED <<pc, exitCode>>
       ELSE Fail("NO_PROOF") /\ UNCHANGED count
  /\ UNCHANGED <<receipt, merkleProof, clearanceRecord, i, index, ok>>

(* contract_post_clearance_record(), see ClearanceRecord.tla: what it      *)
(* returns with success may still be empty or damaged.                     *)
PostClearanceRecord ==
  /\ pc = "clearanceRecord"
  /\ clearanceRecord' \in {Anchored} \cup [clearanceOrder : {Own, NotOwn},
                                           rootHash : {NULL}]
  /\ pc' = "receiptSignature"
  /\ UNCHANGED <<receipt, count, merkleProof, i, index, ok, exitCode>>

PostClearanceRecordFails ==
  /\ pc = "clearanceRecord"
  /\ Fail("NO_PROOF")
  /\ UNCHANGED <<receipt, count, merkleProof, clearanceRecord, i, index, ok>>

(* A check of verify(): its flag is set and the next one follows, or the   *)
(* first that does not hold ends the verification.                         *)
Check(check, holds, next) ==
  /\ pc = check
  /\ IF holds THEN /\ ok' = ok \cup {check}
                   /\ pc' = next
                   /\ UNCHANGED exitCode
              ELSE /\ Fail("ERROR")
                   /\ UNCHANGED ok
  /\ UNCHANGED <<receipt, count, merkleProof, clearanceRecord>>

VerifyReceiptSignature ==
  /\ Check("receiptSignature", receipt \in SignedReceipt, "merkleproofSignature")
  /\ UNCHANGED <<i, index>>

VerifyMerkleProofSignature ==
  /\ Check("merkleproofSignature", merkleProof.signed, "clearanceOrder")
  /\ UNCHANGED <<i, index>>

VerifyClearanceOrder ==
  /\ Check("clearanceOrder",
           /\ merkleProof.clearanceOrder = Own
           /\ clearanceRecord.clearanceOrder = merkleProof.clearanceOrder,
           "pbPair")
  /\ UNCHANGED <<i, index>>

(* check_receipt_in_pbpair(): the first pair with the receipt's key has    *)
(* the receipt's digest.                                                   *)
ReceiptInPbPair ==
  \E k \in 1..Len(merkleProof.pbPair) :
    /\ merkleProof.pbPair[k] = [keyHash |-> IndexValueOf[receipt],
                                value   |-> receipt]
    /\ \A j \in 1..(k - 1) :
         merkleProof.pbPair[j].keyHash # IndexValueOf[receipt]

(* is_leaf_node(), and its absence: the pairs hash to the leaf's hash.     *)
IsLeafNode_Unchecked == TRUE

IsLeafNode ==
  LET leaf == Position(0, merkleProof.slice.index)
  IN  /\ merkleProof.slice.index >= 0
      /\ leaf < Size
      /\ HashTo(ValuesOf(merkleProof.pbPair), HashAt(leaf))

VerifyPbPair ==
  /\ Check("pbPair", ReceiptInPbPair /\ IsLeafNode, "slice")
  /\ i' = 0
  /\ index' = merkleProof.slice.index

(* The loop of eval_root_hash_from_slice() follows the index and never     *)
(* looks at the size: in a list that is too short for its index a turn     *)
(* reads hashes behind the end.                                            *)
PastEnd ==
  \E k \in {i, i + 1, Position(i + 2, index \div 2)} : k >= Size

SiblingsHashToParent ==
  Sha256(HashAt(i), HashAt(i + 1)) = HashAt(Position(i + 2, index \div 2))

(* One turn of the loop: two siblings hash to their parent.  What is read  *)
(* behind the end is undefined, it may be taken for a match or not (or     *)
(* stop the program, which then takes no further step).                    *)
ClimbSlice ==
  /\ pc = "slice"
  /\ index > 1
  /\ \/ /\ ~PastEnd => SiblingsHashToParent
        /\ i' = i + 2
        /\ index' = index \div 2
        /\ UNCHANGED <<pc, exitCode>>
     \/ /\ ~PastEnd => ~SiblingsHashToParent
        /\ Fail("ERROR")
        /\ UNCHANGED <<i, index>>
  /\ UNCHANGED <<receipt, count, merkleProof, clearanceRecord, ok>>

VerifySlice ==
  /\ index <= 1
  /\ Check("slice", TRUE, "clearanceRecordRootHash")
  /\ UNCHANGED <<i, index>>

(* The last hash of the list is the contract's root hash, whatever hash    *)
(* the climb has come to.                                                  *)
VerifyRootHash ==
  LET holds == HashAt(Size - 1) = clearanceRecord.rootHash
  IN  /\ pc = "clearanceRecordRootHash"
      /\ pc' = "idle"
      /\ exitCode' = IF holds THEN "OK" ELSE "ERROR"
      /\ ok' = IF holds THEN ok \cup {pc} ELSE ok
      /\ UNCHANGED <<receipt, count, merkleProof, clearanceRecord, i, index>>

-----------------------------------------------------------------------------
VerifyStep ==
  \/ GetMerkleProof
  \/ GetMerkleProofFails
  \/ PostClearanceRecord
  \/ PostClearanceRecordFails
  \/ VerifyReceiptSignature
  \/ VerifyMerkleProofSignature
  \/ VerifyClearanceOrder
  \/ VerifyPbPair
  \/ ClimbSlice
  \/ VerifySlice
  \/ VerifyRootHash

Next == VerifyStep \/ \E r \in Receipt : Verify(r)

Spec == Init /\ [][Next]_vars

-----------------------------------------------------------------------------
(* Properties                                                              *)

Committed(r) == \E n \in Leaf : \E k \in 1..Len(Content[n]) : Content[n][k] = r

(* The list is longer or shorter than its index calls for, and the hash at *)
(* position i, where the climb has ended, is not the root of the contract: *)
(* the climb and the comparison with the contract look at two hashes that  *)
(* nothing relates.                                                        *)
RootNotReached ==
  i # Size - 1 /\ (i < Size => HashAt(i) # clearanceRecord.rootHash)

(* A receipt that passes is signed, its clearance order is anchored, and   *)
(* the root hash in the contract commits to it: the chain from the pairs   *)
(* over the leaf and the siblings to the contract's root has no gap in it, *)
(* whatever merkle proof the server signs, but for one: a list that ends   *)
(* in the root at a position the climb does not come to.                   *)
VerifiedIsCommitted ==
  exitCode = "OK" =>
    /\ clearanceRecord = Anchored
    /\ receipt \in SignedReceipt
    /\ Committed(receipt) \/ RootNotReached

(* src/doc/callback_en.md:28 says that the merkle proof verifies "whether  *)
(* receipt is in the TP-merkle tree".  Through the gap named above a       *)
(* receipt passes that is not.                                             *)
VerifiedIsInTheTree == exitCode = "OK" => Committed(receipt)

(* The slice the server gives for node n when nothing is wrong: a pair of  *)
(* siblings for every level from n upwards, each hashing to its parent in  *)
(* the pair behind it, and the root.                                       *)
GenuineSlice(slice, n) ==
  LET hashes  == slice.hashStringList
      pairs   == Len(hashes) \div 2
      node(k) == IF k = 0 THEN n ELSE hashes[2 * k - 1] \div 2
  IN  /\ slice.index = n
      /\ Len(hashes) = 2 * pairs + 1
      /\ \A k \in 1..Len(hashes) : hashes[k] \in Node
      /\ \A k \in 1..pairs : /\ node(k) = node(k - 1) \div 2
                             /\ hashes[2 * k - 1] = 2 * node(k)
                             /\ hashes[2 * k] = 2 * node(k) + 1
      /\ node(pairs) = Root
      /\ hashes[Len(hashes)] = Root

PbPairOf(n) == [k \in 1..Len(Content[n]) |->
                  [keyHash |-> IndexValueOf[Content[n][k]],
                   value   |-> Content[n][k]]]

(* With it come all the pairs of the leaf.                                 *)
GenuineProof(proof, n) ==
  /\ GenuineSlice(proof.slice, n)
  /\ proof.pbPair = PbPairOf(n)
  /\ proof.clearanceOrder = Own
  /\ proof.signed

(* A receipt the contract commits to passes when the server's proof and    *)
(* the contract's record arrive undamaged, whichever leaf it is in.        *)
GenuineProofPasses ==
  (/\ pc = "idle"
   /\ clearanceRecord = Anchored
   /\ receipt \in SignedReceipt
   /\ merkleProof # NULL
   /\ \E n \in Leaf : /\ GenuineProof(merkleProof, n)
                      /\ \E k \in 1..Len(Content[n]) : Content[n][k] = receipt)
  => exitCode = "OK"

=============================================================================
