SPECIFICATION Spec
CONSTANTS
  r1 = r1
  r2 = r2
  r3 = r3
  r4 = r4
  r5 = r5
  ix1 = ix1
  ix2 = ix2
  ix3 = ix3
  ix4 = ix4
  LeafCount = 4
  Receipt <- MCReceipt
  IndexValue <- MCIndexValue
  IndexValueOf <- MCIndexValueOf
  SignedReceipt <- MCSignedReceipt
  Content <- MCContent
  MerkleProof <- MCMerkleProof
  MaxRetryCount = 1
  NULL = NULL
INVARIANTS
  VerifiedIsInTheTree
