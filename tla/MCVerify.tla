------------------------------ MODULE MCVerify ------------------------------
(***************************************************************************)
(* Verify for TLC: a tree of four leaves, four receipts in it, one of them *)
(* without the server's signature, and a signed receipt that is not in the *)
(* tree although its index value is.  The server's proofs are the genuine  *)
(* ones, those that differ from a genuine one in a hash or in the index,   *)
(* with right or wrong pairs, lists with more or fewer hashes than their   *)
(* index calls for, and genuine slices with a wrong clearance order or     *)
(* signature.                                                              *)
(***************************************************************************)
EXTENDS Verify, FiniteSets

CONSTANTS r1, r2, r3, r4, r5, ix1, ix2, ix3, ix4

MCReceipt       == {r1, r2, r3, r4, r5}
MCSignedReceipt == MCReceipt \ {r4}
MCIndexValue    == {ix1, ix2, ix3, ix4}
MCIndexValueOf  == [r \in MCReceipt |-> CASE r \in {r1, r5} -> ix1
                                         [] r = r2 -> ix2
                                         [] r = r3 -> ix3
                                         [] r = r4 -> ix4]
MCContent == [n \in 4..7 |-> CASE n = 4 -> <<r1>>
                               [] n = 5 -> <<r2, r3>>
                               [] n = 6 -> <<>>
                               [] n = 7 -> <<r4>>]

(* The genuine slice of a node, computed from its index.                   *)
Depth(n) == CHOOSE d \in 0..n : 2^d <= n /\ n < 2^(d + 1)

SliceOf(n) ==
  LET depth == Depth(n)
      sibling(p) == LET a == n \div 2^(p \div 2) IN 2 * (a \div 2) + (p % 2)
  IN  [index          |-> n,
       hashStringList |-> [k \in 1..2 * depth + 1 |->
                             IF k = 2 * depth + 1 THEN Root ELSE sibling(k - 1)]]

ASSUME SlicesAreGenuine == \A n \in Node : GenuineSlice(SliceOf(n), n)

SlicesFor(n) ==
  LET right == SliceOf(n).hashStringList
  IN  {[index |-> m, hashStringList |-> right] :
         m \in {k \in Node : Depth(k) = Depth(n)}}
      \cup {[index |-> n, hashStringList |-> [right EXCEPT ![k] = h]] :
              k \in 1..Len(right), h \in Hash}

(* A leaf's hash, or one no node has, before the root, for indexes at and  *)
(* around the root (whose list has one hash) and of lower levels (whose    *)
(* lists have three and five); -1 and 0 are no node's index.               *)
MisfitSlices ==
  [index          : {-1, 0, 1, 2, 4, 7},
   hashStringList : {<<Root>>, <<4, Root>>, <<Other, Root>>,
                     <<4, 5, Root>>, <<Other, 3, 2, Root>>}]

(* The pairs of a leaf, without one, in another order, and with a receipt  *)
(* or a key exchanged.                                                     *)
MCPbPairs ==
  LET pair(k, r) == [keyHash |-> k, value |-> r]
      right(r)   == pair(MCIndexValueOf[r], r)
  IN  {<<>>, <<right(r1)>>, <<right(r5)>>, <<right(r2)>>,
       <<right(r2), right(r3)>>, <<right(r3), right(r2)>>,
       <<pair(ix2, r3), right(r2)>>, <<right(r4)>>}

MCMerkleProof ==
  [slice : UNION {SlicesFor(n) : n \in 1..7} \cup MisfitSlices,
   pbPair : MCPbPairs, clearanceOrder : {1}, signed : {TRUE}]
  \cup [slice : {SliceOf(n) : n \in 4..7}, pbPair : MCPbPairs,
        clearanceOrder : {0, 1}, signed : BOOLEAN]

=============================================================================
