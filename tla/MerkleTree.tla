----------------------------- MODULE MerkleTree -----------------------------
(***************************************************************************)
(* The Merkle trees of src/src/utils/data-structures/MerkleTree.ts.  A tree *)
(* with n leaves is an array of 2n - 1 hashes, the root first, the leaves  *)
(* last.                                                                   *)
(***************************************************************************)
EXTENDS Integers, Sequences, FiniteSets, Functions

CONSTANT Hashes   \* the hashes of attestations, in the order of their digits

\* The hash of a pair does not depend on its order.
sortedHashPair(x, y) == {x, y}

Place(h) == CHOOSE i \in DOMAIN Hashes : Hashes[i] = h

\* The leaves: sorted, without repeats.
Leaves(values) ==
  LET before(h) == Cardinality({g \in Range(values) : Place(g) < Place(h)})
  IN  [i \in 1..Cardinality(Range(values)) |->
         CHOOSE h \in Range(values) : before(h) = i - 1]

parent(i) == (i - 1) \div 2

\* build: _tree for the leaves.
Tree(leaves) ==
  LET n == Len(leaves)
      node[i \in 0..(2 * n - 2)] ==
        IF i >= n - 1 THEN leaves[i - n + 2]
        ELSE sortedHashPair(node[2 * i + 1], node[2 * i + 2])
  IN  node

root(values) == Tree(Leaves(values))[0]

\* getProof of the leaf with index i: the siblings on the way to the root.
getProof(values, i) ==
  LET leaves == Leaves(values)
      tree == Tree(leaves)
      proof[pos \in DOMAIN tree] ==
        IF pos = 0 THEN <<>>
        ELSE <<tree[pos + 2 * (pos % 2) - 1]>> \o proof[parent(pos)]
  IN  proof[Len(leaves) - 1 + i]

\* hashMap of the proof server: every leaf with its proof.
Proofs(values) ==
  LET leaves == Leaves(values)
  IN  [h \in Range(leaves) |->
         getProof(values, (CHOOSE j \in DOMAIN leaves : leaves[j] = h) - 1)]

verifyWithMerkleProof(leaf, proof, hash) ==
  LET climbed[k \in 0..Len(proof)] ==
        IF k = 0 THEN leaf ELSE sortedHashPair(proof[k], climbed[k - 1])
  IN  climbed[Len(proof)] = hash
=============================================================================
