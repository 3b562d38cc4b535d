----------------------------- MODULE MerkleTree -----------------------------
(***************************************************************************)
(* crates/commitments/src/merkle.rs: the tree over the hashes of the       *)
(* claims of a commitment, its proofs and their verification, which the    *)
(* circuits repeat.  Hashes do not collide: a hash is what was hashed.     *)
(* Indices of leaves start from 0 as they do in the code, sequences from 1.*)
(***************************************************************************)
EXTENDS Naturals, Sequences

\* In the order given: the sorting that its comment speaks of is not done.
HashPair(left, right) == <<left, right>>

\* An odd last node is paired with itself.
LevelAbove(level) ==
  [i \in 1..((Len(level) + 1) \div 2) |->
     HashPair(level[2*i - 1], level[IF 2*i <= Len(level) THEN 2*i ELSE 2*i - 1])]

\* The levels of the tree, from the leaves up.
Nodes(leaves) ==
  LET level[h \in 0..Len(leaves)] == IF h = 0 THEN leaves ELSE LevelAbove(level[h - 1])
  IN  level

\* The loop over the levels stops at the first that has one node only.
Depth(leaves) ==
  CHOOSE d \in 0..Len(leaves) :
    Len(Nodes(leaves)[d]) = 1 /\ \A e \in 0..(d - 1) : Len(Nodes(leaves)[e]) > 1

MerkleRoot(leaves) == Nodes(leaves)[Depth(leaves)][1]

\* The sibling of node k among the nodes of a level: itself when it has none.
SiblingIndex(k, size) ==
  IF k % 2 = 1 THEN k - 1 ELSE IF k + 1 < size THEN k + 1 ELSE k

\* The nodes above a leaf, one of each level.
Ancestors(leaves, index) ==
  LET at[h \in 0..Len(leaves)] == IF h = 0 THEN index ELSE at[h - 1] \div 2
  IN  at

Prove(leaves, index) ==
  LET nodes == Nodes(leaves)
      at == Ancestors(leaves, index)
      levels == 1..Depth(leaves)
  IN  [leaf    |-> leaves[index + 1],
       path    |-> [h \in levels |->
                      nodes[h - 1][SiblingIndex(at[h - 1], Len(nodes[h - 1])) + 1]],
       indices |-> [h \in levels |-> at[h - 1] % 2]]

\* The hashes that a proof is a path over, from its leaf up.
Hashes(leaf, path, indices) ==
  LET current[h \in 0..Len(path)] ==
        IF h = 0 THEN leaf
        ELSE IF indices[h] = 0 THEN HashPair(current[h - 1], path[h])
             ELSE HashPair(path[h], current[h - 1])
  IN  current

VerifyMerkleProof(leaf, path, indices, root) ==
  Len(path) = Len(indices) /\ Hashes(leaf, path, indices)[Len(path)] = root

=============================================================================
