----------------------------- MODULE MCEdgeAgent -----------------------------
(* Two claims, of which the second is of a type that no circuit knows, from    *)
(* one document; two invocations in flight.                                    *)
EXTENDS EdgeAgent, TLC

CONSTANTS certificate, c1, c2, s1, s2

MCSymmetry == Permutations({s1, s2})

\* The tree by itself: every leaf of a tree of up to nine leaves is proved, and no
\* other leaf is proved in its place.
ASSUME TreeProves ==
  \A n \in 1..9 :
    LET leaves == [i \in 1..n |-> <<"claim", i, 0>>]
    IN  \A i, j \in 0..(n - 1) :
          LET proof == Prove(leaves, i)
          IN  VerifyMerkleProof(leaves[j + 1], proof.path, proof.indices, MerkleRoot(leaves))
                <=> i = j

\* A tree of depth d holds 2^d leaves.
ASSUME DepthHolds ==
  \A n \in 1..17, d \in 0..5 : Depth([i \in 1..n |-> <<"claim", i, 0>>]) <= d <=> n <= 2^d

=============================================================================
