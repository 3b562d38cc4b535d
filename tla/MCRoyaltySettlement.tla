------------------------ MODULE MCRoyaltySettlement ------------------------
(* A small instance of RoyaltySettlement for TLC. *)
EXTENDS RoyaltySettlement, TLC

CONSTANTS owner, settlement, s1, s2, FunderBalance

MCAccounts == {owner, settlement, s1, s2}
MCBalances == [a \in MCAccounts |-> IF a = owner THEN FunderBalance ELSE 0]
MCSymmetry == Permutations({s1, s2}) \cup Permutations(StatementIds)

=============================================================================
