------------------------- MODULE MCRoyaltyProtocol -------------------------
(* One brand, two suppliers, two receipts and two statements. *)
EXTENDS RoyaltyProtocol, TLC

CONSTANTS owner, escrow, settlement, b1, s1, s2

MCAccounts == {owner, escrow, settlement, b1, s1, s2}
MCBalances == [a \in MCAccounts |-> IF a = b1 THEN 3 ELSE 0]
MCSymmetry == Permutations({s1, s2}) \cup Permutations(Receipts)
                \cup Permutations(StatementIds)

=============================================================================
