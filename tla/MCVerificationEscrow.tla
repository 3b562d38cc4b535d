----------------------- MODULE MCVerificationEscrow -----------------------
(* A small instance of VerificationEscrow for TLC. *)
EXTENDS VerificationEscrow, TLC

CONSTANTS owner, escrow, b1, b2, s1, s2, st1

MCAccounts == {owner, escrow, b1, b2, s1, s2, st1}
MCBalances == [a \in MCAccounts |-> CASE a = b1 -> 3 [] a = b2 -> 2 [] OTHER -> 0]
MCSymmetry == Permutations({s1, s2}) \cup Permutations(Receipts)

=============================================================================
