------------------------- MODULE MCSettlementService -------------------------
(* Instances of SettlementService for TLC.  Requests, statements and wallets *)
(* are only compared, so they are interchangeable.                           *)
EXTENDS SettlementService, TLC

CONSTANTS q1, q2, q3, i1, i2, s1, s2

MCSymmetry == Permutations({q1, q2, q3}) \cup Permutations({i1, i2})
                \cup Permutations({s1, s2})

=============================================================================
