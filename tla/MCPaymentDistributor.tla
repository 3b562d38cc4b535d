----------------------- MODULE MCPaymentDistributor -----------------------
(* A small instance of PaymentDistributor for TLC, with the contract's own
   fee constants and amounts whose fees are rounded down. *)
EXTENDS PaymentDistributor

CONSTANTS owner, distributor, payer, s1, g1, g2, t1, t2

MCAccounts == {owner, distributor, payer, s1, g1, g2, t1, t2}
MCBalances == [a \in MCAccounts |-> IF a = payer THEN 600 ELSE 0]

=============================================================================
