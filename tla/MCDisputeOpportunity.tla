----------------------- MODULE MCDisputeOpportunity -----------------------
(* One statement, with the window and the pauses the cfg allows. *)
EXTENDS DisputeOpportunity

CONSTANTS owner, settlement, s1

MCAccounts == {owner, settlement, s1}
MCBalances == [a \in MCAccounts |-> 0]

=============================================================================
