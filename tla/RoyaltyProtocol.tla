-------------------------- MODULE RoyaltyProtocol --------------------------
(***************************************************************************)
(* The escrow and the settlement contract deployed together, as            *)
(* contracts/script/Deploy.s.sol and contracts/test/Integration.t.sol do:  *)
(* they share the token and their owner, and the only link between them is *)
(* the money that transferToSettlement moves.  Nothing on chain relates    *)
(* the statements the owner submits to the money that was drawn for them.  *)
(***************************************************************************)
EXTENDS Integers, FiniteSets, Functions

CONSTANTS
  Accounts, Owner, Escrow, Settlement, Brands, Suppliers, ZeroAddress,
  Receipts, StatementIds, Amounts, Windows,
  DEFAULT_DISPUTE_WINDOW, MAX_DISPUTE_WINDOW,
  Funders, RescueTargets, InitialBalances, MaxTime, MaxRescued

\* What the two contracts assume, of the same accounts: Deploy.s.sol gives each an
\* address of its own, and neither is a brand of the other.  A contract sends tokens
\* by its own calls only, so the escrow funds nobody.
ASSUME ProtocolAssumption ==
  /\ IsFiniteSet(Accounts) /\ IsFiniteSet(Receipts) /\ IsFiniteSet(StatementIds)
  /\ ZeroAddress \notin Accounts
  /\ Owner \in Accounts /\ Escrow \in Accounts /\ Settlement \in Accounts
  /\ Brands \subseteq Accounts /\ Suppliers \subseteq Accounts
  /\ Funders \subseteq Accounts /\ RescueTargets \subseteq Accounts
  /\ Escrow \notin Brands \cup {Settlement} \cup Funders /\ Settlement \notin Brands
  /\ Amounts \subseteq Nat /\ Windows \subseteq Nat
  /\ DEFAULT_DISPUTE_WINDOW \in Nat \ {0} /\ MAX_DISPUTE_WINDOW \in Nat
  /\ DEFAULT_DISPUTE_WINDOW <= MAX_DISPUTE_WINDOW
  /\ InitialBalances \in [Accounts -> Nat] /\ InitialBalances[Escrow] = 0
  /\ MaxTime \in Nat /\ MaxRescued \in Nat

VARIABLES
  usdc,
  \* the escrow
  settlementContract, brandBalances, pendingRecords, supplierPendingTotals,
  recordedReceipts, escrowPaused, billed, drawn, escrowRescued,
  \* the settlement contract
  now, disputeWindow, statements, claimableBalances, settlementPaused,
  claimed, shortestWindow, settlementRescued

escrowVars == <<settlementContract, brandBalances, pendingRecords,
                supplierPendingTotals, recordedReceipts, escrowPaused, billed,
                drawn, escrowRescued>>
settlementVars == <<now, disputeWindow, statements, claimableBalances,
                    settlementPaused, claimed, shortestWindow, settlementRescued>>
vars == <<usdc, escrowVars, settlementVars>>

EscrowContract == INSTANCE VerificationEscrow WITH
  Settlements <- {Settlement}, paused <- escrowPaused, rescued <- escrowRescued

SettlementContract == INSTANCE RoyaltySettlement WITH
  paused <- settlementPaused, rescued <- settlementRescued

Init == EscrowContract!Init /\ SettlementContract!Init

EscrowCall == EscrowContract!Next /\ UNCHANGED settlementVars
SettlementCall == SettlementContract!Next /\ UNCHANGED escrowVars

Next == EscrowCall \/ SettlementCall

Spec == Init /\ [][Next]_vars

-----------------------------------------------------------------------------
(* Properties                                                              *)

TypeOK == EscrowContract!TypeOK /\ SettlementContract!TypeOK

Sum(f, S) == SumFunctionOnSet(f, S)

\* The totals of the statements that are not disputed.
Committed ==
  [id \in StatementIds |-> IF statements[id].status \in {"Submitted", "Finalized"}
                           THEN statements[id].totalAmount ELSE 0]

\* As long as the owner rescues nothing from the settlement contract and never
\* submits statements for more than it has drawn from the escrow, the contract
\* can pay every claim.  The converse duty is nowhere in the contracts: they
\* rely on the owner for it.
SolventWhenCovered ==
  (/\ \A a \in Accounts : settlementRescued[a] = 0
   /\ Sum(Committed, StatementIds) <= Sum(drawn, Suppliers))
    => Sum(claimableBalances, Suppliers) <= usdc[Settlement]

\* Drawing money for settlement never costs a brand or the escrow anything that
\* was not billed, and the settlement contract received all of it.
DrawnMoneyArrives ==
  usdc[Settlement] + Sum(settlementRescued, Accounts \ {Settlement})
     + Sum(claimed, Suppliers)
    >= Sum(drawn, Suppliers)

=============================================================================
