------------------------ MODULE VerificationEscrow ------------------------
(***************************************************************************)
(* contracts/src/VerificationEscrow.sol.  Brands deposit USDC, the         *)
(* protocol owner records one verification per receipt (moving money from  *)
(* a brand to a supplier), and recorded money is drawn to the settlement   *)
(* contract.  One action is one external call that does not revert; every  *)
(* transaction is atomic.                                                  *)
(*                                                                         *)
(* billed, drawn and rescued are history variables.  The first two are     *)
(* what an indexer reads from the contract's VerificationRecorded and      *)
(* TransferredToSettlement events; rescued is what emergencyWithdraw sent  *)
(* to each account (the token's own Transfer events).                      *)
(***************************************************************************)
EXTENDS Integers, FiniteSets, Functions, Erc20

CONSTANTS
  Accounts,        \* every address that can hold the token
  Owner,           \* Ownable: the protocol owner
  Escrow,          \* address(this)
  Brands,          \* accounts that deposit
  Suppliers,       \* accounts that are paid royalties
  Settlements,     \* addresses the owner may configure as settlement contract
  RescueTargets,   \* accounts an emergency withdrawal is sent to
  ZeroAddress,     \* address(0)
  Receipts,        \* receipt ids
  Amounts,         \* amounts callers pass, in token units
  InitialBalances, \* token balances when the contract is deployed
  MaxRescued       \* bound: tokens emergencyWithdraw sends to one account

ASSUME EscrowAssumption ==
  /\ IsFiniteSet(Accounts) /\ IsFiniteSet(Receipts)
  /\ ZeroAddress \notin Accounts
  /\ Owner \in Accounts /\ Escrow \in Accounts
  /\ Brands \subseteq Accounts /\ Suppliers \subseteq Accounts
  /\ Settlements \subseteq Accounts /\ RescueTargets \subseteq Accounts
  \* The contract never calls itself, and the owner points it at a contract,
  \* which is neither the escrow nor one of the brands.
  /\ Escrow \notin Brands \cup Settlements
  /\ Brands \cap Settlements = {}
  /\ Amounts \subseteq Nat
  /\ InitialBalances \in [Accounts -> Nat]
  /\ InitialBalances[Escrow] = 0
  /\ MaxRescued \in Nat

VARIABLES
  usdc,                  \* the token's ledger
  settlementContract,
  brandBalances,
  pendingRecords,
  supplierPendingTotals,
  recordedReceipts,      \* the receipts mapped to true
  paused,                \* Pausable
  billed,                \* history: the bill recorded for each receipt
  drawn,                 \* history: total drawn to settlement per supplier
  rescued                \* history: total sent out by emergencyWithdraw

contractVars == <<settlementContract, brandBalances, pendingRecords,
                  supplierPendingTotals, recordedReceipts, paused>>
historyVars == <<billed, drawn, rescued>>
vars == <<usdc, contractVars, historyVars>>

Bill == [brand: Brands \cup {ZeroAddress},
         supplier: Suppliers \cup {ZeroAddress},
         amount: Nat]

NoBill == [brand |-> ZeroAddress, supplier |-> ZeroAddress, amount |-> 0]

TypeOK ==
  /\ usdc \in [Accounts -> Nat]
  /\ settlementContract \in Settlements \cup {ZeroAddress}
  /\ brandBalances \in [Brands -> Nat]
  /\ pendingRecords \in [Brands -> [Suppliers -> Nat]]
  /\ supplierPendingTotals \in [Suppliers -> Nat]
  /\ recordedReceipts \subseteq Receipts
  /\ paused \in BOOLEAN
  /\ billed \in [Receipts -> Bill]
  /\ drawn \in [Suppliers -> Nat]
  /\ rescued \in [Accounts -> Nat]

Init ==
  /\ usdc = InitialBalances
  /\ settlementContract = ZeroAddress
  /\ brandBalances = [b \in Brands |-> 0]
  /\ pendingRecords = [b \in Brands |-> [s \in Suppliers |-> 0]]
  /\ supplierPendingTotals = [s \in Suppliers |-> 0]
  /\ recordedReceipts = {}
  /\ paused = FALSE
  /\ billed = [r \in Receipts |-> NoBill]
  /\ drawn = [s \in Suppliers |-> 0]
  /\ rescued = [a \in Accounts |-> 0]

-----------------------------------------------------------------------------
(* Mutated operations.  No specification uses them: each is the bug that a  *)
(* property below must notice when it takes the place of the operation.     *)

\* recordVerification without the recordedReceipts check.
RecordVerificationAgain(caller, brand, supplier, amount, receipt) ==
  /\ caller = Owner /\ ~paused /\ amount > 0
  /\ brandBalances[brand] >= amount
  /\ recordedReceipts' = recordedReceipts \cup {receipt}
  /\ brandBalances' = [brandBalances EXCEPT ![brand] = @ - amount]
  /\ pendingRecords' = [pendingRecords EXCEPT ![brand][supplier] = @ + amount]
  /\ supplierPendingTotals' = [supplierPendingTotals EXCEPT ![supplier] = @ + amount]
  /\ billed' = [billed EXCEPT ![receipt] =
                  [brand |-> brand, supplier |-> supplier, amount |-> amount]]
  /\ UNCHANGED <<usdc, settlementContract, paused, drawn, rescued>>

\* transferToSettlement that leaves the supplier's pending total alone.
TransferWithoutDebit(caller, supplier, amount) ==
  /\ ~paused /\ settlementContract # ZeroAddress
  /\ caller \in {settlementContract, Owner}
  /\ amount > 0 /\ supplierPendingTotals[supplier] >= amount
  /\ Covers(usdc, Escrow, amount)
  /\ usdc' = Transfer(usdc, Escrow, settlementContract, amount)
  /\ drawn' = [drawn EXCEPT ![supplier] = @ + amount]
  /\ UNCHANGED <<contractVars, billed, rescued>>

\* transferToSettlement that pays its caller.
TransferToCaller(caller, supplier, amount) ==
  /\ ~paused /\ settlementContract # ZeroAddress
  /\ caller \in {settlementContract, Owner}
  /\ amount > 0 /\ supplierPendingTotals[supplier] >= amount
  /\ Covers(usdc, Escrow, amount)
  /\ supplierPendingTotals' = [supplierPendingTotals EXCEPT ![supplier] = @ - amount]
  /\ usdc' = Transfer(usdc, Escrow, caller, amount)
  /\ drawn' = [drawn EXCEPT ![supplier] = @ + amount]
  /\ UNCHANGED <<settlementContract, brandBalances, pendingRecords,
                 recordedReceipts, paused, billed, rescued>>

\* withdraw that does not look at the brand's balance.
WithdrawUnchecked(brand, amount) ==
  /\ ~paused /\ amount > 0
  /\ Covers(usdc, Escrow, amount)
  /\ brandBalances' = [brandBalances EXCEPT ![brand] = @ - amount]
  /\ usdc' = Transfer(usdc, Escrow, brand, amount)
  /\ UNCHANGED <<settlementContract, pendingRecords, supplierPendingTotals,
                 recordedReceipts, paused, historyVars>>

\* withdraw that pays out and keeps the balance.
WithdrawWithoutDebit(brand, amount) ==
  /\ ~paused /\ amount > 0 /\ brandBalances[brand] >= amount
  /\ Covers(usdc, Escrow, amount)
  /\ usdc' = Transfer(usdc, Escrow, brand, amount)
  /\ UNCHANGED <<contractVars, historyVars>>

-----------------------------------------------------------------------------
(* External calls.  caller is msg.sender.                                  *)

SetSettlementContract(caller, target) ==
  /\ caller = Owner
  /\ target # ZeroAddress
  /\ settlementContract' = target
  /\ UNCHANGED <<usdc, brandBalances, pendingRecords, supplierPendingTotals,
                 recordedReceipts, paused, historyVars>>

Deposit(brand, amount) ==
  /\ ~paused
  /\ amount > 0
  /\ Covers(usdc, brand, amount)
  /\ usdc' = Transfer(usdc, brand, Escrow, amount)
  /\ brandBalances' = [brandBalances EXCEPT ![brand] = @ + amount]
  /\ UNCHANGED <<settlementContract, pendingRecords, supplierPendingTotals,
                 recordedReceipts, paused, historyVars>>

RecordVerification(caller, brand, supplier, amount, receipt) ==
  /\ caller = Owner
  /\ ~paused
  /\ brand # ZeroAddress /\ supplier # ZeroAddress
  /\ amount > 0
  /\ receipt \notin recordedReceipts
  /\ brandBalances[brand] >= amount
  /\ recordedReceipts' = recordedReceipts \cup {receipt}
  /\ brandBalances' = [brandBalances EXCEPT ![brand] = @ - amount]
  /\ pendingRecords' = [pendingRecords EXCEPT ![brand][supplier] = @ + amount]
  /\ supplierPendingTotals' = [supplierPendingTotals EXCEPT ![supplier] = @ + amount]
  /\ billed' = [billed EXCEPT ![receipt] =
                  [brand |-> brand, supplier |-> supplier, amount |-> amount]]
  /\ UNCHANGED <<usdc, settlementContract, paused, drawn, rescued>>

TransferToSettlement(caller, supplier, amount) ==
  /\ ~paused
  /\ settlementContract # ZeroAddress
  /\ caller \in {settlementContract, Owner}
  /\ supplier # ZeroAddress
  /\ amount > 0
  /\ supplierPendingTotals[supplier] >= amount
  /\ Covers(usdc, Escrow, amount)
  /\ supplierPendingTotals' = [supplierPendingTotals EXCEPT ![supplier] = @ - amount]
  /\ usdc' = Transfer(usdc, Escrow, settlementContract, amount)
  /\ drawn' = [drawn EXCEPT ![supplier] = @ + amount]
  /\ UNCHANGED <<settlementContract, brandBalances, pendingRecords,
                 recordedReceipts, paused, billed, rescued>>

Withdraw(brand, amount) ==
  /\ ~paused
  /\ amount > 0
  /\ brandBalances[brand] >= amount
  /\ Covers(usdc, Escrow, amount)
  /\ brandBalances' = [brandBalances EXCEPT ![brand] = @ - amount]
  /\ usdc' = Transfer(usdc, Escrow, brand, amount)
  /\ UNCHANGED <<settlementContract, pendingRecords, supplierPendingTotals,
                 recordedReceipts, paused, historyVars>>

Pause(caller) ==
  /\ caller = Owner
  /\ ~paused
  /\ paused' = TRUE
  /\ UNCHANGED <<usdc, settlementContract, brandBalances, pendingRecords,
                 supplierPendingTotals, recordedReceipts, historyVars>>

Unpause(caller) ==
  /\ caller = Owner
  /\ paused
  /\ paused' = FALSE
  /\ UNCHANGED <<usdc, settlementContract, brandBalances, pendingRecords,
                 supplierPendingTotals, recordedReceipts, historyVars>>

EmergencyWithdraw(caller, to, amount) ==
  /\ caller = Owner
  /\ to # ZeroAddress
  /\ Covers(usdc, Escrow, amount)
  /\ rescued[to] + amount <= MaxRescued
  /\ usdc' = Transfer(usdc, Escrow, to, amount)
  /\ rescued' = [rescued EXCEPT ![to] = @ + amount]
  /\ UNCHANGED <<contractVars, billed, drawn>>

-----------------------------------------------------------------------------
Next ==
  \/ \E caller \in Accounts, target \in Settlements \cup {ZeroAddress} :
        SetSettlementContract(caller, target)
  \/ \E brand \in Brands, amount \in Amounts : Deposit(brand, amount)
  \/ \E caller \in Accounts, brand \in Brands, supplier \in Suppliers,
        amount \in Amounts, receipt \in Receipts :
        RecordVerification(caller, brand, supplier, amount, receipt)
  \/ \E caller \in Accounts, supplier \in Suppliers, amount \in Amounts :
        TransferToSettlement(caller, supplier, amount)
  \/ \E brand \in Brands, amount \in Amounts : Withdraw(brand, amount)
  \/ \E caller \in Accounts : Pause(caller) \/ Unpause(caller)
  \/ \E caller \in Accounts, to \in RescueTargets, amount \in Amounts :
        EmergencyWithdraw(caller, to, amount)

Spec == Init /\ [][Next]_vars

-----------------------------------------------------------------------------
(* Properties                                                              *)

Sum(f, S) == SumFunctionOnSet(f, S)

BilledTo(brand, supplier) ==
  [r \in Receipts |-> IF billed[r].brand = brand /\ billed[r].supplier = supplier
                      THEN billed[r].amount ELSE 0]

PendingFrom(supplier) == [b \in Brands |-> pendingRecords[b][supplier]]

\* The escrow's token balance, plus what emergencyWithdraw took out of it, is
\* exactly what it owes: the unspent balances of all brands and the pending
\* totals of all suppliers.  Without emergency withdrawals no withdraw() and no
\* transferToSettlement() that passes its own check can fail in the token, and
\* no deposited money is stuck without an owner.
Backed ==
  usdc[Escrow] + Sum(rescued, Accounts \ {Escrow})
    = Sum(brandBalances, Brands) + Sum(supplierPendingTotals, Suppliers)

\* No receipt is billed twice: the audit trail kept per brand and supplier is
\* the sum of the bills of the receipts recorded for them, one bill each.
EachReceiptBilledOnce ==
  \A b \in Brands, s \in Suppliers :
     pendingRecords[b][s] = Sum(BilledTo(b, s), Receipts)

\* A brand's money is conserved: wallet, unspent deposit and everything ever
\* billed to it add up to what it started with (and what the owner rescued to
\* it).  Only recordVerification can take a brand's money.
BrandMoneyConserved ==
  \A b \in Brands :
     usdc[b] + brandBalances[b] + Sum(pendingRecords[b], Suppliers)
       = InitialBalances[b] + rescued[b]

\* What is pending for a supplier and what was drawn for it to the settlement
\* contract is what its brands were billed for it: money recorded for one
\* supplier is never drawn for another.
PendingMatchesBills ==
  \A s \in Suppliers :
     supplierPendingTotals[s] + drawn[s] = Sum(PendingFrom(s), Brands)

=============================================================================
