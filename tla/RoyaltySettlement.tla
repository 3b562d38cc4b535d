------------------------- MODULE RoyaltySettlement -------------------------
(***************************************************************************)
(* contracts/src/RoyaltySettlement.sol.  The owner submits statements, the *)
(* supplier of a statement may dispute it inside the dispute window,       *)
(* anyone may finalize it after the window, and a supplier claims what its *)
(* finalized statements credited.  One action is one external call that    *)
(* does not revert; Tick advances block.timestamp between transactions.    *)
(* statementHash is opaque to the contract and left out.                   *)
(*                                                                         *)
(* claimed, shortestWindow and rescued are history variables: the sum of   *)
(* the PaymentClaimed events of a supplier, the shortest window in force   *)
(* since a statement was submitted, and what emergencyWithdraw sent out.   *)
(***************************************************************************)
EXTENDS Integers, FiniteSets, Functions, Erc20

CONSTANTS
  Accounts,               \* every address that can hold the token
  Owner,                  \* Ownable: the protocol owner
  Settlement,             \* address(this)
  Suppliers,
  ZeroAddress,            \* address(0)
  StatementIds,
  Amounts,                \* amounts callers pass, in token units
  Windows,                \* durations the owner passes to setDisputeWindow
  DEFAULT_DISPUTE_WINDOW, \* 24 hours
  MAX_DISPUTE_WINDOW,     \* 7 days
  Funders,                \* accounts that send tokens to the contract
  RescueTargets,          \* accounts an emergency withdrawal is sent to
  InitialBalances,        \* token balances when the contract is deployed
  MaxTime,                \* bound: the last block timestamp
  MaxRescued              \* bound: tokens emergencyWithdraw sends to one account

ASSUME SettlementAssumption ==
  /\ IsFiniteSet(Accounts) /\ IsFiniteSet(StatementIds)
  /\ ZeroAddress \notin Accounts
  /\ Owner \in Accounts /\ Settlement \in Accounts
  /\ Suppliers \subseteq Accounts
  /\ Funders \subseteq Accounts /\ RescueTargets \subseteq Accounts
  /\ Amounts \subseteq Nat /\ Windows \subseteq Nat
  /\ DEFAULT_DISPUTE_WINDOW \in Nat \ {0} /\ MAX_DISPUTE_WINDOW \in Nat
  /\ DEFAULT_DISPUTE_WINDOW <= MAX_DISPUTE_WINDOW
  /\ InitialBalances \in [Accounts -> Nat]
  /\ MaxTime \in Nat /\ MaxRescued \in Nat

VARIABLES
  usdc,               \* the token's ledger
  now,                \* block.timestamp
  disputeWindow,
  statements,
  claimableBalances,
  paused,             \* Pausable
  claimed,            \* history: total paid out per supplier
  shortestWindow,     \* history: shortest window since submission, per statement
  rescued             \* history: total sent out by emergencyWithdraw

contractVars == <<disputeWindow, statements, claimableBalances, paused>>
historyVars == <<claimed, shortestWindow, rescued>>
vars == <<usdc, now, contractVars, historyVars>>

\* StatementStatus.Paid exists in the interface and no code sets it.
Statuses == {"None", "Submitted", "Disputed", "Finalized", "Paid"}

Statement == [status: Statuses,
              supplier: Suppliers \cup {ZeroAddress},
              totalAmount: Nat,
              submittedAt: Nat,
              finalizedAt: Nat]

NoStatement == [status |-> "None", supplier |-> ZeroAddress, totalAmount |-> 0,
                submittedAt |-> 0, finalizedAt |-> 0]

TypeOK ==
  /\ usdc \in [Accounts -> Nat]
  /\ now \in Nat
  /\ disputeWindow \in 1..MAX_DISPUTE_WINDOW
  /\ statements \in [StatementIds -> Statement]
  /\ claimableBalances \in [Suppliers -> Nat]
  /\ paused \in BOOLEAN
  /\ claimed \in [Suppliers -> Nat]
  /\ shortestWindow \in [StatementIds -> Nat]
  /\ rescued \in [Accounts -> Nat]

Init ==
  /\ usdc = InitialBalances
  /\ now = 1
  /\ disputeWindow = DEFAULT_DISPUTE_WINDOW
  /\ statements = [id \in StatementIds |-> NoStatement]
  /\ claimableBalances = [s \in Suppliers |-> 0]
  /\ paused = FALSE
  /\ claimed = [s \in Suppliers |-> 0]
  /\ shortestWindow = [id \in StatementIds |-> 0]
  /\ rescued = [a \in Accounts |-> 0]

\* Mutated form of WindowEnd: the window closes one second early.
WindowEndEarly(id) == statements[id].submittedAt + disputeWindow - 1

Submitted(id) == statements[id].status = "Submitted"
WindowEnd(id) == statements[id].submittedAt + disputeWindow

-----------------------------------------------------------------------------
(* Mutated operations.  No specification uses them: each is the bug that a  *)
(* property below must notice when it takes the place of the operation.     *)

\* finalizeStatement that only asks that the statement exists.
FinalizeAgain(id) ==
  /\ ~paused
  /\ statements[id].status # "None"
  /\ now >= WindowEnd(id)
  /\ statements' = [statements EXCEPT ![id].status = "Finalized",
                                      ![id].finalizedAt = now]
  /\ claimableBalances' = [claimableBalances EXCEPT
                             ![statements[id].supplier] = @ + statements[id].totalAmount]
  /\ UNCHANGED <<usdc, now, disputeWindow, paused, historyVars>>

\* disputeStatement that still accepts the first second after the window.
DisputeLate(caller, id) ==
  /\ ~paused /\ statements[id].supplier = caller
  /\ Submitted(id)
  /\ now <= WindowEnd(id)
  /\ statements' = [statements EXCEPT ![id].status = "Disputed"]
  /\ UNCHANGED <<usdc, now, disputeWindow, claimableBalances, paused, historyVars>>

\* disputeStatement that takes back a finalized statement.
DisputeFinalized(caller, id) ==
  /\ ~paused /\ statements[id].supplier = caller
  /\ now < WindowEnd(id) \/ statements[id].status = "Finalized"
  /\ statements' = [statements EXCEPT ![id].status = "Disputed"]
  /\ UNCHANGED <<usdc, now, disputeWindow, claimableBalances, paused, historyVars>>

\* setDisputeWindow without the upper bound.
SetDisputeWindowUncapped(caller, newWindow) ==
  /\ caller = Owner /\ newWindow # 0
  /\ disputeWindow' = newWindow
  /\ shortestWindow' = [id \in StatementIds |->
        IF Submitted(id) /\ newWindow < shortestWindow[id]
        THEN newWindow ELSE shortestWindow[id]]
  /\ UNCHANGED <<usdc, now, statements, claimableBalances, paused, claimed, rescued>>

-----------------------------------------------------------------------------
(* External calls.  caller is msg.sender.                                  *)

SubmitStatement(caller, id, supplier, totalAmount) ==
  /\ caller = Owner
  /\ ~paused
  /\ statements[id].status = "None"
  /\ supplier # ZeroAddress
  /\ totalAmount # 0
  /\ statements' = [statements EXCEPT ![id] =
        [status |-> "Submitted", supplier |-> supplier, totalAmount |-> totalAmount,
         submittedAt |-> now, finalizedAt |-> 0]]
  /\ shortestWindow' = [shortestWindow EXCEPT ![id] = disputeWindow]
  /\ UNCHANGED <<usdc, now, disputeWindow, claimableBalances, paused, claimed, rescued>>

FinalizeStatement(id) ==
  /\ ~paused
  /\ Submitted(id)
  /\ now >= WindowEnd(id)
  /\ statements' = [statements EXCEPT ![id].status = "Finalized",
                                      ![id].finalizedAt = now]
  /\ claimableBalances' = [claimableBalances EXCEPT
                             ![statements[id].supplier] = @ + statements[id].totalAmount]
  /\ UNCHANGED <<usdc, now, disputeWindow, paused, historyVars>>

DisputeStatement(caller, id) ==
  /\ ~paused
  /\ statements[id].supplier = caller
  /\ Submitted(id)
  /\ now < WindowEnd(id)
  /\ statements' = [statements EXCEPT ![id].status = "Disputed"]
  /\ UNCHANGED <<usdc, now, disputeWindow, claimableBalances, paused, historyVars>>

ClaimPayment(caller) ==
  LET amount == claimableBalances[caller] IN
  /\ ~paused
  /\ amount # 0
  /\ Covers(usdc, Settlement, amount)
  /\ claimableBalances' = [claimableBalances EXCEPT ![caller] = 0]
  /\ usdc' = Transfer(usdc, Settlement, caller, amount)
  /\ claimed' = [claimed EXCEPT ![caller] = @ + amount]
  /\ UNCHANGED <<now, disputeWindow, statements, paused, shortestWindow, rescued>>

SetDisputeWindow(caller, newWindow) ==
  /\ caller = Owner
  /\ newWindow # 0 /\ newWindow <= MAX_DISPUTE_WINDOW
  /\ disputeWindow' = newWindow
  /\ shortestWindow' = [id \in StatementIds |->
        IF Submitted(id) /\ newWindow < shortestWindow[id]
        THEN newWindow ELSE shortestWindow[id]]
  /\ UNCHANGED <<usdc, now, statements, claimableBalances, paused, claimed, rescued>>

Pause(caller) ==
  /\ caller = Owner
  /\ ~paused
  /\ paused' = TRUE
  /\ UNCHANGED <<usdc, now, disputeWindow, statements, claimableBalances, historyVars>>

Unpause(caller) ==
  /\ caller = Owner
  /\ paused
  /\ paused' = FALSE
  /\ UNCHANGED <<usdc, now, disputeWindow, statements, claimableBalances, historyVars>>

EmergencyWithdraw(caller, to, amount) ==
  /\ caller = Owner
  /\ to # ZeroAddress
  /\ Covers(usdc, Settlement, amount)
  /\ rescued[to] + amount <= MaxRescued
  /\ usdc' = Transfer(usdc, Settlement, to, amount)
  /\ rescued' = [rescued EXCEPT ![to] = @ + amount]
  /\ UNCHANGED <<now, contractVars, claimed, shortestWindow>>

(* The environment: blocks are mined, and tokens are sent to the contract. *)

Tick ==
  /\ now < MaxTime
  /\ now' = now + 1
  /\ UNCHANGED <<usdc, contractVars, historyVars>>

Fund(from, amount) ==
  /\ amount > 0
  /\ Covers(usdc, from, amount)
  /\ usdc' = Transfer(usdc, from, Settlement, amount)
  /\ UNCHANGED <<now, contractVars, historyVars>>

-----------------------------------------------------------------------------
Next ==
  \/ \E caller \in Accounts, id \in StatementIds,
        supplier \in Suppliers, amount \in Amounts :
        SubmitStatement(caller, id, supplier, amount)
  \/ \E id \in StatementIds : FinalizeStatement(id)
  \/ \E caller \in Accounts, id \in StatementIds : DisputeStatement(caller, id)
  \/ \E caller \in Suppliers : ClaimPayment(caller)
  \/ \E caller \in Accounts, window \in Windows : SetDisputeWindow(caller, window)
  \/ \E caller \in Accounts : Pause(caller) \/ Unpause(caller)
  \/ \E caller \in Accounts, to \in RescueTargets, amount \in Amounts :
        EmergencyWithdraw(caller, to, amount)
  \/ Tick
  \/ \E from \in Funders, amount \in Amounts : Fund(from, amount)

Spec == Init /\ [][Next]_vars

\* Blocks keep being mined, a pause is eventually lifted, and for every
\* statement somebody keeps calling finalizeStatement: the call is open to
\* anyone and a credited supplier has every reason to make it.  It is strongly
\* fair because the owner may pause and unpause for ever.
Fairness ==
  /\ WF_vars(Tick)
  /\ WF_vars(Unpause(Owner))
  /\ \A id \in StatementIds : SF_vars(FinalizeStatement(id))

-----------------------------------------------------------------------------
(* View functions.                                                         *)

IsFinalizable(id) == Submitted(id) /\ now >= WindowEnd(id)

RemainingDisputeTime(id) ==
  IF ~Submitted(id) \/ now >= WindowEnd(id) THEN 0 ELSE WindowEnd(id) - now

-----------------------------------------------------------------------------
(* Properties                                                              *)

FinalizedFor(supplier) ==
  [id \in StatementIds |->
     IF statements[id].status = "Finalized" /\ statements[id].supplier = supplier
     THEN statements[id].totalAmount ELSE 0]

\* Every finalized statement is credited exactly once and every claim pays what
\* was credited: what a supplier can still claim and what it has claimed add up
\* to the totals of its finalized statements.  Disputed statements never count.
CreditedOnce ==
  \A s \in Suppliers :
     claimableBalances[s] + claimed[s]
       = SumFunctionOnSet(FinalizedFor(s), StatementIds)

\* A finalized statement waited at least the shortest window that was in force
\* at some moment since its submission.  setDisputeWindow applies to statements
\* that are already open, so nothing stronger holds.
WindowWaited ==
  \A id \in StatementIds :
     statements[id].status = "Finalized" =>
        statements[id].finalizedAt >= statements[id].submittedAt + shortestWindow[id]

\* At every timestamp an open statement can be disputed by its supplier or
\* finalized, never both and never neither, and the views that the billing
\* service asks first (isFinalizable, getRemainingDisputeTime) say which.
DisputeOrFinalize ==
  \A id \in StatementIds :
     Submitted(id) /\ ~paused =>
        /\ IsFinalizable(id) <=> ENABLED FinalizeStatement(id)
        /\ RemainingDisputeTime(id) > 0
             <=> ENABLED DisputeStatement(statements[id].supplier, id)
        /\ IsFinalizable(id) <=> RemainingDisputeTime(id) = 0

\* The owner cannot keep a statement from being finalized by moving the window:
\* once MAX_DISPUTE_WINDOW has passed the statement is finalizable, or was
\* disputed or finalized.
NotHeldOpen ==
  \A id \in StatementIds :
     Submitted(id) /\ now >= statements[id].submittedAt + MAX_DISPUTE_WINDOW
       => IsFinalizable(id)

\* The contract implements the abstract ledger: opening, contesting, crediting
\* and paying out are the only things its calls ever do to a statement or to a
\* supplier's account.
PhaseOf(status) ==
  CASE status = "None" -> "none"
    [] status = "Submitted" -> "open"
    [] status = "Disputed" -> "contested"
    [] status = "Finalized" -> "credited"
    [] status = "Paid" -> "credited"

Ledger == INSTANCE RoyaltyLedger WITH
  phase <- [id \in StatementIds |-> PhaseOf(statements[id].status)],
  terms <- [id \in StatementIds |-> [supplier |-> statements[id].supplier,
                                     amount |-> statements[id].totalAmount]],
  owed <- claimableBalances,
  paid <- claimed

ImplementsLedger == Ledger!LedgerSpec

=============================================================================
