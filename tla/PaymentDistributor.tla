------------------------ MODULE PaymentDistributor ------------------------
(***************************************************************************)
(* contracts/src/PaymentDistributor.sol.  distribute() takes a payment     *)
(* from its caller, pays the supplier at once and keeps the protocol's and *)
(* the gateway's fees, in basis points rounded down, until they are        *)
(* claimed.  Claims are not stopped by a pause.                            *)
(*                                                                         *)
(* gatewayEarned, gatewayClaimed and rescued are history variables: sums   *)
(* of the PaymentDistributed and GatewayFeesClaimed events per gateway,    *)
(* and what emergencyWithdraw sent out.                                    *)
(***************************************************************************)
EXTENDS Integers, FiniteSets, Functions, Erc20

CONSTANTS
  Accounts,                 \* every address that can hold the token
  Owner,                    \* Ownable: the protocol owner
  Distributor,              \* address(this)
  Payers,                   \* accounts that call distribute
  Suppliers,
  Gateways,                 \* gateway operators
  Treasuries,               \* addresses the owner uses as protocol treasury
  ZeroAddress,              \* address(0)
  Amounts,                  \* amounts callers pass, in token units
  Fees,                     \* fees in basis points the owner passes to setFees
  BPS_DENOMINATOR,
  MAX_TOTAL_FEE_BPS,
  DEFAULT_PROTOCOL_FEE_BPS,
  DEFAULT_GATEWAY_FEE_BPS,
  InitialTreasury,
  RescueTargets,            \* accounts an emergency withdrawal is sent to
  RescueAmounts,            \* amounts of emergency withdrawals
  InitialBalances,          \* token balances when the contract is deployed
  MaxRescued                \* bound: tokens emergencyWithdraw sends to one account

ASSUME DistributorAssumption ==
  /\ IsFiniteSet(Accounts)
  /\ ZeroAddress \notin Accounts
  /\ Owner \in Accounts /\ Distributor \in Accounts
  /\ Payers \subseteq Accounts /\ Suppliers \subseteq Accounts
  /\ Gateways \subseteq Accounts /\ RescueTargets \subseteq Accounts
  /\ Treasuries \subseteq Accounts /\ InitialTreasury \in Treasuries
  \* The contract calls none of its own functions; the fees it holds are
  \* claimed by accounts other than itself, and it pays no royalties to itself.
  /\ Distributor \notin Payers \cup Suppliers \cup Gateways \cup Treasuries
  /\ Amounts \subseteq Nat /\ RescueAmounts \subseteq Nat /\ Fees \subseteq Nat
  /\ BPS_DENOMINATOR \in Nat \ {0}
  /\ MAX_TOTAL_FEE_BPS \in Nat /\ MAX_TOTAL_FEE_BPS <= BPS_DENOMINATOR
  /\ DEFAULT_PROTOCOL_FEE_BPS \in Nat /\ DEFAULT_GATEWAY_FEE_BPS \in Nat
  /\ DEFAULT_PROTOCOL_FEE_BPS + DEFAULT_GATEWAY_FEE_BPS <= MAX_TOTAL_FEE_BPS
  /\ InitialBalances \in [Accounts -> Nat]
  /\ InitialBalances[Distributor] = 0
  /\ MaxRescued \in Nat

VARIABLES
  usdc,                     \* the token's ledger
  protocolTreasury,
  protocolFeeBps,
  gatewayFeeBps,
  accumulatedProtocolFees,
  accumulatedGatewayFees,
  paused,                   \* Pausable
  gatewayEarned,            \* history: fees announced per gateway
  gatewayClaimed,           \* history: fees paid out per gateway
  rescued                   \* history: total sent out by emergencyWithdraw

configVars == <<protocolTreasury, protocolFeeBps, gatewayFeeBps, paused>>
feeVars == <<accumulatedProtocolFees, accumulatedGatewayFees>>
historyVars == <<gatewayEarned, gatewayClaimed, rescued>>
vars == <<usdc, configVars, feeVars, historyVars>>

TypeOK ==
  /\ usdc \in [Accounts -> Nat]
  /\ protocolTreasury \in Treasuries
  /\ protocolFeeBps \in Nat /\ gatewayFeeBps \in Nat
  /\ accumulatedProtocolFees \in Nat
  /\ accumulatedGatewayFees \in [Gateways -> Nat]
  /\ paused \in BOOLEAN
  /\ gatewayEarned \in [Gateways -> Nat]
  /\ gatewayClaimed \in [Gateways -> Nat]
  /\ rescued \in [Accounts -> Nat]

Init ==
  /\ usdc = InitialBalances
  /\ protocolTreasury = InitialTreasury
  /\ protocolFeeBps = DEFAULT_PROTOCOL_FEE_BPS
  /\ gatewayFeeBps = DEFAULT_GATEWAY_FEE_BPS
  /\ accumulatedProtocolFees = 0
  /\ accumulatedGatewayFees = [g \in Gateways |-> 0]
  /\ paused = FALSE
  /\ gatewayEarned = [g \in Gateways |-> 0]
  /\ gatewayClaimed = [g \in Gateways |-> 0]
  /\ rescued = [a \in Accounts |-> 0]

-----------------------------------------------------------------------------
(* calculateFees.                                                          *)

FeeOf(amount, bps) == (amount * bps) \div BPS_DENOMINATOR
ProtocolFee(amount) == FeeOf(amount, protocolFeeBps)
GatewayFee(amount) == FeeOf(amount, gatewayFeeBps)
SupplierAmount(amount) == amount - ProtocolFee(amount) - GatewayFee(amount)

-----------------------------------------------------------------------------
(* Mutated operations.  No specification uses them: each is the bug that a  *)
(* property below must notice when it takes the place of the operation.     *)

\* distribute that forgets the gateway fee of a payment without a gateway.
DistributeLosingFee(caller, supplier, amount, gateway) ==
  /\ ~paused /\ amount # 0 /\ Covers(usdc, caller, amount)
  /\ usdc' = Transfer(Transfer(usdc, caller, Distributor, amount),
                      Distributor, supplier, SupplierAmount(amount))
  /\ accumulatedProtocolFees' = accumulatedProtocolFees + ProtocolFee(amount)
  /\ accumulatedGatewayFees' =
        [g \in Gateways |-> accumulatedGatewayFees[g]
           + (IF g = gateway THEN GatewayFee(amount) ELSE 0)]
  /\ gatewayEarned' =
        [g \in Gateways |-> gatewayEarned[g]
           + (IF g = gateway THEN GatewayFee(amount) ELSE 0)]
  /\ UNCHANGED <<configVars, gatewayClaimed, rescued>>

\* setFees that caps each fee instead of their sum.
SetFeesCappedApart(caller, protocolBps, gatewayBps) ==
  /\ caller = Owner
  /\ protocolBps <= MAX_TOTAL_FEE_BPS /\ gatewayBps <= MAX_TOTAL_FEE_BPS
  /\ protocolFeeBps' = protocolBps
  /\ gatewayFeeBps' = gatewayBps
  /\ UNCHANGED <<usdc, protocolTreasury, paused, feeVars, historyVars>>

\* setProtocolTreasury that accepts address(0).
SetProtocolTreasuryUnchecked(caller, treasury) ==
  /\ caller = Owner
  /\ protocolTreasury' = treasury
  /\ UNCHANGED <<usdc, protocolFeeBps, gatewayFeeBps, paused, feeVars, historyVars>>

\* claimGatewayFees that pays and does not reset the balance.
ClaimGatewayFeesAgain(caller) ==
  LET amount == accumulatedGatewayFees[caller] IN
  /\ amount # 0 /\ Covers(usdc, Distributor, amount)
  /\ usdc' = Transfer(usdc, Distributor, caller, amount)
  /\ gatewayClaimed' = [gatewayClaimed EXCEPT ![caller] = @ + amount]
  /\ UNCHANGED <<configVars, feeVars, gatewayEarned, rescued>>

-----------------------------------------------------------------------------
(* External calls.  caller is msg.sender.                                  *)

Distribute(caller, supplier, amount, gateway) ==
  LET toGateway == gateway # ZeroAddress /\ GatewayFee(amount) > 0 IN
  /\ ~paused
  /\ supplier # ZeroAddress
  /\ amount # 0
  /\ Covers(usdc, caller, amount)
  /\ usdc' = Transfer(Transfer(usdc, caller, Distributor, amount),
                      Distributor, supplier, SupplierAmount(amount))
  /\ accumulatedProtocolFees' = accumulatedProtocolFees + ProtocolFee(amount)
                                  + (IF toGateway THEN 0 ELSE GatewayFee(amount))
  /\ accumulatedGatewayFees' =
        [g \in Gateways |-> accumulatedGatewayFees[g]
           + (IF toGateway /\ g = gateway THEN GatewayFee(amount) ELSE 0)]
  /\ gatewayEarned' =
        [g \in Gateways |-> gatewayEarned[g]
           + (IF g = gateway THEN GatewayFee(amount) ELSE 0)]
  /\ UNCHANGED <<configVars, gatewayClaimed, rescued>>

SetFees(caller, protocolBps, gatewayBps) ==
  /\ caller = Owner
  /\ protocolBps + gatewayBps <= MAX_TOTAL_FEE_BPS
  /\ protocolFeeBps' = protocolBps
  /\ gatewayFeeBps' = gatewayBps
  /\ UNCHANGED <<usdc, protocolTreasury, paused, feeVars, historyVars>>

SetProtocolTreasury(caller, treasury) ==
  /\ caller = Owner
  /\ treasury # ZeroAddress
  /\ protocolTreasury' = treasury
  /\ UNCHANGED <<usdc, protocolFeeBps, gatewayFeeBps, paused, feeVars, historyVars>>

ClaimProtocolFees ==
  LET amount == accumulatedProtocolFees IN
  /\ amount # 0
  /\ Covers(usdc, Distributor, amount)
  /\ accumulatedProtocolFees' = 0
  /\ usdc' = Transfer(usdc, Distributor, protocolTreasury, amount)
  /\ UNCHANGED <<configVars, accumulatedGatewayFees, historyVars>>

ClaimGatewayFees(caller) ==
  LET amount == accumulatedGatewayFees[caller] IN
  /\ amount # 0
  /\ Covers(usdc, Distributor, amount)
  /\ accumulatedGatewayFees' = [accumulatedGatewayFees EXCEPT ![caller] = 0]
  /\ usdc' = Transfer(usdc, Distributor, caller, amount)
  /\ gatewayClaimed' = [gatewayClaimed EXCEPT ![caller] = @ + amount]
  /\ UNCHANGED <<configVars, accumulatedProtocolFees, gatewayEarned, rescued>>

Pause(caller) ==
  /\ caller = Owner
  /\ ~paused
  /\ paused' = TRUE
  /\ UNCHANGED <<usdc, protocolTreasury, protocolFeeBps, gatewayFeeBps, feeVars,
                 historyVars>>

Unpause(caller) ==
  /\ caller = Owner
  /\ paused
  /\ paused' = FALSE
  /\ UNCHANGED <<usdc, protocolTreasury, protocolFeeBps, gatewayFeeBps, feeVars,
                 historyVars>>

EmergencyWithdraw(caller, to, amount) ==
  /\ caller = Owner
  /\ to # ZeroAddress
  /\ Covers(usdc, Distributor, amount)
  /\ rescued[to] + amount <= MaxRescued
  /\ usdc' = Transfer(usdc, Distributor, to, amount)
  /\ rescued' = [rescued EXCEPT ![to] = @ + amount]
  /\ UNCHANGED <<configVars, feeVars, gatewayEarned, gatewayClaimed>>

-----------------------------------------------------------------------------
Next ==
  \/ \E caller \in Payers, supplier \in Suppliers, amount \in Amounts,
        gateway \in Gateways \cup {ZeroAddress} :
        Distribute(caller, supplier, amount, gateway)
  \/ \E caller \in Accounts, protocolBps \in Fees, gatewayBps \in Fees :
        SetFees(caller, protocolBps, gatewayBps)
  \/ \E caller \in Accounts, treasury \in Treasuries \cup {ZeroAddress} :
        SetProtocolTreasury(caller, treasury)
  \/ ClaimProtocolFees
  \/ \E caller \in Gateways : ClaimGatewayFees(caller)
  \/ \E caller \in Accounts : Pause(caller) \/ Unpause(caller)
  \/ \E caller \in Accounts, to \in RescueTargets, amount \in RescueAmounts :
        EmergencyWithdraw(caller, to, amount)

Spec == Init /\ [][Next]_vars

-----------------------------------------------------------------------------
(* Properties                                                              *)

\* The distributor holds exactly the fees it owes (less what emergencyWithdraw
\* took): rounding leaves no dust behind and no claim can fail in the token.
FeesBacked ==
  usdc[Distributor] + SumFunctionOnSet(rescued, Accounts \ {Distributor})
    = accumulatedProtocolFees + SumFunctionOnSet(accumulatedGatewayFees, Gateways)

\* A gateway can claim, or has claimed, exactly the fees the PaymentDistributed
\* events announced for it, whatever the fees and the order of claims.
GatewayGetsItsFees ==
  \A g \in Gateways :
     accumulatedGatewayFees[g] + gatewayClaimed[g] = gatewayEarned[g]

\* Whatever fees the owner has set, a payment is never split into more than it
\* is worth and the supplier's share is no less than the fee cap leaves (90%
\* with the contract's constants).
SupplierShareProtected ==
  \A amount \in Amounts :
     BPS_DENOMINATOR * SupplierAmount(amount)
       >= (BPS_DENOMINATOR - MAX_TOTAL_FEE_BPS) * amount

=============================================================================
