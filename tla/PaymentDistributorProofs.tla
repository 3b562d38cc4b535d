---------------------- MODULE PaymentDistributorProofs ----------------------
(***************************************************************************)
(* The distributor keeps its books for every fee schedule within the cap,  *)
(* every denominator and every sequence of payments and claims.            *)
(***************************************************************************)
EXTENDS PaymentDistributor, RecursionLemmas

\* Bounds of what callers pass, and who the contract is not.
LEMMA DistributorFacts ==
  /\ Amounts \subseteq Nat /\ RescueAmounts \subseteq Nat /\ Fees \subseteq Nat
  /\ Distributor \in Accounts /\ Treasuries \subseteq Accounts
  /\ Payers \subseteq Accounts /\ Suppliers \subseteq Accounts /\ Gateways \subseteq Accounts
  /\ RescueTargets \subseteq Accounts
  /\ Distributor \notin Payers /\ Distributor \notin Suppliers
  /\ Distributor \notin Gateways /\ Distributor \notin Treasuries
  /\ ZeroAddress \notin Gateways /\ ZeroAddress \notin Treasuries
  /\ BPS_DENOMINATOR \in Nat /\ BPS_DENOMINATOR > 0
  /\ MAX_TOTAL_FEE_BPS \in Nat /\ MAX_TOTAL_FEE_BPS <= BPS_DENOMINATOR
BY DistributorAssumption DEF DistributorAssumption

LEMMA DistributorFinite ==
  /\ IsFiniteSet(Gateways)
  /\ IsFiniteSet(Accounts \ {Distributor})
BY DistributorAssumption, FS_Subset DEF DistributorAssumption

-----------------------------------------------------------------------------
(* Fee arithmetic                                                          *)

\* Multiplication by a natural number is monotonic.
LEMMA TimesMonotone ==
  ASSUME NEW a \in Nat, NEW b \in Nat, NEW c \in Nat, a <= b
  PROVE  c * a <= c * b
OBVIOUS

\* Rounding a quotient down never gives more than the quotient.
LEMMA DivRoundsDown ==
  ASSUME NEW x \in Nat, NEW d \in Nat, d > 0
  PROVE  x \div d \in Nat /\ d * (x \div d) <= x
OBVIOUS

\* A product can be spread over a sum.
LEMMA Distributes ==
  ASSUME NEW a \in Int, NEW b \in Int, NEW c \in Int
  PROVE  a * (b + c) = a * b + a * c /\ a * (b - c) = a * b - a * c /\ a * b = b * a
OBVIOUS

\* A common positive factor can be dropped from an inequality.
LEMMA TimesCancel ==
  ASSUME NEW a \in Nat, NEW b \in Nat, NEW c \in Nat, c > 0, c * a <= c * b
  PROVE  a <= b
OBVIOUS

\* The strengthening: what setFees checks holds of the fees in force.
FeeCap == protocolFeeBps + gatewayFeeBps <= MAX_TOTAL_FEE_BPS

\* calculateFees splits every amount into three naturals that add up to it, and
\* the supplier's part is what the cap leaves or more.
LEMMA FeeSplit ==
  ASSUME TypeOK, FeeCap, NEW amount \in Nat
  PROVE  /\ ProtocolFee(amount) \in Nat /\ GatewayFee(amount) \in Nat
         /\ SupplierAmount(amount) \in Nat
         /\ SupplierAmount(amount) = amount - ProtocolFee(amount) - GatewayFee(amount)
         /\ BPS_DENOMINATOR * SupplierAmount(amount)
              >= (BPS_DENOMINATOR - MAX_TOTAL_FEE_BPS) * amount
<1> DEFINE B == BPS_DENOMINATOR
           M == MAX_TOTAL_FEE_BPS
           p == protocolFeeBps
           g == gatewayFeeBps
           pf == ProtocolFee(amount)
           gf == GatewayFee(amount)
<1>1. /\ B \in Nat /\ B > 0 /\ M \in Nat /\ M <= B
      /\ p \in Nat /\ g \in Nat /\ p + g <= M
  BY DistributorFacts DEF TypeOK, FeeCap
<1>2. /\ pf = (amount * p) \div B /\ gf = (amount * g) \div B
      /\ SupplierAmount(amount) = amount - pf - gf
  BY DEF ProtocolFee, GatewayFee, FeeOf, SupplierAmount
<1> HIDE DEF B, M, p, g, pf, gf
<1>3. amount * p \in Nat /\ amount * g \in Nat /\ amount * M \in Nat /\ B * amount \in Nat
  BY <1>1
<1>4. pf \in Nat /\ gf \in Nat /\ B * pf <= amount * p /\ B * gf <= amount * g
  BY <1>1, <1>2, <1>3, DivRoundsDown
<1>5. B * (pf + gf) = B * pf + B * gf /\ B * pf \in Nat /\ B * gf \in Nat
  BY <1>1, <1>4, Distributes
<1>6. amount * (p + g) = amount * p + amount * g
  BY <1>1, Distributes
<1>7. amount * (p + g) <= amount * M
  BY <1>1, TimesMonotone
<1>8. amount * M <= B * amount
  BY <1>1, TimesMonotone, Distributes
<1>9. B * (pf + gf) <= amount * M
  BY <1>3, <1>4, <1>5, <1>6, <1>7
<1>10. pf + gf <= amount
  BY <1>1, <1>3, <1>4, <1>5, <1>8, <1>9, TimesCancel
<1>11. SupplierAmount(amount) = amount - (pf + gf) /\ SupplierAmount(amount) \in Nat
  BY <1>2, <1>4, <1>10
<1>12. B * (amount - (pf + gf)) = B * amount - B * (pf + gf)
  BY <1>1, <1>4, Distributes
<1>13. (B - M) * amount = B * amount - amount * M
  BY <1>1, Distributes
<1>14. B * SupplierAmount(amount) >= (B - M) * amount
  BY <1>3, <1>5, <1>9, <1>11, <1>12, <1>13
<1>15. QED
  BY <1>2, <1>4, <1>11, <1>14 DEF B, M, pf, gf

-----------------------------------------------------------------------------
(* Type correctness                                                        *)

\* A covered transfer keeps every balance a natural number.
LEMMA DistributorTransferType ==
  ASSUME NEW S, NEW ledger \in [S -> Nat], NEW from \in S, NEW to \in S,
         NEW amount \in Nat, Covers(ledger, from, amount)
  PROVE  Transfer(ledger, from, to, amount) \in [S -> Nat]
BY DEF Transfer, Covers

\* What distribute does to the token, account by account.
LEMMA PaymentRoute ==
  ASSUME NEW S, NEW ledger \in [S -> Nat], NEW payer \in S, NEW via \in S, NEW to \in S,
         NEW amount \in Nat, NEW share \in Nat, share <= amount,
         payer # via, to # via, Covers(ledger, payer, amount)
  PROVE  LET after == Transfer(Transfer(ledger, payer, via, amount), via, to, share)
         IN  after \in [S -> Nat] /\ after[via] = ledger[via] + amount - share
<1> DEFINE half == Transfer(ledger, payer, via, amount)
<1>1. half \in [S -> Nat]
  BY DistributorTransferType
<1>2. half[via] = ledger[via] + amount
  BY DEF Transfer
<1> HIDE DEF half
<1>3. Covers(half, via, share)
  BY <1>1, <1>2 DEF Covers
<1>4. Transfer(half, via, to, share) \in [S -> Nat]
  BY <1>1, <1>3, DistributorTransferType
<1>5. Transfer(half, via, to, share)[via] = half[via] - share
  BY <1>1 DEF Transfer
<1>6. QED
  BY <1>2, <1>4, <1>5 DEF half

DistInv == TypeOK /\ FeeCap

LEMMA DistributeType ==
  ASSUME TypeOK, FeeCap, NEW caller \in Payers, NEW supplier \in Suppliers,
         NEW amount \in Amounts, NEW gateway,
         Distribute(caller, supplier, amount, gateway)
  PROVE  TypeOK' /\ FeeCap'
<1>1. amount \in Nat
  BY DistributorFacts
<1>2. /\ ProtocolFee(amount) \in Nat /\ GatewayFee(amount) \in Nat
      /\ SupplierAmount(amount) \in Nat /\ SupplierAmount(amount) <= amount
  BY <1>1, FeeSplit
<1>3. usdc' \in [Accounts -> Nat]
  <2>1. /\ usdc' = Transfer(Transfer(usdc, caller, Distributor, amount),
                             Distributor, supplier, SupplierAmount(amount))
        /\ Covers(usdc, caller, amount)
    BY DEF Distribute
  <2>2. /\ usdc \in [Accounts -> Nat] /\ caller \in Accounts /\ supplier \in Accounts
        /\ Distributor \in Accounts /\ caller # Distributor /\ supplier # Distributor
    BY DistributorFacts DEF TypeOK
  <2>3. QED
    BY <1>1, <1>2, <2>1, <2>2, PaymentRoute
<1>4. accumulatedProtocolFees' \in Nat
  BY <1>2 DEF Distribute, TypeOK
<1>5. accumulatedGatewayFees' \in [Gateways -> Nat] /\ gatewayEarned' \in [Gateways -> Nat]
  BY <1>2 DEF Distribute, TypeOK
<1>6. UNCHANGED <<configVars, gatewayClaimed, rescued>>
  BY DEF Distribute
<1>7. QED
  BY <1>3, <1>4, <1>5, <1>6 DEF TypeOK, FeeCap, configVars

LEMMA ClaimProtocolFeesType ==
  ASSUME TypeOK, ClaimProtocolFees
  PROVE  TypeOK' /\ UNCHANGED <<protocolFeeBps, gatewayFeeBps>>
<1>1. /\ usdc \in [Accounts -> Nat] /\ accumulatedProtocolFees \in Nat
      /\ protocolTreasury \in Accounts /\ Distributor \in Accounts
  BY DistributorFacts DEF TypeOK
<1>2. usdc' \in [Accounts -> Nat]
  BY <1>1, DistributorTransferType DEF ClaimProtocolFees
<1>3. QED
  BY <1>2 DEF ClaimProtocolFees, TypeOK, configVars, historyVars

LEMMA ClaimGatewayFeesType ==
  ASSUME TypeOK, NEW caller \in Gateways, ClaimGatewayFees(caller)
  PROVE  TypeOK' /\ UNCHANGED <<protocolFeeBps, gatewayFeeBps>>
<1>1. /\ usdc \in [Accounts -> Nat] /\ accumulatedGatewayFees[caller] \in Nat
      /\ caller \in Accounts /\ Distributor \in Accounts
  BY DistributorFacts DEF TypeOK
<1>2. usdc' \in [Accounts -> Nat]
  BY <1>1, DistributorTransferType DEF ClaimGatewayFees
<1>3. accumulatedGatewayFees' \in [Gateways -> Nat] /\ gatewayClaimed' \in [Gateways -> Nat]
  BY <1>1 DEF ClaimGatewayFees, TypeOK
<1>4. UNCHANGED <<configVars, accumulatedProtocolFees, gatewayEarned, rescued>>
  BY DEF ClaimGatewayFees
<1>5. QED
  BY <1>2, <1>3, <1>4 DEF TypeOK, configVars

LEMMA DistributorEmergencyType ==
  ASSUME TypeOK, NEW caller, NEW to \in RescueTargets, NEW amount \in RescueAmounts,
         EmergencyWithdraw(caller, to, amount)
  PROVE  TypeOK' /\ UNCHANGED <<protocolFeeBps, gatewayFeeBps>>
<1>1. usdc \in [Accounts -> Nat] /\ amount \in Nat /\ to \in Accounts /\ Distributor \in Accounts
  BY DistributorFacts DEF TypeOK
<1>2. usdc' \in [Accounts -> Nat]
  BY <1>1, DistributorTransferType DEF EmergencyWithdraw
<1>3. rescued' \in [Accounts -> Nat]
  BY <1>1 DEF EmergencyWithdraw, TypeOK
<1>4. UNCHANGED <<configVars, feeVars, gatewayEarned, gatewayClaimed>>
  BY DEF EmergencyWithdraw
<1>5. QED
  BY <1>2, <1>3, <1>4 DEF TypeOK, configVars, feeVars

\* TypeOK with the fee cap is inductive.
LEMMA DistributorTypeInductive ==
  ASSUME DistInv, [Next]_vars
  PROVE  DistInv'
<1> USE DEF DistInv
<1>1. ASSUME NEW caller, NEW protocolBps \in Fees, NEW gatewayBps \in Fees,
             SetFees(caller, protocolBps, gatewayBps)
      PROVE  DistInv'
  BY <1>1, DistributorFacts DEF SetFees, TypeOK, FeeCap, feeVars, historyVars
<1>2. ASSUME NEW caller, NEW treasury \in Treasuries \cup {ZeroAddress},
             SetProtocolTreasury(caller, treasury)
      PROVE  DistInv'
  BY <1>2 DEF SetProtocolTreasury, TypeOK, FeeCap, feeVars, historyVars
<1>3. ASSUME NEW caller, Pause(caller) \/ Unpause(caller)
      PROVE  DistInv'
  BY <1>3 DEF Pause, Unpause, TypeOK, FeeCap, feeVars, historyVars
<1>4. ASSUME TypeOK', UNCHANGED <<protocolFeeBps, gatewayFeeBps>>
      PROVE  DistInv'
  BY <1>4 DEF FeeCap
<1>5. CASE UNCHANGED vars
  BY <1>5 DEF vars, configVars, feeVars, historyVars, TypeOK, FeeCap
<1>6. CASE ClaimProtocolFees
  BY <1>4, <1>6, ClaimProtocolFeesType
<1>7. ASSUME NEW caller \in Gateways, ClaimGatewayFees(caller)
      PROVE  DistInv'
  BY <1>4, <1>7, ClaimGatewayFeesType
<1>8. ASSUME NEW caller, NEW to \in RescueTargets, NEW amount \in RescueAmounts,
             EmergencyWithdraw(caller, to, amount)
      PROVE  DistInv'
  BY <1>4, <1>8, DistributorEmergencyType
<1>9. ASSUME NEW caller \in Payers, NEW supplier \in Suppliers, NEW amount \in Amounts,
             NEW gateway, Distribute(caller, supplier, amount, gateway)
      PROVE  DistInv'
  BY <1>9, DistributeType
<1> HIDE DEF DistInv
<1>10. CASE Next
  BY <1>1, <1>2, <1>3, <1>6, <1>7, <1>8, <1>9, <1>10, Zenon DEF Next
<1>11. QED
  BY <1>5, <1>10

LEMMA DistInvHolds == Spec => []DistInv
<1>1. Init => DistInv
  BY DistributorAssumption DEF DistributorAssumption, Init, DistInv, TypeOK, FeeCap
<1>2. QED
  BY <1>1, DistributorTypeInductive, PTL DEF Spec

\* Every variable of the distributor always has its type: fees and balances never
\* go below zero and the treasury is never the zero address.
THEOREM DistributorTypeCorrect == Spec => []TypeOK
<1>1. DistInv => TypeOK
  BY DEF DistInv
<1>2. QED
  BY <1>1, DistInvHolds, PTL

\* Whatever fees the owner sets, a payment is never split into more than it is
\* worth and the supplier keeps the share the fee cap leaves.
THEOREM DistributorProtectsSuppliers == Spec => []SupplierShareProtected
<1>1. DistInv => SupplierShareProtected
  BY DistributorFacts, FeeSplit DEF DistInv, SupplierShareProtected
<1>2. QED
  BY <1>1, DistInvHolds, PTL

-----------------------------------------------------------------------------
(* Fees owed and fees held                                                 *)

LEMMA FeeSums ==
  ASSUME TypeOK
  PROVE  /\ SumFunctionOnSet(rescued, Accounts \ {Distributor}) \in Int
         /\ SumFunctionOnSet(accumulatedGatewayFees, Gateways) \in Int
         /\ usdc[Distributor] \in Int /\ accumulatedProtocolFees \in Int
BY DistributorFinite, DistributorFacts, SumInt DEF TypeOK

\* A claim takes from the contract what it pays.
LEMMA FeePayment ==
  ASSUME NEW S, NEW ledger \in [S -> Nat], NEW from \in S, NEW to \in S \ {from},
         NEW amount \in Nat
  PROVE  Transfer(ledger, from, to, amount)[from] = ledger[from] - amount
BY DEF Transfer

LEMMA DistributeBacked ==
  ASSUME DistInv, FeesBacked, NEW caller \in Payers, NEW supplier \in Suppliers,
         NEW amount \in Amounts, NEW gateway \in Gateways \cup {ZeroAddress},
         Distribute(caller, supplier, amount, gateway)
  PROVE  FeesBacked'
<1> DEFINE pf == ProtocolFee(amount)
           gf == GatewayFee(amount)
           share == SupplierAmount(amount)
           toGateway == gateway # ZeroAddress /\ gf > 0
<1>1. TypeOK /\ FeeCap /\ amount \in Nat
  BY DistributorFacts DEF DistInv
<1>2. /\ pf \in Nat /\ gf \in Nat /\ share \in Nat /\ share = amount - pf - gf
      /\ share <= amount
  BY <1>1, FeeSplit
<1>3. /\ usdc' = Transfer(Transfer(usdc, caller, Distributor, amount),
                           Distributor, supplier, share)
      /\ Covers(usdc, caller, amount)
      /\ accumulatedProtocolFees' = accumulatedProtocolFees + pf
                                      + (IF toGateway THEN 0 ELSE gf)
      /\ accumulatedGatewayFees' =
            [h \in Gateways |-> accumulatedGatewayFees[h]
               + (IF toGateway /\ h = gateway THEN gf ELSE 0)]
      /\ UNCHANGED rescued
  BY DEF Distribute
<1>4. \A h \in Gateways : accumulatedGatewayFees[h] \in Int
  BY <1>1 DEF TypeOK
<1> HIDE DEF pf, gf, share
<1>5. usdc'[Distributor] = usdc[Distributor] + pf + gf
  <2>1. /\ usdc \in [Accounts -> Nat] /\ caller \in Accounts /\ supplier \in Accounts
        /\ Distributor \in Accounts /\ caller # Distributor /\ supplier # Distributor
    BY <1>1, DistributorFacts DEF TypeOK
  <2>2. usdc'[Distributor] = usdc[Distributor] + amount - share
    BY <1>1, <1>2, <1>3, <2>1, PaymentRoute
  <2>3. QED
    BY <1>1, <1>2, <2>1, <2>2
<1>6. accumulatedProtocolFees' + SumFunctionOnSet(accumulatedGatewayFees', Gateways)
        = accumulatedProtocolFees + SumFunctionOnSet(accumulatedGatewayFees, Gateways) + pf + gf
  <2>1. CASE toGateway
    <3>1. gateway \in Gateways
      BY <2>1
    <3>2. \A h \in Gateways :
             accumulatedGatewayFees'[h] = IF h = gateway THEN accumulatedGatewayFees[h] + gf
                                          ELSE accumulatedGatewayFees[h]
      BY <1>2, <1>3, <1>4, <2>1
    <3>3. SumFunctionOnSet(accumulatedGatewayFees', Gateways)
            = SumFunctionOnSet(accumulatedGatewayFees, Gateways) + gf
      BY <1>2, <1>4, <3>1, <3>2, DistributorFinite, SumAdd
    <3>4. accumulatedProtocolFees' = accumulatedProtocolFees + pf
      BY <1>1, <1>2, <1>3, <2>1 DEF TypeOK
    <3>5. QED
      BY <1>1, <1>2, <3>3, <3>4, FeeSums
  <2>2. CASE ~toGateway
    <3>1. \A h \in Gateways : accumulatedGatewayFees'[h] = accumulatedGatewayFees[h]
      BY <1>3, <1>4, <2>2
    <3>2. SumFunctionOnSet(accumulatedGatewayFees', Gateways)
            = SumFunctionOnSet(accumulatedGatewayFees, Gateways)
      BY <3>1, DistributorFinite, SumCongruent
    <3>3. accumulatedProtocolFees' = accumulatedProtocolFees + pf + gf
      BY <1>3, <2>2
    <3>4. QED
      BY <1>1, <1>2, <3>2, <3>3, FeeSums
  <2>3. QED
    BY <2>1, <2>2
<1>7. QED
  BY <1>1, <1>2, <1>3, <1>5, <1>6, FeeSums DEF FeesBacked

LEMMA ClaimProtocolFeesBacked ==
  ASSUME TypeOK, FeesBacked, ClaimProtocolFees
  PROVE  FeesBacked'
<1>1. /\ usdc \in [Accounts -> Nat] /\ Distributor \in Accounts
      /\ protocolTreasury \in Accounts \ {Distributor} /\ accumulatedProtocolFees \in Nat
  BY DistributorFacts DEF TypeOK
<1>2. usdc'[Distributor] = usdc[Distributor] - accumulatedProtocolFees
  BY <1>1, FeePayment DEF ClaimProtocolFees
<1>3. accumulatedProtocolFees' = 0 /\ UNCHANGED <<rescued, accumulatedGatewayFees>>
  BY DEF ClaimProtocolFees, historyVars
<1>4. QED
  BY <1>2, <1>3, FeeSums DEF FeesBacked

LEMMA ClaimGatewayFeesBacked ==
  ASSUME TypeOK, FeesBacked, NEW caller \in Gateways, ClaimGatewayFees(caller)
  PROVE  FeesBacked'
<1> DEFINE amount == accumulatedGatewayFees[caller]
<1>1. /\ usdc \in [Accounts -> Nat] /\ Distributor \in Accounts
      /\ caller \in Accounts \ {Distributor} /\ amount \in Nat
      /\ accumulatedGatewayFees \in [Gateways -> Nat]
  BY DistributorFacts DEF TypeOK
<1>2. /\ usdc' = Transfer(usdc, Distributor, caller, amount)
      /\ accumulatedGatewayFees' = [accumulatedGatewayFees EXCEPT ![caller] = 0]
      /\ UNCHANGED <<rescued, accumulatedProtocolFees>>
  BY DEF ClaimGatewayFees
<1>3. usdc'[Distributor] = usdc[Distributor] - amount
  BY <1>1, <1>2, FeePayment
<1>4. SumFunctionOnSet(accumulatedGatewayFees', Gateways)
        = SumFunctionOnSet(accumulatedGatewayFees, Gateways) + (0 - amount)
  <2>1. \A h \in Gateways :
           accumulatedGatewayFees'[h] = IF h = caller THEN accumulatedGatewayFees[h] + (0 - amount)
                                        ELSE accumulatedGatewayFees[h]
    BY <1>1, <1>2
  <2>2. (0 - amount) \in Int /\ \A h \in Gateways : accumulatedGatewayFees[h] \in Int
    BY <1>1
  <2> HIDE DEF amount
  <2>3. QED
    BY <2>1, <2>2, DistributorFinite, SumAdd
<1> HIDE DEF amount
<1>5. QED
  BY <1>1, <1>2, <1>3, <1>4, FeeSums DEF FeesBacked

LEMMA DistributorEmergencyBacked ==
  ASSUME TypeOK, FeesBacked, NEW caller, NEW to \in RescueTargets,
         NEW amount \in RescueAmounts, EmergencyWithdraw(caller, to, amount)
  PROVE  FeesBacked'
<1>1. /\ usdc \in [Accounts -> Nat] /\ rescued \in [Accounts -> Nat] /\ amount \in Nat
      /\ to \in Accounts /\ Distributor \in Accounts
  BY DistributorFacts DEF TypeOK
<1>2. /\ usdc' = Transfer(usdc, Distributor, to, amount)
      /\ rescued' = [rescued EXCEPT ![to] = @ + amount]
      /\ UNCHANGED <<accumulatedProtocolFees, accumulatedGatewayFees>>
  BY DEF EmergencyWithdraw, feeVars
<1>3. CASE to = Distributor
  <2>1. usdc'[Distributor] = usdc[Distributor]
    BY <1>1, <1>2, <1>3 DEF Transfer
  <2>2. \A a \in Accounts \ {Distributor} : rescued'[a] = rescued[a]
    BY <1>1, <1>2, <1>3
  <2>3. SumFunctionOnSet(rescued', Accounts \ {Distributor})
          = SumFunctionOnSet(rescued, Accounts \ {Distributor})
    BY <2>2, DistributorFinite, SumCongruent
  <2>4. QED
    BY <1>2, <2>1, <2>3 DEF FeesBacked
<1>4. CASE to # Distributor
  <2>1. usdc'[Distributor] = usdc[Distributor] - amount
    BY <1>1, <1>2, <1>4, FeePayment
  <2>2. \A a \in Accounts \ {Distributor} :
           rescued'[a] = IF a = to THEN rescued[a] + amount ELSE rescued[a]
    BY <1>1, <1>2
  <2>3. \A a \in Accounts \ {Distributor} : rescued[a] \in Int
    BY <1>1
  <2>4. to \in Accounts \ {Distributor} /\ amount \in Int
    BY <1>1, <1>4
  <2>5. SumFunctionOnSet(rescued', Accounts \ {Distributor})
          = SumFunctionOnSet(rescued, Accounts \ {Distributor}) + amount
    BY <2>2, <2>3, <2>4, DistributorFinite, SumAdd
  <2>6. QED
    BY <1>1, <1>2, <2>1, <2>5, FeeSums DEF FeesBacked
<1>5. QED
  BY <1>3, <1>4

LEMMA FeesBackedInductive ==
  ASSUME DistInv, FeesBacked, [Next]_vars
  PROVE  FeesBacked'
<1>1. ASSUME UNCHANGED <<usdc, rescued, accumulatedProtocolFees, accumulatedGatewayFees>>
      PROVE  FeesBacked'
  BY <1>1 DEF FeesBacked
<1>2. ASSUME NEW caller, NEW x, NEW y,
             \/ SetFees(caller, x, y) \/ SetProtocolTreasury(caller, x)
             \/ Pause(caller) \/ Unpause(caller)
      PROVE  UNCHANGED <<usdc, rescued, accumulatedProtocolFees, accumulatedGatewayFees>>
  BY <1>2 DEF SetFees, SetProtocolTreasury, Pause, Unpause, feeVars, historyVars
<1>3. CASE UNCHANGED vars
  BY <1>1, <1>3 DEF vars, feeVars, historyVars
<1>4. TypeOK
  BY DEF DistInv
<1>5. CASE Next
  BY <1>1, <1>2, <1>4, <1>5, DistributeBacked, ClaimProtocolFeesBacked,
     ClaimGatewayFeesBacked, DistributorEmergencyBacked, Zenon DEF Next
<1>6. QED
  BY <1>3, <1>5

\* The distributor always holds exactly the fees it owes: rounding leaves no dust
\* and no claim finds the contract short.
THEOREM DistributorFeesBacked == Spec => []FeesBacked
<1>1. Init => FeesBacked
  <2>1. SUFFICES ASSUME Init PROVE FeesBacked
    OBVIOUS
  <2>2. /\ SumFunctionOnSet(rescued, Accounts \ {Distributor}) = 0
        /\ SumFunctionOnSet(accumulatedGatewayFees, Gateways) = 0
    BY <2>1, DistributorFinite, SumZero DEF Init
  <2>3. usdc[Distributor] = 0 /\ accumulatedProtocolFees = 0
    BY <2>1, DistributorAssumption DEF Init, DistributorAssumption
  <2>4. QED
    BY <2>2, <2>3 DEF FeesBacked
<1>2. QED
  BY <1>1, DistInvHolds, FeesBackedInductive, PTL DEF Spec

LEMMA GatewayFeesInductive ==
  ASSUME DistInv, GatewayGetsItsFees, [Next]_vars
  PROVE  GatewayGetsItsFees'
<1>1. /\ accumulatedGatewayFees \in [Gateways -> Nat] /\ gatewayEarned \in [Gateways -> Nat]
      /\ gatewayClaimed \in [Gateways -> Nat]
  BY DEF DistInv, TypeOK
<1>2. ASSUME UNCHANGED <<accumulatedGatewayFees, gatewayClaimed, gatewayEarned>>
      PROVE  GatewayGetsItsFees'
  BY <1>2 DEF GatewayGetsItsFees
<1>3. ASSUME NEW caller, NEW supplier, NEW amount \in Amounts, NEW gateway,
             Distribute(caller, supplier, amount, gateway)
      PROVE  GatewayGetsItsFees'
  <2> DEFINE fee == GatewayFee(amount)
  <2>1. fee \in Nat
    BY DistributorFacts, FeeSplit DEF DistInv
  <2>2. /\ \A g \in Gateways :
              accumulatedGatewayFees'[g] = accumulatedGatewayFees[g]
                + (IF (gateway # ZeroAddress /\ fee > 0) /\ g = gateway THEN fee ELSE 0)
        /\ \A g \in Gateways :
              gatewayEarned'[g] = gatewayEarned[g] + (IF g = gateway THEN fee ELSE 0)
        /\ gatewayClaimed' = gatewayClaimed
    BY <1>3 DEF Distribute
  <2> HIDE DEF fee
  <2>3. SUFFICES ASSUME NEW g \in Gateways
                 PROVE  accumulatedGatewayFees'[g] + gatewayClaimed'[g] = gatewayEarned'[g]
    BY DEF GatewayGetsItsFees
  <2>4. /\ accumulatedGatewayFees[g] \in Nat /\ gatewayEarned[g] \in Nat
        /\ gatewayClaimed[g] \in Nat /\ g # ZeroAddress
        /\ accumulatedGatewayFees[g] + gatewayClaimed[g] = gatewayEarned[g]
    BY <1>1, DistributorFacts DEF GatewayGetsItsFees
  <2>5. CASE g = gateway
    BY <2>1, <2>2, <2>4, <2>5
  <2>6. CASE g # gateway
    BY <2>2, <2>4, <2>6
  <2>7. QED
    BY <2>5, <2>6
<1>4. ASSUME NEW caller \in Gateways, ClaimGatewayFees(caller)
      PROVE  GatewayGetsItsFees'
  <2>1. /\ accumulatedGatewayFees' = [accumulatedGatewayFees EXCEPT ![caller] = 0]
        /\ gatewayClaimed' = [gatewayClaimed EXCEPT ![caller] = @ + accumulatedGatewayFees[caller]]
        /\ gatewayEarned' = gatewayEarned
    BY <1>4 DEF ClaimGatewayFees
  <2>2. QED
    BY <1>1, <2>1 DEF GatewayGetsItsFees
<1>5. ASSUME NEW caller, NEW x, NEW y,
             \/ SetFees(caller, x, y) \/ SetProtocolTreasury(caller, x)
             \/ Pause(caller) \/ Unpause(caller)
             \/ ClaimProtocolFees \/ EmergencyWithdraw(caller, x, y)
      PROVE  UNCHANGED <<accumulatedGatewayFees, gatewayClaimed, gatewayEarned>>
  BY <1>5 DEF SetFees, SetProtocolTreasury, Pause, Unpause, ClaimProtocolFees,
              EmergencyWithdraw, feeVars, historyVars
<1>6. CASE UNCHANGED vars
  BY <1>2, <1>6 DEF vars, feeVars, historyVars
<1>7. CASE Next
  BY <1>2, <1>3, <1>4, <1>5, <1>7, Zenon DEF Next
<1>8. QED
  BY <1>6, <1>7

\* Every gateway can claim, or has claimed, exactly the fees that were announced
\* for it.
THEOREM DistributorPaysGateways == Spec => []GatewayGetsItsFees
<1>1. Init => GatewayGetsItsFees
  BY DEF Init, GatewayGetsItsFees
<1>2. QED
  BY <1>1, DistInvHolds, GatewayFeesInductive, PTL DEF Spec

=============================================================================
