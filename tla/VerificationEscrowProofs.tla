---------------------- MODULE VerificationEscrowProofs ----------------------
(***************************************************************************)
(* The escrow keeps its books for every choice of accounts, receipts and   *)
(* amounts: type correctness and the four accounting invariants that       *)
(* MCVerificationEscrow.cfg checks on a small instance.                    *)
(***************************************************************************)
EXTENDS VerificationEscrow, RecursionLemmas

\* The sets the sums range over are finite.
LEMMA EscrowFinite ==
  /\ IsFiniteSet(Brands) /\ IsFiniteSet(Suppliers) /\ IsFiniteSet(Receipts)
  /\ IsFiniteSet(Accounts \ {Escrow})
BY EscrowAssumption, FS_Subset DEF EscrowAssumption

-----------------------------------------------------------------------------
(* Type correctness                                                        *)

\* A covered transfer keeps every balance a natural number.
LEMMA TransferType ==
  ASSUME NEW S, NEW ledger \in [S -> Nat], NEW from \in S, NEW to \in S,
         NEW amount \in Nat, Covers(ledger, from, amount)
  PROVE  Transfer(ledger, from, to, amount) \in [S -> Nat]
BY DEF Transfer, Covers

\* What a transfer between two different accounts does to each balance.
LEMMA TransferEffect ==
  ASSUME NEW S, NEW ledger \in [S -> Nat], NEW from \in S, NEW to \in S \ {from},
         NEW amount \in Nat
  PROVE  /\ Transfer(ledger, from, to, amount)[from] = ledger[from] - amount
         /\ Transfer(ledger, from, to, amount)[to] = ledger[to] + amount
         /\ \A a \in S \ {from, to} :
               Transfer(ledger, from, to, amount)[a] = ledger[a]
BY DEF Transfer

\* TypeOK is inductive.
LEMMA TypeOKInductive ==
  ASSUME TypeOK, [Next]_vars
  PROVE  TypeOK'
<1> USE EscrowAssumption DEF EscrowAssumption, TypeOK, contractVars, historyVars
<1>1. ASSUME NEW caller \in Accounts, NEW target \in Settlements \cup {ZeroAddress},
             SetSettlementContract(caller, target)
      PROVE  TypeOK'
  BY <1>1 DEF SetSettlementContract
<1>2. ASSUME NEW brand \in Brands, NEW amount \in Amounts, Deposit(brand, amount)
      PROVE  TypeOK'
  <2>1. usdc' \in [Accounts -> Nat]
    BY <1>2, TransferType DEF Deposit
  <2>2. QED
    BY <1>2, <2>1 DEF Deposit
<1>3. ASSUME NEW caller \in Accounts, NEW brand \in Brands, NEW supplier \in Suppliers,
             NEW amount \in Amounts, NEW receipt \in Receipts,
             RecordVerification(caller, brand, supplier, amount, receipt)
      PROVE  TypeOK'
  <2>1. brandBalances' \in [Brands -> Nat]
    BY <1>3 DEF RecordVerification
  <2>2. pendingRecords' \in [Brands -> [Suppliers -> Nat]]
    <3>1. [pendingRecords[brand] EXCEPT ![supplier] = @ + amount] \in [Suppliers -> Nat]
      OBVIOUS
    <3>2. pendingRecords' = [pendingRecords EXCEPT ![brand] =
                               [pendingRecords[brand] EXCEPT ![supplier] = @ + amount]]
      BY <1>3 DEF RecordVerification
    <3>3. QED
      BY <3>1, <3>2
  <2>3. billed' \in [Receipts -> Bill]
    BY <1>3 DEF RecordVerification, Bill
  <2>4. supplierPendingTotals' \in [Suppliers -> Nat]
    BY <1>3 DEF RecordVerification
  <2>5. recordedReceipts' \subseteq Receipts
    BY <1>3 DEF RecordVerification
  <2>6. UNCHANGED <<usdc, settlementContract, paused, drawn, rescued>>
    BY <1>3 DEF RecordVerification
  <2>7. QED
    BY <2>1, <2>2, <2>3, <2>4, <2>5, <2>6
<1>4. ASSUME NEW caller \in Accounts, NEW supplier \in Suppliers, NEW amount \in Amounts,
             TransferToSettlement(caller, supplier, amount)
      PROVE  TypeOK'
  <2>1. usdc' \in [Accounts -> Nat]
    BY <1>4, TransferType DEF TransferToSettlement
  <2>2. QED
    BY <1>4, <2>1 DEF TransferToSettlement
<1>5. ASSUME NEW brand \in Brands, NEW amount \in Amounts, Withdraw(brand, amount)
      PROVE  TypeOK'
  <2>1. usdc' \in [Accounts -> Nat]
    BY <1>5, TransferType DEF Withdraw
  <2>2. QED
    BY <1>5, <2>1 DEF Withdraw
<1>6. ASSUME NEW caller \in Accounts, Pause(caller) \/ Unpause(caller)
      PROVE  TypeOK'
  BY <1>6 DEF Pause, Unpause
<1>7. ASSUME NEW caller \in Accounts, NEW to \in RescueTargets, NEW amount \in Amounts,
             EmergencyWithdraw(caller, to, amount)
      PROVE  TypeOK'
  <2>1. usdc' \in [Accounts -> Nat]
    BY <1>7, TransferType DEF EmergencyWithdraw
  <2>2. rescued' \in [Accounts -> Nat]
    BY <1>7 DEF EmergencyWithdraw
  <2>3. UNCHANGED <<contractVars, billed, drawn>>
    BY <1>7 DEF EmergencyWithdraw
  <2>4. QED
    BY <2>1, <2>2, <2>3
<1>8. CASE UNCHANGED vars
  BY <1>8 DEF vars
<1> HIDE DEF EscrowAssumption, TypeOK, contractVars, historyVars
<1>9. CASE Next
  BY <1>9, <1>1, <1>2, <1>3, <1>4, <1>5, <1>6, <1>7, Zenon DEF Next
<1>10. QED
  BY <1>8, <1>9

LEMMA TypeOKInitially == Init => TypeOK
<1>1. NoBill \in Bill
  BY DEF NoBill, Bill
<1>2. [s \in Suppliers |-> 0] \in [Suppliers -> Nat]
  OBVIOUS
<1>3. [b \in Brands |-> [s \in Suppliers |-> 0]] \in [Brands -> [Suppliers -> Nat]]
  BY <1>2
<1>4. QED
  BY <1>1, <1>2, <1>3, EscrowAssumption DEF EscrowAssumption, Init, TypeOK

\* Every variable of the escrow always has its type; in particular no balance,
\* pending total or wallet ever goes below zero.
THEOREM EscrowTypeCorrect == Spec => []TypeOK
BY TypeOKInitially, TypeOKInductive, PTL DEF Spec

-----------------------------------------------------------------------------
(* The escrow's books balance with the token                               *)

\* The sums in Backed are integers.
LEMMA BackedSums ==
  ASSUME TypeOK
  PROVE  /\ Sum(rescued, Accounts \ {Escrow}) \in Int
         /\ Sum(brandBalances, Brands) \in Int
         /\ Sum(supplierPendingTotals, Suppliers) \in Int
BY EscrowFinite, SumInt, EscrowAssumption DEF Sum, TypeOK, EscrowAssumption

\* Callers' amounts are naturals, and nobody the contract pays out to or takes
\* deposits from is the contract itself.
LEMMA CallFacts ==
  /\ Amounts \subseteq Nat
  /\ Escrow \in Accounts
  /\ \A b \in Brands : b \in Accounts /\ b # Escrow
  /\ \A t \in Settlements : t \in Accounts /\ t # Escrow /\ t \notin Brands
BY EscrowAssumption DEF EscrowAssumption

\* What the escrow holds or has rescued beyond what it owes.  Backed says that it is
\* 0; what is proved of the calls is that none of them changes it.
Surplus ==
  usdc[Escrow] + Sum(rescued, Accounts \ {Escrow})
    - (Sum(brandBalances, Brands) + Sum(supplierPendingTotals, Suppliers))

\* Surplus depends on four variables only.
LEMMA SurplusUnchanged ==
  ASSUME UNCHANGED <<usdc, rescued, brandBalances, supplierPendingTotals>>
  PROVE  Surplus' = Surplus
BY DEF Surplus, Sum

LEMMA DepositSurplus ==
  ASSUME TypeOK,
         NEW brand \in Brands, NEW amount \in Amounts, Deposit(brand, amount)
  PROVE  Surplus' = Surplus
<1>1. usdc \in [Accounts -> Nat] /\ brandBalances \in [Brands -> Nat] /\ amount \in Nat
  BY CallFacts DEF TypeOK
<1>2. usdc'[Escrow] = usdc[Escrow] + amount
  <2>1. usdc' = Transfer(usdc, brand, Escrow, amount)
    BY DEF Deposit
  <2>2. QED
    BY <1>1, <2>1, CallFacts, TransferEffect
<1>3. Sum(brandBalances', Brands) = Sum(brandBalances, Brands) + amount
  <2>1. brandBalances' = [brandBalances EXCEPT ![brand] = @ + amount]
    BY DEF Deposit
  <2>2. QED
    BY <1>1, <2>1, EscrowFinite, SumPlus DEF Sum
<1>4. UNCHANGED <<rescued, supplierPendingTotals>>
  BY DEF Deposit, historyVars
<1>5. usdc[Escrow] \in Int
  BY <1>1, CallFacts
<1>6. QED
  BY <1>1, <1>2, <1>3, <1>4, <1>5, BackedSums DEF Surplus

LEMMA RecordVerificationSurplus ==
  ASSUME TypeOK,
         NEW caller \in Accounts, NEW brand \in Brands, NEW supplier \in Suppliers,
         NEW amount \in Amounts, NEW receipt \in Receipts,
         RecordVerification(caller, brand, supplier, amount, receipt)
  PROVE  Surplus' = Surplus
<1>1. /\ brandBalances \in [Brands -> Nat] /\ supplierPendingTotals \in [Suppliers -> Nat]
      /\ amount \in Nat
  BY CallFacts DEF TypeOK
<1>2. Sum(brandBalances', Brands) = Sum(brandBalances, Brands) - amount
  <2>1. brandBalances' = [brandBalances EXCEPT ![brand] = @ - amount]
    BY DEF RecordVerification
  <2>2. QED
    BY <1>1, <2>1, EscrowFinite, SumMinus DEF Sum
<1>3. Sum(supplierPendingTotals', Suppliers) = Sum(supplierPendingTotals, Suppliers) + amount
  <2>1. supplierPendingTotals' = [supplierPendingTotals EXCEPT ![supplier] = @ + amount]
    BY DEF RecordVerification
  <2>2. QED
    BY <1>1, <2>1, EscrowFinite, SumPlus DEF Sum
<1>4. UNCHANGED <<rescued, usdc>>
  BY DEF RecordVerification
<1>5. QED
  BY <1>1, <1>2, <1>3, <1>4, BackedSums DEF Surplus

LEMMA TransferToSettlementSurplus ==
  ASSUME TypeOK,
         NEW caller \in Accounts, NEW supplier \in Suppliers, NEW amount \in Amounts,
         TransferToSettlement(caller, supplier, amount)
  PROVE  Surplus' = Surplus
<1>1. /\ usdc \in [Accounts -> Nat] /\ supplierPendingTotals \in [Suppliers -> Nat]
      /\ amount \in Nat /\ settlementContract \in Settlements
  BY CallFacts DEF TypeOK, TransferToSettlement
<1>2. usdc'[Escrow] = usdc[Escrow] - amount
  <2>1. usdc' = Transfer(usdc, Escrow, settlementContract, amount)
    BY DEF TransferToSettlement
  <2>2. QED
    BY <1>1, <2>1, CallFacts, TransferEffect
<1>3. Sum(supplierPendingTotals', Suppliers) = Sum(supplierPendingTotals, Suppliers) - amount
  <2>1. supplierPendingTotals' = [supplierPendingTotals EXCEPT ![supplier] = @ - amount]
    BY DEF TransferToSettlement
  <2>2. QED
    BY <1>1, <2>1, EscrowFinite, SumMinus DEF Sum
<1>4. UNCHANGED <<rescued, brandBalances>>
  BY DEF TransferToSettlement
<1>5. usdc[Escrow] \in Int
  BY <1>1, CallFacts
<1>6. QED
  BY <1>1, <1>2, <1>3, <1>4, <1>5, BackedSums DEF Surplus

LEMMA WithdrawSurplus ==
  ASSUME TypeOK,
         NEW brand \in Brands, NEW amount \in Amounts, Withdraw(brand, amount)
  PROVE  Surplus' = Surplus
<1>1. usdc \in [Accounts -> Nat] /\ brandBalances \in [Brands -> Nat] /\ amount \in Nat
  BY CallFacts DEF TypeOK
<1>2. usdc'[Escrow] = usdc[Escrow] - amount
  <2>1. usdc' = Transfer(usdc, Escrow, brand, amount)
    BY DEF Withdraw
  <2>2. QED
    BY <1>1, <2>1, CallFacts, TransferEffect
<1>3. Sum(brandBalances', Brands) = Sum(brandBalances, Brands) - amount
  <2>1. brandBalances' = [brandBalances EXCEPT ![brand] = @ - amount]
    BY DEF Withdraw
  <2>2. QED
    BY <1>1, <2>1, EscrowFinite, SumMinus DEF Sum
<1>4. UNCHANGED <<rescued, supplierPendingTotals>>
  BY DEF Withdraw, historyVars
<1>5. usdc[Escrow] \in Int
  BY <1>1, CallFacts
<1>6. QED
  BY <1>1, <1>2, <1>3, <1>4, <1>5, BackedSums DEF Surplus

LEMMA EmergencyWithdrawSurplus ==
  ASSUME TypeOK,
         NEW caller \in Accounts, NEW to \in Accounts, NEW amount \in Amounts,
         EmergencyWithdraw(caller, to, amount)
  PROVE  Surplus' = Surplus
<1>1. usdc \in [Accounts -> Nat] /\ rescued \in [Accounts -> Nat] /\ amount \in Nat
  BY CallFacts DEF TypeOK
<1>2. /\ usdc' = Transfer(usdc, Escrow, to, amount)
      /\ rescued' = [rescued EXCEPT ![to] = @ + amount]
      /\ UNCHANGED <<brandBalances, supplierPendingTotals>>
  BY DEF EmergencyWithdraw, contractVars
<1>3. IsFiniteSet(Accounts \ {Escrow})
  BY EscrowFinite
<1>4. CASE to = Escrow
  <2>1. usdc'[Escrow] = usdc[Escrow]
    BY <1>1, <1>2, <1>4 DEF Transfer
  <2>2. \A a \in Accounts \ {Escrow} : rescued'[a] = rescued[a]
    BY <1>1, <1>2, <1>4
  <2>3. Sum(rescued', Accounts \ {Escrow}) = Sum(rescued, Accounts \ {Escrow})
    BY <1>3, <2>2, SumCongruent DEF Sum
  <2>4. QED
    BY <1>2, <2>1, <2>3 DEF Surplus
<1>5. CASE to # Escrow
  <2>1. usdc'[Escrow] = usdc[Escrow] - amount
    BY <1>1, <1>2, <1>5, CallFacts, TransferEffect
  <2>2. \A a \in Accounts \ {Escrow} :
           rescued'[a] = IF a = to THEN rescued[a] + amount ELSE rescued[a]
    BY <1>1, <1>2
  <2>3. \A a \in Accounts \ {Escrow} : rescued[a] \in Int
    BY <1>1
  <2>4. to \in Accounts \ {Escrow} /\ amount \in Int
    BY <1>1, <1>5
  <2>5. Sum(rescued', Accounts \ {Escrow}) = Sum(rescued, Accounts \ {Escrow}) + amount
    BY <1>3, <2>2, <2>3, <2>4, SumAdd DEF Sum
  <2>6. usdc[Escrow] \in Int
    BY <1>1, CallFacts
  <2>7. QED
    BY <1>1, <1>2, <2>1, <2>5, <2>6, BackedSums DEF Surplus
<1>6. QED
  BY <1>4, <1>5

\* Every step keeps the surplus.
LEMMA SurplusKept ==
  ASSUME TypeOK, [Next]_vars
  PROVE  Surplus' = Surplus
<1>1. ASSUME NEW caller \in Accounts, NEW target \in Settlements \cup {ZeroAddress},
             SetSettlementContract(caller, target)
      PROVE  Surplus' = Surplus
  BY <1>1, SurplusUnchanged DEF SetSettlementContract, historyVars
<1>2. ASSUME NEW caller \in Accounts, Pause(caller) \/ Unpause(caller)
      PROVE  Surplus' = Surplus
  BY <1>2, SurplusUnchanged DEF Pause, Unpause, historyVars
<1>3. CASE UNCHANGED vars
  BY <1>3, SurplusUnchanged DEF vars, contractVars, historyVars
<1>4. RescueTargets \subseteq Accounts
  BY EscrowAssumption DEF EscrowAssumption
<1>5. CASE Next
  BY <1>1, <1>2, <1>4, <1>5, DepositSurplus, RecordVerificationSurplus,
     TransferToSettlementSurplus, WithdrawSurplus, EmergencyWithdrawSurplus, Zenon DEF Next
<1>6. QED
  BY <1>3, <1>5

LEMMA BackedInductive ==
  ASSUME TypeOK, Backed, [Next]_vars
  PROVE  Backed'
<1>1. TypeOK'
  BY TypeOKInductive
<1>2. /\ usdc[Escrow] \in Int /\ usdc'[Escrow] \in Int
      /\ Sum(rescued, Accounts \ {Escrow}) \in Int
      /\ Sum(rescued', Accounts \ {Escrow}) \in Int
      /\ Sum(brandBalances, Brands) \in Int /\ Sum(brandBalances', Brands) \in Int
      /\ Sum(supplierPendingTotals, Suppliers) \in Int
      /\ Sum(supplierPendingTotals', Suppliers) \in Int
  <2>1. /\ \A a \in Accounts : rescued'[a] \in Int
        /\ \A b \in Brands : brandBalances'[b] \in Int
        /\ \A s \in Suppliers : supplierPendingTotals'[s] \in Int
        /\ usdc[Escrow] \in Int /\ usdc'[Escrow] \in Int
    BY <1>1, CallFacts DEF TypeOK
  <2>2. /\ Sum(rescued', Accounts \ {Escrow}) \in Int
        /\ Sum(brandBalances', Brands) \in Int
        /\ Sum(supplierPendingTotals', Suppliers) \in Int
    BY <2>1, EscrowFinite, SumInt DEF Sum
  <2>3. /\ Sum(rescued, Accounts \ {Escrow}) \in Int
        /\ Sum(brandBalances, Brands) \in Int
        /\ Sum(supplierPendingTotals, Suppliers) \in Int
    BY BackedSums
  <2>4. QED
    BY <2>1, <2>2, <2>3
<1>3. Surplus = 0
  BY <1>2 DEF Backed, Surplus
<1>4. Surplus' = 0
  BY <1>3, SurplusKept
<1>5. usdc'[Escrow] + Sum(rescued', Accounts \ {Escrow})
        - (Sum(brandBalances', Brands) + Sum(supplierPendingTotals', Suppliers)) = 0
  BY <1>4 DEF Surplus
<1>6. usdc'[Escrow] + Sum(rescued', Accounts \ {Escrow})
        = Sum(brandBalances', Brands) + Sum(supplierPendingTotals', Suppliers)
  BY <1>2, <1>5
<1>7. QED
  BY <1>6 DEF Backed

\* The escrow always holds what it owes to all brands and all suppliers.
THEOREM EscrowBacked == Spec => []Backed
<1>1. Init => Backed
  <2>1. SUFFICES ASSUME Init PROVE Backed
    OBVIOUS
  <2>2. /\ Sum(rescued, Accounts \ {Escrow}) = 0
        /\ Sum(brandBalances, Brands) = 0
        /\ Sum(supplierPendingTotals, Suppliers) = 0
    BY <2>1, EscrowFinite, SumZero, EscrowAssumption DEF Init, Sum, EscrowAssumption
  <2>3. usdc[Escrow] = 0
    BY <2>1, EscrowAssumption DEF Init, EscrowAssumption
  <2>4. QED
    BY <2>2, <2>3 DEF Backed
<1>2. QED
  BY <1>1, EscrowTypeCorrect, BackedInductive, PTL DEF Spec

-----------------------------------------------------------------------------
(* Draws against bills                                                     *)

\* The bills recorded for a supplier have an integer sum.
LEMMA PendingSums ==
  ASSUME TypeOK, NEW s \in Suppliers
  PROVE  Sum(PendingFrom(s), Brands) \in Int
BY EscrowFinite, SumInt DEF Sum, PendingFrom, TypeOK

\* Every step keeps draws and pending totals equal to the bills.
LEMMA PendingMatchesBillsInductive ==
  ASSUME TypeOK, PendingMatchesBills, [Next]_vars
  PROVE  PendingMatchesBills'
<1>1. ASSUME UNCHANGED <<pendingRecords, supplierPendingTotals, drawn>>
      PROVE  PendingMatchesBills'
  BY <1>1 DEF PendingMatchesBills, Sum, PendingFrom
<1>2. ASSUME NEW caller \in Accounts, NEW brand \in Brands, NEW supplier \in Suppliers,
             NEW amount \in Amounts, NEW receipt \in Receipts,
             RecordVerification(caller, brand, supplier, amount, receipt)
      PROVE  PendingMatchesBills'
  <2>1. SUFFICES ASSUME NEW s \in Suppliers
                 PROVE  supplierPendingTotals'[s] + drawn'[s]
                          = Sum(PendingFrom(s)', Brands)
    BY DEF PendingMatchesBills, Sum
  <2>2. amount \in Int /\ supplierPendingTotals[s] \in Int /\ drawn[s] \in Int
    BY CallFacts DEF TypeOK
  <2>3. /\ \A b \in Brands : PendingFrom(s)[b] = pendingRecords[b][s]
        /\ \A b \in Brands : PendingFrom(s)[b] \in Int
        /\ \A b \in Brands : PendingFrom(s)'[b] = pendingRecords'[b][s]
    BY DEF PendingFrom, TypeOK
  <2>4. drawn'[s] = drawn[s]
    BY <1>2 DEF RecordVerification
  <2>5. \A b \in Brands : pendingRecords'[b][s] = IF b = brand /\ s = supplier
                                                  THEN pendingRecords[b][s] + amount
                                                  ELSE pendingRecords[b][s]
    BY <1>2 DEF RecordVerification, TypeOK
  <2>6. CASE s = supplier
    <3>1. \A b \in Brands : PendingFrom(s)'[b] = IF b = brand THEN PendingFrom(s)[b] + amount
                                                 ELSE PendingFrom(s)[b]
      BY <2>3, <2>5, <2>6
    <3>2. Sum(PendingFrom(s)', Brands) = Sum(PendingFrom(s), Brands) + amount
      BY <2>2, <2>3, <3>1, EscrowFinite, SumAdd DEF Sum
    <3>3. supplierPendingTotals'[s] = supplierPendingTotals[s] + amount
      BY <1>2, <2>6 DEF RecordVerification, TypeOK
    <3>4. QED
      BY <2>2, <2>4, <3>2, <3>3, PendingSums DEF PendingMatchesBills
  <2>7. CASE s # supplier
    <3>1. \A b \in Brands : PendingFrom(s)'[b] = PendingFrom(s)[b]
      BY <2>3, <2>5, <2>7
    <3>2. Sum(PendingFrom(s)', Brands) = Sum(PendingFrom(s), Brands)
      BY <3>1, EscrowFinite, SumCongruent DEF Sum
    <3>3. supplierPendingTotals'[s] = supplierPendingTotals[s]
      BY <1>2, <2>7 DEF RecordVerification, TypeOK
    <3>4. QED
      BY <2>4, <3>2, <3>3 DEF PendingMatchesBills
  <2>8. QED
    BY <2>6, <2>7
<1>3. ASSUME NEW caller \in Accounts, NEW supplier \in Suppliers, NEW amount \in Amounts,
             TransferToSettlement(caller, supplier, amount)
      PROVE  PendingMatchesBills'
  <2>1. ASSUME NEW s \in Suppliers
        PROVE  supplierPendingTotals'[s] + drawn'[s] = supplierPendingTotals[s] + drawn[s]
    BY <1>3, CallFacts DEF TransferToSettlement, TypeOK
  <2>2. UNCHANGED pendingRecords
    BY <1>3 DEF TransferToSettlement
  <2>3. QED
    BY <2>1, <2>2 DEF PendingMatchesBills, Sum, PendingFrom
<1>4. ASSUME NEW caller, NEW target, NEW brand, NEW to, NEW amount,
             \/ SetSettlementContract(caller, target)
             \/ Deposit(brand, amount)
             \/ Withdraw(brand, amount)
             \/ Pause(caller) \/ Unpause(caller)
             \/ EmergencyWithdraw(caller, to, amount)
      PROVE  PendingMatchesBills'
  <2>1. UNCHANGED <<pendingRecords, supplierPendingTotals, drawn>>
    BY <1>4 DEF SetSettlementContract, Deposit, Withdraw, Pause, Unpause,
                EmergencyWithdraw, contractVars, historyVars
  <2>2. QED
    BY <1>1, <2>1
<1>5. CASE UNCHANGED vars
  <2>1. UNCHANGED <<pendingRecords, supplierPendingTotals, drawn>>
    BY <1>5 DEF vars, contractVars, historyVars
  <2>2. QED
    BY <1>1, <2>1
<1>6. CASE Next
  BY <1>2, <1>3, <1>4, <1>6, Zenon DEF Next
<1>7. QED
  BY <1>5, <1>6

LEMMA PendingInitially == Init => PendingMatchesBills
<1>1. SUFFICES ASSUME Init, NEW s \in Suppliers
               PROVE  supplierPendingTotals[s] + drawn[s] = Sum(PendingFrom(s), Brands)
  BY DEF PendingMatchesBills
<1>2. \A b \in Brands : PendingFrom(s)[b] = 0
  BY <1>1 DEF Init, PendingFrom
<1>3. Sum(PendingFrom(s), Brands) = 0
  BY <1>2, EscrowFinite, SumZero DEF Sum
<1>4. QED
  BY <1>1, <1>3 DEF Init

\* What is pending for a supplier plus what was drawn for it is what its brands
\* were billed for it: no draw is ever paid from another supplier's money.
THEOREM EscrowPendingMatchesBills == Spec => []PendingMatchesBills
BY PendingInitially, EscrowTypeCorrect, PendingMatchesBillsInductive, PTL DEF Spec

-----------------------------------------------------------------------------
(* A brand's money                                                         *)

\* What a transfer out of the escrow does to a brand's wallet.
LEMMA WalletEffect ==
  ASSUME TypeOK, NEW to \in Accounts, NEW amount \in Nat, NEW b \in Brands,
         usdc' = Transfer(usdc, Escrow, to, amount)
  PROVE  usdc'[b] = IF b = to THEN usdc[b] + amount ELSE usdc[b]
<1>1. usdc \in [Accounts -> Nat] /\ b \in Accounts /\ b # Escrow /\ Escrow \in Accounts
  BY CallFacts DEF TypeOK
<1>2. QED
  BY <1>1 DEF Transfer

\* What a brand has or was billed, less what was rescued to it.
BrandMoney(b) ==
  usdc[b] + brandBalances[b] + Sum(pendingRecords[b], Suppliers) - rescued[b]

LEMMA BrandSums ==
  ASSUME TypeOK, NEW b \in Brands
  PROVE  /\ usdc[b] \in Int /\ brandBalances[b] \in Int /\ rescued[b] \in Int
         /\ InitialBalances[b] \in Int
         /\ Sum(pendingRecords[b], Suppliers) \in Int
<1>1. \A s \in Suppliers : pendingRecords[b][s] \in Int
  BY DEF TypeOK
<1>2. QED
  BY <1>1, EscrowFinite, SumInt, CallFacts, EscrowAssumption
  DEF Sum, TypeOK, EscrowAssumption

\* No call of the escrow creates or destroys a brand's money: it moves between wallet,
\* deposit and bills, or comes by a rescue.
LEMMA BrandMoneyKept ==
  ASSUME TypeOK, [Next]_vars, NEW b \in Brands
  PROVE  BrandMoney(b)' = BrandMoney(b)
<1>1. ASSUME UNCHANGED <<usdc, brandBalances, pendingRecords, rescued>>
      PROVE  BrandMoney(b)' = BrandMoney(b)
  BY <1>1 DEF BrandMoney, Sum
<1>2. /\ usdc[b] \in Int /\ brandBalances[b] \in Int /\ rescued[b] \in Int
      /\ Sum(pendingRecords[b], Suppliers) \in Int
  BY BrandSums
<1>3. ASSUME NEW brand \in Brands, NEW amount \in Amounts, Deposit(brand, amount)
      PROVE  BrandMoney(b)' = BrandMoney(b)
  <2>1. /\ usdc' = Transfer(usdc, brand, Escrow, amount)
        /\ brandBalances' = [brandBalances EXCEPT ![brand] = @ + amount]
    BY <1>3 DEF Deposit
  <2>2. /\ usdc \in [Accounts -> Nat] /\ brandBalances \in [Brands -> Nat]
        /\ amount \in Nat
    BY CallFacts DEF TypeOK
  <2>3. usdc'[b] = IF b = brand THEN usdc[b] - amount ELSE usdc[b]
    BY <2>1, <2>2, CallFacts DEF Transfer
  <2>4. brandBalances'[b] = IF b = brand THEN brandBalances[b] + amount ELSE brandBalances[b]
    BY <2>1, <2>2
  <2>5. UNCHANGED <<pendingRecords, rescued>>
    BY <1>3 DEF Deposit, historyVars
  <2>6. QED
    BY <1>2, <2>2, <2>3, <2>4, <2>5 DEF BrandMoney, Sum
<1>4. ASSUME NEW brand \in Brands, NEW amount \in Amounts, Withdraw(brand, amount)
      PROVE  BrandMoney(b)' = BrandMoney(b)
  <2>1. /\ usdc' = Transfer(usdc, Escrow, brand, amount)
        /\ brandBalances' = [brandBalances EXCEPT ![brand] = @ - amount]
    BY <1>4 DEF Withdraw
  <2>2. brandBalances \in [Brands -> Nat] /\ amount \in Nat /\ brand \in Accounts
    BY CallFacts DEF TypeOK
  <2>3. usdc'[b] = IF b = brand THEN usdc[b] + amount ELSE usdc[b]
    BY <2>1, <2>2, WalletEffect
  <2>4. brandBalances'[b] = IF b = brand THEN brandBalances[b] - amount ELSE brandBalances[b]
    BY <2>1, <2>2
  <2>5. UNCHANGED <<pendingRecords, rescued>>
    BY <1>4 DEF Withdraw, historyVars
  <2>6. QED
    BY <1>2, <2>2, <2>3, <2>4, <2>5 DEF BrandMoney, Sum
<1>5. ASSUME NEW caller \in Accounts, NEW brand \in Brands, NEW supplier \in Suppliers,
             NEW amount \in Amounts, NEW receipt \in Receipts,
             RecordVerification(caller, brand, supplier, amount, receipt)
      PROVE  BrandMoney(b)' = BrandMoney(b)
  <2>1. UNCHANGED <<usdc, rescued>> /\ amount \in Int
    BY <1>5, CallFacts DEF RecordVerification
  <2>2. \A s \in Suppliers :
           pendingRecords'[b][s] = IF b = brand /\ s = supplier
                                   THEN pendingRecords[b][s] + amount
                                   ELSE pendingRecords[b][s]
    BY <1>5 DEF RecordVerification, TypeOK
  <2>3. brandBalances'[b] = IF b = brand THEN brandBalances[b] - amount ELSE brandBalances[b]
    BY <1>5 DEF RecordVerification, TypeOK
  <2>4. \A s \in Suppliers : pendingRecords[b][s] \in Int
    BY DEF TypeOK
  <2>5. CASE b = brand
    <3>1. \A s \in Suppliers :
             pendingRecords'[b][s] = IF s = supplier THEN pendingRecords[b][s] + amount
                                     ELSE pendingRecords[b][s]
      BY <2>2, <2>5
    <3>2. Sum(pendingRecords'[b], Suppliers) = Sum(pendingRecords[b], Suppliers) + amount
      BY <2>1, <2>4, <3>1, EscrowFinite, SumAdd DEF Sum
    <3>3. QED
      BY <1>2, <2>1, <2>3, <2>5, <3>2 DEF BrandMoney, Sum
  <2>6. CASE b # brand
    <3>1. \A s \in Suppliers : pendingRecords'[b][s] = pendingRecords[b][s]
      BY <2>2, <2>6
    <3>2. Sum(pendingRecords'[b], Suppliers) = Sum(pendingRecords[b], Suppliers)
      BY <3>1, EscrowFinite, SumCongruent DEF Sum
    <3>3. QED
      BY <2>1, <2>3, <2>6, <3>2 DEF BrandMoney, Sum
  <2>7. QED
    BY <2>5, <2>6
<1>6. ASSUME NEW caller \in Accounts, NEW supplier \in Suppliers, NEW amount \in Amounts,
             TransferToSettlement(caller, supplier, amount)
      PROVE  BrandMoney(b)' = BrandMoney(b)
  <2>1. /\ usdc' = Transfer(usdc, Escrow, settlementContract, amount)
        /\ settlementContract \in Settlements
        /\ UNCHANGED <<brandBalances, pendingRecords, rescued>>
    BY <1>6 DEF TransferToSettlement, TypeOK
  <2>2. usdc'[b] = usdc[b]
    BY <2>1, CallFacts, WalletEffect
  <2>3. QED
    BY <2>1, <2>2 DEF BrandMoney, Sum
<1>7. ASSUME NEW caller \in Accounts, NEW to \in RescueTargets, NEW amount \in Amounts,
             EmergencyWithdraw(caller, to, amount)
      PROVE  BrandMoney(b)' = BrandMoney(b)
  <2>1. /\ usdc' = Transfer(usdc, Escrow, to, amount)
        /\ rescued' = [rescued EXCEPT ![to] = @ + amount]
        /\ UNCHANGED <<brandBalances, pendingRecords>>
    BY <1>7 DEF EmergencyWithdraw, contractVars
  <2>2. to \in Accounts /\ amount \in Nat /\ rescued \in [Accounts -> Nat]
    BY EscrowAssumption DEF EscrowAssumption, TypeOK
  <2>3. usdc'[b] = IF b = to THEN usdc[b] + amount ELSE usdc[b]
    BY <2>1, <2>2, WalletEffect
  <2>4. rescued'[b] = IF b = to THEN rescued[b] + amount ELSE rescued[b]
    BY <2>1, <2>2, CallFacts
  <2>5. QED
    BY <1>2, <2>1, <2>2, <2>3, <2>4 DEF BrandMoney, Sum
<1>8. ASSUME NEW caller, NEW target,
             \/ SetSettlementContract(caller, target)
             \/ Pause(caller) \/ Unpause(caller)
      PROVE  BrandMoney(b)' = BrandMoney(b)
  <2>1. UNCHANGED <<usdc, brandBalances, pendingRecords, rescued>>
    BY <1>8 DEF SetSettlementContract, Pause, Unpause, historyVars
  <2>2. QED
    BY <1>1, <2>1
<1>9. CASE UNCHANGED vars
  <2>1. UNCHANGED <<usdc, brandBalances, pendingRecords, rescued>>
    BY <1>9 DEF vars, contractVars, historyVars
  <2>2. QED
    BY <1>1, <2>1
<1>10. CASE Next
  BY <1>3, <1>4, <1>5, <1>6, <1>7, <1>8, <1>10, Zenon DEF Next
<1>11. QED
  BY <1>9, <1>10

LEMMA BrandMoneyInductive ==
  ASSUME TypeOK, BrandMoneyConserved, [Next]_vars
  PROVE  BrandMoneyConserved'
<1>1. SUFFICES ASSUME NEW b \in Brands
               PROVE  usdc'[b] + brandBalances'[b] + Sum(pendingRecords'[b], Suppliers)
                        = InitialBalances[b] + rescued'[b]
  BY DEF BrandMoneyConserved, Sum
<1>2. BrandMoney(b)' = BrandMoney(b)
  BY BrandMoneyKept
<1>3. BrandMoney(b) = InitialBalances[b]
  BY BrandSums DEF BrandMoney, BrandMoneyConserved
<1>4. /\ usdc'[b] \in Int /\ brandBalances'[b] \in Int /\ rescued'[b] \in Int
      /\ Sum(pendingRecords'[b], Suppliers) \in Int
  <2>1. TypeOK'
    BY TypeOKInductive
  <2>2. \A s \in Suppliers : pendingRecords'[b][s] \in Int
    BY <2>1 DEF TypeOK
  <2>3. QED
    BY <2>1, <2>2, EscrowFinite, SumInt, CallFacts DEF Sum, TypeOK
<1>5. usdc'[b] + brandBalances'[b] + Sum(pendingRecords'[b], Suppliers) - rescued'[b]
        = InitialBalances[b]
  BY <1>2, <1>3 DEF BrandMoney, Sum
<1>6. QED
  BY <1>4, <1>5, BrandSums

\* A brand's wallet, its unspent deposit and its bills always add up to what it
\* started with and what was rescued to it: only recordVerification costs it.
THEOREM EscrowBrandMoneyConserved == Spec => []BrandMoneyConserved
<1>1. Init => BrandMoneyConserved
  <2>1. SUFFICES ASSUME Init, NEW b \in Brands
                 PROVE  usdc[b] + brandBalances[b] + Sum(pendingRecords[b], Suppliers)
                          = InitialBalances[b] + rescued[b]
    BY DEF BrandMoneyConserved
  <2>2. \A s \in Suppliers : pendingRecords[b][s] = 0
    BY <2>1 DEF Init
  <2>3. Sum(pendingRecords[b], Suppliers) = 0
    BY <2>2, EscrowFinite, SumZero DEF Sum
  <2>4. /\ usdc[b] = InitialBalances[b] /\ brandBalances[b] = 0 /\ rescued[b] = 0
        /\ InitialBalances[b] \in Int
    BY <2>1, CallFacts, EscrowAssumption DEF Init, EscrowAssumption
  <2>5. QED
    BY <2>3, <2>4
<1>2. QED
  BY <1>1, EscrowTypeCorrect, BrandMoneyInductive, PTL DEF Spec

-----------------------------------------------------------------------------
(* One bill per receipt                                                    *)

\* The strengthening: a receipt that is not recorded has no bill, so recording
\* it cannot replace one.
UnrecordedUnbilled == \A r \in Receipts \ recordedReceipts : billed[r] = NoBill

\* Bills and the receipts they are for change together.
LEMMA UnrecordedUnbilledInductive ==
  ASSUME TypeOK, UnrecordedUnbilled, [Next]_vars
  PROVE  UnrecordedUnbilled'
<1>1. ASSUME UNCHANGED <<recordedReceipts, billed>>
      PROVE  UnrecordedUnbilled'
  BY <1>1 DEF UnrecordedUnbilled
<1>2. ASSUME NEW caller \in Accounts, NEW brand \in Brands, NEW supplier \in Suppliers,
             NEW amount \in Amounts, NEW receipt \in Receipts,
             RecordVerification(caller, brand, supplier, amount, receipt)
      PROVE  UnrecordedUnbilled'
  BY <1>2 DEF RecordVerification, UnrecordedUnbilled, TypeOK
<1>3. ASSUME NEW caller, NEW target, NEW brand, NEW supplier, NEW to, NEW amount,
             \/ SetSettlementContract(caller, target)
             \/ Deposit(brand, amount)
             \/ TransferToSettlement(caller, supplier, amount)
             \/ Withdraw(brand, amount)
             \/ Pause(caller) \/ Unpause(caller)
             \/ EmergencyWithdraw(caller, to, amount)
      PROVE  UNCHANGED <<recordedReceipts, billed, pendingRecords>>
  BY <1>3 DEF SetSettlementContract, Deposit, TransferToSettlement, Withdraw, Pause,
              Unpause, EmergencyWithdraw, contractVars, historyVars
<1>4. CASE UNCHANGED vars
  BY <1>1, <1>4 DEF vars, contractVars, historyVars
<1>5. CASE Next
  BY <1>1, <1>2, <1>3, <1>5, Zenon DEF Next
<1>6. QED
  BY <1>4, <1>5

\* Every step keeps the audit trail equal to the bills.
LEMMA EachReceiptBilledOnceInductive ==
  ASSUME TypeOK, UnrecordedUnbilled, EachReceiptBilledOnce, [Next]_vars
  PROVE  EachReceiptBilledOnce'
<1>1. ASSUME UNCHANGED <<pendingRecords, billed>>
      PROVE  EachReceiptBilledOnce'
  BY <1>1 DEF EachReceiptBilledOnce, Sum, BilledTo
<1>2. ASSUME NEW caller \in Accounts, NEW brand \in Brands, NEW supplier \in Suppliers,
             NEW amount \in Amounts, NEW receipt \in Receipts,
             RecordVerification(caller, brand, supplier, amount, receipt)
      PROVE  EachReceiptBilledOnce'
  <2>1. SUFFICES ASSUME NEW b \in Brands, NEW s \in Suppliers
                 PROVE  pendingRecords'[b][s] = Sum(BilledTo(b, s)', Receipts)
    BY DEF EachReceiptBilledOnce, Sum
  <2> DEFINE bill == [brand |-> brand, supplier |-> supplier, amount |-> amount]
  <2>2. /\ receipt \notin recordedReceipts
        /\ billed' = [billed EXCEPT ![receipt] = bill]
    BY <1>2 DEF RecordVerification
  <2>3. amount \in Int
    BY CallFacts
  <2>4. pendingRecords'[b][s] = IF b = brand /\ s = supplier
                                THEN pendingRecords[b][s] + amount
                                ELSE pendingRecords[b][s]
    BY <1>2 DEF RecordVerification, TypeOK
  <2>5. billed[receipt].amount = 0
    BY <2>2 DEF UnrecordedUnbilled, NoBill
  <2>6. /\ \A r \in Receipts : billed[r].amount \in Nat
        /\ \A r \in Receipts \ {receipt} : billed'[r] = billed[r]
        /\ billed'[receipt].brand = brand /\ billed'[receipt].supplier = supplier
        /\ billed'[receipt].amount = amount
    BY <2>2 DEF TypeOK, Bill
  <2>7. \A r \in Receipts :
           /\ BilledTo(b, s)[r] = IF billed[r].brand = b /\ billed[r].supplier = s
                                  THEN billed[r].amount ELSE 0
           /\ BilledTo(b, s)'[r] = IF billed'[r].brand = b /\ billed'[r].supplier = s
                                   THEN billed'[r].amount ELSE 0
    BY DEF BilledTo
  <2>8. \A r \in Receipts : BilledTo(b, s)[r] \in Int
    BY <2>6, <2>7
  <2> HIDE DEF bill
  <2>9. CASE b = brand /\ s = supplier
    <3>1. \A r \in Receipts :
             BilledTo(b, s)'[r] = IF r = receipt THEN BilledTo(b, s)[r] + amount
                                  ELSE BilledTo(b, s)[r]
      BY <2>3, <2>5, <2>6, <2>7, <2>9
    <3>2. Sum(BilledTo(b, s)', Receipts) = Sum(BilledTo(b, s), Receipts) + amount
      BY <2>3, <2>8, <3>1, EscrowFinite, SumAdd DEF Sum
    <3>3. QED
      BY <2>4, <2>9, <3>2 DEF EachReceiptBilledOnce
  <2>10. CASE ~(b = brand /\ s = supplier)
    <3>1. \A r \in Receipts : BilledTo(b, s)'[r] = BilledTo(b, s)[r]
      BY <2>5, <2>6, <2>7, <2>10
    <3>2. Sum(BilledTo(b, s)', Receipts) = Sum(BilledTo(b, s), Receipts)
      BY <3>1, EscrowFinite, SumCongruent DEF Sum
    <3>3. QED
      BY <2>4, <2>10, <3>2 DEF EachReceiptBilledOnce
  <2>11. QED
    BY <2>9, <2>10
<1>3. ASSUME NEW caller, NEW target, NEW brand, NEW supplier, NEW to, NEW amount,
             \/ SetSettlementContract(caller, target)
             \/ Deposit(brand, amount)
             \/ TransferToSettlement(caller, supplier, amount)
             \/ Withdraw(brand, amount)
             \/ Pause(caller) \/ Unpause(caller)
             \/ EmergencyWithdraw(caller, to, amount)
      PROVE  EachReceiptBilledOnce'
  <2>1. UNCHANGED <<pendingRecords, billed>>
    BY <1>3 DEF SetSettlementContract, Deposit, TransferToSettlement, Withdraw, Pause,
                Unpause, EmergencyWithdraw, contractVars, historyVars
  <2>2. QED
    BY <1>1, <2>1
<1>4. CASE UNCHANGED vars
  <2>1. UNCHANGED <<pendingRecords, billed>>
    BY <1>4 DEF vars, contractVars, historyVars
  <2>2. QED
    BY <1>1, <2>1
<1>5. CASE Next
  BY <1>2, <1>3, <1>5, Zenon DEF Next
<1>6. QED
  BY <1>4, <1>5

LEMMA BillsInitially == Init => UnrecordedUnbilled /\ EachReceiptBilledOnce
<1>1. Init => UnrecordedUnbilled
  BY DEF Init, UnrecordedUnbilled
<1>2. Init => EachReceiptBilledOnce
  <2>1. SUFFICES ASSUME Init, NEW b \in Brands, NEW s \in Suppliers
                 PROVE  pendingRecords[b][s] = Sum(BilledTo(b, s), Receipts)
    BY DEF EachReceiptBilledOnce
  <2>2. \A r \in Receipts : BilledTo(b, s)[r] = 0
    BY <2>1 DEF Init, BilledTo, NoBill
  <2>3. Sum(BilledTo(b, s), Receipts) = 0
    BY <2>2, EscrowFinite, SumZero DEF Sum
  <2>4. QED
    BY <2>1, <2>3 DEF Init
<1>3. QED
  BY <1>1, <1>2

\* What a brand owes a supplier is the sum of the bills of the receipts recorded
\* for them: no receipt is ever billed twice.
THEOREM EscrowBillsOnce == Spec => []EachReceiptBilledOnce
BY BillsInitially, EscrowTypeCorrect, UnrecordedUnbilledInductive,
   EachReceiptBilledOnceInductive, PTL DEF Spec

=============================================================================
