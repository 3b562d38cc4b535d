----------------------- MODULE RoyaltyProtocolProofs -----------------------
(***************************************************************************)
(* The two contracts deployed together, for every choice of accounts,      *)
(* receipts, statements and amounts: type correctness, the money that the  *)
(* escrow sends to the settlement contract arrives there, and the          *)
(* settlement contract is solvent as long as the owner submits no more     *)
(* than it drew; and what each contract promises alone it still promises,  *)
(* as far as it does not speak of balances that the other may add to.      *)
(* What each contract does on its own is not proved again:                 *)
(* the lemmas of VerificationEscrowProofs and RoyaltySettlementProofs are  *)
(* instantiated with the state of the composition.                         *)
(***************************************************************************)
EXTENDS RoyaltyProtocol, RecursionLemmas

EscrowProofs == INSTANCE VerificationEscrowProofs WITH
  Settlements <- {Settlement}, paused <- escrowPaused, rescued <- escrowRescued

\* The counters of the timed window play no part here.
SettlementProofs == INSTANCE RoyaltySettlementProofs WITH
  paused <- settlementPaused, rescued <- settlementRescued,
  disputable <- [id \in StatementIds |-> 0], lost <- [id \in StatementIds |-> 0]

-----------------------------------------------------------------------------
(* The instances                                                           *)

LEMMA SameFinite ==
  \A S : /\ EscrowProofs!IsFiniteSet(S) <=> IsFiniteSet(S)
         /\ SettlementProofs!IsFiniteSet(S) <=> IsFiniteSet(S)
BY DEF IsFiniteSet, EscrowProofs!IsFiniteSet, SettlementProofs!IsFiniteSet

\* ProtocolAssumption is what the two contracts assume of the composition, so that
\* their lemmas hold of it: the formulas below are EscrowAssumption and
\* SettlementAssumption under the two instances.
LEMMA EscrowAssumed ==
  /\ EscrowProofs!IsFiniteSet(Accounts) /\ EscrowProofs!IsFiniteSet(Receipts)
  /\ ZeroAddress \notin Accounts
  /\ Owner \in Accounts /\ Escrow \in Accounts
  /\ Brands \subseteq Accounts /\ Suppliers \subseteq Accounts
  /\ {Settlement} \subseteq Accounts /\ RescueTargets \subseteq Accounts
  /\ Escrow \notin Brands \cup {Settlement}
  /\ Brands \cap {Settlement} = {}
  /\ Amounts \subseteq Nat
  /\ InitialBalances \in [Accounts -> Nat]
  /\ InitialBalances[Escrow] = 0
  /\ MaxRescued \in Nat
BY SameFinite, ProtocolAssumption DEF ProtocolAssumption

LEMMA SettlementAssumed ==
  /\ SettlementProofs!IsFiniteSet(Accounts) /\ SettlementProofs!IsFiniteSet(StatementIds)
  /\ ZeroAddress \notin Accounts
  /\ Owner \in Accounts /\ Settlement \in Accounts
  /\ Suppliers \subseteq Accounts
  /\ Funders \subseteq Accounts /\ RescueTargets \subseteq Accounts
  /\ Amounts \subseteq Nat /\ Windows \subseteq Nat
  /\ DEFAULT_DISPUTE_WINDOW \in Nat \ {0} /\ MAX_DISPUTE_WINDOW \in Nat
  /\ DEFAULT_DISPUTE_WINDOW <= MAX_DISPUTE_WINDOW
  /\ InitialBalances \in [Accounts -> Nat]
  /\ MaxTime \in Nat /\ MaxRescued \in Nat
BY SameFinite, ProtocolAssumption DEF ProtocolAssumption

LEMMA SameEscrowNext == EscrowContract!Next <=> EscrowProofs!Next
BY DEF EscrowContract!Next, EscrowContract!SetSettlementContract,
       EscrowContract!Deposit, EscrowContract!RecordVerification,
       EscrowContract!TransferToSettlement, EscrowContract!Withdraw,
       EscrowContract!Pause, EscrowContract!Unpause, EscrowContract!EmergencyWithdraw,
       EscrowContract!contractVars, EscrowContract!historyVars,
       EscrowContract!Covers, EscrowContract!Transfer,
       EscrowProofs!Next, EscrowProofs!SetSettlementContract,
       EscrowProofs!Deposit, EscrowProofs!RecordVerification,
       EscrowProofs!TransferToSettlement, EscrowProofs!Withdraw,
       EscrowProofs!Pause, EscrowProofs!Unpause, EscrowProofs!EmergencyWithdraw,
       EscrowProofs!contractVars, EscrowProofs!historyVars,
       EscrowProofs!Covers, EscrowProofs!Transfer

LEMMA SameSettlementNext == SettlementContract!Next <=> SettlementProofs!Next
BY DEF SettlementContract!Next, SettlementContract!SubmitStatement,
       SettlementContract!FinalizeStatement, SettlementContract!DisputeStatement,
       SettlementContract!ClaimPayment, SettlementContract!SetDisputeWindow,
       SettlementContract!Pause, SettlementContract!Unpause,
       SettlementContract!EmergencyWithdraw, SettlementContract!Tick,
       SettlementContract!Fund, SettlementContract!Submitted,
       SettlementContract!WindowEnd, SettlementContract!contractVars,
       SettlementContract!historyVars, SettlementContract!Covers,
       SettlementContract!Transfer,
       SettlementProofs!Next, SettlementProofs!SubmitStatement,
       SettlementProofs!FinalizeStatement, SettlementProofs!DisputeStatement,
       SettlementProofs!ClaimPayment, SettlementProofs!SetDisputeWindow,
       SettlementProofs!Pause, SettlementProofs!Unpause,
       SettlementProofs!EmergencyWithdraw, SettlementProofs!Tick,
       SettlementProofs!Fund, SettlementProofs!Submitted,
       SettlementProofs!WindowEnd, SettlementProofs!contractVars,
       SettlementProofs!historyVars, SettlementProofs!Covers,
       SettlementProofs!Transfer

LEMMA SameTypes ==
  /\ EscrowContract!TypeOK <=> EscrowProofs!TypeOK
  /\ SettlementContract!TypeOK <=> SettlementProofs!TypeOK
  /\ EscrowContract!TypeOK' <=> EscrowProofs!TypeOK'
  /\ SettlementContract!TypeOK' <=> SettlementProofs!TypeOK'
BY DEF EscrowContract!TypeOK, EscrowProofs!TypeOK, EscrowContract!Bill,
       EscrowProofs!Bill, SettlementContract!TypeOK, SettlementProofs!TypeOK,
       SettlementContract!Statement, SettlementProofs!Statement,
       SettlementContract!Statuses, SettlementProofs!Statuses

LEMMA SameInits ==
  /\ EscrowContract!Init <=> EscrowProofs!Init
  /\ SettlementContract!Init <=> SettlementProofs!Init
BY DEF EscrowContract!Init, EscrowProofs!Init, EscrowContract!NoBill,
       EscrowProofs!NoBill, SettlementContract!Init, SettlementProofs!Init,
       SettlementContract!NoStatement, SettlementProofs!NoStatement

-----------------------------------------------------------------------------
(* Type correctness                                                        *)

\* A call of one contract keeps its own types by its own lemma; of the state of the
\* other contract it changes the shared ledger only, which stays a ledger.
LEMMA ProtocolTypeInductive ==
  ASSUME TypeOK, [Next]_vars
  PROVE  TypeOK'
<1>1. CASE UNCHANGED vars
  BY <1>1 DEF vars, escrowVars, settlementVars, TypeOK,
              EscrowContract!TypeOK, SettlementContract!TypeOK
<1>2. CASE EscrowCall
  <2>1. EscrowContract!TypeOK'
    <3>1. EscrowProofs!TypeOK /\ EscrowProofs!Next
      BY <1>2, SameTypes, SameEscrowNext DEF TypeOK, EscrowCall
    <3>2. EscrowProofs!TypeOK'
      BY <3>1, EscrowAssumed, EscrowProofs!TypeOKInductive
    <3>3. QED
      BY <3>2, SameTypes
  <2>2. usdc' \in [Accounts -> Nat]
    BY <2>1 DEF EscrowContract!TypeOK
  <2>3. QED
    BY <1>2, <2>1, <2>2 DEF TypeOK, EscrowCall, settlementVars, SettlementContract!TypeOK
<1>3. CASE SettlementCall
  <2>1. SettlementContract!TypeOK'
    <3>1. SettlementProofs!TypeOK /\ SettlementProofs!Next
      BY <1>3, SameTypes, SameSettlementNext DEF TypeOK, SettlementCall
    <3>2. SettlementProofs!TypeOK'
      BY <3>1, SettlementAssumed, SettlementProofs!SettlementTypeInductive
    <3>3. QED
      BY <3>2, SameTypes
  <2>2. usdc' \in [Accounts -> Nat]
    BY <2>1 DEF SettlementContract!TypeOK
  <2>3. QED
    BY <1>3, <2>1, <2>2 DEF TypeOK, SettlementCall, escrowVars, EscrowContract!TypeOK
<1>4. QED
  BY <1>1, <1>2, <1>3 DEF Next

LEMMA ProtocolTypeInit == Init => TypeOK
<1>1. EscrowProofs!Init => EscrowProofs!TypeOK
  BY EscrowAssumed, EscrowProofs!TypeOKInitially
<1>2. SettlementProofs!Init => SettlementProofs!TypeOK
  BY SettlementAssumed, SettlementProofs!SettlementTypeInit
<1>3. QED
  BY <1>1, <1>2, SameInits, SameTypes DEF Init, TypeOK

\* Every variable of the two contracts and of the ledger they share always has its
\* type, whichever contract is called: neither can overdraw an account of the other.
THEOREM ProtocolTypeCorrect == Spec => []TypeOK
BY ProtocolTypeInit, ProtocolTypeInductive, PTL DEF Spec

-----------------------------------------------------------------------------
(* Drawn money arrives                                                     *)

\* The sets the sums range over are finite, and callers' amounts are naturals.
LEMMA ProtocolFacts ==
  /\ IsFiniteSet(Brands) /\ IsFiniteSet(Suppliers) /\ IsFiniteSet(StatementIds)
  /\ IsFiniteSet(Accounts \ {Settlement})
  /\ Brands \subseteq Accounts /\ Suppliers \subseteq Accounts
  /\ Funders \subseteq Accounts /\ RescueTargets \subseteq Accounts
  /\ Settlement \in Accounts /\ Escrow \in Accounts /\ Settlement # Escrow
  /\ Escrow \notin Funders /\ Settlement \notin Brands /\ ZeroAddress \notin Accounts
  /\ Amounts \subseteq Nat
  /\ DEFAULT_DISPUTE_WINDOW \in Nat
BY ProtocolAssumption, FS_Subset DEF ProtocolAssumption

\* The sums of DrawnMoneyArrives are naturals.
LEMMA MoneySums ==
  ASSUME TypeOK
  PROVE  /\ usdc \in [Accounts -> Nat]
         /\ drawn \in [Suppliers -> Nat] /\ claimed \in [Suppliers -> Nat]
         /\ claimableBalances \in [Suppliers -> Nat]
         /\ settlementRescued \in [Accounts -> Nat]
         /\ Sum(drawn, Suppliers) \in Nat /\ Sum(claimed, Suppliers) \in Nat
         /\ Sum(claimableBalances, Suppliers) \in Nat
         /\ Sum(settlementRescued, Accounts \ {Settlement}) \in Nat
<1>1. /\ usdc \in [Accounts -> Nat]
      /\ drawn \in [Suppliers -> Nat] /\ claimed \in [Suppliers -> Nat]
      /\ claimableBalances \in [Suppliers -> Nat]
      /\ settlementRescued \in [Accounts -> Nat]
  BY DEF TypeOK, EscrowContract!TypeOK, SettlementContract!TypeOK
<1>2. QED
  BY <1>1, ProtocolFacts, SumNat DEF Sum

\* A call of the escrow sends the settlement contract at least what it notes as
\* drawn; transferToSettlement is the only one that notes anything.
LEMMA EscrowCallPays ==
  ASSUME TypeOK, EscrowContract!Next
  PROVE  Sum(drawn', Suppliers) - Sum(drawn, Suppliers)
           <= usdc'[Settlement] - usdc[Settlement]
<1> DEFINE Pays == Sum(drawn', Suppliers) - Sum(drawn, Suppliers)
                     <= usdc'[Settlement] - usdc[Settlement]
<1>1. usdc[Settlement] \in Nat /\ Sum(drawn, Suppliers) \in Nat
  BY MoneySums, ProtocolFacts
<1>2. ASSUME drawn' = drawn, usdc'[Settlement] >= usdc[Settlement],
             usdc'[Settlement] \in Int
      PROVE  Pays
  BY <1>1, <1>2
<1>3. ASSUME drawn' = drawn, usdc' = usdc
      PROVE  Pays
  BY <1>1, <1>3
<1>4. ASSUME drawn' = drawn,
             NEW from \in Accounts \ {Settlement}, NEW to \in Accounts, NEW amount \in Nat,
             usdc' = [usdc EXCEPT ![from] = @ - amount, ![to] = @ + amount]
      PROVE  Pays
  <2>1. usdc'[Settlement] >= usdc[Settlement] /\ usdc'[Settlement] \in Int
    BY <1>4, MoneySums, ProtocolFacts
  <2>2. QED
    BY <1>2, <1>4, <2>1
<1>5. ASSUME NEW brand \in Brands, NEW amount \in Amounts,
             EscrowContract!Deposit(brand, amount)
      PROVE  Pays
  <2>1. /\ drawn' = drawn /\ brand \in Accounts \ {Settlement} /\ amount \in Nat
        /\ usdc' = [usdc EXCEPT ![brand] = @ - amount, ![Escrow] = @ + amount]
    BY <1>5, ProtocolFacts
    DEF EscrowContract!Deposit, EscrowContract!historyVars, EscrowContract!Transfer
  <2>2. QED
    BY <1>4, <2>1, ProtocolFacts
<1>6. ASSUME NEW caller \in Accounts, NEW supplier \in Suppliers, NEW amount \in Amounts,
             EscrowContract!TransferToSettlement(caller, supplier, amount)
      PROVE  Pays
  <2>1. /\ amount \in Nat
        /\ usdc' = [usdc EXCEPT ![Escrow] = @ - amount, ![settlementContract] = @ + amount]
        /\ drawn' = [drawn EXCEPT ![supplier] = @ + amount]
    BY <1>6, ProtocolFacts DEF EscrowContract!TransferToSettlement, EscrowContract!Transfer
  <2>2. settlementContract = Settlement
    BY <1>6 DEF EscrowContract!TransferToSettlement, TypeOK, EscrowContract!TypeOK
  <2>3. usdc'[Settlement] = usdc[Settlement] + amount
    BY <2>1, <2>2, MoneySums, ProtocolFacts
  <2>4. Sum(drawn', Suppliers) = Sum(drawn, Suppliers) + amount
    <3>1. IsFiniteSet(Suppliers) /\ drawn \in [Suppliers -> Nat]
      BY MoneySums, ProtocolFacts
    <3>2. QED
      BY <2>1, <3>1, SumPlus DEF Sum
  <2>5. QED
    BY <1>1, <2>1, <2>3, <2>4
<1>7. ASSUME NEW brand \in Brands, NEW amount \in Amounts,
             EscrowContract!Withdraw(brand, amount)
      PROVE  Pays
  <2>1. /\ drawn' = drawn /\ brand \in Accounts /\ amount \in Nat
        /\ usdc' = [usdc EXCEPT ![Escrow] = @ - amount, ![brand] = @ + amount]
    BY <1>7, ProtocolFacts
    DEF EscrowContract!Withdraw, EscrowContract!historyVars, EscrowContract!Transfer
  <2>2. QED
    BY <1>4, <2>1, ProtocolFacts
<1>8. ASSUME NEW caller \in Accounts, NEW to \in RescueTargets, NEW amount \in Amounts,
             EscrowContract!EmergencyWithdraw(caller, to, amount)
      PROVE  Pays
  <2>1. /\ drawn' = drawn /\ to \in Accounts /\ amount \in Nat
        /\ usdc' = [usdc EXCEPT ![Escrow] = @ - amount, ![to] = @ + amount]
    BY <1>8, ProtocolFacts DEF EscrowContract!EmergencyWithdraw, EscrowContract!Transfer
  <2>2. QED
    BY <1>4, <2>1, ProtocolFacts
<1>9. ASSUME NEW caller, NEW target, NEW brand, NEW supplier, NEW amount, NEW receipt,
             \/ EscrowContract!SetSettlementContract(caller, target)
             \/ EscrowContract!RecordVerification(caller, brand, supplier, amount, receipt)
             \/ EscrowContract!Pause(caller) \/ EscrowContract!Unpause(caller)
      PROVE  Pays
  <2>1. drawn' = drawn /\ usdc' = usdc
    BY <1>9 DEF EscrowContract!SetSettlementContract, EscrowContract!RecordVerification,
                EscrowContract!Pause, EscrowContract!Unpause, EscrowContract!historyVars
  <2>2. QED
    BY <1>3, <2>1
<1> HIDE DEF Pays
<1>10. Pays
  BY <1>5, <1>6, <1>7, <1>8, <1>9, Zenon DEF EscrowContract!Next
<1>11. QED
  BY <1>10 DEF Pays

\* A call of the settlement contract takes out of it no more than it notes as claimed
\* by a supplier or rescued to another account.
LEMMA SettlementCallKeeps ==
  ASSUME TypeOK, SettlementContract!Next
  PROVE  usdc'[Settlement] + Sum(settlementRescued', Accounts \ {Settlement})
            + Sum(claimed', Suppliers)
           >= usdc[Settlement] + Sum(settlementRescued, Accounts \ {Settlement})
                + Sum(claimed, Suppliers)
<1> DEFINE Others == Accounts \ {Settlement}
           Keeps == usdc'[Settlement] + Sum(settlementRescued', Others)
                      + Sum(claimed', Suppliers)
                     >= usdc[Settlement] + Sum(settlementRescued, Others)
                          + Sum(claimed, Suppliers)
<1>1. /\ usdc[Settlement] \in Nat /\ Sum(settlementRescued, Others) \in Nat
      /\ Sum(claimed, Suppliers) \in Nat
  BY MoneySums, ProtocolFacts
<1>2. ASSUME NEW caller \in Suppliers, SettlementContract!ClaimPayment(caller)
      PROVE  Keeps
  <2> DEFINE amount == claimableBalances[caller]
  <2>1. /\ amount \in Nat /\ caller \in Accounts /\ settlementRescued' = settlementRescued
        /\ usdc' = [usdc EXCEPT ![Settlement] = @ - amount, ![caller] = @ + amount]
        /\ claimed' = [claimed EXCEPT ![caller] = @ + amount]
    BY <1>2, MoneySums, ProtocolFacts
    DEF SettlementContract!ClaimPayment, SettlementContract!Transfer
  <2> HIDE DEF amount
  <2>2. usdc'[Settlement] \in Int /\ usdc'[Settlement] >= usdc[Settlement] - amount
    BY <2>1, MoneySums, ProtocolFacts
  <2>3. Sum(claimed', Suppliers) = Sum(claimed, Suppliers) + amount
    <3>1. IsFiniteSet(Suppliers) /\ claimed \in [Suppliers -> Nat]
      BY MoneySums, ProtocolFacts
    <3>2. QED
      BY <2>1, <3>1, SumPlus DEF Sum
  <2>4. QED
    BY <1>1, <2>1, <2>2, <2>3
<1>3. ASSUME NEW caller \in Accounts, NEW to \in RescueTargets, NEW amount \in Amounts,
             SettlementContract!EmergencyWithdraw(caller, to, amount)
      PROVE  Keeps
  <2>1. /\ amount \in Nat /\ to \in Accounts /\ claimed' = claimed
        /\ usdc' = [usdc EXCEPT ![Settlement] = @ - amount, ![to] = @ + amount]
        /\ settlementRescued' = [settlementRescued EXCEPT ![to] = @ + amount]
    BY <1>3, ProtocolFacts
    DEF SettlementContract!EmergencyWithdraw, SettlementContract!Transfer
  <2>2. CASE to = Settlement
    <3>1. usdc'[Settlement] = usdc[Settlement]
      BY <2>1, <2>2, MoneySums, ProtocolFacts
    <3>2. \A a \in Others : settlementRescued'[a] = settlementRescued[a]
      BY <2>1, <2>2, MoneySums
    <3>3. Sum(settlementRescued', Others) = Sum(settlementRescued, Others)
      BY <3>2, ProtocolFacts, SumCongruent DEF Sum
    <3>4. QED
      BY <1>1, <2>1, <3>1, <3>3
  <2>3. CASE to # Settlement
    <3>1. usdc'[Settlement] = usdc[Settlement] - amount
      BY <2>1, <2>3, MoneySums, ProtocolFacts
    <3>2. \A a \in Others : /\ settlementRescued[a] \in Int
                            /\ settlementRescued'[a] = IF a = to
                                 THEN settlementRescued[a] + amount
                                 ELSE settlementRescued[a]
      BY <2>1, MoneySums
    <3>3. to \in Others /\ IsFiniteSet(Others) /\ amount \in Int
      BY <2>1, <2>3, ProtocolFacts
    <3> HIDE DEF Others
    <3>4. Sum(settlementRescued', Others) = Sum(settlementRescued, Others) + amount
      BY <3>2, <3>3, SumAdd DEF Sum
    <3>5. QED
      BY <1>1, <2>1, <3>1, <3>4
  <2>4. QED
    BY <2>2, <2>3
<1>4. ASSUME NEW from \in Funders, NEW amount \in Amounts, SettlementContract!Fund(from, amount)
      PROVE  Keeps
  <2>1. /\ amount \in Nat /\ from \in Accounts
        /\ claimed' = claimed /\ settlementRescued' = settlementRescued
        /\ usdc' = [usdc EXCEPT ![from] = @ - amount, ![Settlement] = @ + amount]
    BY <1>4, ProtocolFacts
    DEF SettlementContract!Fund, SettlementContract!Transfer, SettlementContract!historyVars
  <2>2. usdc'[Settlement] \in Int /\ usdc'[Settlement] >= usdc[Settlement]
    BY <2>1, MoneySums, ProtocolFacts
  <2>3. QED
    BY <1>1, <2>1, <2>2
<1>5. ASSUME NEW caller, NEW id, NEW supplier, NEW amount, NEW window,
             \/ SettlementContract!SubmitStatement(caller, id, supplier, amount)
             \/ SettlementContract!FinalizeStatement(id)
             \/ SettlementContract!DisputeStatement(caller, id)
             \/ SettlementContract!SetDisputeWindow(caller, window)
             \/ SettlementContract!Pause(caller) \/ SettlementContract!Unpause(caller)
             \/ SettlementContract!Tick
      PROVE  Keeps
  <2>1. UNCHANGED <<usdc, claimed, settlementRescued>>
    BY <1>5 DEF SettlementContract!SubmitStatement, SettlementContract!FinalizeStatement,
                SettlementContract!DisputeStatement, SettlementContract!SetDisputeWindow,
                SettlementContract!Pause, SettlementContract!Unpause,
                SettlementContract!Tick, SettlementContract!historyVars
  <2>2. QED
    BY <1>1, <2>1
<1> HIDE DEF Keeps
<1>6. Keeps
  BY <1>2, <1>3, <1>4, <1>5, Zenon DEF SettlementContract!Next
<1>7. QED
  BY <1>6 DEF Keeps

LEMMA DrawnMoneyInductive ==
  ASSUME TypeOK, DrawnMoneyArrives, [Next]_vars
  PROVE  DrawnMoneyArrives'
<1>1. TypeOK'
  BY ProtocolTypeInductive
<1>2. /\ usdc[Settlement] \in Nat /\ usdc'[Settlement] \in Nat
      /\ Sum(drawn, Suppliers) \in Nat /\ Sum(drawn', Suppliers) \in Nat
      /\ Sum(claimed, Suppliers) \in Nat /\ Sum(claimed', Suppliers) \in Nat
      /\ Sum(settlementRescued, Accounts \ {Settlement}) \in Nat
      /\ Sum(settlementRescued', Accounts \ {Settlement}) \in Nat
  <2>1. /\ usdc' \in [Accounts -> Nat] /\ drawn' \in [Suppliers -> Nat]
        /\ claimed' \in [Suppliers -> Nat] /\ settlementRescued' \in [Accounts -> Nat]
    BY <1>1 DEF TypeOK, EscrowContract!TypeOK, SettlementContract!TypeOK
  <2>2. /\ Sum(drawn', Suppliers) \in Nat /\ Sum(claimed', Suppliers) \in Nat
        /\ Sum(settlementRescued', Accounts \ {Settlement}) \in Nat
    BY <2>1, ProtocolFacts, SumNat DEF Sum
  <2>3. QED
    BY <2>1, <2>2, MoneySums, ProtocolFacts
<1>3. CASE UNCHANGED vars
  BY <1>3 DEF vars, escrowVars, settlementVars, DrawnMoneyArrives, Sum
<1>4. CASE EscrowCall
  <2>1. UNCHANGED <<claimed, settlementRescued>>
    BY <1>4 DEF EscrowCall, settlementVars
  <2>2. QED
    BY <1>2, <1>4, <2>1, EscrowCallPays DEF EscrowCall, DrawnMoneyArrives, Sum
<1>5. CASE SettlementCall
  <2>1. UNCHANGED drawn
    BY <1>5 DEF SettlementCall, escrowVars
  <2>2. QED
    BY <1>2, <1>5, <2>1, SettlementCallKeeps DEF SettlementCall, DrawnMoneyArrives, Sum
<1>6. QED
  BY <1>3, <1>4, <1>5 DEF Next

LEMMA DrawnMoneyInit == Init => DrawnMoneyArrives
<1>1. SUFFICES ASSUME Init PROVE DrawnMoneyArrives
  OBVIOUS
<1>2. \A s \in Suppliers : drawn[s] = 0
  BY <1>1 DEF Init, EscrowContract!Init
<1>3. Sum(drawn, Suppliers) = 0
  BY <1>2, ProtocolFacts, SumZero DEF Sum
<1>4. TypeOK
  BY <1>1, ProtocolTypeInit
<1>5. QED
  BY <1>3, <1>4, MoneySums, ProtocolFacts DEF DrawnMoneyArrives

\* What transferToSettlement notes as drawn for suppliers has arrived at the
\* settlement contract: it is still there, or it was claimed by a supplier or rescued
\* by the owner.  No other call of either contract can take it away.
THEOREM ProtocolDrawnMoneyArrives == Spec => []DrawnMoneyArrives
BY DrawnMoneyInit, DrawnMoneyInductive, ProtocolTypeCorrect, PTL DEF Spec

-----------------------------------------------------------------------------
(* Solvency                                                                *)

LEMMA SameSum ==
  \A f, S : SettlementProofs!SumFunctionOnSet(f, S) = SumFunctionOnSet(f, S)
BY DEF SumFunctionOnSet, FoldFunctionOnSet, MapThenFoldSet,
       SettlementProofs!SumFunctionOnSet, SettlementProofs!FoldFunctionOnSet,
       SettlementProofs!MapThenFoldSet

\* The credits of the settlement contract stay what its own lemmas say: the escrow
\* does not touch them.
Credits == SettlementProofs!HasSupplier /\ SettlementProofs!CreditedOnce

LEMMA CreditsInductive ==
  ASSUME TypeOK, Credits, [Next]_vars
  PROVE  Credits'
<1>1. ASSUME UNCHANGED settlementVars
      PROVE  Credits'
  BY <1>1 DEF settlementVars, Credits, SettlementProofs!HasSupplier,
              SettlementProofs!CreditedOnce, SettlementProofs!FinalizedFor
<1>2. CASE SettlementCall
  <2>1. SettlementProofs!TypeOK /\ SettlementProofs!Next
    BY <1>2, SameTypes, SameSettlementNext DEF TypeOK, SettlementCall
  <2>2. SettlementProofs!HasSupplier'
    BY <2>1, SettlementAssumed, SettlementProofs!HasSupplierInductive DEF Credits
  <2>3. SettlementProofs!CreditedOnce'
    BY <2>1, SettlementAssumed, SettlementProofs!CreditedOnceInductive DEF Credits
  <2>4. QED
    BY <2>2, <2>3 DEF Credits
<1>3. QED
  BY <1>1, <1>2 DEF Next, EscrowCall, vars

\* Finalized totals, and whose they are.
FinalizedTotals ==
  [id \in StatementIds |-> IF statements[id].status = "Finalized"
                           THEN statements[id].totalAmount ELSE 0]
SupplierOf == [id \in StatementIds |-> statements[id].supplier]

\* All that suppliers can claim or have claimed is the total of the finalized
\* statements: each supplier's part is its own by CreditedOnce, and every finalized
\* statement has a supplier.
LEMMA AllCredits ==
  ASSUME TypeOK, Credits
  PROVE  Sum(claimableBalances, Suppliers) + Sum(claimed, Suppliers)
           = Sum(FinalizedTotals, StatementIds)
<1> DEFINE credit == [s \in Suppliers |-> claimableBalances[s] + claimed[s]]
           share(s) == ShareOf(FinalizedTotals, SupplierOf, StatementIds, s)
           shares == [s \in Suppliers |-> SumFunctionOnSet(share(s), StatementIds)]
<1>1. /\ IsFiniteSet(StatementIds) /\ IsFiniteSet(Suppliers)
      /\ \A id \in StatementIds : statements[id].totalAmount \in Nat
      /\ \A s \in Suppliers : claimableBalances[s] \in Int /\ claimed[s] \in Int
  BY MoneySums, ProtocolFacts
  DEF TypeOK, SettlementContract!TypeOK, SettlementContract!Statement
<1>2. Sum(credit, Suppliers) = Sum(claimableBalances, Suppliers) + Sum(claimed, Suppliers)
  <2>1. \A s \in Suppliers : credit[s] = claimableBalances[s] + claimed[s]
    OBVIOUS
  <2> HIDE DEF credit
  <2>2. QED
    BY <1>1, <2>1, SumTogether DEF Sum
<1>3. \A s \in Suppliers : credit[s] = shares[s]
  <2>1. SUFFICES ASSUME NEW s \in Suppliers
                 PROVE  claimableBalances[s] + claimed[s]
                          = SumFunctionOnSet(share(s), StatementIds)
    OBVIOUS
  <2>2. share(s) = SettlementProofs!FinalizedFor(s)
    BY DEF ShareOf, FinalizedTotals, SupplierOf, SettlementProofs!FinalizedFor
  <2> HIDE DEF share
  <2>3. QED
    BY <2>2, SameSum DEF Credits, SettlementProofs!CreditedOnce
<1>4. Sum(credit, Suppliers) = Sum(shares, Suppliers)
  <2> HIDE DEF credit, shares
  <2>1. QED
    BY <1>1, <1>3, SumCongruent DEF Sum
<1>5. Sum(shares, Suppliers) = Sum(FinalizedTotals, StatementIds)
  <2>1. \A id \in StatementIds : FinalizedTotals[id] \in Int
    BY <1>1 DEF FinalizedTotals
  <2>2. \A id \in StatementIds : FinalizedTotals[id] # 0 => SupplierOf[id] \in Suppliers
    BY DEF Credits, SettlementProofs!HasSupplier, FinalizedTotals, SupplierOf
  <2>3. QED
    BY <1>1, <2>1, <2>2, SumByOwner DEF Sum
<1>6. QED
  BY <1>2, <1>4, <1>5

LEMMA SolventFollows ==
  ASSUME TypeOK, Credits, DrawnMoneyArrives
  PROVE  SolventWhenCovered
<1>1. SUFFICES ASSUME \A a \in Accounts : settlementRescued[a] = 0,
                      Sum(Committed, StatementIds) <= Sum(drawn, Suppliers)
               PROVE  Sum(claimableBalances, Suppliers) <= usdc[Settlement]
  BY DEF SolventWhenCovered
<1>2. Sum(settlementRescued, Accounts \ {Settlement}) = 0
  <2>1. \A a \in Accounts \ {Settlement} : settlementRescued[a] = 0
    BY <1>1
  <2>2. QED
    BY <2>1, ProtocolFacts, SumZero DEF Sum
<1>3. /\ Sum(FinalizedTotals, StatementIds) <= Sum(Committed, StatementIds)
      /\ Sum(FinalizedTotals, StatementIds) \in Int /\ Sum(Committed, StatementIds) \in Int
  <2>1. \A id \in StatementIds : statements[id].totalAmount \in Nat
    BY DEF TypeOK, SettlementContract!TypeOK, SettlementContract!Statement
  <2>2. \A id \in StatementIds : /\ FinalizedTotals[id] \in Int /\ Committed[id] \in Int
                                 /\ FinalizedTotals[id] <= Committed[id]
    BY <2>1 DEF FinalizedTotals, Committed
  <2>3. IsFiniteSet(StatementIds)
    BY ProtocolFacts
  <2>4. QED
    BY <2>2, <2>3, SumMonotone, SumInt DEF Sum
<1>4. /\ Sum(claimableBalances, Suppliers) \in Nat /\ Sum(claimed, Suppliers) \in Nat
      /\ Sum(drawn, Suppliers) \in Nat /\ usdc[Settlement] \in Nat
  BY MoneySums, ProtocolFacts
<1>5. usdc[Settlement] + Sum(claimed, Suppliers) >= Sum(drawn, Suppliers)
  BY <1>2, <1>4 DEF DrawnMoneyArrives
<1>6. QED
  BY <1>1, <1>3, <1>4, <1>5, AllCredits

\* As long as the owner rescues nothing from the settlement contract and submits
\* statements for no more than it drew from the escrow, every claim can be paid,
\* whatever the disputes, the window and the pauses: ClaimPayment of the whole of
\* claimableBalances never fails in the token.
THEOREM ProtocolSolventWhenCovered == Spec => []SolventWhenCovered
<1>1. Init => Credits
  <2>1. SettlementProofs!Init => SettlementProofs!HasSupplier /\ SettlementProofs!CreditedOnce
    BY SettlementAssumed, SettlementProofs!CreditsInitially
  <2>2. QED
    BY <2>1, SameInits DEF Init, Credits
<1>2. QED
  BY <1>1, CreditsInductive, SolventFollows, ProtocolTypeCorrect,
     ProtocolDrawnMoneyArrives, PTL DEF Spec

-----------------------------------------------------------------------------
(* The escrow stays covered                                                *)

\* What the escrow holds, and what the owner rescued from it, is never less than what
\* it owes to brands and suppliers.  Backed, an equation, does not survive the
\* composition: a claim or a rescue may send tokens of the settlement contract to the
\* escrow, which credits them to nobody.
EscrowCovered ==
  usdc[Escrow] + Sum(escrowRescued, Accounts \ {Escrow})
    >= Sum(brandBalances, Brands) + Sum(supplierPendingTotals, Suppliers)

LEMMA CoverSums ==
  ASSUME TypeOK
  PROVE  /\ usdc[Escrow] \in Int
         /\ Sum(escrowRescued, Accounts \ {Escrow}) \in Int
         /\ Sum(brandBalances, Brands) \in Int
         /\ Sum(supplierPendingTotals, Suppliers) \in Int
<1>1. /\ \A a \in Accounts : escrowRescued[a] \in Int
      /\ \A b \in Brands : brandBalances[b] \in Int
      /\ \A s \in Suppliers : supplierPendingTotals[s] \in Int
      /\ usdc[Escrow] \in Int
  BY ProtocolFacts DEF TypeOK, EscrowContract!TypeOK
<1>2. IsFiniteSet(Accounts \ {Escrow})
  BY ProtocolAssumption, FS_Subset DEF ProtocolAssumption
<1>3. QED
  BY <1>1, <1>2, ProtocolFacts, SumInt DEF Sum

\* The surplus that the lemmas of the escrow speak of.
EscrowSurplus ==
  usdc[Escrow] + Sum(escrowRescued, Accounts \ {Escrow})
    - (Sum(brandBalances, Brands) + Sum(supplierPendingTotals, Suppliers))

LEMMA SurplusIs ==
  EscrowProofs!Surplus = EscrowSurplus /\ EscrowProofs!Surplus' = EscrowSurplus'
BY DEF EscrowSurplus, Sum, SumFunctionOnSet, FoldFunctionOnSet, MapThenFoldSet,
       EscrowProofs!Surplus, EscrowProofs!Sum, EscrowProofs!SumFunctionOnSet,
       EscrowProofs!FoldFunctionOnSet, EscrowProofs!MapThenFoldSet

\* A call of the settlement contract takes nothing from an account that does not fund it:
\* it pays from its own balance.
LEMMA SettlementCallSpares ==
  ASSUME TypeOK, SettlementContract!Next, NEW a \in Accounts \ (Funders \cup {Settlement})
  PROVE  usdc'[a] >= usdc[a] /\ usdc'[a] \in Int
<1> DEFINE Spares == usdc'[a] >= usdc[a] /\ usdc'[a] \in Int
<1>1. ASSUME NEW from \in Accounts \ {a}, NEW to \in Accounts, NEW amount \in Nat,
             usdc' = [usdc EXCEPT ![from] = @ - amount, ![to] = @ + amount]
      PROVE  Spares
  BY <1>1, MoneySums, ProtocolFacts
<1>2. ASSUME NEW caller \in Suppliers, SettlementContract!ClaimPayment(caller)
      PROVE  Spares
  <2> DEFINE amount == claimableBalances[caller]
  <2>1. /\ amount \in Nat /\ caller \in Accounts /\ Settlement \in Accounts \ {a}
        /\ usdc' = [usdc EXCEPT ![Settlement] = @ - amount, ![caller] = @ + amount]
    BY <1>2, MoneySums, ProtocolFacts
    DEF SettlementContract!ClaimPayment, SettlementContract!Transfer
  <2> HIDE DEF amount
  <2>2. QED
    BY <1>1, <2>1
<1>3. ASSUME NEW caller \in Accounts, NEW to \in RescueTargets, NEW amount \in Amounts,
             SettlementContract!EmergencyWithdraw(caller, to, amount)
      PROVE  Spares
  <2>1. /\ amount \in Nat /\ to \in Accounts /\ Settlement \in Accounts \ {a}
        /\ usdc' = [usdc EXCEPT ![Settlement] = @ - amount, ![to] = @ + amount]
    BY <1>3, ProtocolFacts
    DEF SettlementContract!EmergencyWithdraw, SettlementContract!Transfer
  <2>2. QED
    BY <1>1, <2>1
<1>4. ASSUME NEW from \in Funders, NEW amount \in Amounts, SettlementContract!Fund(from, amount)
      PROVE  Spares
  <2>1. /\ amount \in Nat /\ from \in Accounts \ {a} /\ Settlement \in Accounts
        /\ usdc' = [usdc EXCEPT ![from] = @ - amount, ![Settlement] = @ + amount]
    BY <1>4, ProtocolFacts DEF SettlementContract!Fund, SettlementContract!Transfer
  <2>2. QED
    BY <1>1, <2>1
<1>5. ASSUME NEW caller, NEW id, NEW supplier, NEW amount, NEW window,
             \/ SettlementContract!SubmitStatement(caller, id, supplier, amount)
             \/ SettlementContract!FinalizeStatement(id)
             \/ SettlementContract!DisputeStatement(caller, id)
             \/ SettlementContract!SetDisputeWindow(caller, window)
             \/ SettlementContract!Pause(caller) \/ SettlementContract!Unpause(caller)
             \/ SettlementContract!Tick
      PROVE  Spares
  <2>1. UNCHANGED usdc
    BY <1>5 DEF SettlementContract!SubmitStatement, SettlementContract!FinalizeStatement,
                SettlementContract!DisputeStatement, SettlementContract!SetDisputeWindow,
                SettlementContract!Pause, SettlementContract!Unpause,
                SettlementContract!Tick
  <2>2. QED
    BY <2>1, MoneySums, ProtocolFacts
<1> HIDE DEF Spares
<1>6. Spares
  BY <1>2, <1>3, <1>4, <1>5, Zenon DEF SettlementContract!Next
<1>7. QED
  BY <1>6 DEF Spares

LEMMA EscrowCoveredInductive ==
  ASSUME TypeOK, EscrowCovered, [Next]_vars
  PROVE  EscrowCovered'
<1>1. CASE UNCHANGED vars
  BY <1>1 DEF vars, escrowVars, EscrowCovered, Sum
<1>2. CASE EscrowCall
  <2> DEFINE rescue == Sum(escrowRescued, Accounts \ {Escrow})
             brand == Sum(brandBalances, Brands)
             supplier == Sum(supplierPendingTotals, Suppliers)
  <2>1. /\ usdc[Escrow] \in Int /\ rescue \in Int /\ brand \in Int /\ supplier \in Int
        /\ usdc[Escrow] + rescue >= brand + supplier
    BY CoverSums DEF EscrowCovered
  <2>2. usdc'[Escrow] \in Int /\ rescue' \in Int /\ brand' \in Int /\ supplier' \in Int
    <3>1. TypeOK'
      BY ProtocolTypeInductive
    <3>2. /\ \A a \in Accounts : escrowRescued'[a] \in Int
          /\ \A b \in Brands : brandBalances'[b] \in Int
          /\ \A s \in Suppliers : supplierPendingTotals'[s] \in Int
          /\ usdc'[Escrow] \in Int
      BY <3>1, ProtocolFacts DEF TypeOK, EscrowContract!TypeOK
    <3>3. IsFiniteSet(Accounts \ {Escrow})
      BY ProtocolAssumption, FS_Subset DEF ProtocolAssumption
    <3>4. QED
      BY <3>2, <3>3, ProtocolFacts, SumInt DEF Sum
  <2>3. EscrowProofs!TypeOK /\ EscrowProofs!Next
    BY <1>2, SameTypes, SameEscrowNext DEF TypeOK, EscrowCall
  <2>4. EscrowProofs!Surplus' = EscrowProofs!Surplus
    BY <2>3, EscrowAssumed, EscrowProofs!SurplusKept
  <2>5. usdc'[Escrow] + rescue' - (brand' + supplier')
          = usdc[Escrow] + rescue - (brand + supplier)
    BY <2>4, SurplusIs DEF EscrowSurplus
  <2> HIDE DEF rescue, brand, supplier
  <2>6. usdc'[Escrow] + rescue' >= brand' + supplier'
    BY <2>1, <2>2, <2>5
  <2>7. QED
    BY <2>6 DEF rescue, brand, supplier, EscrowCovered
<1>3. CASE SettlementCall
  <2>1. UNCHANGED <<escrowRescued, brandBalances, supplierPendingTotals>>
    BY <1>3 DEF SettlementCall, escrowVars
  <2>2. usdc'[Escrow] >= usdc[Escrow] /\ usdc'[Escrow] \in Int
    <3>1. Escrow \in Accounts \ (Funders \cup {Settlement})
      BY ProtocolFacts
    <3>2. QED
      BY <1>3, <3>1, SettlementCallSpares DEF SettlementCall
  <2>3. QED
    BY <2>1, <2>2, CoverSums DEF EscrowCovered, Sum
<1>4. QED
  BY <1>1, <1>2, <1>3 DEF Next

\* Whatever is called on the settlement contract, the escrow can pay back every brand
\* and draw every pending total, unless the owner rescued tokens from the escrow itself.
THEOREM ProtocolEscrowCovered == Spec => []EscrowCovered
<1>1. Init => EscrowCovered
  <2>1. SUFFICES ASSUME Init PROVE EscrowCovered
    OBVIOUS
  <2>2. /\ \A a \in Accounts : escrowRescued[a] = 0
        /\ \A b \in Brands : brandBalances[b] = 0
        /\ \A s \in Suppliers : supplierPendingTotals[s] = 0
        /\ usdc[Escrow] = 0
    BY <2>1, ProtocolAssumption DEF ProtocolAssumption, Init, EscrowContract!Init
  <2>3. IsFiniteSet(Accounts \ {Escrow})
    BY ProtocolAssumption, FS_Subset DEF ProtocolAssumption
  <2>4. /\ Sum(escrowRescued, Accounts \ {Escrow}) = 0
        /\ Sum(brandBalances, Brands) = 0 /\ Sum(supplierPendingTotals, Suppliers) = 0
    BY <2>2, <2>3, ProtocolFacts, SumZero DEF Sum
  <2>5. QED
    BY <2>2, <2>4 DEF EscrowCovered
<1>2. QED
  BY <1>1, EscrowCoveredInductive, ProtocolTypeCorrect, PTL DEF Spec

-----------------------------------------------------------------------------
(* What each contract promises next to the other                           *)

\* A call of one contract writes no variable of the other, so what a contract keeps of
\* its own variables it keeps in the composition.
EscrowBooks == /\ EscrowProofs!PendingMatchesBills
               /\ EscrowProofs!UnrecordedUnbilled
               /\ EscrowProofs!EachReceiptBilledOnce

LEMMA EscrowBooksInductive ==
  ASSUME TypeOK, EscrowBooks, [Next]_vars
  PROVE  EscrowBooks'
<1>1. ASSUME UNCHANGED escrowVars
      PROVE  EscrowBooks'
  BY <1>1 DEF escrowVars, EscrowBooks, EscrowProofs!PendingMatchesBills,
              EscrowProofs!PendingFrom, EscrowProofs!UnrecordedUnbilled,
              EscrowProofs!EachReceiptBilledOnce, EscrowProofs!BilledTo, EscrowProofs!Sum
<1>2. CASE EscrowCall
  <2>1. EscrowProofs!TypeOK /\ EscrowProofs!Next
    BY <1>2, SameTypes, SameEscrowNext DEF TypeOK, EscrowCall
  <2>2. EscrowProofs!PendingMatchesBills'
    BY <2>1, EscrowAssumed, EscrowProofs!PendingMatchesBillsInductive DEF EscrowBooks
  <2>3. EscrowProofs!UnrecordedUnbilled'
    BY <2>1, EscrowAssumed, EscrowProofs!UnrecordedUnbilledInductive DEF EscrowBooks
  <2>4. EscrowProofs!EachReceiptBilledOnce'
    BY <2>1, EscrowAssumed, EscrowProofs!EachReceiptBilledOnceInductive DEF EscrowBooks
  <2>5. QED
    BY <2>2, <2>3, <2>4 DEF EscrowBooks
<1>3. QED
  BY <1>1, <1>2 DEF Next, SettlementCall, vars

LEMMA SameBooks ==
  /\ EscrowContract!PendingMatchesBills <=> EscrowProofs!PendingMatchesBills
  /\ EscrowContract!EachReceiptBilledOnce <=> EscrowProofs!EachReceiptBilledOnce
BY DEF EscrowContract!PendingMatchesBills, EscrowProofs!PendingMatchesBills,
       EscrowContract!PendingFrom, EscrowProofs!PendingFrom,
       EscrowContract!EachReceiptBilledOnce, EscrowProofs!EachReceiptBilledOnce,
       EscrowContract!BilledTo, EscrowProofs!BilledTo, EscrowContract!Sum, EscrowProofs!Sum,
       EscrowContract!SumFunctionOnSet, EscrowProofs!SumFunctionOnSet,
       EscrowContract!FoldFunctionOnSet, EscrowProofs!FoldFunctionOnSet,
       EscrowContract!MapThenFoldSet, EscrowProofs!MapThenFoldSet

\* Next to a settlement contract that draws on it the escrow still bills each receipt
\* once, and what is pending for a supplier and what was drawn for it are its bills.
THEOREM ProtocolKeepsBooks ==
  Spec => [](EscrowContract!PendingMatchesBills /\ EscrowContract!EachReceiptBilledOnce)
<1>1. Init => EscrowBooks
  <2>1. EscrowProofs!Init => EscrowProofs!PendingMatchesBills
    BY EscrowAssumed, EscrowProofs!PendingInitially
  <2>2. EscrowProofs!Init =>
          EscrowProofs!UnrecordedUnbilled /\ EscrowProofs!EachReceiptBilledOnce
    BY EscrowAssumed, EscrowProofs!BillsInitially
  <2>3. QED
    BY <2>1, <2>2, SameInits DEF Init, EscrowBooks
<1>2. EscrowBooks => EscrowContract!PendingMatchesBills /\ EscrowContract!EachReceiptBilledOnce
  BY SameBooks DEF EscrowBooks
<1>3. QED
  BY <1>1, <1>2, EscrowBooksInductive, ProtocolTypeCorrect, PTL DEF Spec

LEMMA WindowInductive ==
  ASSUME TypeOK, SettlementProofs!WindowInv, [Next]_vars
  PROVE  SettlementProofs!WindowInv'
<1>1. ASSUME UNCHANGED settlementVars
      PROVE  SettlementProofs!WindowInv'
  BY <1>1 DEF settlementVars, SettlementProofs!WindowInv, SettlementProofs!ShortestInForce,
              SettlementProofs!WindowWaited, SettlementProofs!Submitted
<1>2. CASE SettlementCall
  <2>1. SettlementProofs!TypeOK /\ SettlementProofs!Next
    BY <1>2, SameTypes, SameSettlementNext DEF TypeOK, SettlementCall
  <2>2. QED
    BY <2>1, SettlementAssumed, SettlementProofs!WindowInductive
<1>3. QED
  BY <1>1, <1>2 DEF Next, EscrowCall, vars

\* Next to the escrow the settlement contract still credits every finalized statement
\* once and waits for the dispute window, and the owner that the two share cannot hold a
\* statement open past the maximum window.
THEOREM ProtocolKeepsTheWindow ==
  Spec => [](/\ SettlementContract!CreditedOnce
             /\ SettlementContract!WindowWaited
             /\ SettlementContract!NotHeldOpen)
<1>1. Init => Credits /\ SettlementProofs!WindowInv
  <2>1. SettlementProofs!Init => SettlementProofs!HasSupplier /\ SettlementProofs!CreditedOnce
    BY SettlementAssumed, SettlementProofs!CreditsInitially
  <2>2. SettlementProofs!Init => SettlementProofs!WindowInv
    BY DEF SettlementProofs!Init, SettlementProofs!WindowInv,
           SettlementProofs!ShortestInForce, SettlementProofs!WindowWaited,
           SettlementProofs!Submitted, SettlementProofs!NoStatement
  <2>3. QED
    BY <2>1, <2>2, SameInits DEF Init, Credits
<1>2. Credits => SettlementContract!CreditedOnce
  BY DEF Credits, SettlementContract!CreditedOnce, SettlementProofs!CreditedOnce,
         SettlementContract!FinalizedFor, SettlementProofs!FinalizedFor,
         SettlementContract!SumFunctionOnSet, SettlementProofs!SumFunctionOnSet,
         SettlementContract!FoldFunctionOnSet, SettlementProofs!FoldFunctionOnSet,
         SettlementContract!MapThenFoldSet, SettlementProofs!MapThenFoldSet
<1>3. SettlementProofs!WindowInv => SettlementContract!WindowWaited
  BY DEF SettlementProofs!WindowInv, SettlementProofs!WindowWaited,
         SettlementContract!WindowWaited
<1>4. TypeOK => SettlementContract!NotHeldOpen
  <2>1. SUFFICES ASSUME TypeOK, NEW id \in StatementIds, SettlementContract!Submitted(id),
                        now >= statements[id].submittedAt + MAX_DISPUTE_WINDOW
                 PROVE  now >= statements[id].submittedAt + disputeWindow
    BY DEF SettlementContract!NotHeldOpen, SettlementContract!IsFinalizable,
           SettlementContract!WindowEnd
  <2>2. /\ disputeWindow \in Nat /\ disputeWindow <= MAX_DISPUTE_WINDOW
        /\ now \in Nat /\ statements[id].submittedAt \in Nat /\ MAX_DISPUTE_WINDOW \in Nat
    <3>1. SettlementContract!TypeOK
      BY <2>1 DEF TypeOK
    <3>2. statements[id] \in SettlementContract!Statement
      BY <3>1 DEF SettlementContract!TypeOK
    <3>3. statements[id].submittedAt \in Nat
      BY <3>2 DEF SettlementContract!Statement
    <3>4. QED
      BY <3>1, <3>3, SettlementAssumed DEF SettlementContract!TypeOK
  <2>3. QED
    BY <2>1, <2>2
<1>5. QED
  BY <1>1, <1>2, <1>3, <1>4, CreditsInductive, WindowInductive, ProtocolTypeCorrect, PTL
  DEF Spec

\* A brand that sends the settlement contract nothing itself loses money by being billed
\* only: wallet, deposit and bills are never less than what it started with and what was
\* rescued to it.  They may be more, since a claim or a rescue may pay into its wallet;
\* so BrandMoneyConserved, an equation, does not survive the composition.
BrandsKeepTheirMoney ==
  \A b \in Brands \ Funders :
    usdc[b] + brandBalances[b] + Sum(pendingRecords[b], Suppliers)
      >= InitialBalances[b] + escrowRescued[b]

MoneyIs(b) ==
  /\ EscrowProofs!BrandMoney(b)
       = usdc[b] + brandBalances[b] + Sum(pendingRecords[b], Suppliers) - escrowRescued[b]
  /\ usdc[b] \in Int /\ brandBalances[b] \in Int /\ escrowRescued[b] \in Int
  /\ Sum(pendingRecords[b], Suppliers) \in Int /\ InitialBalances[b] \in Int

LEMMA BrandMoneyIs == TypeOK => \A b \in Brands : MoneyIs(b)
<1>1. SUFFICES ASSUME TypeOK, NEW b \in Brands PROVE MoneyIs(b)
  OBVIOUS
<1>2. \A s \in Suppliers : pendingRecords[b][s] \in Int
  BY <1>1, ProtocolFacts DEF TypeOK, EscrowContract!TypeOK
<1>3. Sum(pendingRecords[b], Suppliers) \in Int
  BY <1>2, ProtocolFacts, SumInt DEF Sum
<1>4. usdc[b] \in Int /\ brandBalances[b] \in Int /\ escrowRescued[b] \in Int
  BY <1>1, ProtocolFacts DEF TypeOK, EscrowContract!TypeOK
<1>5. InitialBalances[b] \in Int
  BY ProtocolFacts, ProtocolAssumption DEF ProtocolAssumption
<1>6. EscrowProofs!Sum(pendingRecords[b], Suppliers) = Sum(pendingRecords[b], Suppliers)
  BY DEF Sum, SumFunctionOnSet, FoldFunctionOnSet, MapThenFoldSet, EscrowProofs!Sum,
         EscrowProofs!SumFunctionOnSet, EscrowProofs!FoldFunctionOnSet,
         EscrowProofs!MapThenFoldSet
<1>7. QED
  BY <1>3, <1>4, <1>5, <1>6 DEF MoneyIs, EscrowProofs!BrandMoney

LEMMA BrandMoneyIsNext == TypeOK' => (\A b \in Brands : MoneyIs(b))'
BY BrandMoneyIs, PTL

LEMMA BrandMoneyStep ==
  ASSUME TypeOK, [Next]_vars, NEW b \in Brands \ Funders
  PROVE  EscrowProofs!BrandMoney(b)' >= EscrowProofs!BrandMoney(b)
<1>1. MoneyIs(b) /\ MoneyIs(b)'
  BY ProtocolTypeInductive, BrandMoneyIs, BrandMoneyIsNext
<1>2. CASE UNCHANGED vars
  BY <1>1, <1>2 DEF vars, escrowVars, MoneyIs, Sum
<1>3. CASE EscrowCall
  <2>1. EscrowProofs!TypeOK /\ EscrowProofs!Next
    BY <1>3, SameTypes, SameEscrowNext DEF TypeOK, EscrowCall
  <2>2. EscrowProofs!BrandMoney(b)' = EscrowProofs!BrandMoney(b)
    BY <2>1, EscrowAssumed, EscrowProofs!BrandMoneyKept
  <2>3. QED
    BY <1>1, <2>2 DEF MoneyIs
<1>4. CASE SettlementCall
  <2>1. UNCHANGED <<brandBalances, pendingRecords, escrowRescued>>
    BY <1>4 DEF SettlementCall, escrowVars
  <2>2. b \in Accounts \ (Funders \cup {Settlement})
    BY ProtocolFacts
  <2>3. usdc'[b] >= usdc[b] /\ usdc'[b] \in Int
    BY <1>4, <2>2, SettlementCallSpares DEF SettlementCall
  <2>4. QED
    BY <1>1, <2>1, <2>3 DEF MoneyIs, Sum
<1>5. QED
  BY <1>2, <1>3, <1>4 DEF Next

\* Whatever is called on the two contracts, a brand that funds nobody has, in its wallet,
\* its deposit and its bills together, at least what it started with and was rescued.
THEOREM ProtocolBrandsKeepTheirMoney == Spec => []BrandsKeepTheirMoney
<1>1. Init => BrandsKeepTheirMoney
  <2>1. SUFFICES ASSUME Init, NEW b \in Brands \ Funders
                 PROVE  usdc[b] + brandBalances[b] + Sum(pendingRecords[b], Suppliers)
                          >= InitialBalances[b] + escrowRescued[b]
    BY DEF BrandsKeepTheirMoney
  <2>2. /\ \A s \in Suppliers : pendingRecords[b][s] = 0
        /\ usdc[b] = InitialBalances[b] /\ brandBalances[b] = 0 /\ escrowRescued[b] = 0
        /\ InitialBalances[b] \in Int
    BY <2>1, ProtocolFacts, ProtocolAssumption
    DEF ProtocolAssumption, Init, EscrowContract!Init
  <2>3. Sum(pendingRecords[b], Suppliers) = 0
    BY <2>2, ProtocolFacts, SumZero DEF Sum
  <2>4. QED
    BY <2>2, <2>3
<1>2. TypeOK /\ BrandsKeepTheirMoney /\ [Next]_vars => BrandsKeepTheirMoney'
  <2>1. SUFFICES ASSUME TypeOK, BrandsKeepTheirMoney, [Next]_vars, NEW b \in Brands \ Funders
                 PROVE  usdc'[b] + brandBalances'[b] + Sum(pendingRecords'[b], Suppliers)
                          >= InitialBalances[b] + escrowRescued'[b]
    BY DEF BrandsKeepTheirMoney, Sum
  <2>2. EscrowProofs!BrandMoney(b)' >= EscrowProofs!BrandMoney(b)
    BY <2>1, BrandMoneyStep
  <2>3. MoneyIs(b) /\ MoneyIs(b)'
    BY <2>1, ProtocolTypeInductive, BrandMoneyIs, BrandMoneyIsNext
  <2>4. QED
    BY <2>1, <2>2, <2>3 DEF MoneyIs, BrandsKeepTheirMoney, Sum
<1>3. QED
  BY <1>1, <1>2, ProtocolTypeCorrect, PTL DEF Spec

-----------------------------------------------------------------------------
(* The ledger                                                              *)

LEMMA SameLedger ==
  /\ SettlementContract!Ledger!LedgerInit <=> SettlementProofs!Ledger!LedgerInit
  /\ [SettlementContract!Ledger!LedgerNext]_(SettlementContract!Ledger!ledgerVars)
       <=> [SettlementProofs!Ledger!LedgerNext]_(SettlementProofs!Ledger!ledgerVars)
BY DEF SettlementContract!Ledger!LedgerInit, SettlementProofs!Ledger!LedgerInit,
       SettlementContract!Ledger!NoTerms, SettlementProofs!Ledger!NoTerms,
       SettlementContract!Ledger!LedgerNext, SettlementProofs!Ledger!LedgerNext,
       SettlementContract!Ledger!Open, SettlementProofs!Ledger!Open,
       SettlementContract!Ledger!Contest, SettlementProofs!Ledger!Contest,
       SettlementContract!Ledger!Credit, SettlementProofs!Ledger!Credit,
       SettlementContract!Ledger!PayOut, SettlementProofs!Ledger!PayOut,
       SettlementContract!Ledger!ledgerVars, SettlementProofs!Ledger!ledgerVars,
       SettlementContract!PhaseOf, SettlementProofs!PhaseOf

\* A call of the escrow leaves the statements and what they credit alone, a call of the
\* settlement contract is the ledger step that its own lemma says.
LEMMA ProtocolLedgerStep ==
  ASSUME TypeOK, Credits, [Next]_vars
  PROVE  [SettlementContract!Ledger!LedgerNext]_(SettlementContract!Ledger!ledgerVars)
<1>1. ASSUME UNCHANGED settlementVars
      PROVE  UNCHANGED SettlementContract!Ledger!ledgerVars
  BY <1>1 DEF settlementVars, SettlementContract!Ledger!ledgerVars
<1>2. CASE SettlementCall
  <2>1. /\ SettlementProofs!TypeOK /\ SettlementProofs!HasSupplier
        /\ SettlementProofs!Next
    BY <1>2, SameTypes, SameSettlementNext DEF TypeOK, Credits, SettlementCall
  <2>2. [SettlementProofs!Ledger!LedgerNext]_(SettlementProofs!Ledger!ledgerVars)
    BY <2>1, SettlementAssumed, SettlementProofs!LedgerStep
  <2>3. QED
    BY <2>2, SameLedger
<1>3. QED
  BY <1>1, <1>2 DEF Next, EscrowCall, vars

\* What the settlement contract promises a supplier by itself it still promises next to
\* an escrow that shares its token and its owner: both contracts together implement the
\* ledger, which is all the settlement service relies on.
THEOREM ProtocolImplementsLedger == Spec => SettlementContract!ImplementsLedger
<1>1. Init => SettlementContract!Ledger!LedgerInit
  <2>1. SUFFICES ASSUME Init PROVE SettlementContract!Ledger!LedgerInit
    OBVIOUS
  <2>2. \A id \in StatementIds :
           /\ SettlementContract!PhaseOf(statements[id].status) = "none"
           /\ statements[id].supplier = ZeroAddress /\ statements[id].totalAmount = 0
    BY <2>1 DEF Init, SettlementContract!Init, SettlementContract!NoStatement,
                SettlementContract!PhaseOf
  <2>3. QED
    BY <2>1, <2>2 DEF Init, SettlementContract!Init,
                      SettlementContract!Ledger!LedgerInit,
                      SettlementContract!Ledger!NoTerms
<1>2. Init => Credits
  <2>1. SettlementProofs!Init => SettlementProofs!HasSupplier /\ SettlementProofs!CreditedOnce
    BY SettlementAssumed, SettlementProofs!CreditsInitially
  <2>2. QED
    BY <2>1, SameInits DEF Init, Credits
<1>3. QED
  BY <1>1, <1>2, CreditsInductive, ProtocolLedgerStep, ProtocolTypeCorrect, PTL
  DEF Spec, SettlementContract!ImplementsLedger, SettlementContract!Ledger!LedgerSpec

=============================================================================
