---------------------- MODULE RoyaltySettlementProofs ----------------------
(***************************************************************************)
(* What the settlement contract guarantees for every choice of accounts,   *)
(* statements, amounts and windows: type correctness, the window bounds,   *)
(* the accounting of credits, and that it implements RoyaltyLedger.        *)
(***************************************************************************)
EXTENDS DisputeOpportunity, RecursionLemmas

\* Bounds of what callers pass.
LEMMA SettlementCallFacts ==
  /\ Amounts \subseteq Nat /\ Windows \subseteq Nat
  /\ Settlement \in Accounts /\ Owner \in Accounts
  /\ Suppliers \subseteq Accounts /\ Funders \subseteq Accounts
  /\ RescueTargets \subseteq Accounts
  /\ ZeroAddress \notin Suppliers
  /\ MAX_DISPUTE_WINDOW \in Nat
  /\ IsFiniteSet(StatementIds)
BY SettlementAssumption DEF SettlementAssumption

\* A covered transfer keeps every balance a natural number.
LEMMA PaymentType ==
  ASSUME NEW S, NEW ledger \in [S -> Nat], NEW from \in S, NEW to \in S,
         NEW amount \in Nat, Covers(ledger, from, amount)
  PROVE  Transfer(ledger, from, to, amount) \in [S -> Nat]
BY DEF Transfer, Covers

-----------------------------------------------------------------------------
(* Type correctness                                                        *)

LEMMA SubmitStatementType ==
  ASSUME TypeOK, NEW caller \in Accounts, NEW id \in StatementIds,
         NEW supplier \in Suppliers, NEW amount \in Amounts,
         SubmitStatement(caller, id, supplier, amount)
  PROVE  TypeOK'
<1>1. amount \in Nat
  BY SettlementCallFacts
<1>2. statements' \in [StatementIds -> Statement]
  <2> DEFINE st == [status |-> "Submitted", supplier |-> supplier, totalAmount |-> amount,
                    submittedAt |-> now, finalizedAt |-> 0]
  <2>1. st \in Statement
    BY <1>1 DEF TypeOK, Statement, Statuses
  <2>2. statements' = [statements EXCEPT ![id] = st]
    BY DEF SubmitStatement
  <2> HIDE DEF st
  <2>3. QED
    BY <2>1, <2>2 DEF TypeOK
<1>3. shortestWindow' \in [StatementIds -> Nat]
  <2>1. disputeWindow \in Nat
    BY SettlementCallFacts DEF TypeOK
  <2>2. shortestWindow' = [shortestWindow EXCEPT ![id] = disputeWindow]
    BY DEF SubmitStatement
  <2>3. QED
    BY <2>1, <2>2 DEF TypeOK
<1>4. UNCHANGED <<usdc, now, disputeWindow, claimableBalances, paused, claimed, rescued>>
  BY DEF SubmitStatement
<1>5. QED
  BY <1>2, <1>3, <1>4 DEF TypeOK

\* Changing the status of a statement, and when it was finalized, keeps it one.
LEMMA StatusType ==
  ASSUME NEW st \in Statement, NEW s \in Statuses, NEW t \in Nat
  PROVE  /\ [st EXCEPT !.status = s] \in Statement
         /\ [st EXCEPT !.status = s, !.finalizedAt = t] \in Statement
BY DEF Statement

\* What finalizeStatement and disputeStatement do to the statements.
LEMMA FinalizedStatement ==
  ASSUME TypeOK, NEW id \in StatementIds, FinalizeStatement(id)
  PROVE  statements' = [statements EXCEPT ![id] =
            [statements[id] EXCEPT !.status = "Finalized", !.finalizedAt = now]]
BY DEF FinalizeStatement, TypeOK, Statement

LEMMA DisputedStatement ==
  ASSUME TypeOK, NEW caller, NEW id \in StatementIds, DisputeStatement(caller, id)
  PROVE  statements' = [statements EXCEPT ![id] = [statements[id] EXCEPT !.status = "Disputed"]]
BY DEF DisputeStatement, TypeOK, Statement

LEMMA FinalizeStatementType ==
  ASSUME TypeOK, NEW id \in StatementIds, FinalizeStatement(id)
  PROVE  TypeOK'
<1>1. statements[id] \in Statement /\ now \in Nat /\ "Finalized" \in Statuses
  BY DEF TypeOK, Statuses
<1>2. statements' \in [StatementIds -> Statement]
  <2> DEFINE st == [statements[id] EXCEPT !.status = "Finalized", !.finalizedAt = now]
  <2>1. st \in Statement
    BY <1>1, StatusType
  <2>2. statements' = [statements EXCEPT ![id] = st]
    BY FinalizedStatement
  <2> HIDE DEF st
  <2>3. QED
    BY <2>1, <2>2 DEF TypeOK
<1>3. claimableBalances' \in [Suppliers -> Nat]
  <2>1. statements[id].totalAmount \in Nat
    BY <1>1 DEF Statement
  <2>2. claimableBalances' = [claimableBalances EXCEPT
                               ![statements[id].supplier] = @ + statements[id].totalAmount]
    BY DEF FinalizeStatement
  <2>3. claimableBalances \in [Suppliers -> Nat]
    BY DEF TypeOK
  <2> DEFINE total == statements[id].totalAmount
             payee == statements[id].supplier
  <2>4. total \in Nat /\ claimableBalances' = [claimableBalances EXCEPT ![payee] = @ + total]
    BY <2>1, <2>2
  <2> HIDE DEF total, payee
  <2>5. CASE payee \in Suppliers
    BY <2>3, <2>4, <2>5
  <2>6. CASE payee \notin Suppliers
    <3>1. claimableBalances' = claimableBalances
      BY <2>3, <2>4, <2>6
    <3>2. QED
      BY <2>3, <3>1
  <2>7. QED
    BY <2>5, <2>6
<1>4. UNCHANGED <<usdc, now, disputeWindow, paused, claimed, shortestWindow, rescued>>
  BY DEF FinalizeStatement, historyVars
<1>5. QED
  BY <1>2, <1>3, <1>4 DEF TypeOK

LEMMA DisputeStatementType ==
  ASSUME TypeOK, NEW caller, NEW id \in StatementIds, DisputeStatement(caller, id)
  PROVE  TypeOK'
<1>1. statements[id] \in Statement /\ "Disputed" \in Statuses
  BY DEF TypeOK, Statuses
<1>2. statements' \in [StatementIds -> Statement]
  <2> DEFINE st == [statements[id] EXCEPT !.status = "Disputed"]
  <2>1. st \in Statement
    BY <1>1, StatusType, 0 \in Nat
  <2>2. statements' = [statements EXCEPT ![id] = st]
    BY DisputedStatement
  <2> HIDE DEF st
  <2>3. QED
    BY <2>1, <2>2 DEF TypeOK
<1>3. UNCHANGED <<usdc, now, disputeWindow, claimableBalances, paused, claimed,
                  shortestWindow, rescued>>
  BY DEF DisputeStatement, historyVars
<1>4. QED
  BY <1>2, <1>3 DEF TypeOK

LEMMA ClaimPaymentType ==
  ASSUME TypeOK, NEW caller \in Suppliers, ClaimPayment(caller)
  PROVE  TypeOK'
<1>1. /\ usdc \in [Accounts -> Nat] /\ claimableBalances[caller] \in Nat
      /\ caller \in Accounts /\ Settlement \in Accounts
  BY SettlementCallFacts DEF TypeOK
<1>2. usdc' \in [Accounts -> Nat]
  BY <1>1, PaymentType DEF ClaimPayment
<1>3. claimableBalances' \in [Suppliers -> Nat] /\ claimed' \in [Suppliers -> Nat]
  BY <1>1 DEF ClaimPayment, TypeOK
<1>4. UNCHANGED <<now, disputeWindow, statements, paused, shortestWindow, rescued>>
  BY DEF ClaimPayment
<1>5. QED
  BY <1>2, <1>3, <1>4 DEF TypeOK

LEMMA SetDisputeWindowType ==
  ASSUME TypeOK, NEW caller \in Accounts, NEW window \in Windows,
         SetDisputeWindow(caller, window)
  PROVE  TypeOK'
<1>1. window \in Nat
  BY SettlementCallFacts
<1>2. disputeWindow' \in 1..MAX_DISPUTE_WINDOW
  BY <1>1, SettlementCallFacts DEF SetDisputeWindow
<1>3. shortestWindow' \in [StatementIds -> Nat]
  BY <1>1 DEF SetDisputeWindow, TypeOK
<1>4. UNCHANGED <<usdc, now, statements, claimableBalances, paused, claimed, rescued>>
  BY DEF SetDisputeWindow
<1>5. QED
  BY <1>2, <1>3, <1>4 DEF TypeOK

LEMMA SettlementEmergencyType ==
  ASSUME TypeOK, NEW caller \in Accounts, NEW to \in RescueTargets, NEW amount \in Amounts,
         EmergencyWithdraw(caller, to, amount)
  PROVE  TypeOK'
<1>1. usdc \in [Accounts -> Nat] /\ amount \in Nat /\ to \in Accounts /\ Settlement \in Accounts
  BY SettlementCallFacts DEF TypeOK
<1>2. usdc' \in [Accounts -> Nat]
  BY <1>1, PaymentType DEF EmergencyWithdraw
<1>3. rescued' \in [Accounts -> Nat]
  BY <1>1 DEF EmergencyWithdraw, TypeOK
<1>4. UNCHANGED <<now, disputeWindow, statements, claimableBalances, paused, claimed,
                  shortestWindow>>
  BY DEF EmergencyWithdraw, contractVars
<1>5. QED
  BY <1>2, <1>3, <1>4 DEF TypeOK

LEMMA FundType ==
  ASSUME TypeOK, NEW from \in Funders, NEW amount \in Amounts, Fund(from, amount)
  PROVE  TypeOK'
<1>1. usdc \in [Accounts -> Nat] /\ amount \in Nat /\ from \in Accounts /\ Settlement \in Accounts
  BY SettlementCallFacts DEF TypeOK
<1>2. usdc' \in [Accounts -> Nat]
  BY <1>1, PaymentType DEF Fund
<1>3. UNCHANGED <<now, contractVars, historyVars>>
  BY DEF Fund
<1>4. QED
  BY <1>2, <1>3 DEF TypeOK, contractVars, historyVars

\* TypeOK is inductive.
LEMMA SettlementTypeInductive ==
  ASSUME TypeOK, [Next]_vars
  PROVE  TypeOK'
<1>1. ASSUME NEW caller \in Accounts, Pause(caller) \/ Unpause(caller)
      PROVE  TypeOK'
  BY <1>1 DEF Pause, Unpause, historyVars, TypeOK
<1>2. ASSUME Tick
      PROVE  TypeOK'
  BY <1>2 DEF Tick, contractVars, historyVars, TypeOK
<1>3. CASE UNCHANGED vars
  BY <1>3 DEF vars, contractVars, historyVars, TypeOK
<1>4. CASE Next
  BY <1>1, <1>2, <1>4, SubmitStatementType, FinalizeStatementType, DisputeStatementType,
     ClaimPaymentType, SetDisputeWindowType, SettlementEmergencyType, FundType, Zenon
  DEF Next
<1>5. QED
  BY <1>3, <1>4

LEMMA SettlementTypeInit == Init => TypeOK
<1>1. NoStatement \in Statement
  BY DEF NoStatement, Statement, Statuses
<1>2. DEFAULT_DISPUTE_WINDOW \in 1..MAX_DISPUTE_WINDOW
  BY SettlementAssumption DEF SettlementAssumption
<1>3. DEFAULT_DISPUTE_WINDOW \in Nat /\ InitialBalances \in [Accounts -> Nat]
  BY SettlementAssumption DEF SettlementAssumption
<1>4. SUFFICES ASSUME Init PROVE TypeOK
  OBVIOUS
<1>5. statements \in [StatementIds -> Statement]
  BY <1>1, <1>4 DEF Init
<1>6. QED
  BY <1>2, <1>3, <1>4, <1>5 DEF Init, TypeOK

\* Every variable of the settlement contract always has its type: the window
\* stays between one second and MAX_DISPUTE_WINDOW and no balance goes below
\* zero, whatever the owner, the suppliers and the clock do.
THEOREM SettlementTypeCorrect == Spec => []TypeOK
BY SettlementTypeInit, SettlementTypeInductive, PTL DEF Spec

-----------------------------------------------------------------------------
(* What the calls do to the statements, field by field                     *)

LEMMA SubmitStatementEffect ==
  ASSUME TypeOK, NEW caller, NEW id \in StatementIds, NEW supplier, NEW amount,
         SubmitStatement(caller, id, supplier, amount)
  PROVE  /\ \A i \in StatementIds \ {id} : /\ statements'[i] = statements[i]
                                          /\ shortestWindow'[i] = shortestWindow[i]
         /\ statements[id].status = "None"
         /\ statements'[id].status = "Submitted" /\ statements'[id].supplier = supplier
         /\ statements'[id].totalAmount = amount /\ statements'[id].submittedAt = now
         /\ shortestWindow'[id] = disputeWindow
BY DEF SubmitStatement, TypeOK

LEMMA FinalizeStatementEffect ==
  ASSUME TypeOK, NEW id \in StatementIds, FinalizeStatement(id)
  PROVE  /\ \A i \in StatementIds \ {id} : statements'[i] = statements[i]
         /\ statements[id].status = "Submitted" /\ statements'[id].status = "Finalized"
         /\ statements'[id].supplier = statements[id].supplier
         /\ statements'[id].totalAmount = statements[id].totalAmount
         /\ statements'[id].submittedAt = statements[id].submittedAt
         /\ statements'[id].finalizedAt = now
         /\ now >= statements[id].submittedAt + disputeWindow
<1> DEFINE st == [statements[id] EXCEPT !.status = "Finalized", !.finalizedAt = now]
<1>1. statements' = [statements EXCEPT ![id] = st]
  BY FinalizedStatement
<1>2. statements \in [StatementIds -> Statement] /\ statements[id] \in Statement
  BY DEF TypeOK
<1>3. /\ st.status = "Finalized" /\ st.supplier = statements[id].supplier
      /\ st.totalAmount = statements[id].totalAmount
      /\ st.submittedAt = statements[id].submittedAt /\ st.finalizedAt = now
  BY <1>2 DEF Statement
<1>4. statements[id].status = "Submitted" /\ now >= statements[id].submittedAt + disputeWindow
  BY DEF FinalizeStatement, Submitted, WindowEnd
<1> HIDE DEF st
<1>5. QED
  BY <1>1, <1>2, <1>3, <1>4

LEMMA DisputeStatementEffect ==
  ASSUME TypeOK, NEW caller, NEW id \in StatementIds, DisputeStatement(caller, id)
  PROVE  /\ \A i \in StatementIds \ {id} : statements'[i] = statements[i]
         /\ statements[id].status = "Submitted" /\ statements'[id].status = "Disputed"
         /\ statements'[id].supplier = statements[id].supplier
         /\ statements'[id].totalAmount = statements[id].totalAmount
<1> DEFINE st == [statements[id] EXCEPT !.status = "Disputed"]
<1>1. statements' = [statements EXCEPT ![id] = st]
  BY DisputedStatement
<1>2. statements \in [StatementIds -> Statement] /\ statements[id] \in Statement
  BY DEF TypeOK
<1>3. /\ st.status = "Disputed" /\ st.supplier = statements[id].supplier
      /\ st.totalAmount = statements[id].totalAmount
  BY <1>2 DEF Statement
<1>4. statements[id].status = "Submitted"
  BY DEF DisputeStatement, Submitted
<1> HIDE DEF st
<1>5. QED
  BY <1>1, <1>2, <1>3, <1>4

\* The other calls leave statements, windows and credits alone.
LEMMA OtherCalls ==
  ASSUME NEW caller, NEW to, NEW amount, NEW from,
         \/ Pause(caller) \/ Unpause(caller)
         \/ EmergencyWithdraw(caller, to, amount)
         \/ Tick
         \/ Fund(from, amount)
         \/ UNCHANGED vars
  PROVE  UNCHANGED <<statements, disputeWindow, shortestWindow, claimableBalances, claimed>>
BY DEF Pause, Unpause, EmergencyWithdraw, Tick, Fund, vars, contractVars, historyVars

-----------------------------------------------------------------------------
(* The dispute window                                                      *)

\* The strengthening: as long as a statement is open, the window in force is no
\* shorter than the shortest one it has seen.
ShortestInForce ==
  \A id \in StatementIds : Submitted(id) => shortestWindow[id] <= disputeWindow

WindowInv == ShortestInForce /\ WindowWaited

LEMMA WindowInductive ==
  ASSUME TypeOK, WindowInv, [Next]_vars
  PROVE  WindowInv'
<1>1. /\ disputeWindow \in Nat /\ now \in Nat
      /\ \A i \in StatementIds : /\ shortestWindow[i] \in Nat
                                /\ statements[i].submittedAt \in Nat
  BY SettlementCallFacts DEF TypeOK, Statement
<1>2. ASSUME UNCHANGED <<statements, disputeWindow, shortestWindow>>
      PROVE  WindowInv'
  BY <1>2 DEF WindowInv, ShortestInForce, WindowWaited, Submitted
<1>3. ASSUME NEW caller \in Accounts, NEW id \in StatementIds, NEW supplier \in Suppliers,
             NEW amount \in Amounts, SubmitStatement(caller, id, supplier, amount)
      PROVE  WindowInv'
  <2>1. disputeWindow' = disputeWindow
    BY <1>3 DEF SubmitStatement
  <2>2. ShortestInForce'
    BY <1>1, <1>3, <2>1, SubmitStatementEffect DEF WindowInv, ShortestInForce, Submitted
  <2>3. WindowWaited'
    BY <1>3, SubmitStatementEffect DEF WindowInv, WindowWaited
  <2>4. QED
    BY <2>2, <2>3 DEF WindowInv
<1>4. ASSUME NEW id \in StatementIds, FinalizeStatement(id)
      PROVE  WindowInv'
  <2>1. UNCHANGED <<disputeWindow, shortestWindow>>
    BY <1>4 DEF FinalizeStatement, historyVars
  <2>2. ShortestInForce'
    BY <1>4, <2>1, FinalizeStatementEffect DEF WindowInv, ShortestInForce, Submitted
  <2>3. SUFFICES ASSUME NEW i \in StatementIds, statements'[i].status = "Finalized"
                 PROVE  statements'[i].finalizedAt
                          >= statements'[i].submittedAt + shortestWindow'[i]
    BY <2>2 DEF WindowInv, WindowWaited
  <2>4. CASE i = id
    <3>1. shortestWindow[id] <= disputeWindow
      BY <1>4, FinalizeStatementEffect DEF WindowInv, ShortestInForce, Submitted
    <3>2. /\ statements'[id].finalizedAt = now
          /\ statements'[id].submittedAt = statements[id].submittedAt
          /\ now >= statements[id].submittedAt + disputeWindow
      BY <1>4, FinalizeStatementEffect
    <3>3. QED
      BY <1>1, <2>1, <2>4, <3>1, <3>2
  <2>5. CASE i # id
    <3>1. statements'[i] = statements[i]
      BY <1>4, <2>5, FinalizeStatementEffect
    <3>2. QED
      BY <2>1, <2>3, <3>1 DEF WindowInv, WindowWaited
  <2>6. QED
    BY <2>4, <2>5
<1>5. ASSUME NEW caller \in Accounts, NEW id \in StatementIds, DisputeStatement(caller, id)
      PROVE  WindowInv'
  <2>1. UNCHANGED <<disputeWindow, shortestWindow>>
    BY <1>5 DEF DisputeStatement, historyVars
  <2>2. QED
    BY <1>5, <2>1, DisputeStatementEffect
    DEF WindowInv, ShortestInForce, WindowWaited, Submitted
<1>6. ASSUME NEW caller \in Accounts, NEW window \in Windows, SetDisputeWindow(caller, window)
      PROVE  WindowInv'
  <2>1. /\ disputeWindow' = window /\ window \in Nat /\ UNCHANGED statements
        /\ \A i \in StatementIds :
              shortestWindow'[i] = IF Submitted(i) /\ window < shortestWindow[i]
                                   THEN window ELSE shortestWindow[i]
    BY <1>6, SettlementCallFacts DEF SetDisputeWindow
  <2>2. ShortestInForce'
    BY <1>1, <2>1 DEF ShortestInForce, Submitted
  <2>3. WindowWaited'
    BY <2>1 DEF WindowInv, WindowWaited, Submitted
  <2>4. QED
    BY <2>2, <2>3 DEF WindowInv
<1>7. ASSUME NEW caller \in Suppliers, ClaimPayment(caller)
      PROVE  WindowInv'
  <2>1. UNCHANGED <<statements, disputeWindow, shortestWindow>>
    BY <1>7 DEF ClaimPayment
  <2>2. QED
    BY <1>2, <2>1
<1>8. CASE UNCHANGED vars
  BY <1>2, <1>8, OtherCalls
<1>9. CASE Next
  BY <1>2, <1>3, <1>4, <1>5, <1>6, <1>7, <1>9, OtherCalls, Zenon DEF Next
<1>10. QED
  BY <1>8, <1>9

\* No statement is ever finalized before the shortest window that was in force
\* while it was open has passed, however the owner moves the window.
THEOREM SettlementWindowWaited == Spec => []WindowWaited
<1>1. Init => WindowInv
  BY DEF Init, WindowInv, ShortestInForce, WindowWaited, Submitted, NoStatement
<1>2. WindowInv => WindowWaited
  BY DEF WindowInv
<1>3. QED
  BY <1>1, <1>2, SettlementTypeCorrect, WindowInductive, PTL DEF Spec

\* Whatever the owner does with the window, a statement that is still open
\* MAX_DISPUTE_WINDOW after its submission can be finalized.
THEOREM SettlementNotHeldOpen == Spec => []NotHeldOpen
<1>1. TypeOK => NotHeldOpen
  <2>1. SUFFICES ASSUME TypeOK, NEW id \in StatementIds, Submitted(id),
                        now >= statements[id].submittedAt + MAX_DISPUTE_WINDOW
                 PROVE  now >= WindowEnd(id)
    BY DEF NotHeldOpen, IsFinalizable
  <2>2. /\ disputeWindow \in Nat /\ disputeWindow <= MAX_DISPUTE_WINDOW
        /\ now \in Nat /\ statements[id].submittedAt \in Nat
    BY <2>1, SettlementCallFacts DEF TypeOK, Statement
  <2>3. QED
    BY <2>1, <2>2, SettlementCallFacts DEF WindowEnd
<1>2. QED
  BY <1>1, SettlementTypeCorrect, PTL

-----------------------------------------------------------------------------
(* What the views announce                                                 *)

\* What can happen to a statement in one step.  The last part is about the time at which
\* it happens: an open statement is finalized only when isFinalizable says so and disputed
\* only when getRemainingDisputeTime is not zero, as both were before the call.
StatusStep(id) ==
  LET before == statements[id].status
      after == statements'[id].status
  IN  \/ after = before
      \/ before = "None" /\ after = "Submitted"
      \/ before = "Submitted" /\ after = "Finalized" /\ IsFinalizable(id)
      \/ before = "Submitted" /\ after = "Disputed" /\ RemainingDisputeTime(id) > 0

\* An open statement is finalizable exactly when no time for a dispute remains.
ViewsExclude ==
  \A id \in StatementIds :
    Submitted(id) => (IsFinalizable(id) <=> RemainingDisputeTime(id) = 0)

LEMMA StatusOfEveryStep ==
  ASSUME TypeOK, [Next]_vars, NEW id \in StatementIds
  PROVE  StatusStep(id)
<1>1. ASSUME NEW caller \in Accounts, NEW i \in StatementIds, NEW supplier \in Suppliers,
             NEW amount \in Amounts, SubmitStatement(caller, i, supplier, amount)
      PROVE  StatusStep(id)
  BY <1>1, SubmitStatementEffect DEF StatusStep
<1>2. ASSUME NEW i \in StatementIds, FinalizeStatement(i)
      PROVE  StatusStep(id)
  <2>1. i = id => IsFinalizable(id)
    BY <1>2 DEF FinalizeStatement, IsFinalizable
  <2>2. QED
    BY <1>2, <2>1, FinalizeStatementEffect DEF StatusStep
<1>3. ASSUME NEW caller \in Accounts, NEW i \in StatementIds, DisputeStatement(caller, i)
      PROVE  StatusStep(id)
  <2>1. i = id => RemainingDisputeTime(id) > 0
    <3>1. /\ now \in Nat /\ disputeWindow \in Nat /\ statements[i].submittedAt \in Nat
      BY SettlementCallFacts DEF TypeOK, Statement
    <3>2. QED
      BY <1>3, <3>1 DEF DisputeStatement, RemainingDisputeTime, WindowEnd
  <2>2. QED
    BY <1>3, <2>1, DisputeStatementEffect DEF StatusStep
<1>4. ASSUME NEW caller \in Suppliers, ClaimPayment(caller)
      PROVE  StatusStep(id)
  BY <1>4 DEF ClaimPayment, StatusStep
<1>5. ASSUME NEW caller, NEW window, SetDisputeWindow(caller, window)
      PROVE  StatusStep(id)
  BY <1>5 DEF SetDisputeWindow, StatusStep
<1>6. ASSUME UNCHANGED statements
      PROVE  StatusStep(id)
  BY <1>6 DEF StatusStep
<1>7. CASE UNCHANGED vars
  BY <1>6, <1>7, OtherCalls
<1>8. CASE Next
  BY <1>1, <1>2, <1>3, <1>4, <1>5, <1>6, <1>8, OtherCalls, Zenon DEF Next
<1>9. QED
  BY <1>7, <1>8

\* The half of DisputeOrFinalize that needs no ENABLED: the views that the billing
\* service asks first never announce both or neither, no call contradicts what they
\* announced, and a disputed or finalized statement stays as it is.
THEOREM SettlementViewsDecide ==
  Spec => []ViewsExclude /\ [][\A id \in StatementIds : StatusStep(id)]_vars
<1>1. TypeOK => ViewsExclude
  <2>1. SUFFICES ASSUME TypeOK, NEW id \in StatementIds, Submitted(id)
                 PROVE  IsFinalizable(id) <=> RemainingDisputeTime(id) = 0
    BY DEF ViewsExclude
  <2>2. /\ now \in Nat /\ disputeWindow \in Nat /\ statements[id].submittedAt \in Nat
    BY <2>1, SettlementCallFacts DEF TypeOK, Statement
  <2>3. QED
    BY <2>1, <2>2 DEF IsFinalizable, RemainingDisputeTime, WindowEnd
<1>2. TypeOK /\ [Next]_vars => \A id \in StatementIds : StatusStep(id)
  BY StatusOfEveryStep
<1>3. QED
  BY <1>1, <1>2, SettlementTypeCorrect, PTL DEF Spec

-----------------------------------------------------------------------------
(* The dispute window in seconds                                           *)

\* Of every second that an open statement has seen, its supplier could have used it
\* or it was lost to a pause, until the shortest window is full.
EverySecondCounted ==
  \A id \in StatementIds :
     Submitted(id) =>
        /\ statements[id].submittedAt <= now
        /\ \/ disputable[id] + lost[id] >= now - statements[id].submittedAt
           \/ disputable[id] + lost[id] >= shortestWindow[id]

SecondsTyped ==
  disputable \in [StatementIds -> Nat] /\ lost \in [StatementIds -> Nat]

TimedInv == TypeOK /\ WindowInv /\ SecondsTyped /\ EverySecondCounted /\ WindowMinusPauses

\* A second is counted when it passes, and at most one at a time.
LEMMA SecondCounted ==
  ASSUME SecondsTyped, CountSeconds
  PROVE  /\ SecondsTyped'
         /\ \A i \in StatementIds :
              /\ disputable'[i] + lost'[i] >= disputable[i] + lost[i]
              /\ now' > now /\ Submitted(i) /\ (paused \/ RemainingDisputeTime(i) > 0)
                   => disputable'[i] + lost'[i] = disputable[i] + lost[i] + 1
<1>1. \A i \in StatementIds :
        /\ disputable'[i] = IF now' > now /\ ~paused /\ RemainingDisputeTime(i) > 0
                            THEN disputable[i] + 1 ELSE disputable[i]
        /\ lost'[i] = IF now' > now /\ paused /\ Submitted(i) THEN lost[i] + 1 ELSE lost[i]
        /\ disputable[i] \in Nat /\ lost[i] \in Nat
  BY DEF SecondsTyped, CountSeconds
<1>2. DOMAIN disputable' = StatementIds /\ DOMAIN lost' = StatementIds
  BY DEF CountSeconds
<1>3. SecondsTyped'
  <2>1. \A i \in StatementIds : disputable'[i] \in Nat /\ lost'[i] \in Nat
    BY <1>1
  <2>2. /\ disputable' = [i \in StatementIds |-> disputable'[i]]
        /\ lost' = [i \in StatementIds |-> lost'[i]]
    BY DEF CountSeconds
  <2> QED
    BY <2>1, <2>2 DEF SecondsTyped
<1> QED
  BY <1>1, <1>3

\* What a call may do to a statement that is open or finalized after it.
WindowKept(i) ==
  /\ Submitted(i)' =>
       \/ /\ Submitted(i) /\ statements'[i].submittedAt = statements[i].submittedAt
          /\ shortestWindow'[i] <= shortestWindow[i]
       \/ statements'[i].submittedAt = now
  /\ statements'[i].status = "Finalized" =>
       /\ shortestWindow'[i] = shortestWindow[i]
       /\ \/ statements[i].status = "Finalized"
          \/ Submitted(i) /\ now >= statements[i].submittedAt + disputeWindow

LEMMA EveryCallKeepsWindow ==
  ASSUME TypeOK, [Next]_vars, NEW i \in StatementIds
  PROVE  WindowKept(i)
<1>1. shortestWindow[i] \in Nat /\ disputeWindow \in Nat
  BY SettlementCallFacts DEF TypeOK
<1>2. ASSUME statements'[i] = statements[i], shortestWindow'[i] = shortestWindow[i]
      PROVE  WindowKept(i)
  BY <1>1, <1>2 DEF WindowKept, Submitted
<1>3. ASSUME NEW caller \in Accounts, NEW id \in StatementIds, NEW supplier \in Suppliers,
             NEW amount \in Amounts, SubmitStatement(caller, id, supplier, amount)
      PROVE  WindowKept(i)
  <2>1. CASE i = id
    BY <1>3, <2>1, SubmitStatementEffect DEF WindowKept
  <2>2. CASE i # id
    BY <1>2, <1>3, <2>2, SubmitStatementEffect
  <2>3. QED
    BY <2>1, <2>2
<1>4. ASSUME NEW id \in StatementIds, FinalizeStatement(id)
      PROVE  WindowKept(i)
  <2>1. shortestWindow' = shortestWindow
    BY <1>4 DEF FinalizeStatement, historyVars
  <2>2. CASE i = id
    BY <1>4, <2>1, <2>2, FinalizeStatementEffect DEF WindowKept, Submitted
  <2>3. CASE i # id
    BY <1>2, <1>4, <2>1, <2>3, FinalizeStatementEffect
  <2>4. QED
    BY <2>2, <2>3
<1>5. ASSUME NEW caller \in Accounts, NEW id \in StatementIds, DisputeStatement(caller, id)
      PROVE  WindowKept(i)
  <2>1. shortestWindow' = shortestWindow
    BY <1>5 DEF DisputeStatement, historyVars
  <2>2. CASE i = id
    BY <1>5, <2>2, DisputeStatementEffect DEF WindowKept, Submitted
  <2>3. CASE i # id
    BY <1>2, <1>5, <2>1, <2>3, DisputeStatementEffect
  <2>4. QED
    BY <2>2, <2>3
<1>6. ASSUME NEW caller \in Accounts, NEW window \in Windows, SetDisputeWindow(caller, window)
      PROVE  WindowKept(i)
  <2>1. /\ window \in Nat /\ UNCHANGED statements
        /\ shortestWindow'[i] = IF Submitted(i) /\ window < shortestWindow[i]
                                THEN window ELSE shortestWindow[i]
    BY <1>6, SettlementCallFacts DEF SetDisputeWindow
  <2>2. QED
    BY <1>1, <2>1 DEF WindowKept, Submitted
<1>7. ASSUME NEW caller \in Suppliers, ClaimPayment(caller)
      PROVE  WindowKept(i)
  BY <1>2, <1>7 DEF ClaimPayment
<1>8. ASSUME UNCHANGED <<statements, disputeWindow, shortestWindow, claimableBalances, claimed>>
      PROVE  WindowKept(i)
  BY <1>2, <1>8
<1>9. CASE UNCHANGED vars
  BY <1>8, <1>9, OtherCalls
<1>10. CASE Next
  BY <1>3, <1>4, <1>5, <1>6, <1>7, <1>8, <1>10, OtherCalls, Zenon DEF Next
<1>11. QED
  BY <1>9, <1>10

\* Calls take no time; while time passes nothing else changes.
LEMMA TimeStandsStill ==
  ASSUME [Next]_vars
  PROVE  \/ now' = now
         \/ now' = now + 1 /\ UNCHANGED <<statements, disputeWindow, shortestWindow, paused>>
<1>1. ASSUME NEW caller, NEW id, NEW supplier, NEW amount, NEW window, NEW to, NEW from,
             \/ SubmitStatement(caller, id, supplier, amount)
             \/ FinalizeStatement(id)
             \/ DisputeStatement(caller, id)
             \/ ClaimPayment(caller)
             \/ SetDisputeWindow(caller, window)
             \/ Pause(caller) \/ Unpause(caller)
             \/ EmergencyWithdraw(caller, to, amount)
             \/ Fund(from, amount)
      PROVE  now' = now
  BY <1>1 DEF SubmitStatement, FinalizeStatement, DisputeStatement, ClaimPayment,
              SetDisputeWindow, Pause, Unpause, EmergencyWithdraw, Fund
<1>2. ASSUME Tick
      PROVE  now' = now + 1 /\ UNCHANGED <<statements, disputeWindow, shortestWindow, paused>>
  BY <1>2 DEF Tick, contractVars, historyVars
<1>3. CASE UNCHANGED vars
  BY <1>3 DEF vars
<1>4. CASE Next
  BY <1>1, <1>2, <1>4, Zenon DEF Next
<1>5. QED
  BY <1>3, <1>4

LEMMA TimedInductive ==
  ASSUME TimedInv, [Next /\ CountSeconds]_<<vars, disputable, lost>>
  PROVE  TimedInv'
<1> USE DEF TimedInv, WindowInv
<1>1. CASE UNCHANGED <<vars, disputable, lost>>
  BY <1>1 DEF vars, contractVars, historyVars, TypeOK, ShortestInForce, WindowWaited,
              SecondsTyped, EverySecondCounted, WindowMinusPauses, Submitted
<1>2. CASE Next /\ CountSeconds
  <2>1. TypeOK' /\ WindowInv'
    BY <1>2, SettlementTypeInductive, WindowInductive
  <2>2. \A i \in StatementIds :
          /\ disputable[i] \in Nat /\ lost[i] \in Nat
          /\ disputable'[i] \in Nat /\ lost'[i] \in Nat
          /\ now \in Nat /\ disputeWindow \in Nat
          /\ shortestWindow[i] \in Nat /\ shortestWindow'[i] \in Nat
          /\ statements[i].submittedAt \in Nat
    <3>1. SecondsTyped'
      BY <1>2, SecondCounted
    <3>2. QED
      BY <2>1, <3>1, SettlementCallFacts DEF TypeOK, Statement, SecondsTyped
  <2>3. ASSUME NEW i \in StatementIds, Submitted(i)'
        PROVE  /\ statements'[i].submittedAt <= now'
               /\ \/ disputable'[i] + lost'[i] >= now' - statements'[i].submittedAt
                  \/ disputable'[i] + lost'[i] >= shortestWindow'[i]
    <3>1. CASE now' = now
      <4>1. disputable'[i] + lost'[i] >= disputable[i] + lost[i]
        BY <1>2, SecondCounted
      <4>2. CASE statements'[i].submittedAt = now
        BY <2>2, <3>1, <4>2
      <4>3. CASE /\ Submitted(i) /\ statements'[i].submittedAt = statements[i].submittedAt
                 /\ shortestWindow'[i] <= shortestWindow[i]
        BY <2>2, <3>1, <4>1, <4>3 DEF EverySecondCounted
      <4>4. QED
        BY <1>2, <2>3, <4>2, <4>3, EveryCallKeepsWindow DEF WindowKept
    <3>2. CASE /\ now' = now + 1
               /\ UNCHANGED <<statements, disputeWindow, shortestWindow, paused>>
      <4>1. /\ Submitted(i) /\ statements'[i] = statements[i]
            /\ shortestWindow'[i] = shortestWindow[i]
            /\ shortestWindow[i] <= disputeWindow
            /\ disputable'[i] + lost'[i] >= disputable[i] + lost[i]
        BY <1>2, <2>3, <3>2, SecondCounted DEF Submitted, ShortestInForce
      <4>2. CASE paused \/ now < WindowEnd(i)
        <5>1. paused \/ RemainingDisputeTime(i) > 0
          BY <2>2, <4>1, <4>2 DEF RemainingDisputeTime, WindowEnd
        <5>2. disputable'[i] + lost'[i] = disputable[i] + lost[i] + 1
          BY <1>2, <2>2, <3>2, <4>1, <5>1, SecondCounted
        <5>3. QED
          BY <2>2, <3>2, <4>1, <5>2 DEF EverySecondCounted
      <4>3. CASE now >= WindowEnd(i)
        <5>1. disputable[i] + lost[i] >= shortestWindow[i]
          BY <2>2, <4>1, <4>3 DEF EverySecondCounted, WindowEnd
        <5>2. QED
          BY <2>2, <3>2, <4>1, <5>1 DEF EverySecondCounted
      <4>4. QED
        BY <2>2, <4>2, <4>3 DEF WindowEnd
    <3>3. QED
      BY <1>2, <3>1, <3>2, TimeStandsStill
  <2>4. ASSUME NEW i \in StatementIds, statements'[i].status = "Finalized"
        PROVE  disputable'[i] + lost'[i] >= shortestWindow'[i]
    <3>1. /\ disputable'[i] + lost'[i] >= disputable[i] + lost[i]
          /\ shortestWindow'[i] = shortestWindow[i]
          /\ \/ statements[i].status = "Finalized"
             \/ Submitted(i) /\ now >= statements[i].submittedAt + disputeWindow
      BY <1>2, <2>4, SecondCounted, EveryCallKeepsWindow DEF WindowKept
    <3>2. disputable[i] + lost[i] >= shortestWindow[i]
      BY <2>2, <3>1 DEF EverySecondCounted, ShortestInForce, WindowMinusPauses
    <3>3. QED
      BY <2>2, <3>1, <3>2
  <2>5. EverySecondCounted' /\ WindowMinusPauses'
    BY <2>3, <2>4 DEF EverySecondCounted, WindowMinusPauses
  <2>6. QED
    BY <1>2, <2>1, <2>5, SecondCounted
<1>3. QED
  BY <1>1, <1>2

\* A supplier had, to dispute a statement that was finalized, the shortest window in
\* force since its submission, less only the seconds that the contract was paused:
\* disputeStatement and finalizeStatement leave no other gap, whatever the owner does
\* with the window and the pause, and whoever finalizes.
THEOREM SettlementWindowMinusPauses == TimedSpec => []WindowMinusPauses
<1>1. TimedInit => TimedInv
  <2>1. SUFFICES ASSUME TimedInit PROVE TimedInv
    OBVIOUS
  <2>2. \A i \in StatementIds : statements[i].status = "None"
    BY <2>1 DEF TimedInit, Init, NoStatement
  <2>3. QED
    BY <2>1, <2>2, SettlementTypeInit
    DEF TimedInit, TimedInv, WindowInv, ShortestInForce, WindowWaited, SecondsTyped,
        EverySecondCounted, WindowMinusPauses, Submitted
<1>2. TimedInv => WindowMinusPauses
  BY DEF TimedInv
<1>3. QED
  BY <1>1, <1>2, TimedInductive, PTL DEF TimedSpec

-----------------------------------------------------------------------------
(* Credits                                                                 *)

\* The strengthening: a statement that was submitted has a supplier, so what
\* finalizing it credits is not lost.
HasSupplier ==
  \A id \in StatementIds :
     statements[id].status # "None" => statements[id].supplier \in Suppliers

LEMMA HasSupplierInductive ==
  ASSUME TypeOK, HasSupplier, [Next]_vars
  PROVE  HasSupplier'
<1>1. ASSUME UNCHANGED statements
      PROVE  HasSupplier'
  BY <1>1 DEF HasSupplier
<1>2. ASSUME NEW caller \in Accounts, NEW id \in StatementIds, NEW supplier \in Suppliers,
             NEW amount \in Amounts, SubmitStatement(caller, id, supplier, amount)
      PROVE  HasSupplier'
  BY <1>2, SubmitStatementEffect DEF HasSupplier
<1>3. ASSUME NEW id \in StatementIds, FinalizeStatement(id)
      PROVE  HasSupplier'
  BY <1>3, FinalizeStatementEffect DEF HasSupplier
<1>4. ASSUME NEW caller \in Accounts, NEW id \in StatementIds, DisputeStatement(caller, id)
      PROVE  HasSupplier'
  BY <1>4, DisputeStatementEffect DEF HasSupplier
<1>5. ASSUME NEW caller, NEW window, ClaimPayment(caller) \/ SetDisputeWindow(caller, window)
      PROVE  UNCHANGED statements
  BY <1>5 DEF ClaimPayment, SetDisputeWindow
<1>6. CASE UNCHANGED vars
  BY <1>1, <1>6, OtherCalls
<1>7. CASE Next
  BY <1>1, <1>2, <1>3, <1>4, <1>5, <1>7, OtherCalls, Zenon DEF Next
<1>8. QED
  BY <1>6, <1>7

\* Totals are integers, and so are the sums of a supplier's finalized totals.
LEMMA CreditSums ==
  ASSUME TypeOK, NEW s \in Suppliers
  PROVE  /\ \A i \in StatementIds : FinalizedFor(s)[i] \in Int
         /\ SumFunctionOnSet(FinalizedFor(s), StatementIds) \in Int
         /\ claimableBalances[s] \in Int /\ claimed[s] \in Int
<1>1. \A i \in StatementIds : statements[i].totalAmount \in Int
  BY DEF TypeOK, Statement
<1>2. \A i \in StatementIds : FinalizedFor(s)[i] \in Int
  BY <1>1 DEF FinalizedFor
<1>3. QED
  BY <1>2, SettlementCallFacts, SumInt DEF TypeOK

\* A step that finalizes nothing leaves the sums alone.
LEMMA SameCredits ==
  ASSUME NEW s,
         \A i \in StatementIds :
            \/ statements'[i] = statements[i]
            \/ statements[i].status # "Finalized" /\ statements'[i].status # "Finalized"
  PROVE  SumFunctionOnSet(FinalizedFor(s)', StatementIds)
           = SumFunctionOnSet(FinalizedFor(s), StatementIds)
<1>1. \A i \in StatementIds : FinalizedFor(s)'[i] = FinalizedFor(s)[i]
  BY DEF FinalizedFor
<1>2. QED
  BY <1>1, SettlementCallFacts, SumCongruent

LEMMA CreditedOnceInductive ==
  ASSUME TypeOK, HasSupplier, CreditedOnce, [Next]_vars
  PROVE  CreditedOnce'
<1>1. ASSUME UNCHANGED <<claimableBalances, claimed>>,
             \A i \in StatementIds :
                \/ statements'[i] = statements[i]
                \/ statements[i].status # "Finalized" /\ statements'[i].status # "Finalized"
      PROVE  CreditedOnce'
  <2>1. SUFFICES ASSUME NEW s \in Suppliers
                 PROVE  claimableBalances'[s] + claimed'[s]
                          = SumFunctionOnSet(FinalizedFor(s)', StatementIds)
    BY DEF CreditedOnce
  <2>2. SumFunctionOnSet(FinalizedFor(s)', StatementIds)
          = SumFunctionOnSet(FinalizedFor(s), StatementIds)
    BY <1>1, SameCredits
  <2>3. QED
    BY <1>1, <2>2 DEF CreditedOnce
<1>2. ASSUME NEW caller \in Accounts, NEW id \in StatementIds, NEW supplier \in Suppliers,
             NEW amount \in Amounts, SubmitStatement(caller, id, supplier, amount)
      PROVE  CreditedOnce'
  <2>1. UNCHANGED <<claimableBalances, claimed>>
    BY <1>2 DEF SubmitStatement
  <2>2. QED
    BY <1>1, <1>2, <2>1, SubmitStatementEffect
<1>3. ASSUME NEW id \in StatementIds, FinalizeStatement(id)
      PROVE  CreditedOnce'
  <2> DEFINE payee == statements[id].supplier
             total == statements[id].totalAmount
  <2>1. /\ payee \in Suppliers /\ total \in Nat
        /\ claimableBalances' = [claimableBalances EXCEPT ![payee] = @ + total]
        /\ claimed' = claimed
    BY <1>3, FinalizeStatementEffect
    DEF HasSupplier, FinalizeStatement, historyVars, TypeOK, Statement
  <2>2. /\ \A i \in StatementIds \ {id} : statements'[i] = statements[i]
        /\ statements[id].status = "Submitted" /\ statements'[id].status = "Finalized"
        /\ statements'[id].supplier = payee /\ statements'[id].totalAmount = total
    BY <1>3, FinalizeStatementEffect
  <2>3. SUFFICES ASSUME NEW s \in Suppliers
                 PROVE  claimableBalances'[s] + claimed'[s]
                          = SumFunctionOnSet(FinalizedFor(s)', StatementIds)
    BY DEF CreditedOnce
  <2> HIDE DEF payee, total
  <2>4. CASE s = payee
    <3>1. \A i \in StatementIds : FinalizedFor(s)'[i] = IF i = id THEN FinalizedFor(s)[i] + total
                                                       ELSE FinalizedFor(s)[i]
      BY <2>1, <2>2, <2>4 DEF FinalizedFor
    <3>2. SumFunctionOnSet(FinalizedFor(s)', StatementIds)
            = SumFunctionOnSet(FinalizedFor(s), StatementIds) + total
      BY <2>1, <3>1, CreditSums, SettlementCallFacts, SumAdd
    <3>3. claimableBalances'[s] = claimableBalances[s] + total
      BY <2>1, <2>4 DEF TypeOK
    <3>4. QED
      BY <2>1, <3>2, <3>3, CreditSums DEF CreditedOnce
  <2>5. CASE s # payee
    <3>1. \A i \in StatementIds : FinalizedFor(s)'[i] = FinalizedFor(s)[i]
      BY <2>2, <2>5 DEF FinalizedFor, payee
    <3>2. SumFunctionOnSet(FinalizedFor(s)', StatementIds)
            = SumFunctionOnSet(FinalizedFor(s), StatementIds)
      BY <3>1, SettlementCallFacts, SumCongruent
    <3>3. claimableBalances'[s] = claimableBalances[s]
      BY <2>1, <2>5 DEF TypeOK
    <3>4. QED
      BY <2>1, <3>2, <3>3 DEF CreditedOnce
  <2>6. QED
    BY <2>4, <2>5
<1>4. ASSUME NEW caller \in Accounts, NEW id \in StatementIds, DisputeStatement(caller, id)
      PROVE  CreditedOnce'
  <2>1. UNCHANGED <<claimableBalances, claimed>>
    BY <1>4 DEF DisputeStatement, historyVars
  <2>2. QED
    BY <1>1, <1>4, <2>1, DisputeStatementEffect
<1>5. ASSUME NEW caller \in Suppliers, ClaimPayment(caller)
      PROVE  CreditedOnce'
  <2>1. ASSUME NEW s \in Suppliers
        PROVE  claimableBalances'[s] + claimed'[s] = claimableBalances[s] + claimed[s]
    BY <1>5 DEF ClaimPayment, TypeOK
  <2>2. UNCHANGED statements
    BY <1>5 DEF ClaimPayment
  <2>3. QED
    BY <2>1, <2>2 DEF CreditedOnce, FinalizedFor
<1>6. ASSUME NEW caller, NEW window, SetDisputeWindow(caller, window)
      PROVE  CreditedOnce'
  <2>1. UNCHANGED <<statements, claimableBalances, claimed>>
    BY <1>6 DEF SetDisputeWindow
  <2>2. QED
    BY <1>1, <2>1
<1>7. ASSUME UNCHANGED <<statements, disputeWindow, shortestWindow, claimableBalances, claimed>>
      PROVE  CreditedOnce'
  BY <1>1, <1>7
<1>8. CASE UNCHANGED vars
  BY <1>7, <1>8, OtherCalls
<1>9. CASE Next
  BY <1>2, <1>3, <1>4, <1>5, <1>6, <1>7, <1>9, OtherCalls, Zenon DEF Next
<1>10. QED
  BY <1>8, <1>9

LEMMA CreditsInitially == Init => HasSupplier /\ CreditedOnce
<1>1. Init => HasSupplier
  BY DEF Init, HasSupplier, NoStatement
<1>2. Init => CreditedOnce
  <2>1. SUFFICES ASSUME Init, NEW s \in Suppliers
                 PROVE  claimableBalances[s] + claimed[s]
                          = SumFunctionOnSet(FinalizedFor(s), StatementIds)
    BY DEF CreditedOnce
  <2>2. \A i \in StatementIds : FinalizedFor(s)[i] = 0
    BY <2>1 DEF Init, FinalizedFor, NoStatement
  <2>3. SumFunctionOnSet(FinalizedFor(s), StatementIds) = 0
    BY <2>2, SettlementCallFacts, SumZero
  <2>4. QED
    BY <2>1, <2>3 DEF Init
<1>3. QED
  BY <1>1, <1>2

\* Every finalized statement is credited to its supplier exactly once, disputed
\* statements never, and every claim pays exactly what was credited.
THEOREM SettlementCreditedOnce == Spec => []CreditedOnce
<1>1. Init => HasSupplier /\ CreditedOnce
  BY CreditsInitially
<1>2. QED
  BY <1>1, SettlementTypeCorrect, HasSupplierInductive, CreditedOnceInductive,
     PTL DEF Spec

-----------------------------------------------------------------------------
(* Refinement                                                              *)

\* The refinement mapping of ImplementsLedger.
Phase == [id \in StatementIds |-> PhaseOf(statements[id].status)]
Terms == [id \in StatementIds |-> [supplier |-> statements[id].supplier,
                                   amount |-> statements[id].totalAmount]]

\* A call that gives one statement a new status and new terms does so under the
\* mapping too.
LEMMA MappedChange ==
  ASSUME NEW id \in StatementIds,
         \A i \in StatementIds \ {id} : statements'[i] = statements[i]
  PROVE  /\ Phase' = [Phase EXCEPT ![id] = PhaseOf(statements'[id].status)]
         /\ Terms' = [Terms EXCEPT ![id] = [supplier |-> statements'[id].supplier,
                                            amount |-> statements'[id].totalAmount]]
<1>1. Phase' = [Phase EXCEPT ![id] = PhaseOf(statements'[id].status)]
  <2>1. ASSUME NEW i \in StatementIds
        PROVE  PhaseOf(statements'[i].status)
                 = IF i = id THEN PhaseOf(statements'[id].status)
                   ELSE PhaseOf(statements[i].status)
    OBVIOUS
  <2>2. QED
    BY <2>1 DEF Phase
<1>2. Terms' = [Terms EXCEPT ![id] = [supplier |-> statements'[id].supplier,
                                      amount |-> statements'[id].totalAmount]]
  BY DEF Terms
<1>3. QED
  BY <1>1, <1>2

\* Every step of the contract is a step of the ledger, or leaves it unchanged.
LEMMA LedgerStep ==
  ASSUME TypeOK, HasSupplier, [Next]_vars
  PROVE  [Ledger!LedgerNext]_(Ledger!ledgerVars)
<1>1. ASSUME UNCHANGED <<statements, claimableBalances, claimed>>
      PROVE  UNCHANGED Ledger!ledgerVars
  BY <1>1 DEF Ledger!ledgerVars
<1>2. ASSUME NEW caller \in Accounts, NEW id \in StatementIds, NEW supplier \in Suppliers,
             NEW amount \in Amounts, SubmitStatement(caller, id, supplier, amount)
      PROVE  Ledger!Open(id, supplier, amount)
  <2>1. /\ statements[id].status = "None" /\ statements'[id].status = "Submitted"
        /\ statements'[id].supplier = supplier /\ statements'[id].totalAmount = amount
    BY <1>2, SubmitStatementEffect
  <2>2. /\ Phase' = [Phase EXCEPT ![id] = PhaseOf(statements'[id].status)]
        /\ Terms' = [Terms EXCEPT ![id] = [supplier |-> statements'[id].supplier,
                                           amount |-> statements'[id].totalAmount]]
    BY <1>2, SubmitStatementEffect, MappedChange
  <2>3. Phase[id] = "none" /\ PhaseOf(statements'[id].status) = "open"
    BY <2>1 DEF Phase, PhaseOf
  <2>4. amount > 0
    BY <1>2, SettlementCallFacts DEF SubmitStatement
  <2>5. UNCHANGED <<claimableBalances, claimed>>
    BY <1>2 DEF SubmitStatement
  <2>6. QED
    BY <2>1, <2>2, <2>3, <2>4, <2>5 DEF Ledger!Open, Phase, Terms
<1>3. ASSUME NEW id \in StatementIds, FinalizeStatement(id)
      PROVE  Ledger!Credit(id)
  <2>1. /\ statements[id].status = "Submitted" /\ statements'[id].status = "Finalized"
        /\ statements'[id].supplier = statements[id].supplier
        /\ statements'[id].totalAmount = statements[id].totalAmount
    BY <1>3, FinalizeStatementEffect
  <2>2. /\ Phase' = [Phase EXCEPT ![id] = PhaseOf(statements'[id].status)]
        /\ Terms' = [Terms EXCEPT ![id] = [supplier |-> statements'[id].supplier,
                                           amount |-> statements'[id].totalAmount]]
    BY <1>3, FinalizeStatementEffect, MappedChange
  <2>3. Phase[id] = "open" /\ PhaseOf(statements'[id].status) = "credited"
    BY <2>1 DEF Phase, PhaseOf
  <2>4. /\ Terms[id].supplier = statements[id].supplier
        /\ Terms[id].amount = statements[id].totalAmount
        /\ Terms' = Terms
    BY <2>1, <2>2 DEF Terms
  <2>5. /\ claimableBalances' = [claimableBalances EXCEPT
                                   ![statements[id].supplier] = @ + statements[id].totalAmount]
        /\ UNCHANGED claimed
    BY <1>3 DEF FinalizeStatement, historyVars
  <2>6. QED
    BY <2>2, <2>3, <2>4, <2>5 DEF Ledger!Credit, Phase, Terms
<1>4. ASSUME NEW caller \in Accounts, NEW id \in StatementIds, DisputeStatement(caller, id)
      PROVE  Ledger!Contest(id)
  <2>1. /\ statements[id].status = "Submitted" /\ statements'[id].status = "Disputed"
        /\ statements'[id].supplier = statements[id].supplier
        /\ statements'[id].totalAmount = statements[id].totalAmount
    BY <1>4, DisputeStatementEffect
  <2>2. /\ Phase' = [Phase EXCEPT ![id] = PhaseOf(statements'[id].status)]
        /\ Terms' = [Terms EXCEPT ![id] = [supplier |-> statements'[id].supplier,
                                           amount |-> statements'[id].totalAmount]]
    BY <1>4, DisputeStatementEffect, MappedChange
  <2>3. Phase[id] = "open" /\ PhaseOf(statements'[id].status) = "contested"
    BY <2>1 DEF Phase, PhaseOf
  <2>4. Terms' = Terms
    BY <2>1, <2>2 DEF Terms
  <2>5. UNCHANGED <<claimableBalances, claimed>>
    BY <1>4 DEF DisputeStatement, historyVars
  <2>6. QED
    BY <2>2, <2>3, <2>4, <2>5 DEF Ledger!Contest, Phase, Terms
<1>5. ASSUME NEW caller \in Suppliers, ClaimPayment(caller)
      PROVE  Ledger!PayOut(caller)
  <2>1. claimableBalances[caller] \in Nat
    BY DEF TypeOK
  <2>2. /\ claimableBalances[caller] # 0
        /\ claimableBalances' = [claimableBalances EXCEPT ![caller] = 0]
        /\ claimed' = [claimed EXCEPT ![caller] = @ + claimableBalances[caller]]
        /\ UNCHANGED statements
    BY <1>5 DEF ClaimPayment
  <2>3. QED
    BY <2>1, <2>2 DEF Ledger!PayOut
<1>6. ASSUME NEW caller, NEW window, SetDisputeWindow(caller, window)
      PROVE  UNCHANGED <<statements, claimableBalances, claimed>>
  BY <1>6 DEF SetDisputeWindow
<1>7. CASE UNCHANGED vars
  BY <1>1, <1>7, OtherCalls
<1>8. ASSUME NEW caller, NEW to, NEW amount, NEW from, NEW window,
             \/ Pause(caller) \/ Unpause(caller)
             \/ EmergencyWithdraw(caller, to, amount)
             \/ Tick
             \/ Fund(from, amount)
             \/ SetDisputeWindow(caller, window)
      PROVE  UNCHANGED Ledger!ledgerVars
  BY <1>1, <1>6, <1>8, OtherCalls
<1>9. CASE Next
  BY <1>2, <1>3, <1>4, <1>5, <1>8, <1>9, Zenon DEF Next, Ledger!LedgerNext
<1>10. QED
  BY <1>1, <1>7, <1>9

\* The contract implements the abstract ledger of statements and credits.
THEOREM SettlementImplementsLedger == Spec => ImplementsLedger
<1>1. Init => Ledger!LedgerInit
  <2>1. SUFFICES ASSUME Init PROVE Ledger!LedgerInit
    OBVIOUS
  <2>2. \A id \in StatementIds :
           /\ PhaseOf(statements[id].status) = "none"
           /\ statements[id].supplier = ZeroAddress /\ statements[id].totalAmount = 0
    BY <2>1 DEF Init, NoStatement, PhaseOf
  <2>3. QED
    BY <2>1, <2>2 DEF Init, Ledger!LedgerInit, Ledger!NoTerms
<1>2. Init => HasSupplier
  BY DEF Init, HasSupplier, NoStatement
<1>3. QED
  BY <1>1, <1>2, SettlementTypeCorrect, HasSupplierInductive, LedgerStep, PTL
  DEF Spec, ImplementsLedger, Ledger!LedgerSpec

=============================================================================
