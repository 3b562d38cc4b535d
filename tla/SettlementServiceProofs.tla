---------------------- MODULE SettlementServiceProofs ----------------------
(***************************************************************************)
(* That books and chain never contradict each other, for any number of     *)
(* requests, statements, wallets and restarts.  The properties speak of    *)
(* rows and of the ledger; what carries them from one await to the next is *)
(* what each handler still remembers of the row it read and of the         *)
(* transaction it sent, which the conjuncts of Inv spell out.              *)
(***************************************************************************)
EXTENDS SettlementService, TLAPS

Prepared == {"checked", "marked", "submitting"}

\* A handler knows which kind of request it serves, and has sent nothing yet
\* before the step that sends.
JobsFollowSteps ==
  \A r \in Requests :
    /\ pc[r] \in Prepared => Submits(r)
    /\ pc[r] \in {"approved", "finalizing"} => ~Submits(r)
    /\ pc[r] \in {"idle", "checked", "marked", "approved"} => tx[r] = "none"
    /\ tx[r] # "none" => job[r].id \in StatementIds

\* What a submission read of its row still holds when its transaction is mined.
BookedWhenSent ==
  \A r \in Requests : Submits(r) /\ (pc[r] \in Prepared \/ tx[r] = "pooled") =>
    /\ rows[job[r].id].status \in {"FINALIZED", "PAID"}
    /\ rows[job[r].id].total = job[r].total

\* The row has left NOT_SUBMITTED before anything can reach the chain.
AnnouncedWhenSent ==
  /\ \A r \in Requests :
       Submits(r) /\ (pc[r] \in {"marked", "submitting"} \/ tx[r] = "pooled") =>
         rows[job[r].id].blockchain_status # "NOT_SUBMITTED"
  /\ \A id \in StatementIds :
       phase[id] # "none" => rows[id].blockchain_status # "NOT_SUBMITTED"

\* The effect of a mined transaction stays on the chain.
MinedIsOnChain ==
  /\ \A r \in Requests : tx[r] = "mined" /\ Submits(r) =>
       /\ phase[job[r].id] # "none"
       /\ terms[job[r].id] = [supplier |-> job[r].wallet, amount |-> job[r].total]
  /\ \A r \in Requests : tx[r] = "mined" /\ ~Submits(r) => phase[job[r].id] = "credited"
  /\ \A r, q \in Requests :
       tx[r] = "mined" /\ Submits(r) /\ tx[q] = "mined" /\ Submits(q) =>
         r = q \/ job[r].id # job[q].id
  /\ \A r \in Requests : pc[r] = "ok" => tx[r] = "mined"

Inv ==
  /\ TypeOK
  /\ JobsFollowSteps
  /\ BookedWhenSent
  /\ AnnouncedWhenSent
  /\ MinedIsOnChain
  /\ ChainFollowsBooks
  /\ BooksFollowChain

-----------------------------------------------------------------------------
(* One lemma per conjunct of Inv, one step per action.                      *)

LEMMA CreditTyped ==
  ASSUME TypeOK, NEW id \in StatementIds, Credit(id)
  PROVE  phase' \in [StatementIds -> Phases] /\ owed' \in [Suppliers -> Nat]
<1>1. terms[id].amount \in Nat
  BY DEF TypeOK
<1>2. owed' \in [Suppliers -> Nat]
  <2>1. CASE terms[id].supplier \in Suppliers
    <3>1. owed[terms[id].supplier] + terms[id].amount \in Nat
      BY <1>1, <2>1 DEF TypeOK
    <3>2. QED  BY <2>1, <3>1 DEF TypeOK, Credit
  <2>2. CASE terms[id].supplier \notin Suppliers
    BY <2>2 DEF TypeOK, Credit
  <2>3. QED  BY <2>1, <2>2
<1>3. phase' \in [StatementIds -> Phases]
  BY DEF TypeOK, Credit, Phases
<1>4. QED  BY <1>2, <1>3

\* A submission is mined only for a statement that is not on chain, so none of
\* the transactions mined before touched it.
LEMMA MinedSubmission ==
  ASSUME TypeOK, JobsFollowSteps, MinedIsOnChain, NEW r \in Requests, SubmissionMined(r)
  PROVE  MinedIsOnChain'
<1>1. /\ job' = job /\ pc' = pc /\ Submits(r) /\ Submits(r)'
      /\ tx'[r] = "mined" /\ \A q \in Requests \ {r} : tx'[q] = tx[q]
  BY DEF SubmissionMined, Submits, TypeOK
<1>2. job[r].id \in StatementIds /\ phase[job[r].id] = "none"
  BY DEF SubmissionMined, Open, JobsFollowSteps
<1>3. phase'[job[r].id] = "open"
      /\ \A id \in StatementIds \ {job[r].id} : phase'[id] = phase[id]
  BY <1>2 DEF SubmissionMined, Open, TypeOK
<1>4. /\ terms'[job[r].id] = [supplier |-> job[r].wallet, amount |-> job[r].total]
      /\ \A id \in StatementIds \ {job[r].id} : terms'[id] = terms[id]
  BY <1>2 DEF SubmissionMined, Open, TypeOK
<1>5. \A q \in Requests : tx[q] = "mined" =>
        job[q].id \in StatementIds /\ job[q].id # job[r].id
  BY <1>2 DEF MinedIsOnChain, Submits, JobsFollowSteps
<1>6. QED  BY <1>1, <1>2, <1>3, <1>4, <1>5 DEF MinedIsOnChain, Submits

\* Every step keeps the types; a handler's id is a statement because it read one.
LEMMA TypeOKStep ==
  ASSUME TypeOK, JobsFollowSteps, [Next]_vars
  PROVE  TypeOK'
<1> USE ServiceAssumption
    DEF TypeOK, Phases, Steps, Running, serviceVars, ledgerVars
<1>1. ASSUME NEW id \in StatementIds, NEW total \in Amounts,
             GenerateStatement(id, total)
      PROVE  TypeOK'
  <2>1. rows[id] \in Row /\ total \in Nat
    BY <1>1, ServiceAssumption
  <2>2. [rows[id] EXCEPT !.status = "DRAFT", !.total = total] \in Row
    BY <2>1 DEF Row
  <2>3. rows' \in [StatementIds -> Row]
    BY <1>1, <2>2 DEF GenerateStatement
  <2>4. QED  BY <1>1, <2>3 DEF GenerateStatement
<1>2. ASSUME NEW id \in StatementIds, FinalizeStatement(id) PROVE TypeOK'
  <2>1. rows[id] \in Row
    OBVIOUS
  <2>2. [rows[id] EXCEPT !.status = "FINALIZED"] \in Row
    BY <2>1 DEF Row
  <2>3. rows' \in [StatementIds -> Row]
    BY <1>2, <2>2 DEF FinalizeStatement
  <2>4. QED  BY <1>2, <2>3 DEF FinalizeStatement
<1>3. ASSUME NEW r \in Requests, NEW id \in Existing, NEW wallet \in Suppliers,
             SubmitOnChain(r, id, wallet)
      PROVE  TypeOK'
  <2>1. id \in StatementIds /\ rows[id] \in Row
    BY DEF Existing
  <2>2. rows[id].total \in Nat
    BY <2>1 DEF Row
  <2>3. QED  BY <1>3, <2>1, <2>2 DEF SubmitOnChain, Goto
<1>4. ASSUME NEW r \in Requests, NEW id \in Existing, NEW wallet \in Suppliers,
             SubmitReadFails(r, id, wallet)
      PROVE  TypeOK'
  BY <1>4 DEF SubmitReadFails, Goto, Existing
<1>5. ASSUME NEW r \in Requests, NEW id \in Existing,
             FinalizeOnChain(r, id)
      PROVE  TypeOK'
  BY <1>5 DEF FinalizeOnChain, Goto, Existing
<1>6. ASSUME NEW r \in Requests, MarkPending(r) PROVE TypeOK'
  <2>1. job[r].id \in StatementIds /\ job[r].wallet \in Suppliers \cup {ZeroAddress}
    BY <1>6 DEF MarkPending
  <2>2. rows[job[r].id] \in Row
    BY <2>1
  <2>3. [rows[job[r].id] EXCEPT !.blockchain_status = "PENDING",
                                !.supplier_wallet = job[r].wallet] \in Row
    BY <2>1, <2>2 DEF Row
  <2>4. rows' \in [StatementIds -> Row]
    BY <1>6, <2>1, <2>3 DEF MarkPending
  <2>5. QED  BY <1>6, <2>4 DEF MarkPending, Goto
<1>7. ASSUME NEW r \in Requests, SendSubmission(r) PROVE TypeOK'
  BY <1>7 DEF SendSubmission, Goto
<1>8. ASSUME NEW r \in Requests, SubmissionConfirmed(r) PROVE TypeOK'
  <2>1. job[r].id \in StatementIds
    BY <1>8 DEF SubmissionConfirmed
  <2>2. rows[job[r].id] \in Row
    BY <2>1
  <2>3. [rows[job[r].id] EXCEPT !.blockchain_status = "SUBMITTED"] \in Row
    BY <2>1, <2>2 DEF Row
  <2>4. rows' \in [StatementIds -> Row]
    BY <1>8, <2>1, <2>3 DEF SubmissionConfirmed
  <2>5. QED  BY <1>8, <2>4 DEF SubmissionConfirmed, Goto
<1>9. ASSUME NEW r \in Requests, SubmitThrows(r) PROVE TypeOK'
  BY <1>9 DEF SubmitThrows, Goto
<1>10. ASSUME NEW r \in Requests, MarkFailed(r) PROVE TypeOK'
  <2>1. job[r].id \in StatementIds
    BY <1>10 DEF MarkFailed
  <2>2. rows[job[r].id] \in Row
    BY <2>1
  <2>3. [rows[job[r].id] EXCEPT !.blockchain_status = "FAILED"] \in Row
    BY <2>1, <2>2 DEF Row
  <2>4. rows' \in [StatementIds -> Row]
    BY <1>10, <2>1, <2>3 DEF MarkFailed
  <2>5. QED  BY <1>10, <2>4 DEF MarkFailed, Goto
<1>11. ASSUME NEW r \in Requests, MarkFailedLost(r) PROVE TypeOK'
  BY <1>11 DEF MarkFailedLost, Goto
<1>12. ASSUME NEW r \in Requests, SendFinalization(r) PROVE TypeOK'
  BY <1>12 DEF SendFinalization, Goto
<1>13. ASSUME NEW r \in Requests, FinalizationConfirmed(r) PROVE TypeOK'
  <2>1. job[r].id \in StatementIds
    BY <1>13 DEF FinalizationConfirmed
  <2>2. rows[job[r].id] \in Row
    BY <2>1
  <2>3. [rows[job[r].id] EXCEPT !.blockchain_status = "FINALIZED",
                                !.status = "PAID"] \in Row
    BY <2>1, <2>2 DEF Row
  <2>4. rows' \in [StatementIds -> Row]
    BY <1>13, <2>1, <2>3 DEF FinalizationConfirmed
  <2>5. QED  BY <1>13, <2>4 DEF FinalizationConfirmed, Goto
<1>14. ASSUME NEW r \in Requests, FinalizeThrows(r) PROVE TypeOK'
  BY <1>14 DEF FinalizeThrows, Goto
<1>15. ASSUME NEW r \in Requests, SubmissionMined(r) PROVE TypeOK'
  BY <1>15 DEF SubmissionMined, Open
<1>16. ASSUME NEW r \in Requests, FinalizationMined(r) PROVE TypeOK'
  <2>1. job[r].id \in StatementIds
    BY <1>16 DEF FinalizationMined, JobsFollowSteps
  <2>2. phase' \in [StatementIds -> Phases] /\ owed' \in [Suppliers -> Nat]
    BY <1>16, <2>1, CreditTyped DEF FinalizationMined
  <2>3. QED  BY <1>16, <2>2 DEF FinalizationMined, Credit
<1>17. ASSUME NEW r \in Requests, TransactionReverted(r) PROVE TypeOK'
  BY <1>17 DEF TransactionReverted
<1>18. ASSUME ChainStep PROVE TypeOK'
  BY <1>18 DEF ChainStep, Contest, Credit, PayOut
<1>19. ASSUME Restart PROVE TypeOK'
  BY <1>19 DEF Restart
<1>20. ASSUME UNCHANGED vars PROVE TypeOK'
  BY <1>20 DEF vars
<1>21. QED
  BY <1>1, <1>2, <1>3, <1>4, <1>5, <1>6, <1>7, <1>8, <1>9, <1>10,
         <1>11, <1>12, <1>13, <1>14, <1>15, <1>16, <1>17, <1>18, <1>19,
         <1>20, Zenon
  DEF Next

\* A handler keeps what it was given, and sends only at its sending step.
LEMMA JobsFollowStepsStep ==
  ASSUME TypeOK, JobsFollowSteps, [Next]_vars
  PROVE  JobsFollowSteps'
<1> USE ServiceAssumption
    DEF JobsFollowSteps, TypeOK, Submits, Prepared, Running,
          serviceVars, ledgerVars
<1>1. ASSUME NEW id \in StatementIds, NEW total \in Amounts,
             GenerateStatement(id, total)
      PROVE  JobsFollowSteps'
  BY <1>1 DEF GenerateStatement
<1>2. ASSUME NEW id \in StatementIds,
             FinalizeStatement(id)
      PROVE  JobsFollowSteps'
  BY <1>2 DEF FinalizeStatement
<1>3. ASSUME NEW r \in Requests, NEW id \in Existing, NEW wallet \in Suppliers,
             SubmitOnChain(r, id, wallet)
      PROVE  JobsFollowSteps'
  BY <1>3 DEF SubmitOnChain, Goto, Existing
<1>4. ASSUME NEW r \in Requests, NEW id \in Existing, NEW wallet \in Suppliers,
             SubmitReadFails(r, id, wallet)
      PROVE  JobsFollowSteps'
  BY <1>4 DEF SubmitReadFails, Goto, Existing
<1>5. ASSUME NEW r \in Requests, NEW id \in Existing,
             FinalizeOnChain(r, id)
      PROVE  JobsFollowSteps'
  BY <1>5 DEF FinalizeOnChain, Goto, Existing
<1>6. ASSUME NEW r \in Requests, MarkPending(r) PROVE JobsFollowSteps'
  BY <1>6 DEF MarkPending, Goto
<1>7. ASSUME NEW r \in Requests, SendSubmission(r) PROVE JobsFollowSteps'
  BY <1>7 DEF SendSubmission, Goto
<1>8. ASSUME NEW r \in Requests, SubmissionConfirmed(r) PROVE JobsFollowSteps'
  BY <1>8 DEF SubmissionConfirmed, Goto
<1>9. ASSUME NEW r \in Requests, SubmitThrows(r) PROVE JobsFollowSteps'
  BY <1>9 DEF SubmitThrows, Goto
<1>10. ASSUME NEW r \in Requests, MarkFailed(r) PROVE JobsFollowSteps'
  BY <1>10 DEF MarkFailed, Goto
<1>11. ASSUME NEW r \in Requests, MarkFailedLost(r) PROVE JobsFollowSteps'
  BY <1>11 DEF MarkFailedLost, Goto
<1>12. ASSUME NEW r \in Requests, SendFinalization(r) PROVE JobsFollowSteps'
  BY <1>12 DEF SendFinalization, Goto
<1>13. ASSUME NEW r \in Requests,
             FinalizationConfirmed(r)
      PROVE  JobsFollowSteps'
  BY <1>13 DEF FinalizationConfirmed, Goto
<1>14. ASSUME NEW r \in Requests, FinalizeThrows(r) PROVE JobsFollowSteps'
  BY <1>14 DEF FinalizeThrows, Goto
<1>15. ASSUME NEW r \in Requests, SubmissionMined(r) PROVE JobsFollowSteps'
  BY <1>15 DEF SubmissionMined, Open
<1>16. ASSUME NEW r \in Requests, FinalizationMined(r) PROVE JobsFollowSteps'
  BY <1>16 DEF FinalizationMined, Credit
<1>17. ASSUME NEW r \in Requests,
             TransactionReverted(r)
      PROVE  JobsFollowSteps'
  BY <1>17 DEF TransactionReverted
<1>18. ASSUME ChainStep PROVE JobsFollowSteps'
  BY <1>18 DEF ChainStep, Contest, Credit, PayOut
<1>19. ASSUME Restart PROVE JobsFollowSteps'
  BY <1>19 DEF Restart
<1>20. ASSUME UNCHANGED vars PROVE JobsFollowSteps'
  BY <1>20 DEF vars
<1>21. QED
  BY <1>1, <1>2, <1>3, <1>4, <1>5, <1>6, <1>7, <1>8, <1>9, <1>10,
         <1>11, <1>12, <1>13, <1>14, <1>15, <1>16, <1>17, <1>18, <1>19,
         <1>20, Zenon
  DEF Next

\* Rows move from FINALIZED to PAID only, and their totals never change.
LEMMA BookedWhenSentStep ==
  ASSUME TypeOK, JobsFollowSteps, BookedWhenSent, [Next]_vars
  PROVE  BookedWhenSent'
<1> USE ServiceAssumption
    DEF BookedWhenSent, JobsFollowSteps, TypeOK, Submits, Prepared,
          Running, serviceVars, ledgerVars
<1>1. ASSUME NEW id \in StatementIds, NEW total \in Amounts,
             GenerateStatement(id, total)
      PROVE  BookedWhenSent'
  BY <1>1 DEF GenerateStatement
<1>2. ASSUME NEW id \in StatementIds,
             FinalizeStatement(id)
      PROVE  BookedWhenSent'
  BY <1>2 DEF FinalizeStatement
<1>3. ASSUME NEW r \in Requests, NEW id \in Existing, NEW wallet \in Suppliers,
             SubmitOnChain(r, id, wallet)
      PROVE  BookedWhenSent'
  BY <1>3 DEF SubmitOnChain, Goto, Existing
<1>4. ASSUME NEW r \in Requests, NEW id \in Existing, NEW wallet \in Suppliers,
             SubmitReadFails(r, id, wallet)
      PROVE  BookedWhenSent'
  BY <1>4 DEF SubmitReadFails, Goto, Existing
<1>5. ASSUME NEW r \in Requests, NEW id \in Existing,
             FinalizeOnChain(r, id)
      PROVE  BookedWhenSent'
  BY <1>5 DEF FinalizeOnChain, Goto, Existing
<1>6. ASSUME NEW r \in Requests, MarkPending(r) PROVE BookedWhenSent'
  BY <1>6 DEF MarkPending, Goto
<1>7. ASSUME NEW r \in Requests, SendSubmission(r) PROVE BookedWhenSent'
  BY <1>7 DEF SendSubmission, Goto
<1>8. ASSUME NEW r \in Requests, SubmissionConfirmed(r) PROVE BookedWhenSent'
  BY <1>8 DEF SubmissionConfirmed, Goto
<1>9. ASSUME NEW r \in Requests, SubmitThrows(r) PROVE BookedWhenSent'
  BY <1>9 DEF SubmitThrows, Goto
<1>10. ASSUME NEW r \in Requests, MarkFailed(r) PROVE BookedWhenSent'
  BY <1>10 DEF MarkFailed, Goto
<1>11. ASSUME NEW r \in Requests, MarkFailedLost(r) PROVE BookedWhenSent'
  BY <1>11 DEF MarkFailedLost, Goto
<1>12. ASSUME NEW r \in Requests, SendFinalization(r) PROVE BookedWhenSent'
  BY <1>12 DEF SendFinalization, Goto
<1>13. ASSUME NEW r \in Requests,
             FinalizationConfirmed(r)
      PROVE  BookedWhenSent'
  BY <1>13 DEF FinalizationConfirmed, Goto
<1>14. ASSUME NEW r \in Requests, FinalizeThrows(r) PROVE BookedWhenSent'
  BY <1>14 DEF FinalizeThrows, Goto
<1>15. ASSUME NEW r \in Requests, SubmissionMined(r) PROVE BookedWhenSent'
  BY <1>15 DEF SubmissionMined, Open
<1>16. ASSUME NEW r \in Requests, FinalizationMined(r) PROVE BookedWhenSent'
  BY <1>16 DEF FinalizationMined, Credit
<1>17. ASSUME NEW r \in Requests, TransactionReverted(r) PROVE BookedWhenSent'
  BY <1>17 DEF TransactionReverted
<1>18. ASSUME ChainStep PROVE BookedWhenSent'
  BY <1>18 DEF ChainStep, Contest, Credit, PayOut
<1>19. ASSUME Restart PROVE BookedWhenSent'
  BY <1>19 DEF Restart
<1>20. ASSUME UNCHANGED vars PROVE BookedWhenSent'
  BY <1>20 DEF vars
<1>21. QED
  BY <1>1, <1>2, <1>3, <1>4, <1>5, <1>6, <1>7, <1>8, <1>9, <1>10,
         <1>11, <1>12, <1>13, <1>14, <1>15, <1>16, <1>17, <1>18, <1>19,
         <1>20, Zenon
  DEF Next

\* No step writes NOT_SUBMITTED.
LEMMA AnnouncedWhenSentStep ==
  ASSUME TypeOK, JobsFollowSteps, AnnouncedWhenSent, [Next]_vars
  PROVE  AnnouncedWhenSent'
<1> USE ServiceAssumption
    DEF AnnouncedWhenSent, JobsFollowSteps, TypeOK, Submits,
          Prepared, Running, serviceVars, ledgerVars
<1>1. ASSUME NEW id \in StatementIds, NEW total \in Amounts,
             GenerateStatement(id, total)
      PROVE  AnnouncedWhenSent'
  BY <1>1 DEF GenerateStatement
<1>2. ASSUME NEW id \in StatementIds,
             FinalizeStatement(id)
      PROVE  AnnouncedWhenSent'
  BY <1>2 DEF FinalizeStatement
<1>3. ASSUME NEW r \in Requests, NEW id \in Existing, NEW wallet \in Suppliers,
             SubmitOnChain(r, id, wallet)
      PROVE  AnnouncedWhenSent'
  BY <1>3 DEF SubmitOnChain, Goto, Existing
<1>4. ASSUME NEW r \in Requests, NEW id \in Existing, NEW wallet \in Suppliers,
             SubmitReadFails(r, id, wallet)
      PROVE  AnnouncedWhenSent'
  BY <1>4 DEF SubmitReadFails, Goto, Existing
<1>5. ASSUME NEW r \in Requests, NEW id \in Existing,
             FinalizeOnChain(r, id)
      PROVE  AnnouncedWhenSent'
  BY <1>5 DEF FinalizeOnChain, Goto, Existing
<1>6. ASSUME NEW r \in Requests, MarkPending(r) PROVE AnnouncedWhenSent'
  BY <1>6 DEF MarkPending, Goto
<1>7. ASSUME NEW r \in Requests, SendSubmission(r) PROVE AnnouncedWhenSent'
  BY <1>7 DEF SendSubmission, Goto
<1>8. ASSUME NEW r \in Requests,
             SubmissionConfirmed(r)
      PROVE  AnnouncedWhenSent'
  BY <1>8 DEF SubmissionConfirmed, Goto
<1>9. ASSUME NEW r \in Requests, SubmitThrows(r) PROVE AnnouncedWhenSent'
  BY <1>9 DEF SubmitThrows, Goto
<1>10. ASSUME NEW r \in Requests, MarkFailed(r) PROVE AnnouncedWhenSent'
  BY <1>10 DEF MarkFailed, Goto
<1>11. ASSUME NEW r \in Requests, MarkFailedLost(r) PROVE AnnouncedWhenSent'
  BY <1>11 DEF MarkFailedLost, Goto
<1>12. ASSUME NEW r \in Requests, SendFinalization(r) PROVE AnnouncedWhenSent'
  BY <1>12 DEF SendFinalization, Goto
<1>13. ASSUME NEW r \in Requests,
             FinalizationConfirmed(r)
      PROVE  AnnouncedWhenSent'
  BY <1>13 DEF FinalizationConfirmed, Goto
<1>14. ASSUME NEW r \in Requests, FinalizeThrows(r) PROVE AnnouncedWhenSent'
  BY <1>14 DEF FinalizeThrows, Goto
<1>15. ASSUME NEW r \in Requests, SubmissionMined(r) PROVE AnnouncedWhenSent'
  BY <1>15 DEF SubmissionMined, Open
<1>16. ASSUME NEW r \in Requests,
             FinalizationMined(r)
      PROVE  AnnouncedWhenSent'
  BY <1>16 DEF FinalizationMined, Credit
<1>17. ASSUME NEW r \in Requests,
             TransactionReverted(r)
      PROVE  AnnouncedWhenSent'
  BY <1>17 DEF TransactionReverted
<1>18. ASSUME ChainStep PROVE AnnouncedWhenSent'
  BY <1>18 DEF ChainStep, Contest, Credit, PayOut
<1>19. ASSUME Restart PROVE AnnouncedWhenSent'
  BY <1>19 DEF Restart
<1>20. ASSUME UNCHANGED vars PROVE AnnouncedWhenSent'
  BY <1>20 DEF vars
<1>21. QED
  BY <1>1, <1>2, <1>3, <1>4, <1>5, <1>6, <1>7, <1>8, <1>9, <1>10,
         <1>11, <1>12, <1>13, <1>14, <1>15, <1>16, <1>17, <1>18, <1>19,
         <1>20, Zenon
  DEF Next

\* The ledger never reopens a statement, so a mined transaction stays true.
LEMMA MinedIsOnChainStep ==
  ASSUME TypeOK, JobsFollowSteps, MinedIsOnChain, [Next]_vars
  PROVE  MinedIsOnChain'
<1> USE ServiceAssumption
    DEF MinedIsOnChain, JobsFollowSteps, TypeOK, Submits, Prepared,
          Running, serviceVars, ledgerVars
<1>1. ASSUME NEW id \in StatementIds, NEW total \in Amounts,
             GenerateStatement(id, total)
      PROVE  MinedIsOnChain'
  BY <1>1 DEF GenerateStatement
<1>2. ASSUME NEW id \in StatementIds,
             FinalizeStatement(id)
      PROVE  MinedIsOnChain'
  BY <1>2 DEF FinalizeStatement
<1>3. ASSUME NEW r \in Requests, NEW id \in Existing, NEW wallet \in Suppliers,
             SubmitOnChain(r, id, wallet)
      PROVE  MinedIsOnChain'
  BY <1>3 DEF SubmitOnChain, Goto, Existing
<1>4. ASSUME NEW r \in Requests, NEW id \in Existing, NEW wallet \in Suppliers,
             SubmitReadFails(r, id, wallet)
      PROVE  MinedIsOnChain'
  BY <1>4 DEF SubmitReadFails, Goto, Existing
<1>5. ASSUME NEW r \in Requests, NEW id \in Existing,
             FinalizeOnChain(r, id)
      PROVE  MinedIsOnChain'
  BY <1>5 DEF FinalizeOnChain, Goto, Existing
<1>6. ASSUME NEW r \in Requests, MarkPending(r) PROVE MinedIsOnChain'
  BY <1>6 DEF MarkPending, Goto
<1>7. ASSUME NEW r \in Requests, SendSubmission(r) PROVE MinedIsOnChain'
  BY <1>7 DEF SendSubmission, Goto
<1>8. ASSUME NEW r \in Requests, SubmissionConfirmed(r) PROVE MinedIsOnChain'
  BY <1>8 DEF SubmissionConfirmed, Goto
<1>9. ASSUME NEW r \in Requests, SubmitThrows(r) PROVE MinedIsOnChain'
  BY <1>9 DEF SubmitThrows, Goto
<1>10. ASSUME NEW r \in Requests, MarkFailed(r) PROVE MinedIsOnChain'
  BY <1>10 DEF MarkFailed, Goto
<1>11. ASSUME NEW r \in Requests, MarkFailedLost(r) PROVE MinedIsOnChain'
  BY <1>11 DEF MarkFailedLost, Goto
<1>12. ASSUME NEW r \in Requests, SendFinalization(r) PROVE MinedIsOnChain'
  BY <1>12 DEF SendFinalization, Goto
<1>13. ASSUME NEW r \in Requests,
             FinalizationConfirmed(r)
      PROVE  MinedIsOnChain'
  BY <1>13 DEF FinalizationConfirmed, Goto
<1>14. ASSUME NEW r \in Requests, FinalizeThrows(r) PROVE MinedIsOnChain'
  BY <1>14 DEF FinalizeThrows, Goto
<1>15. ASSUME NEW r \in Requests, SubmissionMined(r) PROVE MinedIsOnChain'
  BY <1>15, MinedSubmission
<1>16. ASSUME NEW r \in Requests, FinalizationMined(r) PROVE MinedIsOnChain'
  BY <1>16 DEF FinalizationMined, Credit
<1>17. ASSUME NEW r \in Requests, TransactionReverted(r) PROVE MinedIsOnChain'
  BY <1>17 DEF TransactionReverted
<1>18. ASSUME ChainStep PROVE MinedIsOnChain'
  BY <1>18 DEF ChainStep, Contest, Credit, PayOut
<1>19. ASSUME Restart PROVE MinedIsOnChain'
  BY <1>19 DEF Restart
<1>20. ASSUME UNCHANGED vars PROVE MinedIsOnChain'
  BY <1>20 DEF vars
<1>21. QED
  BY <1>1, <1>2, <1>3, <1>4, <1>5, <1>6, <1>7, <1>8, <1>9, <1>10,
         <1>11, <1>12, <1>13, <1>14, <1>15, <1>16, <1>17, <1>18, <1>19,
         <1>20, Zenon
  DEF Next

\* Only a mined submission opens a statement, on the terms its handler read.
LEMMA ChainFollowsBooksStep ==
  ASSUME TypeOK, JobsFollowSteps, BookedWhenSent, ChainFollowsBooks, [Next]_vars
  PROVE  ChainFollowsBooks'
<1> USE ServiceAssumption
    DEF ChainFollowsBooks, BookedWhenSent, JobsFollowSteps, TypeOK,
          Submits, Prepared, Running, serviceVars, ledgerVars
<1>1. ASSUME NEW id \in StatementIds, NEW total \in Amounts,
             GenerateStatement(id, total)
      PROVE  ChainFollowsBooks'
  BY <1>1 DEF GenerateStatement
<1>2. ASSUME NEW id \in StatementIds,
             FinalizeStatement(id)
      PROVE  ChainFollowsBooks'
  BY <1>2 DEF FinalizeStatement
<1>3. ASSUME NEW r \in Requests, NEW id \in Existing, NEW wallet \in Suppliers,
             SubmitOnChain(r, id, wallet)
      PROVE  ChainFollowsBooks'
  BY <1>3 DEF SubmitOnChain, Goto, Existing
<1>4. ASSUME NEW r \in Requests, NEW id \in Existing, NEW wallet \in Suppliers,
             SubmitReadFails(r, id, wallet)
      PROVE  ChainFollowsBooks'
  BY <1>4 DEF SubmitReadFails, Goto, Existing
<1>5. ASSUME NEW r \in Requests, NEW id \in Existing,
             FinalizeOnChain(r, id)
      PROVE  ChainFollowsBooks'
  BY <1>5 DEF FinalizeOnChain, Goto, Existing
<1>6. ASSUME NEW r \in Requests, MarkPending(r) PROVE ChainFollowsBooks'
  BY <1>6 DEF MarkPending, Goto
<1>7. ASSUME NEW r \in Requests, SendSubmission(r) PROVE ChainFollowsBooks'
  BY <1>7 DEF SendSubmission, Goto
<1>8. ASSUME NEW r \in Requests,
             SubmissionConfirmed(r)
      PROVE  ChainFollowsBooks'
  BY <1>8 DEF SubmissionConfirmed, Goto
<1>9. ASSUME NEW r \in Requests, SubmitThrows(r) PROVE ChainFollowsBooks'
  BY <1>9 DEF SubmitThrows, Goto
<1>10. ASSUME NEW r \in Requests, MarkFailed(r) PROVE ChainFollowsBooks'
  BY <1>10 DEF MarkFailed, Goto
<1>11. ASSUME NEW r \in Requests, MarkFailedLost(r) PROVE ChainFollowsBooks'
  BY <1>11 DEF MarkFailedLost, Goto
<1>12. ASSUME NEW r \in Requests, SendFinalization(r) PROVE ChainFollowsBooks'
  BY <1>12 DEF SendFinalization, Goto
<1>13. ASSUME NEW r \in Requests,
             FinalizationConfirmed(r)
      PROVE  ChainFollowsBooks'
  BY <1>13 DEF FinalizationConfirmed, Goto
<1>14. ASSUME NEW r \in Requests, FinalizeThrows(r) PROVE ChainFollowsBooks'
  BY <1>14 DEF FinalizeThrows, Goto
<1>15. ASSUME NEW r \in Requests, SubmissionMined(r) PROVE ChainFollowsBooks'
  BY <1>15 DEF SubmissionMined, Open
<1>16. ASSUME NEW r \in Requests,
             FinalizationMined(r)
      PROVE  ChainFollowsBooks'
  BY <1>16 DEF FinalizationMined, Credit
<1>17. ASSUME NEW r \in Requests,
             TransactionReverted(r)
      PROVE  ChainFollowsBooks'
  BY <1>17 DEF TransactionReverted
<1>18. ASSUME ChainStep PROVE ChainFollowsBooks'
  BY <1>18 DEF ChainStep, Contest, Credit, PayOut
<1>19. ASSUME Restart PROVE ChainFollowsBooks'
  BY <1>19 DEF Restart
<1>20. ASSUME UNCHANGED vars PROVE ChainFollowsBooks'
  BY <1>20 DEF vars
<1>21. QED
  BY <1>1, <1>2, <1>3, <1>4, <1>5, <1>6, <1>7, <1>8, <1>9, <1>10,
         <1>11, <1>12, <1>13, <1>14, <1>15, <1>16, <1>17, <1>18, <1>19,
         <1>20, Zenon
  DEF Next

\* A row is moved only after a mined transaction, whose effect is still there.
LEMMA BooksFollowChainStep ==
  ASSUME TypeOK, JobsFollowSteps, MinedIsOnChain, BooksFollowChain, [Next]_vars
  PROVE  BooksFollowChain'
<1> USE ServiceAssumption
    DEF BooksFollowChain, MinedIsOnChain, JobsFollowSteps, TypeOK,
          Submits, Prepared, Running, serviceVars, ledgerVars
<1>1. ASSUME NEW id \in StatementIds, NEW total \in Amounts,
             GenerateStatement(id, total)
      PROVE  BooksFollowChain'
  BY <1>1 DEF GenerateStatement
<1>2. ASSUME NEW id \in StatementIds,
             FinalizeStatement(id)
      PROVE  BooksFollowChain'
  BY <1>2 DEF FinalizeStatement
<1>3. ASSUME NEW r \in Requests, NEW id \in Existing, NEW wallet \in Suppliers,
             SubmitOnChain(r, id, wallet)
      PROVE  BooksFollowChain'
  BY <1>3 DEF SubmitOnChain, Goto, Existing
<1>4. ASSUME NEW r \in Requests, NEW id \in Existing, NEW wallet \in Suppliers,
             SubmitReadFails(r, id, wallet)
      PROVE  BooksFollowChain'
  BY <1>4 DEF SubmitReadFails, Goto, Existing
<1>5. ASSUME NEW r \in Requests, NEW id \in Existing,
             FinalizeOnChain(r, id)
      PROVE  BooksFollowChain'
  BY <1>5 DEF FinalizeOnChain, Goto, Existing
<1>6. ASSUME NEW r \in Requests, MarkPending(r) PROVE BooksFollowChain'
  BY <1>6 DEF MarkPending, Goto
<1>7. ASSUME NEW r \in Requests, SendSubmission(r) PROVE BooksFollowChain'
  BY <1>7 DEF SendSubmission, Goto
<1>8. ASSUME NEW r \in Requests,
             SubmissionConfirmed(r)
      PROVE  BooksFollowChain'
  <2>1. job[r].id \in StatementIds /\ tx[r] = "mined" /\ Submits(r)
    BY <1>8 DEF SubmissionConfirmed
  <2>2. phase' = phase /\ phase[job[r].id] # "none"
    BY <1>8, <2>1 DEF SubmissionConfirmed
  <2>3. /\ rows'[job[r].id].status = rows[job[r].id].status
        /\ rows'[job[r].id].blockchain_status = "SUBMITTED"
        /\ \A id \in StatementIds \ {job[r].id} : rows'[id] = rows[id]
    BY <1>8, <2>1 DEF SubmissionConfirmed, Row
  <2>4. QED  BY <2>1, <2>2, <2>3
<1>9. ASSUME NEW r \in Requests, SubmitThrows(r) PROVE BooksFollowChain'
  BY <1>9 DEF SubmitThrows, Goto
<1>10. ASSUME NEW r \in Requests, MarkFailed(r) PROVE BooksFollowChain'
  BY <1>10 DEF MarkFailed, Goto
<1>11. ASSUME NEW r \in Requests, MarkFailedLost(r) PROVE BooksFollowChain'
  BY <1>11 DEF MarkFailedLost, Goto
<1>12. ASSUME NEW r \in Requests, SendFinalization(r) PROVE BooksFollowChain'
  BY <1>12 DEF SendFinalization, Goto
<1>13. ASSUME NEW r \in Requests,
             FinalizationConfirmed(r)
      PROVE  BooksFollowChain'
  BY <1>13 DEF FinalizationConfirmed, Goto
<1>14. ASSUME NEW r \in Requests, FinalizeThrows(r) PROVE BooksFollowChain'
  BY <1>14 DEF FinalizeThrows, Goto
<1>15. ASSUME NEW r \in Requests, SubmissionMined(r) PROVE BooksFollowChain'
  BY <1>15 DEF SubmissionMined, Open
<1>16. ASSUME NEW r \in Requests, FinalizationMined(r) PROVE BooksFollowChain'
  BY <1>16 DEF FinalizationMined, Credit
<1>17. ASSUME NEW r \in Requests,
             TransactionReverted(r)
      PROVE  BooksFollowChain'
  BY <1>17 DEF TransactionReverted
<1>18. ASSUME ChainStep PROVE BooksFollowChain'
  BY <1>18 DEF ChainStep, Contest, Credit, PayOut
<1>19. ASSUME Restart PROVE BooksFollowChain'
  BY <1>19 DEF Restart
<1>20. ASSUME UNCHANGED vars PROVE BooksFollowChain'
  BY <1>20 DEF vars
<1>21. QED
  BY <1>1, <1>2, <1>3, <1>4, <1>5, <1>6, <1>7, <1>8, <1>9, <1>10,
         <1>11, <1>12, <1>13, <1>14, <1>15, <1>16, <1>17, <1>18, <1>19,
         <1>20, Zenon
  DEF Next

-----------------------------------------------------------------------------
LEMMA InvInit == Init => Inv
BY ServiceAssumption
   DEF Init, LedgerInit, NoRow, NoJob, NoTerms, Inv, TypeOK, Row, Steps, Running,
       Phases, JobsFollowSteps, BookedWhenSent, AnnouncedWhenSent, MinedIsOnChain,
       ChainFollowsBooks, BooksFollowChain, Submits, Prepared

LEMMA InvStep == Inv /\ [Next]_vars => Inv'
BY TypeOKStep, JobsFollowStepsStep, BookedWhenSentStep, AnnouncedWhenSentStep,
   MinedIsOnChainStep, ChainFollowsBooksStep, BooksFollowChainStep, Zenon
   DEF Inv

LEMMA ServiceInvariant == Spec => []Inv
BY InvInit, InvStep, PTL DEF Spec

-----------------------------------------------------------------------------
(* Theorems.                                                               *)

\* Rows, handlers and the ledger keep their types, and no handler is ever under
\* way without the statement it works on.
THEOREM ServiceTypeCorrect == Spec => []TypeOK
<1>1. Inv => TypeOK  BY DEF Inv
<1>2. QED  BY <1>1, ServiceInvariant, PTL

\* For any number of racing requests, lost answers and restarts, a row that says
\* NOT_SUBMITTED has nothing on chain and nothing on its way there: repeating
\* the request can never submit a statement that was submitted already.
THEOREM ServiceHidesNothing == Spec => []NothingHidden
<1>1. Inv => NothingHidden
  BY DEF Inv, AnnouncedWhenSent, NothingHidden, OutstandingSubmission
<1>2. QED  BY <1>1, ServiceInvariant, PTL

\* Whatever raced, what is on chain was finalized in the books first, for the
\* amount of the books.
THEOREM ServiceChainFollowsBooks == Spec => []ChainFollowsBooks
<1>1. Inv => ChainFollowsBooks  BY DEF Inv
<1>2. QED  BY <1>1, ServiceInvariant, PTL

\* A row marked PAID or FINALIZED was credited on chain, and one marked
\* SUBMITTED is on chain.
THEOREM ServiceBooksFollowChain == Spec => []BooksFollowChain
<1>1. Inv => BooksFollowChain  BY DEF Inv
<1>2. QED  BY <1>1, ServiceInvariant, PTL

\* A submission answered with success is the one on chain, and no second request
\* for the same statement is ever answered with success.
THEOREM ServiceSuccessIsOnChain == Spec => []SuccessIsOnChain
<1>1. Inv => SuccessIsOnChain
  BY DEF Inv, MinedIsOnChain, SuccessIsOnChain
<1>2. QED  BY <1>1, ServiceInvariant, PTL

=============================================================================
