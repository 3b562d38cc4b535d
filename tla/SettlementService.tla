------------------------- MODULE SettlementService -------------------------
(***************************************************************************)
(* The statements of services/metering-billing and their way onto the      *)
(* chain: src/db/index.ts, src/routes/settlements.ts and the two write     *)
(* handlers of src/routes/blockchain.ts, with the part of the contract     *)
(* client (packages/contracts/src/client.ts) that they await.              *)
(*                                                                         *)
(* A handler is a sequence of steps, one per await: between two of them    *)
(* other requests run, the chain moves, a transaction is mined or lost,    *)
(* and the service may be restarted.  Rows and transactions survive a      *)
(* restart, handlers do not.  The chain is the abstract ledger that        *)
(* RoyaltySettlement implements; statements reach it only through the      *)
(* service, which holds the contract owner's key, while suppliers contest  *)
(* and anyone credits or pays out without telling the service.             *)
(***************************************************************************)
EXTENDS RoyaltyLedger, FiniteSets

CONSTANTS
  Requests,    \* bound: the on-chain requests that are ever made
  MaxCrashes   \* bound: restarts of the service

ASSUME ServiceAssumption ==
  /\ ZeroAddress \notin Suppliers
  /\ Amounts \subseteq Nat
  /\ MaxCrashes \in Nat

VARIABLES
  rows,     \* metering.settlement_statements: status, blockchain_status, ...
  pc,       \* per request: the step its handler is at
  job,      \* per request: what the handler read or was given
  tx,       \* per request: the fate of the transaction it sent
  crashes

serviceVars == <<rows, pc, job, tx, crashes>>
vars == <<serviceVars, ledgerVars>>

NoRow == [status |-> "ABSENT", blockchain_status |-> "NOT_SUBMITTED",
          supplier_wallet |-> ZeroAddress, total |-> 0]

NoJob == [id |-> "none", wallet |-> ZeroAddress, total |-> 0]

\* "checked", "marked", "submitting" and "throwing" belong to submit-on-chain,
\* "approved" and "finalizing" to finalize-on-chain; "ok" and "error" are its
\* answers (200 and 500), "dead" a handler that a restart has ended.
Running == {"checked", "marked", "submitting", "throwing", "approved", "finalizing"}
Steps == Running \cup {"idle", "ok", "error", "dead"}

\* DISPUTED and PAID are also allowed as blockchain_status; no code writes them.
Row == [status: {"ABSENT", "DRAFT", "FINALIZED", "PAID"},
        blockchain_status: {"NOT_SUBMITTED", "PENDING", "SUBMITTED", "FINALIZED", "FAILED"},
        supplier_wallet: Suppliers \cup {ZeroAddress},
        total: Nat]

TypeOK ==
  /\ rows \in [StatementIds -> Row]
  /\ pc \in [Requests -> Steps]
  /\ job \in [Requests ->
       [id: StatementIds \cup {"none"}, wallet: Suppliers \cup {ZeroAddress}, total: Nat]]
  /\ \A r \in Requests : pc[r] \in Running => job[r].id \in StatementIds
  /\ tx \in [Requests -> {"none", "pooled", "mined", "reverted"}]
  /\ crashes \in 0..MaxCrashes
  /\ phase \in [StatementIds -> Phases]
  /\ terms \in [StatementIds -> [supplier: Suppliers \cup {ZeroAddress}, amount: Nat]]
  /\ owed \in [Suppliers -> Nat]
  /\ paid \in [Suppliers -> Nat]

Init ==
  /\ LedgerInit
  /\ rows = [id \in StatementIds |-> NoRow]
  /\ pc = [r \in Requests |-> "idle"]
  /\ job = [r \in Requests |-> NoJob]
  /\ tx = [r \in Requests |-> "none"]
  /\ crashes = 0

Goto(r, step) == pc' = [pc EXCEPT ![r] = step]

Existing == {id \in StatementIds : rows[id].status # "ABSENT"}

-----------------------------------------------------------------------------
(* Mutated operations.  No specification uses them: each is the bug that a  *)
(* property below must notice when it takes the place of the operation.     *)

\* The error handler writes FAILED into the wrong column.
MarkFailedWrongColumn(r) ==
  /\ pc[r] = "throwing" /\ Goto(r, "error")
  /\ rows' = [rows EXCEPT ![job[r].id].status = "FAILED"]
  /\ UNCHANGED <<job, tx, crashes, ledgerVars>>

\* The error handler puts the statement back, so that it can be retried.
MarkFailedReverting(r) ==
  /\ pc[r] = "throwing" /\ Goto(r, "error")
  /\ rows' = [rows EXCEPT ![job[r].id].blockchain_status = "NOT_SUBMITTED"]
  /\ UNCHANGED <<job, tx, crashes, ledgerVars>>

\* The confirmation takes a transaction that was sent for one that was mined.
SubmissionUnawaited(r) ==
  /\ pc[r] = "submitting" /\ tx[r] \in {"pooled", "mined"} /\ Goto(r, "ok")
  /\ rows' = [rows EXCEPT ![job[r].id].blockchain_status = "SUBMITTED"]
  /\ UNCHANGED <<job, tx, crashes, ledgerVars>>

\* submit-on-chain that forgets to ask for a finalized statement.
SubmitOnChainDraft(r, id, wallet) ==
  /\ pc[r] = "idle" /\ rows[id].status # "ABSENT"
  /\ rows[id].blockchain_status = "NOT_SUBMITTED"
  /\ job' = [job EXCEPT ![r] = [id |-> id, wallet |-> wallet, total |-> rows[id].total]]
  /\ Goto(r, "checked")
  /\ UNCHANGED <<rows, tx, crashes, ledgerVars>>

\* finalize-on-chain that marks the row paid before the transaction is mined.
FinalizationUnawaited(r) ==
  /\ pc[r] = "finalizing" /\ tx[r] # "none" /\ Goto(r, "ok")
  /\ rows' = [rows EXCEPT ![job[r].id].blockchain_status = "FINALIZED",
                          ![job[r].id].status = "PAID"]
  /\ UNCHANGED <<job, tx, crashes, ledgerVars>>

-----------------------------------------------------------------------------
(* Statements.                                                             *)

\* generateStatement: one DRAFT row; total stands for the sum over the usage.
GenerateStatement(id, total) ==
  /\ rows[id].status = "ABSENT"
  /\ rows' = [rows EXCEPT ![id].status = "DRAFT", ![id].total = total]
  /\ UNCHANGED <<pc, job, tx, crashes, ledgerVars>>

FinalizeStatement(id) ==
  /\ rows[id].status = "DRAFT"
  /\ rows' = [rows EXCEPT ![id].status = "FINALIZED"]
  /\ UNCHANGED <<pc, job, tx, crashes, ledgerVars>>

-----------------------------------------------------------------------------
(* POST /settlements/:id/submit-on-chain                                   *)

\* The row is read and found finalized and not submitted.
SubmitOnChain(r, id, wallet) ==
  /\ pc[r] = "idle"
  /\ rows[id].status = "FINALIZED"
  /\ rows[id].blockchain_status = "NOT_SUBMITTED"
  /\ job' = [job EXCEPT ![r] = [id |-> id, wallet |-> wallet, total |-> rows[id].total]]
  /\ Goto(r, "checked")
  /\ UNCHANGED <<rows, tx, crashes, ledgerVars>>

\* The query itself fails: the row's state is unknown and the catch block runs.
SubmitReadFails(r, id, wallet) ==
  /\ pc[r] = "idle"
  /\ job' = [job EXCEPT ![r] = [id |-> id, wallet |-> wallet, total |-> 0]]
  /\ Goto(r, "throwing")
  /\ UNCHANGED <<rows, tx, crashes, ledgerVars>>

MarkPending(r) ==
  /\ pc[r] = "checked" /\ Goto(r, "marked")
  /\ rows' = [rows EXCEPT ![job[r].id].blockchain_status = "PENDING",
                          ![job[r].id].supplier_wallet = job[r].wallet]
  /\ UNCHANGED <<job, tx, crashes, ledgerVars>>

SendSubmission(r) ==
  /\ pc[r] = "marked" /\ Goto(r, "submitting")
  /\ tx' = [tx EXCEPT ![r] = "pooled"]
  /\ UNCHANGED <<rows, job, crashes, ledgerVars>>

SubmissionConfirmed(r) ==
  /\ pc[r] = "submitting" /\ tx[r] = "mined" /\ Goto(r, "ok")
  /\ rows' = [rows EXCEPT ![job[r].id].blockchain_status = "SUBMITTED"]
  /\ UNCHANGED <<job, tx, crashes, ledgerVars>>

\* Any await of the handler may throw: no client, gas estimation or nonce
\* refused, transaction reverted, connection lost with the transaction still
\* in the pool or already mined, the last write refused by the database.
SubmitThrows(r) ==
  /\ pc[r] \in {"checked", "marked", "submitting"}
  /\ Goto(r, "throwing")
  /\ UNCHANGED <<rows, job, tx, crashes, ledgerVars>>

MarkFailed(r) ==
  /\ pc[r] = "throwing" /\ Goto(r, "error")
  /\ rows' = [rows EXCEPT ![job[r].id].blockchain_status = "FAILED"]
  /\ UNCHANGED <<job, tx, crashes, ledgerVars>>

\* The write inside the catch block fails too.
MarkFailedLost(r) ==
  /\ pc[r] = "throwing" /\ Goto(r, "error")
  /\ UNCHANGED <<rows, job, tx, crashes, ledgerVars>>

-----------------------------------------------------------------------------
(* POST /settlements/:id/finalize-on-chain                                 *)

FinalizeOnChain(r, id) ==
  /\ pc[r] = "idle"
  /\ rows[id].blockchain_status = "SUBMITTED"
  /\ job' = [job EXCEPT ![r] = [id |-> id, wallet |-> ZeroAddress, total |-> 0]]
  /\ Goto(r, "approved")
  /\ UNCHANGED <<rows, tx, crashes, ledgerVars>>

\* isFinalizable answered true, which an open statement may and no other does.
SendFinalization(r) ==
  /\ pc[r] = "approved" /\ phase[job[r].id] = "open" /\ Goto(r, "finalizing")
  /\ tx' = [tx EXCEPT ![r] = "pooled"]
  /\ UNCHANGED <<rows, job, crashes, ledgerVars>>

FinalizationConfirmed(r) ==
  /\ pc[r] = "finalizing" /\ tx[r] = "mined" /\ Goto(r, "ok")
  /\ rows' = [rows EXCEPT ![job[r].id].blockchain_status = "FINALIZED",
                          ![job[r].id].status = "PAID"]
  /\ UNCHANGED <<job, tx, crashes, ledgerVars>>

\* Not finalizable (400) or an exception (500): the row is left as it is.
FinalizeThrows(r) ==
  /\ pc[r] \in {"approved", "finalizing"}
  /\ Goto(r, "error")
  /\ UNCHANGED <<rows, job, tx, crashes, ledgerVars>>

-----------------------------------------------------------------------------
(* The chain, the network and restarts.                                    *)

\* A finalization carries no wallet, a submission always does.
Submits(r) == job[r].wallet # ZeroAddress

SubmissionMined(r) ==
  /\ tx[r] = "pooled" /\ Submits(r)
  /\ Open(job[r].id, job[r].wallet, job[r].total)
  /\ tx' = [tx EXCEPT ![r] = "mined"]
  /\ UNCHANGED <<rows, pc, job, crashes>>

FinalizationMined(r) ==
  /\ tx[r] = "pooled" /\ ~Submits(r)
  /\ Credit(job[r].id)
  /\ tx' = [tx EXCEPT ![r] = "mined"]
  /\ UNCHANGED <<rows, pc, job, crashes>>

\* Reverted when it is mined (the contract may be paused), or dropped.
TransactionReverted(r) ==
  /\ tx[r] = "pooled"
  /\ tx' = [tx EXCEPT ![r] = "reverted"]
  /\ UNCHANGED <<rows, pc, job, crashes, ledgerVars>>

\* The supplier or anyone else calls the contract directly.
ChainStep ==
  /\ \/ \E id \in StatementIds : Contest(id) \/ Credit(id)
     \/ \E s \in Suppliers : PayOut(s)
  /\ UNCHANGED serviceVars

Restart ==
  /\ crashes < MaxCrashes
  /\ crashes' = crashes + 1
  /\ pc' = [r \in Requests |-> IF pc[r] \in Running THEN "dead" ELSE pc[r]]
  /\ UNCHANGED <<rows, job, tx, ledgerVars>>

Next ==
  \/ \E id \in StatementIds :
        \/ \E total \in Amounts : GenerateStatement(id, total)
        \/ FinalizeStatement(id)
  \/ \E r \in Requests :
        \/ \E id \in Existing :
              \/ \E wallet \in Suppliers :
                    SubmitOnChain(r, id, wallet) \/ SubmitReadFails(r, id, wallet)
              \/ FinalizeOnChain(r, id)
        \/ MarkPending(r) \/ SendSubmission(r) \/ SubmissionConfirmed(r)
        \/ SubmitThrows(r) \/ MarkFailed(r) \/ MarkFailedLost(r)
        \/ SendFinalization(r) \/ FinalizationConfirmed(r) \/ FinalizeThrows(r)
        \/ SubmissionMined(r) \/ FinalizationMined(r) \/ TransactionReverted(r)
  \/ ChainStep
  \/ Restart

Spec == Init /\ [][Next]_vars

-----------------------------------------------------------------------------
(* Properties.                                                             *)

OutstandingSubmission(id) ==
  \E r \in Requests : job[r].id = id /\ Submits(r) /\ tx[r] = "pooled"

\* A row that still says NOT_SUBMITTED has nothing on chain and no transaction
\* on its way there, whatever was lost, failed or restarted: the status is
\* written before the transaction is sent and no error path takes it back
\* (blockchain.ts submit-on-chain).
NothingHidden ==
  \A id \in StatementIds : rows[id].blockchain_status = "NOT_SUBMITTED" =>
    phase[id] = "none" /\ ~OutstandingSubmission(id)

\* What is on chain is a statement that was finalized in the books first, for
\* the amount of the books, however many requests raced to submit it.
ChainFollowsBooks ==
  \A id \in StatementIds : phase[id] # "none" =>
    /\ rows[id].status \in {"FINALIZED", "PAID"}
    /\ terms[id].amount = rows[id].total
    /\ rows[id].total > 0

\* A row marked PAID belongs to a statement that was credited, and a row marked
\* SUBMITTED to one that is on chain, although other requests, the supplier and
\* restarts move chain and row independently.
BooksFollowChain ==
  \A id \in StatementIds :
    /\ rows[id].status = "PAID" \/ rows[id].blockchain_status = "FINALIZED"
         => phase[id] = "credited"
    /\ rows[id].blockchain_status = "SUBMITTED" => phase[id] # "none"

\* A submission answered with success is the one on chain, with the caller's
\* wallet: of two racing requests with different wallets at most one is told
\* that it succeeded (blockchain.ts:146, client.ts tx.wait).
SuccessIsOnChain ==
  \A r \in Requests : pc[r] = "ok" /\ Submits(r) =>
    /\ terms[job[r].id] = [supplier |-> job[r].wallet, amount |-> job[r].total]
    /\ \A q \in Requests \ {r} :
         pc[q] = "ok" /\ Submits(q) => job[q].id # job[r].id

\* blockchain.ts:177, "Revert status to NOT_SUBMITTED on failure": when no
\* handler and no transaction of a statement is under way and nothing of it is
\* on chain, it can be submitted again.
Working(id) ==
  \E r \in Requests : job[r].id = id /\ (pc[r] \in Running \/ tx[r] = "pooled")
FailureIsReverted ==
  \A id \in StatementIds : ~Working(id) /\ phase[id] = "none" =>
    rows[id].blockchain_status = "NOT_SUBMITTED"

=============================================================================
