------------------------ MODULE DisputeOpportunity ------------------------
(***************************************************************************)
(* What becomes of a statement over time: RoyaltySettlement under fairness *)
(* and with two more history variables, how many seconds each statement    *)
(* has been open to a dispute by its supplier, and how many passed while   *)
(* the contract was paused.  disputeStatement carries whenNotPaused, and   *)
(* the window is measured on block.timestamp, which a pause does not stop. *)
(***************************************************************************)
EXTENDS RoyaltySettlement

VARIABLES
  disputable,  \* history: seconds that started with a dispute acceptable
  lost         \* history: seconds that started paused, while submitted

TimedInit ==
  /\ Init
  /\ disputable = [id \in StatementIds |-> 0]
  /\ lost = [id \in StatementIds |-> 0]

CountSeconds ==
  /\ disputable' = [id \in StatementIds |->
        IF now' > now /\ ~paused /\ RemainingDisputeTime(id) > 0
        THEN disputable[id] + 1 ELSE disputable[id]]
  /\ lost' = [id \in StatementIds |->
        IF now' > now /\ paused /\ Submitted(id) THEN lost[id] + 1 ELSE lost[id]]

TimedSpec == TimedInit /\ [][Next /\ CountSeconds]_<<vars, disputable, lost>>

FairTimedSpec == TimedSpec /\ Fairness

\* What a supplier can count on: a statement that was finalized had been open
\* to a dispute for the shortest window in force since its submission, less the
\* seconds the contract was paused, however the owner interleaves pauses and
\* changes of the window.
WindowMinusPauses ==
  \A id \in StatementIds :
     statements[id].status = "Finalized" =>
        disputable[id] + lost[id] >= shortestWindow[id]

\* What RoyaltySettlement.sol:18 promises is more: a "24-hour dispute window
\* allows supplier to dispute".
SupplierHadTheWindow ==
  \A id \in StatementIds :
     statements[id].status = "Finalized" => disputable[id] >= DEFAULT_DISPUTE_WINDOW

\* Whatever the owner does with pauses and windows, a statement submitted early
\* enough for the bounded clock ends up disputed or finalized.
EveryStatementSettles ==
  \A id \in StatementIds :
     (Submitted(id) /\ statements[id].submittedAt + MAX_DISPUTE_WINDOW <= MaxTime)
       ~> statements[id].status \in {"Disputed", "Finalized"}

\* What docs/adr/007-off-chain-first-settlement.md:124-125 says of a disputed
\* statement: it "is corrected and resubmitted", or the "Dispute rejected,
\* finalization proceeds".
DisputesAreResolved ==
  \A id \in StatementIds :
     statements[id].status = "Disputed"
       ~> statements[id].status \in {"Submitted", "Finalized"}

=============================================================================
