----------------------- MODULE MCVerificationPipeline -----------------------
(* Two requests, a genuine package dated in the future and a forged one, one  *)
(* usage posted by hand, two adjacent periods.                                *)
EXTENDS VerificationPipeline, TLC

CONSTANTS q1, q2, early, forged, byHand, noEvent

MCRequests == {q1, q2}
MCPackages == {early, forged}
MCGenuine == {early}
MCCreatedAt == early :> 1 @@ forged :> 0
MCRowIds == {q1, q2, byHand}
MCManualIds == {byHand}
MCConsumers == {"metering"}
MCSymmetry == Permutations(MCRequests)
MCPeriods == {[from |-> 0, to |-> 1], [from |-> 1, to |-> 3]}

\* Bounds: a fault, a statement or a row posted by hand, one of them; and where the bus
\* sends an event again, each request has a package, and a turn at the files, of its own
\* and its event is published.
MCOneDisturbance ==
  faults + Len(statements) + Cardinality({i \in DOMAIN usage : ByHand(i)}) <= 1
MCApart ==
  redelivered["metering"] # {} =>
    /\ overwritten = {} /\ boot = 0 /\ unpublished = {}
    /\ \A q, r \in Requests : q # r /\ pkg[q] = pkg[r] => pkg[q] = NoPackage

=============================================================================
