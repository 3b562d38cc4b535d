------------------------ MODULE VerificationPipeline ------------------------
(***************************************************************************)
(* A verification from POST /verify to a billing statement: the gateway    *)
(* (VerifyGateway) publishes an event for each receipt on the bus          *)
(* (EventBus), and the metering service (MeteringBilling), the bus's only  *)
(* consumer here, turns it into a usage row.  A request's event has the    *)
(* request's own name.                                                     *)
(***************************************************************************)
EXTENDS VerifyGateway, EventBus, MeteringBilling

CONSTANTS
  ManualIds,   \* event ids that callers of POST /usage make up ...
  PostedDates, \* ... and the dates they name, with any receipt, issued or not
  MaxFaults    \* bound on restarts, failed publishes, lost acks and failed inserts

ASSUME PipelineAssumption ==
  /\ Events = Requests
  /\ Receipts = Requests
  /\ RowIds = Requests \cup ManualIds
  /\ Requests \cap ManualIds = {}
  /\ PostedDates \subseteq Nat
  /\ MaxFaults \in Nat

Metering == "metering"
ASSUME OneConsumer == Consumers = {Metering}

VARIABLES
  unpublished,  \* history: requests whose event could not be published
  faults        \* faults so far

vars == <<gatewayVars, busVars, meteringVars, unpublished, faults>>

TypeOK ==
  /\ GatewayTypeOK
  /\ BusTypeOK
  /\ MeteringTypeOK
  /\ unpublished \subseteq Requests
  /\ faults \in 0..MaxFaults

Init ==
  /\ GatewayInit
  /\ BusInit
  /\ MeteringInit
  /\ unpublished = {}
  /\ faults = 0

-----------------------------------------------------------------------------
(* Steps of the gateway                                                    *)

Fault == faults < MaxFaults /\ faults' = faults + 1

GatewayStep ==
  /\ \/ \E q \in Requests, p \in Packages : Refuse(q, p) \/ FailEarly(q, p) \/ Accept(q, p)
     \/ \E q \in Requests : Judge(q) \/ IssueReceipt(q) \/ SignReceipt(q) \/ Answer(q)
     \/ Cleanup
     \/ Tick
  /\ UNCHANGED <<busVars, meteringVars, unpublished, faults>>

PublishEvent(q) ==
  /\ PublishEnds(q)
  /\ Publish(q)
  /\ UNCHANGED <<meteringVars, unpublished, faults>>

\* No bus, or no answer from it: the event may have been stored all the same.
PublishFails(q) ==
  /\ Fault
  /\ PublishEnds(q)
  /\ \/ Publish(q) /\ UNCHANGED unpublished
     \/ unpublished' = unpublished \cup {q} /\ UNCHANGED busVars
  /\ UNCHANGED meteringVars

GatewayRestarts ==
  /\ Fault
  /\ RestartGateway
  /\ UNCHANGED <<busVars, meteringVars, unpublished>>

-----------------------------------------------------------------------------
(* Steps of the metering service                                           *)

\* The event names the receipt and has a date of its own, which becomes the row's.
Row(q) == [event |-> q, receipt |-> q, at |-> eventAt[q]]

PostedRow(id, q, date) == [event |-> id, receipt |-> q, at |-> date]

DeliverEvent ==
  /\ \/ Deliver(Metering) \/ Redeliver(Metering) \/ Take(Metering)
  /\ UNCHANGED <<gatewayVars, meteringVars, unpublished, faults>>

HandleEvent ==
  /\ inHand[Metering] # NoEvent
  /\ MeterEvent(Row(inHand[Metering]))
  /\ UNCHANGED <<gatewayVars, busVars, unpublished, faults>>

InsertFails ==
  /\ Fault
  /\ inHand[Metering] # NoEvent
  /\ MeterEventFails(Row(inHand[Metering]))
  /\ UNCHANGED <<gatewayVars, busVars, unpublished>>

\* The handler catches everything, so the loop always acknowledges.
Settle ==
  /\ handled
  /\ handled' = FALSE
  /\ Ack(Metering)
  /\ UNCHANGED <<gatewayVars, usage, dropped, statements, unpublished, faults>>

\* The acknowledgement is lost with the connection that carried it.
AckLost ==
  /\ Fault
  /\ handled
  /\ handled' = FALSE
  /\ Nak(Metering)
  /\ UNCHANGED <<gatewayVars, usage, dropped, statements, unpublished>>

ApiStep ==
  /\ \/ \E id \in ManualIds, q \in Requests, date \in PostedDates :
          PostUsage(PostedRow(id, q, date))
     \/ \E period \in Periods : ReadUsage(period)
     \/ \E i \in DOMAIN statements : StoreStatement(i)
  /\ UNCHANGED <<gatewayVars, busVars, unpublished, faults>>

MeteringRestarts ==
  /\ Fault
  /\ RestartMetering
  /\ Reconnect(Metering)
  /\ UNCHANGED <<gatewayVars, unpublished>>

-----------------------------------------------------------------------------
Next ==
  \/ GatewayStep
  \/ \E q \in Requests : PublishEvent(q) \/ PublishFails(q)
  \/ GatewayRestarts
  \/ DeliverEvent \/ HandleEvent \/ InsertFails \/ Settle \/ AckLost
  \/ ApiStep
  \/ MeteringRestarts

Spec == Init /\ [][Next]_vars

-----------------------------------------------------------------------------
(* Properties of the composition                                           *)

Metered(q) == \E i \in DOMAIN usage : usage[i].event = q

\* A receipt was given out whose verification is not metered: then its event could
\* not be published, or its insert failed and was only logged, or the bus still
\* holds it for the consumer.  routes/verify.ts:103, metering index.ts:195.
NothingElseIsLost ==
  \A q \in Requests :
    pc[q] = "receipted" =>
      \/ Metered(q)
      \/ q \in unpublished
      \/ q \in dropped
      \/ Published(q) /\ q \notin acked[Metering]

ByHand(i) == usage[i].event \in ManualIds

\* However often an event is delivered, a receipt is charged once, unless somebody
\* posts it under an event id of his own; and what is charged without that was issued
\* as a receipt, and is charged at its date or later, the date being the event's:
\* event-bus/src/index.ts:239, routes/verify.ts:86.
ChargedOnce ==
  /\ \A i \in DOMAIN usage :
       \/ ByHand(i)
       \/ receiptAt[usage[i].receipt] # NotSeen /\ receiptAt[usage[i].receipt] <= usage[i].at
  /\ \A i, j \in DOMAIN usage :
       i # j /\ usage[i].receipt = usage[j].receipt => ByHand(i) \/ ByHand(j)

\* The bus and the metering service implement at-least-once delivery, and the service
\* is idempotent: a usage row is written at most once for an event, and after the event's
\* acknowledgement only where the bus had sent it again and the insert had failed; a row
\* stays; and an event is acknowledged only with its row in the table, or after an insert
\* that failed.  adr/004:18 and :81.
Delivery == INSTANCE AtLeastOnce WITH
  Idempotent <- TRUE,
  published <- {q \in Requests : Published(q)},
  repeated <- redelivered[Metering],
  results <- [q \in Requests |-> Cardinality({i \in DOMAIN usage : usage[i].event = q})],
  passedOver <- dropped,
  settled <- acked[Metering]

ImplementsDelivery == Delivery!DeliverySpec

=============================================================================
