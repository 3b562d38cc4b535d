---------------------------- MODULE AtLeastOnce ----------------------------
(***************************************************************************)
(* What docs/adr/004-nats-jetstream-event-bus.md asks of a consumer of the *)
(* bus, without streams, buffers, handlers, acks or restarts: an event     *)
(* that was published stays due until the consumer has dealt with it.  To  *)
(* deal with an event is to store a result of it, or to pass it over for a *)
(* reason that the consumer has; what is stored stays.  An event may be    *)
(* repeated while it is due, and only a repeated one is stored again or    *)
(* handled after it was dealt with: duplicates are the consumer's          *)
(* business, and one that is idempotent stores no second result at all.    *)
(***************************************************************************)
EXTENDS Naturals

CONSTANTS
  Events,
  Idempotent   \* TRUE of a consumer that recognises duplicates

VARIABLES
  published,   \* the events that were published
  repeated,    \* the events that were delivered again before they were dealt with
  results,     \* per event: how many results of it the consumer has stored
  passedOver,  \* the events it handled at some time without storing a result
  settled      \* the events that are dealt with

deliveryVars == <<published, repeated, results, passedOver, settled>>

DeliveryInit ==
  /\ published = {}
  /\ repeated = {}
  /\ results = [e \in Events |-> 0]
  /\ passedOver = {}
  /\ settled = {}

Due(e) == e \in published \ settled

\* A delivery of the event may be on its way to the consumer.
Live(e) == Due(e) \/ e \in repeated

Publish(e) ==
  /\ e \notin published
  /\ published' = published \cup {e}
  /\ UNCHANGED <<repeated, results, passedOver, settled>>

Repeat(e) ==
  /\ Due(e)
  /\ repeated' = repeated \cup {e}
  /\ UNCHANGED <<published, results, passedOver, settled>>

\* A result more than the first is one of a repeated event.
Store(e) ==
  /\ Live(e)
  /\ results[e] = 0 \/ (~Idempotent /\ e \in repeated)
  /\ results' = [results EXCEPT ![e] = @ + 1]
  /\ UNCHANGED <<published, repeated, passedOver, settled>>

\* Only an event that has no result is passed over.
PassOver(e) ==
  /\ Live(e)
  /\ results[e] = 0
  /\ passedOver' = passedOver \cup {e}
  /\ UNCHANGED <<published, repeated, results, settled>>

Settle(e) ==
  /\ Due(e)
  /\ results[e] > 0 \/ e \in passedOver
  /\ settled' = settled \cup {e}
  /\ UNCHANGED <<published, repeated, results, passedOver>>

DeliveryNext ==
  \E e \in Events : Publish(e) \/ Repeat(e) \/ Store(e) \/ PassOver(e) \/ Settle(e)

DeliverySpec == DeliveryInit /\ [][DeliveryNext]_deliveryVars

=============================================================================
