------------------------------ MODULE EventBus ------------------------------
(***************************************************************************)
(* The event bus of packages/event-bus/src/index.ts as its users see it: a *)
(* stream that keeps every published event, and one durable consumer per   *)
(* service.  Its client fetches messages ahead, hands them to the handler  *)
(* one at a time, and tells the server of each one when its handler ends;  *)
(* the server sends again what it has not been told of in time.  The       *)
(* server is external; what it keeps survives a restart of a service, a    *)
(* message in a buffer or in a handler does not.                           *)
(*                                                                         *)
(* Operations only: the modules that EXTEND this one say who publishes,    *)
(* what a handler does and what may fail.                                  *)
(***************************************************************************)
EXTENDS Naturals, Sequences

CONSTANTS
  Events,      \* the events that are ever published
  Consumers,   \* the durable consumers, one per subscribing service
  NoEvent,
  Prefetch     \* bound on the messages a client has fetched ahead of its handler

ASSUME BusAssumption == NoEvent \notin Events /\ Prefetch \in Nat \ {0}

VARIABLES
  stream,      \* the stored events, in order
  sent,        \* per consumer: how many of them the server has sent a first time
  buffer,      \* per consumer: the messages its client has fetched ahead, in order
  inHand,      \* per consumer: the event whose handler runs
  acked,       \* per consumer: the events it has acknowledged
  attached,    \* per consumer: its process connected and subscribed at startup
  redelivered  \* history, per consumer: the events the server has sent again

busVars == <<stream, sent, buffer, inHand, acked, attached, redelivered>>

BusTypeOK ==
  /\ stream \in Seq(Events)
  /\ sent \in [Consumers -> 0..Len(stream)]
  /\ buffer \in [Consumers -> Seq(Events)]
  /\ inHand \in [Consumers -> Events \cup {NoEvent}]
  /\ acked \in [Consumers -> SUBSET Events]
  /\ attached \in [Consumers -> BOOLEAN]
  /\ redelivered \in [Consumers -> SUBSET Events]

\* A service whose connection fails at startup logs it and runs without the bus.
BusInit ==
  /\ stream = <<>>
  /\ sent = [c \in Consumers |-> 0]
  /\ buffer = [c \in Consumers |-> <<>>]
  /\ inHand = [c \in Consumers |-> NoEvent]
  /\ acked = [c \in Consumers |-> {}]
  /\ attached \in [Consumers -> BOOLEAN]
  /\ redelivered = [c \in Consumers |-> {}]

Published(e) == \E i \in 1..Len(stream) : stream[i] = e

\* Sent and not acknowledged, wherever the message is now: nak's delay, or the ack_wait
\* that the server gives a consumer added without one, makes it send the event again.
Unsettled(c) ==
  {e \in Events : (\E i \in 1..sent[c] : stream[i] = e) /\ e \notin acked[c]}

Publish(e) ==
  /\ stream' = Append(stream, e)
  /\ UNCHANGED <<sent, buffer, inHand, acked, attached, redelivered>>

HasRoom(c) == Len(buffer[c]) < Prefetch

Fetch(c, e) == buffer' = [buffer EXCEPT ![c] = Append(@, e)]

\* Mutated Deliver: the event is acknowledged when it is sent.
DeliverAcking(c) ==
  /\ attached[c] /\ HasRoom(c)
  /\ sent[c] < Len(stream)
  /\ sent' = [sent EXCEPT ![c] = @ + 1]
  /\ Fetch(c, stream[sent'[c]])
  /\ acked' = [acked EXCEPT ![c] = @ \cup {stream[sent'[c]]}]
  /\ UNCHANGED <<stream, inHand, attached, redelivered>>

\* Mutated Deliver: a message waits for the one after it, as in a batch of two.
DeliverBatched(c) ==
  /\ attached[c] /\ HasRoom(c)
  /\ sent[c] + 1 < Len(stream)
  /\ sent' = [sent EXCEPT ![c] = @ + 1]
  /\ Fetch(c, stream[sent'[c]])
  /\ UNCHANGED <<stream, inHand, acked, attached, redelivered>>

\* Mutated Nak: the catch block acknowledges as well.
NakAcking(c) ==
  /\ acked' = [acked EXCEPT ![c] = @ \cup {inHand[c]}]
  /\ inHand' = [inHand EXCEPT ![c] = NoEvent]
  /\ UNCHANGED <<stream, sent, buffer, attached, redelivered>>

\* consume() has the server send the next message of the stream (deliver_policy 'all':
\* also those older than the consumer) ahead of the handler ...
Deliver(c) ==
  /\ attached[c] /\ HasRoom(c)
  /\ sent[c] < Len(stream)
  /\ sent' = [sent EXCEPT ![c] = @ + 1]
  /\ Fetch(c, stream[sent'[c]])
  /\ UNCHANGED <<stream, inHand, acked, attached, redelivered>>

\* ... or one again: also an event whose first message is still in the buffer or whose
\* handler still runs.
Redeliver(c) ==
  /\ attached[c] /\ HasRoom(c)
  /\ \E e \in Unsettled(c) :
       /\ Fetch(c, e)
       /\ redelivered' = [redelivered EXCEPT ![c] = @ \cup {e}]
  /\ UNCHANGED <<stream, sent, inHand, acked, attached>>

\* The for-await loop of subscribeToSubject takes what was fetched first, whatever has
\* become of the event since.
Take(c) ==
  /\ inHand[c] = NoEvent
  /\ buffer[c] # <<>>
  /\ inHand' = [inHand EXCEPT ![c] = Head(buffer[c])]
  /\ buffer' = [buffer EXCEPT ![c] = Tail(@)]
  /\ UNCHANGED <<stream, sent, acked, attached, redelivered>>

Release(c) ==
  /\ inHand' = [inHand EXCEPT ![c] = NoEvent]
  /\ UNCHANGED <<stream, sent, buffer, attached, redelivered>>

\* msg.ack() once the handler has returned.
Ack(c) ==
  /\ acked' = [acked EXCEPT ![c] = @ \cup {inHand[c]}]
  /\ Release(c)

\* msg.nak(5000) when it has thrown; an ack() that never reaches the server.
Nak(c) ==
  /\ UNCHANGED acked
  /\ Release(c)

\* The process of c restarts: handler and buffer are gone, and connect() is tried anew.
Reconnect(c) ==
  /\ buffer' = [buffer EXCEPT ![c] = <<>>]
  /\ inHand' = [inHand EXCEPT ![c] = NoEvent]
  /\ \E up \in BOOLEAN : attached' = [attached EXCEPT ![c] = up]
  /\ UNCHANGED <<stream, sent, acked, redelivered>>

=============================================================================
