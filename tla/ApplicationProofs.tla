------------------------- MODULE ApplicationProofs --------------------------
(***************************************************************************)
(* What the two programs that people look at show them: the passports of   *)
(* services/dpp-builder, for any products, events, tokens, configurations  *)
(* and faults, and the screens of apps/edge-agent, for any documents,      *)
(* claims and number of calls in flight.                                   *)
(*                                                                         *)
(* DppInv has five parts, and a step is looked at once per part whose      *)
(* variables it writes: which copies of an event the bus may have on their *)
(* way and in which order, what the tables hold, what the handler of an    *)
(* event knows, in which order its rows were written, and what a view may  *)
(* show.  RowsMatch adds what makes the bus and the service implement      *)
(* AtLeastOnce.                                                            *)
(*                                                                         *)
(* AgentInv says what a screen knows of each row while calls are in        *)
(* flight.  Its steps are of four kinds, each with a summary: a command    *)
(* gets on (Step), a button is pressed (Sent), an answer arrives (Receive),*)
(* and a screen is opened or the program starts anew.                      *)
(***************************************************************************)
EXTENDS DppBuilder, EdgeAgent, RecursionLemmas


Held == inHand[Dpp] # NoEvent

Line == buffer[Dpp]

Row == [product : Products, predicate : Predicates, receipt : Events \cup Receipts,
        byHand : BOOLEAN]

-----------------------------------------------------------------------------
(* The invariant                                                           *)

\* No event is stored twice ...
PublishedOnce ==
  \A k, l \in 1..Len(stream) : stream[k] = stream[l] => k = l

\* ... what the client has of it was sent, and what it has acknowledged too ...
WasSent(e) == \E k \in 1..sent[Dpp] : stream[k] = e

CopiesSent ==
  /\ Held => WasSent(inHand[Dpp])
  /\ \A m \in 1..Len(Line) : WasSent(Line[m])
  /\ \A e \in acked[Dpp] : WasSent(e)

\* ... it comes in the order of the stream, unless it was sent again ...
Follows(e, f) ==
  \/ e \in redelivered[Dpp]
  \/ \E l, k \in 1..Len(stream) : l < k /\ stream[l] = f /\ stream[k] = e

LineInOrder ==
  \A m \in 1..Len(Line) :
    /\ Held => Follows(Line[m], inHand[Dpp])
    /\ \A n \in 1..Len(Line) : n < m => Follows(Line[m], Line[n])

\* ... and not after its acknowledgement, with the same exception.
LateCopyRepeated ==
  /\ Held /\ inHand[Dpp] \in acked[Dpp] => inHand[Dpp] \in redelivered[Dpp]
  /\ \A m \in 1..Len(Line) : Line[m] \in acked[Dpp] => Line[m] \in redelivered[Dpp]

BusInv ==
  BusTypeOK /\ PublishedOnce /\ CopiesSent /\ LineInOrder /\ LateCopyRepeated

TableInv ==
  /\ products \subseteq Products
  /\ creating \in [Products -> {"none", "checked", "created", "refused", "failed"}]
  /\ \A x \in Products : creating[x] = "created" => x \in products
  /\ verified \in Seq(Row)
  /\ \A i \in DOMAIN verified : verified[i].product \in products
  /\ expired \subseteq DOMAIN verified
  /\ unmatched \subseteq Events
  /\ faults \in 0..MaxFaults

\* What the handler has learned of its event stays true until it has ended.
HandlerInv ==
  /\ matched \in BOOLEAN /\ handlerDone \in BOOLEAN
  /\ matched => Held /\ ~handlerDone /\ ProductOf[inHand[Dpp]] \in products
  /\ handlerDone => Held /\ (RowsOf(inHand[Dpp]) # {} \/ inHand[Dpp] \in unmatched)

\* Only events that were sent have rows ...
FromEvent(i) == i \in DOMAIN verified /\ ~verified[i].byHand

RowsSent == \A i \in DOMAIN verified : FromEvent(i) => WasSent(verified[i].receipt)

\* ... in the order of the stream, unless the later row is of an event that was sent
\* again ...
RowsInOrder ==
  \A i, j \in DOMAIN verified :
    FromEvent(i) /\ FromEvent(j) /\ j < i => Follows(verified[i].receipt, verified[j].receipt)

\* ... and what is still to come follows them.
RowsFirst ==
  \A i \in DOMAIN verified :
    FromEvent(i) =>
      /\ Held /\ ~handlerDone => Follows(inHand[Dpp], verified[i].receipt)
      /\ \A m \in 1..Len(Line) : Follows(Line[m], verified[i].receipt)

OrderInv == RowsSent /\ RowsInOrder /\ RowsFirst

\* The circuit is there before the entry, and the process has seen no predicate in the
\* legitimate-interest group that was not in it while it ran.
RegistryInv ==
  /\ RegistryTypeOK
  /\ \A config \in generating : config.predicate \in circuits
  /\ granted \subseteq Predicates
  /\ \A p \in Predicates :
       "LEGIT_INTEREST" \in registry[p] \/ (loaded /\ "LEGIT_INTEREST" \in cached[p])
         => p \in granted

\* A view in progress was asked for by somebody who may see it.
ViewInv ==
  /\ view.level \in Levels
  /\ view.rows \subseteq DOMAIN verified
  /\ view.level # "PUBLIC" => RequireDppViewAccess(view.user, view.level)

DppInv ==
  /\ BusInv /\ TableInv /\ HandlerInv /\ NothingElseUnrecorded
  /\ OrderInv /\ RegistryInv /\ ViewInv
-----------------------------------------------------------------------------
(* The bus                                                                 *)

LEMMA DppNames ==
  /\ Consumers = {Dpp} /\ Dpp \in Consumers /\ NoEvent \notin Events
  /\ MaxFaults \in Nat /\ MaxPosted \in Nat
BY DppAssumption, BusAssumption

LEMMA BusFacts ==
  ASSUME BusTypeOK
  PROVE  /\ stream \in Seq(Events) /\ Len(stream) \in Nat
         /\ DOMAIN stream = 1..Len(stream)
         /\ \A k \in 1..Len(stream) : stream[k] \in Events
         /\ sent[Dpp] \in 0..Len(stream)
         /\ Line \in Seq(Events) /\ Len(Line) \in Nat
         /\ \A m \in 1..Len(Line) : Line[m] \in Events
         /\ Held => inHand[Dpp] \in Events
         /\ acked[Dpp] \subseteq Events /\ redelivered[Dpp] \subseteq Events
<1>1. /\ stream \in Seq(Events) /\ sent[Dpp] \in 0..Len(stream) /\ Line \in Seq(Events)
      /\ inHand[Dpp] \in Events \cup {NoEvent}
      /\ acked[Dpp] \subseteq Events /\ redelivered[Dpp] \subseteq Events
  BY DppNames DEF BusTypeOK, Line
<1> QED
  BY <1>1 DEF Held

\* An event that was not sent again follows what was sent before it, and not itself.
LEMMA FollowsItself ==
  ASSUME BusInv, NEW e, Follows(e, e)
  PROVE  e \in redelivered[Dpp]
BY BusFacts DEF BusInv, Follows, PublishedOnce

LEMMA NewestFollows ==
  ASSUME BusInv, NEW e, WasSent(e), NEW n \in 1..Len(stream), n = sent[Dpp] + 1
  PROVE  Follows(stream[n], e)
<1>1. PICK k \in 1..sent[Dpp] : stream[k] = e
  BY DEF WasSent
<1>2. k \in 1..Len(stream) /\ k < n
  BY BusFacts DEF BusInv
<1> QED
  BY <1>1, <1>2 DEF Follows

LEMMA FollowsStays ==
  ASSUME BusInv, redelivered[Dpp] \subseteq redelivered'[Dpp],
         \/ UNCHANGED stream
         \/ \E e \in Events : stream' = Append(stream, e)
  PROVE  \A e, f : Follows(e, f) => Follows(e, f)'
<1>1. \A k \in 1..Len(stream) : k \in 1..Len(stream') /\ stream'[k] = stream[k]
  BY BusFacts DEF BusInv
<1> QED
  BY <1>1 DEF Follows

LEMMA BusWhenPublished ==
  ASSUME BusInv, NEW e \in Events, PublishEvent(e)
  PROVE  BusInv'
<1> USE DppNames, BusFacts DEF BusInv
<1>1. /\ stream' = Append(stream, e) /\ ~Published(e)
      /\ UNCHANGED <<sent, buffer, acked, inHand, attached, redelivered>>
  BY DEF PublishEvent, Publish
<1>2. /\ stream' \in Seq(Events) /\ Len(stream') = Len(stream) + 1
      /\ \A k \in 1..Len(stream) : stream'[k] = stream[k]
      /\ stream'[Len(stream')] = e
      /\ \A k \in 1..Len(stream') : k \in 1..Len(stream) \/ k = Len(stream')
  BY <1>1
<1>3. BusTypeOK'
  <2>1. \A c \in Consumers : sent[c] \in 0..Len(stream')
    BY <1>2 DEF BusTypeOK
  <2> QED
    BY <1>1, <1>2, <2>1 DEF BusTypeOK
<1>4. PublishedOnce'
  <2>1. \A k \in 1..Len(stream) : stream[k] # e
    BY <1>1 DEF Published
  <2> QED
    BY <1>2, <2>1 DEF PublishedOnce
<1>5. CopiesSent'
  <2>1. \A k \in 1..sent[Dpp] : stream'[k] = stream[k]
    BY <1>2
  <2> QED
    BY <1>1, <2>1 DEF CopiesSent, WasSent, Held, Line
<1>6. LineInOrder'
  <2>1. \A a, b : Follows(a, b) => Follows(a, b)'
    BY <1>1, FollowsStays
  <2> QED
    BY <1>1, <2>1 DEF LineInOrder, Held, Line
<1>7. LateCopyRepeated'
  BY <1>1 DEF LateCopyRepeated, Held, Line
<1> QED
  BY <1>3, <1>4, <1>5, <1>6, <1>7

\* What the server sends goes to the end of the line.
LEMMA Fetched ==
  ASSUME BusTypeOK, NEW e \in Events, Fetch(Dpp, e)
  PROVE  /\ buffer' \in [Consumers -> Seq(Events)]
         /\ Len(Line') = Len(Line) + 1
         /\ Line'[Len(Line) + 1] = e
         /\ \A m \in 1..Len(Line) : Line'[m] = Line[m]
<1>1. buffer \in [Consumers -> Seq(Events)] /\ Dpp \in Consumers
  BY DppNames DEF BusTypeOK
<1>2. /\ buffer' = [buffer EXCEPT ![Dpp] = Append(buffer[Dpp], e)]
      /\ buffer[Dpp] \in Seq(Events)
  BY <1>1 DEF Fetch
<1>3. Append(buffer[Dpp], e) \in Seq(Events)
  BY <1>2
<1> QED
  BY <1>1, <1>2, <1>3 DEF Line

\* A copy that follows all that is ahead of it.
LEMMA LineWhenFetched ==
  ASSUME BusInv, NEW e \in Events, Fetch(Dpp, e),
         UNCHANGED <<stream, inHand, acked>>, redelivered[Dpp] \subseteq redelivered'[Dpp],
         \/ e \in redelivered'[Dpp]
         \/ /\ e \notin acked[Dpp]
            /\ Held => Follows(e, inHand[Dpp])
            /\ \A m \in 1..Len(Line) : Follows(e, Line[m])
  PROVE  LineInOrder' /\ LateCopyRepeated'
<1> DEFINE n == Len(Line)
<1>1. /\ Len(Line') = n + 1 /\ n \in Nat /\ Line'[n + 1] = e
      /\ \A m \in 1..n : Line'[m] = Line[m]
  BY Fetched, BusFacts DEF BusInv
<1> HIDE DEF n
<1>2. \A m \in 1..Len(Line') :
        \/ m \in 1..n /\ Line'[m] = Line[m]
        \/ m = n + 1 /\ Line'[m] = e
  BY <1>1
<1>3. \A a, b : Follows(a, b) => Follows(a, b)'
  BY FollowsStays
<1>4. e \in redelivered'[Dpp] => \A b : Follows(e, b)'
  BY DEF Follows
<1>5. LineInOrder'
  <2> SUFFICES ASSUME NEW m \in 1..Len(Line')
               PROVE  /\ Held => Follows(Line[m], inHand[Dpp])'
                      /\ \A l \in 1..Len(Line') : l < m => Follows(Line[m], Line[l])'
    BY DEF LineInOrder, Held
  <2>1. CASE m \in 1..n /\ Line'[m] = Line[m]
    <3>1. Held => Follows(Line[m], inHand[Dpp])'
      BY <1>3, <2>1 DEF BusInv, LineInOrder, n, Held
    <3>2. ASSUME NEW l \in 1..Len(Line'), l < m
          PROVE  Follows(Line[m], Line[l])'
      <4>1. l \in 1..n /\ Line'[l] = Line[l]
        BY <1>1, <2>1, <3>2
      <4>2. Follows(Line[m], Line[l])
        BY <2>1, <3>2, <4>1 DEF BusInv, LineInOrder, n
      <4> QED
        BY <1>3, <2>1, <4>1, <4>2
    <3> QED
      BY <3>1, <3>2
  <2>2. CASE m = n + 1 /\ Line'[m] = e
    <3>1. Held => Follows(Line[m], inHand[Dpp])'
      BY <1>3, <1>4, <2>2
    <3>2. ASSUME NEW l \in 1..Len(Line'), l < m
          PROVE  Follows(Line[m], Line[l])'
      <4>1. l \in 1..n /\ Line'[l] = Line[l]
        BY <1>1, <2>2, <3>2
      <4> QED
        BY <1>3, <1>4, <2>2, <4>1 DEF n
    <3> QED
      BY <3>1, <3>2
  <2> QED
    BY <1>2, <2>1, <2>2
<1>6. LateCopyRepeated'
  <2>1. ASSUME NEW m \in 1..Len(Line'), Line'[m] \in acked[Dpp]
        PROVE  Line'[m] \in redelivered'[Dpp]
    BY <1>2, <2>1 DEF BusInv, LateCopyRepeated, n
  <2>2. Held /\ inHand[Dpp] \in acked[Dpp] => inHand[Dpp] \in redelivered'[Dpp]
    BY DEF BusInv, LateCopyRepeated
  <2> QED
    BY <2>1, <2>2 DEF LateCopyRepeated, Held
<1> QED
  BY <1>5, <1>6

LEMMA DeliverFacts ==
  ASSUME BusTypeOK, DeliverEvent
  PROVE  \E n \in 1..Len(stream) :
           /\ n = sent[Dpp] + 1 /\ sent'[Dpp] = n
           /\ sent' \in [Consumers -> 0..Len(stream)]
           /\ Fetch(Dpp, stream[n]) /\ stream[n] \in Events
           /\ UNCHANGED <<stream, inHand, acked, attached, redelivered>>
<1> USE DppNames DEF DeliverEvent
<1> DEFINE n == sent[Dpp] + 1
<1>1. sent \in [Consumers -> 0..Len(stream)] /\ Len(stream) \in Nat
  BY BusFacts DEF BusTypeOK
<1>2. n \in 1..Len(stream)
  BY <1>1 DEF Deliver
<1>3. sent' = [sent EXCEPT ![Dpp] = n] /\ sent'[Dpp] = n
  BY <1>1 DEF Deliver
<1>4. Fetch(Dpp, stream[n])
  BY <1>3 DEF Deliver
<1> HIDE DEF n
<1>5. sent' \in [Consumers -> 0..Len(stream)]
  BY <1>1, <1>2, <1>3
<1>6. n = sent[Dpp] + 1
  BY DEF n
<1> QED
  BY <1>2, <1>3, <1>4, <1>5, <1>6, BusFacts DEF Deliver

LEMMA RedeliverFacts ==
  ASSUME BusTypeOK, RedeliverEvent
  PROVE  \E e \in Events :
           /\ WasSent(e) /\ e \notin acked[Dpp]
           /\ Fetch(Dpp, e)
           /\ redelivered' \in [Consumers -> SUBSET Events]
           /\ redelivered'[Dpp] = redelivered[Dpp] \cup {e}
           /\ UNCHANGED <<stream, sent, inHand, acked, attached>>
<1> USE DppNames DEF RedeliverEvent
<1>1. PICK e \in Unsettled(Dpp) :
        /\ Fetch(Dpp, e)
        /\ redelivered' = [redelivered EXCEPT ![Dpp] = @ \cup {e}]
  BY DEF Redeliver
<1>2. e \in Events /\ WasSent(e) /\ e \notin acked[Dpp]
  BY <1>1 DEF Unsettled, WasSent
<1>3. redelivered \in [Consumers -> SUBSET Events]
  BY DEF BusTypeOK
<1> QED
  BY <1>1, <1>2, <1>3 DEF Redeliver

LEMMA TakeFacts ==
  ASSUME BusTypeOK, TakeEvent
  PROVE  /\ ~Held /\ Held'
         /\ Len(Line) >= 1 /\ inHand'[Dpp] = Line[1]
         /\ inHand' \in [Consumers -> Events \cup {NoEvent}]
         /\ buffer' \in [Consumers -> Seq(Events)]
         /\ Len(Line') = Len(Line) - 1
         /\ \A m \in 1..Len(Line') : Line'[m] = Line[m + 1]
         /\ UNCHANGED <<stream, sent, acked, attached, redelivered>>
<1> USE DppNames DEF TakeEvent
<1>1. /\ buffer \in [Consumers -> Seq(Events)] /\ inHand \in [Consumers -> Events \cup {NoEvent}]
      /\ Line \in Seq(Events) /\ Line # <<>>
  BY DEF BusTypeOK, Take, Line
<1>2. /\ Len(Line) >= 1 /\ Head(Line) = Line[1] /\ Line[1] \in Events
      /\ Tail(Line) \in Seq(Events) /\ Len(Tail(Line)) = Len(Line) - 1
      /\ \A m \in 1..Len(Tail(Line)) : Tail(Line)[m] = Line[m + 1]
  BY <1>1
<1>3. /\ inHand' = [inHand EXCEPT ![Dpp] = Head(Line)]
      /\ buffer' = [buffer EXCEPT ![Dpp] = Tail(Line)]
      /\ UNCHANGED <<stream, sent, acked, attached, redelivered>>
      /\ inHand[Dpp] = NoEvent
  BY DEF Take, Line
<1>4. inHand'[Dpp] = Head(Line) /\ Line' = Tail(Line)
  BY <1>1, <1>3 DEF Line
<1>5. buffer' \in [Consumers -> Seq(Events)]
  BY <1>1, <1>2, <1>3
<1>6. inHand' \in [Consumers -> Events \cup {NoEvent}]
  BY <1>1, <1>2, <1>3
<1> QED
  BY <1>2, <1>3, <1>4, <1>5, <1>6 DEF Held

LEMMA BusWhenDelivered ==
  ASSUME BusInv, DeliverEvent
  PROVE  BusInv'
<1> USE BusFacts
<1>1. PICK n \in 1..Len(stream) :
        /\ n = sent[Dpp] + 1 /\ sent'[Dpp] = n
        /\ sent' \in [Consumers -> 0..Len(stream)]
        /\ Fetch(Dpp, stream[n]) /\ stream[n] \in Events
        /\ UNCHANGED <<stream, inHand, acked, attached, redelivered>>
  BY DeliverFacts DEF BusInv
<1>2. /\ buffer' \in [Consumers -> Seq(Events)]
      /\ Len(Line') = Len(Line) + 1
      /\ Line'[Len(Line) + 1] = stream[n]
      /\ \A m \in 1..Len(Line) : Line'[m] = Line[m]
  BY <1>1, Fetched DEF BusInv
<1>3. \A e : WasSent(e) \/ e = stream[n] => WasSent(e)'
  BY <1>1 DEF WasSent, BusInv
<1>4. CopiesSent'
  <2>1. \A m \in 1..Len(Line') : m \in 1..Len(Line) \/ m = Len(Line) + 1
    BY <1>2 DEF BusInv
  <2>2. \A m \in 1..Len(Line') : WasSent(Line'[m]) \/ Line'[m] = stream[n]
    BY <1>2, <2>1 DEF BusInv, CopiesSent
  <2>3. \A m \in 1..Len(Line') : WasSent(Line[m])'
    BY <1>3, <2>2
  <2>4. /\ Held' => WasSent(inHand[Dpp])'
        /\ \A e \in acked'[Dpp] : WasSent(e)'
    BY <1>1, <1>3 DEF BusInv, CopiesSent, Held
  <2> QED
    BY <2>3, <2>4 DEF CopiesSent
<1>5. ~WasSent(stream[n])
  <2> SUFFICES ASSUME NEW k \in 1..sent[Dpp], stream[k] = stream[n]
               PROVE  FALSE
    BY DEF WasSent
  <2>1. k \in 1..Len(stream) /\ k # n
    BY <1>1 DEF BusInv
  <2> QED
    BY <2>1 DEF BusInv, PublishedOnce
<1>6. /\ stream[n] \notin acked[Dpp]
      /\ Held => Follows(stream[n], inHand[Dpp])
      /\ \A m \in 1..Len(Line) : Follows(stream[n], Line[m])
  BY <1>1, <1>5, NewestFollows DEF BusInv, CopiesSent
<1>7. LineInOrder' /\ LateCopyRepeated'
  BY <1>1, <1>6, LineWhenFetched
<1>8. BusTypeOK' /\ PublishedOnce'
  BY <1>1, <1>2 DEF BusInv, BusTypeOK, PublishedOnce
<1> QED
  BY <1>4, <1>7, <1>8 DEF BusInv

LEMMA BusWhenRedelivered ==
  ASSUME BusInv, RedeliverEvent
  PROVE  BusInv'
<1> USE BusFacts
<1>1. PICK e \in Events :
        /\ WasSent(e) /\ e \notin acked[Dpp]
        /\ Fetch(Dpp, e)
        /\ redelivered' \in [Consumers -> SUBSET Events]
        /\ redelivered'[Dpp] = redelivered[Dpp] \cup {e}
        /\ UNCHANGED <<stream, sent, inHand, acked, attached>>
  BY RedeliverFacts DEF BusInv
<1>2. /\ buffer' \in [Consumers -> Seq(Events)]
      /\ Len(Line') = Len(Line) + 1
      /\ Line'[Len(Line) + 1] = e
      /\ \A m \in 1..Len(Line) : Line'[m] = Line[m]
  BY <1>1, Fetched DEF BusInv
<1>3. CopiesSent'
  <2>1. \A m \in 1..Len(Line') : m \in 1..Len(Line) \/ m = Len(Line) + 1
    BY <1>2 DEF BusInv
  <2>2. \A m \in 1..Len(Line') : WasSent(Line'[m])
    BY <1>1, <1>2, <2>1 DEF BusInv, CopiesSent
  <2> QED
    BY <1>1, <2>2 DEF BusInv, CopiesSent, WasSent, Held
<1>4. LineInOrder' /\ LateCopyRepeated'
  BY <1>1, LineWhenFetched
<1>5. BusTypeOK' /\ PublishedOnce'
  BY <1>1, <1>2 DEF BusInv, BusTypeOK, PublishedOnce
<1> QED
  BY <1>3, <1>4, <1>5 DEF BusInv

LEMMA BusWhenTaken ==
  ASSUME BusInv, TakeEvent
  PROVE  BusInv'
<1> DEFINE n == Len(Line)
<1>1. /\ n >= 1 /\ n \in Nat /\ inHand'[Dpp] = Line[1]
      /\ Len(Line') = n - 1
      /\ \A m \in 1..(n - 1) : Line'[m] = Line[m + 1]
      /\ UNCHANGED <<stream, sent, acked, redelivered>>
  BY TakeFacts, BusFacts DEF BusInv
<1>2. 1 \in 1..n /\ \A m \in 1..(n - 1) : m + 1 \in 1..n /\ 1 < m + 1
  BY <1>1
<1>3. \A e, f : Follows(e, f) => Follows(e, f)'
  BY <1>1 DEF Follows
<1>4. BusTypeOK' /\ PublishedOnce'
  BY TakeFacts DEF BusInv, BusTypeOK, PublishedOnce
<1>5. CopiesSent'
  BY <1>1, <1>2 DEF BusInv, CopiesSent, WasSent
<1>6. LineInOrder'
  <2> SUFFICES ASSUME NEW m \in 1..(n - 1)
               PROVE  /\ Follows(Line[m], inHand[Dpp])'
                      /\ \A l \in 1..(n - 1) : l < m => Follows(Line[m], Line[l])'
    BY <1>1 DEF LineInOrder
  <2>1. Follows(Line[m + 1], Line[1])
    BY <1>2 DEF BusInv, LineInOrder
  <2>2. ASSUME NEW l \in 1..(n - 1), l < m
        PROVE  Follows(Line[m + 1], Line[l + 1])
    BY <1>1, <1>2, <2>2 DEF BusInv, LineInOrder
  <2> QED
    BY <1>1, <1>3, <2>1, <2>2
<1>7. LateCopyRepeated'
  BY <1>1, <1>2 DEF BusInv, LateCopyRepeated
<1> QED
  BY <1>4, <1>5, <1>6, <1>7 DEF BusInv

\* The handler has ended, with an ack, a nak, or because the process did.
LEMMA ReleaseFacts ==
  ASSUME BusTypeOK, (handlerDone => Held), Settle \/ HandlerThrows \/ Restart
  PROVE  /\ UNCHANGED <<stream, sent, redelivered>> /\ ~Held'
         /\ inHand' \in [Consumers -> Events \cup {NoEvent}]
         /\ buffer' \in [Consumers -> Seq(Events)]
         /\ attached' \in [Consumers -> BOOLEAN]
         /\ acked' \in [Consumers -> SUBSET Events]
         /\ Line' = Line \/ Len(Line') = 0
         /\ \/ acked' = acked
            \/ Settle /\ Held /\ Line' = Line /\ acked'[Dpp] = acked[Dpp] \cup {inHand[Dpp]}
<1> USE DppNames
<1>1. /\ inHand \in [Consumers -> Events \cup {NoEvent}]
      /\ buffer \in [Consumers -> Seq(Events)]
      /\ attached \in [Consumers -> BOOLEAN] /\ acked \in [Consumers -> SUBSET Events]
  BY DEF BusTypeOK
<1>2. /\ inHand' = [inHand EXCEPT ![Dpp] = NoEvent]
      /\ UNCHANGED <<stream, sent, redelivered>>
  BY DEF Settle, HandlerThrows, Restart, Ack, Nak, Reconnect, Release
<1>3. inHand' \in [Consumers -> Events \cup {NoEvent}] /\ ~Held'
  BY <1>1, <1>2 DEF Held
<1>4. CASE Settle
  <2>1. /\ acked' = [acked EXCEPT ![Dpp] = @ \cup {inHand[Dpp]}]
        /\ UNCHANGED <<buffer, attached>> /\ Held
    BY <1>4 DEF Settle, Ack, Release
  <2>2. inHand[Dpp] \in Events
    BY <2>1, BusFacts
  <2> QED
    BY <1>1, <1>2, <1>3, <1>4, <2>1, <2>2 DEF Line
<1>5. CASE HandlerThrows
  BY <1>1, <1>2, <1>3, <1>5 DEF HandlerThrows, Nak, Release, Line
<1>6. CASE Restart
  <2>1. /\ buffer' = [buffer EXCEPT ![Dpp] = <<>>] /\ UNCHANGED acked
        /\ \E up \in BOOLEAN : attached' = [attached EXCEPT ![Dpp] = up]
    BY <1>6 DEF Restart, Reconnect
  <2>2. <<>> \in Seq(Events) /\ Len(<<>>) = 0
    OBVIOUS
  <2>3. buffer' \in [Consumers -> Seq(Events)] /\ Line' = <<>>
    BY <1>1, <2>1, <2>2 DEF Line
  <2> QED
    BY <1>1, <1>2, <1>3, <2>1, <2>2, <2>3
<1> QED
  BY <1>4, <1>5, <1>6

LEMMA BusWhenReleased ==
  ASSUME BusInv, (handlerDone => Held), Settle \/ HandlerThrows \/ Restart
  PROVE  BusInv'
<1>1. /\ UNCHANGED <<stream, sent, redelivered>> /\ ~Held'
      /\ Line' = Line \/ Len(Line') = 0
      /\ \/ acked' = acked
         \/ Held /\ Line' = Line /\ acked'[Dpp] = acked[Dpp] \cup {inHand[Dpp]}
  BY ReleaseFacts DEF BusInv
<1>2. BusTypeOK' /\ PublishedOnce'
  BY ReleaseFacts DEF BusInv, BusTypeOK, PublishedOnce
<1>3. CopiesSent'
  BY <1>1 DEF BusInv, CopiesSent, WasSent
<1>4. LineInOrder'
  <2>1. \A e, f : Follows(e, f) => Follows(e, f)'
    BY <1>1 DEF Follows
  <2> QED
    BY <1>1, <2>1 DEF BusInv, LineInOrder
<1>5. LateCopyRepeated'
  <2>1. \A m \in 1..Len(Line) : Held /\ Line[m] = inHand[Dpp] => Line[m] \in redelivered[Dpp]
    BY FollowsItself DEF BusInv, LineInOrder
  <2> QED
    BY <1>1, <2>1 DEF BusInv, LateCopyRepeated
<1> QED
  BY <1>2, <1>3, <1>4, <1>5 DEF BusInv

\* The other steps leave the bus alone.
LEMMA OffTheBus ==
  ASSUME [Next]_vars
  PROVE  \/ \E e \in Events : PublishEvent(e)
         \/ DeliverEvent \/ RedeliverEvent \/ TakeEvent
         \/ Settle \/ HandlerThrows \/ Restart
         \/ UNCHANGED busVars
<1>1. ASSUME NEW x, NEW p, NEW r, NEW i, NEW token, NEW level,
             \/ CheckSku(x) \/ CreateProduct(x) \/ PostVerification(x, p, r) \/ Expire(i)
             \/ LookUpProduct \/ RecordVerification \/ RequestView(token, level, x)
             \/ ComposeView \/ GeneratePredicate
      PROVE  UNCHANGED busVars
  BY <1>1 DEF CheckSku, CreateProduct, PostVerification, Expire, LookUpProduct,
              RecordVerification, RequestView, ComposeView, GeneratePredicate
<1>2. CASE UNCHANGED vars
  BY <1>2 DEF vars
<1>3. CASE Next
  BY <1>1, <1>3, Zenon DEF Next
<1> QED
  BY <1>2, <1>3

LEMMA BusUntouched ==
  ASSUME BusInv, UNCHANGED busVars
  PROVE  BusInv'
<1>1. UNCHANGED <<stream, sent, buffer, inHand, acked, attached, redelivered>>
  BY DEF busVars
<1>2. BusTypeOK' /\ PublishedOnce' /\ CopiesSent'
  BY <1>1 DEF BusInv, BusTypeOK, PublishedOnce, CopiesSent, WasSent, Held, Line
<1>3. LineInOrder' /\ LateCopyRepeated'
  BY <1>1 DEF BusInv, LineInOrder, LateCopyRepeated, Follows, Held, Line
<1> QED
  BY <1>2, <1>3 DEF BusInv

LEMMA BusInductive ==
  ASSUME BusInv, (handlerDone => Held), [Next]_vars
  PROVE  BusInv'
BY BusUntouched, BusWhenPublished, BusWhenDelivered, BusWhenRedelivered, BusWhenTaken,
   BusWhenReleased, OffTheBus

-----------------------------------------------------------------------------
(* The tables                                                              *)

LEMMA RowAppended ==
  ASSUME verified \in Seq(Row), NEW row \in Row, verified' = Append(verified, row)
  PROVE  /\ verified' \in Seq(Row)
         /\ Len(verified) + 1 \in DOMAIN verified' /\ verified'[Len(verified) + 1] = row
         /\ \A i \in DOMAIN verified :
              i \in DOMAIN verified' /\ verified'[i] = verified[i] /\ i < Len(verified) + 1
         /\ \A i \in DOMAIN verified' : i \in DOMAIN verified \/ i = Len(verified) + 1
<1> HIDE DEF Row
<1> QED
  OBVIOUS

\* A row is posted by hand, or recorded by the handler for its event.
PostedRow(row) == row.byHand /\ UNCHANGED <<busVars, matched, handlerDone>>
RecordedRow(row) ==
  /\ matched /\ ~row.byHand /\ row.receipt = inHand[Dpp] /\ Held
  /\ matched' = FALSE /\ handlerDone' = TRUE
  /\ UNCHANGED <<busVars, unmatched>>

LEMMA RowSteps ==
  ASSUME BusInv, TableInv, HandlerInv,
         RecordVerification
           \/ \E x \in Products, p \in Predicates, r \in Receipts : PostVerification(x, p, r)
  PROVE  /\ \E row \in Row : /\ verified' = Append(verified, row)
                             /\ row.product \in products
                             /\ PostedRow(row) \/ RecordedRow(row)
         /\ UNCHANGED <<products, creating, expired, unmatched, faults>>
<1>1. CASE RecordVerification
  <2> DEFINE e == inHand[Dpp]
             row == [product |-> ProductOf[e], predicate |-> PredicateOf[e], receipt |-> e,
                    byHand |-> FALSE]
  <2>1. Held /\ e \in Events /\ ProductOf[e] \in products
    BY <1>1, BusFacts DEF RecordVerification, HandlerInv, BusInv
  <2>2. row \in Row
    BY <2>1, DppAssumption DEF Row, TableInv
  <2>3. verified' = Append(verified, row) /\ RecordedRow(row)
    BY <1>1, <2>1 DEF RecordVerification, AddRow, RecordedRow
  <2>4. row.product \in products
    BY <2>1
  <2>5. UNCHANGED <<products, creating, expired, unmatched, faults>>
    BY <1>1 DEF RecordVerification
  <2> HIDE DEF row
  <2> QED
    BY <2>2, <2>3, <2>4, <2>5
<1>2. ASSUME NEW x \in Products, NEW p \in Predicates, NEW r \in Receipts,
             PostVerification(x, p, r)
      PROVE  /\ \E row \in Row : /\ verified' = Append(verified, row)
                                 /\ row.product \in products
                                 /\ PostedRow(row)
             /\ UNCHANGED <<products, creating, expired, unmatched, faults>>
  <2> DEFINE row == [product |-> x, predicate |-> p, receipt |-> r, byHand |-> TRUE]
  <2>1. row \in Row
    BY DEF Row
  <2>2. /\ verified' = Append(verified, row) /\ x \in products
        /\ UNCHANGED <<busVars, products, creating, expired, matched, handlerDone, unmatched,
                       faults>>
    BY <1>2 DEF PostVerification, AddRow
  <2>3. row.product = x /\ row.byHand
    OBVIOUS
  <2> HIDE DEF row
  <2> QED
    BY <2>1, <2>2, <2>3 DEF PostedRow
<1> QED
  BY <1>1, <1>2

\* The steps that write no row.
LEMMA NoRowWritten ==
  ASSUME [Next]_vars
  PROVE  \/ RecordVerification
         \/ \E x \in Products, p \in Predicates, r \in Receipts : PostVerification(x, p, r)
         \/ UNCHANGED verified
<1>1. ASSUME NEW x, NEW i, NEW e, NEW token, NEW level,
             \/ CheckSku(x) \/ CreateProduct(x) \/ Expire(i) \/ PublishEvent(e)
             \/ DeliverEvent \/ RedeliverEvent \/ TakeEvent \/ LookUpProduct \/ Settle
             \/ HandlerThrows \/ RequestView(token, level, x) \/ ComposeView
             \/ GeneratePredicate \/ Restart
      PROVE  UNCHANGED verified
  BY <1>1 DEF CheckSku, CreateProduct, Expire, PublishEvent, DeliverEvent, RedeliverEvent,
              TakeEvent, LookUpProduct, Settle, HandlerThrows, RequestView, ComposeView,
              GeneratePredicate, Restart, dppVars
<1>2. CASE UNCHANGED vars
  BY <1>2 DEF vars, dppVars
<1>3. CASE Next
  BY <1>1, <1>3, Zenon DEF Next
<1> QED
  BY <1>2, <1>3

\* No row is changed or deleted.
LEMMA RowsStay ==
  ASSUME BusInv, TableInv, HandlerInv, [Next]_vars
  PROVE  /\ DOMAIN verified \subseteq DOMAIN verified'
         /\ \A i \in DOMAIN verified : verified'[i] = verified[i]
         /\ \A e : RowsOf(e) # {} => RowsOf(e)' # {}
<1>1. /\ DOMAIN verified \subseteq DOMAIN verified'
      /\ \A i \in DOMAIN verified : verified'[i] = verified[i]
  <2>1. CASE UNCHANGED verified
    BY <2>1
  <2>2. CASE \E row \in Row : verified' = Append(verified, row)
    BY <2>2, RowAppended DEF TableInv
  <2> QED
    BY <2>1, <2>2, NoRowWritten, RowSteps
<1>2. ASSUME NEW e, RowsOf(e) # {}
      PROVE  RowsOf(e)' # {}
  <2>1. PICK i \in DOMAIN verified : verified[i].receipt = e /\ ~verified[i].byHand
    BY <1>2 DEF RowsOf
  <2>2. i \in DOMAIN verified' /\ verified'[i].receipt = e /\ ~verified'[i].byHand
    BY <1>1, <2>1
  <2> QED
    BY <2>2 DEF RowsOf
<1> QED
  BY <1>1, <1>2

\* The steps that touch the tables otherwise.
LEMMA OffTheTables ==
  ASSUME [Next]_vars
  PROVE  \/ \E x \in Products : CheckSku(x) \/ CreateProduct(x)
         \/ \E x \in Products, p \in Predicates, r \in Receipts : PostVerification(x, p, r)
         \/ \E i \in DOMAIN verified : Expire(i)
         \/ LookUpProduct \/ RecordVerification \/ HandlerThrows \/ Restart
         \/ UNCHANGED <<products, creating, verified, expired, unmatched, faults>>
<1>1. ASSUME NEW x, NEW e, NEW token, NEW level,
             \/ PublishEvent(e) \/ DeliverEvent \/ RedeliverEvent \/ TakeEvent \/ Settle
             \/ RequestView(token, level, x) \/ ComposeView \/ GeneratePredicate
      PROVE  UNCHANGED <<products, creating, verified, expired, unmatched, faults>>
  BY <1>1 DEF PublishEvent, DeliverEvent, RedeliverEvent, TakeEvent, Settle, RequestView,
              ComposeView, GeneratePredicate, dppVars
<1>2. CASE UNCHANGED vars
  BY <1>2 DEF vars, dppVars
<1>3. CASE Next
  BY <1>1, <1>3, Zenon DEF Next
<1> QED
  BY <1>2, <1>3

LEMMA TableInductive ==
  ASSUME BusInv, TableInv, HandlerInv, [Next]_vars
  PROVE  TableInv' /\ products \subseteq products' /\ unmatched \subseteq unmatched'
<1> USE DppNames
<1>1. ASSUME NEW x \in Products, CheckSku(x) \/ CreateProduct(x)
      PROVE  TableInv' /\ products \subseteq products' /\ unmatched \subseteq unmatched'
  <2>1. /\ UNCHANGED <<verified, expired, unmatched, faults>>
        /\ creating' \in [Products -> {"none", "checked", "created", "refused", "failed"}]
        /\ products \subseteq products' /\ products' \subseteq Products
        /\ \A y \in Products : creating'[y] = "created" => y \in products'
    BY <1>1 DEF CheckSku, CreateProduct, InsertAnswer, TableInv
  <2> QED
    BY <2>1 DEF TableInv
<1>2. ASSUME RecordVerification
               \/ \E x \in Products, p \in Predicates, r \in Receipts : PostVerification(x, p, r)
      PROVE  TableInv' /\ products \subseteq products' /\ unmatched \subseteq unmatched'
  <2>1. PICK row \in Row : verified' = Append(verified, row) /\ row.product \in products
    BY <1>2, RowSteps
  <2>2. UNCHANGED <<products, creating, expired, unmatched, faults>>
    BY <1>2, RowSteps
  <2>3. verified' \in Seq(Row) /\ \A i \in DOMAIN verified' : verified'[i].product \in products
    BY <2>1, RowAppended DEF TableInv
  <2>4. expired \subseteq DOMAIN verified'
    BY <2>1, RowAppended DEF TableInv
  <2> QED
    BY <2>2, <2>3, <2>4 DEF TableInv
<1>3. ASSUME NEW i \in DOMAIN verified, Expire(i)
      PROVE  TableInv' /\ products \subseteq products' /\ unmatched \subseteq unmatched'
  BY <1>3 DEF Expire, TableInv
<1>4. CASE LookUpProduct
  <2>1. inHand[Dpp] \in Events
    BY <1>4, BusFacts DEF LookUpProduct, Held, BusInv
  <2>2. unmatched' \subseteq Events /\ unmatched \subseteq unmatched'
    BY <1>4, <2>1 DEF LookUpProduct, TableInv
  <2>3. UNCHANGED <<products, creating, verified, expired, faults>>
    BY <1>4 DEF LookUpProduct
  <2> QED
    BY <2>2, <2>3 DEF TableInv
<1>5. CASE HandlerThrows
  BY <1>5 DEF HandlerThrows, Fault, TableInv
<1>6. CASE Restart
  <2>1. /\ creating' \in [Products -> {"none", "checked", "created", "refused", "failed"}]
        /\ \A x \in Products : creating'[x] = "created" => x \in products
    BY <1>6 DEF Restart, TableInv
  <2>2. faults' \in 0..MaxFaults /\ UNCHANGED <<products, verified, expired, unmatched>>
    BY <1>6 DEF Restart, Fault, TableInv
  <2> QED
    BY <2>1, <2>2 DEF TableInv
<1>7. CASE UNCHANGED <<products, creating, verified, expired, unmatched, faults>>
  BY <1>7 DEF TableInv
<1> QED
  BY <1>1, <1>2, <1>3, <1>4, <1>5, <1>6, <1>7, OffTheTables

-----------------------------------------------------------------------------
(* The handler                                                             *)

\* The steps that leave the handler and its acks alone.
LEMMA OffTheHandler ==
  ASSUME [Next]_vars
  PROVE  \/ TakeEvent \/ LookUpProduct \/ RecordVerification
         \/ Settle \/ HandlerThrows \/ Restart
         \/ UNCHANGED <<inHand, acked, matched, handlerDone>>
<1>1. ASSUME NEW x, NEW p, NEW r, NEW i, NEW e, NEW token, NEW level,
             \/ CheckSku(x) \/ CreateProduct(x) \/ PostVerification(x, p, r) \/ Expire(i)
             \/ PublishEvent(e) \/ DeliverEvent \/ RedeliverEvent
             \/ RequestView(token, level, x) \/ ComposeView \/ GeneratePredicate
      PROVE  UNCHANGED <<inHand, acked, matched, handlerDone>>
  BY <1>1 DEF CheckSku, CreateProduct, PostVerification, Expire, PublishEvent, Publish,
              DeliverEvent, Deliver, RedeliverEvent, Redeliver, RequestView, ComposeView,
              GeneratePredicate, busVars, dppVars
<1>2. CASE UNCHANGED vars
  BY <1>2 DEF vars, busVars, dppVars
<1>3. CASE Next
  BY <1>1, <1>3, Zenon DEF Next
<1> QED
  BY <1>2, <1>3

LEMMA HandlerInductive ==
  ASSUME BusInv, TableInv, HandlerInv, NothingElseUnrecorded, [Next]_vars
  PROVE  HandlerInv' /\ NothingElseUnrecorded'
<1> USE DppNames
<1>1. /\ products \subseteq products' /\ unmatched \subseteq unmatched'
      /\ \A e : RowsOf(e) # {} => RowsOf(e)' # {}
  BY TableInductive, RowsStay
<1>2. ASSUME UNCHANGED acked
      PROVE  NothingElseUnrecorded'
  BY <1>1, <1>2 DEF NothingElseUnrecorded
<1>3. CASE UNCHANGED <<inHand, acked, matched, handlerDone>>
  BY <1>1, <1>2, <1>3 DEF HandlerInv, Held
<1>4. CASE TakeEvent
  <2>1. ~Held /\ UNCHANGED acked
    BY <1>4, TakeFacts DEF BusInv
  <2>2. UNCHANGED <<matched, handlerDone>>
    BY <1>4 DEF TakeEvent, dppVars
  <2> QED
    BY <1>2, <2>1, <2>2 DEF HandlerInv
<1>5. CASE LookUpProduct
  <2>1. /\ Held /\ ~matched /\ ~handlerDone /\ UNCHANGED <<inHand, acked, products>>
        /\ matched' = (ProductOf[inHand[Dpp]] \in products)
        /\ handlerDone' = ~(ProductOf[inHand[Dpp]] \in products)
        /\ ProductOf[inHand[Dpp]] \notin products => inHand[Dpp] \in unmatched'
    BY <1>5 DEF LookUpProduct, Held, busVars
  <2>2. HandlerInv'
    BY <2>1 DEF HandlerInv, Held
  <2> QED
    BY <1>2, <2>1, <2>2
<1>6. CASE RecordVerification
  <2>1. PICK row \in Row : verified' = Append(verified, row) /\ (PostedRow(row) \/ RecordedRow(row))
    BY <1>6, RowSteps
  <2>2. RecordedRow(row)
    BY <1>6, <2>1 DEF RecordVerification, PostedRow, HandlerInv
  <2>3. Held' /\ inHand' = inHand /\ acked' = acked /\ matched' = FALSE /\ handlerDone' = TRUE
    BY <2>2 DEF RecordedRow, Held, busVars
  <2>4. RowsOf(inHand[Dpp])' # {}
    <3>1. /\ Len(verified) + 1 \in DOMAIN verified'
          /\ verified'[Len(verified) + 1].receipt = inHand[Dpp]
          /\ ~verified'[Len(verified) + 1].byHand
      BY <2>1, <2>2, RowAppended DEF RecordedRow, TableInv
    <3> QED
      BY <2>3, <3>1 DEF RowsOf
  <2> QED
    BY <1>2, <2>3, <2>4 DEF HandlerInv
<1>7. CASE Settle
  <2>1. /\ handlerDone /\ UNCHANGED <<verified, unmatched, matched>> /\ handlerDone' = FALSE
        /\ acked' = [acked EXCEPT ![Dpp] = @ \cup {inHand[Dpp]}]
    BY <1>7 DEF Settle, Ack
  <2>2. acked'[Dpp] = acked[Dpp] \cup {inHand[Dpp]}
    BY <2>1 DEF BusInv, BusTypeOK
  <2>3. NothingElseUnrecorded'
    BY <1>1, <2>1, <2>2 DEF NothingElseUnrecorded, HandlerInv
  <2>4. ~matched
    BY <2>1 DEF HandlerInv
  <2> QED
    BY <2>1, <2>3, <2>4 DEF HandlerInv
<1>8. CASE HandlerThrows \/ Restart
  <2>1. UNCHANGED acked /\ matched' = FALSE /\ handlerDone' = FALSE
    BY <1>8 DEF HandlerThrows, Restart, Nak, Reconnect
  <2> QED
    BY <1>2, <2>1 DEF HandlerInv
<1> QED
  BY <1>3, <1>4, <1>5, <1>6, <1>7, <1>8, OffTheHandler

-----------------------------------------------------------------------------
(* The order of the rows                                                   *)

\* More is published, sent, sent again or taken, and no row is written.
LEMMA OrderWhenNoRow ==
  ASSUME BusInv, TableInv, HandlerInv, OrderInv, [Next]_vars, UNCHANGED verified
  PROVE  OrderInv'
<1> USE DppNames DEF BusInv
<1>1. /\ redelivered[Dpp] \subseteq redelivered'[Dpp]
      /\ UNCHANGED stream \/ \E e \in Events : stream' = Append(stream, e)
      /\ \A e : WasSent(e) => WasSent(e)'
  <2>1. ASSUME NEW e \in Events, PublishEvent(e)
        PROVE  /\ stream' = Append(stream, e) /\ UNCHANGED <<sent, redelivered>>
               /\ \A k \in 1..sent[Dpp] : stream'[k] = stream[k]
    BY <2>1, BusFacts DEF PublishEvent, Publish
  <2>2. CASE DeliverEvent
    BY <2>2, BusFacts, DeliverFacts DEF WasSent
  <2>3. CASE RedeliverEvent
    BY <2>3, RedeliverFacts DEF WasSent
  <2>4. CASE TakeEvent
    BY <2>4, TakeFacts DEF WasSent
  <2>5. CASE Settle \/ HandlerThrows \/ Restart
    BY <2>5, ReleaseFacts DEF WasSent, HandlerInv
  <2>6. CASE UNCHANGED busVars
    BY <2>6 DEF busVars, WasSent
  <2>7. CASE \E e \in Events : PublishEvent(e)
    BY <2>1, <2>7 DEF WasSent
  <2> QED
    BY <2>2, <2>3, <2>4, <2>5, <2>6, <2>7, OffTheBus
<1>2. \A e, f : Follows(e, f) => Follows(e, f)'
  BY <1>1, FollowsStays
<1>3. RowsSent' /\ RowsInOrder'
  BY <1>1, <1>2 DEF OrderInv, RowsSent, RowsInOrder, FromEvent
<1>4. RowsFirst'
  <2> SUFFICES ASSUME NEW i \in DOMAIN verified, FromEvent(i), NEW r, r = verified[i].receipt
               PROVE  /\ Held' /\ ~handlerDone' => Follows(inHand[Dpp], r)'
                      /\ \A m \in 1..Len(Line') : Follows(Line[m], r)'
    BY DEF RowsFirst, FromEvent
  <2>1. /\ Held /\ ~handlerDone => Follows(inHand[Dpp], r)
        /\ \A m \in 1..Len(Line) : Follows(Line[m], r)
        /\ WasSent(r)
    BY DEF OrderInv, RowsSent, RowsFirst
  <2>2. ASSUME UNCHANGED inHand, handlerDone => handlerDone'
        PROVE  Held' /\ ~handlerDone' => Follows(inHand[Dpp], r)'
    BY <1>2, <2>1, <2>2 DEF Held
  <2>3. ASSUME UNCHANGED <<inHand, buffer>>, handlerDone => handlerDone'
        PROVE  /\ Held' /\ ~handlerDone' => Follows(inHand[Dpp], r)'
               /\ \A m \in 1..Len(Line') : Follows(Line[m], r)'
    BY <1>2, <2>1, <2>2, <2>3 DEF Line
  <2>4. CASE \E e \in Events : PublishEvent(e)
    BY <2>3, <2>4 DEF PublishEvent, Publish, dppVars
  <2>5. CASE DeliverEvent
    <3>1. PICK n \in 1..Len(stream) :
            /\ n = sent[Dpp] + 1 /\ Fetch(Dpp, stream[n]) /\ stream[n] \in Events
            /\ UNCHANGED inHand
      BY <2>5, DeliverFacts
    <3>2. UNCHANGED handlerDone
      BY <2>5 DEF DeliverEvent, dppVars
    <3>3. Follows(stream[n], r)
      BY <2>1, <3>1, NewestFollows
    <3>4. \A m \in 1..Len(Line') : \/ m \in 1..Len(Line) /\ Line'[m] = Line[m]
                                   \/ Line'[m] = stream[n]
      BY <3>1, Fetched, BusFacts
    <3>5. \A m \in 1..Len(Line') : Follows(Line[m], r)'
      BY <1>2, <2>1, <3>3, <3>4
    <3> QED
      BY <2>2, <3>1, <3>2, <3>5
  <2>6. CASE RedeliverEvent
    <3>1. PICK e \in Events :
            /\ Fetch(Dpp, e) /\ e \in redelivered'[Dpp] /\ UNCHANGED inHand
      BY <2>6, RedeliverFacts
    <3>2. UNCHANGED handlerDone
      BY <2>6 DEF RedeliverEvent, dppVars
    <3>3. \A m \in 1..Len(Line') : \/ m \in 1..Len(Line) /\ Line'[m] = Line[m]
                                   \/ Line'[m] = e
      BY <3>1, Fetched, BusFacts
    <3>4. Follows(e, r)'
      BY <3>1 DEF Follows
    <3>5. \A m \in 1..Len(Line') : Follows(Line[m], r)'
      BY <1>2, <2>1, <3>3, <3>4
    <3> QED
      BY <2>2, <3>1, <3>2, <3>5
  <2>7. CASE TakeEvent
    <3>1. /\ Len(Line) >= 1 /\ inHand'[Dpp] = Line[1] /\ Len(Line') = Len(Line) - 1
          /\ \A m \in 1..Len(Line') : Line'[m] = Line[m + 1]
      BY <2>7, TakeFacts
    <3>2. 1 \in 1..Len(Line) /\ \A m \in 1..Len(Line') : m + 1 \in 1..Len(Line)
      BY <3>1, BusFacts
    <3> QED
      BY <1>2, <2>1, <3>1, <3>2
  <2>8. CASE Settle \/ HandlerThrows \/ Restart
    <3>1. ~Held' /\ (Line' = Line \/ Len(Line') = 0)
      BY <2>8, ReleaseFacts DEF HandlerInv
    <3> QED
      BY <1>2, <2>1, <3>1
  <2>9. CASE UNCHANGED busVars
    <3>1. UNCHANGED <<inHand, buffer>>
      BY <2>9 DEF busVars
    <3>2. CASE LookUpProduct \/ RecordVerification \/ UNCHANGED <<inHand, acked, matched, handlerDone>>
      BY <2>3, <3>1, <3>2 DEF LookUpProduct, RecordVerification
    <3> QED
      BY <2>7, <2>8, <3>2, OffTheHandler
  <2> QED
    BY <2>4, <2>5, <2>6, <2>7, <2>8, <2>9, OffTheBus
<1> QED
  BY <1>3, <1>4 DEF OrderInv

\* A row is written: a posted one is of no event that was sent, and a recorded one is of
\* the event in hand, which follows the rows that are there and is followed by what waits.
LEMMA OrderWhenRowWritten ==
  ASSUME BusInv, TableInv, HandlerInv, OrderInv,
         NEW row \in Row, verified' = Append(verified, row),
         PostedRow(row) \/ RecordedRow(row)
  PROVE  OrderInv'
<1> DEFINE n == Len(verified) + 1
<1>1. /\ n \in DOMAIN verified' /\ verified'[n] = row
      /\ \A i \in DOMAIN verified : verified'[i] = verified[i] /\ i < n
      /\ \A i \in DOMAIN verified' : i \in DOMAIN verified \/ i = n
      /\ DOMAIN verified' \subseteq Nat
  BY RowAppended DEF TableInv
<1>2. UNCHANGED <<stream, sent, buffer, inHand, redelivered>>
  BY DEF PostedRow, RecordedRow, busVars
<1>3. /\ \A e, f : Follows(e, f) => Follows(e, f)'
      /\ \A e : WasSent(e) => WasSent(e)'
  BY <1>2 DEF Follows, WasSent
<1>4. \/ row.byHand /\ UNCHANGED handlerDone
      \/ /\ row.receipt = inHand[Dpp] /\ Held /\ ~handlerDone /\ handlerDone'
         /\ ~row.byHand
  BY DEF PostedRow, RecordedRow, HandlerInv
<1> HIDE DEF n
<1>5. \A i \in DOMAIN verified' :
        FromEvent(i)' => \/ i \in DOMAIN verified /\ FromEvent(i) /\ verified'[i] = verified[i]
                         \/ /\ i = n /\ verified'[i].receipt = inHand[Dpp]
                            /\ Held /\ ~handlerDone /\ handlerDone'
  BY <1>1, <1>4 DEF FromEvent
<1>6. RowsSent'
  BY <1>3, <1>5 DEF OrderInv, RowsSent, BusInv, CopiesSent
<1>7. RowsInOrder'
  <2> SUFFICES ASSUME NEW i \in DOMAIN verified', NEW j \in DOMAIN verified', j < i,
                      FromEvent(i)', FromEvent(j)'
               PROVE  Follows(verified[i].receipt, verified[j].receipt)'
    BY DEF RowsInOrder
  <2>1. j # n
    <3>1. i = n \/ i < n
      BY <1>1
    <3> QED
      BY <1>1, <3>1
  <2>2. j \in DOMAIN verified /\ FromEvent(j) /\ verified'[j] = verified[j]
    BY <1>5, <2>1
  <2>3. CASE i \in DOMAIN verified /\ FromEvent(i) /\ verified'[i] = verified[i]
    BY <1>3, <2>2, <2>3 DEF OrderInv, RowsInOrder
  <2>4. CASE verified'[i].receipt = inHand[Dpp] /\ Held /\ ~handlerDone
    <3>1. Follows(inHand[Dpp], verified[j].receipt)
      BY <2>2, <2>4 DEF OrderInv, RowsFirst
    <3> QED
      BY <1>3, <2>2, <2>4, <3>1
  <2> QED
    BY <1>5, <2>3, <2>4
<1>8. RowsFirst'
  <2> SUFFICES ASSUME NEW i \in DOMAIN verified', FromEvent(i)'
               PROVE  /\ Held' /\ ~handlerDone' => Follows(inHand[Dpp], verified[i].receipt)'
                      /\ \A m \in 1..Len(Line') : Follows(Line[m], verified[i].receipt)'
    BY DEF RowsFirst
  <2>1. Line' = Line /\ inHand' = inHand /\ (handlerDone => handlerDone') /\ (Held' <=> Held)
    BY <1>2, <1>4 DEF Line, Held
  <2>2. CASE i \in DOMAIN verified /\ FromEvent(i) /\ verified'[i] = verified[i]
    BY <1>3, <2>1, <2>2 DEF OrderInv, RowsFirst
  <2>3. CASE verified'[i].receipt = inHand[Dpp] /\ Held /\ handlerDone'
    BY <1>3, <2>1, <2>3 DEF BusInv, LineInOrder
  <2> QED
    BY <1>5, <2>2, <2>3
<1> QED
  BY <1>6, <1>7, <1>8 DEF OrderInv

LEMMA OrderInductive ==
  ASSUME BusInv, TableInv, HandlerInv, OrderInv, [Next]_vars
  PROVE  OrderInv'
BY OrderWhenNoRow, OrderWhenRowWritten, RowSteps, NoRowWritten

-----------------------------------------------------------------------------
(* The registry and the views                                              *)

LEMMA OffTheRegistry ==
  ASSUME [Next]_vars
  PROVE  \/ ComposeView \/ GeneratePredicate \/ Restart
         \/ UNCHANGED <<registryVars, granted>>
<1>1. ASSUME NEW x, NEW p, NEW r, NEW i, NEW e, NEW token, NEW level,
             \/ CheckSku(x) \/ CreateProduct(x) \/ PostVerification(x, p, r) \/ Expire(i)
             \/ PublishEvent(e) \/ DeliverEvent \/ RedeliverEvent \/ TakeEvent
             \/ LookUpProduct \/ RecordVerification \/ Settle \/ HandlerThrows
             \/ RequestView(token, level, x)
      PROVE  UNCHANGED <<registryVars, granted>>
  BY <1>1 DEF CheckSku, CreateProduct, PostVerification, Expire, PublishEvent, DeliverEvent,
              RedeliverEvent, TakeEvent, LookUpProduct, RecordVerification, Settle,
              HandlerThrows, RequestView, dppVars
<1>2. CASE UNCHANGED vars
  BY <1>2 DEF vars, dppVars
<1>3. CASE Next
  BY <1>1, <1>3, Zenon DEF Next
<1> QED
  BY <1>2, <1>3

LEMMA RegistryInductive ==
  ASSUME RegistryInv, [Next]_vars
  PROVE  RegistryInv'
<1> USE RegistryAssumption DEF RegistryInv, RegistryTypeOK
<1>1. CASE UNCHANGED <<registryVars, granted>>
  BY <1>1 DEF registryVars
<1>2. CASE ComposeView
  <2>1. CASE LoadRegistry /\ UNCHANGED granted
    BY <2>1 DEF LoadRegistry, Registry
  <2> QED
    BY <1>1, <1>2, <2>1 DEF ComposeView
<1>3. CASE GeneratePredicate
  <2>1. granted' = granted \cup {p \in Predicates : "LEGIT_INTEREST" \in registry'[p]}
    BY <1>3 DEF GeneratePredicate
  <2>2. ASSUME NEW config \in Configs, WriteCircuitFiles(config)
        PROVE  RegistryInv'
    <3>1. /\ circuits' = circuits \cup {config.predicate} /\ generating' = {config}
          /\ runs' = runs + 1 /\ runs < MaxRuns
          /\ UNCHANGED <<registry, loaded, cached>>
      BY <2>2 DEF WriteCircuitFiles
    <3>2. config.predicate \in Predicates
      OBVIOUS
    <3> QED
      BY <2>1, <3>1, <3>2
  <2>3. CASE UpdateRegistry
    <3>1. PICK config \in generating :
            registry' = [registry EXCEPT ![config.predicate] = config.groups]
      BY <2>3 DEF UpdateRegistry
    <3>2. /\ config.predicate \in circuits /\ config.groups \in SUBSET AccessGroups
          /\ generating' = {} /\ UNCHANGED <<circuits, runs, loaded, cached>>
      BY <2>3, <3>1 DEF UpdateRegistry
    <3>3. /\ registry' \in [Predicates -> SUBSET AccessGroups]
          /\ \A p \in Predicates : registry'[p] = registry[p] \/ p = config.predicate
      BY <3>1, <3>2
    <3> QED
      BY <2>1, <3>2, <3>3
  <2>4. CASE GeneratorStops
    BY <2>1, <2>4 DEF GeneratorStops
  <2> QED
    BY <1>3, <2>2, <2>3, <2>4 DEF GeneratePredicate
<1>4. CASE Restart
  <2>1. /\ loaded' = FALSE /\ cached' = [p \in Predicates |-> {}]
        /\ granted' = LegitInFile
        /\ UNCHANGED <<circuits, registry, generating, runs>>
    BY <1>4 DEF Restart, ForgetRegistry
  <2>2. cached' \in [Predicates -> SUBSET AccessGroups]
    BY <2>1
  <2> QED
    BY <2>1, <2>2 DEF LegitInFile
<1> QED
  BY <1>1, <1>2, <1>3, <1>4, OffTheRegistry

LEMMA OffTheViews ==
  ASSUME [Next]_vars
  PROVE  \/ \E token \in Tokens, level \in Levels, x \in Products : RequestView(token, level, x)
         \/ view' = NoView
         \/ view' = view
<1>1. ASSUME NEW x, NEW p, NEW r, NEW i, NEW e,
             \/ CheckSku(x) \/ CreateProduct(x) \/ PostVerification(x, p, r) \/ Expire(i)
             \/ PublishEvent(e) \/ DeliverEvent \/ RedeliverEvent \/ TakeEvent
             \/ LookUpProduct \/ RecordVerification \/ Settle \/ HandlerThrows
             \/ GeneratePredicate
      PROVE  view' = view
  BY <1>1 DEF CheckSku, CreateProduct, PostVerification, Expire, PublishEvent, DeliverEvent,
              RedeliverEvent, TakeEvent, LookUpProduct, RecordVerification, Settle,
              HandlerThrows, GeneratePredicate, dppVars
<1>2. ASSUME ComposeView \/ Restart
      PROVE  view' = NoView
  BY <1>2 DEF ComposeView, Restart
<1>3. CASE UNCHANGED vars
  BY <1>3 DEF vars, dppVars
<1>4. CASE Next
  BY <1>1, <1>2, <1>4, Zenon DEF Next
<1> QED
  BY <1>3, <1>4

LEMMA ViewInductive ==
  ASSUME BusInv, TableInv, HandlerInv, ViewInv, [Next]_vars
  PROVE  ViewInv'
<1>1. DOMAIN verified \subseteq DOMAIN verified'
  BY RowsStay
<1>2. ASSUME NEW token \in Tokens, NEW level \in Levels, NEW x \in Products,
             RequestView(token, level, x)
      PROVE  ViewInv'
  <2>1. /\ view'.user = OptionalAuth(token) /\ view'.level = level
        /\ view'.rows \subseteq DOMAIN verified
        /\ RequireDppViewAccess(OptionalAuth(token), level)
    BY <1>2 DEF RequestView
  <2> QED
    BY <1>1, <2>1 DEF ViewInv
<1>3. CASE view' = NoView
  BY <1>3 DEF ViewInv, NoView, Levels
<1>4. CASE view' = view
  BY <1>1, <1>4 DEF ViewInv
<1> QED
  BY <1>2, <1>3, <1>4, OffTheViews

\* The hierarchy adds no role to those of the two guarded views but an authority's.
LEMMA RolesOfViews ==
  ASSUME NEW user, NEW level \in Levels, level # "PUBLIC", RequireDppViewAccess(user, level)
  PROVE  /\ level = "LEGIT_INTEREST" => user.roles \cap {"auditor", "brand", "authority"} # {}
         /\ level = "AUTHORITY" => "authority" \in user.roles
<1>1. level = "LEGIT_INTEREST" \/ level = "AUTHORITY"
  BY DEF Levels
<1>2. GetEffectiveRoles(user.roles) \cap DppViewRoles(level) # {}
  BY <1>1 DEF RequireDppViewAccess, HasAnyRole, DppViewRoles
<1>3. PICK role \in DppViewRoles(level) : role \in GetEffectiveRoles(user.roles)
  BY <1>2
<1>4. role \in user.roles \/ \E r \in user.roles : role \in RoleHierarchy(r)
  BY <1>3 DEF GetEffectiveRoles
<1>5. role \in user.roles \/ ("authority" \in user.roles /\ role \in {"auditor", "brand"})
  BY <1>4 DEF RoleHierarchy
<1>6. CASE level = "LEGIT_INTEREST"
  BY <1>3, <1>5, <1>6 DEF DppViewRoles
<1>7. CASE level = "AUTHORITY"
  BY <1>3, <1>5, <1>7 DEF DppViewRoles
<1> QED
  BY <1>1, <1>6, <1>7

-----------------------------------------------------------------------------
(* The theorems                                                            *)

LEMMA DppInvInitially == Init => DppInv
<1> SUFFICES ASSUME Init PROVE DppInv
  OBVIOUS
<1> USE DppNames DEF Init
<1>1. BusInv
  <2>1. stream \in Seq(Events) /\ Len(stream) = 0
    BY DEF BusInit
  <2>2. sent \in [Consumers -> 0..Len(stream)]
    BY <2>1 DEF BusInit
  <2>3. /\ buffer \in [Consumers -> Seq(Events)] /\ Line = <<>> /\ Len(Line) = 0
        /\ ~Held /\ acked[Dpp] = {}
    BY DEF BusInit, Line, Held
  <2>4. BusTypeOK
    BY <2>1, <2>2, <2>3 DEF BusInit, BusTypeOK
  <2> QED
    BY <2>1, <2>3, <2>4
    DEF BusInv, PublishedOnce, CopiesSent, LineInOrder, LateCopyRepeated
<1>2. TableInv
  <2>1. verified \in Seq(Row)
    <3> HIDE DEF Row
    <3> QED
      OBVIOUS
  <2> QED
    BY <2>1 DEF TableInv
<1>3. HandlerInv /\ NothingElseUnrecorded
  BY DEF BusInit, HandlerInv, NothingElseUnrecorded
<1>4. OrderInv
  BY DEF OrderInv, RowsSent, RowsInOrder, RowsFirst
<1>5. RegistryInv
  <2>1. cached \in [Predicates -> SUBSET AccessGroups]
    BY DEF RegistryInit
  <2>2. RegistryTypeOK
    <3>1. registry \in [Predicates -> SUBSET AccessGroups] /\ runs \in 0..MaxRuns
      BY RegistryAssumption DEF RegistryInit
    <3>2. /\ circuits \subseteq Predicates /\ generating \subseteq Configs /\ loaded \in BOOLEAN
          /\ \A p \in Predicates : registry[p] # {} => p \in circuits
      BY DEF RegistryInit
    <3> QED
      BY <2>1, <3>1, <3>2 DEF RegistryTypeOK
  <2>3. granted = {p \in Predicates : "LEGIT_INTEREST" \in registry[p]} /\ ~loaded /\ generating = {}
    BY DEF RegistryInit, LegitInFile
  <2> QED
    BY <2>2, <2>3 DEF RegistryInv
<1>6. ViewInv
  BY DEF ViewInv, NoView, Levels
<1> QED
  BY <1>1, <1>2, <1>3, <1>4, <1>5, <1>6 DEF DppInv

LEMMA DppInvStep == DppInv /\ [Next]_vars => DppInv'
<1> SUFFICES ASSUME DppInv, [Next]_vars PROVE DppInv'
  OBVIOUS
<1>1. BusInv'
  BY BusInductive DEF DppInv, HandlerInv
<1>2. TableInv' /\ HandlerInv' /\ NothingElseUnrecorded'
  BY TableInductive, HandlerInductive DEF DppInv
<1>3. OrderInv' /\ RegistryInv' /\ ViewInv'
  BY OrderInductive, RegistryInductive, ViewInductive DEF DppInv
<1> QED
  BY <1>1, <1>2, <1>3 DEF DppInv

\* The invariant holds in every state of the DPP builder.
THEOREM DppInvariant == Spec => []DppInv
<1> QED
  BY DppInvInitially, DppInvStep, PTL DEF Spec

\* The tables, the bus and the registry keep their types: whoever was told that a
\* product was created finds it, every row belongs to a product, a view refers to rows
\* that exist, and every entry of predicates.json has its circuit.
THEOREM DppTypeCorrect == Spec => []TypeOK
<1>1. DppInv => TypeOK
  <2> SUFFICES ASSUME DppInv PROVE TypeOK
    OBVIOUS
  <2>1. \A i \in DOMAIN verified : verified[i] \in Row
    <3> HIDE DEF Row
    <3> QED
      BY DEF DppInv, TableInv
  <2>2. \A i \in DOMAIN verified :
          /\ verified[i].predicate \in Predicates
          /\ verified[i].receipt \in Events \cup Receipts /\ verified[i].byHand \in BOOLEAN
    BY <2>1 DEF Row
  <2> QED
    BY <2>2 DEF DppInv, BusInv, TableInv, HandlerInv, RegistryInv, ViewInv, TypeOK
<1> QED
  BY <1>1, DppInvariant, PTL

\* An event that is acknowledged is in the passport or its product did not exist when
\* it was handled: neither restarts, failed inserts, lost acks nor redeliveries lose one.
THEOREM DppNothingElseUnrecorded == Spec => []NothingElseUnrecorded
<1>1. DppInv => NothingElseUnrecorded
  BY DEF DppInv
<1> QED
  BY <1>1, DppInvariant, PTL

\* What a passport shows for a predicate is its newest verification among the rows read,
\* unless the bus delivered the older one again: verified_at orders rows as the stream
\* does.
THEOREM DppNewestShown == Spec => []NewestShownUnlessRedelivered
<1>1. DppInv => NewestShownUnlessRedelivered
  <2> SUFFICES ASSUME DppInv, NEW i \in Shown, NEW j \in view.rows,
                      ~verified[i].byHand, ~verified[j].byHand,
                      verified[i].predicate = verified[j].predicate,
                      NEW k \in DOMAIN stream, NEW l \in DOMAIN stream, k < l,
                      stream[k] = verified[i].receipt, stream[l] = verified[j].receipt
               PROVE  verified[i].receipt \in redelivered[Dpp]
    BY DEF NewestShownUnlessRedelivered
  <2>1. PICK p \in Predicates : i \in NewestOf(view.rows, p)
    BY DEF Shown
  <2>2. i \in view.rows /\ j <= i
    BY <2>1 DEF NewestOf
  <2>3. FromEvent(i) /\ FromEvent(j) /\ i \in DOMAIN verified /\ j \in DOMAIN verified
    BY <2>2 DEF DppInv, ViewInv, FromEvent
  <2>4. /\ k \in 1..Len(stream) /\ l \in 1..Len(stream) /\ Len(stream) \in Nat
        /\ PublishedOnce
    BY BusFacts DEF DppInv, BusInv
  <2>5. j < i
    <3>1. i # j
      BY <2>4 DEF PublishedOnce
    <3>2. i \in Nat /\ j \in Nat
      <4> HIDE DEF Row
      <4> QED
        BY <2>3 DEF DppInv, TableInv
    <3> QED
      BY <2>2, <3>1, <3>2
  <2>6. Follows(verified[i].receipt, verified[j].receipt)
    BY <2>3, <2>5 DEF DppInv, OrderInv, RowsInOrder
  <2> QED
    BY <2>4, <2>6 DEF Follows, PublishedOnce
<1> QED
  BY <1>1, DppInvariant, PTL

\* Nobody is shown more than the roles of a token that verified allow, nor at the
\* legitimate-interest level a predicate that was in no such group while the process
\* ran: the cached registry is stale, but only in what it once allowed.
THEOREM DppViewWithinRights == Spec => []ViewWithinRights
<1>1. DppInv => ViewWithinRights
  <2> SUFFICES ASSUME DppInv PROVE ViewWithinRights
    OBVIOUS
  <2>1. view.level # "PUBLIC" =>
          /\ view.level = "LEGIT_INTEREST"
               => view.user.roles \cap (LegitByDocs \cup LegitByCode) # {}
          /\ view.level = "AUTHORITY" => "authority" \in view.user.roles
    BY RolesOfViews DEF DppInv, ViewInv, LegitByDocs, LegitByCode
  <2>2. ASSUME view.level = "LEGIT_INTEREST", NEW i \in Shown
        PROVE  verified[i].predicate \in granted
    <3>1. PICK p \in Predicates : ShowAt(view.level, p) /\ i \in NewestOf(view.rows, p)
      BY DEF Shown
    <3>2. verified[i].predicate = p /\ "LEGIT_INTEREST" \in Registry[p]
      BY <2>2, <3>1 DEF ShowAt, InAccessGroup, NewestOf
    <3> QED
      BY <3>2 DEF DppInv, RegistryInv, Registry
  <2> QED
    BY <2>1, <2>2 DEF ViewWithinRights
<1> QED
  BY <1>1, DppInvariant, PTL

-----------------------------------------------------------------------------
(* At-least-once delivery to the handler                                   *)

\* A row that the handler recorded belongs to the product of its event's binding.
RowsMatch ==
  \A i \in DOMAIN verified :
    FromEvent(i) => verified[i].product = ProductOf[verified[i].receipt]

LEMMA RowsMatchInductive ==
  ASSUME BusInv, TableInv, HandlerInv, RowsMatch, [Next]_vars
  PROVE  RowsMatch'
<1>1. ASSUME NEW row \in Row, verified' = Append(verified, row),
             row.byHand \/ row.product = ProductOf[row.receipt]
      PROVE  RowsMatch'
  BY <1>1, RowAppended DEF RowsMatch, TableInv, FromEvent
<1>2. CASE RecordVerification
  <2> DEFINE e == inHand[Dpp]
             row == [product |-> ProductOf[e], predicate |-> PredicateOf[e], receipt |-> e,
                    byHand |-> FALSE]
  <2>1. e \in Events /\ ProductOf[e] \in products
    BY <1>2, BusFacts DEF RecordVerification, HandlerInv, BusInv
  <2>2. row \in Row /\ row.product = ProductOf[row.receipt]
    BY <2>1, DppAssumption DEF Row, TableInv
  <2>3. verified' = Append(verified, row)
    BY <1>2 DEF RecordVerification, AddRow
  <2> HIDE DEF row
  <2> QED
    BY <1>1, <2>2, <2>3
<1>3. ASSUME NEW x \in Products, NEW p \in Predicates, NEW r \in Receipts,
             PostVerification(x, p, r)
      PROVE  RowsMatch'
  <2> DEFINE row == [product |-> x, predicate |-> p, receipt |-> r, byHand |-> TRUE]
  <2>1. row \in Row /\ row.byHand
    BY DEF Row
  <2>2. verified' = Append(verified, row)
    BY <1>3 DEF PostVerification, AddRow
  <2> HIDE DEF row
  <2> QED
    BY <1>1, <2>1, <2>2
<1>4. CASE UNCHANGED verified
  BY <1>4 DEF RowsMatch, FromEvent
<1> QED
  BY <1>2, <1>3, <1>4, NoRowWritten

\* How many rows an event has, and what one more row does to that.
LEMMA RowsOfCount ==
  ASSUME TableInv, NEW e
  PROVE  /\ IsFiniteSet(RowsOf(e)) /\ Cardinality(RowsOf(e)) \in Nat
         /\ Cardinality(RowsOf(e)) = 0 <=> RowsOf(e) = {}
<1>1. DOMAIN verified = 1..Len(verified) /\ Len(verified) \in Nat
  <2> HIDE DEF Row
  <2> QED
    BY DEF TableInv
<1>2. IsFiniteSet(DOMAIN verified)
  BY <1>1, FS_Interval
<1>3. RowsOf(e) \subseteq DOMAIN verified
  BY DEF RowsOf
<1>4. IsFiniteSet(RowsOf(e))
  BY <1>2, <1>3, FS_Subset
<1> QED
  BY <1>4, FS_EmptySet, FS_CardinalityType

LEMMA RowsOfAdded ==
  ASSUME TableInv, NEW row \in Row, verified' = Append(verified, row)
  PROVE  \A e : Cardinality(RowsOf(e)')
                  = IF e = row.receipt /\ ~row.byHand THEN Cardinality(RowsOf(e)) + 1
                    ELSE Cardinality(RowsOf(e))
<1> DEFINE n == Len(verified) + 1
<1>1. /\ n \in DOMAIN verified' /\ verified'[n] = row
      /\ \A i \in DOMAIN verified :
           i \in DOMAIN verified' /\ verified'[i] = verified[i] /\ i < n
      /\ \A i \in DOMAIN verified' : i \in DOMAIN verified \/ i = n
  BY RowAppended DEF TableInv
<1>2. n \notin DOMAIN verified
  <2> HIDE DEF Row
  <2> QED
    BY DEF TableInv
<1> HIDE DEF n
<1> SUFFICES ASSUME NEW e
             PROVE  Cardinality(RowsOf(e)')
                      = IF e = row.receipt /\ ~row.byHand THEN Cardinality(RowsOf(e)) + 1
                        ELSE Cardinality(RowsOf(e))
  OBVIOUS
<1>3. RowsOf(e)' = IF e = row.receipt /\ ~row.byHand THEN RowsOf(e) \cup {n} ELSE RowsOf(e)
  BY <1>1 DEF RowsOf
<1>4. n \notin RowsOf(e)
  BY <1>2 DEF RowsOf
<1>5. Cardinality(RowsOf(e) \cup {n}) = Cardinality(RowsOf(e)) + 1
  BY <1>4, RowsOfCount, FS_AddElement
<1> QED
  BY <1>3, <1>5

\* The mapping of ImplementsDelivery.
PublishedEvents == {e \in Events : Published(e)}
Results == [e \in Events |-> Cardinality(RowsOf(e))]

LEMMA HeldIsLive ==
  ASSUME BusInv, Held
  PROVE  /\ inHand[Dpp] \in Events /\ Published(inHand[Dpp])
         /\ Delivery!Live(inHand[Dpp])
<1>1. inHand[Dpp] \in Events /\ \A k \in 1..sent[Dpp] : k \in 1..Len(stream)
  BY BusFacts DEF BusInv
<1>2. Published(inHand[Dpp])
  BY <1>1 DEF BusInv, CopiesSent, WasSent, Published
<1> QED
  BY <1>1, <1>2 DEF Delivery!Live, Delivery!Due, BusInv, LateCopyRepeated

LEMMA DppDeliveryStep ==
  ASSUME DppInv, RowsMatch, [Next]_vars
  PROVE  [Delivery!DeliveryNext]_(Delivery!deliveryVars)
<1> USE DEF DppInv
<1> DEFINE e == inHand[Dpp]
<1>1. ASSUME UNCHANGED <<stream, Results, unmatched, acked, redelivered>>
      PROVE  UNCHANGED Delivery!deliveryVars
  BY <1>1 DEF Delivery!deliveryVars, Results, RowsOf, Published
<1>2. ASSUME UNCHANGED verified PROVE UNCHANGED Results
  BY <1>2 DEF Results, RowsOf
<1>3. ASSUME NEW q \in Events, PublishEvent(q)
      PROVE  Delivery!Publish(q)
  <2>1. /\ stream' = Append(stream, q) /\ ~Published(q)
        /\ UNCHANGED <<acked, redelivered, verified, unmatched>>
    BY <1>3 DEF PublishEvent, Publish, dppVars
  <2>2. /\ Len(stream') = Len(stream) + 1 /\ stream'[Len(stream) + 1] = q
        /\ \A i \in 1..Len(stream) : stream'[i] = stream[i]
    BY <2>1, BusFacts DEF BusInv
  <2>3. \A i : i \in 1..Len(stream') <=> i \in 1..Len(stream) \/ i = Len(stream) + 1
    BY <2>2, BusFacts DEF BusInv
  <2>4. \A r \in Events : Published(r)' <=> Published(r) \/ r = q
    BY <2>2, <2>3 DEF Published
  <2>5. PublishedEvents' = PublishedEvents \cup {q} /\ q \notin PublishedEvents
    BY <2>1, <2>4 DEF PublishedEvents
  <2> QED
    BY <1>2, <2>1, <2>5 DEF Delivery!Publish, PublishedEvents, Results, RowsOf
<1>4. CASE LookUpProduct
  <2>1. /\ Held /\ UNCHANGED <<stream, acked, redelivered, verified>>
        /\ unmatched' = IF ProductOf[e] \in products THEN unmatched ELSE unmatched \cup {e}
    BY <1>4 DEF LookUpProduct, Held, busVars
  <2>2. e \in Events /\ Delivery!Live(e)
    BY <2>1, HeldIsLive
  <2>3. CASE ProductOf[e] \in products
    BY <1>1, <1>2, <2>1, <2>3
  <2>4. CASE ProductOf[e] \notin products
    <3>1. RowsOf(e) = {}
      BY <2>2, <2>4 DEF RowsMatch, TableInv, RowsOf, FromEvent
    <3>2. Results[e] = 0 /\ UNCHANGED Results
      BY <1>2, <2>1, <2>2, <3>1, RowsOfCount DEF Results
    <3>3. Delivery!PassOver(e)
      BY <2>1, <2>2, <2>4, <3>2 DEF Delivery!PassOver, Results, RowsOf, Published
    <3> QED
      BY <2>2, <3>3 DEF Delivery!DeliveryNext
  <2> QED
    BY <2>3, <2>4
<1>5. CASE RecordVerification
  <2> DEFINE row == [product |-> ProductOf[e], predicate |-> PredicateOf[e], receipt |-> e,
                    byHand |-> FALSE]
  <2>1. /\ Held /\ ~handlerDone /\ ProductOf[e] \in products
        /\ UNCHANGED <<stream, acked, redelivered, unmatched>>
        /\ verified' = Append(verified, row) /\ row.receipt = e /\ ~row.byHand
    BY <1>5 DEF RecordVerification, AddRow, HandlerInv, busVars
  <2>2. e \in Events /\ Delivery!Live(e)
    BY <2>1, HeldIsLive
  <2>3. row \in Row
    BY <2>1, <2>2, DppAssumption DEF Row, TableInv
  <2> HIDE DEF row
  <2>4. \A q : Cardinality(RowsOf(q)')
                 = IF q = e THEN Cardinality(RowsOf(q)) + 1 ELSE Cardinality(RowsOf(q))
    BY <2>1, <2>3, RowsOfAdded
  <2>5. Results' = [Results EXCEPT ![e] = @ + 1]
    BY <2>2, <2>4 DEF Results
  <2>6. Results[e] = 0 \/ e \in redelivered[Dpp]
    <3>1. ASSUME NEW i \in RowsOf(e) PROVE e \in redelivered[Dpp]
      <4>1. Follows(e, e)
        BY <2>1, <3>1 DEF OrderInv, RowsFirst, RowsOf, FromEvent
      <4> QED
        BY <4>1, FollowsItself
    <3> QED
      BY <2>2, <3>1, RowsOfCount DEF Results
  <2>7. Delivery!Store(e)
    BY <2>1, <2>2, <2>5, <2>6 DEF Delivery!Store, Results, RowsOf, Published
  <2> QED
    BY <2>2, <2>7 DEF Delivery!DeliveryNext
<1>6. ASSUME NEW x \in Products, NEW p \in Predicates, NEW r \in Receipts,
             PostVerification(x, p, r)
      PROVE  UNCHANGED Delivery!deliveryVars
  <2> DEFINE row == [product |-> x, predicate |-> p, receipt |-> r, byHand |-> TRUE]
  <2>1. /\ verified' = Append(verified, row) /\ row.byHand /\ row \in Row
        /\ UNCHANGED <<stream, acked, redelivered, unmatched>>
    BY <1>6 DEF PostVerification, AddRow, busVars, Row
  <2> HIDE DEF row
  <2>2. \A q \in Events : Cardinality(RowsOf(q)') = Cardinality(RowsOf(q))
    BY <2>1, RowsOfAdded
  <2>3. UNCHANGED Results
    BY <2>2 DEF Results
  <2> QED
    BY <1>1, <2>1, <2>3
<1>7. CASE Settle
  <2>1. /\ handlerDone /\ UNCHANGED <<stream, redelivered, verified, unmatched>>
        /\ acked' = [acked EXCEPT ![Dpp] = @ \cup {e}]
    BY <1>7 DEF Settle, Ack, Release
  <2>2. Held /\ (RowsOf(e) # {} \/ e \in unmatched)
    BY <2>1 DEF HandlerInv
  <2>3. e \in Events /\ Delivery!Live(e) /\ Published(e)
    BY <2>2, HeldIsLive
  <2>4. acked'[Dpp] = acked[Dpp] \cup {e}
    BY <2>1, DppNames DEF BusInv, BusTypeOK
  <2>5. Results[e] > 0 \/ e \in unmatched
    BY <2>2, <2>3, RowsOfCount DEF Results
  <2>6. CASE e \notin acked[Dpp]
    <3>1. Delivery!Settle(e)
      BY <1>2, <2>1, <2>3, <2>4, <2>5, <2>6
      DEF Delivery!Settle, Delivery!Due, Results, RowsOf, Published
    <3> QED
      BY <2>3, <3>1 DEF Delivery!DeliveryNext
  <2>7. CASE e \in acked[Dpp]
    <3>1. acked'[Dpp] = acked[Dpp]
      BY <2>4, <2>7
    <3> QED
      BY <1>2, <2>1, <3>1 DEF Delivery!deliveryVars, Results, RowsOf, Published
  <2> QED
    BY <2>6, <2>7
<1>8. CASE RedeliverEvent
  <2>1. PICK q \in Events :
          /\ WasSent(q) /\ q \notin acked[Dpp]
          /\ redelivered'[Dpp] = redelivered[Dpp] \cup {q}
          /\ UNCHANGED <<stream, acked>>
    BY <1>8, RedeliverFacts DEF BusInv
  <2>2. UNCHANGED <<verified, unmatched>>
    BY <1>8 DEF RedeliverEvent, dppVars
  <2>3. Published(q)
    BY <2>1, BusFacts DEF WasSent, Published, BusInv
  <2>4. Delivery!Repeat(q)
    BY <1>2, <2>1, <2>2, <2>3 DEF Delivery!Repeat, Delivery!Due, Results, RowsOf, Published
  <2> QED
    BY <2>4 DEF Delivery!DeliveryNext
<1>9. ASSUME NEW x, NEW i, NEW token, NEW level,
             \/ CheckSku(x) \/ CreateProduct(x) \/ Expire(i) \/ DeliverEvent \/ TakeEvent
             \/ HandlerThrows \/ RequestView(token, level, x) \/ ComposeView
             \/ GeneratePredicate \/ Restart \/ UNCHANGED vars
      PROVE  UNCHANGED <<stream, verified, unmatched, acked, redelivered>>
  BY <1>9 DEF CheckSku, CreateProduct, Expire, DeliverEvent, Deliver, TakeEvent, Take,
              HandlerThrows, Nak, Release, RequestView, ComposeView,
              GeneratePredicate, Restart, Reconnect, vars, busVars, dppVars
<1>10. ASSUME UNCHANGED <<stream, verified, unmatched, acked, redelivered>>
       PROVE  UNCHANGED Delivery!deliveryVars
  BY <1>1, <1>2, <1>10
<1>11. CASE Next
  <2>1. \/ \E q \in Events : PublishEvent(q)
        \/ LookUpProduct \/ RecordVerification \/ Settle \/ RedeliverEvent
        \/ \E x \in Products, p \in Predicates, r \in Receipts : PostVerification(x, p, r)
        \/ UNCHANGED <<stream, verified, unmatched, acked, redelivered>>
    BY <1>9, <1>11, Zenon DEF Next
  <2> QED
    BY <1>3, <1>4, <1>5, <1>6, <1>7, <1>8, <1>10, <2>1 DEF Delivery!DeliveryNext
<1> QED
  BY <1>9, <1>10, <1>11

\* Bus and DPP builder deliver at least once: for any number of events, products,
\* restarts, failed inserts, lost acknowledgements and copies fetched ahead.  Only an
\* event that was sent again before its acknowledgement has a second row or a late one.
THEOREM DppImplementsDelivery == Spec => ImplementsDelivery
<1>1. Init => RowsMatch /\ Delivery!DeliveryInit
  <2> SUFFICES ASSUME Init PROVE RowsMatch /\ Delivery!DeliveryInit
    OBVIOUS
  <2>1. /\ stream = <<>> /\ Len(stream) = 0 /\ acked[Dpp] = {} /\ redelivered[Dpp] = {}
        /\ verified = <<>> /\ unmatched = {}
    BY DppNames DEF Init, BusInit
  <2>2. \A e \in Events : ~Published(e) /\ RowsOf(e) = {}
    BY <2>1 DEF Published, RowsOf
  <2>3. RowsMatch
    BY <2>1 DEF RowsMatch
  <2>4. PublishedEvents = {} /\ Results = [e \in Events |-> 0]
    BY <2>2, FS_EmptySet DEF PublishedEvents, Results
  <2> QED
    BY <2>1, <2>3, <2>4 DEF Delivery!DeliveryInit, PublishedEvents, Results, RowsOf
<1>2. DppInv /\ RowsMatch /\ [Next]_vars => RowsMatch'
  BY RowsMatchInductive DEF DppInv
<1> QED
  BY <1>1, <1>2, DppDeliveryStep, DppInvariant, PTL
  DEF Spec, ImplementsDelivery, Delivery!DeliverySpec

-----------------------------------------------------------------------------
(* The invariant of the edge agent                                         *)

Lists ==
  [claims : [Claims -> {"none", "pending", "verified"}], active : SUBSET Nat,
   docs : SUBSET Documents, key : Nat]

Commands ==
  {"idle", "list", "verify_claim", "delete_claim", "ingest_document", "delete_evidence",
   "extract_claims", "create_commitment", "revoke_commitment", "generate_new_keypair"}

CallType ==
  [cmd : Commands, of : Seq(Claims \cup Documents \cup Nat), to : BOOLEAN,
   phase : {"sent", "working", "answered"}, mine : BOOLEAN, ok : BOOLEAN, got : Lists]

\* What a call is about.
OnClaim(call) == call.cmd \in {"verify_claim", "delete_claim"}
OnDocument(call) == call.cmd \in {"ingest_document", "delete_evidence", "extract_claims"}

CallShape(call) ==
  /\ OnClaim(call) => call.of[1] \in Claims /\ call.of = <<call.of[1]>>
  /\ OnDocument(call) => call.of[1] \in Documents /\ call.of = <<call.of[1]>>
  /\ call.cmd = "create_commitment" => call.of \in Seq(Claims) /\ call.of # <<>>
  /\ call.cmd = "revoke_commitment" => call.of[1] \in Nat /\ call.of = <<call.of[1]>>
  /\ call.cmd = "idle" => call = Idle

CallsTyped ==
  /\ calls \in [Slots -> CallType]
  /\ \A s \in Slots : CallShape(calls[s])

RowsTyped ==
  /\ evidence \subseteq imported /\ imported \subseteq Documents
  /\ claims \in [Claims -> {"unused", "pending", "verified", "deleted"}]
  /\ stamp \in [Claims -> 0..MaxStamp]

ScreenTyped ==
  /\ screen \in Screens \cup {"starting"}
  /\ loading \in BOOLEAN /\ dialog \in BOOLEAN
  /\ shown \in Lists
  /\ selected \in Seq(Claims)

AgentTyped == CallsTyped /\ RowsTyped /\ ScreenTyped

KeysTyped ==
  /\ keys \in [KeyIds -> {"none", "active", "old"}]
  /\ ActiveKeys = {} \/ \E k \in KeyIds : ActiveKeys = {k}

\* What lists and calls name is there.
RangesInv ==
  /\ shown.active \subseteq DOMAIN commitments /\ shown.docs \subseteq imported
  /\ \A s \in Slots :
       /\ calls[s].got.active \subseteq DOMAIN commitments
       /\ calls[s].got.docs \subseteq imported
       /\ calls[s].cmd = "delete_evidence" => calls[s].of[1] \in imported
       /\ calls[s].cmd = "revoke_commitment" => calls[s].of[1] \in DOMAIN commitments

\* Where the answer of a call is awaited.
Awaited(call) ==
  /\ call.cmd # "idle"
  /\ call.cmd = "list" <=> loading
  /\ OnClaim(call) => screen = "claims"
  /\ OnDocument(call) => screen = "evidence"
  /\ call.cmd \in {"create_commitment", "revoke_commitment"} => screen = "commitments"
  /\ call.cmd = "generate_new_keypair" => screen = "settings"

Done(call) == call.phase = "answered" /\ call.ok

\* Answers are kept for the mounted screen only, which waits for its lists alone.
MineInv ==
  /\ \A s \in Slots : calls[s].mine => Awaited(calls[s])
  /\ \A s \in Slots : calls[s].phase = "answered" /\ calls[s].cmd # "idle" => calls[s].mine
  /\ loading => /\ shown = Nothing
                /\ \A s, t \in Slots : calls[s].mine /\ calls[t].mine => s = t

\* A row that was not overtaken is changed by one call at most, of the mounted screen.
OvertakenInv ==
  /\ \A s \in Slots : ~calls[s].mine => Changes(calls[s]) \subseteq overtaken
  /\ \A s, t \in Slots : s # t => Changes(calls[s]) \cap Changes(calls[t]) \subseteq overtaken

Is(call, cmd, x) == call.cmd = cmd /\ call.of = <<x>>

\* The row of a claim shows what is stored, except between the answer to a click on it
\* and its arrival.
ClaimAgrees(c, seen, row, cs) ==
  /\ (\A s \in Slots : Done(cs[s]) => ~(OnClaim(cs[s]) /\ cs[s].of = <<c>>))
       => seen \in {"none", row}
  /\ \A s \in Slots :
       /\ Is(cs[s], "verify_claim", c) /\ cs[s].phase = "sent" =>
            seen # "none" /\ (cs[s].to <=> seen # "verified")
       /\ Is(cs[s], "verify_claim", c) /\ Done(cs[s]) =>
            \/ seen = "pending" /\ row = "verified"
            \/ seen = "verified" /\ row = "pending"
       /\ Is(cs[s], "delete_claim", c) /\ Done(cs[s]) => row = "deleted"

ClaimsInv ==
  ~loading => \A c \in Claims \ overtaken : ClaimAgrees(c, shown.claims[c], claims[c], calls)

DocsInv ==
  /\ \A d \in shown.docs \ overtaken :
       d \in evidence \/ \E s \in Slots : Is(calls[s], "delete_evidence", d) /\ Done(calls[s])
  /\ \A s \in Slots : calls[s].cmd = "ingest_document" /\ calls[s].mine =>
       /\ calls[s].of[1] \notin shown.docs
       /\ Done(calls[s]) => calls[s].of[1] \in evidence
       /\ \A t \in Slots : calls[t].cmd = "delete_evidence" => calls[t].of[1] # calls[s].of[1]
       /\ \A t \in Slots : calls[t].cmd = "ingest_document" /\ calls[t].mine => t = s

KeyInv ==
  /\ shown.key # NoKey => screen = "settings"
  /\ "keypair" \notin overtaken =>
       /\ (\A s \in Slots : Done(calls[s]) => calls[s].cmd # "generate_new_keypair")
            => shown.key = NoKey \/ shown.key = ActiveKey \/ ActiveKey = NoKey
       /\ \A s \in Slots : calls[s].cmd = "generate_new_keypair" /\ Done(calls[s])
            => calls[s].got.key = ActiveKey

ListsInv ==
  \A s \in Slots : calls[s].cmd = "list" /\ Done(calls[s]) =>
    LET got == calls[s].got IN
    /\ \A c \in Claims \ overtaken : got.claims[c] \in {"none", claims[c]}
    /\ got.docs \ overtaken \subseteq evidence
    /\ got.key # NoKey => screen = "settings"
    /\ "keypair" \notin overtaken => got.key = NoKey \/ got.key = ActiveKey \/ ActiveKey = NoKey

\* Only verified claims are ticked, and sent.
SelectedInv ==
  /\ dialog \/ selected # <<>> => screen = "commitments" /\ ~loading
  /\ \A c \in Range(selected) : shown.claims[c] = "verified"
  /\ \A s \in Slots : calls[s].mine /\ calls[s].cmd = "create_commitment" =>
       \A c \in Range(calls[s].of) : shown.claims[c] = "verified"

HashesAt(ids, st) ==
  [i \in DOMAIN ids |-> <<"claim", ids[i], IF ids[i] \in Typed THEN 0 ELSE st[ids[i]]>>]

\* A root is that of the claims as they were; so were the claims verified.
RowOK(row) ==
  /\ row.claims \in Seq(Claims) /\ row.claims # <<>>
  /\ row.key \in KeyIds
  /\ row.stamps \in [Claims -> 0..MaxStamp]
  /\ row.root = MerkleRoot(HashesAt(row.claims, row.stamps))
  /\ row.pending = {}

CommitmentsInv ==
  /\ \E n \in Nat : DOMAIN commitments = 1..n
  /\ commitments \in Seq({commitments[k] : k \in DOMAIN commitments})
  /\ \A k \in DOMAIN commitments : RowOK(commitments[k]) /\ keys[commitments[k].key] # "none"

AgentInv ==
  /\ AgentTyped /\ KeysTyped /\ RangesInv
  /\ MineInv /\ OvertakenInv
  /\ ClaimsInv /\ DocsInv /\ KeyInv /\ ListsInv
  /\ SelectedInv /\ CommitmentsInv

-----------------------------------------------------------------------------
(* What calls change                                                       *)

LEMMA RangeOfOne ==
  ASSUME NEW x
  PROVE  Range(<<x>>) = {x}
BY DEF Range

LEMMA RangeNotEmpty ==
  ASSUME NEW S, NEW seq \in Seq(S), seq # <<>>
  PROVE  Range(seq) # {}
<1>1. DOMAIN seq = 1..Len(seq) /\ Len(seq) \in Nat \ {0}
  BY LenProperties, EmptySeq
<1>2. 1 \in DOMAIN seq
  BY <1>1
<1>3. QED
  BY <1>2 DEF Range

LEMMA ChangesOf ==
  ASSUME NEW call
  PROVE  /\ call.cmd = "verify_claim" => Changes(call) = Range(call.of)
         /\ call.cmd = "delete_claim" => Changes(call) = Range(call.of)
         /\ call.cmd = "delete_evidence" => Changes(call) = Range(call.of)
         /\ call.cmd = "create_commitment" => Changes(call) = Range(call.of) \cup {"keypair"}
         /\ call.cmd = "generate_new_keypair" => Changes(call) = {"keypair"}
         /\ call.cmd \in {"idle", "list", "ingest_document", "extract_claims", "revoke_commitment"}
              => Changes(call) = {}
BY DEF Changes

LEMMA ChangesOfOne ==
  ASSUME NEW call, CallShape(call)
  PROVE  /\ OnClaim(call) => Changes(call) = {call.of[1]}
         /\ call.cmd = "delete_evidence" => Changes(call) = {call.of[1]}
<1>1. OnClaim(call) => Changes(call) = Range(call.of) /\ call.of = <<call.of[1]>>
  BY ChangesOf DEF OnClaim, CallShape
<1>2. call.cmd = "delete_evidence" => Changes(call) = Range(call.of) /\ call.of = <<call.of[1]>>
  BY ChangesOf DEF CallShape, OnDocument
<1>3. QED
  BY <1>1, <1>2, RangeOfOne

LEMMA ChangesSame ==
  ASSUME NEW a, NEW b, a.cmd = b.cmd, a.of = b.of
  PROVE  Changes(a) = Changes(b)
BY DEF Changes

LEMMA NothingTyped == Nothing \in Lists
BY DEF Nothing, Lists, NoKey

LEMMA IdleTyped ==
  /\ Idle \in CallType /\ CallShape(Idle) /\ Changes(Idle) = {}
  /\ Idle.cmd = "idle" /\ Idle.phase = "answered" /\ ~Idle.mine /\ ~Idle.ok
  /\ Idle.got = Nothing /\ Idle.of = <<>>
<1>1. <<>> \in Seq(Claims \cup Documents \cup Nat)
  BY EmptySeq
<1>2. Idle \in CallType
  BY <1>1, NothingTyped DEF Idle, CallType, Commands
<1>3. /\ Idle.cmd = "idle" /\ Idle.phase = "answered" /\ ~Idle.mine /\ ~Idle.ok
      /\ Idle.got = Nothing /\ Idle.of = <<>>
  BY DEF Idle
<1>4. CallShape(Idle)
  BY <1>3 DEF CallShape, OnClaim, OnDocument
<1>5. QED
  BY <1>2, <1>3, <1>4, ChangesOf

-----------------------------------------------------------------------------
(* What a command does                                                     *)

Progress(s) ==
  /\ calls[s].cmd # "idle" /\ calls[s].phase # "answered"
  /\ calls' \in [Slots -> CallType]
  /\ \A t \in Slots \ {s} : calls'[t] = calls[t]
  /\ \/ calls'[s] = Idle /\ ~calls[s].mine
     \/ /\ calls'[s].cmd = calls[s].cmd /\ calls'[s].of = calls[s].of
        /\ calls'[s].to = calls[s].to /\ (calls'[s].mine <=> calls[s].mine)
        /\ \/ calls'[s].phase = "answered" /\ calls[s].mine
           \/ /\ calls'[s].phase = "working" /\ calls[s].cmd = "extract_claims"
              /\ calls'[s].got = calls[s].got
  /\ UNCHANGED <<screen, loading, shown, selected, dialog, overtaken>>

ClaimsStep(s) ==
  /\ claims' \in [Claims -> {"unused", "pending", "verified", "deleted"}]
  /\ stamp' \in [Claims -> 0..MaxStamp]
  /\ \A c \in Claims :
       \/ /\ claims'[c] = claims[c]
          /\ ~(OnClaim(calls[s]) /\ calls[s].of = <<c>> /\ Done(calls'[s]))
       \/ claims[c] = "unused" /\ claims'[c] = "pending" /\ calls[s].cmd = "extract_claims"
       \/ /\ Is(calls[s], "verify_claim", c) /\ claims[c] \in {"pending", "verified"}
          /\ claims'[c] = IF calls[s].to THEN "verified" ELSE "pending"
          /\ calls[s].phase = "sent"
          /\ calls[s].mine => Done(calls'[s])
       \/ /\ Is(calls[s], "delete_claim", c) /\ claims'[c] = "deleted"
          /\ calls[s].mine => Done(calls'[s])

DocsStep(s) ==
  /\ imported \subseteq imported' /\ evidence' \subseteq imported' /\ imported' \subseteq Documents
  /\ \A d \in evidence :
       \/ d \in evidence'
       \/ Is(calls[s], "delete_evidence", d) /\ (calls[s].mine => Done(calls'[s]))
  /\ calls[s].cmd = "ingest_document" /\ Done(calls'[s]) => calls[s].of[1] \in evidence'

KeysStep(s) ==
  /\ KeysTyped'
  /\ \A k \in KeyIds : keys[k] # "none" => keys'[k] # "none"
  /\ ActiveKey' = ActiveKey \/ calls[s].cmd \in {"create_commitment", "generate_new_keypair"}
  /\ calls[s].cmd = "generate_new_keypair" =>
       /\ Done(calls'[s]) => calls'[s].got.key = ActiveKey'
       /\ calls[s].mine /\ ~Done(calls'[s]) => ActiveKey' \in {ActiveKey, NoKey}

CommitmentsStep ==
  /\ CommitmentsInv'
  /\ DOMAIN commitments \subseteq DOMAIN commitments'

AnswerStep(s) ==
  /\ calls'[s].got.active \subseteq DOMAIN commitments'
  /\ calls'[s].got.docs \subseteq imported'
  /\ calls[s].cmd = "list" /\ Done(calls'[s]) =>
       /\ UNCHANGED <<evidence, claims, keys>>
       /\ calls'[s].got = ListRows(screen)

Step(s) ==
  Progress(s) /\ ClaimsStep(s) /\ DocsStep(s) /\ KeysStep(s) /\ CommitmentsStep /\ AnswerStep(s)

LEMMA Answered ==
  ASSUME AgentTyped, NEW s \in Slots, NEW ok \in BOOLEAN, NEW got \in Lists,
         calls[s].cmd # "idle", calls[s].phase # "answered", Answer(s, ok, got)
  PROVE  /\ Progress(s)
         /\ calls[s].mine => /\ calls'[s].phase = "answered" /\ (calls'[s].ok <=> ok)
                             /\ calls'[s].got = got
         /\ ~calls[s].mine => calls'[s] = Idle
<1> DEFINE call == calls[s]
           answered == [call EXCEPT !.phase = "answered", !.ok = ok, !.got = got]
<1>1. calls \in [Slots -> CallType] /\ call \in CallType
  BY DEF AgentTyped, CallsTyped
<1>2. calls' = [calls EXCEPT ![s] = IF call.mine THEN answered ELSE Idle]
  BY DEF Answer
<1>3. UNCHANGED <<screen, loading, shown, selected, dialog, overtaken>>
  BY DEF Answer, ui
<1>4. /\ answered \in CallType
      /\ answered.cmd = call.cmd /\ answered.of = call.of /\ answered.to = call.to
      /\ (answered.mine <=> call.mine) /\ answered.phase = "answered" /\ (answered.ok <=> ok)
      /\ answered.got = got
  <2> HIDE DEF call
  <2>1. QED
    BY <1>1 DEF CallType
<1> HIDE DEF answered
<1>5. calls'[s] = IF call.mine THEN answered ELSE Idle
  BY <1>1, <1>2
<1>6. \A t \in Slots \ {s} : calls'[t] = calls[t]
  BY <1>1, <1>2
<1>7. calls' \in [Slots -> CallType]
  BY <1>1, <1>2, <1>4, IdleTyped
<1>8. Progress(s)
  BY <1>3, <1>4, <1>5, <1>6, <1>7 DEF Progress
<1>9. QED
  BY <1>4, <1>5, <1>8

LEMMA ClaimsStay ==
  ASSUME AgentTyped, NEW s \in Slots, UNCHANGED <<claims, stamp>>,
         ~(OnClaim(calls[s]) /\ Done(calls'[s]))
  PROVE  ClaimsStep(s)
BY DEF AgentTyped, RowsTyped, ClaimsStep

LEMMA DocsStay ==
  ASSUME AgentTyped, NEW s \in Slots, UNCHANGED <<evidence, imported>>,
         ~(calls[s].cmd = "ingest_document" /\ Done(calls'[s]))
  PROVE  DocsStep(s)
BY DEF AgentTyped, RowsTyped, DocsStep

LEMMA KeysStay ==
  ASSUME KeysTyped, NEW s \in Slots, UNCHANGED keys,
         calls[s].cmd = "generate_new_keypair" => ~Done(calls'[s])
  PROVE  KeysStep(s)
<1>1. ActiveKeys' = ActiveKeys
  BY DEF ActiveKeys
<1>2. ActiveKey' = ActiveKey
  BY <1>1 DEF ActiveKey
<1>3. KeysTyped'
  BY <1>1 DEF KeysTyped
<1>4. QED
  BY <1>2, <1>3 DEF KeysStep

LEMMA CommitmentsStay ==
  ASSUME CommitmentsInv, UNCHANGED commitments,
         \A k \in KeyIds : keys[k] # "none" => keys'[k] # "none"
  PROVE  CommitmentsStep
<1>1. \A k \in DOMAIN commitments : RowOK(commitments[k])' <=> RowOK(commitments[k])
  BY DEF RowOK, HashesAt
<1>2. \A k \in DOMAIN commitments : keys'[commitments[k].key] # "none"
  BY DEF CommitmentsInv, RowOK
<1>3. QED
  BY <1>1, <1>2 DEF CommitmentsStep, CommitmentsInv

\* Each command is a step; which of the rows it writes differ.
LEMMA ListCommandsStep ==
  ASSUME AgentInv, NEW s \in Slots, ListCommands(s)
  PROVE  Step(s)
<1> USE DEF AgentInv, AgentTyped
<1>1. /\ calls[s].cmd = "list" /\ calls[s].phase = "sent"
      /\ Answer(s, TRUE, ListRows(screen))
      /\ UNCHANGED <<evidence, imported, claims, stamp, commitments, keys>>
  BY DEF ListCommands, Executing, db
<1>2. ListedEvidence(screen) \subseteq evidence /\ ListedCommitments(screen) \subseteq DOMAIN commitments
  BY DEF ListedEvidence, ListedCommitments
<1>3. ListedKey(screen) \in Nat
  <2>1. ActiveKey \in Nat
    BY EdgeAgentAssumption DEF KeysTyped, ActiveKey, ActiveKeys, KeyIds, NoKey
  <2>2. QED
    BY <2>1 DEF ListedKey, NoKey
<1>4. ListedClaims(screen) \in [Claims -> {"none", "pending", "verified"}]
  BY DEF ListedClaims, Present
<1>5. DOMAIN commitments \subseteq Nat
  BY DEF CommitmentsInv
<1>6. /\ ListRows(screen) \in Lists
      /\ ListRows(screen).active \subseteq DOMAIN commitments
      /\ ListRows(screen).docs \subseteq imported
  BY <1>2, <1>3, <1>4, <1>5 DEF ListRows, Lists, RowsTyped
<1>7. /\ Progress(s) /\ (~calls[s].mine => calls'[s] = Idle)
      /\ calls[s].mine => calls'[s].got = ListRows(screen)
  BY <1>1, <1>6, Answered
<1>8. ClaimsStep(s)
  BY <1>1, ClaimsStay DEF OnClaim
<1>9. DocsStep(s)
  BY <1>1, DocsStay
<1>10. KeysStep(s)
  BY <1>1, KeysStay
<1>11. CommitmentsStep
  BY <1>1, CommitmentsStay
<1>12. AnswerStep(s)
  <2>1. CASE calls[s].mine
    BY <1>1, <1>6, <1>7, <2>1 DEF AnswerStep
  <2>2. CASE ~calls[s].mine
    BY <1>7, <2>2, IdleTyped DEF AnswerStep, Nothing, Done
  <2>3. QED
    BY <2>1, <2>2
<1>13. QED
  BY <1>7, <1>8, <1>9, <1>10, <1>11, <1>12 DEF Step

\* A command that fails, or answers with nothing.
LEMMA NothingAnswered ==
  ASSUME AgentInv, NEW s \in Slots, NEW ok \in BOOLEAN,
         calls[s].cmd # "idle", calls[s].phase # "answered", Answer(s, ok, Nothing),
         calls[s].cmd = "list" => ~ok
  PROVE  /\ Progress(s) /\ AnswerStep(s)
         /\ Done(calls'[s]) <=> calls[s].mine /\ ok
<1> USE DEF AgentInv, AgentTyped
<1>1. /\ Progress(s) /\ (~calls[s].mine => calls'[s] = Idle)
      /\ calls[s].mine => /\ calls'[s].phase = "answered" /\ (calls'[s].ok <=> ok)
                          /\ calls'[s].got = Nothing
  BY Answered, NothingTyped
<1>2. calls'[s].got = Nothing
  BY <1>1, IdleTyped
<1>3. Done(calls'[s]) <=> calls[s].mine /\ ok
  <2>1. CASE calls[s].mine
    BY <1>1, <2>1 DEF Done
  <2>2. CASE ~calls[s].mine
    BY <1>1, <2>2, IdleTyped DEF Done
  <2>3. QED
    BY <2>1, <2>2
<1>4. AnswerStep(s)
  BY <1>2, <1>3 DEF AnswerStep, Nothing
<1>5. QED
  BY <1>1, <1>3, <1>4

LEMMA CommandFailsStep ==
  ASSUME AgentInv, NEW s \in Slots, CommandFails(s)
  PROVE  Step(s)
<1> USE DEF AgentInv, AgentTyped
<1>1. /\ calls[s].phase = "sent" /\ Answer(s, FALSE, Nothing)
      /\ UNCHANGED <<evidence, imported, claims, stamp, commitments, keys>>
  BY DEF CommandFails, db
<1>2. calls[s].cmd # "idle"
  <2>1. calls[s].cmd = "idle" => calls[s] = Idle
    BY DEF CallsTyped, CallShape
  <2>2. QED
    BY <1>1, <2>1, IdleTyped
<1>3. Progress(s) /\ AnswerStep(s) /\ ~Done(calls'[s])
  BY <1>1, <1>2, NothingAnswered
<1>4. QED
  BY <1>1, <1>3, ClaimsStay, DocsStay, KeysStay, CommitmentsStay DEF Step

LEMMA IngestDocumentStep ==
  ASSUME AgentInv, NEW s \in Slots, IngestDocument(s)
  PROVE  Step(s)
<1> USE DEF AgentInv, AgentTyped
<1>1. /\ calls[s].cmd = "ingest_document" /\ calls[s].phase = "sent" /\ Answer(s, TRUE, Nothing)
      /\ evidence' = evidence \cup {calls[s].of[1]} /\ imported' = imported \cup {calls[s].of[1]}
      /\ UNCHANGED <<claims, stamp, commitments, keys>>
  BY DEF IngestDocument, Executing, Id
<1>2. calls[s].of[1] \in Documents
  BY <1>1 DEF CallsTyped, CallShape, OnDocument
<1>3. Progress(s) /\ AnswerStep(s)
  BY <1>1, NothingAnswered
<1>4. DocsStep(s)
  BY <1>1, <1>2 DEF DocsStep, RowsTyped
<1>5. ClaimsStep(s) /\ KeysStep(s) /\ CommitmentsStep
  BY <1>1, ClaimsStay, KeysStay, CommitmentsStay DEF OnClaim
<1>6. QED
  BY <1>3, <1>4, <1>5 DEF Step

LEMMA DeleteEvidenceRowStep ==
  ASSUME AgentInv, NEW s \in Slots, DeleteEvidenceRow(s)
  PROVE  Step(s)
<1> USE DEF AgentInv, AgentTyped
<1>1. /\ calls[s].cmd = "delete_evidence" /\ calls[s].phase = "sent" /\ Answer(s, TRUE, Nothing)
      /\ evidence' = evidence \ {calls[s].of[1]}
      /\ UNCHANGED <<imported, claims, stamp, commitments, keys>>
  BY DEF DeleteEvidenceRow, Executing, Id
<1>2. calls[s].of = <<calls[s].of[1]>>
  BY <1>1 DEF CallsTyped, CallShape, OnDocument
<1>3. Progress(s) /\ AnswerStep(s) /\ (Done(calls'[s]) <=> calls[s].mine)
  BY <1>1, NothingAnswered
<1>4. DocsStep(s)
  <2>1. ASSUME NEW d \in evidence, d \notin evidence'
        PROVE  Is(calls[s], "delete_evidence", d)
    <3>1. d = calls[s].of[1]
      BY <1>1, <2>1
    <3>2. QED
      BY <1>1, <1>2, <3>1 DEF Is
  <2>2. QED
    BY <1>1, <1>3, <2>1 DEF DocsStep, RowsTyped
<1>5. ClaimsStep(s) /\ KeysStep(s) /\ CommitmentsStep
  BY <1>1, ClaimsStay, KeysStay, CommitmentsStay DEF OnClaim
<1>6. QED
  BY <1>3, <1>4, <1>5 DEF Step

LEMMA ReadEvidenceStep ==
  ASSUME AgentInv, NEW s \in Slots, ReadEvidence(s)
  PROVE  Step(s)
<1> USE DEF AgentInv, AgentTyped
<1>1. /\ calls[s].cmd = "extract_claims" /\ calls[s].phase = "sent"
      /\ UNCHANGED <<evidence, imported, claims, stamp, commitments, keys>>
  BY DEF ReadEvidence, Executing, db
<1>2. CASE Id(s) \in evidence
  <2>1. /\ calls' = [calls EXCEPT ![s].phase = "working"]
        /\ UNCHANGED <<screen, loading, shown, selected, dialog, overtaken>>
    BY <1>2 DEF ReadEvidence, ui
  <2>2. calls \in [Slots -> CallType]
    BY DEF CallsTyped
  <2>3. /\ calls' \in [Slots -> CallType]
        /\ \A t \in Slots \ {s} : calls'[t] = calls[t]
        /\ calls'[s].cmd = calls[s].cmd /\ calls'[s].of = calls[s].of
        /\ calls'[s].to = calls[s].to /\ (calls'[s].mine <=> calls[s].mine)
        /\ calls'[s].phase = "working" /\ calls'[s].got = calls[s].got
    BY <2>1, <2>2 DEF CallType
  <2>4. Progress(s)
    BY <1>1, <2>1, <2>3 DEF Progress
  <2>5. ~Done(calls'[s])
    BY <2>3 DEF Done
  <2>6. AnswerStep(s)
    BY <1>1, <2>3, <2>5 DEF AnswerStep, RangesInv
  <2>7. QED
    BY <1>1, <2>4, <2>5, <2>6, ClaimsStay, DocsStay, KeysStay, CommitmentsStay DEF Step
<1>3. CASE Id(s) \notin evidence
  <2>1. Answer(s, FALSE, Nothing)
    BY <1>3 DEF ReadEvidence
  <2>2. Progress(s) /\ AnswerStep(s) /\ ~Done(calls'[s])
    BY <1>1, <2>1, NothingAnswered
  <2>3. QED
    BY <1>1, <2>2, ClaimsStay, DocsStay, KeysStay, CommitmentsStay DEF Step
<1>4. QED
  BY <1>2, <1>3

\* What is inserted are pending claims that had no row.
LEMMA Inserted ==
  ASSUME RowsTyped, NEW found \in SUBSET {c \in Claims : claims[c] = "unused"},
         InsertClaims(found)
  PROVE  /\ claims' \in [Claims -> {"unused", "pending", "verified", "deleted"}]
         /\ \A c \in Claims : \/ claims'[c] = claims[c]
                              \/ claims[c] = "unused" /\ claims'[c] = "pending"
         /\ UNCHANGED <<evidence, imported, stamp, commitments, keys>>
BY DEF RowsTyped, InsertClaims

LEMMA InsertExtractedStep ==
  ASSUME AgentInv, NEW s \in Slots, InsertExtracted(s)
  PROVE  Step(s)
<1> USE DEF AgentInv, AgentTyped
<1>1. calls[s].cmd = "extract_claims" /\ calls[s].phase = "working"
  BY DEF InsertExtracted
<1>2. PICK found \in SUBSET {c \in Claims : claims[c] = "unused"} : InsertClaims(found)
  BY DEF InsertExtracted
<1>3. PICK ok \in BOOLEAN : Answer(s, ok, Nothing)
  BY DEF InsertExtracted
<1>4. Progress(s) /\ AnswerStep(s)
  BY <1>1, <1>3, NothingAnswered
<1>5. /\ claims' \in [Claims -> {"unused", "pending", "verified", "deleted"}]
      /\ \A c \in Claims : \/ claims'[c] = claims[c]
                           \/ claims[c] = "unused" /\ claims'[c] = "pending"
      /\ UNCHANGED <<evidence, imported, stamp, commitments, keys>>
  BY <1>2, Inserted
<1>6. ClaimsStep(s)
  BY <1>1, <1>5 DEF ClaimsStep, RowsTyped, OnClaim
<1>7. DocsStep(s) /\ KeysStep(s) /\ CommitmentsStep
  BY <1>1, <1>5, DocsStay, KeysStay, CommitmentsStay
<1>8. QED
  BY <1>4, <1>6, <1>7 DEF Step

LEMMA VerifyClaimStep ==
  ASSUME AgentInv, NEW s \in Slots, VerifyClaim(s)
  PROVE  Step(s)
<1> USE DEF AgentInv, AgentTyped
<1> DEFINE c == calls[s].of[1]
<1>1. /\ calls[s].cmd = "verify_claim" /\ calls[s].phase = "sent"
      /\ UNCHANGED <<evidence, imported, commitments, keys>>
  BY DEF VerifyClaim, Executing
<1>2. c \in Claims /\ calls[s].of = <<c>>
  BY <1>1 DEF CallsTyped, CallShape, OnClaim
<1>3. CASE c \in Present
  <2>1. /\ claims' = [claims EXCEPT ![c] = IF calls[s].to THEN "verified" ELSE "pending"]
        /\ Answer(s, TRUE, Nothing)
        /\ \/ UNCHANGED stamp
           \/ stamp[c] < MaxStamp /\ stamp' = [stamp EXCEPT ![c] = @ + 1]
    BY <1>3 DEF VerifyClaim, Id
  <2>2. Progress(s) /\ AnswerStep(s) /\ (Done(calls'[s]) <=> calls[s].mine)
    BY <1>1, <2>1, NothingAnswered
  <2>3. claims[c] \in {"pending", "verified"}
    BY <1>3 DEF Present
  <2> HIDE DEF c
  <2>4. stamp' \in [Claims -> 0..MaxStamp]
    <3>1. CASE UNCHANGED stamp
      BY <3>1 DEF RowsTyped
    <3>2. CASE stamp[c] < MaxStamp /\ stamp' = [stamp EXCEPT ![c] = @ + 1]
      <4>1. stamp[c] + 1 \in 0..MaxStamp
        BY <1>2, <3>2, EdgeAgentAssumption DEF RowsTyped
      <4>2. QED
        BY <3>2, <4>1 DEF RowsTyped
    <3>3. QED
      BY <2>1, <3>1, <3>2
  <2>5. claims' \in [Claims -> {"unused", "pending", "verified", "deleted"}]
    BY <2>1 DEF RowsTyped
  <2>6. /\ \A d \in Claims \ {c} : claims'[d] = claims[d]
        /\ claims'[c] = IF calls[s].to THEN "verified" ELSE "pending"
    BY <1>2, <2>1 DEF RowsTyped
  <2>7. \A d \in Claims \ {c} : calls[s].of # <<d>>
    BY <1>2
  <2>8. ClaimsStep(s)
    BY <1>1, <1>2, <2>2, <2>3, <2>4, <2>5, <2>6, <2>7 DEF ClaimsStep, Is
  <2>9. QED
    BY <1>1, <2>2, <2>8, DocsStay, KeysStay, CommitmentsStay DEF Step
<1>4. CASE c \notin Present
  <2>1. Answer(s, FALSE, Nothing) /\ UNCHANGED <<claims, stamp>>
    BY <1>4 DEF VerifyClaim, Id
  <2>2. Progress(s) /\ AnswerStep(s) /\ ~Done(calls'[s])
    BY <1>1, <2>1, NothingAnswered
  <2>3. QED
    BY <1>1, <2>1, <2>2, ClaimsStay, DocsStay, KeysStay, CommitmentsStay DEF Step
<1>5. QED
  BY <1>3, <1>4

LEMMA DeleteClaimRowStep ==
  ASSUME AgentInv, NEW s \in Slots, DeleteClaimRow(s)
  PROVE  Step(s)
<1> USE DEF AgentInv, AgentTyped
<1> DEFINE c == calls[s].of[1]
<1>1. /\ calls[s].cmd = "delete_claim" /\ calls[s].phase = "sent" /\ Answer(s, TRUE, Nothing)
      /\ claims' = [claims EXCEPT ![c] = "deleted"]
      /\ UNCHANGED <<evidence, imported, stamp, commitments, keys>>
  BY DEF DeleteClaimRow, Executing, Id
<1>2. c \in Claims /\ calls[s].of = <<c>>
  BY <1>1 DEF CallsTyped, CallShape, OnClaim
<1>3. Progress(s) /\ AnswerStep(s) /\ (Done(calls'[s]) <=> calls[s].mine)
  BY <1>1, NothingAnswered
<1> HIDE DEF c
<1>4. /\ claims' \in [Claims -> {"unused", "pending", "verified", "deleted"}]
      /\ \A d \in Claims \ {c} : claims'[d] = claims[d]
      /\ claims'[c] = "deleted"
  BY <1>1, <1>2 DEF RowsTyped
<1>5. \A d \in Claims \ {c} : calls[s].of # <<d>>
  BY <1>2
<1>6. ClaimsStep(s)
  BY <1>1, <1>2, <1>3, <1>4, <1>5 DEF ClaimsStep, Is, RowsTyped
<1>7. QED
  BY <1>1, <1>3, <1>6, DocsStay, KeysStay, CommitmentsStay DEF Step

\* A key that is made is the only active one, and no key is forgotten.
LEMMA KeyMade ==
  ASSUME KeysTyped, NEW k \in FreeKeys, keys' = WithNewKey(k)
  PROVE  /\ KeysTyped' /\ k \in KeyIds
         /\ \A l \in KeyIds : keys[l] # "none" => keys'[l] # "none"
         /\ keys'[k] = "active" /\ ActiveKey' = k
<1>1. k \in KeyIds
  BY DEF FreeKeys
<1>2. /\ keys' \in [KeyIds -> {"none", "active", "old"}]
      /\ \A l \in KeyIds : keys[l] # "none" => keys'[l] # "none"
      /\ keys'[k] = "active" /\ \A l \in KeyIds \ {k} : keys'[l] # "active"
  BY <1>1 DEF KeysTyped, WithNewKey, DeactivateOthers
<1>3. ActiveKeys' = {k}
  BY <1>1, <1>2 DEF ActiveKeys
<1>4. ActiveKey' = k
  BY <1>3 DEF ActiveKey
<1>5. QED
  BY <1>1, <1>2, <1>3, <1>4 DEF KeysTyped

LEMMA KeysDeactivated ==
  ASSUME KeysTyped, keys' = DeactivateOthers
  PROVE  /\ KeysTyped' /\ ActiveKey' = NoKey
         /\ \A l \in KeyIds : keys[l] # "none" => keys'[l] # "none"
<1>1. /\ keys' \in [KeyIds -> {"none", "active", "old"}]
      /\ \A l \in KeyIds : keys[l] # "none" => keys'[l] # "none"
      /\ \A l \in KeyIds : keys'[l] # "active"
  BY DEF KeysTyped, DeactivateOthers
<1>2. ActiveKeys' = {}
  BY <1>1 DEF ActiveKeys
<1>3. QED
  BY <1>1, <1>2 DEF KeysTyped, ActiveKey

LEMMA InsertKeypairStep ==
  ASSUME AgentInv, NEW s \in Slots, InsertKeypair(s)
  PROVE  Step(s)
<1> USE DEF AgentInv, AgentTyped
<1>1. /\ calls[s].cmd = "generate_new_keypair" /\ calls[s].phase = "sent"
      /\ UNCHANGED <<evidence, imported, claims, stamp, commitments>>
  BY DEF InsertKeypair, Executing
<1>2. ClaimsStep(s) /\ DocsStep(s)
  BY <1>1, ClaimsStay, DocsStay DEF OnClaim
<1>4. ASSUME NEW k \in FreeKeys, keys' = WithNewKey(k), Answer(s, TRUE, [Nothing EXCEPT !.key = k])
      PROVE  Step(s)
  <2> DEFINE got == [Nothing EXCEPT !.key = k]
  <2>1. /\ KeysTyped' /\ k \in KeyIds /\ ActiveKey' = k
        /\ \A l \in KeyIds : keys[l] # "none" => keys'[l] # "none"
    BY <1>4, KeyMade
  <2>2. got \in Lists /\ got.active = {} /\ got.docs = {} /\ got.key = k
    BY <2>1, EdgeAgentAssumption DEF Nothing, Lists, KeyIds
  <2> HIDE DEF got
  <2>3. /\ Progress(s) /\ (~calls[s].mine => calls'[s] = Idle)
        /\ calls[s].mine => calls'[s].phase = "answered" /\ (calls'[s].ok <=> TRUE) /\ calls'[s].got = got
    BY <1>1, <1>4, <2>2, Answered DEF got
  <2>4. CommitmentsStep
    BY <1>1, <2>1, CommitmentsStay
  <2>5. CASE calls[s].mine
    <3>1. Done(calls'[s]) /\ calls'[s].got = got
      BY <2>3, <2>5 DEF Done
    <3>2. KeysStep(s) /\ AnswerStep(s)
      BY <1>1, <2>1, <2>2, <3>1 DEF KeysStep, AnswerStep
    <3>3. QED
      BY <1>2, <2>3, <2>4, <3>2 DEF Step
  <2>6. CASE ~calls[s].mine
    <3>1. ~Done(calls'[s]) /\ calls'[s].got = Nothing
      BY <2>3, <2>6, IdleTyped DEF Done
    <3>2. KeysStep(s) /\ AnswerStep(s)
      BY <1>1, <2>1, <2>6, <3>1 DEF KeysStep, AnswerStep, Nothing
    <3>3. QED
      BY <1>2, <2>3, <2>4, <3>2 DEF Step
  <2>7. QED
    BY <2>5, <2>6
<1>5. ASSUME keys' = DeactivateOthers, Answer(s, FALSE, Nothing)
      PROVE  Step(s)
  <2>1. Progress(s) /\ AnswerStep(s) /\ ~Done(calls'[s])
    BY <1>1, <1>5, NothingAnswered
  <2>2. /\ KeysTyped' /\ ActiveKey' = NoKey
        /\ \A l \in KeyIds : keys[l] # "none" => keys'[l] # "none"
    BY <1>5, KeysDeactivated
  <2>3. CommitmentsStep
    BY <1>1, <2>2, CommitmentsStay
  <2>4. KeysStep(s)
    BY <1>1, <2>1, <2>2 DEF KeysStep
  <2>5. QED
    BY <1>2, <2>1, <2>3, <2>4 DEF Step
<1>6. QED
  BY <1>4, <1>5 DEF InsertKeypair

\* A revocation or the end of the validity changes nothing else of a row.
LEMMA CommitmentMarked ==
  ASSUME CommitmentsInv, UNCHANGED keys, NEW k \in DOMAIN commitments,
         \/ commitments' = [commitments EXCEPT ![k].revoked = TRUE]
         \/ commitments' = [commitments EXCEPT ![k].expired = TRUE]
  PROVE  CommitmentsStep /\ DOMAIN commitments' = DOMAIN commitments
<1>1. PICK n \in Nat : DOMAIN commitments = 1..n
  BY DEF CommitmentsInv
<1>2. commitments = [l \in 1..n |-> commitments[l]]
  BY <1>1 DEF CommitmentsInv
<1>3. DOMAIN commitments' = 1..n /\ commitments' = [l \in 1..n |-> commitments'[l]]
  BY <1>1, <1>2
<1>4. commitments' \in Seq({commitments'[l] : l \in DOMAIN commitments'})
  BY <1>3, IsASeq
<1>5. \A l \in 1..n : /\ commitments'[l].claims = commitments[l].claims
                      /\ commitments'[l].key = commitments[l].key
                      /\ commitments'[l].stamps = commitments[l].stamps
                      /\ commitments'[l].root = commitments[l].root
                      /\ commitments'[l].pending = commitments[l].pending
  <2>1. CASE commitments' = [commitments EXCEPT ![k].revoked = TRUE]
    BY <1>1, <1>2, <2>1
  <2>2. CASE commitments' = [commitments EXCEPT ![k].expired = TRUE]
    BY <1>1, <1>2, <2>2
  <2>3. QED
    BY <2>1, <2>2
<1>6. \A l \in 1..n : RowOK(commitments[l])' <=> RowOK(commitments[l])
  BY <1>5 DEF RowOK, HashesAt
<1>7. \A l \in 1..n : RowOK(commitments[l])' /\ keys'[commitments'[l].key] # "none"
  BY <1>1, <1>5, <1>6 DEF CommitmentsInv
<1>8. CommitmentsInv'
  BY <1>3, <1>4, <1>7 DEF CommitmentsInv
<1>9. QED
  BY <1>1, <1>3, <1>8 DEF CommitmentsStep

LEMMA RevokeCommitmentRowStep ==
  ASSUME AgentInv, NEW s \in Slots, RevokeCommitmentRow(s)
  PROVE  Step(s)
<1> USE DEF AgentInv, AgentTyped
<1> DEFINE k == calls[s].of[1]
<1>1. /\ calls[s].cmd = "revoke_commitment" /\ calls[s].phase = "sent" /\ Answer(s, TRUE, Nothing)
      /\ commitments' = [commitments EXCEPT ![k].revoked = TRUE]
      /\ UNCHANGED <<evidence, imported, claims, stamp, keys>>
  BY DEF RevokeCommitmentRow, Executing, Id
<1>2. k \in DOMAIN commitments
  BY <1>1 DEF RangesInv
<1> HIDE DEF k
<1>3. Progress(s) /\ AnswerStep(s)
  BY <1>1, NothingAnswered
<1>4. ClaimsStep(s) /\ DocsStep(s) /\ KeysStep(s)
  BY <1>1, ClaimsStay, DocsStay, KeysStay DEF OnClaim
<1>5. CommitmentsStep
  BY <1>1, <1>2, CommitmentMarked
<1>6. QED
  BY <1>3, <1>4, <1>5 DEF Step

\* No claim in the call for a commitment that was not overtaken is pending.
LEMMA CommittedVerified ==
  ASSUME AgentInv, NEW s \in Slots,
         calls[s].cmd = "create_commitment", calls[s].phase = "sent",
         NEW c \in Range(calls[s].of), c \notin overtaken
  PROVE  claims[c] = "verified"
<1> USE DEF AgentInv
<1>1. calls[s].of \in Seq(Claims) /\ calls[s].of # <<>>
  BY DEF AgentTyped, CallsTyped, CallShape
<1>2. c \in Claims
  BY <1>1, RangeOfSeq
<1>3. c \in Changes(calls[s])
  BY ChangesOf
<1>4. calls[s].mine
  BY <1>3 DEF OvertakenInv
<1>5. ~loading /\ shown.claims[c] = "verified"
  BY <1>4 DEF MineInv, Awaited, SelectedInv
<1>6. ASSUME NEW t \in Slots, OnClaim(calls[t]), calls[t].of = <<c>>
      PROVE  FALSE
  <2>1. t # s
    BY <1>6 DEF OnClaim
  <2>2. c \in Changes(calls[t])
    BY <1>6, ChangesOf, RangeOfOne DEF OnClaim
  <2>3. QED
    BY <1>3, <2>1, <2>2 DEF OvertakenInv
<1>7. shown.claims[c] \in {"none", claims[c]}
  BY <1>2, <1>5, <1>6 DEF ClaimsInv, ClaimAgrees
<1>8. QED
  BY <1>5, <1>7

LEMMA RowsAreSequence ==
  ASSUME NEW n \in Nat, NEW rows, rows = [l \in 1..n |-> rows[l]]
  PROVE  rows \in Seq({rows[l] : l \in DOMAIN rows})
<1>1. DOMAIN rows = 1..n
  OBVIOUS
<1>2. QED
  BY <1>1, IsASeq

LEMMA CommitmentAppended ==
  ASSUME CommitmentsInv, NEW row, RowOK(row), keys'[row.key] # "none",
         \A k \in KeyIds : keys[k] # "none" => keys'[k] # "none",
         commitments' = Append(commitments, row)
  PROVE  CommitmentsStep /\ Len(commitments) + 1 \in DOMAIN commitments'
<1> DEFINE rows == {commitments[l] : l \in DOMAIN commitments}
           all == rows \cup {row}
           n == Len(commitments)
<1>1. commitments \in Seq(rows)
  BY DEF CommitmentsInv
<1> HIDE DEF rows
<1>2. n \in Nat /\ DOMAIN commitments = 1..n
  BY <1>1, LenProperties
<1>3. commitments \in Seq(all)
  BY <1>1, SeqMonotonic
<1> HIDE DEF all
<1>4. row \in all
  BY DEF all
<1>5. /\ commitments' \in Seq(all) /\ Len(commitments') = n + 1
      /\ \A l \in 1..n : commitments'[l] = commitments[l]
      /\ commitments'[n + 1] = row
  BY <1>3, <1>4, AppendProperties
<1> HIDE DEF n
<1>6. DOMAIN commitments' = 1..(n + 1) /\ commitments' \in [1..(n + 1) -> all]
  BY <1>5, LenProperties
<1>7. commitments' \in Seq({commitments'[l] : l \in DOMAIN commitments'})
  <2>1. n + 1 \in Nat
    BY <1>2
  <2>2. commitments' = [l \in 1..(n + 1) |-> commitments'[l]]
    BY <1>6
  <2>3. QED
    BY <2>1, <2>2, RowsAreSequence
<1>8. \A l \in 1..(n + 1) : RowOK(commitments'[l]) /\ keys'[commitments'[l].key] # "none"
  <2>1. \A l \in 1..n : RowOK(commitments[l]) /\ keys[commitments[l].key] # "none"
    BY <1>2 DEF CommitmentsInv
  <2>2. \A l \in 1..n : RowOK(commitments'[l]) /\ keys'[commitments'[l].key] # "none"
    BY <1>5, <2>1 DEF RowOK
  <2>3. \A l \in 1..(n + 1) : l \in 1..n \/ l = n + 1
    BY <1>2
  <2>4. QED
    BY <1>5, <2>2, <2>3
<1>9. CommitmentsInv'
  <2>1. n + 1 \in Nat /\ DOMAIN commitments' = 1..(n + 1)
    BY <1>2, <1>6
  <2>2. \A l \in DOMAIN commitments' : RowOK(commitments[l])'
    BY <1>6, <1>8 DEF RowOK, HashesAt
  <2>3. QED
    BY <1>7, <1>8, <2>1, <2>2 DEF CommitmentsInv
<1>10. n + 1 \in DOMAIN commitments' /\ DOMAIN commitments \subseteq DOMAIN commitments'
  BY <1>2, <1>6
<1>11. QED
  BY <1>9, <1>10 DEF CommitmentsStep, n

LEMMA CreateCommitmentRowStep ==
  ASSUME AgentInv, NEW s \in Slots, CreateCommitmentRow(s)
  PROVE  Step(s)
<1> USE DEF AgentInv, AgentTyped
<1> DEFINE ids == calls[s].of
<1>1. /\ calls[s].cmd = "create_commitment" /\ calls[s].phase = "sent"
      /\ UNCHANGED <<evidence, imported, claims, stamp>>
  BY DEF CreateCommitmentRow, Executing
<1>2. ids \in Seq(Claims) /\ ids # <<>>
  BY <1>1 DEF CallsTyped, CallShape
<1>4. PICK k \in IF ActiveKeys # {} THEN ActiveKeys ELSE FreeKeys :
        /\ keys' = IF ActiveKeys # {} THEN keys ELSE WithNewKey(k)
        /\ \/ /\ Range(ids) \subseteq Present
              /\ Len(commitments) < MaxCommitments
              /\ commitments' = Append(commitments,
                   [claims |-> ids, root |-> MerkleRoot(LeafHashes(ids)), key |-> k,
                    revoked |-> FALSE, expired |-> FALSE, stamps |-> stamp,
                    pending |-> {c \in Range(ids) : claims[c] # "verified"} \ overtaken])
              /\ Answer(s, TRUE, [Nothing EXCEPT !.active = {Len(commitments) + 1}])
           \/ /\ Answer(s, FALSE, Nothing)
              /\ UNCHANGED commitments
  BY DEF CreateCommitmentRow
<1>5. /\ KeysTyped' /\ k \in KeyIds /\ keys'[k] # "none"
      /\ \A l \in KeyIds : keys[l] # "none" => keys'[l] # "none"
  <2>1. CASE ActiveKeys # {}
    BY <1>4, <2>1 DEF KeysTyped, ActiveKeys
  <2>2. CASE ActiveKeys = {}
    BY <1>4, <2>2, KeyMade
  <2>3. QED
    BY <2>1, <2>2
<1>6. KeysStep(s)
  BY <1>1, <1>5 DEF KeysStep
<1>7. ClaimsStep(s) /\ DocsStep(s)
  BY <1>1, ClaimsStay, DocsStay DEF OnClaim
<1>8. CASE Answer(s, FALSE, Nothing) /\ UNCHANGED commitments
  BY <1>1, <1>5, <1>6, <1>7, <1>8, NothingAnswered, CommitmentsStay DEF Step
<1>9. CASE /\ commitments' = Append(commitments,
                [claims |-> ids, root |-> MerkleRoot(LeafHashes(ids)), key |-> k,
                 revoked |-> FALSE, expired |-> FALSE, stamps |-> stamp,
                 pending |-> {c \in Range(ids) : claims[c] # "verified"} \ overtaken])
           /\ Answer(s, TRUE, [Nothing EXCEPT !.active = {Len(commitments) + 1}])
  <2> DEFINE row == [claims |-> ids, root |-> MerkleRoot(LeafHashes(ids)), key |-> k,
                     revoked |-> FALSE, expired |-> FALSE, stamps |-> stamp,
                     pending |-> {c \in Range(ids) : claims[c] # "verified"} \ overtaken]
             got == [Nothing EXCEPT !.active = {Len(commitments) + 1}]
             rows == {commitments[l] : l \in DOMAIN commitments}
  <2>1. {c \in Range(ids) : claims[c] # "verified"} \ overtaken = {}
    BY <1>1, CommittedVerified
  <2>2. HashesAt(ids, stamp) = LeafHashes(ids)
    BY DEF HashesAt, LeafHashes, ClaimHash
  <2>3. /\ row.claims = ids /\ row.key = k /\ row.stamps = stamp /\ row.pending = {}
        /\ row.root = MerkleRoot(HashesAt(ids, stamp))
    BY <2>1, <2>2
  <2> HIDE DEF row, ids
  <2>4. RowOK(row)
    BY <1>2, <1>5, <2>3 DEF RowOK, RowsTyped
  <2>5. CommitmentsStep /\ Len(commitments) + 1 \in DOMAIN commitments'
    <3>1. commitments' = Append(commitments, row)
      BY <1>9 DEF row, ids
    <3>2. QED
      BY <1>5, <2>3, <2>4, <3>1, CommitmentAppended
  <2>6. got \in Lists /\ got.active \subseteq DOMAIN commitments' /\ got.docs = {}
    <3>1. Len(commitments) + 1 \in Nat
      BY LenProperties DEF CommitmentsInv
    <3>2. QED
      BY <2>5, <3>1, NothingTyped DEF Nothing, Lists
  <2> HIDE DEF got
  <2>7. /\ Progress(s) /\ (~calls[s].mine => calls'[s] = Idle)
        /\ calls[s].mine => calls'[s].got = got
    BY <1>1, <1>9, <2>6, Answered DEF got
  <2>8. AnswerStep(s)
    BY <1>1, <2>6, <2>7, IdleTyped DEF AnswerStep, Nothing
  <2>9. QED
    BY <1>6, <1>7, <2>5, <2>7, <2>8 DEF Step
<1>10. QED
  BY <1>4, <1>8, <1>9

-----------------------------------------------------------------------------
(* The invariant and the commands                                          *)

\* A call keeps its screen and what it is about until it is answered.
LEMMA ProgressOf ==
  ASSUME AgentInv, NEW s \in Slots, Progress(s), NEW t \in Slots
  PROVE  /\ calls'[t].mine <=> calls[t].mine
         /\ calls'[t].mine => /\ calls'[t].cmd = calls[t].cmd /\ calls'[t].of = calls[t].of
                              /\ calls'[t].to = calls[t].to
         /\ calls'[t].cmd # "idle" => calls'[t].cmd = calls[t].cmd /\ calls'[t].of = calls[t].of
         /\ Changes(calls'[t]) \subseteq Changes(calls[t])
         /\ ~Done(calls[s])
         /\ Done(calls'[t]) => IF t = s THEN calls[s].mine ELSE Done(calls[t])
         /\ t # s => calls'[t] = calls[t]
         /\ calls'[t].phase = "sent" => t # s
         /\ calls'[t].phase = "answered" /\ calls'[t].cmd # "idle" => calls'[t].mine
<1> USE DEF AgentInv
<1>1. /\ calls[s].cmd # "idle" /\ calls[s].phase # "answered"
      /\ \A u \in Slots \ {s} : calls'[u] = calls[u]
      /\ \/ calls'[s] = Idle /\ ~calls[s].mine
         \/ /\ calls'[s].cmd = calls[s].cmd /\ calls'[s].of = calls[s].of
            /\ calls'[s].to = calls[s].to /\ (calls'[s].mine <=> calls[s].mine)
            /\ \/ calls'[s].phase = "answered" /\ calls[s].mine
               \/ calls'[s].phase = "working"
  BY DEF Progress
<1>2. ~Done(calls[s])
  BY <1>1 DEF Done
<1>3. calls[t].phase = "answered" /\ calls[t].cmd # "idle" => calls[t].mine
  BY DEF MineInv
<1>4. CASE t # s
  BY <1>1, <1>2, <1>3, <1>4
<1>5. CASE t = s /\ calls'[s] = Idle /\ ~calls[s].mine
  BY <1>1, <1>2, <1>5, IdleTyped DEF Done
<1>6. CASE t = s /\ calls'[s].cmd = calls[s].cmd
  <2>1. Changes(calls'[s]) = Changes(calls[s])
    BY <1>1, <1>6, IdleTyped, ChangesSame
  <2>2. CASE calls'[s].phase = "answered" /\ calls[s].mine
    BY <1>1, <1>2, <1>6, <2>1, <2>2, IdleTyped
  <2>3. CASE calls'[s].phase = "working"
    BY <1>1, <1>2, <1>6, <2>1, <2>3, IdleTyped DEF Done
  <2>4. QED
    BY <1>1, <1>6, <2>2, <2>3, IdleTyped
<1>7. QED
  BY <1>1, <1>4, <1>5, <1>6

\* No two calls that are not overtaken change the same row.
LEMMA AlonePending ==
  ASSUME OvertakenInv, NEW s \in Slots, NEW x, x \in Changes(calls[s]), x \notin overtaken
  PROVE  calls[s].mine /\ \A t \in Slots \ {s} : x \notin Changes(calls[t])
BY DEF OvertakenInv

LEMMA OnClaimChanges ==
  ASSUME NEW call, NEW c, OnClaim(call), call.of = <<c>>
  PROVE  Changes(call) = {c}
BY ChangesOf, RangeOfOne DEF OnClaim

LEMMA IsOnClaim ==
  ASSUME NEW call, NEW c
  PROVE  Is(call, "verify_claim", c) \/ Is(call, "delete_claim", c)
           <=> OnClaim(call) /\ call.of = <<c>>
BY DEF Is, OnClaim

LEMMA StepTyped ==
  ASSUME AgentInv, NEW s \in Slots, Step(s)
  PROVE  AgentTyped' /\ KeysTyped' /\ RangesInv' /\ CommitmentsInv'
<1> USE DEF AgentInv
<1>1. /\ Progress(s) /\ ClaimsStep(s) /\ DocsStep(s) /\ KeysStep(s) /\ CommitmentsStep
      /\ AnswerStep(s)
  BY DEF Step
<1>2. \A t \in Slots : CallShape(calls'[t])
  <2> SUFFICES ASSUME NEW t \in Slots PROVE CallShape(calls'[t])
    OBVIOUS
  <2>1. CallShape(calls[t])
    BY DEF AgentTyped, CallsTyped
  <2>2. CASE t # s
    BY <1>1, <2>1, <2>2 DEF Progress
  <2>3. CASE t = s
    <3>1. CASE calls'[s] = Idle
      BY <2>3, <3>1, IdleTyped
    <3>2. CASE /\ calls'[s].cmd = calls[s].cmd /\ calls'[s].of = calls[s].of
               /\ calls[s].cmd # "idle"
      BY <2>1, <2>3, <3>2 DEF CallShape, OnClaim, OnDocument
    <3>3. QED
      BY <1>1, <3>1, <3>2 DEF Progress
  <2>4. QED
    BY <2>2, <2>3
<1>3. CallsTyped'
  <2>1. \A t \in Slots : CallShape(calls[t])'
    BY <1>2 DEF CallShape, OnClaim, OnDocument
  <2>2. QED
    BY <1>1, <2>1 DEF CallsTyped, Progress
<1>4. RowsTyped'
  BY <1>1 DEF ClaimsStep, DocsStep, RowsTyped
<1>5. ScreenTyped'
  BY <1>1 DEF Progress, ScreenTyped, AgentTyped
<1>6. RangesInv'
  <2>1. shown' = shown /\ DOMAIN commitments \subseteq DOMAIN commitments' /\ imported \subseteq imported'
    BY <1>1 DEF Progress, CommitmentsStep, DocsStep
  <2>2. ASSUME NEW t \in Slots
        PROVE  /\ calls'[t].got.active \subseteq DOMAIN commitments'
               /\ calls'[t].got.docs \subseteq imported'
    <3>1. CASE t = s
      BY <1>1, <3>1 DEF AnswerStep
    <3>2. CASE t # s
      BY <1>1, <2>1, <3>2, ProgressOf DEF RangesInv
    <3>3. QED
      BY <3>1, <3>2
  <2>3. ASSUME NEW t \in Slots
        PROVE  /\ calls'[t].cmd = "delete_evidence" => calls'[t].of[1] \in imported'
               /\ calls'[t].cmd = "revoke_commitment" => calls'[t].of[1] \in DOMAIN commitments'
    <3>1. calls'[t].cmd # "idle" => calls'[t].cmd = calls[t].cmd /\ calls'[t].of = calls[t].of
      BY <1>1, ProgressOf
    <3>2. QED
      BY <2>1, <3>1 DEF RangesInv
  <2>4. QED
    BY <2>1, <2>2, <2>3 DEF RangesInv
<1>7. QED
  BY <1>1, <1>3, <1>4, <1>5, <1>6 DEF AgentTyped, KeysStep, CommitmentsStep

LEMMA StepMine ==
  ASSUME AgentInv, NEW s \in Slots, Step(s)
  PROVE  MineInv' /\ OvertakenInv' /\ SelectedInv'
<1> USE DEF AgentInv
<1>1. Progress(s) /\ UNCHANGED <<screen, loading, shown, selected, dialog, overtaken>>
  BY DEF Step, Progress
<1>2. MineInv'
  <2>1. ASSUME NEW t \in Slots, calls'[t].mine
        PROVE  Awaited(calls[t])'
    <3>1. Awaited(calls[t]) /\ calls'[t].cmd = calls[t].cmd
      BY <1>1, <2>1, ProgressOf DEF MineInv
    <3>2. QED
      BY <1>1, <3>1 DEF Awaited, OnClaim, OnDocument
  <2>2. \A t \in Slots : calls'[t].phase = "answered" /\ calls'[t].cmd # "idle" => calls'[t].mine
    BY <1>1, ProgressOf
  <2>3. \A t \in Slots : calls'[t].mine <=> calls[t].mine
    BY <1>1, ProgressOf
  <2>4. loading' => shown' = Nothing /\ \A t, u \in Slots : calls'[t].mine /\ calls'[u].mine => t = u
    BY <1>1, <2>3 DEF MineInv
  <2>5. QED
    BY <2>1, <2>2, <2>4 DEF MineInv, Nothing
<1>3. OvertakenInv'
  <2>1. \A t \in Slots : Changes(calls'[t]) \subseteq Changes(calls[t])
    BY <1>1, ProgressOf
  <2>2. \A t \in Slots : calls'[t].mine <=> calls[t].mine
    BY <1>1, ProgressOf
  <2>3. \A t \in Slots : ~calls'[t].mine => Changes(calls'[t]) \subseteq overtaken'
    BY <1>1, <2>1, <2>2 DEF OvertakenInv
  <2>4. \A t, u \in Slots : t # u => Changes(calls'[t]) \cap Changes(calls'[u]) \subseteq overtaken'
    BY <1>1, <2>1 DEF OvertakenInv
  <2>5. QED
    BY <2>3, <2>4 DEF OvertakenInv, Changes
<1>4. SelectedInv'
  <2>1. ASSUME NEW t \in Slots, calls'[t].mine, calls'[t].cmd = "create_commitment"
        PROVE  \A c \in Range(calls'[t].of) : shown'.claims[c] = "verified"
    <3>1. calls[t].mine /\ calls[t].cmd = "create_commitment" /\ calls'[t].of = calls[t].of
      BY <1>1, <2>1, ProgressOf
    <3>2. QED
      BY <1>1, <3>1 DEF SelectedInv
  <2>2. QED
    BY <1>1, <2>1 DEF SelectedInv, Range
<1>5. QED
  BY <1>2, <1>3, <1>4

LEMMA StepClaims ==
  ASSUME AgentInv, NEW s \in Slots, Step(s)
  PROVE  ClaimsInv'
<1> USE DEF AgentInv
<1>1. /\ Progress(s) /\ ClaimsStep(s)
      /\ UNCHANGED <<screen, loading, shown, selected, dialog, overtaken>>
  BY DEF Step, Progress
<1> SUFFICES ASSUME ~loading, NEW c \in Claims \ overtaken
             PROVE  ClaimAgrees(c, shown.claims[c], claims'[c], calls')
  BY <1>1 DEF ClaimsInv
<1> USE DEF ClaimAgrees
<1>2. ClaimAgrees(c, shown.claims[c], claims[c], calls)
  BY DEF ClaimsInv
<1>3. shown.claims[c] \in {"none", "pending", "verified"}
  BY DEF AgentTyped, ScreenTyped, Lists
<1>4. ~Done(calls[s]) /\ \A t \in Slots \ {s} : calls'[t] = calls[t]
  BY <1>1, ProgressOf
<1>5. /\ calls'[s].phase # "sent"
      /\ calls'[s].cmd # "idle" => calls'[s].cmd = calls[s].cmd /\ calls'[s].of = calls[s].of
      /\ Done(calls'[s]) => calls[s].mine /\ calls'[s].cmd = calls[s].cmd
                              /\ calls'[s].of = calls[s].of
  <2>1. Done(calls'[s]) => calls[s].mine
    BY <1>1, ProgressOf
  <2>2. /\ calls'[s].phase # "sent"
        /\ calls'[s].cmd # "idle" => calls'[s].cmd = calls[s].cmd /\ calls'[s].of = calls[s].of
    BY <1>1, ProgressOf
  <2>3. calls[s].mine => calls'[s].cmd = calls[s].cmd /\ calls'[s].of = calls[s].of
    BY <1>1, ProgressOf
  <2>4. QED
    BY <2>1, <2>2, <2>3
\* If s is about this claim, nothing else is, and so the row shows what is stored.
<1>6. ASSUME OnClaim(calls[s]), calls[s].of = <<c>>
      PROVE  /\ calls[s].mine
             /\ \A t \in Slots \ {s} : ~(OnClaim(calls[t]) /\ calls[t].of = <<c>>)
             /\ shown.claims[c] \in {"none", claims[c]}
  <2>1. calls[s].mine /\ \A t \in Slots \ {s} : c \notin Changes(calls[t])
    BY <1>6, OnClaimChanges, AlonePending
  <2>2. \A t \in Slots \ {s} : ~(OnClaim(calls[t]) /\ calls[t].of = <<c>>)
    BY <2>1, OnClaimChanges
  <2>3. QED
    BY <1>2, <1>4, <2>1, <2>2
<1>7. \/ /\ claims'[c] = claims[c]
         /\ ~(OnClaim(calls[s]) /\ calls[s].of = <<c>> /\ Done(calls'[s]))
      \/ claims[c] = "unused" /\ claims'[c] = "pending" /\ calls[s].cmd = "extract_claims"
      \/ /\ Is(calls[s], "verify_claim", c) /\ claims[c] \in {"pending", "verified"}
         /\ claims'[c] = IF calls[s].to THEN "verified" ELSE "pending"
         /\ calls[s].phase = "sent"
         /\ calls[s].mine => Done(calls'[s])
      \/ /\ Is(calls[s], "delete_claim", c) /\ claims'[c] = "deleted"
         /\ calls[s].mine => Done(calls'[s])
  BY <1>1 DEF ClaimsStep
<1>8. CASE ~(OnClaim(calls[s]) /\ calls[s].of = <<c>>)
  <2>1. \/ claims'[c] = claims[c]
        \/ claims[c] = "unused" /\ claims'[c] = "pending"
    BY <1>7, <1>8, IsOnClaim
  <2>2. ~(OnClaim(calls'[s]) /\ calls'[s].of = <<c>>)
    BY <1>5, <1>8 DEF OnClaim
  <2>3. (\A t \in Slots : Done(calls'[t]) => ~(OnClaim(calls'[t]) /\ calls'[t].of = <<c>>))
          => shown.claims[c] \in {"none", claims'[c]}
    BY <1>2, <1>3, <1>4, <2>1
  <2>4. ASSUME NEW t \in Slots
        PROVE  /\ Is(calls'[t], "verify_claim", c) /\ calls'[t].phase = "sent" =>
                    shown.claims[c] # "none" /\ (calls'[t].to <=> shown.claims[c] # "verified")
               /\ Is(calls'[t], "verify_claim", c) /\ Done(calls'[t]) =>
                    \/ shown.claims[c] = "pending" /\ claims'[c] = "verified"
                    \/ shown.claims[c] = "verified" /\ claims'[c] = "pending"
               /\ Is(calls'[t], "delete_claim", c) /\ Done(calls'[t]) => claims'[c] = "deleted"
    <3>1. CASE t = s
      BY <2>2, <3>1, IsOnClaim
    <3>2. CASE t # s
      BY <1>2, <1>4, <2>1, <3>2
    <3>3. QED
      BY <3>1, <3>2
  <2>5. QED
    BY <2>3, <2>4
<1>9. CASE OnClaim(calls[s]) /\ calls[s].of = <<c>>
  <2>1. /\ calls[s].mine /\ shown.claims[c] \in {"none", claims[c]}
        /\ \A t \in Slots \ {s} : ~(OnClaim(calls'[t]) /\ calls'[t].of = <<c>>)
    BY <1>4, <1>6, <1>9
  <2>2. \A t \in Slots \ {s} : ~Is(calls'[t], "verify_claim", c) /\ ~Is(calls'[t], "delete_claim", c)
    BY <2>1, IsOnClaim
  <2>3. CASE ~Done(calls'[s])
    <3>1. claims'[c] = claims[c]
      BY <1>7, <1>9, <2>1, <2>3 DEF OnClaim
    <3>2. QED
      BY <1>5, <2>1, <2>2, <2>3, <3>1
  <2>4. CASE Done(calls'[s])
    <3>1. OnClaim(calls'[s]) /\ calls'[s].of = <<c>>
      BY <1>5, <1>9, <2>4 DEF OnClaim
    <3>2. CASE calls[s].cmd = "verify_claim"
      <4>1. /\ Is(calls[s], "verify_claim", c) /\ claims[c] \in {"pending", "verified"}
            /\ claims'[c] = IF calls[s].to THEN "verified" ELSE "pending"
            /\ calls[s].phase = "sent"
        BY <1>7, <1>9, <2>4, <3>2 DEF Is
      <4>2. shown.claims[c] = claims[c] /\ (calls[s].to <=> shown.claims[c] # "verified")
        BY <1>2, <2>1, <4>1
      <4>3. \/ shown.claims[c] = "pending" /\ claims'[c] = "verified"
            \/ shown.claims[c] = "verified" /\ claims'[c] = "pending"
        <5>1. CASE claims[c] = "pending"
          BY <4>1, <4>2, <5>1
        <5>2. CASE claims[c] = "verified"
          BY <4>1, <4>2, <5>2
        <5>3. QED
          BY <4>1, <5>1, <5>2
      <4>4. ~Is(calls'[s], "delete_claim", c)
        BY <1>5, <2>4, <3>2 DEF Is
      <4>5. QED
        BY <1>5, <2>2, <2>4, <3>1, <4>3, <4>4
    <3>3. CASE calls[s].cmd = "delete_claim"
      <4>1. claims'[c] = "deleted"
        BY <1>7, <1>9, <2>4, <3>3 DEF Is
      <4>2. ~Is(calls'[s], "verify_claim", c)
        BY <1>5, <2>4, <3>3 DEF Is
      <4>3. QED
        BY <1>5, <2>2, <2>4, <3>1, <4>1, <4>2
    <3>4. QED
      BY <1>9, <3>2, <3>3 DEF OnClaim
  <2>5. QED
    BY <2>3, <2>4
<1>10. QED
  BY <1>8, <1>9

LEMMA IsDelete ==
  ASSUME NEW call, NEW d, Is(call, "delete_evidence", d)
  PROVE  call.cmd = "delete_evidence" /\ call.of[1] = d /\ Changes(call) = {d}
<1>1. call.cmd = "delete_evidence" /\ call.of = <<d>>
  BY DEF Is
<1>2. QED
  BY <1>1, ChangesOf, RangeOfOne

LEMMA StepDocs ==
  ASSUME AgentInv, NEW s \in Slots, Step(s)
  PROVE  DocsInv'
<1> USE DEF AgentInv
<1>1. /\ Progress(s) /\ DocsStep(s)
      /\ UNCHANGED <<screen, loading, shown, selected, dialog, overtaken>>
  BY DEF Step, Progress
<1>2. ~Done(calls[s]) /\ \A t \in Slots \ {s} : calls'[t] = calls[t]
  BY <1>1, ProgressOf
<1>3. ASSUME NEW d \in shown.docs \ overtaken
      PROVE  d \in evidence' \/ \E t \in Slots : Is(calls'[t], "delete_evidence", d) /\ Done(calls'[t])
  <2>1. CASE d \in evidence
    <3>1. \/ d \in evidence'
          \/ Is(calls[s], "delete_evidence", d) /\ (calls[s].mine => Done(calls'[s]))
      BY <1>1, <2>1 DEF DocsStep
    <3>2. CASE Is(calls[s], "delete_evidence", d) /\ (calls[s].mine => Done(calls'[s]))
      <4>1. calls[s].mine
        BY <1>3, <3>2, IsDelete, AlonePending
      <4>2. calls'[s].cmd = calls[s].cmd /\ calls'[s].of = calls[s].of
        BY <1>1, <4>1, ProgressOf
      <4>3. QED
        BY <3>2, <4>1, <4>2 DEF Is
    <3>3. QED
      BY <3>1, <3>2
  <2>2. CASE d \notin evidence
    <3>1. PICK t \in Slots : Is(calls[t], "delete_evidence", d) /\ Done(calls[t])
      BY <1>3, <2>2 DEF DocsInv
    <3>2. t # s
      BY <1>2, <3>1
    <3>3. QED
      BY <1>2, <3>1, <3>2
  <2>3. QED
    BY <2>1, <2>2
<1>4. ASSUME NEW t \in Slots, calls'[t].cmd = "ingest_document", calls'[t].mine
      PROVE  /\ calls'[t].of[1] \notin shown.docs
             /\ Done(calls'[t]) => calls'[t].of[1] \in evidence'
             /\ \A u \in Slots : calls'[u].cmd = "delete_evidence" => calls'[u].of[1] # calls'[t].of[1]
             /\ \A u \in Slots : calls'[u].cmd = "ingest_document" /\ calls'[u].mine => u = t
  <2>1. calls[t].cmd = "ingest_document" /\ calls[t].mine /\ calls'[t].of = calls[t].of
    BY <1>1, <1>4, ProgressOf
  <2>2. /\ calls[t].of[1] \notin shown.docs
        /\ Done(calls[t]) => calls[t].of[1] \in evidence
        /\ \A u \in Slots : calls[u].cmd = "delete_evidence" => calls[u].of[1] # calls[t].of[1]
        /\ \A u \in Slots : calls[u].cmd = "ingest_document" /\ calls[u].mine => u = t
    BY <2>1 DEF DocsInv
  <2>3. \A u \in Slots : calls'[u].cmd = "delete_evidence" => calls'[u].of[1] # calls'[t].of[1]
    <3>1. ASSUME NEW u \in Slots, calls'[u].cmd = "delete_evidence"
          PROVE  calls[u].cmd = "delete_evidence" /\ calls'[u].of = calls[u].of
      BY <1>1, <3>1, ProgressOf
    <3>2. QED
      BY <2>1, <2>2, <3>1
  <2>4. \A u \in Slots : calls'[u].cmd = "ingest_document" /\ calls'[u].mine => u = t
    <3>1. ASSUME NEW u \in Slots, calls'[u].cmd = "ingest_document", calls'[u].mine
          PROVE  calls[u].cmd = "ingest_document" /\ calls[u].mine
      BY <1>1, <3>1, ProgressOf
    <3>2. QED
      BY <2>2, <3>1
  <2>5. ASSUME Done(calls'[t]) PROVE calls[t].of[1] \in evidence'
    <3>1. CASE t = s
      BY <1>1, <2>1, <2>5, <3>1 DEF DocsStep
    <3>2. CASE t # s
      <4>1. calls[t].of[1] \in evidence
        BY <1>2, <2>2, <2>5, <3>2
      <4>2. ~Is(calls[s], "delete_evidence", calls[t].of[1])
        BY <2>2, IsDelete
      <4>3. QED
        BY <1>1, <4>1, <4>2 DEF DocsStep
    <3>3. QED
      BY <3>1, <3>2
  <2>6. QED
    BY <2>1, <2>2, <2>3, <2>4, <2>5
<1>5. QED
  BY <1>1, <1>3, <1>4 DEF DocsInv, Is, Done

LEMMA StepKey ==
  ASSUME AgentInv, NEW s \in Slots, Step(s)
  PROVE  KeyInv'
<1> USE DEF AgentInv
<1>1. /\ Progress(s) /\ KeysStep(s)
      /\ UNCHANGED <<screen, loading, shown, selected, dialog, overtaken>>
  BY DEF Step, Progress
<1>2. ~Done(calls[s]) /\ \A t \in Slots \ {s} : calls'[t] = calls[t]
  BY <1>1, ProgressOf
<1>3. calls'[s].cmd # "idle" => calls'[s].cmd = calls[s].cmd
  BY <1>1, ProgressOf
<1>4. shown.key # NoKey => screen = "settings"
  BY DEF KeyInv
<1>5. ASSUME "keypair" \notin overtaken,
             \A t \in Slots : Done(calls'[t]) => calls'[t].cmd # "generate_new_keypair"
      PROVE  shown.key = NoKey \/ shown.key = ActiveKey' \/ ActiveKey' = NoKey
  <2>1. shown.key = NoKey \/ shown.key = ActiveKey \/ ActiveKey = NoKey
    BY <1>2, <1>5 DEF KeyInv
  <2>2. CASE calls[s].cmd \notin {"create_commitment", "generate_new_keypair"}
    BY <1>1, <2>1, <2>2 DEF KeysStep
  <2>3. CASE calls[s].cmd \in {"create_commitment", "generate_new_keypair"}
    <3>1. "keypair" \in Changes(calls[s])
      BY <2>3, ChangesOf
    <3>2. calls[s].mine
      BY <1>5, <3>1, AlonePending
    <3>3. CASE calls[s].cmd = "create_commitment"
      BY <1>4, <3>2, <3>3 DEF MineInv, Awaited
    <3>4. CASE calls[s].cmd = "generate_new_keypair"
      <4>1. calls'[s].cmd = "generate_new_keypair"
        BY <1>1, <3>2, <3>4, ProgressOf
      <4>2. ActiveKey' \in {ActiveKey, NoKey}
        BY <1>1, <1>5, <3>2, <3>4, <4>1 DEF KeysStep
      <4>3. QED
        BY <2>1, <4>2
    <3>5. QED
      BY <2>3, <3>3, <3>4
  <2>4. QED
    BY <2>2, <2>3
<1>6. ASSUME "keypair" \notin overtaken, NEW t \in Slots,
             calls'[t].cmd = "generate_new_keypair", Done(calls'[t])
      PROVE  calls'[t].got.key = ActiveKey'
  <2>1. CASE t = s
    BY <1>1, <1>3, <1>6, <2>1 DEF KeysStep
  <2>2. CASE t # s
    <3>1. "keypair" \in Changes(calls[t])
      BY <1>2, <1>6, <2>2, ChangesOf
    <3>2. calls[s].cmd \notin {"create_commitment", "generate_new_keypair"}
      BY <1>6, <2>2, <3>1, AlonePending, ChangesOf
    <3>3. calls[t].got.key = ActiveKey
      BY <1>2, <1>6, <2>2 DEF KeyInv
    <3>4. QED
      BY <1>1, <1>2, <2>2, <3>2, <3>3 DEF KeysStep
  <2>3. QED
    BY <2>1, <2>2
<1>7. QED
  BY <1>1, <1>4, <1>5, <1>6 DEF KeyInv, Done

LEMMA StepLists ==
  ASSUME AgentInv, NEW s \in Slots, Step(s)
  PROVE  ListsInv'
<1> USE DEF AgentInv
<1>1. /\ Progress(s) /\ ClaimsStep(s) /\ DocsStep(s) /\ KeysStep(s) /\ AnswerStep(s)
      /\ UNCHANGED <<screen, loading, shown, selected, dialog, overtaken>>
  BY DEF Step, Progress
<1>2. ~Done(calls[s]) /\ \A t \in Slots \ {s} : calls'[t] = calls[t]
  BY <1>1, ProgressOf
<1> SUFFICES ASSUME NEW t \in Slots, calls'[t].cmd = "list", Done(calls'[t])
             PROVE  /\ \A c \in Claims \ overtaken : calls'[t].got.claims[c] \in {"none", claims'[c]}
                    /\ calls'[t].got.docs \ overtaken \subseteq evidence'
                    /\ calls'[t].got.key # NoKey => screen = "settings"
                    /\ "keypair" \notin overtaken =>
                         \/ calls'[t].got.key = NoKey \/ calls'[t].got.key = ActiveKey'
                         \/ ActiveKey' = NoKey
  BY <1>1 DEF ListsInv, Done
<1>3. CASE t = s
  <2>1. calls[s].cmd = "list"
    BY <1>1, <1>3, ProgressOf
  <2>2. calls'[s].got = ListRows(screen) /\ UNCHANGED <<evidence, claims, keys>>
    BY <1>1, <1>3, <2>1 DEF AnswerStep
  <2>3. ActiveKey' = ActiveKey
    BY <2>2 DEF ActiveKey, ActiveKeys
  <2>4. QED
    BY <1>3, <2>2, <2>3
       DEF ListRows, ListedClaims, ListedEvidence, ListedKey
<1>4. CASE t # s
  <2>1. calls[t].cmd = "list" /\ Done(calls[t]) /\ calls'[t] = calls[t]
    BY <1>2, <1>4
  <2>2. calls[t].mine /\ loading
    BY <2>1 DEF MineInv, Awaited, Done
  <2>3. ~calls[s].mine
    BY <1>4, <2>2 DEF MineInv
  <2>4. Changes(calls[s]) \subseteq overtaken
    BY <2>3 DEF OvertakenInv
  <2>5. /\ \A c \in Claims \ overtaken : calls[t].got.claims[c] \in {"none", claims[c]}
        /\ calls[t].got.docs \ overtaken \subseteq evidence
        /\ calls[t].got.key # NoKey => screen = "settings"
        /\ "keypair" \notin overtaken =>
             \/ calls[t].got.key = NoKey \/ calls[t].got.key = ActiveKey
             \/ ActiveKey = NoKey
    BY <2>1 DEF ListsInv
  <2>6. ASSUME NEW c \in Claims \ overtaken
        PROVE  calls[t].got.claims[c] \in {"none", claims'[c]}
    <3>1. calls[t].got.claims[c] \in {"none", "pending", "verified"}
      BY DEF AgentTyped, CallsTyped, CallType, Lists
    <3>2. ~(OnClaim(calls[s]) /\ calls[s].of = <<c>>)
      BY <2>4, <2>6, OnClaimChanges
    <3>3. \/ claims'[c] = claims[c]
          \/ claims[c] = "unused" /\ claims'[c] = "pending"
      BY <1>1, <3>2, IsOnClaim DEF ClaimsStep
    <3>4. QED
      BY <2>5, <3>1, <3>3
  <2>7. ASSUME NEW d \in calls[t].got.docs \ overtaken
        PROVE  d \in evidence'
    <3>1. ~Is(calls[s], "delete_evidence", d)
      BY <2>4, <2>7, IsDelete
    <3>2. QED
      BY <1>1, <2>5, <2>7, <3>1 DEF DocsStep
  <2>8. ASSUME "keypair" \notin overtaken PROVE ActiveKey' = ActiveKey
    BY <1>1, <2>4, <2>8, ChangesOf DEF KeysStep
  <2>9. QED
    BY <2>1, <2>5, <2>6, <2>7, <2>8
<1>5. QED
  BY <1>3, <1>4

LEMMA StepKeeps ==
  ASSUME AgentInv, NEW s \in Slots, Step(s)
  PROVE  AgentInv'
BY StepTyped, StepMine, StepClaims, StepDocs, StepKey, StepLists DEF AgentInv

-----------------------------------------------------------------------------
(* The invariant and the buttons                                           *)

\* A call is sent by the mounted screen, for a row it shows.
Asked(call) ==
  /\ CallShape(call) /\ Awaited(call)
  /\ call.cmd # "list" /\ call.phase = "sent" /\ call.mine /\ call.got = Nothing
  /\ \A c \in Claims : Is(call, "verify_claim", c) =>
       shown.claims[c] # "none" /\ (call.to <=> shown.claims[c] # "verified")
  /\ call.cmd = "ingest_document" =>
       call.of[1] \notin imported
       /\ \A t \in Slots : calls[t].cmd = "ingest_document" => ~calls[t].mine
  /\ call.cmd = "delete_evidence" => call.of[1] \in shown.docs
  /\ call.cmd = "revoke_commitment" => call.of[1] \in shown.active
  /\ call.cmd = "create_commitment" => \A c \in Range(call.of) : shown.claims[c] = "verified"

Sent(s) ==
  /\ ~loading /\ calls[s].cmd = "idle"
  /\ calls' \in [Slots -> CallType] /\ \A t \in Slots \ {s} : calls'[t] = calls[t]
  /\ Asked(calls'[s])
  /\ overtaken' = overtaken \cup (Changes(calls'[s]) \cap InFlight)
  /\ UNCHANGED <<evidence, imported, claims, stamp, commitments, keys,
                 screen, loading, shown, selected, dialog>>

LEMMA SentWhen ==
  ASSUME AgentInv, NEW s \in Slots, NEW cmd \in Commands \ {"idle", "list"},
         NEW to \in BOOLEAN, NEW of \in Seq(Claims \cup Documents \cup Nat),
         Send(s, cmd, of, to),
         \A call : /\ ~loading
                   /\ call.cmd = cmd /\ call.of = of /\ (call.to <=> to)
                   /\ call.phase = "sent" /\ call.mine /\ call.got = Nothing
                   => Asked(call)
  PROVE  Sent(s)
<1> DEFINE call == [Idle EXCEPT !.cmd = cmd, !.of = of, !.to = to, !.phase = "sent", !.mine = TRUE]
<1>1. calls \in [Slots -> CallType]
  BY DEF AgentInv, AgentTyped, CallsTyped
<1>2. /\ ~loading /\ calls[s].cmd = "idle"
      /\ calls' = [calls EXCEPT ![s] = call]
      /\ overtaken' = overtaken \cup (Changes(call) \cap InFlight)
      /\ UNCHANGED <<evidence, imported, claims, stamp, commitments, keys,
                     screen, loading, shown, selected, dialog>>
  BY DEF Send, db
<1>3. /\ call \in CallType /\ call.cmd = cmd /\ call.of = of /\ (call.to <=> to)
      /\ call.phase = "sent" /\ call.mine /\ call.got = Nothing
  BY NothingTyped DEF Idle, CallType
<1>4. Asked(call)
  BY <1>2, <1>3
<1> HIDE DEF call
<1>5. /\ calls' \in [Slots -> CallType] /\ \A t \in Slots \ {s} : calls'[t] = calls[t]
      /\ calls'[s] = call
  BY <1>1, <1>2, <1>3
<1>6. QED
  BY <1>2, <1>4, <1>5 DEF Sent

LEMMA OneTyped ==
  ASSUME NEW S, NEW x \in S
  PROVE  <<x>> \in Seq(S) /\ <<x>>[1] = x
OBVIOUS

LEMMA ToggleVerifiedSent ==
  ASSUME AgentInv, NEW s \in Slots, NEW c \in Claims, ToggleVerified(s, c)
  PROVE  Sent(s)
<1> DEFINE to == shown.claims[c] # "verified"
<1>1. screen = "claims" /\ shown.claims[c] # "none" /\ Send(s, "verify_claim", <<c>>, to)
  BY DEF ToggleVerified, ClaimRow
<1>2. <<c>> \in Seq(Claims \cup Documents \cup Nat) /\ <<c>>[1] = c
  BY OneTyped
<1>3. ASSUME NEW call, ~loading, call.cmd = "verify_claim", call.of = <<c>>, call.to <=> to,
             call.phase = "sent", call.mine, call.got = Nothing
      PROVE  Asked(call)
  <2>1. CallShape(call) /\ Awaited(call)
    BY <1>1, <1>2, <1>3 DEF CallShape, Awaited, OnClaim, OnDocument
  <2>2. \A d \in Claims : Is(call, "verify_claim", d) =>
          shown.claims[d] # "none" /\ (call.to <=> shown.claims[d] # "verified")
    BY <1>1, <1>3 DEF Is
  <2>3. QED
    BY <1>3, <2>1, <2>2 DEF Asked
<1> HIDE DEF to
<1>4. to \in BOOLEAN
  BY DEF to
<1>5. QED
  BY <1>1, <1>2, <1>3, <1>4, SentWhen DEF Commands

LEMMA DeleteClaimSent ==
  ASSUME AgentInv, NEW s \in Slots, NEW c \in Claims, DeleteClaim(s, c)
  PROVE  Sent(s)
<1>1. screen = "claims" /\ Send(s, "delete_claim", <<c>>, FALSE)
  BY DEF DeleteClaim, ClaimRow
<1>2. <<c>> \in Seq(Claims \cup Documents \cup Nat) /\ <<c>>[1] = c
  BY OneTyped
<1>3. ASSUME NEW call, ~loading, call.cmd = "delete_claim", call.of = <<c>>, call.to <=> FALSE,
             call.phase = "sent", call.mine, call.got = Nothing
      PROVE  Asked(call)
  <2>1. CallShape(call) /\ Awaited(call)
    BY <1>1, <1>2, <1>3 DEF CallShape, Awaited, OnClaim, OnDocument
  <2>2. QED
    BY <1>1, <1>2, <1>3, <2>1 DEF Asked, Is
<1>4. QED
  BY <1>1, <1>2, <1>3, SentWhen DEF Commands

LEMMA ImportDocumentSent ==
  ASSUME AgentInv, NEW s \in Slots, NEW d \in Documents, ImportDocument(s, d)
  PROVE  Sent(s)
<1>1. /\ screen = "evidence" /\ d \notin imported
      /\ \A t \in Slots : calls[t].cmd = "ingest_document" => ~calls[t].mine
      /\ Send(s, "ingest_document", <<d>>, FALSE)
  BY DEF ImportDocument
<1>2. <<d>> \in Seq(Claims \cup Documents \cup Nat) /\ <<d>>[1] = d
  BY OneTyped
<1>3. ASSUME NEW call, ~loading, call.cmd = "ingest_document", call.of = <<d>>, call.to <=> FALSE,
             call.phase = "sent", call.mine, call.got = Nothing
      PROVE  Asked(call)
  <2>1. CallShape(call) /\ Awaited(call)
    BY <1>1, <1>2, <1>3 DEF CallShape, Awaited, OnClaim, OnDocument
  <2>2. QED
    BY <1>1, <1>2, <1>3, <2>1 DEF Asked, Is
<1>4. QED
  BY <1>1, <1>2, <1>3, SentWhen DEF Commands

LEMMA DeleteEvidenceSent ==
  ASSUME AgentInv, NEW s \in Slots, NEW d \in Documents, DeleteEvidence(s, d)
  PROVE  Sent(s)
<1>1. screen = "evidence" /\ d \in shown.docs /\ Send(s, "delete_evidence", <<d>>, FALSE)
  BY DEF DeleteEvidence, DocumentRow
<1>2. <<d>> \in Seq(Claims \cup Documents \cup Nat) /\ <<d>>[1] = d
  BY OneTyped
<1>3. ASSUME NEW call, ~loading, call.cmd = "delete_evidence", call.of = <<d>>, call.to <=> FALSE,
             call.phase = "sent", call.mine, call.got = Nothing
      PROVE  Asked(call)
  <2>1. CallShape(call) /\ Awaited(call)
    BY <1>1, <1>2, <1>3 DEF CallShape, Awaited, OnClaim, OnDocument
  <2>2. QED
    BY <1>1, <1>2, <1>3, <2>1 DEF Asked, Is
<1>4. QED
  BY <1>1, <1>2, <1>3, SentWhen DEF Commands

LEMMA ExtractClaimsSent ==
  ASSUME AgentInv, NEW s \in Slots, NEW d \in Documents, ExtractClaims(s, d)
  PROVE  Sent(s)
<1>1. screen = "evidence" /\ Send(s, "extract_claims", <<d>>, FALSE)
  BY DEF ExtractClaims, DocumentRow
<1>2. <<d>> \in Seq(Claims \cup Documents \cup Nat) /\ <<d>>[1] = d
  BY OneTyped
<1>3. ASSUME NEW call, ~loading, call.cmd = "extract_claims", call.of = <<d>>, call.to <=> FALSE,
             call.phase = "sent", call.mine, call.got = Nothing
      PROVE  Asked(call)
  <2>1. CallShape(call) /\ Awaited(call)
    BY <1>1, <1>2, <1>3 DEF CallShape, Awaited, OnClaim, OnDocument
  <2>2. QED
    BY <1>1, <1>2, <1>3, <2>1 DEF Asked, Is
<1>4. QED
  BY <1>1, <1>2, <1>3, SentWhen DEF Commands

LEMMA CreateCommitmentSent ==
  ASSUME AgentInv, NEW s \in Slots, CreateCommitment(s)
  PROVE  Sent(s)
<1>1. selected # <<>> /\ Send(s, "create_commitment", selected, FALSE)
  BY DEF CreateCommitment
<1>2. selected \in Seq(Claims \cup Documents \cup Nat)
  BY SeqMonotonic DEF AgentInv, AgentTyped, ScreenTyped
<1>3. /\ selected \in Seq(Claims) /\ screen = "commitments"
      /\ \A c \in Range(selected) : shown.claims[c] = "verified"
  BY <1>1 DEF AgentInv, AgentTyped, ScreenTyped, SelectedInv
<1>4. ASSUME NEW call, ~loading, call.cmd = "create_commitment", call.of = selected, call.to <=> FALSE,
             call.phase = "sent", call.mine, call.got = Nothing
      PROVE  Asked(call)
  <2>1. CallShape(call) /\ Awaited(call)
    BY <1>1, <1>2, <1>3, <1>4 DEF CallShape, Awaited, OnClaim, OnDocument
  <2>2. QED
    BY <1>1, <1>2, <1>3, <1>4, <2>1 DEF Asked, Is
<1>5. QED
  BY <1>1, <1>2, <1>4, SentWhen DEF Commands

LEMMA RevokeCommitmentSent ==
  ASSUME AgentInv, NEW s \in Slots, NEW k \in DOMAIN commitments, RevokeCommitment(s, k)
  PROVE  Sent(s)
<1>1. screen = "commitments" /\ k \in shown.active /\ Send(s, "revoke_commitment", <<k>>, FALSE)
  BY DEF RevokeCommitment, CommitmentRow
<1>2. <<k>> \in Seq(Claims \cup Documents \cup Nat) /\ <<k>>[1] = k
  BY OneTyped DEF AgentInv, CommitmentsInv
<1>3. k \in Nat
  BY DEF AgentInv, CommitmentsInv
<1>4. ASSUME NEW call, ~loading, call.cmd = "revoke_commitment", call.of = <<k>>, call.to <=> FALSE,
             call.phase = "sent", call.mine, call.got = Nothing
      PROVE  Asked(call)
  <2>1. CallShape(call) /\ Awaited(call)
    BY <1>1, <1>2, <1>3, <1>4 DEF CallShape, Awaited, OnClaim, OnDocument
  <2>2. QED
    BY <1>1, <1>2, <1>3, <1>4, <2>1 DEF Asked, Is
<1>5. QED
  BY <1>1, <1>2, <1>4, SentWhen DEF Commands

LEMMA GenerateNewKeypairSent ==
  ASSUME AgentInv, NEW s \in Slots, GenerateNewKeypair(s)
  PROVE  Sent(s)
<1>1. screen = "settings" /\ Send(s, "generate_new_keypair", <<>>, FALSE)
  BY DEF GenerateNewKeypair
<1>2. <<>> \in Seq(Claims \cup Documents \cup Nat)
  BY EmptySeq
<1>3. ASSUME NEW call, ~loading, call.cmd = "generate_new_keypair", call.of = <<>>, call.to <=> FALSE,
             call.phase = "sent", call.mine, call.got = Nothing
      PROVE  Asked(call)
  <2>1. CallShape(call) /\ Awaited(call)
    BY <1>1, <1>2, <1>3 DEF CallShape, Awaited, OnClaim, OnDocument
  <2>2. QED
    BY <1>1, <1>2, <1>3, <2>1 DEF Asked, Is
<1>4. QED
  BY <1>1, <1>2, <1>3, SentWhen DEF Commands

LEMMA SentTyped ==
  ASSUME AgentInv, NEW s \in Slots, Sent(s)
  PROVE  AgentTyped' /\ KeysTyped' /\ RangesInv' /\ CommitmentsInv'
<1> USE DEF AgentInv
<1>1. /\ calls' \in [Slots -> CallType] /\ \A t \in Slots \ {s} : calls'[t] = calls[t]
      /\ CallShape(calls'[s]) /\ calls'[s].got = Nothing
      /\ calls'[s].cmd = "delete_evidence" => calls'[s].of[1] \in shown.docs
      /\ calls'[s].cmd = "revoke_commitment" => calls'[s].of[1] \in shown.active
      /\ UNCHANGED <<evidence, imported, claims, stamp, commitments, keys,
                     screen, loading, shown, selected, dialog>>
  BY DEF Sent, Asked
<1>2. CallsTyped'
  <2>1. \A t \in Slots : CallShape(calls'[t])
    BY <1>1 DEF AgentTyped, CallsTyped
  <2>2. \A t \in Slots : CallShape(calls[t])'
    BY <2>1 DEF CallShape, OnClaim, OnDocument
  <2>3. QED
    BY <1>1, <2>2 DEF CallsTyped
<1>3. AgentTyped'
  BY <1>1, <1>2 DEF AgentTyped, RowsTyped, ScreenTyped
<1>4. KeysTyped'
  BY <1>1 DEF KeysTyped, ActiveKeys
<1>5. RangesInv'
  <2>1. calls'[s].got.active = {} /\ calls'[s].got.docs = {}
    BY <1>1 DEF Nothing
  <2>2. QED
    BY <1>1, <2>1 DEF RangesInv
<1>6. CommitmentsInv'
  BY <1>1, CommitmentsStay DEF CommitmentsStep
<1>7. QED
  BY <1>3, <1>4, <1>5, <1>6

LEMMA SentMine ==
  ASSUME AgentInv, NEW s \in Slots, Sent(s)
  PROVE  MineInv' /\ OvertakenInv' /\ SelectedInv'
<1> USE DEF AgentInv
<1>1. /\ ~loading /\ calls[s].cmd = "idle" /\ \A t \in Slots \ {s} : calls'[t] = calls[t]
      /\ Awaited(calls'[s]) /\ calls'[s].phase = "sent" /\ calls'[s].mine
      /\ calls'[s].cmd = "create_commitment" =>
           \A c \in Range(calls'[s].of) : shown.claims[c] = "verified"
      /\ overtaken' = overtaken \cup (Changes(calls'[s]) \cap InFlight)
      /\ UNCHANGED <<screen, loading, shown, selected, dialog>>
  BY DEF Sent, Asked
<1>2. MineInv'
  <2>1. \A t \in Slots : calls'[t].mine => Awaited(calls'[t])
    BY <1>1 DEF MineInv
  <2>2. \A t \in Slots : calls'[t].mine => Awaited(calls[t])'
    BY <1>1, <2>1 DEF Awaited, OnClaim, OnDocument
  <2>3. \A t \in Slots : calls'[t].phase = "answered" /\ calls'[t].cmd # "idle" => calls'[t].mine
    BY <1>1 DEF MineInv
  <2>4. QED
    BY <1>1, <2>2, <2>3 DEF MineInv
<1>3. OvertakenInv'
  <2>1. \A t \in Slots : ~calls'[t].mine => Changes(calls'[t]) \subseteq overtaken'
    BY <1>1 DEF OvertakenInv
  <2>2. \A t \in Slots \ {s} : Changes(calls'[t]) \subseteq InFlight
    BY <1>1 DEF InFlight
  <2>3. \A t, u \in Slots : t # u => Changes(calls'[t]) \cap Changes(calls'[u]) \subseteq overtaken'
    BY <1>1, <2>2 DEF OvertakenInv
  <2>4. QED
    BY <2>1, <2>3 DEF OvertakenInv, Changes
<1>4. SelectedInv'
  BY <1>1 DEF SelectedInv, Range
<1>5. QED
  BY <1>2, <1>3, <1>4

LEMMA SentClaims ==
  ASSUME AgentInv, NEW s \in Slots, Sent(s)
  PROVE  ClaimsInv' /\ DocsInv' /\ KeyInv' /\ ListsInv'
<1> USE DEF AgentInv
<1>1. /\ calls[s].cmd = "idle" /\ \A t \in Slots \ {s} : calls'[t] = calls[t]
      /\ ~Done(calls'[s])
      /\ overtaken \subseteq overtaken'
      /\ UNCHANGED <<evidence, imported, claims, stamp, commitments, keys,
                     screen, loading, shown, selected, dialog>>
  BY DEF Sent, Asked, Done
<1>2. calls'[s].cmd # "list"
  BY DEF Sent, Asked
<1>3. \A c : ~Is(calls[s], "verify_claim", c) /\ ~Is(calls[s], "delete_claim", c)
               /\ ~Is(calls[s], "delete_evidence", c) /\ ~OnClaim(calls[s])
  BY <1>1 DEF Is, OnClaim
<1>4. \A t \in Slots : Done(calls'[t]) => t # s /\ calls'[t] = calls[t]
  BY <1>1
<1>5. ActiveKey' = ActiveKey
  BY <1>1 DEF ActiveKey, ActiveKeys
<1>6. ClaimsInv'
  <2> SUFFICES ASSUME ~loading, NEW c \in Claims \ overtaken'
               PROVE  ClaimAgrees(c, shown.claims[c], claims[c], calls')
    BY <1>1 DEF ClaimsInv
  <2> USE DEF ClaimAgrees
  <2>1. Is(calls'[s], "verify_claim", c) =>
          shown.claims[c] # "none" /\ (calls'[s].to <=> shown.claims[c] # "verified")
    BY DEF Sent, Asked
  <2>2. ClaimAgrees(c, shown.claims[c], claims[c], calls)
    BY <1>1 DEF ClaimsInv
  <2>3. \A t \in Slots : Done(calls[t]) /\ OnClaim(calls[t]) => calls'[t] = calls[t]
    BY <1>1, <1>3
  <2>4. QED
    BY <1>1, <1>4, <2>1, <2>2, <2>3
<1>7. DocsInv'
  <2>1. ASSUME NEW d \in shown.docs \ overtaken'
        PROVE  d \in evidence \/ \E t \in Slots : Is(calls'[t], "delete_evidence", d) /\ Done(calls'[t])
    <3>1. d \in evidence \/ \E t \in Slots : Is(calls[t], "delete_evidence", d) /\ Done(calls[t])
      BY <1>1, <2>1 DEF DocsInv
    <3>2. QED
      BY <1>1, <1>3, <3>1
  <2>2. ASSUME NEW t \in Slots, calls'[t].cmd = "ingest_document", calls'[t].mine
        PROVE  /\ calls'[t].of[1] \notin shown.docs
               /\ Done(calls'[t]) => calls'[t].of[1] \in evidence
               /\ \A u \in Slots : calls'[u].cmd = "delete_evidence" => calls'[u].of[1] # calls'[t].of[1]
               /\ \A u \in Slots : calls'[u].cmd = "ingest_document" /\ calls'[u].mine => u = t
    <3>1. CASE t = s
      <4>1. /\ calls'[s].of[1] \notin imported
            /\ \A u \in Slots : calls[u].cmd = "ingest_document" => ~calls[u].mine
        BY <2>2, <3>1 DEF Sent, Asked
      <4>2. \A u \in Slots \ {s} : calls'[u].cmd = "delete_evidence" => calls'[u].of[1] \in imported
        BY <1>1 DEF RangesInv
      <4>3. shown.docs \subseteq imported
        BY DEF RangesInv
      <4>4. QED
        BY <1>1, <2>2, <3>1, <4>1, <4>2, <4>3
    <3>2. CASE t # s
      <4>1. calls'[t] = calls[t]
        BY <1>1, <3>2
      <4>2. /\ calls[t].of[1] \notin shown.docs
            /\ Done(calls[t]) => calls[t].of[1] \in evidence
            /\ \A u \in Slots : calls[u].cmd = "delete_evidence" => calls[u].of[1] # calls[t].of[1]
            /\ \A u \in Slots : calls[u].cmd = "ingest_document" /\ calls[u].mine => u = t
        BY <2>2, <4>1 DEF DocsInv
      <4>3. calls'[s].cmd = "delete_evidence" => calls'[s].of[1] \in shown.docs
        BY DEF Sent, Asked
      <4>4. calls'[s].cmd # "ingest_document"
        BY <2>2, <4>1 DEF Sent, Asked
      <4>5. QED
        BY <1>1, <4>1, <4>2, <4>3, <4>4
    <3>3. QED
      BY <3>1, <3>2
  <2>3. QED
    BY <1>1, <2>1, <2>2 DEF DocsInv, Is, Done
<1>8. KeyInv'
  <2>1. (\A t \in Slots : Done(calls'[t]) => calls'[t].cmd # "generate_new_keypair")
          => \A t \in Slots : Done(calls[t]) => calls[t].cmd # "generate_new_keypair"
    BY <1>1
  <2>2. QED
    BY <1>1, <1>4, <1>5, <2>1 DEF KeyInv, Done
<1>9. ListsInv'
  <2>1. ASSUME NEW t \in Slots, calls'[t].cmd = "list", Done(calls'[t])
        PROVE  calls'[t] = calls[t]
    BY <1>4, <2>1
  <2>2. QED
    BY <1>1, <1>5, <2>1 DEF ListsInv, Done
<1>10. QED
  BY <1>6, <1>7, <1>8, <1>9

LEMMA SentKeeps ==
  ASSUME AgentInv, NEW s \in Slots, Sent(s)
  PROVE  AgentInv'
BY SentTyped, SentMine, SentClaims DEF AgentInv

-----------------------------------------------------------------------------
(* The invariant and the answers                                           *)

LEMMA ReceiveIs ==
  ASSUME AgentInv, NEW s \in Slots, Receive(s)
  PROVE  /\ calls[s].cmd # "idle" /\ calls[s].phase = "answered" /\ calls[s].mine
         /\ Awaited(calls[s]) /\ (Done(calls[s]) <=> calls[s].ok)
         /\ calls' \in [Slots -> CallType] /\ calls'[s] = Idle
         /\ \A t \in Slots \ {s} : calls'[t] = calls[t]
         /\ shown' = IF calls[s].ok THEN ShownAfter(calls[s]) ELSE shown
         /\ loading' = FALSE
         /\ loading <=> calls[s].cmd = "list"
         /\ loading => shown = Nothing /\ \A t \in Slots \ {s} : ~calls[t].mine
         /\ dialog' \in BOOLEAN /\ (dialog' => dialog)
         /\ selected' = selected \/ selected' = <<>>
         /\ calls[s].cmd = "create_commitment" /\ calls[s].ok => selected' = <<>>
         /\ UNCHANGED <<evidence, imported, claims, stamp, commitments, keys, screen, overtaken>>
<1>1. calls \in [Slots -> CallType]
  BY DEF AgentInv, AgentTyped, CallsTyped
<1>2. /\ calls[s].cmd # "idle" /\ calls[s].phase = "answered"
      /\ shown' = IF calls[s].ok THEN ShownAfter(calls[s]) ELSE shown
      /\ loading' = (loading /\ calls[s].cmd # "list")
      /\ calls' = [calls EXCEPT ![s] = Idle]
      /\ UNCHANGED <<evidence, imported, claims, stamp, commitments, keys, screen, overtaken>>
  BY DEF Receive, db
<1>3. /\ dialog' = (dialog /\ ~(calls[s].cmd = "create_commitment" /\ calls[s].ok))
      /\ selected' = IF calls[s].cmd = "create_commitment" /\ calls[s].ok THEN <<>> ELSE selected
  BY DEF Receive
<1>4. calls[s].mine /\ Awaited(calls[s]) /\ (Done(calls[s]) <=> calls[s].ok)
  BY <1>2 DEF AgentInv, MineInv, Done
<1>5. calls' \in [Slots -> CallType] /\ calls'[s] = Idle /\ \A t \in Slots \ {s} : calls'[t] = calls[t]
  BY <1>1, <1>2, IdleTyped
<1>6. loading <=> calls[s].cmd = "list"
  BY <1>4 DEF Awaited
<1>7. loading => shown = Nothing /\ \A t \in Slots \ {s} : ~calls[t].mine
  BY <1>4 DEF AgentInv, MineInv
<1>8. loading' = FALSE
  BY <1>2, <1>6
<1>9. dialog' \in BOOLEAN /\ (dialog' => dialog)
  BY <1>3
<1>10. QED
  BY <1>2, <1>3, <1>4, <1>5, <1>6, <1>7, <1>8, <1>9

LEMMA ShownAfterIs ==
  ASSUME AgentInv, NEW s \in Slots
  PROVE  LET call == calls[s] after == ShownAfter(calls[s]) IN
         /\ call.cmd = "list" => after = call.got
         /\ call.cmd # "list" =>
              /\ call.cmd \notin {"verify_claim", "delete_claim"} => after.claims = shown.claims
              /\ call.cmd \notin {"ingest_document", "delete_evidence"} => after.docs = shown.docs
              /\ call.cmd \notin {"create_commitment", "revoke_commitment"} => after.active = shown.active
              /\ call.cmd # "generate_new_keypair" => after.key = shown.key
         /\ OnClaim(call) =>
              /\ \A c \in Claims \ {call.of[1]} : after.claims[c] = shown.claims[c]
              /\ call.cmd = "verify_claim" => after.claims[call.of[1]] =
                   CASE shown.claims[call.of[1]] = "pending"  -> "verified"
                     [] shown.claims[call.of[1]] = "verified" -> "pending"
                     [] OTHER                                 -> "none"
              /\ call.cmd = "delete_claim" => after.claims[call.of[1]] = "none"
         /\ call.cmd = "ingest_document" => after.docs = shown.docs \cup {call.of[1]}
         /\ call.cmd = "delete_evidence" => after.docs = shown.docs \ {call.of[1]}
         /\ call.cmd = "create_commitment" => after.active = shown.active \cup call.got.active
         /\ call.cmd = "revoke_commitment" => after.active \subseteq shown.active
         /\ call.cmd = "generate_new_keypair" => after.key = call.got.key
         /\ after \in Lists
<1> DEFINE call == calls[s]
           after == ShownAfter(calls[s])
<1>1. call \in CallType /\ CallShape(call) /\ shown \in Lists
  BY DEF AgentInv, AgentTyped, CallsTyped, ScreenTyped
<1>2. CASE call.cmd = "verify_claim"
  <2>1. call.of[1] \in Claims /\ after = [shown EXCEPT !.claims = FlipShown(call.of[1])]
    BY <1>1, <1>2 DEF ShownAfter, CallShape, OnClaim
  <2>2. /\ FlipShown(call.of[1]) \in [Claims -> {"none", "pending", "verified"}]
        /\ \A c \in Claims \ {call.of[1]} : FlipShown(call.of[1])[c] = shown.claims[c]
        /\ FlipShown(call.of[1])[call.of[1]] =
             CASE shown.claims[call.of[1]] = "pending"  -> "verified"
               [] shown.claims[call.of[1]] = "verified" -> "pending"
               [] OTHER                                 -> "none"
    BY <1>1, <2>1 DEF FlipShown, Lists
  <2>3. QED
    BY <1>1, <1>2, <2>1, <2>2 DEF Lists
<1>3. CASE call.cmd = "delete_claim"
  <2>1. call.of[1] \in Claims /\ after = [shown EXCEPT !.claims[call.of[1]] = "none"]
    BY <1>1, <1>3 DEF ShownAfter, CallShape, OnClaim
  <2>2. QED
    BY <1>1, <1>3, <2>1 DEF Lists
<1>4. CASE call.cmd = "ingest_document"
  <2>1. call.of[1] \in Documents /\ Range(call.of) = {call.of[1]}
    BY <1>1, <1>4, RangeOfOne DEF CallShape, OnDocument
  <2>2. after = [shown EXCEPT !.docs = @ \cup {call.of[1]}]
    BY <1>4, <2>1 DEF ShownAfter
  <2>3. QED
    BY <1>1, <1>4, <2>1, <2>2 DEF Lists, OnClaim
<1>5. CASE call.cmd = "delete_evidence"
  <2>1. Range(call.of) = {call.of[1]}
    BY <1>1, <1>5, RangeOfOne DEF CallShape, OnDocument
  <2>2. after = [shown EXCEPT !.docs = @ \ {call.of[1]}]
    BY <1>5, <2>1 DEF ShownAfter
  <2>3. QED
    BY <1>1, <1>5, <2>2 DEF Lists, OnClaim
<1>6. CASE call.cmd = "create_commitment"
  <2>1. after = [shown EXCEPT !.active = @ \cup call.got.active]
    BY <1>6 DEF ShownAfter
  <2>2. QED
    BY <1>1, <1>6, <2>1 DEF Lists, OnClaim, CallType
<1>7. CASE call.cmd = "revoke_commitment"
  <2>1. after = [shown EXCEPT !.active = @ \ Range(call.of)]
    BY <1>7 DEF ShownAfter
  <2>2. QED
    BY <1>1, <1>7, <2>1 DEF Lists, OnClaim
<1>8. CASE call.cmd = "generate_new_keypair"
  <2>1. after = [shown EXCEPT !.key = call.got.key]
    BY <1>8 DEF ShownAfter
  <2>2. QED
    BY <1>1, <1>8, <2>1 DEF Lists, OnClaim, CallType
<1>9. CASE call.cmd = "list"
  <2>1. after = call.got
    BY <1>9 DEF ShownAfter
  <2>2. QED
    BY <1>1, <1>9, <2>1 DEF OnClaim, CallType
<1>10. CASE call.cmd \in {"idle", "extract_claims"}
  <2>1. after = shown
    BY <1>10 DEF ShownAfter
  <2>2. QED
    BY <1>1, <1>10, <2>1 DEF OnClaim
<1>11. QED
  BY <1>1, <1>2, <1>3, <1>4, <1>5, <1>6, <1>7, <1>8, <1>9, <1>10 DEF CallType, Commands

LEMMA ReceiveTyped ==
  ASSUME AgentInv, NEW s \in Slots, Receive(s)
  PROVE  AgentTyped' /\ KeysTyped' /\ RangesInv' /\ CommitmentsInv'
<1> USE DEF AgentInv
<1>1. /\ calls' \in [Slots -> CallType] /\ calls'[s] = Idle
      /\ \A t \in Slots \ {s} : calls'[t] = calls[t]
      /\ shown' = IF calls[s].ok THEN ShownAfter(calls[s]) ELSE shown
      /\ loading' = FALSE /\ dialog' \in BOOLEAN
      /\ selected' = selected \/ selected' = <<>>
      /\ UNCHANGED <<evidence, imported, claims, stamp, commitments, keys, screen, overtaken>>
  BY ReceiveIs
<1>2. \A t \in Slots : CallShape(calls[t])'
  <2>1. \A t \in Slots : CallShape(calls'[t])
    BY <1>1, IdleTyped DEF AgentTyped, CallsTyped
  <2>2. QED
    BY <2>1 DEF CallShape, OnClaim, OnDocument
<1>3. shown' \in Lists
  BY <1>1, ShownAfterIs DEF AgentTyped, ScreenTyped
<1>4. selected' \in Seq(Claims)
  BY <1>1, EmptySeq DEF AgentTyped, ScreenTyped
<1>5. AgentTyped'
  BY <1>1, <1>2, <1>3, <1>4 DEF AgentTyped, CallsTyped, RowsTyped, ScreenTyped
<1>6. KeysTyped'
  BY <1>1 DEF KeysTyped, ActiveKeys
<1>7. shown'.active \subseteq DOMAIN commitments /\ shown'.docs \subseteq imported
  <2>1. /\ shown.active \subseteq DOMAIN commitments /\ shown.docs \subseteq imported
        /\ calls[s].got.active \subseteq DOMAIN commitments /\ calls[s].got.docs \subseteq imported
    BY DEF RangesInv
  <2>2. ASSUME calls[s].ok, calls[s].cmd = "ingest_document"
        PROVE  calls[s].of[1] \in imported
    <3>1. Done(calls[s]) /\ calls[s].mine
      BY <2>2, ReceiveIs
    <3>2. QED
      BY <2>2, <3>1 DEF DocsInv, AgentTyped, RowsTyped
  <2>3. CASE calls[s].cmd = "list"
    BY <1>1, <2>1, <2>3, ShownAfterIs
  <2>4. CASE calls[s].cmd # "list"
    <3>1. ASSUME calls[s].ok
          PROVE  /\ \/ shown'.active = shown.active \/ shown'.active = shown.active \cup calls[s].got.active
                    \/ shown'.active \subseteq shown.active
                 /\ \/ shown'.docs = shown.docs \/ shown'.docs = shown.docs \ {calls[s].of[1]}
                    \/ shown'.docs = shown.docs \cup {calls[s].of[1]} /\ calls[s].cmd = "ingest_document"
      <4> DEFINE after == ShownAfter(calls[s])
      <4>1. shown' = after
        BY <1>1, <3>1
      <4>2. /\ calls[s].cmd \notin {"ingest_document", "delete_evidence"} => after.docs = shown.docs
            /\ calls[s].cmd \notin {"create_commitment", "revoke_commitment"} => after.active = shown.active
            /\ calls[s].cmd = "ingest_document" => after.docs = shown.docs \cup {calls[s].of[1]}
            /\ calls[s].cmd = "delete_evidence" => after.docs = shown.docs \ {calls[s].of[1]}
            /\ calls[s].cmd = "create_commitment" => after.active = shown.active \cup calls[s].got.active
            /\ calls[s].cmd = "revoke_commitment" => after.active \subseteq shown.active
        BY <2>4, ShownAfterIs
      <4> HIDE DEF after
      <4>3. QED
        BY <4>1, <4>2
    <3>2. QED
      BY <1>1, <2>1, <2>2, <3>1
  <2>5. QED
    BY <2>3, <2>4
<1>8. RangesInv'
  <2>1. calls'[s].got.active = {} /\ calls'[s].got.docs = {} /\ calls'[s].cmd = "idle"
    BY <1>1, IdleTyped DEF Nothing
  <2>2. QED
    BY <1>1, <1>7, <2>1 DEF RangesInv
<1>9. CommitmentsInv'
  BY <1>1, CommitmentsStay DEF CommitmentsStep
<1>10. QED
  BY <1>5, <1>6, <1>8, <1>9

LEMMA ReceiveMine ==
  ASSUME AgentInv, NEW s \in Slots, Receive(s)
  PROVE  MineInv' /\ OvertakenInv' /\ SelectedInv'
<1> USE DEF AgentInv
<1>1. /\ calls[s].mine /\ Awaited(calls[s])
      /\ calls'[s] = Idle /\ \A t \in Slots \ {s} : calls'[t] = calls[t]
      /\ shown' = IF calls[s].ok THEN ShownAfter(calls[s]) ELSE shown
      /\ loading' = FALSE
      /\ loading <=> calls[s].cmd = "list"
      /\ loading => shown = Nothing /\ \A t \in Slots \ {s} : ~calls[t].mine
      /\ dialog' => dialog
      /\ selected' = selected \/ selected' = <<>>
      /\ calls[s].cmd = "create_commitment" /\ calls[s].ok => selected' = <<>>
      /\ UNCHANGED <<screen, overtaken>>
  BY ReceiveIs
<1>2. calls'[s].cmd = "idle" /\ ~calls'[s].mine /\ Changes(calls'[s]) = {}
  BY <1>1, IdleTyped
<1>3. MineInv'
  <2>1. ASSUME NEW t \in Slots, calls'[t].mine
        PROVE  Awaited(calls[t])'
    <3>1. t # s /\ calls'[t] = calls[t] /\ Awaited(calls[t]) /\ ~loading
      BY <1>1, <1>2, <2>1 DEF MineInv
    <3>2. QED
      BY <1>1, <3>1 DEF Awaited, OnClaim, OnDocument
  <2>2. \A t \in Slots : calls'[t].phase = "answered" /\ calls'[t].cmd # "idle" => calls'[t].mine
    BY <1>1, <1>2 DEF MineInv
  <2>3. QED
    BY <1>1, <2>1, <2>2 DEF MineInv
<1>4. OvertakenInv'
  <2>1. \A t \in Slots : ~calls'[t].mine => Changes(calls'[t]) \subseteq overtaken'
    BY <1>1, <1>2 DEF OvertakenInv
  <2>2. \A t, u \in Slots : t # u => Changes(calls'[t]) \cap Changes(calls'[u]) \subseteq overtaken'
    BY <1>1, <1>2 DEF OvertakenInv
  <2>3. QED
    BY <2>1, <2>2 DEF OvertakenInv, Changes
<1>5. SelectedInv'
  <2>1. dialog' \/ selected' # <<>> => screen = "commitments" /\ ~loading
    BY <1>1 DEF SelectedInv
  <2>2. ASSUME screen = "commitments", ~loading
        PROVE  shown'.claims = shown.claims
    <3>1. calls[s].cmd # "list" /\ calls[s].cmd \notin {"verify_claim", "delete_claim"}
      BY <1>1, <2>2 DEF Awaited, OnClaim
    <3>2. QED
      BY <1>1, <3>1, ShownAfterIs
  <2>3. \A c \in Range(selected') : shown'.claims[c] = "verified"
    <3>1. CASE selected' = <<>>
      BY <3>1 DEF Range
    <3>2. CASE selected' # <<>>
      BY <1>1, <2>1, <2>2, <3>2 DEF SelectedInv
    <3>3. QED
      BY <3>1, <3>2
  <2>4. ASSUME NEW t \in Slots, calls'[t].mine, calls'[t].cmd = "create_commitment"
        PROVE  \A c \in Range(calls'[t].of) : shown'.claims[c] = "verified"
    <3>1. calls'[t] = calls[t] /\ calls[t].mine /\ calls[t].cmd = "create_commitment" /\ ~loading
      BY <1>1, <1>2, <2>4
    <3>2. screen = "commitments"
      BY <3>1 DEF MineInv, Awaited
    <3>3. QED
      BY <2>2, <3>1, <3>2 DEF SelectedInv
  <2>5. QED
    BY <1>1, <2>1, <2>3, <2>4 DEF SelectedInv, Range
<1>6. QED
  BY <1>3, <1>4, <1>5

LEMMA ReceiveClaims ==
  ASSUME AgentInv, NEW s \in Slots, Receive(s)
  PROVE  ClaimsInv'
<1> USE DEF AgentInv
<1>1. /\ calls[s].mine /\ Awaited(calls[s]) /\ (Done(calls[s]) <=> calls[s].ok)
      /\ calls'[s] = Idle /\ \A t \in Slots \ {s} : calls'[t] = calls[t]
      /\ shown' = IF calls[s].ok THEN ShownAfter(calls[s]) ELSE shown
      /\ loading <=> calls[s].cmd = "list"
      /\ loading => shown = Nothing /\ \A t \in Slots \ {s} : ~calls[t].mine
      /\ UNCHANGED <<claims, screen, overtaken>>
  BY ReceiveIs
<1>2. calls'[s].cmd = "idle" /\ ~Done(calls'[s])
  BY <1>1, IdleTyped DEF Done
<1> SUFFICES ASSUME NEW c \in Claims \ overtaken
             PROVE  ClaimAgrees(c, shown'.claims[c], claims[c], calls')
  BY <1>1 DEF ClaimsInv
<1> USE DEF ClaimAgrees
<1>3. ~Is(calls'[s], "verify_claim", c) /\ ~Is(calls'[s], "delete_claim", c)
  BY <1>2 DEF Is
<1>4. CASE loading
  <2>1. \A t \in Slots \ {s} : c \notin Changes(calls[t])
    BY <1>1, <1>4 DEF OvertakenInv
  <2>2. \A t \in Slots : ~Is(calls'[t], "verify_claim", c) /\ ~Is(calls'[t], "delete_claim", c)
    BY <1>1, <1>3, <2>1, IsOnClaim, OnClaimChanges
  <2>3. shown'.claims[c] \in {"none", claims[c]}
    <3>1. CASE calls[s].ok
      BY <1>1, <1>4, <3>1, ShownAfterIs DEF ListsInv
    <3>2. CASE ~calls[s].ok
      BY <1>1, <1>4, <3>2 DEF Nothing
    <3>3. QED
      BY <3>1, <3>2
  <2>4. QED
    BY <2>2, <2>3
<1>5. CASE ~loading
  <2>1. ClaimAgrees(c, shown.claims[c], claims[c], calls)
    BY <1>5 DEF ClaimsInv
  <2>2. CASE OnClaim(calls[s]) /\ calls[s].of = <<c>>
    <3>1. \A t \in Slots \ {s} : c \notin Changes(calls[t])
      BY <2>2, OnClaimChanges, AlonePending
    <3>2. \A t \in Slots : ~Is(calls'[t], "verify_claim", c) /\ ~Is(calls'[t], "delete_claim", c)
      BY <1>1, <1>3, <3>1, IsOnClaim, OnClaimChanges
    <3>3. shown'.claims[c] \in {"none", claims[c]}
      <4>1. CASE ~calls[s].ok
        <5>1. \A t \in Slots : Done(calls[t]) => ~(OnClaim(calls[t]) /\ calls[t].of = <<c>>)
          BY <1>1, <3>1, <4>1, OnClaimChanges
        <5>2. QED
          BY <1>1, <2>1, <4>1, <5>1
      <4>2. CASE calls[s].ok /\ calls[s].cmd = "delete_claim"
        <5>1. calls[s].of[1] = c
          BY <2>2
        <5>2. ShownAfter(calls[s]).claims[c] = "none"
          BY <2>2, <4>2, <5>1, ShownAfterIs
        <5>3. QED
          BY <1>1, <4>2, <5>2
      <4>3. CASE calls[s].ok /\ calls[s].cmd = "verify_claim"
        <5>1. calls[s].of[1] = c /\ Is(calls[s], "verify_claim", c)
          BY <2>2, <4>3 DEF Is
        <5>2. ShownAfter(calls[s]).claims[c] =
                CASE shown.claims[c] = "pending"  -> "verified"
                  [] shown.claims[c] = "verified" -> "pending"
                  [] OTHER                        -> "none"
          BY <2>2, <4>3, <5>1, ShownAfterIs
        <5>3. \/ shown.claims[c] = "pending" /\ claims[c] = "verified"
              \/ shown.claims[c] = "verified" /\ claims[c] = "pending"
          BY <1>1, <2>1, <4>3, <5>1
        <5>4. QED
          BY <1>1, <4>3, <5>2, <5>3
      <4>4. QED
        BY <2>2, <4>1, <4>2, <4>3 DEF OnClaim
    <3>4. QED
      BY <3>2, <3>3
  <2>3. CASE ~(OnClaim(calls[s]) /\ calls[s].of = <<c>>)
    <3>1. shown'.claims[c] = shown.claims[c]
      <4>1. CASE ~OnClaim(calls[s])
        BY <1>1, <1>5, <4>1, ShownAfterIs DEF OnClaim
      <4>2. CASE OnClaim(calls[s])
        <5>1. calls[s].of = <<calls[s].of[1]>>
          BY <4>2 DEF AgentTyped, CallsTyped, CallShape
        <5>2. c # calls[s].of[1]
          BY <2>3, <4>2, <5>1
        <5>3. ShownAfter(calls[s]).claims[c] = shown.claims[c]
          BY <4>2, <5>2, ShownAfterIs
        <5>4. QED
          BY <1>1, <5>3
      <4>3. QED
        BY <4>1, <4>2
    <3>2. \A t \in Slots : Done(calls[t]) /\ OnClaim(calls[t]) /\ calls[t].of = <<c>> => calls'[t] = calls[t]
      BY <1>1, <2>3
    <3>3. QED
      BY <1>1, <1>3, <2>1, <3>1, <3>2
  <2>4. QED
    BY <2>2, <2>3
<1>6. QED
  BY <1>4, <1>5

LEMMA ReceiveDocs ==
  ASSUME AgentInv, NEW s \in Slots, Receive(s)
  PROVE  DocsInv'
<1> USE DEF AgentInv
<1>1. /\ calls[s].mine /\ (Done(calls[s]) <=> calls[s].ok)
      /\ calls'[s] = Idle /\ \A t \in Slots \ {s} : calls'[t] = calls[t]
      /\ shown' = IF calls[s].ok THEN ShownAfter(calls[s]) ELSE shown
      /\ loading <=> calls[s].cmd = "list"
      /\ loading => shown = Nothing /\ \A t \in Slots \ {s} : ~calls[t].mine
      /\ UNCHANGED <<evidence, overtaken>>
  BY ReceiveIs
<1>2. calls'[s].cmd = "idle" /\ ~Done(calls'[s])
  BY <1>1, IdleTyped DEF Done
<1>3. ASSUME NEW d \in shown'.docs \ overtaken
      PROVE  d \in evidence \/ \E t \in Slots : Is(calls'[t], "delete_evidence", d) /\ Done(calls'[t])
  <2>1. CASE loading
    <3>1. CASE calls[s].ok
      BY <1>1, <1>3, <2>1, <3>1, ShownAfterIs DEF ListsInv
    <3>2. CASE ~calls[s].ok
      BY <1>1, <1>3, <2>1, <3>2 DEF Nothing
    <3>3. QED
      BY <3>1, <3>2
  <2>2. CASE ~loading /\ d \in shown.docs
    <3>1. d \in evidence \/ \E t \in Slots : Is(calls[t], "delete_evidence", d) /\ Done(calls[t])
      BY <1>3, <2>2 DEF DocsInv
    <3>2. ASSUME Is(calls[s], "delete_evidence", d), Done(calls[s])
          PROVE  FALSE
      <4>1. calls[s].cmd = "delete_evidence" /\ calls[s].of[1] = d
        BY <3>2, IsDelete
      <4>2. shown'.docs = shown.docs \ {d}
        BY <1>1, <3>2, <4>1, ShownAfterIs
      <4>3. QED
        BY <1>3, <4>2
    <3>3. QED
      BY <1>1, <3>1, <3>2
  <2>3. CASE ~loading /\ d \notin shown.docs
    <3>1. calls[s].ok /\ d \in ShownAfter(calls[s]).docs
      BY <1>1, <1>3, <2>3
    <3>2. calls[s].cmd # "delete_evidence"
      BY <2>3, <3>1, ShownAfterIs
    <3>3. calls[s].cmd = "ingest_document"
      BY <1>1, <2>3, <3>1, <3>2, ShownAfterIs
    <3>4. d = calls[s].of[1]
      BY <2>3, <3>1, <3>3, ShownAfterIs
    <3>5. QED
      BY <1>1, <3>1, <3>3, <3>4 DEF DocsInv
  <2>4. QED
    BY <2>1, <2>2, <2>3
<1>4. ASSUME NEW t \in Slots, calls'[t].cmd = "ingest_document", calls'[t].mine
      PROVE  /\ calls'[t].of[1] \notin shown'.docs
             /\ Done(calls'[t]) => calls'[t].of[1] \in evidence
             /\ \A u \in Slots : calls'[u].cmd = "delete_evidence" => calls'[u].of[1] # calls'[t].of[1]
             /\ \A u \in Slots : calls'[u].cmd = "ingest_document" /\ calls'[u].mine => u = t
  <2>1. t # s /\ calls'[t] = calls[t]
    BY <1>1, <1>2, <1>4
  <2>2. ~loading /\ calls[s].cmd # "list"
    BY <1>1, <1>4, <2>1
  <2>3. /\ calls[t].of[1] \notin shown.docs
        /\ Done(calls[t]) => calls[t].of[1] \in evidence
        /\ \A u \in Slots : calls[u].cmd = "delete_evidence" => calls[u].of[1] # calls[t].of[1]
        /\ \A u \in Slots : calls[u].cmd = "ingest_document" /\ calls[u].mine => u = t
    BY <1>4, <2>1 DEF DocsInv
  <2>4. calls[s].cmd # "ingest_document"
    BY <1>1, <2>1, <2>3
  <2>5. shown'.docs \subseteq shown.docs
    <3>1. CASE calls[s].cmd = "delete_evidence"
      BY <1>1, <3>1, ShownAfterIs
    <3>2. CASE calls[s].cmd # "delete_evidence"
      BY <1>1, <2>2, <2>4, <3>2, ShownAfterIs
    <3>3. QED
      BY <3>1, <3>2
  <2>6. QED
    BY <1>1, <1>2, <2>1, <2>3, <2>5
<1>5. QED
  BY <1>1, <1>3, <1>4 DEF DocsInv, Is, Done

LEMMA ReceiveKey ==
  ASSUME AgentInv, NEW s \in Slots, Receive(s)
  PROVE  KeyInv' /\ ListsInv'
<1> USE DEF AgentInv
<1>1. /\ calls[s].mine /\ Awaited(calls[s]) /\ (Done(calls[s]) <=> calls[s].ok)
      /\ calls'[s] = Idle /\ \A t \in Slots \ {s} : calls'[t] = calls[t]
      /\ shown' = IF calls[s].ok THEN ShownAfter(calls[s]) ELSE shown
      /\ loading <=> calls[s].cmd = "list"
      /\ loading => shown = Nothing /\ \A t \in Slots \ {s} : ~calls[t].mine
      /\ UNCHANGED <<evidence, claims, keys, screen, overtaken>>
  BY ReceiveIs
<1>2. calls'[s].cmd = "idle" /\ ~Done(calls'[s])
  BY <1>1, IdleTyped DEF Done
<1>3. ActiveKey' = ActiveKey
  BY <1>1 DEF ActiveKey, ActiveKeys
<1>4. shown'.key # NoKey => screen = "settings"
  <2>1. CASE calls[s].cmd = "list" /\ calls[s].ok
    BY <1>1, <2>1, ShownAfterIs DEF ListsInv
  <2>2. CASE calls[s].cmd = "generate_new_keypair"
    BY <1>1, <2>2 DEF Awaited
  <2>3. CASE calls[s].cmd \notin {"list", "generate_new_keypair"} \/ ~calls[s].ok
    <3>1. shown'.key = shown.key
      BY <1>1, <2>3, ShownAfterIs
    <3>2. QED
      BY <3>1 DEF KeyInv
  <2>4. QED
    BY <2>1, <2>2, <2>3
<1>5. ASSUME "keypair" \notin overtaken,
             \A t \in Slots : Done(calls'[t]) => calls'[t].cmd # "generate_new_keypair"
      PROVE  shown'.key = NoKey \/ shown'.key = ActiveKey \/ ActiveKey = NoKey
  <2>1. CASE calls[s].cmd = "list" /\ calls[s].ok
    BY <1>1, <1>5, <2>1, ShownAfterIs DEF ListsInv
  <2>2. CASE calls[s].cmd = "generate_new_keypair" /\ calls[s].ok
    BY <1>1, <1>5, <2>2, ShownAfterIs DEF KeyInv
  <2>3. CASE calls[s].cmd \notin {"list", "generate_new_keypair"} \/ ~calls[s].ok
    <3>1. shown'.key = shown.key
      BY <1>1, <2>3, ShownAfterIs
    <3>2. \A t \in Slots : Done(calls[t]) => calls[t].cmd # "generate_new_keypair"
      BY <1>1, <1>5, <2>3
    <3>3. QED
      BY <1>5, <3>1, <3>2 DEF KeyInv
  <2>4. QED
    BY <2>1, <2>2, <2>3
<1>6. ASSUME "keypair" \notin overtaken, NEW t \in Slots,
             calls'[t].cmd = "generate_new_keypair", Done(calls'[t])
      PROVE  calls'[t].got.key = ActiveKey
  <2>1. calls'[t] = calls[t]
    BY <1>1, <1>2, <1>6
  <2>2. QED
    BY <1>6, <2>1 DEF KeyInv
<1>7. KeyInv'
  BY <1>1, <1>3, <1>4, <1>5, <1>6 DEF KeyInv, Done
<1>8. ListsInv'
  <2>1. ASSUME NEW t \in Slots, calls'[t].cmd = "list", Done(calls'[t])
        PROVE  calls'[t] = calls[t]
    BY <1>1, <1>2, <2>1
  <2>2. QED
    BY <1>1, <1>3, <2>1 DEF ListsInv, Done
<1>9. QED
  BY <1>7, <1>8

LEMMA ReceiveKeeps ==
  ASSUME AgentInv, NEW s \in Slots, Receive(s)
  PROVE  AgentInv'
BY ReceiveTyped, ReceiveMine, ReceiveClaims, ReceiveDocs, ReceiveKey DEF AgentInv

-----------------------------------------------------------------------------
(* The invariant and the screens                                           *)

LEMMA OpenKeeps ==
  ASSUME AgentInv, NEW s \in Slots, NEW scr \in Screens, Open(s, scr)
  PROVE  AgentInv'
<1> USE DEF AgentInv
<1> DEFINE asked == [Idle EXCEPT !.cmd = "list", !.phase = "sent", !.mine = TRUE]
<1>1. /\ screen' = scr /\ loading' = TRUE /\ shown' = Nothing /\ selected' = <<>> /\ dialog' = FALSE
      /\ calls' = [t \in Slots |->
           IF t = s THEN asked
           ELSE IF calls[t].phase = "answered" THEN Idle ELSE [calls[t] EXCEPT !.mine = FALSE]]
      /\ overtaken' = UNION {Changes(calls[t]) : t \in {u \in Slots : calls[u].phase # "answered"}}
      /\ UNCHANGED <<evidence, imported, claims, stamp, commitments, keys>>
  BY DEF Open, db
<1>2. /\ asked \in CallType /\ asked.cmd = "list" /\ asked.phase = "sent" /\ asked.mine
      /\ asked.got = Nothing
  BY IdleTyped, EmptySeq, NothingTyped DEF Idle, CallType, Commands
<1>3. CallShape(asked) /\ Changes(asked) = {}
  BY <1>2, ChangesOf DEF CallShape, OnClaim, OnDocument
<1> HIDE DEF asked
<1>4. ASSUME NEW t \in Slots
      PROVE  /\ calls'[t] \in CallType /\ CallShape(calls'[t])
             /\ calls'[t].got = Nothing \/ calls'[t].got = calls[t].got
             /\ \/ calls'[t].cmd \in {"idle", "list"}
                \/ calls'[t].cmd = calls[t].cmd /\ calls'[t].of = calls[t].of
             /\ ~Done(calls'[t])
             /\ calls'[t].phase = "answered" => calls'[t].cmd = "idle"
             /\ calls'[t].mine <=> t = s
             /\ Changes(calls'[t]) \subseteq overtaken'
  <2>1. calls[t] \in CallType /\ CallShape(calls[t])
    BY DEF AgentTyped, CallsTyped
  <2>2. CASE t = s
    <3>1. calls'[t] = asked
      BY <1>1, <2>2
    <3>2. QED
      BY <1>2, <1>3, <2>2, <3>1 DEF Done
  <2>3. CASE t # s /\ calls[t].phase = "answered"
    <3>1. calls'[t] = Idle
      BY <1>1, <2>3
    <3>2. QED
      BY <2>3, <3>1, IdleTyped DEF Done
  <2>4. CASE t # s /\ calls[t].phase # "answered"
    <3>1. calls'[t] = [calls[t] EXCEPT !.mine = FALSE]
      BY <1>1, <2>4
    <3>2. /\ calls'[t] \in CallType /\ calls'[t].cmd = calls[t].cmd /\ calls'[t].of = calls[t].of
          /\ calls'[t].phase = calls[t].phase /\ calls'[t].got = calls[t].got /\ ~calls'[t].mine
      BY <2>1, <3>1 DEF CallType
    <3>3. calls[t].cmd # "idle"
      BY <2>1, <2>4, IdleTyped DEF CallShape
    <3>4. CallShape(calls'[t])
      BY <2>1, <3>2, <3>3 DEF CallShape, OnClaim, OnDocument
    <3>5. Changes(calls'[t]) \subseteq overtaken'
      BY <1>1, <2>4, <3>2, ChangesSame
    <3>6. QED
      BY <2>4, <3>2, <3>4, <3>5 DEF Done
  <2>5. QED
    BY <2>2, <2>3, <2>4
<1>5. CallsTyped'
  <2>1. calls' \in [Slots -> CallType]
    BY <1>1, <1>4
  <2>2. \A t \in Slots : CallShape(calls[t])'
    BY <1>4 DEF CallShape, OnClaim, OnDocument
  <2>3. QED
    BY <2>1, <2>2 DEF CallsTyped
<1>6. AgentTyped'
  BY <1>1, <1>5, NothingTyped, EmptySeq DEF AgentTyped, RowsTyped, ScreenTyped
<1>7. KeysTyped'
  BY <1>1 DEF KeysTyped, ActiveKeys
<1>8. RangesInv'
  <2>1. Nothing.active = {} /\ Nothing.docs = {}
    BY DEF Nothing
  <2>2. ASSUME NEW t \in Slots
        PROVE  /\ calls'[t].got.active \subseteq DOMAIN commitments
               /\ calls'[t].got.docs \subseteq imported
    BY <1>4, <2>1 DEF RangesInv
  <2>3. ASSUME NEW t \in Slots, calls'[t].cmd \in {"delete_evidence", "revoke_commitment"}
        PROVE  calls'[t].cmd = calls[t].cmd /\ calls'[t].of = calls[t].of
    BY <1>4, <2>3
  <2>4. QED
    BY <1>1, <2>1, <2>2, <2>3 DEF RangesInv
<1>9. MineInv'
  <2>1. Awaited(calls[s])'
    BY <1>1, <1>2 DEF Awaited, OnClaim, OnDocument
  <2>2. \A t \in Slots : calls'[t].mine => t = s
    BY <1>4
  <2>3. \A t \in Slots : calls'[t].mine => Awaited(calls[t])'
    BY <2>1, <2>2
  <2>4. QED
    BY <1>1, <1>4, <2>2, <2>3 DEF MineInv, Nothing
<1>10. OvertakenInv'
  BY <1>4 DEF OvertakenInv, Changes
<1>11. ClaimsInv'
  BY <1>1 DEF ClaimsInv
<1>12. DocsInv'
  <2>1. shown'.docs = {} /\ calls'[s].cmd = "list"
    BY <1>1, <1>2 DEF Nothing
  <2>2. \A t \in Slots : ~(calls'[t].cmd = "ingest_document" /\ calls'[t].mine)
    BY <1>4, <2>1
  <2>3. QED
    BY <2>1, <2>2 DEF DocsInv
<1>13. KeyInv' /\ ListsInv'
  <2>1. shown'.key = NoKey
    BY <1>1 DEF Nothing
  <2>2. QED
    BY <1>4, <2>1 DEF KeyInv, ListsInv, Done
<1>14. SelectedInv'
  <2>1. \A t \in Slots : ~(calls'[t].cmd = "create_commitment" /\ calls'[t].mine)
    BY <1>1, <1>2, <1>4
  <2>2. QED
    BY <1>1, <2>1 DEF SelectedInv, Range
<1>15. CommitmentsInv'
  BY <1>1, CommitmentsStay DEF CommitmentsStep
<1>16. QED
  BY <1>6, <1>7, <1>8, <1>9, <1>10, <1>11, <1>12, <1>13, <1>14, <1>15

\* Without a call.
LEMMA QuietKeeps ==
  ASSUME AgentInv, CommitmentsInv', DOMAIN commitments' = DOMAIN commitments,
         UNCHANGED <<evidence, imported, claims, stamp, keys,
                     screen, loading, shown, calls, overtaken>>,
         dialog' \in BOOLEAN, selected' \in Seq(Claims),
         dialog' \/ selected' # <<>> => screen = "commitments" /\ ~loading,
         \A c \in Range(selected') : shown.claims[c] = "verified"
  PROVE  AgentInv'
<1> USE DEF AgentInv
<1>1. UNCHANGED <<evidence, imported, claims, stamp, keys,
                  screen, loading, shown, calls, overtaken>>
  OBVIOUS
<1>2. AgentTyped'
  BY <1>1 DEF AgentTyped, CallsTyped, RowsTyped, ScreenTyped, CallShape, OnClaim, OnDocument
<1>3. KeysTyped' /\ ActiveKey' = ActiveKey
  BY <1>1 DEF KeysTyped, ActiveKeys, ActiveKey
<1>4. RangesInv'
  BY <1>1 DEF RangesInv
<1>5. MineInv' /\ OvertakenInv'
  <2>1. MineInv'
    BY <1>1 DEF MineInv, Awaited, OnClaim, OnDocument, Nothing
  <2>2. OvertakenInv'
    BY <1>1 DEF OvertakenInv, Changes
  <2>3. QED
    BY <2>1, <2>2
<1>6. ClaimsInv'
  BY <1>1 DEF ClaimsInv
<1>7. DocsInv'
  <2>1. ASSUME NEW d \in shown.docs \ overtaken
        PROVE  d \in evidence \/ \E t \in Slots : Is(calls'[t], "delete_evidence", d) /\ Done(calls'[t])
    BY <1>1, <2>1 DEF DocsInv
  <2>2. ASSUME NEW t \in Slots, calls'[t].cmd = "ingest_document", calls'[t].mine
        PROVE  /\ calls'[t].of[1] \notin shown.docs
               /\ Done(calls'[t]) => calls'[t].of[1] \in evidence
               /\ \A u \in Slots : calls'[u].cmd = "delete_evidence" => calls'[u].of[1] # calls'[t].of[1]
               /\ \A u \in Slots : calls'[u].cmd = "ingest_document" /\ calls'[u].mine => u = t
    BY <1>1, <2>2 DEF DocsInv
  <2>3. QED
    BY <1>1, <2>1, <2>2 DEF DocsInv, Is, Done
<1>8. KeyInv' /\ ListsInv'
  BY <1>1, <1>3 DEF KeyInv, ListsInv, Done
<1>9. SelectedInv'
  BY <1>1 DEF SelectedInv, Range
<1>10. QED
  BY <1>2, <1>3, <1>4, <1>5, <1>6, <1>7, <1>8, <1>9

LEMMA DialogKeeps ==
  ASSUME AgentInv, UNCHANGED <<db, screen, loading, shown, calls, overtaken>>,
         dialog' \in BOOLEAN, selected' \in Seq(Claims),
         dialog' \/ selected' # <<>> => screen = "commitments" /\ ~loading,
         \A c \in Range(selected') : shown.claims[c] = "verified"
  PROVE  AgentInv'
<1>1. UNCHANGED <<evidence, imported, claims, stamp, commitments, keys,
                  screen, loading, shown, calls, overtaken>>
  BY DEF db
<1>2. CommitmentsInv'
  BY <1>1, CommitmentsStay DEF CommitmentsStep, AgentInv
<1>3. QED
  BY <1>1, <1>2, QuietKeeps

LEMMA ExpireKeeps ==
  ASSUME AgentInv, NEW k \in DOMAIN commitments, ExpireCommitment(k)
  PROVE  AgentInv'
<1>1. /\ commitments' = [commitments EXCEPT ![k].expired = TRUE]
      /\ UNCHANGED <<evidence, imported, claims, stamp, keys,
                     screen, loading, shown, selected, dialog, calls, overtaken>>
  BY DEF ExpireCommitment, ui
<1>2. CommitmentsInv' /\ DOMAIN commitments' = DOMAIN commitments
  BY <1>1, CommitmentMarked DEF AgentInv, CommitmentsStep
<1>3. /\ dialog' \in BOOLEAN /\ selected' \in Seq(Claims)
      /\ dialog' \/ selected' # <<>> => screen = "commitments" /\ ~loading
      /\ \A c \in Range(selected') : shown.claims[c] = "verified"
  BY <1>1 DEF AgentInv, AgentTyped, ScreenTyped, SelectedInv
<1>4. QED
  BY <1>1, <1>2, <1>3, QuietKeeps

\* A tick taken back leaves the others.
LEMMA UntickedOf ==
  ASSUME NEW c, selected \in Seq(Claims), c \in Range(selected)
  PROVE  Unticked(c) \in Seq(Claims) /\ Range(Unticked(c)) \subseteq Range(selected)
<1> DEFINE i == CHOOSE j \in DOMAIN selected : selected[j] = c
           n == Len(selected)
           S == Range(selected)
<1>1. n \in Nat /\ DOMAIN selected = 1..n /\ selected \in [1..n -> Claims]
  BY LenProperties
<1>2. i \in 1..n
  BY <1>1 DEF Range
<1>3. selected \in Seq(S)
  <2>1. selected = [j \in 1..n |-> selected[j]] /\ \A j \in 1..n : selected[j] \in S
    BY <1>1 DEF Range
  <2> HIDE DEF n, S
  <2>2. QED
    BY <1>1, <2>1, IsASeq
<1> HIDE DEF i, n, S
<1>4. SubSeq(selected, 1, i - 1) \in Seq(S) /\ SubSeq(selected, i + 1, n) \in Seq(S)
  BY <1>1, <1>2, <1>3, SubSeqProperties
<1>5. Unticked(c) \in Seq(S)
  BY <1>4, ConcatProperties DEF Unticked, i, n
<1>6. S \subseteq Claims
  BY RangeOfSeq DEF S
<1>7. Unticked(c) \in Seq(Claims)
  BY <1>5, <1>6, SeqMonotonic
<1>8. QED
  BY <1>5, <1>7, RangeOfSeq DEF S

LEMMA ToggleKeeps ==
  ASSUME AgentInv, NEW c \in Claims, ToggleClaimSelection(c)
  PROVE  AgentInv'
<1>1. /\ dialog /\ shown.claims[c] = "verified"
      /\ selected' = IF c \in Range(selected) THEN Unticked(c) ELSE Append(selected, c)
      /\ UNCHANGED <<db, screen, loading, shown, dialog, calls, overtaken>>
  BY DEF ToggleClaimSelection, ClaimBox, VerifiedClaims
<1>2. /\ selected \in Seq(Claims) /\ dialog \in BOOLEAN
      /\ screen = "commitments" /\ ~loading
      /\ \A d \in Range(selected) : shown.claims[d] = "verified"
  BY <1>1 DEF AgentInv, AgentTyped, ScreenTyped, SelectedInv
<1>3. selected' \in Seq(Claims) /\ Range(selected') \subseteq Range(selected) \cup {c}
  <2>1. CASE c \in Range(selected)
    BY <1>1, <1>2, <2>1, UntickedOf
  <2>2. CASE c \notin Range(selected)
    <3>1. selected' = Append(selected, c)
      BY <1>1, <2>2
    <3>2. selected' \in Seq(Claims)
      BY <1>2, <3>1, AppendProperties
    <3>3. /\ Len(selected') = Len(selected) + 1 /\ Len(selected) \in Nat
          /\ \A j \in 1..Len(selected) : selected'[j] = selected[j]
          /\ selected'[Len(selected) + 1] = c
      BY <1>2, <3>1, AppendProperties, LenProperties
    <3>4. DOMAIN selected' = 1..Len(selected') /\ DOMAIN selected = 1..Len(selected)
      BY <1>2, <3>2, LenProperties
    <3>5. \A j \in DOMAIN selected' : selected'[j] \in Range(selected) \cup {c}
      BY <3>3, <3>4 DEF Range
    <3>6. QED
      BY <3>2, <3>5 DEF Range
  <2>3. QED
    BY <2>1, <2>2
<1>4. QED
  BY <1>1, <1>2, <1>3, DialogKeeps

-----------------------------------------------------------------------------
(* The invariant and the start                                             *)

\* What a new start finds, whatever was under way before.
Started ==
  /\ screen = "starting" /\ loading = FALSE /\ shown = Nothing /\ selected = <<>> /\ dialog = FALSE
  /\ calls = [s \in Slots |-> Idle] /\ overtaken = {}
  /\ RowsTyped /\ KeysTyped /\ CommitmentsInv

LEMMA StartedInv == Started => AgentInv
<1> SUFFICES ASSUME Started PROVE AgentInv
  OBVIOUS
<1> USE DEF Started
<1>1. /\ calls \in [Slots -> CallType]
      /\ \A s \in Slots : /\ calls[s] = Idle /\ CallShape(calls[s])
                          /\ calls[s].cmd = "idle" /\ ~calls[s].mine /\ ~Done(calls[s])
                          /\ calls[s].got = Nothing /\ Changes(calls[s]) = {}
  BY IdleTyped DEF Done
<1>2. AgentTyped
  BY <1>1, NothingTyped, EmptySeq DEF AgentTyped, CallsTyped, ScreenTyped
<1>3. Nothing.active = {} /\ Nothing.docs = {} /\ Nothing.key = NoKey
      /\ Nothing.claims = [c \in Claims |-> "none"]
  BY DEF Nothing
<1>4. RangesInv
  BY <1>1, <1>3 DEF RangesInv
<1>5. MineInv /\ OvertakenInv
  BY <1>1 DEF MineInv, OvertakenInv
<1>6. ClaimsInv
  BY <1>1, <1>3 DEF ClaimsInv, ClaimAgrees, Is
<1>7. DocsInv
  BY <1>1, <1>3 DEF DocsInv
<1>8. KeyInv /\ ListsInv
  BY <1>1, <1>3 DEF KeyInv, ListsInv
<1>9. SelectedInv
  BY <1>1 DEF SelectedInv, Range
<1>10. QED
  BY <1>2, <1>4, <1>5, <1>6, <1>7, <1>8, <1>9 DEF AgentInv

LEMMA StartedNext == Started' => AgentInv'
BY StartedInv, PTL

LEMMA InitInv == AgentInit => AgentInv
<1> SUFFICES ASSUME AgentInit PROVE AgentInv
  OBVIOUS
<1> USE DEF AgentInit
<1>1. RowsTyped
  BY EdgeAgentAssumption DEF RowsTyped
<1>2. KeysTyped
  BY DEF KeysTyped, ActiveKeys
<1>3. CommitmentsInv
  <2>1. DOMAIN commitments = 1..0
    OBVIOUS
  <2>2. commitments \in Seq({commitments[k] : k \in DOMAIN commitments})
    BY EmptySeq
  <2>3. QED
    BY <2>1, <2>2 DEF CommitmentsInv
<1>4. QED
  BY <1>1, <1>2, <1>3, StartedInv DEF Started

LEMMA RestartKeeps ==
  ASSUME AgentInv, AgentRestart
  PROVE  AgentInv'
<1> USE DEF AgentInv
<1>1. /\ screen' = "starting" /\ loading' = FALSE /\ shown' = Nothing /\ selected' = <<>>
      /\ dialog' = FALSE /\ calls' = [s \in Slots |-> Idle] /\ overtaken' = {}
      /\ UNCHANGED <<evidence, imported, stamp, commitments>>
  BY DEF AgentRestart, db, InsertClaims
<1>2. \/ UNCHANGED <<claims, keys>>
      \/ UNCHANGED claims /\ keys' = DeactivateOthers
      \/ UNCHANGED claims /\ \E k \in FreeKeys : keys' = WithNewKey(k)
      \/ \E found \in SUBSET {c \in Claims : claims[c] = "unused"} : InsertClaims(found)
  BY DEF AgentRestart, db
<1>3. RowsTyped' /\ KeysTyped' /\ \A k \in KeyIds : keys[k] # "none" => keys'[k] # "none"
  <2>1. RowsTyped /\ KeysTyped
    BY DEF AgentTyped
  <2>2. CASE UNCHANGED <<claims, keys>>
    BY <1>1, <2>1, <2>2 DEF RowsTyped, KeysTyped, ActiveKeys
  <2>3. CASE UNCHANGED claims /\ keys' = DeactivateOthers
    BY <1>1, <2>1, <2>3, KeysDeactivated DEF RowsTyped
  <2>4. CASE UNCHANGED claims /\ \E k \in FreeKeys : keys' = WithNewKey(k)
    BY <1>1, <2>1, <2>4, KeyMade DEF RowsTyped
  <2>5. CASE \E found \in SUBSET {c \in Claims : claims[c] = "unused"} : InsertClaims(found)
    <3>1. /\ claims' \in [Claims -> {"unused", "pending", "verified", "deleted"}]
          /\ UNCHANGED keys
      BY <2>1, <2>5, Inserted
    <3>2. QED
      BY <1>1, <2>1, <3>1 DEF RowsTyped, KeysTyped, ActiveKeys
  <2>6. QED
    BY <1>2, <2>2, <2>3, <2>4, <2>5
<1>4. CommitmentsInv'
  BY <1>1, <1>3, CommitmentsStay DEF CommitmentsStep
<1>5. Started'
  BY <1>1, <1>3, <1>4 DEF Started
<1>6. QED
  BY <1>5, StartedNext

-----------------------------------------------------------------------------
(* The theorems                                                            *)

LEMMA StutterKeeps ==
  ASSUME AgentInv, UNCHANGED agentVars
  PROVE  AgentInv'
<1>1. UNCHANGED <<db, screen, loading, shown, selected, dialog, calls, overtaken>>
  BY DEF agentVars, ui
<1>2. /\ dialog' \in BOOLEAN /\ selected' \in Seq(Claims)
      /\ dialog' \/ selected' # <<>> => screen = "commitments" /\ ~loading
      /\ \A c \in Range(selected') : shown.claims[c] = "verified"
  BY <1>1 DEF AgentInv, AgentTyped, ScreenTyped, SelectedInv
<1>3. QED
  BY <1>1, <1>2, DialogKeeps

LEMMA OpenDialogKeeps ==
  ASSUME AgentInv, OpenDialog \/ CloseDialog
  PROVE  AgentInv'
<1>1. UNCHANGED <<db, screen, loading, shown, selected, calls, overtaken>>
  BY DEF OpenDialog, CloseDialog
<1>2. dialog' \in BOOLEAN /\ (dialog' => screen = "commitments" /\ ~loading)
  BY DEF OpenDialog, CloseDialog
<1>3. /\ selected' \in Seq(Claims)
      /\ selected' # <<>> => screen = "commitments" /\ ~loading
      /\ \A c \in Range(selected') : shown.claims[c] = "verified"
  BY <1>1 DEF AgentInv, AgentTyped, ScreenTyped, SelectedInv
<1>4. QED
  BY <1>1, <1>2, <1>3, DialogKeeps

LEMMA AgentNextKeeps == AgentInv /\ [AgentNext]_agentVars => AgentInv'
<1> SUFFICES ASSUME AgentInv, [AgentNext]_agentVars PROVE AgentInv'
  OBVIOUS
<1>1. ASSUME NEW s \in Slots, NEW scr \in Screens, Open(s, scr) PROVE AgentInv'
  BY <1>1, OpenKeeps
<1>2. ASSUME NEW s \in Slots, NEW c \in Claims, ToggleVerified(s, c) \/ DeleteClaim(s, c)
      PROVE  AgentInv'
  BY <1>2, ToggleVerifiedSent, DeleteClaimSent, SentKeeps
<1>3. ASSUME NEW s \in Slots, NEW d \in Documents,
             ImportDocument(s, d) \/ DeleteEvidence(s, d) \/ ExtractClaims(s, d)
      PROVE  AgentInv'
  BY <1>3, ImportDocumentSent, DeleteEvidenceSent, ExtractClaimsSent, SentKeeps
<1>4. ASSUME OpenDialog \/ CloseDialog PROVE AgentInv'
  BY <1>4, OpenDialogKeeps
<1>5. ASSUME NEW c \in Claims, ToggleClaimSelection(c) PROVE AgentInv'
  BY <1>5, ToggleKeeps
<1>6. ASSUME NEW s \in Slots, CreateCommitment(s) \/ GenerateNewKeypair(s) PROVE AgentInv'
  BY <1>6, CreateCommitmentSent, GenerateNewKeypairSent, SentKeeps
<1>7. ASSUME NEW s \in Slots, NEW k \in DOMAIN commitments, RevokeCommitment(s, k)
      PROVE  AgentInv'
  BY <1>7, RevokeCommitmentSent, SentKeeps
<1>8. ASSUME NEW s \in Slots, ListCommands(s) \/ IngestDocument(s) \/ DeleteEvidenceRow(s)
      PROVE  AgentInv'
  BY <1>8, ListCommandsStep, IngestDocumentStep, DeleteEvidenceRowStep, StepKeeps
<1>9. ASSUME NEW s \in Slots, ReadEvidence(s) \/ InsertExtracted(s) PROVE AgentInv'
  BY <1>9, ReadEvidenceStep, InsertExtractedStep, StepKeeps
<1>10. ASSUME NEW s \in Slots, VerifyClaim(s) \/ DeleteClaimRow(s) PROVE AgentInv'
  BY <1>10, VerifyClaimStep, DeleteClaimRowStep, StepKeeps
<1>11. ASSUME NEW s \in Slots,
              CreateCommitmentRow(s) \/ RevokeCommitmentRow(s) \/ InsertKeypair(s)
       PROVE  AgentInv'
  BY <1>11, CreateCommitmentRowStep, RevokeCommitmentRowStep, InsertKeypairStep, StepKeeps
<1>12. ASSUME NEW s \in Slots, CommandFails(s) \/ Receive(s) PROVE AgentInv'
  BY <1>12, CommandFailsStep, StepKeeps, ReceiveKeeps
<1>13. ASSUME AgentRestart PROVE AgentInv'
  BY <1>13, RestartKeeps
<1>14. ASSUME UNCHANGED agentVars PROVE AgentInv'
  BY <1>14, StutterKeeps
<1>15. ASSUME NEW k \in DOMAIN commitments, ExpireCommitment(k) PROVE AgentInv'
  BY <1>15, ExpireKeeps
<1>16. QED
  BY <1>1, <1>2, <1>3, <1>4, <1>5, <1>6, <1>7, <1>8, <1>9, <1>10, <1>11, <1>12, <1>13, <1>14,
     <1>15
  DEF AgentNext

\* AgentInv is an invariant of the edge agent.
THEOREM AgentInvariant == AgentSpec => []AgentInv
<1>1. AgentInit => AgentInv
  BY InitInv
<1>2. AgentInv /\ [AgentNext]_agentVars => AgentInv'
  BY AgentNextKeeps
<1>3. QED
  BY <1>1, <1>2, PTL DEF AgentSpec

\* One key signs at a time, and the key of every signature is kept: insert_keypair
\* (storage/mod.rs) deactivates the others first, and a commitment of no claims is not made.
THEOREM AgentTypeCorrect == AgentSpec => []AgentTypeOK
<1>1. AgentInv => AgentTypeOK
  <2> SUFFICES ASSUME AgentInv PROVE AgentTypeOK
    OBVIOUS
  <2> USE DEF AgentInv
  <2>1. Cardinality(ActiveKeys) <= 1
    <3>1. Cardinality({}) = 0 /\ \A k : Cardinality({k}) = 1
      BY FS_EmptySet, FS_Singleton
    <3>2. QED
      BY <3>1 DEF KeysTyped
  <2>2. \A k \in DOMAIN commitments :
          commitments[k].claims # <<>> /\ keys[commitments[k].key] # "none"
    BY DEF CommitmentsInv, RowOK
  <2>3. shown.claims \in [Claims -> {"none", "pending", "verified"}] /\ Range(selected) \subseteq Claims
    BY RangeOfSeq DEF AgentTyped, ScreenTyped, Lists
  <2>4. DOMAIN calls = Slots /\ \A s \in Slots : calls[s].phase \in {"sent", "working", "answered"}
    BY DEF AgentTyped, CallsTyped, CallType
  <2>5. QED
    BY <2>1, <2>2, <2>3, <2>4 DEF AgentTypeOK, AgentTyped, RowsTyped, ScreenTyped, KeysTyped
<1>2. QED
  BY <1>1, AgentInvariant, PTL

\* When the answers of a screen's calls are there, its rows show what is stored, except
\* those that another call was still changing (ui/src/screens).
THEOREM AgentShownIsStored == AgentSpec => []ShownIsStored
<1>1. AgentInv => ShownIsStored
  <2> SUFFICES ASSUME AgentInv, ~loading, \A s \in Slots : ~calls[s].mine
               PROVE  /\ \A c \in Claims \ overtaken : shown.claims[c] \in {"none", claims[c]}
                      /\ shown.docs \ overtaken \subseteq evidence
                      /\ \A k \in shown.active : k \in DOMAIN commitments
                      /\ shown.key # NoKey /\ "keypair" \notin overtaken
                           => shown.key = ActiveKey \/ ActiveKey = NoKey
    BY DEF ShownIsStored
  <2> USE DEF AgentInv
  <2>1. \A s \in Slots : ~(Done(calls[s]) /\ calls[s].cmd # "idle")
    BY DEF MineInv, Done
  <2>2. \A c \in Claims \ overtaken : shown.claims[c] \in {"none", claims[c]}
    BY <2>1 DEF ClaimsInv, ClaimAgrees, OnClaim
  <2>3. shown.docs \ overtaken \subseteq evidence
    BY <2>1 DEF DocsInv, Is
  <2>4. \A k \in shown.active : k \in DOMAIN commitments
    BY DEF RangesInv
  <2>5. shown.key # NoKey /\ "keypair" \notin overtaken => shown.key = ActiveKey \/ ActiveKey = NoKey
    BY <2>1 DEF KeyInv
  <2>6. QED
    BY <2>2, <2>3, <2>4, <2>5
<1>2. QED
  BY <1>1, AgentInvariant, PTL

\* Only the dialog looks whether claims are verified, and no commitment covers one that is
\* pending, unless a click on it was under way (Commitments.tsx:114).
THEOREM AgentCommittedWasVerified == AgentSpec => []CommittedWasVerified
<1>1. AgentInv => CommittedWasVerified
  BY DEF AgentInv, CommitmentsInv, RowOK, CommittedWasVerified
<1>2. QED
  BY <1>1, AgentInvariant, PTL

LEMMA HashesTyped ==
  ASSUME NEW ids \in Seq(Claims), NEW st \in [Claims -> 0..MaxStamp]
  PROVE  /\ HashesAt(ids, st) \in Seq({"claim"} \X Claims \X Nat)
         /\ Len(HashesAt(ids, st)) = Len(ids) /\ DOMAIN HashesAt(ids, st) = DOMAIN ids
<1> DEFINE n == Len(ids)
           S == {"claim"} \X Claims \X Nat
           hash(i) == <<"claim", ids[i], IF ids[i] \in Typed THEN 0 ELSE st[ids[i]]>>
<1>1. n \in Nat /\ DOMAIN ids = 1..n /\ ids \in [1..n -> Claims]
  BY LenProperties
<1>2. \A i \in 1..n : hash(i) \in S
  <2>1. \A c \in Claims : st[c] \in Nat
    BY EdgeAgentAssumption
  <2>2. QED
    BY <1>1, <2>1
<1>3. HashesAt(ids, st) = [i \in 1..n |-> hash(i)]
  BY <1>1 DEF HashesAt
<1> HIDE DEF n, S, hash
<1>4. HashesAt(ids, st) \in Seq(S)
  BY <1>1, <1>2, <1>3, IsASeq
<1>5. DOMAIN HashesAt(ids, st) = 1..n
  BY <1>3
<1>6. Len(HashesAt(ids, st)) = n
  BY <1>1, <1>4, <1>5, LenProperties
<1>7. QED
  BY <1>1, <1>4, <1>5, <1>6 DEF n, S

\* A commitment whose tree fits the circuits proves each of its Provable claims, at every
\* place in the tree, exactly until it expires or a claim that is not Typed is verified or
\* unverified: generate_proof builds the tree anew, and commands/mod.rs:658 hashes
\* updated_at.  One whose tree is deeper proves none of them (zk/mod.rs:326).
THEOREM AgentProofsHold == AgentSpec => []ProofsHold
<1>1. AgentInv => ProofsHold
  <2> SUFFICES ASSUME AgentInv, NEW k \in DOMAIN commitments, ~commitments[k].revoked,
                      Range(commitments[k].claims) \subseteq Present,
                      NEW i \in DOMAIN commitments[k].claims, commitments[k].claims[i] \in Provable
               PROVE  GenerateProof(k, i - 1) = "proof"
                        <=> /\ ~commitments[k].expired
                            /\ Depth(Leaves(k)) <= TREE_DEPTH
                            /\ \A c \in Range(commitments[k].claims) \ Typed :
                                 stamp[c] = commitments[k].stamps[c]
    BY DEF ProofsHold
  <2> DEFINE row == commitments[k]
             ids == row.claims
             leaves == LeafHashes(ids)
             committed == HashesAt(ids, row.stamps)
             proof == Prove(leaves, i - 1)
  <2>1. /\ ids \in Seq(Claims) /\ ids # <<>> /\ row.stamps \in [Claims -> 0..MaxStamp]
        /\ row.root = MerkleRoot(committed)
    BY DEF AgentInv, CommitmentsInv, RowOK
  <2>2. stamp \in [Claims -> 0..MaxStamp]
    BY DEF AgentInv, AgentTyped, RowsTyped
  <2>3. leaves = HashesAt(ids, stamp)
    BY DEF LeafHashes, HashesAt, ClaimHash
  <2>4. Len(ids) \in Nat \ {0} /\ DOMAIN ids = 1..Len(ids) /\ ids \in [DOMAIN ids -> Claims]
    BY <2>1, LenProperties, EmptySeq
  <2>5. /\ leaves \in Seq({"claim"} \X Claims \X Nat) /\ Len(leaves) = Len(ids)
        /\ committed \in Seq({"claim"} \X Claims \X Nat) /\ Len(committed) = Len(ids)
        /\ DOMAIN leaves = DOMAIN ids /\ DOMAIN committed = DOMAIN ids
    BY <2>1, <2>2, <2>3, HashesTyped
  <2>6. i \in Nat /\ i - 1 \in 0..(Len(leaves) - 1) /\ (i - 1) + 1 = i
    BY <2>4, <2>5
  <2>7. /\ GenerateProof(k, i - 1) = "proof"
             <=> /\ ~row.expired /\ Len(proof.path) <= TREE_DEPTH
                 /\ VerifyMerkleProof(proof.leaf, proof.path, proof.indices, row.root)
        /\ Leaves(k) = leaves
    BY <2>6 DEF GenerateProof, Leaves
  <2> HIDE DEF leaves, committed, ids, row
  <2>8. leaves # <<>>
    <3>1. Len(leaves) # 0
      BY <2>4, <2>5
    <3>2. QED
      BY <3>1, EmptySeq
  <2>9. VerifyMerkleProof(proof.leaf, proof.path, proof.indices, MerkleRoot(committed))
          <=> leaves = committed
    <3>1. PICK S : leaves \in Seq(S) /\ committed \in Seq(S)
      BY <2>5
    <3>2. Len(committed) = Len(leaves)
      BY <2>5
    <3>3. QED
      BY <2>6, <2>8, <3>1, <3>2, RebuiltProofVerifies
  <2>10. leaves = committed <=> \A j \in DOMAIN ids : leaves[j] = committed[j]
    <3>1. leaves = [j \in DOMAIN ids |-> leaves[j]] /\ committed = [j \in DOMAIN ids |-> committed[j]]
      BY <2>5, LenProperties
    <3>2. QED
      BY <3>1
  <2>11. \A j \in DOMAIN ids :
           /\ leaves[j] = <<"claim", ids[j], IF ids[j] \in Typed THEN 0 ELSE stamp[ids[j]]>>
           /\ committed[j] = <<"claim", ids[j], IF ids[j] \in Typed THEN 0 ELSE row.stamps[ids[j]]>>
    BY <2>3 DEF HashesAt, committed
  <2>12. \A j \in DOMAIN ids :
           leaves[j] = committed[j] <=> ids[j] \in Typed \/ stamp[ids[j]] = row.stamps[ids[j]]
    BY <2>11
  <2>13. (\A j \in DOMAIN ids : ids[j] \in Typed \/ stamp[ids[j]] = row.stamps[ids[j]])
           <=> \A c \in Range(ids) \ Typed : stamp[c] = row.stamps[c]
    BY DEF Range
  <2>14. Len(proof.path) = Depth(leaves)
    BY <2>5, <2>6, <2>8, ProveIs
  <2>15. QED
    BY <2>1, <2>7, <2>9, <2>10, <2>12, <2>13, <2>14 DEF ids, row
<1>2. QED
  BY <1>1, AgentInvariant, PTL

=============================================================================
