----------------------------- MODULE DppBuilder -----------------------------
(***************************************************************************)
(* services/dpp-builder: the products and their creation                   *)
(* (src/routes/products.ts), the handler of the verification events        *)
(* (src/index.ts), and the views of a passport (src/routes/dpp.ts,         *)
(* src/services/view-composer.ts), query by query (src/db/index.ts).       *)
(*                                                                         *)
(* Events come from outside, in any order, each published once; what       *)
(* happens to them on the way is EventBus's, which predicates may be shown *)
(* PredicateRegistry's, and to whom AccessControl's.                       *)
(***************************************************************************)
EXTENDS FiniteSets, EventBus, PredicateRegistry, AccessControl

CONSTANTS
  Products,     \* products that callers try to create, all with the same SKU
  ProductOf,    \* of an event: the product its binding is the hash of, or none
  PredicateOf,  \* of an event
  Receipts,     \* the receipts that callers of POST /products/:id/verifications name,
                \* those of events (which have the event's own name) among them or not
  Tokens,       \* the tokens that callers of the views have
  MaxPosted,    \* bound on the verifications posted by hand
  MaxFaults     \* bound on restarts, failed inserts and lost acks

Dpp == "dpp-builder"
NoProduct == "none"

ASSUME DppAssumption ==
  /\ Consumers = {Dpp}
  /\ ProductOf \in [Events -> Products \cup {NoProduct}]
  /\ PredicateOf \in [Events -> Predicates]
  /\ Tokens \subseteq [valid : BOOLEAN, realm : SUBSET Roles, client : SUBSET Roles]
  /\ MaxPosted \in Nat /\ MaxFaults \in Nat

VARIABLES
  products,     \* the table products
  creating,     \* per product: where POST /products is
  verified,     \* the table verified_predicates, in the order of verified_at
  expired,      \* the rows of it whose expires_at has passed
  matched,      \* the event handler has found the product of the event in hand
  handlerDone,  \* the event handler has returned; its ack is due
  view,         \* a request for a view
  \* history
  unmatched,    \* events whose product was missing when they were handled
  granted,      \* predicates in the LEGIT_INTEREST group at some time in this process
  faults

dppVars == <<products, creating, verified, expired, matched, handlerDone, view,
             unmatched, granted, faults>>

vars == <<busVars, registryVars, dppVars>>

NoView == [pc |-> "none", user |-> NoUser, level |-> "PUBLIC", rows |-> {}]

TypeOK ==
  /\ BusTypeOK
  /\ RegistryTypeOK
  /\ products \subseteq Products
  /\ creating \in [Products -> {"none", "checked", "created", "refused", "failed"}]
  \* Whoever was told that the product was created finds it.
  /\ \A x \in Products : creating[x] = "created" => x \in products
  /\ \A i \in DOMAIN verified :
       /\ verified[i].product \in products
       /\ verified[i].predicate \in Predicates
       /\ verified[i].receipt \in Events \cup Receipts
       /\ verified[i].byHand \in BOOLEAN
  /\ expired \subseteq DOMAIN verified
  /\ matched \in BOOLEAN /\ handlerDone \in BOOLEAN
  /\ view.level \in Levels
  /\ view.rows \subseteq DOMAIN verified
  /\ unmatched \subseteq Events
  /\ granted \subseteq Predicates
  /\ faults \in 0..MaxFaults

LegitInFile == {p \in Predicates : "LEGIT_INTEREST" \in registry[p]}

Init ==
  /\ BusInit
  /\ RegistryInit
  /\ products = {}
  /\ creating = [x \in Products |-> "none"]
  /\ verified = <<>>
  /\ expired = {}
  /\ matched = FALSE
  /\ handlerDone = FALSE
  /\ view = NoView
  /\ unmatched = {}
  /\ granted = LegitInFile
  /\ faults = 0

Fault == faults < MaxFaults /\ faults' = faults + 1

-----------------------------------------------------------------------------
(* Mutated operations                                                      *)

\* The oldest row of each predicate is kept.
OldestOf(rows, p) ==
  {i \in rows : verified[i].predicate = p /\ \A j \in rows : verified[j].predicate = p => i <= j}

\* The legitimate-interest view shows what the authority's does.
ShowToAll(level, p) == TRUE

\* The INSERT is not refused: no UNIQUE constraint, and its result is not looked at.
InsertUnchecked(x) == "created"

-----------------------------------------------------------------------------
(* Products                                                                *)

\* POST /products: the check for the SKU ...
CheckSku(x) ==
  /\ creating[x] = "none"
  /\ creating' = [creating EXCEPT ![x] = IF products = {} THEN "checked" ELSE "refused"]
  /\ UNCHANGED <<busVars, registryVars, products, verified, expired, matched, handlerDone,
                 view, unmatched, granted, faults>>

\* The answer of createProduct, for which the SKU is UNIQUE.
InsertAnswer(x) == IF products = {} THEN "created" ELSE "failed"

\* ... and the INSERT, with other requests in between.
CreateProduct(x) ==
  /\ creating[x] = "checked"
  /\ creating' = [creating EXCEPT ![x] = InsertAnswer(x)]
  /\ products' = IF products = {} THEN {x} ELSE products
  /\ UNCHANGED <<busVars, registryVars, verified, expired, matched, handlerDone, view,
                 unmatched, granted, faults>>

-----------------------------------------------------------------------------
(* Verifications                                                           *)

\* recordVerification: verified_at is the time of the INSERT, not of the proof.
AddRow(row) == verified' = Append(verified, row)

\* POST /products/:id/verifications, for a receipt and a predicate the caller names.
PostVerification(x, p, receipt) ==
  /\ Cardinality({i \in DOMAIN verified : verified[i].byHand}) < MaxPosted
  /\ x \in products
  /\ AddRow([product |-> x, predicate |-> p, receipt |-> receipt, byHand |-> TRUE])
  /\ UNCHANGED <<busVars, registryVars, products, creating, expired, matched, handlerDone,
                 view, unmatched, granted, faults>>

\* The expires_at of a posted row passes; the rows of events have none.
Expire(i) ==
  /\ verified[i].byHand
  /\ expired' = expired \cup {i}
  /\ UNCHANGED <<busVars, registryVars, products, creating, verified, matched, handlerDone,
                 view, unmatched, granted, faults>>

-----------------------------------------------------------------------------
(* The handler of verification events                                      *)

PublishEvent(e) ==
  /\ ~Published(e)
  /\ Publish(e)
  /\ UNCHANGED <<registryVars, dppVars>>

DeliverEvent ==
  /\ Deliver(Dpp)
  /\ UNCHANGED <<registryVars, dppVars>>

RedeliverEvent ==
  /\ Redeliver(Dpp)
  /\ UNCHANGED <<registryVars, dppVars>>

TakeEvent ==
  /\ Take(Dpp)
  /\ UNCHANGED <<registryVars, dppVars>>

\* No binding, or no product with that binding: the handler returns.
LookUpProduct ==
  /\ inHand[Dpp] # NoEvent /\ ~matched /\ ~handlerDone
  /\ LET found == ProductOf[inHand[Dpp]] \in products IN
       /\ matched' = found
       /\ handlerDone' = ~found
       /\ unmatched' = IF found THEN unmatched ELSE unmatched \cup {inHand[Dpp]}
  /\ UNCHANGED <<busVars, registryVars, products, creating, verified, expired, view,
                 granted, faults>>

RecordVerification ==
  /\ matched
  /\ LET e == inHand[Dpp] IN
       AddRow([product |-> ProductOf[e], predicate |-> PredicateOf[e], receipt |-> e,
               byHand |-> FALSE])
  /\ matched' = FALSE
  /\ handlerDone' = TRUE
  /\ UNCHANGED <<busVars, registryVars, products, creating, expired, view,
                 unmatched, granted, faults>>

Settle ==
  /\ handlerDone
  /\ handlerDone' = FALSE
  /\ Ack(Dpp)
  /\ UNCHANGED <<registryVars, products, creating, verified, expired, matched, view,
                 unmatched, granted, faults>>

\* The database fails in the handler, which throws: nak.  Or the ack is lost.
HandlerThrows ==
  /\ Fault
  /\ inHand[Dpp] # NoEvent
  /\ matched' = FALSE
  /\ handlerDone' = FALSE
  /\ Nak(Dpp)
  /\ UNCHANGED <<registryVars, products, creating, verified, expired, view,
                 unmatched, granted>>

-----------------------------------------------------------------------------
(* Views                                                                   *)

\* GET /dpp/:id/view/...: authentication, the route's guard, the product, and
\* getVerifiedPredicates; the query for the supplier links is awaited after it.
\* A public view, like 401, 403 and 404, is answered from the product alone.
RequestView(token, level, x) ==
  /\ view.pc = "none"
  /\ level # "PUBLIC"
  /\ RequireDppViewAccess(OptionalAuth(token), level)
  /\ x \in products
  /\ view' = [pc |-> "rows", user |-> OptionalAuth(token), level |-> level,
              rows |-> {i \in DOMAIN verified : verified[i].product = x} \ expired]
  /\ UNCHANGED <<busVars, registryVars, products, creating, verified, expired, matched,
                 handlerDone, unmatched, granted, faults>>

\* The most recent row of a predicate.
NewestOf(rows, p) ==
  {i \in rows : verified[i].predicate = p /\ \A j \in rows : verified[j].predicate = p => j <= i}

\* The legitimate-interest view passes over the predicates of other groups.
ShowAt(level, p) == level = "AUTHORITY" \/ InAccessGroup(p, "LEGIT_INTEREST")

\* What the answer shows if it is composed now.
Shown == UNION {NewestOf(view.rows, p) : p \in {r \in Predicates : ShowAt(view.level, r)}}

ComposeView ==
  /\ view.pc = "rows"
  /\ view' = NoView
  /\ IF view.rows # {} THEN LoadRegistry ELSE UNCHANGED registryVars
  /\ UNCHANGED <<busVars, products, creating, verified, expired, matched, handlerDone,
                 unmatched, granted, faults>>

-----------------------------------------------------------------------------
(* The registry and the process                                            *)

GeneratePredicate ==
  /\ (\E config \in Configs : WriteCircuitFiles(config)) \/ UpdateRegistry \/ GeneratorStops
  /\ granted' = granted \cup {p \in Predicates : "LEGIT_INTEREST" \in registry'[p]}
  /\ UNCHANGED <<busVars, products, creating, verified, expired, matched, handlerDone, view,
                 unmatched, faults>>

\* The tables and the bus keep what they have; requests and handlers are gone.
Restart ==
  /\ Fault
  /\ Reconnect(Dpp)
  /\ ForgetRegistry
  /\ creating' = [x \in Products |-> IF creating[x] = "checked" THEN "failed" ELSE creating[x]]
  /\ matched' = FALSE
  /\ handlerDone' = FALSE
  /\ view' = NoView
  /\ granted' = LegitInFile
  /\ UNCHANGED <<products, verified, expired, unmatched>>

Next ==
  \/ \E x \in Products : CheckSku(x) \/ CreateProduct(x)
  \/ \E x \in Products, p \in Predicates, r \in Receipts : PostVerification(x, p, r)
  \/ \E i \in DOMAIN verified : Expire(i)
  \/ \E e \in Events : PublishEvent(e)
  \/ DeliverEvent \/ RedeliverEvent \/ TakeEvent \/ LookUpProduct \/ RecordVerification
  \/ Settle \/ HandlerThrows
  \/ \E token \in Tokens, level \in Levels, x \in Products : RequestView(token, level, x)
  \/ ComposeView
  \/ GeneratePredicate
  \/ Restart

\* The consumer's loop runs on: the server sends what is new and what is not acknowledged,
\* the loop takes the next message, the handler's queries return, its ack goes out.
Fairness ==
  /\ WF_vars(DeliverEvent)
  /\ WF_vars(RedeliverEvent)
  /\ WF_vars(TakeEvent)
  /\ WF_vars(LookUpProduct)
  /\ WF_vars(RecordVerification)
  /\ WF_vars(Settle)

Spec == Init /\ [][Next]_vars /\ Fairness

-----------------------------------------------------------------------------
(* Properties                                                              *)

\* The rows that the service has recorded of an event by itself.
RowsOf(e) == {i \in DOMAIN verified : verified[i].receipt = e /\ ~verified[i].byHand}

\* An event that the bus considers done is in the passport, unless its product did
\* not exist when it was handled: a verification that runs ahead of the product's
\* creation is lost without an error, and nothing else is.  index.ts:163.
NothingElseUnrecorded ==
  \A e \in acked[Dpp] : RowsOf(e) # {} \/ e \in unmatched

\* The bus and the dpp-builder implement at-least-once delivery, but the service is not
\* idempotent: an event that was sent again before its acknowledgement may have a row for
\* each time, also after the acknowledgement, and no other event has a second row or a
\* late one.  An event is acknowledged only with a row, or when its product did not
\* exist; it is not passed over once it has a row.  adr/004:18, index.ts:163.
Delivery == INSTANCE AtLeastOnce WITH
  Idempotent <- FALSE,
  published <- {e \in Events : Published(e)},
  repeated <- redelivered[Dpp],
  results <- [e \in Events |-> Cardinality(RowsOf(e))],
  passedOver <- unmatched,
  settled <- acked[Dpp]

ImplementsDelivery == Delivery!DeliverySpec

\* A passport shows the result of an older verification, of two it has recorded by
\* itself for one predicate, only if the bus sent the older one a second time,
\* or only it was in the table when the view was read: db/index.ts:185.
NewestShownUnlessRedelivered ==
  \A i \in Shown, j \in view.rows :
    LET e == verified[i].receipt
        f == verified[j].receipt
    IN  /\ ~verified[i].byHand /\ ~verified[j].byHand
        /\ verified[i].predicate = verified[j].predicate
        /\ \E k, l \in DOMAIN stream : k < l /\ stream[k] = e /\ stream[l] = f
        => e \in redelivered[Dpp]

LegitByDocs == {"auditor", "authority"}
LegitByCode == {"brand"}

\* Nobody is shown more than the roles of a token that verified allow: the authority's
\* view takes an authority; the legitimate-interest view takes an auditor or an authority,
\* as adr/006:49 says, or a brand, which rbac.ts:10 adds to them.  Nor does that view show
\* a predicate that was never in its group while the process ran; one that is taken out of
\* the group is shown until a restart.
\* rbac.ts:19, view-composer.ts:88, predicate-lib/src/index.ts:58.
ViewWithinRights ==
  /\ view.level = "LEGIT_INTEREST"
       => /\ view.user.roles \cap (LegitByDocs \cup LegitByCode) # {}
          /\ \A i \in Shown : verified[i].predicate \in granted
  /\ view.level = "AUTHORITY" => "authority" \in view.user.roles

\* Every published event is acknowledged in the end, or the service runs without
\* the bus: no event keeps coming back, and none keeps the others waiting.
EventuallySettled ==
  \A e \in Events : Published(e) ~> (e \in acked[Dpp] \/ ~attached[Dpp])

=============================================================================
