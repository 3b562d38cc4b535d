# Verification of the ZK-DPP royalty protocol

TLA+ models, TLC runs and TLAPS proofs for the ZK-DPP royalty protocol: suppliers
prove predicates about their products, gateways verify the proofs, each
verification is metered, and the royalties owed for it are settled monthly in USDC
through contracts with a dispute window.

`PROJECT.json` holds the machine-readable index: components, runs, mutants (one bug
of the code per property, which the property must notice), the map from definitions
to source lines, findings, hazards and theorems. All source paths below are relative
to the repository; commands are run in this directory:

    tlc -workers 2 -config MCRoyaltySettlement.cfg MCRoyaltySettlement
    tlapm RoyaltySettlementProofs.tla

- [1. Inventory](#1-inventory)
- [2. Modules and how they correspond to the code](#2-modules-and-how-they-correspond-to-the-code)
- [3. Runs](#3-runs)
- [4. Fairness](#4-fairness)
- [5. What is proved](#5-what-is-proved)
- [6. Disagreements between code and documentation](#6-disagreements-between-code-and-documentation)
- [7. What is not modelled](#7-what-is-not-modelled)
- [8. Plan](#8-plan)

## 1. Inventory

The path of one royalty through the system:

    edge agent --proof package--> verify gateway --event--> metering service
        |                              |                        | usage -> statement
        | claims, commitments          +--event--> dpp-builder  |
        v                                                       v
    Merkle trees, circuits                 submit-on-chain / finalize-on-chain
                                                                |
    brand --deposit--> VerificationEscrow --draw--> RoyaltySettlement --claim--> supplier
                        PaymentDistributor (direct payments with fees)

| Component | State | Operations | What is hard | What makes it correct |
|---|---|---|---|---|
| **RoyaltySettlement** `contracts/src/RoyaltySettlement.sol` | dispute window, statements, claimable balances, pause flag | submit, finalize, dispute, claim, set window, pause, rescue | the window is read when it is used, not when the statement was submitted; a pause stops calls and not the clock; claims are paid from a pool of tokens nobody reserved | each statement is credited at most once and never after a dispute; the window is waited; nobody can hold a statement open for ever |
| **VerificationEscrow** `contracts/src/VerificationEscrow.sol` | brand balances, pending records per brand and supplier, pending totals per supplier, recorded receipts | deposit, record, draw to settlement, withdraw, set settlement contract, pause, rescue | four books about the same money, updated by different calls; one receipt must bill once | the books agree with each other and with the token in every order of calls |
| **PaymentDistributor** `contracts/src/PaymentDistributor.sol` | fees in basis points, treasury, accumulated fees | distribute, two kinds of claims, set fees and treasury, pause, rescue | rounding; fees that change between payments and claims | holds exactly what it owes; supplier share never below the cap's remainder |
| **Deployment** `contracts/script/Deploy.s.sol`, `contracts/test/Integration.t.sol` | one token under both contracts | money drawn from the escrow arrives at the settlement contract | no on-chain relation between statements and money drawn for them | the settlement contract is solvent as long as the owner submits no more than it drew |
| **MockUSDC** | token balances | transfer | a failing transfer reverts the whole call | - |
| **Settlement service** `services/metering-billing` (`db`, `routes/settlements.ts`, `routes/blockchain.ts`), `packages/contracts/src/client.ts` | statement rows with `status` and `blockchain_status`, transactions in flight | generate, finalize, submit-on-chain, finalize-on-chain | checks, awaits and unconditional writes interleave between requests; transactions are mined after the caller gave up; restarts in the middle | the row never contradicts the chain in a way a caller relies on |
| **Metering pipeline** `services/metering-billing/src/index.ts`, `packages/event-bus` | usage rows unique by event, durable consumers, messages fetched ahead | publish, deliver, acknowledge, record | at-least-once delivery with copies of what is buffered or in hand, swallowed errors | every receipt metered exactly once |
| **Verify gateway** `services/verify-gateway` | nonces in memory, proof files shared between requests | verify, issue a receipt, publish | nonce expiry against the time window, restarts, shared files across an asynchronous run | no package accepted twice; each request judged on its own proof |
| **DPP builder** `services/dpp-builder` | products, supplier links, verified predicates, tokens | create, link, record a verification, compose views | events for products not known yet, duplicates | the passport shows what was verified, once |
| **Edge agent** `apps/edge-agent` | documents, claims, commitments, keys, proofs | ingest, extract, verify a claim, commit, revoke, prove | claims change under a commitment | a proof speaks of the claims that were committed |
| **Commitments library** `crates/commitments` | none (Merkle trees) | build, prove, verify | odd levels | a proof verifies for its own leaf |
| **Predicate library** `packages/predicate-lib` | `predicates.json`, circuit files, a cached copy of the registry in every process | generate a predicate, look one up | two writes per predicate; a cache that is never refreshed | what the registry names exists; views follow it as far as a process can know |
| **Shared middleware** `packages/shared` | none | authenticate, check roles | role hierarchy, tokens that do not verify | no view beyond the caller's rights |
| **User interface** `apps/edge-agent/ui` | per screen: lists, ticks, dialog, calls in flight | mount a screen, press a button, apply an answer | answers out of order, screens left before the answer, a row clicked twice | what is shown is what is stored |
| **Circuits, proof core, crypto, schemas, auth client, infrastructure** | static, per request or configuration | - | the token cache of the auth client | - |

How they interact: the services exchange events over NATS JetStream (`event-bus`),
call each other over HTTP with service tokens (`auth-client`) and keep separate
schemas of one Postgres. The settlement service is the only writer of the
settlement contract's owner-only calls; suppliers and third parties call the
contracts directly and tell nobody. Contracts interact only through the token.

The hard behaviours, each at its line with the properties that would notice it
going wrong, are the `hazards` of `PROJECT.json`. Some have no property: those where the code
does go wrong, or may, and nothing in the repository says otherwise. The model takes the step
all the same, the note says what is known of it, and sections 6 and 7 go on.

## 2. Modules and how they correspond to the code

| Module | Stands for | Extends or instantiates |
|---|---|---|
| `Erc20` | a SafeERC20 transfer: a ledger `usdc` and when a transfer succeeds | - |
| `VerificationEscrow` | the escrow contract | `Erc20` |
| `RoyaltyLedger` | abstract: what a supplier is promised about statements and money | - |
| `RoyaltySettlement` | the settlement contract; implements `RoyaltyLedger` | `Erc20`, `RoyaltyLedger` (refinement mapping) |
| `DisputeOpportunity` | the settlement contract in time: disputable and lost seconds, fairness | `RoyaltySettlement` |
| `PaymentDistributor` | the distributor contract | `Erc20` |
| `RoyaltyProtocol` | escrow and settlement contract on one token | both contracts |
| `SettlementService` | the service's rows, its two on-chain handlers and restarts, over the abstract ledger | `RoyaltyLedger` |
| `VerifyGateway` | POST /verify await by await, nonce store, files of nargo | - |
| `EventBus` | streams, durable consumers, what their clients fetch ahead, redelivery and acknowledgement: operations only | - |
| `MeteringBilling` | usage rows, their handler, statements and reports: operations only | - |
| `AtLeastOnce` | abstract: what `docs/adr/004` asks of a consumer of the bus | - |
| `VerificationPipeline` | gateway, bus and metering service together, and what fails in them; implements `AtLeastOnce` | `EventBus`, `MeteringBilling`, `VerifyGateway`, `AtLeastOnce` (refinement mapping) |
| `PredicateRegistry` | the generator's writes and the registry a process has cached: operations only | - |
| `AccessControl` | tokens, roles and who may see which view: operators only | - |
| `DppBuilder` | products, recorded verifications, event handler and views; implements `AtLeastOnce` | `EventBus`, `PredicateRegistry`, `AccessControl`, `AtLeastOnce` (refinement mapping) |
| `MerkleTree` | the commitments library: build, prove, verify, as recursive functions | - |
| `EdgeAgent` | the backend's commands and the screens that invoke them | `MerkleTree` |
| `MC*` | the instances TLC checks | the module of the same name |
| `RecursionLemmas` | theorems about what is defined by recursion: sums of functions over finite sets, the Merkle tree of any number of leaves | `MerkleTree`, `TLAPS` |
| `*Proofs` | theorems about the module of the same name | the module, `RecursionLemmas` |
| `RoyaltyProtocolProofs` | theorems about the composition | `RoyaltyProtocol`, and instantiates the two contracts' proof modules |
| `ApplicationProofs` | theorems about the passport and the edge agent | `DppBuilder`, `EdgeAgent`, `RecursionLemmas` |

**Contracts.** One action is one external call that does not revert; its guard is
the conjunction of the call's modifiers, checks and the token's own check, and
everything it writes is in the action. A reverting call changes nothing and is
therefore no step. `caller` is `msg.sender`, ranging over all accounts, so that the
owner-only and supplier-only checks do something. Variables carry the names of the
contract's state variables. `now` is `block.timestamp`; `Tick` moves it, and several
calls may share a timestamp. Ids, receipts, accounts and hashes are only compared in
the code and are model values; amounts and seconds are naturals.

History variables record what the contracts announce in events and do not store:
the bill of each receipt, what was drawn, claimed, rescued and earned, and for
each statement the shortest window since it was submitted. No guard reads them,
except that `MaxRescued` bounds the emergency withdrawals; this bound is one of the
constants and the theorems hold for all its values.

| Contract state | Variable |
|---|---|
| `brandBalances`, `pendingRecords`, `supplierPendingTotals`, `recordedReceipts` (the receipts mapped to true), `settlementContract` | same names in `VerificationEscrow` |
| `statements`, `claimableBalances`, `disputeWindow` | same names in `RoyaltySettlement`; `statementHash`, never read by the contract, is left out |
| `protocolFeeBps`, `gatewayFeeBps`, `protocolTreasury`, `accumulated...Fees` | same names in `PaymentDistributor` |
| OpenZeppelin `Pausable` | `paused` |

**`RoyaltyLedger`** says, without time, pauses or tokens, that a statement is opened
once with fixed terms, then contested or credited, never both, and that what is
owed grows only by crediting and shrinks only by paying out in full.
`RoyaltySettlement` maps `statements` to `phase` and `terms`, `claimableBalances`
to `owed` and the sum of the claims to `paid`. This refinement is what allows
`SettlementService` to use the ledger in place of the contract.

**`SettlementService`.** A request is one handler, `pc` is the await it is at, and
between two awaits anything else may happen.

| Step of the code | Action |
|---|---|
| `generateStatement`, `finalizeStatement` (`db/index.ts`) | `GenerateStatement`, `FinalizeStatement` |
| submit-on-chain: read and checks (`blockchain.ts:100-120`) | `SubmitOnChain`; `SubmitReadFails` when the query throws |
| `updateBlockchainStatus(PENDING, wallet)` | `MarkPending` |
| contract call until the transaction is sent, `tx.wait()` and the write of SUBMITTED | `SendSubmission`, `SubmissionConfirmed` |
| any of those awaits throws | `SubmitThrows`, also when the transaction is in the pool or mined already |
| catch block | `MarkFailed`, or `MarkFailedLost` when its own write throws |
| finalize-on-chain | `FinalizeOnChain`, `SendFinalization`, `FinalizationConfirmed`, `FinalizeThrows` |
| network | `SubmissionMined`, `FinalizationMined`, `TransactionReverted` |
| process restart | `Restart`: handlers die, rows and transactions stay |
| suppliers and third parties on chain | `ChainStep` |

A refused request (400, 404) changes nothing and is no step. A statement's total is
an arbitrary amount, zero included (a period without usage). The conversion to
USDC units multiplies a decimal with four places by 10^6 and is exact, so the
amount on chain and in the row are one number in different units.

**`VerificationPipeline`.** One action is what a process does between two awaits.

| Step of the code | Action |
|---|---|
| POST /verify until `nargo verify` is awaited: schema, window, nonce, files (`verifier.ts:76-105`, `noir-cli.ts:17-40`) | `Accept`; `Refuse` when a check before the nonce fails; `FailEarly` when it fails after the nonce is spent, before or after the proof file is written |
| nargo's exit | `Judge`: any verdict, but success only if what is on disk *then* is genuine |
| the receipt and its date; the await of `signReceipt`, then the event with a date of its own (`verifier.ts:198`, `verify.ts:86`) | `IssueReceipt`; `SignReceipt`, which may fail |
| the await of `publish`, the answer | `PublishEvent` or `PublishFails`, `Answer` |
| interval timer of the nonce store; the clock | `Cleanup`, `Tick` |
| restart of the gateway: nonces are forgotten, files stay | `GatewayRestarts` |
| `consume()` fetching a message, a first one or one sent again; the loop taking the next of those fetched | `DeliverEvent`: `Deliver`, `Redeliver`, `Take` |
| the metering handler: its INSERT, or an INSERT that fails and is logged | `HandleEvent`, `InsertFails` |
| `msg.ack()`; one that is lost | `Settle`, `AckLost` |
| POST /usage, with any receipt and any date; POST /settlements (SELECT, then INSERT) | `ApiStep`: `PostUsage`, `ReadUsage`, `StoreStatement` |
| restart of the service, with or without reaching the bus | `MeteringRestarts` |

A publish that throws may have stored the event all the same. A consumer gets a first
delivery in stream order; what comes again comes in any order. The consumer is added without
`ack_wait`, so the server's default applies, and `consume()` fetches ahead: an event comes
again not only after a `nak`, a lost acknowledgement or a restart, but also while its first
message waits in the buffer or its handler runs (`Unsettled` is everything sent and not
acknowledged), and the copy is then handled although the event has been acknowledged.
`Prefetch` bounds the messages fetched ahead. Prices are 1 and the driver's text
for DECIMAL columns is kept as what it does to a sum: one price is a number, two
concatenated are not (`TotalAmount`). Reports are operators, since they store nothing.
The two event names differ only by the request, so an event is named by its request.

**`AtLeastOnce`** says, without streams, buffers, handlers, acknowledgements or restarts, that
an event that was published stays due until it is settled, and that it is settled only when the
consumer has stored a result of it or has passed it over. While it is due it may be repeated,
and only a repeated event is handled after it was settled, or has more than one result
(`Live`, `Store`). An event that has a result is not passed over, and no result goes away.
An idempotent consumer stores no second result at all. `VerificationPipeline` maps the
usage rows of an event's name to `results`, failed inserts to `passedOver` and the
acknowledgements to `settled`, with `Idempotent` true. `DppBuilder` maps rows of
`verified_predicates`, events whose product did not exist, and acknowledgements, with
`Idempotent` false: its table has no unique receipt. `redelivered` is mapped to `repeated`.
Fetching, naks, lost acknowledgements and restarts are steps of neither.

**`DppBuilder`.** `CheckSku` and `CreateProduct` are the two queries of POST /products;
`DeliverEvent`, `RedeliverEvent` and `TakeEvent` are the bus as above; `LookUpProduct` and
`RecordVerification` the queries of the event handler; a row posted by hand may name any
receipt, also that of an event, and is told from the handler's rows by `byHand` (history); `RequestView` and
`ComposeView` those of a view, with the supplier-links query between them, after which
the registry is consulted. `GeneratePredicate` is the generator running next to the
service. A row's place in `verified` is its `verified_at`, which the INSERT assigns.

**`EdgeAgent`.** A call is an `invoke`: `sent` until the command takes the lock of the
database, `working` while extraction awaits the model without the lock, `answered` until
the screen applies the answer. `Send` is the click, the command is one action, `Receive`
is the `setState`. Leaving a screen unmounts it: its calls still take effect, their answers
do not. A claim is identified with its type and value; `stamp` is the `updated_at` that
enters the hash of a claim whose type no circuit knows. `ExpireCommitment` is the passing of
`valid_until`, which `generate_proof` looks at. `GenerateProof` is that command: revoked,
expired, a claim that is gone, a claim of a type without a prover (`Provable` are those that
have one), a path longer than the circuits take (`TREE_DEPTH` = 8, trees of up to 256 claims),
or the verdict of the circuit. It is an operator, since it stores nothing that another step
reads; its inputs are those that satisfy the claim's own predicate. History: `overtaken` collects
what an unanswered call was still changing when the lists were read or the row was
clicked again; `pending` and `stamps` of a commitment are what held when it was made.

## 3. Runs

Bounds are constants of the cfg files. Accounts, receipts, statements and requests
are few, chosen so that every comparison the code makes can come out both ways.

| Run | Question | Instance and why it is enough |
|---|---|---|
| `escrow` | Do the escrow's books agree with the token, with each brand's money and with the bills, in every order of calls? | Two brands with 3 and 2 tokens, two suppliers, three receipts, amounts 0, 1, 2, rescues to the owner and to a brand: a receipt can be recorded twice, brands and suppliers mixed up, a draw and a withdrawal compete for the last token, and the escrow be emptied under both. |
| `settlement` | Is crediting exact and single, is the window waited, are the views right at every second, and does the contract implement the ledger? | Two statements, windows of 0, 1, 3, 4 offered around the default 2 and the maximum 3 (zero and one above the maximum must be refused), time up to 4: statements submitted at different times pass the maximum window in the run. |
| `settlement_progress` | Does every statement settle, and how much dispute time can a supplier count on? | As above with one supplier and no money; the clock is bounded, so liveness is claimed for statements submitted early enough for the window to end before the bound. |
| `paused_window` | Does the supplier get the 24-hour window? (violated, section 6) | One statement, the window never changed: a pause alone suffices. |
| `dispute_resolution` | Is a disputed statement ever resolved? (violated, section 6) | One statement under the fairness of section 4. |
| `distributor` | Does the distributor hold exactly its debts while fees and treasury change? | Amounts 199 and 399 with the contract's own fees: both fees are rounded down, separately. The fees offered (60 and 940) reach the cap of 1000 together and exceed it when doubled; two treasuries, two gateways. |
| `protocol` | With both contracts on one token, does drawn money arrive, and when is the settlement contract solvent? | One brand, two suppliers, two receipts, two statements: statements may exceed what was drawn, money may be drawn for one supplier and a statement opened for the other. |
| `settlement_service` | Can racing requests, lost answers and restarts make books and chain contradict each other? | Three requests over two statements, so that two race for one statement while a third finalizes, with different wallets; totals 0 (refused on chain) and 1; one restart at any point. That the chain follows the books for every total is `ServiceChainFollowsBooks`. |
| `pipeline` | What do gateway, bus and metering service promise together, and where does it end? | Two requests, a genuine package dated one tick in the future and a forged one, window 1, clock 0..2, so that an entry can age out while its package is still valid, each request can overwrite the other's files and an event be dated after its receipt; one message fetched ahead next to the one in hand, so that an event's copy waits while it is acknowledged. `MCOneDisturbance`: one disturbance at any point, which is a fault (restart of either service, failed publish, failed insert, lost ack), a row posted by hand or a statement over one of two adjacent periods. `MCApart`: where the bus sends something again, the requests have different packages, do not overwrite each other's files and are published; what gateway and bus do meanwhile does not depend on one another. 384,972 states, with the two requests interchangeable. The theorems hold without these bounds. |
| `passport` | What does a passport hold, what does it show and to whom? | Two racing creations of one SKU, two events for the product that wins or loses, both for one predicate, so that they compete to be the newest; one message fetched ahead; one row posted by hand that may name either event's receipt and may expire; the predicate regenerated once, without its LEGIT_INTEREST group; tokens of an authority, of a supplier with a client role, and one that does not verify; one fault. 205,123 states, with liveness. Only behaviours that publish `e1` first are explored (`MCFirstEvent`): the events differ in nothing but their names, and each of the others is one of these with the names exchanged, fairness included, so liveness holds of them as well. `MCFewDisturbances`: a row is posted by hand only where nothing fails and nothing is generated, and a fault and a generation meet only with a single event; what breaks it once breaks it for good, so liveness is claimed of the behaviours that keep to it. |
| `edge_agent` | Do screens, rows, keys and commitments agree, whatever order calls end in? | One document, two claims (one of a type no circuit knows), every initial set of claims, two calls in flight, six screens or clicks, one more than it takes to commit to a claim and change it, one commitment that may expire at any time, two keys. 485,119 states. Trees with an odd level need three leaves, and trees deeper than the circuits 257: the tree by itself is checked for all sizes up to nine, and its depth up to 17 leaves, by assumptions of `MCEdgeAgent`; that proofs verify and bind is proved for all sizes, and `ProofsHold` with it.  |
| `failure_reverted` | Can a statement whose submission failed be submitted again? (violated, section 6) | One request, no restart: an ordinary failure suffices. |

What the passing properties say:

- `Backed`, `BrandMoneyConserved`, `EachReceiptBilledOnce`, `PendingMatchesBills`: the
  escrow's four books describe the same money. `pendingRecords` is never lowered by a
  draw, so it is an audit trail and only the totals per supplier are debts.
- `CreditedOnce`, `WindowWaited`, `NotHeldOpen`, `DisputeOrFinalize`, `ImplementsLedger`,
  `WindowMinusPauses`, `EveryStatementSettles`: the strongest bound that holds on the
  window is the *shortest* window in force while the statement was open, less the time
  paused. The owner cannot keep a statement open past the maximum window.
- `FeesBacked`, `GatewayGetsItsFees`, `SupplierShareProtected`: no dust, no fee paid
  twice, at least 90% for the supplier with the contract's constants.
- `SolventWhenCovered`, `DrawnMoneyArrives`: solvency is conditional on the owner, and
  the condition is stated. The types of the composition are proved, not run.
- `NothingHidden`, `ChainFollowsBooks`, `BooksFollowChain`, `SuccessIsOnChain`: a row
  marked NOT_SUBMITTED has nothing on its way to the chain; what is on chain was
  finalized in the books for the same amount; PAID means credited; of two racing
  submissions at most one is told that it succeeded, and its wallet is the one on chain.
  What does *not* hold in a race: the loser overwrites `blockchain_status` with PENDING
  or FAILED and `supplier_wallet` with its own wallet, so the row may name a wallet that
  the chain does not pay, and finalize-on-chain then refuses the statement although it is
  open on chain. `FINALIZED` may be overwritten the same way; `status` = PAID is not.

- `ReplayOnlyOfFutureDated`: nonces are kept for one window from their arrival, and a
  package is accepted up to one window *before* its date, so a package dated in the
  future can be accepted twice by one process; no other can. Between processes nothing
  holds: the store is in memory.
- `ReceiptAttestsProof`: the exception is exactly the shared files; a forged proof gets a
  receipt only when a genuine one replaced it on disk while nargo ran.
- `NothingElseIsLost`, and `ImplementsDelivery` of both services: the list of ways to lose a
  verification is complete: a failed publish, a failed insert in the metering handler, and
  for the passport an event that ran ahead of its product. `ImplementsDelivery` adds that
  no row goes away, that an event that has a row is never passed over, and that only an event
  which the bus sent again before its acknowledgement is handled after it: the metering service
  then stores nothing more, unless its insert had failed; the passport may get a further row. The
  invariant `NothingElseUnrecorded` of the passport is a consequence and is proved, not run.
- `ChargedOnce`, `NewestShownUnlessRedelivered`: usage is unique by event, so redelivery is
  harmless there; passport rows are not, and a redelivered event is the newest result.
  What is charged without a row posted by hand was issued. It is dated by its event, which is
  dated after the receipt was signed: a receipt of the last moment of a period may be charged
  in the next one. Of a row posted by hand nothing holds, neither receipt nor date.
- `ReportsAgree`: half-open periods and whole months count the same rows; adjacent
  statements share none (overlapping ones do, and nothing in the code prevents them).
  It holds with totals as well because a statement with two usages fails (section 6).
- `ViewWithinRights`: a predicate taken out of a group is shown until the process restarts,
  and nothing beyond that. Who may see a view is what the code says, where it says more than the
  documents (`LegitByCode`, section 6).
- `EventuallySettled`: no event comes back for ever and none blocks the others.
- `ShownIsStored`, `CommittedWasVerified`: the exceptions are calls that were still under
  way, which the screens do not guard against.
- `ProofsHold`: a commitment proves its provable claims at every place of the tree until it
  expires or a claim of an unknown type in the same commitment is verified or unverified. One of
  more claims than the circuits' trees hold is made without complaint and proves nothing.

Deadlock checking is off in every run: the contracts and the service really may
stop, and the bounded clock and requests stop the models.

## 4. Fairness

Safety needs none. `RoyaltySettlement!Fairness`, used by the liveness runs, assumes:

- weak fairness of `Tick`: blocks keep being mined;
- weak fairness of `Unpause(Owner)`: an incident ends. Without it nothing settles, and
  the contract does not pretend otherwise;
- strong fairness of `FinalizeStatement(id)`: the call is open to anyone and the
  credited supplier profits from it, so somebody tries again and again. It is strong
  because the owner may pause and unpause for ever, which disables the call again and
  again.

No fairness is assumed of submissions, disputes, claims or the settlement service's
handlers: nothing in the code makes them happen.

`DppBuilder!Fairness` assumes weak fairness of `DeliverEvent` and `RedeliverEvent` (the
server delivers to an attached consumer that has room, and delivers again what is not
acknowledged, after the delay of a `nak` or `ack_wait`), of `TakeEvent` (the loop goes on
when its handler has ended), of `LookUpProduct` and `RecordVerification` (queries return or throw) and of
`Settle` (the acknowledgement after the handler is sent). It assumes nothing of
publishers, products, views, the generator or restarts; the number of faults is finite,
without which a handler could fail for ever. A service that starts without the bus never
attaches, which the property says.

## 5. What is proved

The theorems hold for all values of the constants that the named assumption of each
module allows: any finite set of accounts, receipts and statements, any amounts, any
windows and fees, any number of requests. The assumptions exclude only
configurations the deployment does not have: the contract is not itself one of its
users, the token balances start at natural numbers and the contract's own at zero,
the defaults lie within the caps.

| Module | Theorems | Argument |
|---|---|---|
| `VerificationEscrowProofs` | `EscrowTypeCorrect`, `EscrowBacked`, `EscrowPendingMatchesBills`, `EscrowBrandMoneyConserved`, `EscrowBillsOnce` | Each equation is inductive with `TypeOK`; an action changes one element on each side by the same amount (`RecursionLemmas`). `EscrowBillsOnce` needs the strengthening `UnrecordedUnbilled`: a receipt that is not recorded has no bill, without which recording it would overwrite one. |
| `RoyaltySettlementProofs` | `SettlementTypeCorrect`, `SettlementWindowWaited`, `SettlementNotHeldOpen`, `SettlementWindowMinusPauses`, `SettlementCreditedOnce`, `SettlementImplementsLedger`, `SettlementViewsDecide` | `WindowWaited` is not inductive: it needs `ShortestInForce`, that for an open statement the shortest window is at most the one in force. `WindowMinusPauses`, of the timed specification, needs `EverySecondCounted`: the seconds that were disputable or lost to a pause are at least those since the submission, or fill the shortest window. `CreditedOnce` needs `HasSupplier`, that an existing statement's supplier is one of the accounts credited. The refinement shows each action to be a ledger step or a stutter. `SettlementViewsDecide` is an action property: what a statement's status may become, and what the two views said before. |
| `PaymentDistributorProofs` | `DistributorTypeCorrect`, `DistributorProtectsSuppliers`, `DistributorFeesBacked`, `DistributorPaysGateways` | Types need `FeeCap`, that the two fees stay within the cap: it is why the supplier's share cannot go below zero. The split is non-linear in its division and rests on lemmas about rounding down. |
| `SettlementServiceProofs` | `ServiceTypeCorrect`, `ServiceHidesNothing`, `ServiceChainFollowsBooks`, `ServiceBooksFollowChain`, `ServiceSuccessIsOnChain` | The properties relate rows and ledger; what carries them between two awaits is what a handler still knows: `JobsFollowSteps` (its kind, and that it sent nothing yet), `BookedWhenSent` (the row it read is still finalized with that total), `AnnouncedWhenSent` (the row left NOT_SUBMITTED before the transaction was sent) and `MinedIsOnChain` (a mined transaction's effect is permanent, and two mined submissions have different statements). |
| `VerificationPipelineProofs` | `PipelineTyped`, `ReplayOnlyOfFuture`, `ReceiptsAttest`, `OnlyKnownLosses`, `EachReceiptChargedOnce`, `ReportsAlwaysAgree`, `PipelineImplementsDelivery` | `GatewayInv` carries the gateway's two: `NonceKept` (while this process may still accept a package, its entry is in the store, unless the package was dated after its arrival) and `FilesOfRequest` (a request being proved finds its own package on disk, unless overwritten). `Rest` carries the losses and charges: a receipted request is published or was reported unpublished, what was acknowledged is metered or dropped, what is in the stream was issued, and a row by an event's name is that event's. `StatementsInv` adds that a stored total is the number of rows read, all of them in the period; usage only grows, so periods that only touch never share a row. `PipelineImplementsDelivery` needs `DueInv`: an event is in the stream once, because its request is past publishing it; what was acknowledged was delivered; and an event that was never sent again has one copy, in the buffer or in hand, and none once it is acknowledged (`OneCopy`, `LateCopyRepeated`), so that a handler works on a settled event only if that was repeated. For `ChargedOnce`, `EventDated` says that an event in the stream has a date, not before its receipt's. All this for any packages, dates, window, requests, periods and number of faults. |
| `RoyaltyProtocolProofs` | `ProtocolTypeCorrect`, `ProtocolDrawnMoneyArrives`, `ProtocolSolventWhenCovered`, `ProtocolEscrowCovered`, `ProtocolImplementsLedger`, `ProtocolKeepsBooks`, `ProtocolKeepsTheWindow`, `ProtocolBrandsKeepTheirMoney` | The lemmas of the two contracts are instantiated with the state of the composition, so a contract's own calls need no second proof. `DrawnMoneyArrives` is inductive: a draw of the escrow adds to both sides (`EscrowCallPays`), a call of the settlement contract takes from its balance only what it records as claimed or rescued (`SettlementCallKeeps`). `SolventWhenCovered` follows from it with `CreditedOnce`, carried over as `Credits`: all that was credited is the total of the finalized statements, summed by supplier. The escrow's `Backed` is an equation and does not survive the composition, because a claim may send tokens to the escrow's address; what does is `EscrowCovered`, an inequality stated in the proof module. It needs that the escrow is not among the accounts that fund the settlement contract: a contract sends tokens by its own calls only. Next to the escrow the settlement contract still implements the ledger, credits once and keeps the window; next to the settlement contract the escrow still bills each receipt once and draws what it billed. `BrandMoneyConserved` speaks of wallets, into which a claim or a rescue may pay, and survives as an inequality for the brands that fund nobody (`BrandsKeepTheirMoney`): the escrow's calls keep the sum exactly (`BrandMoneyKept`), those of the settlement contract only add to it (`SettlementCallSpares`). |
| `RecursionLemmas` | `MerkleProofVerifies`, `MerkleRootBinds`, `RebuiltProofVerifies`, `MerkleProofSound`, and the sums of functions | For every number of leaves: the proof of a leaf verifies against its tree's root; two lists of the same length with one root are the same list; a proof built anew from as many rows verifies against a committed root exactly when their hashes are still the committed ones; whatever verifies with a path as long as the tree is deep is one of its leaves. Hashes do not collide in `MerkleTree`. The levels of a tree are a recursive function, and a statement about all of them is proved by a least counterexample, from the well-ordering of the naturals: no induction theorem with an operator parameter is used. |
| `ApplicationProofs` | `DppInvariant`, `DppTypeCorrect`, `DppNothingElseUnrecorded`, `DppNewestShown`, `DppViewWithinRights`, `DppImplementsDelivery` | The inductive `DppInv` has parts for the bus (`BusInv`: what is fetched follows what is in hand, in the order of the stream, unless it was sent again, and so does what is fetched after it, `LineInOrder`; what is left of an acknowledged event was sent again, `LateCopyRepeated`), the recorded verifications (`TableInv`) and the handler between its awaits (`HandlerInv`: the product it found is still there when it writes, and a handler that is done stored its row or found no product). `NewestShownUnlessRedelivered` needs `OrderInv`: rows are in the order of the stream unless the later row's event was sent again, and what is in hand or fetched follows every row (`RowsFirst`), without which the next row could break that order; `ViewWithinRights` needs `RegistryInv` and `ViewInv`, that no predicate was in the legitimate-interest group of the file or the cache without being in it while the process ran, and that a view in progress was asked for with the roles it takes. `DppImplementsDelivery` rests on the same parts and adds `RowsMatch`: a row of an event belongs to the product of its binding, so an event whose product does not exist has no row and may be passed over. |
| `ApplicationProofs` | `AgentInvariant`, `AgentTypeCorrect`, `AgentShownIsStored`, `AgentCommittedWasVerified`, `AgentProofsHold` | The invariant `AgentInv` says what a screen still knows of each row while its calls are in flight. A row that is not in `overtaken` is changed by one call at most, and that one belongs to the mounted screen (`OvertakenInv`, `MineInv`); so it is shown as it is stored, except between the answer of that call and its arrival (`ClaimsInv`, `DocsInv`, `KeyInv`), and lists read meanwhile agree too (`ListsInv`). `ShownIsStored` is the case without a call. Ticked claims are shown as verified and stay so until the answer of the creation (`SelectedInv`), from which `CommittedWasVerified` follows. `ProofsHold` combines `CommitmentsInv`, that a root is that of the hashes at the time, with `RebuiltProofVerifies`; a proof's path is as long as its tree is deep, which decides about `TREE_DEPTH`, and an expired commitment keeps its root (`ExpireKeeps`). |

The names of `EdgeAgent` start with `Agent` where `DppBuilder` has the same ones,
because one module proves theorems about both. The composition of several modules in
one proof module changes nothing in what each theorem assumes.

Only model-checked: the liveness properties `EveryStatementSettles` and
`EventuallySettled`, and `DisputeOrFinalize`, which says what is ENABLED: fairness and
ENABLED are outside what the prover handles. The part of `DisputeOrFinalize` that needs no
ENABLED is `SettlementViewsDecide`; what stays with TLC is that the call which a view
announces would succeed. Every other property of a passing run is a theorem.

## 6. Disagreements between code and documentation

- **The dispute window is not 24 hours of opportunity** (`paused_window`).
  `RoyaltySettlement.sol:18` says "24-hour dispute window allows supplier to dispute";
  a pause refuses disputes while the window runs out (`RoyaltySettlement.sol:134`).
- **Disputed is terminal** (`dispute_resolution`). `docs/adr/007-off-chain-first-settlement.md:124-125`
  promises that a disputed statement is corrected and resubmitted, or finalized; no call
  leaves that status, and the id cannot be submitted again.
- **A failed submission is not reverted** (`failure_reverted`). The comment at
  `services/metering-billing/src/routes/blockchain.ts:177` says "Revert status to
  NOT_SUBMITTED on failure"; the code writes FAILED, which submit-on-chain refuses, so
  the statement can never be submitted. Doing what the comment says would break
  `NothingHidden`, because the failed request's transaction may still be mined: it is
  the mutant that this property kills.

Noticed while modelling, without a run:

- `VerificationEscrow.sol:38` describes `supplierPendingTotals` as the total "per supplier
  across all brands", which after a draw is no longer the sum of `pendingRecords`, from
  which nothing is ever taken.
- `docs/adr/007-off-chain-first-settlement.md:68-69` says a supplier can claim once
  finalized, which needs a funded contract (`SolventWhenCovered` states when).
- `docs/adr/004` requires at-least-once delivery (line 18) and says that "Consumers must handle
  duplicates (idempotency)" (line 81): the metering service does (`ChargedOnce`), the
  dpp-builder does not, and both publisher and metering handler go on when a publish or an
  insert failed (`NothingElseIsLost` names those losses).
- `docs/deployment/security.md:161-168` says that nonces "are tracked and rejected if reused".
  The store is in memory and forgets with the process, and one process accepts a package dated
  in the future twice (`ReplayOnlyOfFutureDated` says that it accepts no other twice).
- A `brand` reaches the LEGIT_INTEREST view (`packages/shared/src/middleware/rbac.ts:10`), which
  `docs/adr/006-tiered-access-model.md:49` and `:157` and `docs/deployment/security.md:21` give
  to auditors and authorities only; the table of `docs/developer/architecture.md:185-190` has no
  such role. `ViewWithinRights` names the two sets (`LegitByDocs`, `LegitByCode`) and holds of
  their union, not of the first alone.
- POST /usage stores any receipt and date it is sent (`routes/usage.ts:39-41`): it asks nobody
  whether such a receipt was issued.
- In `generate_proof` the arm for SUBSTANCE_NOT_IN_LIST (`commands/mod.rs:936-965`) binds its proof
  to a name of its own and ends without that value, where the other arms end with theirs.
- A statement over two or more usages cannot be stored: `db/index.ts:180` adds DECIMAL
  values that the driver returns as text, and the concatenation is no number.
- `crates/commitments/src/merkle.rs:157` speaks of sorted pairs; the pair is hashed in the
  order given. Since an odd node is paired with itself, the leaves a, b, c and a, b, c, c
  have one root, and the number of claims is not part of what is signed.
- The gateway's `/ready` (`routes/health.ts:71`) reports ready when the bus was unreachable
  at startup, because no bus then exists to be disconnected.
- The service token of `auth-client/src/index.ts:79-83` is cached without regard to the
  credentials it was obtained with; no service calls it.
- The "Active Commitments" of the dashboard and of the commitments screen count revoked ones.
- Extraction stores its claims although the document was deleted while the model ran.
- The `Verifier.toml` that the gateway writes (`noir-cli.ts:69-117`) has no fields for the set
  hash and the two thresholds of the circuits generated from the set and range templates.

## 7. What is not modelled

- Ownership transfer (OpenZeppelin `Ownable`): the owner is a constant.
- `uint256` overflow: Solidity 0.8 reverts, and amounts are bounded by the token's supply.
- Gas, and reentrancy inside one call: the token is a plain ERC-20 that calls nobody
  back, so a transaction is atomic. `withdraw`, `claimPayment`, `distribute` and the two
  fee claims are also `nonReentrant`.
- In the settlement service: the wallet registry, which no handler consults. In metering:
  several suppliers, predicates and prices, which only partition the rows.
- In the dpp-builder: supplier links (written once, read into the authority's view and never
  compared with a verification), and the queries that no route calls: updating a product,
  deactivating a link, predicates by supplier.
- In the edge agent: `update_claim`, which no screen invokes; the settings, of which only the
  extraction's URL and model are read. In `generate_proof`: the inputs that do not fit the claim or
  the lists that do not fit the circuit, which only refuse; it stores nothing that another step
  reads.
- Revocation outside the edge agent: no call carries it to a gateway or a passport, so
  there is no step in which those could go wrong or right.
- A retry of a package whose verification failed for an unrelated reason: it is refused
  (`Refuse`) until its time window has closed; the repository promises nothing about it.
- The auth client: its token cache has no caller in the repository to be composed with.
- Circuits: fixed comparisons on a witness; their Merkle check is `MerkleTree`'s. nargo
  itself is external: it accepts genuine proofs only, and may refuse any.
- Proof core and crypto wrappers, schemas, error types, logging, metrics, rate limits
  (a plugin's), deployment files: no protocol state. The UNIQUE constraints of the
  database schema are part of `MeteringBilling` and `DppBuilder`.

## 8. Plan

Done, in this order: the three contracts, the ledger they implement and their
composition; the settlement service over the ledger; the verification pipeline; the
passport; the edge agent and its Merkle trees; at-least-once delivery and its two
implementations; theorems for every safety property of these that does not speak of
ENABLED.

Left, in order of importance:

1. The distributor in the composition: the token it distributes comes from a claim of the
   settlement contract, by hand.
2. Several predicates with prices of their own in `MeteringBilling`.
