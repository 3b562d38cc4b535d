--------------------------- MODULE VerifyGateway ---------------------------
(***************************************************************************)
(* services/verify-gateway: the handler of POST /verify                    *)
(* (src/routes/verify.ts), the verifier (src/services/verifier.ts), the    *)
(* nonce store (src/services/nonce-store.ts) and the Noir command line     *)
(* (src/services/noir-cli.ts).                                             *)
(*                                                                         *)
(* Up to the await of `nargo verify` a request runs in one turn: checks,   *)
(* nonce, and the two files nargo reads, whose names depend on the circuit *)
(* only.  After it, other requests run at every await.  The packages here  *)
(* are proofs for one circuit; nargo itself is external.                   *)
(***************************************************************************)
EXTENDS Integers

CONSTANTS
  Requests,    \* bound: the requests that are ever made
  Packages,    \* the proof packages that suppliers hold, each with its nonce
  Malformed,   \* those without the fields the schema and the verifier require
  Genuine,     \* those whose proof nargo accepts
  CreatedAt,   \* generatedAt of each package, as its author dated it
  NonceWindow, \* nonceWindowMs
  MaxTime      \* bound on the clock

ASSUME GatewayAssumption ==
  /\ Malformed \subseteq Packages
  /\ Genuine \subseteq Packages \ Malformed
  /\ CreatedAt \in [Packages -> Nat]
  /\ NonceWindow \in Nat
  /\ MaxTime \in Nat

VARIABLES
  now,         \* Date.now()
  nonces,      \* the nonce store: when a package's nonce was stored
  pc,          \* per request: where its handler is
  pkg,         \* per request: the package it carries, once it is accepted
  onDisk,      \* the package whose proof was last written to the circuit's directory
  boot,        \* restarts of the gateway so far
  \* history
  acceptedAt,  \* per request: when its nonce was accepted ...
  acceptedIn,  \* ... and by which process
  overwritten, \* the requests whose files another one replaced while nargo ran
  receiptAt,   \* per request: verifiedAt of its receipt ...
  eventAt      \* ... and the timestamp of its event

gatewayVars == <<now, nonces, pc, pkg, onDisk, boot,
                 acceptedAt, acceptedIn, overwritten, receiptAt, eventAt>>

NotSeen == -1     \* no entry in the store; never accepted; no receipt; no event
NoPackage == "none"

Running == {"proving", "proven", "signing", "publishing", "answering"}
Steps == Running \cup {"idle", "refused", "receipted", "dead"}

GatewayTypeOK ==
  /\ now \in 0..MaxTime
  /\ nonces \in [Packages -> {NotSeen} \cup 0..MaxTime]
  /\ pc \in [Requests -> Steps]
  /\ pkg \in [Requests -> Packages \cup {NoPackage}]
  /\ onDisk \in Packages \cup {NoPackage}
  /\ boot \in Nat
  /\ acceptedAt \in [Requests -> {NotSeen} \cup 0..MaxTime]
  /\ acceptedIn \in [Requests -> {NotSeen} \cup Nat]
  /\ overwritten \subseteq Requests
  /\ receiptAt \in [Requests -> {NotSeen} \cup 0..MaxTime]
  /\ eventAt \in [Requests -> {NotSeen} \cup 0..MaxTime]

GatewayInit ==
  /\ now = 0
  /\ nonces = [p \in Packages |-> NotSeen]
  /\ pc = [q \in Requests |-> "idle"]
  /\ pkg = [q \in Requests |-> NoPackage]
  /\ onDisk = NoPackage
  /\ boot = 0
  /\ acceptedAt = [q \in Requests |-> NotSeen]
  /\ acceptedIn = [q \in Requests |-> NotSeen]
  /\ overwritten = {}
  /\ receiptAt = [q \in Requests |-> NotSeen]
  /\ eventAt = [q \in Requests |-> NotSeen]

-----------------------------------------------------------------------------
(* Mutated operations.  No specification uses them: each is the bug that a  *)
(* property has to catch.                                                   *)

\* The store drops an entry when its age reaches the window, not when it exceeds it.
StaleEager(p) == nonces[p] # NotSeen /\ nonces[p] <= now - NonceWindow

\* nargo's exit code is not looked at.
VerdictIgnored(q, ok) == TRUE

-----------------------------------------------------------------------------
(* The handler of POST /verify                                             *)

InWindow(p) ==
  /\ now - CreatedAt[p] <= NonceWindow
  /\ CreatedAt[p] - now <= NonceWindow

\* The package passes the checks that precede the proof: structure, time window
\* (packages dated in the future included), nonce not in the store.
Acceptable(p) == p \notin Malformed /\ InWindow(p) /\ nonces[p] = NotSeen

Refuse(q, p) ==
  /\ pc[q] = "idle"
  /\ ~Acceptable(p)
  /\ pc' = [pc EXCEPT ![q] = "refused"]
  /\ UNCHANGED <<now, nonces, pkg, onDisk, boot, acceptedAt, acceptedIn, overwritten, receiptAt, eventAt>>

\* The nonce is spent before the proof is looked at.
SpendNonce(q, p) ==
  /\ pkg' = [pkg EXCEPT ![q] = p]
  /\ nonces' = [nonces EXCEPT ![p] = now]
  /\ acceptedAt' = [acceptedAt EXCEPT ![q] = now]
  /\ acceptedIn' = [acceptedIn EXCEPT ![q] = boot]

\* The files of the circuit are replaced, under whichever nargo reads them.
WriteFiles(p) ==
  /\ onDisk' = p
  /\ overwritten' = overwritten \cup {r \in Requests : pc[r] = "proving"}

\* The proof has a length that no proof has, an input is missing, a file cannot be
\* written: refused without nargo, before or after the proof was written ...
FailEarly(q, p) ==
  /\ pc[q] = "idle"
  /\ Acceptable(p)
  /\ SpendNonce(q, p)
  /\ pc' = [pc EXCEPT ![q] = "refused"]
  /\ WriteFiles(p) \/ UNCHANGED <<onDisk, overwritten>>
  /\ UNCHANGED <<now, boot, receiptAt, eventAt>>

\* ... or the proof and Verifier.toml are written and nargo is started.
Accept(q, p) ==
  /\ pc[q] = "idle"
  /\ Acceptable(p)
  /\ SpendNonce(q, p)
  /\ pc' = [pc EXCEPT ![q] = "proving"]
  /\ WriteFiles(p)
  /\ UNCHANGED <<now, boot, receiptAt, eventAt>>

\* nargo judges what it finds on disk when it reads; it also fails for reasons of
\* its own (a proof of one package read with the inputs of another, no memory).
Verdict(q, ok) == ok => onDisk \in Genuine

Judge(q) ==
  /\ pc[q] = "proving"
  /\ \E ok \in BOOLEAN :
       /\ Verdict(q, ok)
       /\ pc' = [pc EXCEPT ![q] = IF ok THEN "proven" ELSE "refused"]
  /\ UNCHANGED <<now, nonces, pkg, onDisk, boot, acceptedAt, acceptedIn, overwritten, receiptAt, eventAt>>

\* createReceipt dates the receipt and awaits signReceipt ...
IssueReceipt(q) ==
  /\ pc[q] = "proven"
  /\ pc' = [pc EXCEPT ![q] = "signing"]
  /\ receiptAt' = [receiptAt EXCEPT ![q] = now]
  /\ UNCHANGED <<now, nonces, pkg, onDisk, boot, acceptedAt, acceptedIn, overwritten, eventAt>>

\* ... which fails, and the request with it, or the route dates the event anew and,
\* if there is a bus, awaits its publication.
SignReceipt(q) ==
  /\ pc[q] = "signing"
  /\ \/ /\ pc' = [pc EXCEPT ![q] = "refused"]
        /\ UNCHANGED eventAt
     \/ /\ pc' = [pc EXCEPT ![q] = "publishing"]
        /\ eventAt' = [eventAt EXCEPT ![q] = now]
  /\ UNCHANGED <<now, nonces, pkg, onDisk, boot, acceptedAt, acceptedIn, overwritten, receiptAt>>

\* The await of publish ends; an error is caught and logged.
PublishEnds(q) ==
  /\ pc[q] = "publishing"
  /\ pc' = [pc EXCEPT ![q] = "answering"]
  /\ UNCHANGED <<now, nonces, pkg, onDisk, boot, acceptedAt, acceptedIn, overwritten, receiptAt, eventAt>>

\* Whether or not the event was published, the answer carries the receipt.
Answer(q) ==
  /\ pc[q] = "answering"
  /\ pc' = [pc EXCEPT ![q] = "receipted"]
  /\ UNCHANGED <<now, nonces, pkg, onDisk, boot, acceptedAt, acceptedIn, overwritten, receiptAt, eventAt>>

-----------------------------------------------------------------------------
(* The rest of the process                                                 *)

Stale(p) == nonces[p] # NotSeen /\ nonces[p] < now - NonceWindow

\* The interval timer of the nonce store.
Cleanup ==
  /\ \E p \in Packages : Stale(p)
  /\ nonces' = [p \in Packages |-> IF Stale(p) THEN NotSeen ELSE nonces[p]]
  /\ UNCHANGED <<now, pc, pkg, onDisk, boot, acceptedAt, acceptedIn, overwritten, receiptAt, eventAt>>

\* The nonces are in memory only, the circuit's directory is not.
RestartGateway ==
  /\ boot' = boot + 1
  /\ nonces' = [p \in Packages |-> NotSeen]
  /\ pc' = [q \in Requests |-> IF pc[q] \in Running THEN "dead" ELSE pc[q]]
  /\ UNCHANGED <<now, pkg, onDisk, acceptedAt, acceptedIn, overwritten, receiptAt, eventAt>>

Tick ==
  /\ now < MaxTime
  /\ now' = now + 1
  /\ UNCHANGED <<nonces, pc, pkg, onDisk, boot, acceptedAt, acceptedIn, overwritten, receiptAt, eventAt>>

-----------------------------------------------------------------------------
(* Properties of the gateway                                               *)

\* One process accepts a package twice only if the first time was before the
\* package's own date: an entry is kept for a window from its arrival, and for a
\* package dated at its arrival or earlier the time window has closed by then.
\* verifier.ts:97 and nonce-store.ts:75.
ReplayOnlyOfFutureDated ==
  \A q, r \in Requests :
    q # r /\ acceptedIn[q] # NotSeen /\ acceptedIn[q] = acceptedIn[r] /\ pkg[q] = pkg[r]
      => acceptedAt[q] < CreatedAt[pkg[q]] \/ acceptedAt[r] < CreatedAt[pkg[r]]

\* A receipt attests a proof that nargo rejects only if another request replaced
\* the files while nargo was running on them: noir-cli.ts:29-34.
ReceiptAttestsProof ==
  \A q \in Requests : receiptAt[q] # NotSeen => pkg[q] \in Genuine \/ q \in overwritten

=============================================================================
