------------------------------ MODULE EdgeAgent ------------------------------
(***************************************************************************)
(* apps/edge-agent: the supplier's desktop application.  Its screens       *)
(* (ui/src/screens) invoke the commands of its backend                     *)
(* (src-tauri/src/commands/mod.rs) and await the answers; the backend runs *)
(* the invoked commands concurrently, each under the lock of one database  *)
(* (src-tauri/src/storage/mod.rs), so they take effect in any order, and   *)
(* their answers arrive in any order.  A screen that was left is unmounted,*)
(* and an answer that arrives for it changes nothing.                      *)
(*                                                                         *)
(* Left out: the commands no screen invokes that change a row (update_claim), *)
(* the settings, which nothing here reads but the URL and the model of the *)
(* extraction, texts, and dates but for the end of a commitment's validity.*)
(***************************************************************************)
EXTENDS Naturals, Sequences, FiniteSets, Functions, MerkleTree

CONSTANTS
  Documents,      \* documents with a text, each imported at most once
  Claims,         \* the ids of the claims that extractions will find
  Typed,          \* the claims of the types whose values are hashed for circuits
  Provable,       \* those of the types that generate_proof has a predicate for
  TREE_DEPTH,     \* of the trees that the circuits are compiled for
  Slots,          \* invocations in flight at a time
  MaxActions,     \* bound on the screens opened and the commands invoked
  MaxStamp,       \* bound on the updates of a claim that is not Typed
  MaxCommitments,
  MaxKeys

ASSUME EdgeAgentAssumption ==
  /\ Provable \subseteq Typed /\ Typed \subseteq Claims
  /\ TREE_DEPTH \in Nat
  /\ MaxKeys \in Nat /\ MaxStamp \in Nat

VARIABLES
  evidence,       \* the documents in the table evidence
  imported,       \* the documents that ever were
  claims,         \* per claim: unused (no row yet), pending or verified, deleted
  stamp,          \* updated_at of the claims whose hash it enters
  commitments,    \* the table commitments, in the order of creation
  keys,           \* the table keypairs, in the order of creation
  screen,         \* the mounted screen
  loading,        \* it waits for its lists
  shown,          \* what its lists hold
  selected,       \* the claims ticked for a commitment, in the order of the ticks
  dialog,         \* the dialog for a commitment is open
  calls,          \* the invocations in flight
  \* history
  overtaken,      \* what a call was still changing when a screen read it or a
                  \* further call on it was sent
  actions

db == <<evidence, imported, claims, stamp, commitments, keys>>
ui == <<screen, loading, shown, selected, dialog>>
agentVars == <<db, ui, calls, overtaken, actions>>

Screens == {"dashboard", "evidence", "claims", "commitments", "settings"}
KeyIds == 1..MaxKeys
Present == {c \in Claims : claims[c] \in {"pending", "verified"}}
ActiveKeys == {k \in KeyIds : keys[k] = "active"}
\* The id of no row, in the place of the active key when there is none.
NoKey == 0
ActiveKey == IF ActiveKeys = {} THEN NoKey ELSE CHOOSE k \in ActiveKeys : TRUE

Nothing == [claims |-> [c \in Claims |-> "none"], active |-> {}, docs |-> {}, key |-> NoKey]

Idle == [cmd |-> "idle", of |-> <<>>, to |-> FALSE, phase |-> "answered",
         mine |-> FALSE, ok |-> FALSE, got |-> Nothing]

AgentTypeOK ==
  /\ evidence \subseteq imported /\ imported \subseteq Documents
  /\ claims \in [Claims -> {"unused", "pending", "verified", "deleted"}]
  /\ stamp \in [Claims -> 0..MaxStamp]
  /\ keys \in [KeyIds -> {"none", "active", "old"}]
  \* One key signs at a time, and the key of every signature is kept.
  /\ Cardinality(ActiveKeys) <= 1
  /\ \A k \in DOMAIN commitments :
       /\ commitments[k].claims # <<>>
       /\ keys[commitments[k].key] # "none"
  /\ screen \in Screens \cup {"starting"}
  /\ loading \in BOOLEAN /\ dialog \in BOOLEAN
  /\ shown.claims \in [Claims -> {"none", "pending", "verified"}]
  /\ Range(selected) \subseteq Claims
  /\ DOMAIN calls = Slots
  /\ \A s \in Slots : calls[s].phase \in {"sent", "working", "answered"}

\* The application starts with what earlier sessions left, in which no commitment was
\* made yet.
AgentInit ==
  /\ imported \in SUBSET Documents
  /\ evidence = imported
  /\ claims \in [Claims -> {"unused", "pending", "verified"}]
  /\ stamp = [c \in Claims |-> 0]
  /\ commitments = <<>>
  /\ keys = [k \in KeyIds |-> "none"]
  /\ screen = "starting"
  /\ loading = FALSE
  /\ shown = Nothing
  /\ selected = <<>>
  /\ dialog = FALSE
  /\ calls = [s \in Slots |-> Idle]
  /\ overtaken = {}
  /\ actions = 0

-----------------------------------------------------------------------------
(* Mutated operations.  No specification uses them: each is the bug that a  *)
(* property has to catch.                                                   *)

\* The other keys stay active.
KeepOthers == keys

\* The dialog offers all claims.
AllClaims == {c \in Claims : shown.claims[c] # "none"}

\* The test for the id is missing: every row of the list is flipped.
FlipAll(c) ==
  [d \in Claims |-> IF shown.claims[d] = "pending" THEN "verified"
                    ELSE IF shown.claims[d] = "verified" THEN "pending" ELSE "none"]

\* The hash of a Typed claim is over its row, too.
RowHash(c) == <<"claim", c, IF claims[c] = "verified" THEN 1 ELSE 0>>

-----------------------------------------------------------------------------
(* Invocations                                                             *)

\* What a call in flight may still change.
Changes(call) ==
  CASE call.cmd \in {"verify_claim", "delete_claim", "delete_evidence"} -> Range(call.of)
    [] call.cmd = "create_commitment" -> Range(call.of) \cup {"keypair"}
    [] call.cmd = "generate_new_keypair" -> {"keypair"}
    [] OTHER -> {}

InFlight == UNION {Changes(calls[s]) : s \in Slots}

\* invoke(): the function goes on when the answer is there.
Send(s, cmd, of, to) ==
  /\ calls[s].cmd = "idle"
  /\ ~loading
  /\ LET call == [Idle EXCEPT !.cmd = cmd, !.of = of, !.to = to, !.phase = "sent", !.mine = TRUE]
     IN  /\ calls' = [calls EXCEPT ![s] = call]
         /\ overtaken' = overtaken \cup (Changes(call) \cap InFlight)
  /\ actions < MaxActions
  /\ actions' = actions + 1
  /\ UNCHANGED <<db, screen, loading, shown, selected, dialog>>

\* The backend answers; nobody waits for the answer on a screen that was left.
Answer(s, ok, got) ==
  /\ calls' = [calls EXCEPT ![s] =
       IF @.mine THEN [@ EXCEPT !.phase = "answered", !.ok = ok, !.got = got] ELSE Idle]
  /\ UNCHANGED <<ui, overtaken, actions>>

Executing(s, cmd) == calls[s].cmd = cmd /\ calls[s].phase = "sent"
Id(s) == calls[s].of[1]

-----------------------------------------------------------------------------
(* Screens                                                                 *)

\* A screen is mounted, and asks for its lists.
Open(s, scr) ==
  /\ actions < MaxActions
  /\ screen # scr
  /\ screen = "starting" => scr = "dashboard"
  /\ calls[s].cmd = "idle" \/ calls[s].phase = "answered"
  /\ actions' = actions + 1
  /\ screen' = scr
  /\ loading' = TRUE
  /\ shown' = Nothing
  /\ selected' = <<>>
  /\ dialog' = FALSE
  /\ calls' = [t \in Slots |->
       IF t = s THEN [Idle EXCEPT !.cmd = "list", !.phase = "sent", !.mine = TRUE]
       ELSE IF calls[t].phase = "answered" THEN Idle ELSE [calls[t] EXCEPT !.mine = FALSE]]
  /\ overtaken' = UNION {Changes(calls[t]) : t \in {u \in Slots : calls[u].phase # "answered"}}
  /\ UNCHANGED db

\* The rows on the mounted screen, which carry the buttons.  The claims are those of
\* all products; a revoked commitment has no button.
ClaimRow(c) == screen = "claims" /\ shown.claims[c] # "none"
DocumentRow(d) == screen = "evidence" /\ d \in shown.docs
CommitmentRow(k) == screen = "commitments" /\ k \in shown.active

ToggleVerified(s, c) ==
  /\ ClaimRow(c)
  /\ Send(s, "verify_claim", <<c>>, shown.claims[c] # "verified")

DeleteClaim(s, c) ==
  /\ ClaimRow(c)
  /\ Send(s, "delete_claim", <<c>>, FALSE)

\* The button is not disabled while documents are deleted or claims extracted.
ImportDocument(s, d) ==
  /\ screen = "evidence" /\ d \notin imported
  /\ \A t \in Slots : ~(calls[t].cmd = "ingest_document" /\ (calls[t].mine \/ calls[t].of = <<d>>))
  /\ Send(s, "ingest_document", <<d>>, FALSE)

DeleteEvidence(s, d) ==
  /\ DocumentRow(d)
  /\ Send(s, "delete_evidence", <<d>>, FALSE)

ExtractClaims(s, d) ==
  /\ DocumentRow(d)
  /\ Send(s, "extract_claims", <<d>>, FALSE)

VerifiedClaims == {c \in Claims : shown.claims[c] = "verified"}

OpenDialog ==
  /\ screen = "commitments" /\ ~loading /\ ~dialog
  /\ VerifiedClaims # {}
  /\ dialog' = TRUE
  /\ UNCHANGED <<db, screen, loading, shown, selected, calls, overtaken, actions>>

\* Cancel: the ticks stay.
CloseDialog ==
  /\ dialog
  /\ dialog' = FALSE
  /\ UNCHANGED <<db, screen, loading, shown, selected, calls, overtaken, actions>>

\* The dialog lists the verified claims, with a box to tick for each.
ClaimBox(c) == dialog /\ c \in VerifiedClaims

\* Every claim is ticked once at most.
Unticked(c) ==
  LET i == CHOOSE j \in DOMAIN selected : selected[j] = c
  IN  SubSeq(selected, 1, i - 1) \o SubSeq(selected, i + 1, Len(selected))

ToggleClaimSelection(c) ==
  /\ ClaimBox(c)
  /\ selected' = IF c \in Range(selected) THEN Unticked(c) ELSE Append(selected, c)
  /\ UNCHANGED <<db, screen, loading, shown, dialog, calls, overtaken, actions>>

\* Nothing keeps the button from being pressed again before the answer.
CreateCommitment(s) ==
  /\ dialog /\ selected # <<>>
  /\ Send(s, "create_commitment", selected, FALSE)

RevokeCommitment(s, k) ==
  /\ CommitmentRow(k)
  /\ Send(s, "revoke_commitment", <<k>>, FALSE)

GenerateNewKeypair(s) ==
  /\ screen = "settings"
  /\ Send(s, "generate_new_keypair", <<>>, FALSE)

-----------------------------------------------------------------------------
(* Commands                                                                *)

\* What each screen asks for when it is mounted.
ListedClaims(scr) ==
  [c \in Claims |-> IF scr \in {"dashboard", "claims", "commitments"} /\ c \in Present
                    THEN claims[c] ELSE "none"]
ListedCommitments(scr) ==
  {k \in DOMAIN commitments : scr = "commitments" /\ ~commitments[k].revoked}
ListedEvidence(scr) == {d \in evidence : scr = "evidence"}
ListedKey(scr) == IF scr = "settings" THEN ActiveKey ELSE NoKey

\* The lists of a screen are read one by one; no two of them concern the same rows.
ListRows(scr) ==
  [claims |-> ListedClaims(scr), active |-> ListedCommitments(scr),
   docs |-> ListedEvidence(scr), key |-> ListedKey(scr)]

ListCommands(s) ==
  /\ Executing(s, "list")
  /\ Answer(s, TRUE, ListRows(screen))
  /\ UNCHANGED db

IngestDocument(s) ==
  /\ Executing(s, "ingest_document")
  /\ evidence' = evidence \cup {Id(s)}
  /\ imported' = imported \cup {Id(s)}
  /\ Answer(s, TRUE, Nothing)
  /\ UNCHANGED <<claims, stamp, commitments, keys>>

\* Deleting what is not there succeeds, too.
DeleteEvidenceRow(s) ==
  /\ Executing(s, "delete_evidence")
  /\ evidence' = evidence \ {Id(s)}
  /\ Answer(s, TRUE, Nothing)
  /\ UNCHANGED <<imported, claims, stamp, commitments, keys>>

\* extract_claims reads the document, then awaits the model without the lock ...
ReadEvidence(s) ==
  /\ Executing(s, "extract_claims")
  /\ IF Id(s) \in evidence
     THEN /\ calls' = [calls EXCEPT ![s].phase = "working"]
          /\ UNCHANGED <<ui, overtaken, actions>>
     ELSE Answer(s, FALSE, Nothing)
  /\ UNCHANGED db

\* ... and stores what it found one by one, up to the insert that fails.
InsertClaims(found) ==
  /\ claims' = [c \in Claims |-> IF c \in found THEN "pending" ELSE claims[c]]
  /\ UNCHANGED <<evidence, imported, stamp, commitments, keys>>

InsertExtracted(s) ==
  /\ calls[s].cmd = "extract_claims" /\ calls[s].phase = "working"
  /\ \E found \in SUBSET {c \in Claims : claims[c] = "unused"} : InsertClaims(found)
  /\ \E ok \in BOOLEAN : Answer(s, ok, Nothing)

VerifyClaim(s) ==
  /\ Executing(s, "verify_claim")
  /\ LET c == Id(s) IN
       IF c \in Present
       THEN /\ claims' = [claims EXCEPT ![c] = IF calls[s].to THEN "verified" ELSE "pending"]
            /\ IF c \in Typed THEN UNCHANGED stamp
               ELSE stamp[c] < MaxStamp /\ stamp' = [stamp EXCEPT ![c] = @ + 1]
            /\ Answer(s, TRUE, Nothing)
       ELSE Answer(s, FALSE, Nothing) /\ UNCHANGED <<claims, stamp>>
  /\ UNCHANGED <<evidence, imported, commitments, keys>>

DeleteClaimRow(s) ==
  /\ Executing(s, "delete_claim")
  /\ claims' = [claims EXCEPT ![Id(s)] = "deleted"]
  /\ Answer(s, TRUE, Nothing)
  /\ UNCHANGED <<evidence, imported, stamp, commitments, keys>>

\* insert_keypair: an UPDATE of all rows and an INSERT, not in one transaction.
DeactivateOthers == [k \in KeyIds |-> IF keys[k] = "active" THEN "old" ELSE keys[k]]

FreeKeys == {k \in KeyIds : keys[k] = "none" /\ \A l \in 1..(k - 1) : keys[l] # "none"}

WithNewKey(k) == [DeactivateOthers EXCEPT ![k] = "active"]

\* The circuits know the value of a Typed claim, which no update changes; the hash of
\* another is over the whole row.
ClaimHash(c) == <<"claim", c, IF c \in Typed THEN 0 ELSE stamp[c]>>

LeafHashes(ids) == [i \in DOMAIN ids |-> ClaimHash(ids[i])]

\* A key is made when none is active, and stays if the commitment then fails.
CreateCommitmentRow(s) ==
  /\ Executing(s, "create_commitment")
  /\ \E k \in IF ActiveKeys # {} THEN ActiveKeys ELSE FreeKeys :
       LET ids == calls[s].of IN
       /\ keys' = IF ActiveKeys # {} THEN keys ELSE WithNewKey(k)
       /\ \/ /\ Range(ids) \subseteq Present
             /\ Len(commitments) < MaxCommitments
             /\ commitments' = Append(commitments,
                  [claims |-> ids, root |-> MerkleRoot(LeafHashes(ids)), key |-> k,
                   revoked |-> FALSE, expired |-> FALSE,
                   \* history
                   stamps |-> stamp,
                   pending |-> {c \in Range(ids) : claims[c] # "verified"} \ overtaken])
             /\ Answer(s, TRUE, [Nothing EXCEPT !.active = {Len(commitments) + 1}])
          \/ /\ Answer(s, FALSE, Nothing)
             /\ UNCHANGED commitments
  /\ UNCHANGED <<evidence, imported, claims, stamp>>

RevokeCommitmentRow(s) ==
  /\ Executing(s, "revoke_commitment")
  /\ commitments' = [commitments EXCEPT ![Id(s)].revoked = TRUE]
  /\ Answer(s, TRUE, Nothing)
  /\ UNCHANGED <<evidence, imported, claims, stamp, keys>>

InsertKeypair(s) ==
  /\ Executing(s, "generate_new_keypair")
  /\ \/ \E k \in FreeKeys :
          /\ keys' = WithNewKey(k)
          /\ Answer(s, TRUE, [Nothing EXCEPT !.key = k])
     \/ /\ keys' = DeactivateOthers
        /\ Answer(s, FALSE, Nothing)
  /\ UNCHANGED <<evidence, imported, claims, stamp, commitments>>

\* The database fails, before anything is changed.
CommandFails(s) ==
  /\ calls[s].phase = "sent"
  /\ Answer(s, FALSE, Nothing)
  /\ UNCHANGED db

\* valid_until passes: the dialog gives every commitment 365 days.
ExpireCommitment(k) ==
  /\ ~commitments[k].expired
  /\ commitments' = [commitments EXCEPT ![k].expired = TRUE]
  /\ UNCHANGED <<evidence, imported, claims, stamp, keys, ui, calls, overtaken, actions>>

Leaves(k) == LeafHashes(commitments[k].claims)

\* generate_proof: which no screen invokes yet.  It builds the tree anew from the
\* claims as they are now; a path that fits the circuit is padded, and the circuit
\* checks it against the stored root.  For the claim's own predicate, with inputs that
\* the claim satisfies and lists that fit the circuit.
GenerateProof(k, index) ==
  LET ids == commitments[k].claims
      proof == Prove(Leaves(k), index)
  IN  IF commitments[k].revoked THEN "revoked"
      ELSE IF commitments[k].expired THEN "expired"
      ELSE IF ~(Range(ids) \subseteq Present) THEN "not found"
      ELSE IF ids[index + 1] \notin Provable THEN "not supported"
      ELSE IF /\ Len(proof.path) <= TREE_DEPTH
              /\ VerifyMerkleProof(proof.leaf, proof.path, proof.indices, commitments[k].root)
           THEN "proof" ELSE "proof generation failed"

-----------------------------------------------------------------------------
(* Answers                                                                 *)

FlipShown(c) ==
  [shown.claims EXCEPT ![c] = CASE @ = "pending" -> "verified"
                                [] @ = "verified" -> "pending"
                                [] OTHER -> "none"]

\* setState with what a successful call returned or did.
ShownAfter(call) ==
  CASE call.cmd = "list"                 -> call.got
    [] call.cmd = "verify_claim"         -> [shown EXCEPT !.claims = FlipShown(call.of[1])]
    [] call.cmd = "delete_claim"         -> [shown EXCEPT !.claims[call.of[1]] = "none"]
    [] call.cmd = "ingest_document"      -> [shown EXCEPT !.docs = @ \cup Range(call.of)]
    [] call.cmd = "delete_evidence"      -> [shown EXCEPT !.docs = @ \ Range(call.of)]
    [] call.cmd = "create_commitment"    -> [shown EXCEPT !.active = @ \cup call.got.active]
    [] call.cmd = "revoke_commitment"    -> [shown EXCEPT !.active = @ \ Range(call.of)]
    [] call.cmd = "generate_new_keypair" -> [shown EXCEPT !.key = call.got.key]
    [] OTHER                             -> shown

\* Whatever the answer to the lists is, the screen stops waiting.
Receive(s) ==
  /\ calls[s].cmd # "idle" /\ calls[s].phase = "answered"
  /\ shown' = IF calls[s].ok THEN ShownAfter(calls[s]) ELSE shown
  /\ loading' = (loading /\ calls[s].cmd # "list")
  /\ LET created == calls[s].cmd = "create_commitment" /\ calls[s].ok IN
       /\ selected' = IF created THEN <<>> ELSE selected
       /\ dialog' = (dialog /\ ~created)
  /\ calls' = [calls EXCEPT ![s] = Idle]
  /\ UNCHANGED <<db, screen, overtaken, actions>>

\* The application is closed or dies, perhaps in the middle of a command: each
\* statement is a transaction of its own.
AgentRestart ==
  /\ screen # "starting"
  /\ screen' = "starting"
  /\ loading' = FALSE
  /\ shown' = Nothing
  /\ selected' = <<>>
  /\ dialog' = FALSE
  /\ calls' = [s \in Slots |-> Idle]
  /\ overtaken' = {}
  /\ UNCHANGED actions
  /\ \/ UNCHANGED db
     \/ \E s \in Slots :
          \/ /\ Executing(s, "generate_new_keypair")
             /\ keys' = DeactivateOthers
             /\ UNCHANGED <<evidence, imported, claims, stamp, commitments>>
          \/ /\ Executing(s, "create_commitment") /\ ActiveKeys = {}
             /\ \E k \in FreeKeys : keys' = WithNewKey(k)
             /\ UNCHANGED <<evidence, imported, claims, stamp, commitments>>
          \/ /\ calls[s].cmd = "extract_claims" /\ calls[s].phase = "working"
             /\ \E found \in SUBSET {c \in Claims : claims[c] = "unused"} : InsertClaims(found)

AgentNext ==
  \/ \E s \in Slots, scr \in Screens : Open(s, scr)
  \/ \E s \in Slots, c \in Claims : ToggleVerified(s, c) \/ DeleteClaim(s, c)
  \/ \E s \in Slots, d \in Documents :
       ImportDocument(s, d) \/ DeleteEvidence(s, d) \/ ExtractClaims(s, d)
  \/ OpenDialog \/ CloseDialog
  \/ \E c \in Claims : ToggleClaimSelection(c)
  \/ \E s \in Slots : CreateCommitment(s) \/ GenerateNewKeypair(s)
  \/ \E s \in Slots, k \in DOMAIN commitments : RevokeCommitment(s, k)
  \/ \E k \in DOMAIN commitments : ExpireCommitment(k)
  \/ \E s \in Slots : ListCommands(s) \/ IngestDocument(s) \/ DeleteEvidenceRow(s)
  \/ \E s \in Slots : ReadEvidence(s) \/ InsertExtracted(s)
  \/ \E s \in Slots : VerifyClaim(s) \/ DeleteClaimRow(s)
  \/ \E s \in Slots : CreateCommitmentRow(s) \/ RevokeCommitmentRow(s) \/ InsertKeypair(s)
  \/ \E s \in Slots : CommandFails(s) \/ Receive(s)
  \/ AgentRestart

AgentSpec == AgentInit /\ [][AgentNext]_agentVars

-----------------------------------------------------------------------------
(* Properties                                                              *)

\* When all its calls are answered, a screen shows of each row what the database
\* holds, unless a call of an earlier screen on that row was still under way when
\* the lists were read, or a row was clicked again before the answer to the first
\* click: Claims.tsx:38 flips what it shows, and sends what it showed before.  A key
\* that was shown stays the active one, unless its replacement failed halfway.
ShownIsStored ==
  ~loading /\ (\A s \in Slots : ~calls[s].mine) =>
    /\ \A c \in Claims \ overtaken : shown.claims[c] \in {"none", claims[c]}
    /\ shown.docs \ overtaken \subseteq evidence
    /\ \A k \in shown.active : k \in DOMAIN commitments
    /\ shown.key # NoKey /\ "keypair" \notin overtaken => shown.key = ActiveKey \/ ActiveKey = NoKey

\* The backend does not look whether the claims it commits to are verified, only the
\* dialog does (Commitments.tsx:114): no commitment covers a claim that is pending at
\* that time, unless a click on the claim was still under way.
CommittedWasVerified ==
  \A k \in DOMAIN commitments : commitments[k].pending = {}

\* As long as its claims are there and it is not revoked, a commitment proves each of
\* its Provable claims, at every place in the tree, until it expires or a claim that is
\* not Typed is verified or unverified: commands/mod.rs:658 hashes updated_at with it.
\* One with a tree deeper than the circuits' was accepted, and proves nothing:
\* zk/mod.rs:326.
ProofsHold ==
  \A k \in DOMAIN commitments :
    LET ids == commitments[k].claims
        untyped == Range(ids) \ Typed
    IN  ~commitments[k].revoked /\ Range(ids) \subseteq Present =>
          \A i \in {j \in DOMAIN ids : ids[j] \in Provable} :
            GenerateProof(k, i - 1) = "proof"
              <=> /\ ~commitments[k].expired
                  /\ Depth(Leaves(k)) <= TREE_DEPTH
                  /\ \A c \in untyped : stamp[c] = commitments[k].stamps[c]

=============================================================================
