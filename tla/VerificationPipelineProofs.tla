--------------------- MODULE VerificationPipelineProofs ---------------------
(***************************************************************************)
(* What holds of a verification from its request to its usage row, for any *)
(* packages, windows, faults and restarts.  The gateway's two properties   *)
(* rest on GatewayInv alone, which every step of the pipeline preserves    *)
(* because it does to the gateway's variables what some handler of the     *)
(* gateway does, or nothing.  That bus and metering service implement      *)
(* AtLeastOnce rests on DueInv.                                            *)
(***************************************************************************)
EXTENDS VerificationPipeline, FiniteSetTheorems, TLAPS

-----------------------------------------------------------------------------
(* The gateway                                                             *)

Decided == {"proven", "signing", "publishing", "answering", "receipted"}

\* Each request is accepted at most once, before the present, by this process or an
\* earlier one.
AcceptedOnce ==
  \A q \in Requests :
    /\ pc[q] = "idle" => acceptedIn[q] = NotSeen
    /\ acceptedIn[q] # NotSeen =>
         /\ acceptedIn[q] \in 0..boot
         /\ acceptedAt[q] \in 0..now
         /\ pkg[q] \in Packages

\* While this process can still accept a package that it accepted before, its nonce is
\* in the store, unless the package is dated after that.
NonceKept ==
  \A q \in Requests :
    acceptedIn[q] = boot =>
      \/ acceptedAt[q] < CreatedAt[pkg[q]]
      \/ nonces[pkg[q]] >= acceptedAt[q]
      \/ now - CreatedAt[pkg[q]] > NonceWindow

\* nargo finds the files of a request as they were written, or they were overwritten.
FilesOfRequest ==
  \A q \in Requests :
    /\ pc[q] = "proving" => onDisk = pkg[q] \/ q \in overwritten
    /\ pc[q] \in Decided => pkg[q] \in Genuine \/ q \in overwritten

\* The receipt is dated when it is issued, once, and its event once after that.
ReceiptDated ==
  \A q \in Requests :
    /\ pc[q] \in {"idle", "proving", "proven"} => receiptAt[q] = NotSeen
    /\ pc[q] \in {"signing", "publishing", "answering", "receipted"} => receiptAt[q] # NotSeen
    /\ receiptAt[q] <= now

EventDated ==
  \A q \in Requests :
    /\ pc[q] \in {"idle", "proving", "proven", "signing"} => eventAt[q] = NotSeen
    /\ pc[q] \in {"publishing", "answering", "receipted"} => eventAt[q] # NotSeen
    /\ eventAt[q] # NotSeen => receiptAt[q] # NotSeen /\ receiptAt[q] <= eventAt[q]

GatewayInv ==
  /\ GatewayTypeOK
  /\ AcceptedOnce
  /\ NonceKept
  /\ FilesOfRequest
  /\ ReceiptDated
  /\ EventDated
  /\ ReplayOnlyOfFutureDated
  /\ ReceiptAttestsProof

\* What one step of the pipeline can do to the gateway.
GatewayAction ==
  \/ \E q \in Requests, p \in Packages : Accept(q, p)
  \/ \E q \in Requests, p \in Packages : Refuse(q, p)
  \/ \E q \in Requests, p \in Packages : FailEarly(q, p)
  \/ \E q \in Requests : Judge(q)
  \/ \E q \in Requests : IssueReceipt(q)
  \/ \E q \in Requests : SignReceipt(q)
  \/ \E q \in Requests : PublishEnds(q)
  \/ \E q \in Requests : Answer(q)
  \/ Cleanup
  \/ Tick
  \/ RestartGateway
  \/ UNCHANGED gatewayVars

LEMMA StepsOfTheGateway == [Next]_vars => GatewayAction
<1> SUFFICES ASSUME [Next]_vars PROVE GatewayAction
  OBVIOUS
<1>1. CASE GatewayStep
  BY <1>1 DEF GatewayStep, GatewayAction
<1>2. CASE \E q \in Requests : PublishEvent(q) \/ PublishFails(q)
  BY <1>2 DEF PublishEvent, PublishFails, GatewayAction
<1>3. CASE GatewayRestarts
  BY <1>3 DEF GatewayRestarts, GatewayAction
<1>4. CASE DeliverEvent \/ HandleEvent \/ InsertFails \/ Settle \/ AckLost
  BY <1>4 DEF DeliverEvent, HandleEvent, InsertFails, Settle, AckLost, GatewayAction
<1>5. CASE ApiStep \/ MeteringRestarts
  BY <1>5 DEF ApiStep, MeteringRestarts, GatewayAction
<1>6. CASE UNCHANGED vars
  BY <1>6 DEF vars, GatewayAction
<1> QED
  BY <1>1, <1>2, <1>3, <1>4, <1>5, <1>6 DEF Next

LEMMA GatewayTyped ==
  ASSUME GatewayTypeOK, GatewayAction
  PROVE  GatewayTypeOK'
<1> USE GatewayAssumption
<1>1. CASE \E q \in Requests, p \in Packages : Accept(q, p)
  BY <1>1 DEF GatewayTypeOK, Accept, SpendNonce, WriteFiles, Steps, Running, NotSeen
<1>2. CASE \E q \in Requests, p \in Packages : Refuse(q, p)
  BY <1>2 DEF GatewayTypeOK, Refuse, Steps, Running
<1>3. CASE \E q \in Requests : Judge(q)
  BY <1>3 DEF GatewayTypeOK, Judge, Steps, Running
<1>4. CASE \E q \in Requests : IssueReceipt(q)
  BY <1>4 DEF GatewayTypeOK, IssueReceipt, Steps, Running
<1>5. CASE \E q \in Requests : PublishEnds(q)
  BY <1>5 DEF GatewayTypeOK, PublishEnds, Steps, Running
<1>6. CASE \E q \in Requests : Answer(q)
  BY <1>6 DEF GatewayTypeOK, Answer, Steps, Running
<1>7. CASE Cleanup
  BY <1>7 DEF GatewayTypeOK, Cleanup
<1>8. CASE Tick
  BY <1>8 DEF GatewayTypeOK, Tick
<1>9. CASE RestartGateway
  BY <1>9 DEF GatewayTypeOK, RestartGateway, Steps
<1>10. CASE UNCHANGED gatewayVars
  BY <1>10 DEF GatewayTypeOK, gatewayVars
<1>11. CASE \E q \in Requests, p \in Packages : FailEarly(q, p)
  BY <1>11 DEF GatewayTypeOK, FailEarly, SpendNonce, WriteFiles, Steps, Running, NotSeen
<1>12. CASE \E q \in Requests : SignReceipt(q)
  BY <1>12 DEF GatewayTypeOK, SignReceipt, Steps, Running
<1> QED
  BY <1>1, <1>2, <1>3, <1>4, <1>5, <1>6, <1>7, <1>8, <1>9, <1>10, <1>11, <1>12
  DEF GatewayAction

\* The steps that leave alone what the replay rests on.
LEMMA ReplayUntouched ==
  ASSUME AcceptedOnce, NonceKept, ReplayOnlyOfFutureDated,
         UNCHANGED <<now, nonces, pkg, boot, acceptedAt, acceptedIn>>,
         \A q \in Requests : pc'[q] = "idle" => pc[q] = "idle"
  PROVE  AcceptedOnce' /\ NonceKept' /\ ReplayOnlyOfFutureDated'
<1>1. AcceptedOnce'
  BY DEF AcceptedOnce
<1>2. NonceKept'
  BY DEF NonceKept
<1>3. ReplayOnlyOfFutureDated'
  BY DEF ReplayOnlyOfFutureDated
<1> QED
  BY <1>1, <1>2, <1>3

\* What Accept and FailEarly have in common.
LEMMA ReplayAfterNonceSpent ==
  ASSUME GatewayTypeOK, AcceptedOnce, NonceKept, ReplayOnlyOfFutureDated,
         NEW r \in Requests, NEW p \in Packages, NEW end \in Steps \ {"idle"},
         Acceptable(p), SpendNonce(r, p), UNCHANGED <<now, boot>>,
         pc' = [pc EXCEPT ![r] = end]
  PROVE  AcceptedOnce' /\ NonceKept' /\ ReplayOnlyOfFutureDated'
<1> USE GatewayAssumption
<1>1. /\ now' = now /\ now \in Nat /\ boot' = boot /\ boot \in Nat
      /\ acceptedAt'[r] = now /\ acceptedIn'[r] = boot /\ pkg'[r] = p
      /\ pc'[r] # "idle" /\ nonces'[p] = now
      /\ InWindow(p) /\ nonces[p] = NotSeen
  BY DEF SpendNonce, Acceptable, GatewayTypeOK
<1>2. \A q \in Requests : q # r =>
        /\ acceptedAt'[q] = acceptedAt[q] /\ acceptedIn'[q] = acceptedIn[q]
        /\ pkg'[q] = pkg[q] /\ pc'[q] = pc[q]
  BY DEF SpendNonce, GatewayTypeOK
<1>3. \A o \in Packages : o # p => nonces'[o] = nonces[o]
  BY DEF SpendNonce, GatewayTypeOK
<1>4. AcceptedOnce'
  BY <1>1, <1>2 DEF AcceptedOnce
<1>5. NonceKept'
  <2> SUFFICES ASSUME NEW q \in Requests, acceptedIn'[q] = boot
               PROVE  \/ acceptedAt'[q] < CreatedAt[pkg'[q]]
                      \/ nonces'[pkg'[q]] >= acceptedAt'[q]
                      \/ now - CreatedAt[pkg'[q]] > NonceWindow
    BY <1>1 DEF NonceKept
  <2>1. CASE q = r
    BY <1>1, <2>1
  <2>2. CASE q # r /\ pkg[q] = p
    BY <1>1, <1>2, <2>2 DEF AcceptedOnce, NotSeen
  <2>3. CASE q # r /\ pkg[q] # p
    BY <1>1, <1>2, <1>3, <2>3 DEF AcceptedOnce, NonceKept, NotSeen
  <2> QED
    BY <2>1, <2>2, <2>3
<1>6. \A q \in Requests :
        q # r /\ acceptedIn[q] = boot /\ pkg[q] = p => acceptedAt[q] < CreatedAt[p]
  BY <1>1 DEF AcceptedOnce, NonceKept, InWindow, NotSeen
<1>7. ReplayOnlyOfFutureDated'
  <2> SUFFICES ASSUME NEW q \in Requests, NEW s \in Requests,
                      q # s, acceptedIn'[q] # NotSeen, acceptedIn'[q] = acceptedIn'[s],
                      pkg'[q] = pkg'[s]
               PROVE  \/ acceptedAt'[q] < CreatedAt[pkg'[q]]
                      \/ acceptedAt'[s] < CreatedAt[pkg'[s]]
    BY DEF ReplayOnlyOfFutureDated
  <2>1. CASE q = r
    BY <1>1, <1>2, <1>6, <2>1
  <2>2. CASE s = r
    BY <1>1, <1>2, <1>6, <2>2
  <2>3. CASE q # r /\ s # r
    BY <1>2, <2>3 DEF ReplayOnlyOfFutureDated
  <2> QED
    BY <2>1, <2>2, <2>3
<1> QED
  BY <1>4, <1>5, <1>7

LEMMA ReplayInvariant ==
  ASSUME GatewayTypeOK, AcceptedOnce, NonceKept, ReplayOnlyOfFutureDated, GatewayAction
  PROVE  AcceptedOnce' /\ NonceKept' /\ ReplayOnlyOfFutureDated'
<1> USE GatewayAssumption
<1>1. CASE \E q \in Requests, p \in Packages : Accept(q, p) \/ FailEarly(q, p)
  <2>1. PICK q \in Requests, p \in Packages : Accept(q, p) \/ FailEarly(q, p)
    BY <1>1
  <2>2. /\ Acceptable(p) /\ SpendNonce(q, p) /\ UNCHANGED <<now, boot>>
        /\ \E end \in Steps \ {"idle"} : pc' = [pc EXCEPT ![q] = end]
    BY <2>1 DEF Accept, FailEarly, Steps, Running
  <2> QED
    BY <2>2, ReplayAfterNonceSpent
<1>2. CASE \/ \E q \in Requests, p \in Packages : Refuse(q, p)
           \/ \E q \in Requests : \/ Judge(q) \/ IssueReceipt(q) \/ SignReceipt(q)
                                  \/ PublishEnds(q) \/ Answer(q)
  <2>1. /\ UNCHANGED <<now, nonces, pkg, boot, acceptedAt, acceptedIn>>
        /\ \A q \in Requests : pc'[q] = "idle" => pc[q] = "idle"
    BY <1>2 DEF Refuse, Judge, IssueReceipt, SignReceipt, PublishEnds, Answer, GatewayTypeOK
  <2> QED
    BY <2>1, ReplayUntouched
<1>3. CASE UNCHANGED gatewayVars
  BY <1>3, ReplayUntouched DEF gatewayVars
<1>4. CASE Cleanup
  <2>1. /\ UNCHANGED <<now, pc, pkg, boot, acceptedAt, acceptedIn>>
        /\ now \in Nat
        /\ \A p \in Packages :
             \/ nonces'[p] = nonces[p]
             \/ nonces[p] < now - NonceWindow
    BY <1>4 DEF Cleanup, Stale, GatewayTypeOK
  <2>2. AcceptedOnce' /\ ReplayOnlyOfFutureDated'
    BY <2>1 DEF AcceptedOnce, ReplayOnlyOfFutureDated
  <2>3. NonceKept'
    <3> SUFFICES ASSUME NEW q \in Requests, acceptedIn[q] = boot
                 PROVE  \/ acceptedAt[q] < CreatedAt[pkg[q]]
                        \/ nonces'[pkg[q]] >= acceptedAt[q]
                        \/ now - CreatedAt[pkg[q]] > NonceWindow
      BY <2>1 DEF NonceKept
    <3>1. /\ acceptedAt[q] \in Nat /\ pkg[q] \in Packages /\ CreatedAt[pkg[q]] \in Nat
          /\ nonces[pkg[q]] \in Int /\ NonceWindow \in Nat
      BY <2>1 DEF AcceptedOnce, GatewayTypeOK, NotSeen
    <3> QED
      BY <2>1, <3>1 DEF NonceKept
  <2> QED
    BY <2>2, <2>3
<1>5. CASE Tick
  <2>1. /\ UNCHANGED <<nonces, pc, pkg, boot, acceptedAt, acceptedIn>>
        /\ now \in Nat /\ now' = now + 1 /\ boot \in Nat
    BY <1>5 DEF Tick, GatewayTypeOK
  <2>2. AcceptedOnce' /\ ReplayOnlyOfFutureDated'
    BY <2>1 DEF AcceptedOnce, ReplayOnlyOfFutureDated
  <2>3. NonceKept'
    BY <2>1 DEF AcceptedOnce, NonceKept, NotSeen
  <2> QED
    BY <2>2, <2>3
<1>6. CASE RestartGateway
  <2>1. /\ UNCHANGED <<now, pkg, acceptedAt, acceptedIn>>
        /\ boot \in Nat /\ boot' = boot + 1
        /\ \A q \in Requests : pc'[q] = "idle" => pc[q] = "idle"
    BY <1>6 DEF RestartGateway, GatewayTypeOK
  <2>2. AcceptedOnce' /\ ReplayOnlyOfFutureDated'
    BY <2>1 DEF AcceptedOnce, ReplayOnlyOfFutureDated
  <2>3. NonceKept'
    BY <2>1 DEF AcceptedOnce, NonceKept, NotSeen
  <2> QED
    BY <2>2, <2>3
<1> QED
  BY <1>1, <1>2, <1>3, <1>4, <1>5, <1>6 DEF GatewayAction

LEMMA ReceiptInvariant ==
  ASSUME GatewayTypeOK, FilesOfRequest, ReceiptDated, EventDated, ReceiptAttestsProof,
         GatewayAction
  PROVE  FilesOfRequest' /\ ReceiptDated' /\ EventDated' /\ ReceiptAttestsProof'
<1> USE GatewayAssumption DEF Decided, NotSeen
<1>0. /\ now \in Nat
      /\ \A q \in Requests : receiptAt[q] \in Int /\ eventAt[q] \in Int /\ receiptAt[q] >= -1
  BY DEF GatewayTypeOK
<1>1. ASSUME NEW r \in Requests, NEW p \in Packages, Accept(r, p) \/ FailEarly(r, p)
      PROVE  FilesOfRequest' /\ ReceiptDated' /\ EventDated' /\ ReceiptAttestsProof'
  <2>1. /\ pc[r] = "idle" /\ pkg'[r] = p /\ UNCHANGED <<receiptAt, eventAt, now>>
        /\ \/ /\ onDisk' = p
              /\ overwritten' = overwritten \cup {q \in Requests : pc[q] = "proving"}
           \/ pc'[r] = "refused" /\ UNCHANGED <<onDisk, overwritten>>
        /\ \A q \in Requests : q # r => pc'[q] = pc[q] /\ pkg'[q] = pkg[q]
        /\ pc'[r] \in {"proving", "refused"}
    BY <1>1 DEF Accept, FailEarly, SpendNonce, WriteFiles, GatewayTypeOK
  <2>2. FilesOfRequest' /\ ReceiptAttestsProof'
    BY <2>1 DEF FilesOfRequest, ReceiptDated, EventDated, ReceiptAttestsProof
  <2>3. ReceiptDated' /\ EventDated'
    BY <2>1 DEF ReceiptDated, EventDated
  <2> QED
    BY <2>2, <2>3
<1>2. ASSUME NEW r \in Requests, Judge(r)
      PROVE  FilesOfRequest' /\ ReceiptDated' /\ EventDated' /\ ReceiptAttestsProof'
  <2>1. /\ pc[r] = "proving"
        /\ pc'[r] = "refused" \/ (pc'[r] = "proven" /\ onDisk \in Genuine)
        /\ UNCHANGED <<pkg, onDisk, overwritten, receiptAt, eventAt, now>>
        /\ \A q \in Requests : q # r => pc'[q] = pc[q]
    <3>1. PICK ok \in BOOLEAN :
            /\ Verdict(r, ok)
            /\ pc' = [pc EXCEPT ![r] = IF ok THEN "proven" ELSE "refused"]
      BY <1>2 DEF Judge
    <3>2. /\ pc[r] = "proving" /\ pc \in [Requests -> Steps]
          /\ UNCHANGED <<pkg, onDisk, overwritten, receiptAt, eventAt, now>>
      BY <1>2 DEF Judge, GatewayTypeOK
    <3>3. \/ pc' = [pc EXCEPT ![r] = "refused"]
          \/ pc' = [pc EXCEPT ![r] = "proven"] /\ onDisk \in Genuine
      BY <3>1 DEF Verdict
    <3> QED
      BY <3>2, <3>3
  <2> QED
    BY <2>1 DEF FilesOfRequest, ReceiptDated, EventDated, ReceiptAttestsProof
<1>3. ASSUME NEW r \in Requests, IssueReceipt(r)
      PROVE  FilesOfRequest' /\ ReceiptDated' /\ EventDated' /\ ReceiptAttestsProof'
  <2>1. /\ pc[r] = "proven" /\ pc'[r] = "signing"
        /\ receiptAt'[r] = now /\ now \in Nat
        /\ UNCHANGED <<pkg, onDisk, overwritten, eventAt, now>>
        /\ \A q \in Requests : q # r => pc'[q] = pc[q] /\ receiptAt'[q] = receiptAt[q]
    BY <1>3 DEF IssueReceipt, GatewayTypeOK
  <2>2. FilesOfRequest' /\ ReceiptAttestsProof'
    BY <2>1 DEF FilesOfRequest, ReceiptDated, ReceiptAttestsProof
  <2>3. ReceiptDated'
    BY <1>0, <2>1 DEF ReceiptDated
  <2>4. EventDated'
    BY <1>0, <2>1 DEF ReceiptDated, EventDated
  <2> QED
    BY <2>2, <2>3, <2>4
<1>4. ASSUME NEW r \in Requests, SignReceipt(r)
      PROVE  FilesOfRequest' /\ ReceiptDated' /\ EventDated' /\ ReceiptAttestsProof'
  <2>1. /\ pc[r] = "signing"
        /\ \/ pc'[r] = "refused" /\ eventAt'[r] = eventAt[r]
           \/ pc'[r] = "publishing" /\ eventAt'[r] = now
        /\ UNCHANGED <<pkg, onDisk, overwritten, receiptAt, now>>
        /\ \A q \in Requests : q # r => pc'[q] = pc[q] /\ eventAt'[q] = eventAt[q]
    BY <1>4 DEF SignReceipt, GatewayTypeOK
  <2>2. FilesOfRequest' /\ ReceiptAttestsProof' /\ ReceiptDated'
    BY <2>1 DEF FilesOfRequest, ReceiptDated, ReceiptAttestsProof
  <2>3. EventDated'
    BY <1>0, <2>1 DEF ReceiptDated, EventDated
  <2> QED
    BY <2>2, <2>3
<1>5. ASSUME NEW r \in Requests,
             PublishEnds(r) \/ Answer(r) \/ \E p \in Packages : Refuse(r, p)
      PROVE  FilesOfRequest' /\ ReceiptDated' /\ EventDated' /\ ReceiptAttestsProof'
  <2>1. /\ \/ pc[r] \in {"publishing", "answering"} /\ pc'[r] \in {"answering", "receipted"}
           \/ pc'[r] = "refused"
        /\ UNCHANGED <<pkg, onDisk, overwritten, receiptAt, eventAt, now>>
        /\ \A q \in Requests : q # r => pc'[q] = pc[q]
    BY <1>5 DEF PublishEnds, Answer, Refuse, GatewayTypeOK
  <2>2. FilesOfRequest' /\ ReceiptAttestsProof'
    BY <2>1 DEF FilesOfRequest, ReceiptDated, ReceiptAttestsProof
  <2>3. ReceiptDated' /\ EventDated'
    BY <2>1 DEF ReceiptDated, EventDated
  <2> QED
    BY <2>2, <2>3
<1>6. CASE Cleanup \/ Tick \/ UNCHANGED gatewayVars
  <2>1. /\ UNCHANGED <<pc, pkg, onDisk, overwritten, receiptAt, eventAt>>
        /\ now' \in Int /\ now <= now'
    BY <1>0, <1>6 DEF Cleanup, Tick, gatewayVars
  <2>2. FilesOfRequest' /\ ReceiptAttestsProof'
    BY <2>1 DEF FilesOfRequest, ReceiptAttestsProof
  <2>3. ReceiptDated' /\ EventDated'
    BY <1>0, <2>1 DEF ReceiptDated, EventDated
  <2> QED
    BY <2>2, <2>3
<1>7. CASE RestartGateway
  <2>1. /\ UNCHANGED <<pkg, onDisk, overwritten, receiptAt, eventAt, now>>
        /\ \A q \in Requests : pc'[q] = pc[q] \/ pc'[q] = "dead"
    BY <1>7 DEF RestartGateway
  <2> QED
    BY <2>1 DEF FilesOfRequest, ReceiptDated, EventDated, ReceiptAttestsProof
<1> QED
  BY <1>1, <1>2, <1>3, <1>4, <1>5, <1>6, <1>7 DEF GatewayAction

LEMMA GatewayInvInitially == Init => GatewayInv
<1> SUFFICES ASSUME Init PROVE GatewayInv
  OBVIOUS
<1> USE GatewayAssumption DEF Init, GatewayInit
<1>1. GatewayTypeOK
  BY DEF GatewayTypeOK, Steps, Running
<1>2. AcceptedOnce /\ NonceKept /\ ReplayOnlyOfFutureDated
  BY DEF AcceptedOnce, NonceKept, ReplayOnlyOfFutureDated, NotSeen
<1>3. FilesOfRequest /\ ReceiptDated /\ EventDated /\ ReceiptAttestsProof
  BY DEF FilesOfRequest, ReceiptDated, EventDated, ReceiptAttestsProof, Decided, NotSeen
<1> QED
  BY <1>1, <1>2, <1>3 DEF GatewayInv

LEMMA GatewayInvStep == GatewayInv /\ [Next]_vars => GatewayInv'
BY StepsOfTheGateway, GatewayTyped, ReplayInvariant, ReceiptInvariant DEF GatewayInv

\* The gateway's invariant holds in every state of the pipeline.
THEOREM GatewayInvariant == Spec => []GatewayInv
<1> QED
  BY GatewayInvInitially, GatewayInvStep, PTL DEF Spec

\* One process of the gateway accepts a package twice only if it is dated in the
\* future, whatever the windows, the packages and the times of the cleanups.
THEOREM ReplayOnlyOfFuture == Spec => []ReplayOnlyOfFutureDated
<1>1. GatewayInv => ReplayOnlyOfFutureDated
  BY DEF GatewayInv
<1> QED
  BY <1>1, GatewayInvariant, PTL

\* A receipt attests a proof that nargo accepts, or its files were replaced meanwhile.
THEOREM ReceiptsAttest == Spec => []ReceiptAttestsProof
<1>1. GatewayInv => ReceiptAttestsProof
  BY DEF GatewayInv
<1> QED
  BY <1>1, GatewayInvariant, PTL

-----------------------------------------------------------------------------
(* From the gateway to the usage rows                                      *)

\* What the pipeline's other properties need to know of the types.
RowsTyped ==
  /\ usage \in Seq([event : RowIds, receipt : Receipts, at : Nat])
  /\ handled \in BOOLEAN
  /\ dropped \subseteq RowIds

HeldByHandler == inHand[Metering] # NoEvent

\* No event is lost on the way: neither by the gateway ...
PublishedOrSaid ==
  \A q \in Requests :
    pc[q] \in {"answering", "receipted"} => Published(q) \/ q \in unpublished

\* ... nor by the bus ...
AckedIsMetered ==
  \A q \in Requests : q \in acked[Metering] => Metered(q) \/ q \in dropped

\* ... nor by the handler.
HandledIsMetered ==
  handled => /\ HeldByHandler
             /\ Metered(inHand[Metering]) \/ inHand[Metering] \in dropped

NothingLostYet == PublishedOrSaid /\ AckedIsMetered /\ HandledIsMetered

\* What is published was issued ...
EventsIssued == \A i \in 1..Len(stream) : eventAt[stream[i]] # NotSeen

\* ... what the consumer has of it is what the server has sent ...
WasSent(e) == \E k \in 1..sent[Metering] : stream[k] = e

CopiesSent ==
  /\ HeldByHandler => WasSent(inHand[Metering])
  /\ \A i \in 1..Len(buffer[Metering]) : WasSent(buffer[Metering][i])

\* ... and what is in the table, under an id of its own, has the date of its event,
\* unless it was posted.
FromEvent(row) ==
  /\ row.event = row.receipt
  /\ eventAt[row.receipt] # NotSeen
  /\ row.at = eventAt[row.receipt]

RowsIssued ==
  /\ \A i \in DOMAIN usage : usage[i].event \in ManualIds \/ FromEvent(usage[i])
  /\ \A i, j \in DOMAIN usage : i # j => usage[i].event # usage[j].event

\* What the pipeline adds to the gateway's invariant.
Rest ==
  /\ BusTypeOK
  /\ RowsTyped
  /\ NothingLostYet
  /\ EventsIssued
  /\ CopiesSent
  /\ RowsIssued

UsageRow == [event : RowIds, receipt : Receipts, at : Nat]

LEMMA Names ==
  /\ Events = Requests /\ Receipts = Requests
  /\ RowIds = Requests \cup ManualIds /\ Requests \cap ManualIds = {}
  /\ Consumers = {Metering} /\ Metering \in Consumers /\ NoEvent \notin Requests
BY PipelineAssumption, OneConsumer, BusAssumption

\* The types of the bus, of its one consumer.
LEMMA BusFacts ==
  ASSUME BusTypeOK
  PROVE  /\ stream \in Seq(Requests) /\ Len(stream) \in Nat
         /\ \A i \in 1..Len(stream) : stream[i] \in Requests
         /\ sent[Metering] \in 0..Len(stream)
         /\ buffer[Metering] \in Seq(Requests) /\ Len(buffer[Metering]) \in Nat
         /\ \A i \in 1..Len(buffer[Metering]) : buffer[Metering][i] \in Requests
         /\ inHand[Metering] \in Requests \cup {NoEvent}
         /\ HeldByHandler => inHand[Metering] \in Requests
         /\ acked[Metering] \subseteq Requests /\ redelivered[Metering] \subseteq Requests
<1>1. /\ stream \in Seq(Requests) /\ sent[Metering] \in 0..Len(stream)
      /\ buffer[Metering] \in Seq(Requests)
      /\ inHand[Metering] \in Requests \cup {NoEvent}
      /\ acked[Metering] \subseteq Requests /\ redelivered[Metering] \subseteq Requests
  BY Names DEF BusTypeOK
<1> QED
  BY <1>1 DEF HeldByHandler

\* A receipt keeps its date, and its event too.
LEMMA ReceiptsStay ==
  ASSUME GatewayInv, GatewayAction
  PROVE  /\ \A q \in Requests :
              /\ receiptAt[q] # NotSeen => receiptAt'[q] = receiptAt[q]
              /\ eventAt[q] # NotSeen => eventAt'[q] = eventAt[q]
         /\ \A q \in Requests : pc'[q] \in {"answering", "receipted"} =>
              pc[q] \in {"publishing", "answering", "receipted"}
<1> USE DEF GatewayInv, GatewayTypeOK
<1>1. CASE \E q \in Requests : IssueReceipt(q)
  BY <1>1 DEF IssueReceipt, ReceiptDated
<1>2. CASE \/ \E q \in Requests : PublishEnds(q) \/ Answer(q)
           \/ \E q \in Requests, p \in Packages :
                Accept(q, p) \/ FailEarly(q, p) \/ Refuse(q, p)
  BY <1>2 DEF PublishEnds, Answer, Accept, FailEarly, Refuse
<1>3. CASE \E q \in Requests : Judge(q)
  <2>1. PICK q \in Requests : Judge(q)
    BY <1>3
  <2>2. pc'[q] \in {"proven", "refused"} /\ \A r \in Requests : r # q => pc'[r] = pc[r]
    BY <2>1 DEF Judge
  <2>3. UNCHANGED <<receiptAt, eventAt>>
    BY <2>1 DEF Judge
  <2> QED
    BY <2>2, <2>3
<1>4. CASE Cleanup \/ Tick \/ RestartGateway \/ UNCHANGED gatewayVars
  BY <1>4 DEF Cleanup, Tick, RestartGateway, gatewayVars
<1>5. CASE \E q \in Requests : SignReceipt(q)
  BY <1>5 DEF SignReceipt, EventDated
<1> QED
  BY <1>1, <1>2, <1>3, <1>4, <1>5 DEF GatewayAction

\* A row is added, or was there; what it is charged for was issued.
\* The table after an insert: the old rows and, if the event id is new, the row itself.
LEMMA RowAdded ==
  ASSUME RowsTyped, RowsIssued, UNCHANGED eventAt,
         NEW row \in UsageRow, row.event \in ManualIds \/ FromEvent(row), RecordUsage(row)
  PROVE  /\ usage' \in Seq(UsageRow)
         /\ RowsIssued'
         /\ \A r \in Requests : Metered(r) => Metered(r)'
         /\ \E i \in DOMAIN usage' : usage'[i].event = row.event
<1> HIDE DEF UsageRow
<1>1. usage \in Seq(UsageRow)
  BY DEF RowsTyped, UsageRow
<1>2. CASE Taken(row.event)
  <2>1. usage' = usage
    BY <1>2 DEF RecordUsage
  <2> QED
    BY <1>1, <1>2, <2>1 DEF Taken, RowsIssued, FromEvent, Metered
<1>3. CASE ~Taken(row.event)
  <2>1. usage' = Append(usage, row)
    BY <1>3 DEF RecordUsage
  <2>2. /\ usage' \in Seq(UsageRow)
        /\ DOMAIN usage = 1..Len(usage) /\ DOMAIN usage' = 1..(Len(usage) + 1)
        /\ Len(usage) \in Nat
        /\ \A i \in 1..Len(usage) : usage'[i] = usage[i]
        /\ usage'[Len(usage) + 1] = row
    BY <1>1, <2>1
  <2>3. \A i \in DOMAIN usage' : i \in DOMAIN usage \/ i = Len(usage) + 1
    BY <2>2
  <2>4. \A i \in DOMAIN usage' : usage'[i].event \in ManualIds \/ FromEvent(usage[i])'
    BY <2>2, <2>3 DEF RowsIssued, FromEvent
  <2>5. \A i, j \in DOMAIN usage' : i # j => usage'[i].event # usage'[j].event
    BY <1>3, <2>2, <2>3 DEF RowsIssued, Taken
  <2>6. \A r \in Requests : Metered(r) => Metered(r)'
    BY <2>2 DEF Metered
  <2> QED
    BY <2>2, <2>4, <2>5, <2>6 DEF RowsIssued
<1> QED
  BY <1>2, <1>3

LEMMA RowsAreRows ==
  RowsTyped => \A i \in DOMAIN usage : usage[i] \in UsageRow
<1> HIDE DEF UsageRow
<1> SUFFICES ASSUME usage \in Seq(UsageRow)
             PROVE  \A i \in DOMAIN usage : usage[i] \in UsageRow
  BY DEF RowsTyped, UsageRow
<1> QED
  OBVIOUS

LEMMA RowsNameRequests ==
  RowsTyped => \A i \in DOMAIN usage : usage[i].receipt \in Requests
BY RowsAreRows, Names DEF UsageRow

LEMMA RowsDated ==
  RowsTyped => \A i \in DOMAIN usage : usage[i].at \in Nat
BY RowsAreRows DEF UsageRow

LEMMA RestWhenGatewayMoves ==
  ASSUME GatewayInv, Rest, GatewayAction, UNCHANGED <<busVars, usage, handled, dropped, unpublished>>,
         \A q \in Requests : pc'[q] = "answering" => pc[q] = "answering",
         \A q \in Requests : pc'[q] = "receipted" => pc[q] \in {"answering", "receipted"}
  PROVE  Rest'
<1> USE Names
<1>1. BusTypeOK' /\ RowsTyped'
  BY DEF Rest, BusTypeOK, RowsTyped, busVars
<1>2. NothingLostYet'
  <2>1. UNCHANGED <<stream, acked, inHand, usage, handled, dropped, unpublished>>
    BY DEF busVars
  <2>2. PublishedOrSaid'
    BY <2>1 DEF Rest, NothingLostYet, PublishedOrSaid, Published
  <2>3. AckedIsMetered'
    BY <2>1 DEF Rest, NothingLostYet, AckedIsMetered, Metered
  <2>4. HandledIsMetered'
    BY <2>1 DEF Rest, NothingLostYet, HandledIsMetered, Metered, HeldByHandler
  <2> QED
    BY <2>2, <2>3, <2>4 DEF NothingLostYet
<1>3. \A i \in 1..Len(stream) : stream[i] \in Requests
  BY BusFacts DEF Rest
<1>4. EventsIssued'
  BY ReceiptsStay, <1>3 DEF Rest, EventsIssued, busVars
<1>5. CopiesSent'
  BY DEF Rest, CopiesSent, WasSent, HeldByHandler, busVars
<1>6. \A i \in DOMAIN usage : usage[i].receipt \in Requests
  BY RowsNameRequests DEF Rest
<1>7. RowsIssued'
  <2>1. \A i \in DOMAIN usage :
          eventAt[usage[i].receipt] # NotSeen
            => eventAt'[usage[i].receipt] = eventAt[usage[i].receipt]
    BY ReceiptsStay, <1>6
  <2> QED
    BY <2>1 DEF Rest, RowsIssued, FromEvent
<1> QED
  BY <1>1, <1>2, <1>4, <1>5, <1>7 DEF Rest

LEMMA RestWhenPublished ==
  ASSUME GatewayInv, Rest, NEW q \in Requests, PublishEnds(q),
         UNCHANGED <<usage, handled, dropped>>,
         \/ Publish(q) /\ UNCHANGED unpublished
         \/ unpublished' = unpublished \cup {q} /\ UNCHANGED busVars
  PROVE  Rest'
<1> USE Names
<1>1. /\ pc[q] = "publishing" /\ eventAt' = eventAt /\ eventAt[q] # NotSeen
      /\ \A r \in Requests : r # q => pc'[r] = pc[r]
  BY DEF GatewayInv, GatewayTypeOK, EventDated, PublishEnds
<1>2. /\ stream \in Seq(Requests)
      /\ UNCHANGED <<sent, buffer, acked, inHand, attached, redelivered>>
      /\ stream' = stream \/ stream' = Append(stream, q)
  BY DEF Rest, BusTypeOK, Publish, busVars
<1>3. /\ stream' \in Seq(Requests) /\ Len(stream') \in Nat /\ Len(stream) \in Nat
      /\ Len(stream) <= Len(stream')
      /\ \A i \in 1..Len(stream) : stream'[i] = stream[i]
      /\ \A i \in 1..Len(stream') : i \in 1..Len(stream) \/ stream'[i] = q
  BY <1>2
<1>4. BusTypeOK'
  <2>1. \A c \in Consumers : sent'[c] \in 0..Len(stream')
    BY <1>2, <1>3 DEF Rest, BusTypeOK
  <2> QED
    BY <1>2, <1>3, <2>1 DEF Rest, BusTypeOK
<1>5. PublishedOrSaid'
  <2>1. Published(q)' \/ q \in unpublished'
    BY <1>2 DEF Publish, Published
  <2>2. ASSUME NEW r \in Requests, r # q, pc'[r] \in {"answering", "receipted"}
        PROVE  Published(r)' \/ r \in unpublished'
    BY <1>1, <1>3, <2>2 DEF Rest, NothingLostYet, PublishedOrSaid, Published
  <2> QED
    BY <2>1, <2>2 DEF PublishedOrSaid
<1>6. AckedIsMetered' /\ HandledIsMetered'
  BY <1>2 DEF Rest, NothingLostYet, AckedIsMetered, HandledIsMetered, Metered, HeldByHandler
<1>7. EventsIssued'
  BY <1>1, <1>2, <1>3 DEF Rest, EventsIssued
<1>8. CopiesSent'
  <2>1. sent[Metering] \in 0..Len(stream)
    BY BusFacts DEF Rest
  <2>2. \A k \in 1..sent[Metering] : stream'[k] = stream[k]
    BY <1>3, <2>1
  <2> QED
    BY <1>2, <2>2 DEF Rest, CopiesSent, WasSent, HeldByHandler
<1>9. RowsIssued' /\ RowsTyped'
  BY <1>1 DEF Rest, RowsIssued, FromEvent, RowsTyped
<1> QED
  BY <1>4, <1>5, <1>6, <1>7, <1>8, <1>9 DEF Rest, NothingLostYet

\* What the server sends goes to the end of the buffer.
LEMMA Fetched ==
  ASSUME BusTypeOK, NEW e \in Requests, Fetch(Metering, e)
  PROVE  /\ buffer' \in [Consumers -> Seq(Requests)]
         /\ Len(buffer'[Metering]) = Len(buffer[Metering]) + 1
         /\ buffer'[Metering][Len(buffer[Metering]) + 1] = e
         /\ \A i \in 1..Len(buffer[Metering]) : buffer'[Metering][i] = buffer[Metering][i]
<1>1. buffer \in [Consumers -> Seq(Requests)] /\ Metering \in Consumers
  BY Names DEF BusTypeOK
<1>2. /\ buffer' = [buffer EXCEPT ![Metering] = Append(buffer[Metering], e)]
      /\ buffer[Metering] \in Seq(Requests)
  BY <1>1 DEF Fetch
<1>3. Append(buffer[Metering], e) \in Seq(Requests)
  BY <1>2
<1> QED
  BY <1>1, <1>2, <1>3

\* What a first delivery does: the next event of the stream is fetched.
LEMMA DeliverFacts ==
  ASSUME BusTypeOK, Deliver(Metering)
  PROVE  \E n \in 1..Len(stream) :
           /\ n = sent[Metering] + 1 /\ sent'[Metering] = n
           /\ sent' \in [Consumers -> 0..Len(stream)]
           /\ Fetch(Metering, stream[n]) /\ stream[n] \in Requests
           /\ UNCHANGED <<stream, inHand, acked, attached, redelivered>>
<1> USE Names
<1> DEFINE n == sent[Metering] + 1
<1>1. sent \in [Consumers -> 0..Len(stream)] /\ Len(stream) \in Nat
  BY BusFacts DEF BusTypeOK
<1>2. n \in 1..Len(stream)
  BY <1>1 DEF Deliver
<1>3. sent' = [sent EXCEPT ![Metering] = n] /\ sent'[Metering] = n
  BY <1>1 DEF Deliver
<1>4. Fetch(Metering, stream[n])
  BY <1>3 DEF Deliver
<1> HIDE DEF n
<1>5. sent' \in [Consumers -> 0..Len(stream)]
  BY <1>1, <1>2, <1>3
<1>6. n = sent[Metering] + 1
  BY DEF n
<1> QED
  BY <1>2, <1>3, <1>4, <1>5, <1>6, BusFacts DEF Deliver

\* What another one does: an event that was sent and is not acknowledged is fetched.
LEMMA RedeliverFacts ==
  ASSUME BusTypeOK, Redeliver(Metering)
  PROVE  \E e \in Requests :
           /\ WasSent(e) /\ e \notin acked[Metering]
           /\ Fetch(Metering, e)
           /\ redelivered' = [redelivered EXCEPT ![Metering] = @ \cup {e}]
           /\ redelivered' \in [Consumers -> SUBSET Requests]
           /\ redelivered'[Metering] = redelivered[Metering] \cup {e}
           /\ UNCHANGED <<stream, sent, inHand, acked, attached>>
<1> USE Names
<1>1. PICK e \in Unsettled(Metering) :
        /\ Fetch(Metering, e)
        /\ redelivered' = [redelivered EXCEPT ![Metering] = @ \cup {e}]
  BY DEF Redeliver
<1>2. e \in Requests /\ WasSent(e) /\ e \notin acked[Metering]
  BY <1>1 DEF Unsettled, WasSent
<1>3. redelivered \in [Consumers -> SUBSET Requests]
  BY DEF BusTypeOK
<1> QED
  BY <1>1, <1>2, <1>3 DEF Redeliver

\* The handler gets what was fetched first.
LEMMA TakeFacts ==
  ASSUME BusTypeOK, Take(Metering)
  PROVE  /\ ~HeldByHandler
         /\ Len(buffer[Metering]) >= 1
         /\ inHand'[Metering] = buffer[Metering][1]
         /\ inHand' \in [Consumers -> Requests \cup {NoEvent}]
         /\ buffer' \in [Consumers -> Seq(Requests)]
         /\ Len(buffer'[Metering]) = Len(buffer[Metering]) - 1
         /\ \A i \in 1..Len(buffer'[Metering]) : buffer'[Metering][i] = buffer[Metering][i + 1]
         /\ UNCHANGED <<stream, sent, acked, attached, redelivered>>
<1> USE Names
<1>1. /\ buffer \in [Consumers -> Seq(Requests)] /\ inHand \in [Consumers -> Requests \cup {NoEvent}]
      /\ buffer[Metering] \in Seq(Requests) /\ buffer[Metering] # <<>>
  BY DEF BusTypeOK, Take
<1>2. /\ Len(buffer[Metering]) >= 1 /\ Head(buffer[Metering]) = buffer[Metering][1]
      /\ buffer[Metering][1] \in Requests
      /\ Tail(buffer[Metering]) \in Seq(Requests)
      /\ Len(Tail(buffer[Metering])) = Len(buffer[Metering]) - 1
      /\ \A i \in 1..Len(Tail(buffer[Metering])) :
           Tail(buffer[Metering])[i] = buffer[Metering][i + 1]
  BY <1>1
<1>3. /\ inHand' = [inHand EXCEPT ![Metering] = Head(buffer[Metering])]
      /\ buffer' = [buffer EXCEPT ![Metering] = Tail(buffer[Metering])]
      /\ UNCHANGED <<stream, sent, acked, attached, redelivered>>
      /\ inHand[Metering] = NoEvent
  BY DEF Take
<1>4. inHand'[Metering] = Head(buffer[Metering]) /\ buffer'[Metering] = Tail(buffer[Metering])
  BY <1>1, <1>3
<1>5. buffer' \in [Consumers -> Seq(Requests)]
  BY <1>1, <1>2, <1>3
<1> QED
  BY <1>1, <1>2, <1>3, <1>4, <1>5 DEF HeldByHandler

\* A release empties the handler, a restart the buffer as well.
LEMMA ReleaseFacts ==
  ASSUME BusTypeOK, Ack(Metering) \/ Nak(Metering) \/ Reconnect(Metering)
  PROVE  /\ UNCHANGED <<stream, sent, redelivered>>
         /\ attached' \in [Consumers -> BOOLEAN]
         /\ inHand' \in [Consumers -> Requests \cup {NoEvent}] /\ inHand'[Metering] = NoEvent
         /\ buffer' \in [Consumers -> Seq(Requests)]
         /\ buffer' = buffer \/ Len(buffer'[Metering]) = 0
<1> USE Names
<1>1. /\ inHand \in [Consumers -> Requests \cup {NoEvent}]
      /\ buffer \in [Consumers -> Seq(Requests)]
      /\ attached \in [Consumers -> BOOLEAN]
  BY DEF BusTypeOK
<1>2. inHand' = [inHand EXCEPT ![Metering] = NoEvent] /\ UNCHANGED <<stream, sent, redelivered>>
  BY DEF Ack, Nak, Reconnect, Release
<1>3. attached' \in [Consumers -> BOOLEAN]
  BY <1>1 DEF Ack, Nak, Reconnect, Release
<1>4. \/ buffer' = buffer
      \/ buffer' = [buffer EXCEPT ![Metering] = <<>>]
  BY DEF Ack, Nak, Reconnect, Release
<1>5. <<>> \in Seq(Requests) /\ Len(<<>>) = 0
  OBVIOUS
<1>6. /\ buffer' \in [Consumers -> Seq(Requests)]
      /\ buffer' = buffer \/ buffer'[Metering] = <<>>
  BY <1>1, <1>4, <1>5
<1> QED
  BY <1>1, <1>2, <1>3, <1>5, <1>6

LEMMA CopiesSentWhenDelivered ==
  ASSUME BusTypeOK, CopiesSent, Deliver(Metering) \/ Redeliver(Metering) \/ Take(Metering)
  PROVE  BusTypeOK' /\ CopiesSent'
<1> USE Names, BusFacts
<1>1. CASE Deliver(Metering)
  <2>1. PICK n \in 1..Len(stream) :
          /\ n = sent[Metering] + 1 /\ sent'[Metering] = n
          /\ sent' \in [Consumers -> 0..Len(stream)]
          /\ Fetch(Metering, stream[n]) /\ stream[n] \in Requests
          /\ UNCHANGED <<stream, inHand, acked, attached, redelivered>>
    BY <1>1, DeliverFacts
  <2>2. /\ buffer' \in [Consumers -> Seq(Requests)]
        /\ Len(buffer'[Metering]) = Len(buffer[Metering]) + 1
        /\ buffer'[Metering][Len(buffer[Metering]) + 1] = stream[n]
        /\ \A i \in 1..Len(buffer[Metering]) : buffer'[Metering][i] = buffer[Metering][i]
    BY <2>1, Fetched
  <2>3. \A e \in Requests : WasSent(e) \/ e = stream[n] => WasSent(e)'
    BY <2>1 DEF WasSent
  <2>4. \A i \in 1..Len(buffer'[Metering]) : WasSent(buffer[Metering][i])'
    <3> SUFFICES ASSUME NEW i \in 1..Len(buffer'[Metering])
                 PROVE  WasSent(buffer[Metering][i])'
      OBVIOUS
    <3>1. CASE i \in 1..Len(buffer[Metering])
      BY <2>2, <2>3, <3>1 DEF CopiesSent
    <3>2. CASE i = Len(buffer[Metering]) + 1
      BY <2>1, <2>2, <2>3, <3>2
    <3> QED
      BY <2>2, <3>1, <3>2
  <2>5. HeldByHandler' => WasSent(inHand[Metering])'
    BY <2>1, <2>3 DEF CopiesSent, HeldByHandler
  <2>6. BusTypeOK'
    BY <2>1, <2>2 DEF BusTypeOK
  <2> QED
    BY <2>4, <2>5, <2>6 DEF CopiesSent
<1>2. CASE Redeliver(Metering)
  <2>1. PICK e \in Requests :
          /\ WasSent(e) /\ e \notin acked[Metering]
          /\ Fetch(Metering, e)
          /\ redelivered' \in [Consumers -> SUBSET Requests]
          /\ UNCHANGED <<stream, sent, inHand, acked, attached>>
    BY <1>2, RedeliverFacts
  <2>2. /\ buffer' \in [Consumers -> Seq(Requests)]
        /\ Len(buffer'[Metering]) = Len(buffer[Metering]) + 1
        /\ buffer'[Metering][Len(buffer[Metering]) + 1] = e
        /\ \A i \in 1..Len(buffer[Metering]) : buffer'[Metering][i] = buffer[Metering][i]
    BY <2>1, Fetched
  <2>3. \A i \in 1..Len(buffer'[Metering]) : WasSent(buffer'[Metering][i])
    <3> SUFFICES ASSUME NEW i \in 1..Len(buffer'[Metering])
                 PROVE  WasSent(buffer'[Metering][i])
      OBVIOUS
    <3>1. CASE i \in 1..Len(buffer[Metering])
      BY <2>2, <3>1 DEF CopiesSent
    <3>2. CASE i = Len(buffer[Metering]) + 1
      BY <2>1, <2>2, <3>2
    <3> QED
      BY <2>2, <3>1, <3>2
  <2>4. CopiesSent'
    BY <2>1, <2>3 DEF CopiesSent, WasSent, HeldByHandler
  <2> QED
    BY <2>1, <2>2, <2>4 DEF BusTypeOK
<1>3. CASE Take(Metering)
  <2>1. BusTypeOK'
    BY <1>3, TakeFacts DEF BusTypeOK
  <2>2. /\ Len(buffer[Metering]) >= 1 /\ inHand'[Metering] = buffer[Metering][1]
        /\ Len(buffer'[Metering]) = Len(buffer[Metering]) - 1
        /\ \A i \in 1..Len(buffer'[Metering]) : buffer'[Metering][i] = buffer[Metering][i + 1]
        /\ UNCHANGED <<stream, sent>>
    BY <1>3, TakeFacts
  <2>3. WasSent(inHand'[Metering])
    BY <2>2 DEF CopiesSent
  <2>4. \A i \in 1..Len(buffer'[Metering]) : WasSent(buffer'[Metering][i])
    BY <2>2 DEF CopiesSent
  <2> QED
    BY <2>1, <2>2, <2>3, <2>4 DEF CopiesSent, WasSent
<1> QED
  BY <1>1, <1>2, <1>3

LEMMA RestWhenDelivered ==
  ASSUME Rest, Deliver(Metering) \/ Redeliver(Metering) \/ Take(Metering),
         UNCHANGED <<gatewayVars, usage, handled, dropped, unpublished>>
  PROVE  Rest'
<1>1. /\ UNCHANGED <<stream, acked, pc, eventAt, usage, handled, dropped, unpublished>>
      /\ inHand' = inHand \/ (~HeldByHandler /\ ~handled)
  BY DEF Deliver, Redeliver, Take, gatewayVars, Rest, NothingLostYet, HandledIsMetered,
         HeldByHandler
<1>2. BusTypeOK' /\ CopiesSent'
  BY CopiesSentWhenDelivered DEF Rest
<1>3. PublishedOrSaid' /\ AckedIsMetered'
  BY <1>1 DEF Rest, NothingLostYet, PublishedOrSaid, AckedIsMetered, Published, Metered
<1>4. HandledIsMetered'
  BY <1>1 DEF Rest, NothingLostYet, HandledIsMetered, HeldByHandler, Metered
<1>5. EventsIssued'
  BY <1>1 DEF Rest, EventsIssued
<1>6. RowsIssued' /\ RowsTyped'
  BY <1>1 DEF Rest, RowsIssued, FromEvent, RowsTyped
<1> QED
  BY <1>2, <1>3, <1>4, <1>5, <1>6 DEF Rest, NothingLostYet

\* A row is written or not; what the handler remembers of its event is true.
LEMMA RestWhenRowsWritten ==
  ASSUME GatewayInv, Rest, UNCHANGED <<gatewayVars, busVars, unpublished>>,
         handled' \in BOOLEAN, dropped \subseteq dropped', dropped' \subseteq RowIds,
         NEW row \in UsageRow, row.event \in ManualIds \/ FromEvent(row),
         UNCHANGED usage \/ RecordUsage(row),
         handled' => \/ handled
                     \/ /\ HeldByHandler /\ inHand[Metering] = row.event
                        /\ RecordUsage(row) \/ Taken(row.event) \/ row.event \in dropped'
  PROVE  Rest'
<1> USE Names
<1>1. UNCHANGED <<stream, sent, acked, inHand, attached, buffer, redelivered, pc, eventAt, unpublished>>
  BY DEF gatewayVars, busVars
<1>2. /\ RowsTyped' /\ RowsIssued'
      /\ \A r \in Requests : Metered(r) => Metered(r)'
      /\ RecordUsage(row) => \E i \in DOMAIN usage' : usage'[i].event = row.event
  <2>1. CASE UNCHANGED usage /\ ~RecordUsage(row)
    BY <1>1, <2>1 DEF Rest, RowsTyped, RowsIssued, FromEvent, Metered
  <2>2. CASE RecordUsage(row)
    BY <1>1, <2>2, RowAdded DEF Rest, RowsTyped, UsageRow
  <2> QED
    BY <2>1, <2>2
<1>3. BusTypeOK' /\ EventsIssued' /\ CopiesSent'
  BY <1>1 DEF Rest, BusTypeOK, EventsIssued, CopiesSent, WasSent, HeldByHandler
<1>4. PublishedOrSaid'
  BY <1>1 DEF Rest, NothingLostYet, PublishedOrSaid, Published
<1>5. AckedIsMetered'
  BY <1>1, <1>2 DEF Rest, NothingLostYet, AckedIsMetered
<1>6. HandledIsMetered'
  <2> SUFFICES ASSUME handled'
               PROVE  HeldByHandler /\ (Metered(inHand[Metering])' \/ inHand[Metering] \in dropped')
    BY <1>1 DEF HandledIsMetered, HeldByHandler
  <2>1. CASE handled
    <3>1. HeldByHandler /\ inHand[Metering] \in Requests
      BY <2>1, BusFacts DEF Rest, NothingLostYet, HandledIsMetered
    <3> QED
      BY <1>1, <1>2, <2>1, <3>1 DEF Rest, NothingLostYet, HandledIsMetered
  <2>2. CASE ~handled
    <3>1. HeldByHandler /\ inHand[Metering] = row.event /\ row.event \in Requests
      BY <2>2, BusFacts DEF Rest
    <3>2. \/ \E i \in DOMAIN usage' : usage'[i].event = row.event
          \/ Metered(row.event)
          \/ row.event \in dropped'
      BY <1>2, <2>2 DEF Taken, Metered
    <3> QED
      BY <1>1, <1>2, <3>1, <3>2 DEF Metered
  <2> QED
    BY <2>1, <2>2
<1> QED
  BY <1>2, <1>3, <1>4, <1>5, <1>6 DEF Rest, NothingLostYet

LEMMA RestWhenReleased ==
  ASSUME Rest, handled' = FALSE, UNCHANGED <<gatewayVars, usage, dropped, unpublished>>,
         \/ handled /\ Ack(Metering)
         \/ Nak(Metering)
         \/ Reconnect(Metering)
  PROVE  Rest'
<1> USE Names
<1>1. UNCHANGED <<pc, eventAt, usage, dropped, unpublished>>
  BY DEF gatewayVars
<1>2. /\ UNCHANGED <<stream, sent, redelivered>>
      /\ attached' \in [Consumers -> BOOLEAN]
      /\ inHand' \in [Consumers -> Requests \cup {NoEvent}] /\ inHand'[Metering] = NoEvent
      /\ buffer' \in [Consumers -> Seq(Requests)]
      /\ buffer' = buffer \/ Len(buffer'[Metering]) = 0
  BY ReleaseFacts DEF Rest
<1>3. \/ acked' = acked
      \/ /\ acked' = [acked EXCEPT ![Metering] = @ \cup {inHand[Metering]}]
         /\ inHand[Metering] \in Requests
         /\ Metered(inHand[Metering]) \/ inHand[Metering] \in dropped
  <2>1. CASE handled /\ Ack(Metering)
    BY <2>1, BusFacts DEF Ack, Rest, NothingLostYet, HandledIsMetered
  <2>2. CASE Nak(Metering) \/ Reconnect(Metering)
    BY <2>2 DEF Nak, Reconnect
  <2> QED
    BY <2>1, <2>2
<1>4. BusTypeOK'
  <2>1. acked' \in [Consumers -> SUBSET Requests]
    BY <1>3 DEF Rest, BusTypeOK
  <2> QED
    BY <1>1, <1>2, <2>1 DEF Rest, BusTypeOK
<1>5. PublishedOrSaid'
  BY <1>1, <1>2 DEF Rest, NothingLostYet, PublishedOrSaid, Published
<1>6. AckedIsMetered'
  <2> SUFFICES ASSUME NEW q \in Requests, q \in acked'[Metering]
               PROVE  Metered(q) \/ q \in dropped
    BY <1>1 DEF AckedIsMetered, Metered
  <2>1. q \in acked[Metering] \/ (q = inHand[Metering] /\ (Metered(q) \/ q \in dropped))
    BY <1>3 DEF Rest, BusTypeOK
  <2> QED
    BY <2>1 DEF Rest, NothingLostYet, AckedIsMetered
<1>7. EventsIssued' /\ HandledIsMetered'
  BY <1>1, <1>2 DEF Rest, EventsIssued, HandledIsMetered
<1>8. CopiesSent'
  BY <1>2 DEF Rest, CopiesSent, WasSent, HeldByHandler
<1>9. RowsIssued' /\ RowsTyped'
  BY <1>1 DEF Rest, RowsIssued, FromEvent, RowsTyped
<1> QED
  BY <1>4, <1>5, <1>6, <1>7, <1>8, <1>9 DEF Rest, NothingLostYet

LEMMA RestInitially == Init => Rest
<1> SUFFICES ASSUME Init PROVE Rest
  OBVIOUS
<1> USE Names DEF Init, BusInit, MeteringInit
<1>1. BusTypeOK
  <2>1. stream \in Seq(Events) /\ Len(stream) = 0
    OBVIOUS
  <2>2. sent \in [Consumers -> 0..Len(stream)]
    BY <2>1
  <2> QED
    BY <2>1, <2>2 DEF BusTypeOK
<1>2. NothingLostYet
  BY DEF GatewayInit, NothingLostYet, PublishedOrSaid, AckedIsMetered, HandledIsMetered
<1>3. EventsIssued /\ CopiesSent /\ RowsIssued
  BY DEF EventsIssued, CopiesSent, RowsIssued, HeldByHandler
<1>4. RowsTyped
  <2> HIDE DEF UsageRow
  <2>1. usage \in Seq(UsageRow)
    OBVIOUS
  <2> QED
    BY <2>1 DEF RowsTyped, UsageRow
<1> QED
  BY <1>1, <1>2, <1>3, <1>4 DEF Rest

LEMMA RestStep == GatewayInv /\ Rest /\ [Next]_vars => Rest'
<1> SUFFICES ASSUME GatewayInv, Rest, [Next]_vars PROVE Rest'
  OBVIOUS
<1> USE Names
<1>1. CASE GatewayStep
  <2>1. GatewayAction /\ UNCHANGED <<busVars, usage, handled, dropped, unpublished>>
    BY <1>1, StepsOfTheGateway DEF GatewayStep, meteringVars
  <2>2. \A q \in Requests : /\ pc'[q] = "answering" => pc[q] = "answering"
                            /\ pc'[q] = "receipted" => pc[q] \in {"answering", "receipted"}
    <3>1. CASE \E q \in Requests : Judge(q)
      <4>1. PICK q \in Requests : Judge(q)
        BY <3>1
      <4>2. \A r \in Requests : pc'[r] = pc[r] \/ pc'[r] \in {"proven", "refused"}
        BY <4>1 DEF Judge, GatewayInv, GatewayTypeOK
      <4> QED
        BY <4>2
    <3>2. CASE ~ \E q \in Requests : Judge(q)
      BY <1>1, <3>2 DEF GatewayStep, Accept, FailEarly, Refuse, IssueReceipt, SignReceipt,
                        Answer, Cleanup, Tick, GatewayInv, GatewayTypeOK
    <3> QED
      BY <3>1, <3>2
  <2> QED
    BY <2>1, <2>2, RestWhenGatewayMoves
<1>2. CASE GatewayRestarts
  <2>1. /\ GatewayAction /\ UNCHANGED <<busVars, usage, handled, dropped, unpublished>>
        /\ \A q \in Requests : pc'[q] = pc[q] \/ pc'[q] = "dead"
    BY <1>2, StepsOfTheGateway DEF GatewayRestarts, RestartGateway, meteringVars
  <2> QED
    BY <2>1, RestWhenGatewayMoves
<1>3. ASSUME NEW q \in Requests, PublishEvent(q) \/ PublishFails(q) PROVE Rest'
  BY <1>3, RestWhenPublished DEF PublishEvent, PublishFails, meteringVars
<1>4. CASE DeliverEvent
  BY <1>4, RestWhenDelivered DEF DeliverEvent, meteringVars
<1>5. CASE HandleEvent \/ InsertFails
  <2> DEFINE e == inHand[Metering]
  <2>1. /\ e \in Requests /\ HeldByHandler
        /\ UNCHANGED <<gatewayVars, busVars, unpublished>> /\ handled' = TRUE
    BY <1>5, BusFacts DEF HandleEvent, InsertFails, MeterEvent, MeterEventFails, Rest,
                          HeldByHandler
  <2>2. /\ Row(e) \in UsageRow /\ Row(e).event = e /\ FromEvent(Row(e))
    <3>1. eventAt[e] # NotSeen
      BY <2>1, BusFacts DEF Rest, EventsIssued, CopiesSent, WasSent
    <3> QED
      BY <2>1, <3>1, GatewayAssumption
      DEF Row, FromEvent, UsageRow, GatewayInv, GatewayTypeOK, NotSeen
  <2>3. /\ UNCHANGED usage \/ RecordUsage(Row(e))
        /\ dropped \subseteq dropped' /\ dropped' \subseteq RowIds
        /\ RecordUsage(Row(e)) \/ Taken(e) \/ e \in dropped'
    <3>1. CASE HandleEvent
      BY <3>1 DEF HandleEvent, MeterEvent, Rest, RowsTyped
    <3>2. CASE InsertFails
      BY <2>1, <2>2, <3>2 DEF InsertFails, MeterEventFails, Rest, RowsTyped
    <3> QED
      BY <1>5, <3>1, <3>2
  <2> QED
    BY <2>1, <2>2, <2>3, RestWhenRowsWritten
<1>6. CASE Settle
  BY <1>6, RestWhenReleased DEF Settle
<1>7. CASE AckLost
  BY <1>7, RestWhenReleased DEF AckLost
<1>8. CASE MeteringRestarts
  BY <1>8, RestWhenReleased DEF MeteringRestarts, RestartMetering
<1>9. CASE ApiStep
  <2>1. UNCHANGED <<gatewayVars, busVars, unpublished>>
    BY <1>9 DEF ApiStep
  <2>2. ASSUME NEW id \in ManualIds, NEW q \in Requests, NEW date \in PostedDates,
               PostUsage(PostedRow(id, q, date))
        PROVE  Rest'
    <3> DEFINE row == PostedRow(id, q, date)
    <3>1. /\ row \in UsageRow /\ row.event \in ManualIds /\ RecordUsage(row)
          /\ UNCHANGED <<handled, dropped>>
      BY <2>2, PipelineAssumption DEF PostUsage, PostedRow, UsageRow
    <3> HIDE DEF row
    <3>2. handled' \in BOOLEAN /\ dropped' \subseteq RowIds
      BY <3>1 DEF Rest, RowsTyped
    <3> QED
      BY <2>1, <3>1, <3>2, RestWhenRowsWritten
  <2>3. ASSUME UNCHANGED <<usage, handled, dropped>>
        PROVE  Rest'
    <3>1. GatewayAction /\ UNCHANGED pc
      BY <2>1 DEF GatewayAction, gatewayVars
    <3> QED
      BY <2>1, <2>3, <3>1, RestWhenGatewayMoves
  <2>4. ASSUME NEW period \in Periods, ReadUsage(period)
        PROVE  Rest'
    BY <2>3, <2>4 DEF ReadUsage
  <2>5. ASSUME NEW i \in DOMAIN statements, StoreStatement(i)
        PROVE  Rest'
    BY <2>3, <2>5 DEF StoreStatement
  <2> QED
    BY <1>9, <2>2, <2>4, <2>5 DEF ApiStep
<1>10. CASE UNCHANGED vars
  <2>1. UNCHANGED <<busVars, usage, handled, dropped, unpublished, gatewayVars>> /\ UNCHANGED pc
    BY <1>10 DEF vars, meteringVars, gatewayVars
  <2>2. GatewayAction
    BY <2>1 DEF GatewayAction
  <2> QED
    BY <2>1, <2>2, RestWhenGatewayMoves
<1> QED
  BY <1>1, <1>2, <1>3, <1>4, <1>5, <1>6, <1>7, <1>8, <1>9, <1>10 DEF Next

THEOREM PipelineInvariant == Spec => [](GatewayInv /\ Rest)
<1>1. Init => GatewayInv /\ Rest
  BY GatewayInvInitially, RestInitially
<1>2. GatewayInv /\ Rest /\ [Next]_vars => (GatewayInv /\ Rest)'
  BY GatewayInvStep, RestStep
<1> QED
  BY <1>1, <1>2, PTL DEF Spec

\* A receipt whose verification is not metered lost it in one of the ways the code
\* accepts, or the bus still holds it: for any number of faults.
THEOREM OnlyKnownLosses == Spec => []NothingElseIsLost
<1>1. GatewayInv /\ Rest => NothingElseIsLost
  BY DEF Rest, NothingLostYet, PublishedOrSaid, AckedIsMetered, NothingElseIsLost
<1> QED
  BY <1>1, PipelineInvariant, PTL

\* A receipt is charged once, at its own date or later, but for usage that is posted
\* by hand: however the bus repeats and the gateway delays.
THEOREM EachReceiptChargedOnce == Spec => []ChargedOnce
<1>1. GatewayInv /\ Rest => ChargedOnce
  <2> SUFFICES ASSUME EventDated, RowsTyped, RowsIssued PROVE ChargedOnce
    BY DEF Rest, GatewayInv
  <2>1. ASSUME NEW i \in DOMAIN usage, ~ByHand(i)
        PROVE  /\ receiptAt[usage[i].receipt] # NotSeen
               /\ receiptAt[usage[i].receipt] <= usage[i].at
    BY <2>1, RowsNameRequests DEF RowsIssued, FromEvent, EventDated, ByHand
  <2>2. ASSUME NEW i \in DOMAIN usage, NEW j \in DOMAIN usage, i # j,
               usage[i].receipt = usage[j].receipt
        PROVE  ByHand(i) \/ ByHand(j)
    BY <2>2 DEF RowsIssued, FromEvent, ByHand
  <2> QED
    BY <2>1, <2>2 DEF ChargedOnce
<1> QED
  BY <1>1, PipelineInvariant, PTL

-----------------------------------------------------------------------------
(* The statements                                                          *)

Statement == [period : Periods, rows : SUBSET Nat,
              outcome : {"reading", "stored", "failed"}, total : Int]

\* A statement's rows are usage of its period, and its total counts them; a total
\* that is no number is never stored.
StatementOK(s) ==
  /\ s.rows \subseteq RowsIn(s.period.from, s.period.to)
  /\ s.outcome = "stored" => s.total = Cardinality(s.rows)
  /\ s.outcome # "stored" => s.total = 0

StatementsInv ==
  /\ statements \in Seq(Statement)
  /\ \A i \in DOMAIN statements : StatementOK(statements[i])

\* Rows stay, and keep their time.
UsageGrows ==
  /\ DOMAIN usage \subseteq DOMAIN usage'
  /\ \A i \in DOMAIN usage : usage'[i] = usage[i]

LEMMA RecordingGrows ==
  ASSUME RowsTyped, NEW row, UNCHANGED usage \/ RecordUsage(row)
  PROVE  UsageGrows
<1>1. CASE usage' = Append(usage, row)
  <2> HIDE DEF UsageRow
  <2>1. usage \in Seq(UsageRow)
    BY DEF RowsTyped, UsageRow
  <2>2. /\ DOMAIN usage = 1..Len(usage) /\ Len(usage) \in Nat
        /\ DOMAIN usage' = 1..(Len(usage) + 1)
        /\ \A i \in 1..Len(usage) : usage'[i] = usage[i]
    BY <1>1, <2>1
  <2> QED
    BY <2>2 DEF UsageGrows
<1>2. CASE UNCHANGED usage
  BY <1>2 DEF UsageGrows
<1> QED
  BY <1>1, <1>2 DEF RecordUsage

LEMMA StatementsKept ==
  ASSUME StatementsInv, UsageGrows, UNCHANGED statements
  PROVE  StatementsInv'
<1>1. ASSUME NEW i \in DOMAIN statements
      PROVE  StatementOK(statements[i])'
  BY <1>1 DEF StatementsInv, StatementOK, UsageGrows, RowsIn, InPeriod
<1> QED
  BY <1>1 DEF StatementsInv

LEMMA RowsTypedDomain ==
  RowsTyped => DOMAIN usage = 1..Len(usage) /\ Len(usage) \in Nat
<1> HIDE DEF UsageRow
<1> SUFFICES ASSUME usage \in Seq(UsageRow)
             PROVE  DOMAIN usage = 1..Len(usage) /\ Len(usage) \in Nat
  BY DEF RowsTyped, UsageRow
<1> QED
  OBVIOUS

\* Any set of stored usages is finite: the table is a sequence.
LEMMA RowsFinite ==
  ASSUME RowsTyped, NEW rows \in SUBSET DOMAIN usage
  PROVE  IsFiniteSet(rows) /\ Cardinality(rows) \in Nat
<1>1. DOMAIN usage = 1..Len(usage) /\ Len(usage) \in Nat
  BY RowsTypedDomain
<1> DEFINE n == Len(usage)
<1>2. n \in Int /\ 1 \in Int /\ rows \in SUBSET (1..n)
  BY <1>1
<1> HIDE DEF n
<1>3. IsFiniteSet(1..n)
  BY <1>2, FS_Interval, Zenon
<1>4. IsFiniteSet(rows)
  BY <1>2, <1>3, FS_Subset, Zenon
<1> QED
  BY <1>4, FS_CardinalityType, Zenon

LEMMA StatementRead ==
  ASSUME StatementsInv, RowsTyped, NEW period \in Periods, ReadUsage(period)
  PROVE  StatementsInv'
<1> DEFINE rows == RowsIn(period.from, period.to)
           new == [period |-> period, rows |-> rows, outcome |-> "reading", total |-> 0]
<1>1. usage' = usage /\ statements' = Append(statements, new)
  BY DEF ReadUsage
<1>2. rows \subseteq Nat
  <2>1. DOMAIN usage \subseteq Nat
    BY RowsTypedDomain
  <2> QED
    BY <2>1 DEF RowsIn
<1>3. new \in Statement
  BY <1>2 DEF Statement
<1>4. StatementOK(new)
  BY DEF StatementOK
<1> HIDE DEF new
<1>5. statements' \in Seq(Statement)
  BY <1>1, <1>3 DEF StatementsInv
<1>6. ASSUME NEW i \in DOMAIN statements'
      PROVE  statements'[i] = new \/ (i \in DOMAIN statements /\ statements'[i] = statements[i])
  <2> HIDE DEF Statement
  <2>1. statements \in Seq(Statement)
    BY DEF StatementsInv
  <2> QED
    BY <1>1, <1>3, <1>6, <2>1
<1>7. \A i \in DOMAIN statements' : StatementOK(statements'[i])
  BY <1>4, <1>6 DEF StatementsInv
<1> QED
  BY <1>1, <1>5, <1>7 DEF StatementsInv, StatementOK, RowsIn, InPeriod

LEMMA StatementStored ==
  ASSUME StatementsInv, RowsTyped, NEW k \in DOMAIN statements, StoreStatement(k)
  PROVE  StatementsInv'
<1> DEFINE old == statements[k]
           total == TotalAmount(old.rows)
<1> DEFINE new == statements'[k]
<1>1. old \in Statement /\ statements \in Seq(Statement) /\ usage' = usage
      /\ old.outcome = "reading" /\ old.total = 0
  <2> HIDE DEF Statement
  <2>1. statements \in Seq(Statement)
    BY DEF StatementsInv
  <2>2. old \in Statement
    BY <2>1
  <2> QED
    BY <2>1, <2>2 DEF StatementsInv, StatementOK, StoreStatement
<1>2. statements' = [statements EXCEPT ![k] =
        IF total = NotANumber THEN [old EXCEPT !.outcome = "failed"]
        ELSE [old EXCEPT !.outcome = "stored", !.total = total]]
  BY DEF StoreStatement
<1>3. /\ DOMAIN statements' = DOMAIN statements
      /\ \A i \in DOMAIN statements : i # k => statements'[i] = statements[i]
      /\ new = IF total = NotANumber THEN [old EXCEPT !.outcome = "failed"]
               ELSE [old EXCEPT !.outcome = "stored", !.total = total]
  BY <1>2
<1>4. total # NotANumber => total = Cardinality(old.rows) /\ total \in Int
  <2>1. IsFiniteSet(old.rows)
    <3>1. StatementOK(old)
      BY DEF StatementsInv
    <3>2. old.rows \subseteq DOMAIN usage
      BY <3>1 DEF StatementOK, RowsIn
    <3> QED
      BY <3>2, RowsFinite
  <2>2. Cardinality(old.rows) \in Nat
    BY <2>1, FS_CardinalityType
  <2> QED
    BY <2>2 DEF TotalAmount, NotANumber
<1> HIDE DEF total
<1>5. /\ new \in Statement /\ new.period = old.period /\ new.rows = old.rows
      /\ new.outcome = "stored" => new.total = Cardinality(old.rows)
      /\ new.outcome # "stored" => new.total = 0
  <2>1. CASE total = NotANumber
    BY <1>1, <1>3, <2>1 DEF Statement
  <2>2. CASE total # NotANumber
    BY <1>1, <1>3, <1>4, <2>2 DEF Statement
  <2> QED
    BY <2>1, <2>2
<1> HIDE DEF old, new
<1>6. statements' \in Seq(Statement)
  <2> HIDE DEF Statement
  <2>1. /\ DOMAIN statements = 1..Len(statements) /\ Len(statements) \in Nat
        /\ \A i \in 1..Len(statements) : statements[i] \in Statement
    BY <1>1
  <2>2. statements' = [statements EXCEPT ![k] = new]
    BY <1>1, <1>2, <1>3
  <2> QED
    BY <1>1, <1>5, <2>1, <2>2
<1>7. \A i \in DOMAIN statements : StatementOK(statements'[i])
  <2>1. StatementOK(old)
    BY DEF StatementsInv, old
  <2>2. StatementOK(new)
    BY <1>5, <2>1 DEF StatementOK
  <2> QED
    BY <1>3, <2>2 DEF StatementsInv, new
<1> QED
  BY <1>1, <1>3, <1>6, <1>7 DEF StatementsInv, StatementOK, RowsIn, InPeriod

LEMMA StatementsAfterRestart ==
  ASSUME StatementsInv, RestartMetering
  PROVE  StatementsInv'
<1>1. /\ usage' = usage
      /\ statements' = [i \in DOMAIN statements |->
           IF statements[i].outcome = "reading" THEN [statements[i] EXCEPT !.outcome = "failed"]
           ELSE statements[i]]
  BY DEF RestartMetering
<1>2. /\ \A i \in DOMAIN statements : statements[i] \in Statement
      /\ DOMAIN statements = 1..Len(statements) /\ Len(statements) \in Nat
  <2> HIDE DEF Statement
  <2>1. statements \in Seq(Statement)
    BY DEF StatementsInv
  <2> QED
    BY <2>1
<1>3. ASSUME NEW i \in DOMAIN statements
      PROVE  statements'[i] \in Statement /\ StatementOK(statements'[i])
  <2>1. statements[i] \in Statement /\ StatementOK(statements[i])
    BY <1>2 DEF StatementsInv
  <2>2. CASE statements[i].outcome = "reading"
    <3>1. statements'[i] = [statements[i] EXCEPT !.outcome = "failed"]
      BY <1>1, <2>2
    <3> QED
      BY <2>1, <2>2, <3>1 DEF Statement, StatementOK
  <2>3. CASE statements[i].outcome # "reading"
    <3>1. statements'[i] = statements[i]
      BY <1>1, <2>3
    <3> QED
      BY <2>1, <3>1
  <2> QED
    BY <2>2, <2>3
<1>4. statements' \in Seq(Statement)
  <2> HIDE DEF Statement
  <2>1. statements' = [i \in 1..Len(statements) |-> statements'[i]]
    BY <1>1, <1>2
  <2> QED
    BY <1>2, <1>3, <2>1
<1>5. DOMAIN statements' = DOMAIN statements
  BY <1>1
<1> QED
  BY <1>1, <1>3, <1>4, <1>5 DEF StatementsInv, StatementOK, RowsIn, InPeriod

LEMMA StatementsStep ==
  ASSUME RowsTyped, StatementsInv, [Next]_vars
  PROVE  StatementsInv'
<1>1. CASE GatewayStep \/ GatewayRestarts \/ DeliverEvent \/ Settle \/ AckLost \/ UNCHANGED vars
           \/ \E q \in Requests : PublishEvent(q) \/ PublishFails(q)
  <2>1. UNCHANGED <<usage, statements>>
    BY <1>1 DEF GatewayStep, GatewayRestarts, DeliverEvent, Settle, AckLost, PublishEvent,
                PublishFails, vars, meteringVars
  <2> QED
    BY <2>1, StatementsKept DEF UsageGrows
<1>2. CASE HandleEvent \/ InsertFails
  <2>1. \E row : UNCHANGED usage \/ RecordUsage(row)
    BY <1>2 DEF HandleEvent, InsertFails, MeterEvent, MeterEventFails
  <2>2. UsageGrows /\ UNCHANGED statements
    BY <1>2, <2>1, RecordingGrows DEF HandleEvent, InsertFails, MeterEvent, MeterEventFails
  <2> QED
    BY <2>2, StatementsKept
<1>3. ASSUME NEW row, PostUsage(row) PROVE StatementsInv'
  BY <1>3, RecordingGrows, StatementsKept DEF PostUsage
<1>4. CASE ApiStep
  BY <1>3, <1>4, StatementRead, StatementStored DEF ApiStep
<1>5. CASE MeteringRestarts
  BY <1>5, StatementsAfterRestart DEF MeteringRestarts
<1> QED
  BY <1>1, <1>2, <1>4, <1>5 DEF Next

THEOREM StatementsInvariant == Spec => []StatementsInv
<1>1. Init => StatementsInv
  <2> HIDE DEF Statement
  <2> SUFFICES ASSUME statements = <<>> PROVE StatementsInv
    BY DEF Init, MeteringInit
  <2>1. statements \in Seq(Statement) /\ DOMAIN statements = {}
    OBVIOUS
  <2> QED
    BY <2>1 DEF StatementsInv
<1>2. (GatewayInv /\ Rest) /\ StatementsInv /\ [Next]_vars => StatementsInv'
  BY StatementsStep DEF Rest
<1> QED
  BY <1>1, <1>2, PipelineInvariant, PTL DEF Spec

\* Statements, usage report and monthly report count alike, and adjacent periods bill
\* nothing twice, for any usage, periods and length of a month.
THEOREM ReportsAlwaysAgree == Spec => []ReportsAgree
<1>1. StatementsInv /\ Rest => ReportsAgree
  <2> SUFFICES ASSUME StatementsInv, Rest PROVE ReportsAgree
    OBVIOUS
  <2>1. ASSUME NEW i \in Stored
        PROVE  statements[i].total = SummaryAmount(statements[i].rows)
    BY DEF StatementsInv, StatementOK, Stored, SummaryAmount
  <2>2. ASSUME NEW first \in 0..1, NEW last \in 0..1, first <= last
        PROVE  RowsOfMonths(first, last) = RowsIn(first * MonthLength, (last + 1) * MonthLength)
    <3>1. last * MonthLength + MonthLength = (last + 1) * MonthLength
      <4>1. last = 0 \/ last = 1
        OBVIOUS
      <4> QED
        BY <4>1, MeteringAssumption
    <3> QED
      BY <3>1 DEF RowsOfMonths, RowsIn, InPeriod
  <2>3. ASSUME NEW i \in Stored, NEW p \in Periods,
               \/ statements[i].period.to <= p.from
               \/ p.to <= statements[i].period.from
        PROVE  statements[i].rows \cap RowsIn(p.from, p.to) = {}
    <3>1. statements[i] \in Statement /\ StatementOK(statements[i])
      <4> HIDE DEF Statement
      <4> QED
        BY DEF StatementsInv, Stored
    <3>2. /\ statements[i].period.from \in Nat /\ statements[i].period.to \in Nat
          /\ p.from \in Nat /\ p.to \in Nat
      BY <3>1, MeteringAssumption DEF Statement
    <3>3. ASSUME NEW r \in statements[i].rows, r \in RowsIn(p.from, p.to)
          PROVE  FALSE
      <4>1. /\ statements[i].period.from <= usage[r].at /\ usage[r].at < statements[i].period.to
            /\ p.from <= usage[r].at /\ usage[r].at < p.to
        BY <3>1, <3>3 DEF StatementOK, RowsIn, InPeriod
      <4>2. usage[r].at \in Nat
        BY <3>3, RowsDated DEF Rest, RowsIn
      <4> QED
        BY <2>3, <3>2, <4>1, <4>2
    <3> QED
      BY <3>3
  <2> QED
    BY <2>1, <2>2, <2>3 DEF ReportsAgree
<1> QED
  BY <1>1, StatementsInvariant, PipelineInvariant, PTL

\* Every variable of the pipeline has its type.
THEOREM PipelineTyped == Spec => []TypeOK
<1>1. GatewayInv /\ Rest /\ StatementsInv => MeteringTypeOK
  <2> SUFFICES ASSUME Rest, StatementsInv PROVE MeteringTypeOK
    OBVIOUS
  <2>1. ASSUME NEW i \in DOMAIN statements
        PROVE  /\ statements[i].period \in Periods
               /\ statements[i].rows \subseteq DOMAIN usage
               /\ statements[i].outcome \in {"reading", "stored", "failed"}
               /\ statements[i].total \in 0..Cardinality(statements[i].rows)
    <3>1. statements[i] \in Statement /\ StatementOK(statements[i])
      <4> HIDE DEF Statement
      <4> QED
        BY DEF StatementsInv
    <3>2. statements[i].rows \subseteq DOMAIN usage
      BY <3>1 DEF StatementOK, RowsIn
    <3>3. Cardinality(statements[i].rows) \in Nat
      <4> QED
        BY <3>2, RowsFinite DEF Rest
    <3> QED
      BY <3>1, <3>2, <3>3 DEF StatementOK, Statement
  <2> QED
    BY <2>1 DEF MeteringTypeOK, Rest, RowsTyped
<1>2. Init => unpublished \subseteq Requests /\ faults \in 0..MaxFaults
  BY PipelineAssumption DEF Init
<1>3. unpublished \subseteq Requests /\ faults \in 0..MaxFaults /\ [Next]_vars
        => (unpublished \subseteq Requests /\ faults \in 0..MaxFaults)'
  BY PipelineAssumption DEF Next, GatewayStep, PublishEvent, PublishFails, GatewayRestarts,
       DeliverEvent, HandleEvent, InsertFails, Settle, AckLost, ApiStep, MeteringRestarts,
       Fault, vars
<1>4. GatewayInv /\ Rest /\ StatementsInv
        /\ (unpublished \subseteq Requests /\ faults \in 0..MaxFaults) => TypeOK
  BY <1>1 DEF TypeOK, GatewayInv, Rest
<1> QED
  BY <1>2, <1>3, <1>4, PipelineInvariant, StatementsInvariant, PTL DEF Spec

-----------------------------------------------------------------------------
(* At-least-once delivery                                                  *)

\* Every event is in the stream once: its request is past the publishing of it.
PublishedInPassing ==
  /\ \A q \in Requests : Published(q) => pc[q] \in {"answering", "receipted", "dead"}
  /\ \A i, j \in 1..Len(stream) : stream[i] = stream[j] => i = j

\* What was acknowledged was sent.
AckedIsSent == \A q \in acked[Metering] : WasSent(q)

\* Of an event that was never sent again there is one copy, in the buffer or in hand,
\* and none once it is acknowledged.
OneCopy ==
  \A i \in 1..Len(buffer[Metering]) :
    /\ HeldByHandler /\ buffer[Metering][i] = inHand[Metering]
         => buffer[Metering][i] \in redelivered[Metering]
    /\ \A j \in 1..Len(buffer[Metering]) :
         i # j /\ buffer[Metering][i] = buffer[Metering][j]
           => buffer[Metering][i] \in redelivered[Metering]

LateCopyRepeated ==
  /\ HeldByHandler /\ inHand[Metering] \in acked[Metering]
       => inHand[Metering] \in redelivered[Metering]
  /\ \A i \in 1..Len(buffer[Metering]) :
       buffer[Metering][i] \in acked[Metering]
         => buffer[Metering][i] \in redelivered[Metering]

DueInv == PublishedInPassing /\ AckedIsSent /\ OneCopy /\ LateCopyRepeated

\* A step of the gateway that publishes nothing.
LEMMA DueWhenGatewayMoves ==
  ASSUME GatewayTypeOK, DueInv, UNCHANGED busVars,
         \A q \in Requests : pc[q] \in {"answering", "receipted", "dead"} =>
                               pc'[q] \in {"answering", "receipted", "dead"}
  PROVE  DueInv'
<1>1. PublishedInPassing' /\ AckedIsSent'
  BY DEF DueInv, PublishedInPassing, Published, AckedIsSent, WasSent, busVars
<1>2. OneCopy' /\ LateCopyRepeated'
  BY DEF DueInv, OneCopy, LateCopyRepeated, HeldByHandler, busVars
<1> QED
  BY <1>1, <1>2 DEF DueInv

LEMMA GatewayMovesOn ==
  ASSUME GatewayTypeOK, GatewayAction
  PROVE  \A q \in Requests : pc[q] \in {"answering", "receipted", "dead"} =>
                               pc'[q] \in {"answering", "receipted", "dead"}
<1> USE DEF GatewayTypeOK
<1>1. CASE \E q \in Requests, p \in Packages :
             Accept(q, p) \/ FailEarly(q, p) \/ Refuse(q, p)
  BY <1>1 DEF Accept, FailEarly, Refuse
<1>2. CASE \E q \in Requests : Judge(q)
  <2>1. PICK q \in Requests : Judge(q)
    BY <1>2
  <2>2. pc[q] = "proving" /\ \A r \in Requests : r # q => pc'[r] = pc[r]
    BY <2>1 DEF Judge
  <2> QED
    BY <2>2
<1>3. CASE \E q \in Requests : \/ IssueReceipt(q) \/ SignReceipt(q)
                               \/ PublishEnds(q) \/ Answer(q)
  BY <1>3 DEF IssueReceipt, SignReceipt, PublishEnds, Answer
<1>4. CASE Cleanup \/ Tick \/ UNCHANGED gatewayVars
  BY <1>4 DEF Cleanup, Tick, gatewayVars
<1>5. CASE RestartGateway
  BY <1>5 DEF RestartGateway, Running
<1> QED
  BY <1>1, <1>2, <1>3, <1>4, <1>5 DEF GatewayAction

LEMMA DueWhenPublished ==
  ASSUME GatewayTypeOK, BusTypeOK, DueInv, NEW q \in Requests, PublishEnds(q),
         Publish(q) \/ UNCHANGED busVars
  PROVE  DueInv'
<1>1. /\ pc[q] = "publishing" /\ pc'[q] = "answering"
      /\ \A r \in Requests : r # q => pc'[r] = pc[r]
  BY DEF PublishEnds, GatewayTypeOK
<1>2. CASE UNCHANGED busVars
  BY <1>1, <1>2, DueWhenGatewayMoves
<1>3. CASE Publish(q)
  <2>1. stream' = Append(stream, q) /\ UNCHANGED <<sent, buffer, acked, inHand, redelivered>>
    BY <1>3 DEF Publish
  <2>2. /\ Len(stream') = Len(stream) + 1 /\ stream'[Len(stream) + 1] = q
        /\ \A i \in 1..Len(stream) : stream'[i] = stream[i]
    BY <2>1, BusFacts
  <2>3. \A i \in 1..Len(stream) : stream[i] # q
    BY <1>1 DEF DueInv, PublishedInPassing, Published
  <2>4. PublishedInPassing'
    <3>1. ASSUME NEW r \in Requests, NEW i \in 1..Len(stream'), stream'[i] = r
          PROVE  pc'[r] \in {"answering", "receipted", "dead"}
      <4>1. i \in 1..Len(stream) \/ r = q
        BY <2>2, <3>1, BusFacts
      <4> QED
        BY <1>1, <2>2, <3>1, <4>1 DEF DueInv, PublishedInPassing, Published
    <3>2. ASSUME NEW i \in 1..Len(stream'), NEW j \in 1..Len(stream'), stream'[i] = stream'[j]
          PROVE  i = j
      <4>1. /\ i \in 1..Len(stream) \/ i = Len(stream) + 1
            /\ j \in 1..Len(stream) \/ j = Len(stream) + 1
        BY <2>2, BusFacts
      <4> QED
        BY <2>2, <2>3, <3>2, <4>1 DEF DueInv, PublishedInPassing
    <3> QED
      BY <3>1, <3>2 DEF PublishedInPassing, Published
  <2>5. \A k \in 1..sent[Metering] : stream'[k] = stream[k]
    BY <2>2, BusFacts
  <2>6. AckedIsSent'
    BY <2>1, <2>5 DEF DueInv, AckedIsSent, WasSent
  <2>7. OneCopy' /\ LateCopyRepeated'
    BY <2>1 DEF DueInv, OneCopy, LateCopyRepeated, HeldByHandler
  <2> QED
    BY <2>4, <2>6, <2>7 DEF DueInv
<1> QED
  BY <1>2, <1>3

\* A copy goes to the end of the buffer: the first of its event, or one of an event
\* that now counts as sent again.
LEMMA DueWhenFetched ==
  ASSUME BusTypeOK, OneCopy, LateCopyRepeated, NEW e \in Requests, Fetch(Metering, e),
         UNCHANGED <<inHand, acked>>, redelivered[Metering] \subseteq redelivered'[Metering],
         \/ e \in redelivered'[Metering]
         \/ /\ e \notin acked[Metering]
            /\ HeldByHandler => inHand[Metering] # e
            /\ \A i \in 1..Len(buffer[Metering]) : buffer[Metering][i] # e
  PROVE  OneCopy' /\ LateCopyRepeated'
<1> DEFINE n == Len(buffer[Metering])
<1>1. /\ Len(buffer'[Metering]) = n + 1 /\ n \in Nat
      /\ buffer'[Metering][n + 1] = e
      /\ \A i \in 1..n : buffer'[Metering][i] = buffer[Metering][i]
  BY Fetched, BusFacts
<1> HIDE DEF n
<1>2. \A i \in 1..Len(buffer'[Metering]) :
        \/ i \in 1..n /\ buffer'[Metering][i] = buffer[Metering][i]
        \/ i = n + 1 /\ buffer'[Metering][i] = e
  BY <1>1
<1>3. OneCopy'
  <2> SUFFICES ASSUME NEW i \in 1..Len(buffer'[Metering])
               PROVE  /\ HeldByHandler /\ buffer'[Metering][i] = inHand[Metering]
                           => buffer'[Metering][i] \in redelivered'[Metering]
                      /\ \A j \in 1..Len(buffer'[Metering]) :
                           i # j /\ buffer'[Metering][i] = buffer'[Metering][j]
                             => buffer'[Metering][i] \in redelivered'[Metering]
    BY DEF OneCopy, HeldByHandler
  <2>1. HeldByHandler /\ buffer'[Metering][i] = inHand[Metering]
          => buffer'[Metering][i] \in redelivered'[Metering]
    BY <1>2 DEF OneCopy, n
  <2>2. ASSUME NEW j \in 1..Len(buffer'[Metering]), i # j,
               buffer'[Metering][i] = buffer'[Metering][j]
        PROVE  buffer'[Metering][i] \in redelivered'[Metering]
    <3>1. CASE i \in 1..n /\ j \in 1..n
      BY <1>1, <2>2, <3>1 DEF OneCopy, n
    <3>2. CASE buffer'[Metering][i] = e /\ (i \in 1..n \/ j \in 1..n)
      BY <1>1, <2>2, <3>2 DEF n
    <3> QED
      BY <1>2, <2>2, <3>1, <3>2
  <2> QED
    BY <2>1, <2>2
<1>4. LateCopyRepeated'
  <2>1. ASSUME NEW i \in 1..Len(buffer'[Metering]), buffer'[Metering][i] \in acked[Metering]
        PROVE  buffer'[Metering][i] \in redelivered'[Metering]
    BY <1>2, <2>1 DEF LateCopyRepeated, n
  <2>2. HeldByHandler /\ inHand[Metering] \in acked[Metering]
          => inHand[Metering] \in redelivered'[Metering]
    BY DEF LateCopyRepeated
  <2> QED
    BY <2>1, <2>2 DEF LateCopyRepeated, HeldByHandler
<1> QED
  BY <1>3, <1>4

LEMMA DueWhenDelivered ==
  ASSUME BusTypeOK, CopiesSent, DueInv, UNCHANGED pc,
         Deliver(Metering) \/ Redeliver(Metering) \/ Take(Metering)
  PROVE  DueInv'
<1> USE BusFacts
<1>1. CASE Deliver(Metering)
  <2>1. PICK n \in 1..Len(stream) :
          /\ n = sent[Metering] + 1 /\ sent'[Metering] = n
          /\ Fetch(Metering, stream[n]) /\ stream[n] \in Requests
          /\ UNCHANGED <<stream, inHand, acked, redelivered>>
    BY <1>1, DeliverFacts
  <2>2. ~WasSent(stream[n])
    <3> SUFFICES ASSUME NEW k \in 1..sent[Metering], stream[k] = stream[n]
                 PROVE  FALSE
      BY DEF WasSent
    <3>1. k \in 1..Len(stream) /\ k # n
      BY <2>1
    <3> QED
      BY <3>1 DEF DueInv, PublishedInPassing
  <2>3. /\ stream[n] \notin acked[Metering]
        /\ HeldByHandler => inHand[Metering] # stream[n]
        /\ \A i \in 1..Len(buffer[Metering]) : buffer[Metering][i] # stream[n]
    BY <2>2 DEF DueInv, AckedIsSent, CopiesSent
  <2>4. OneCopy' /\ LateCopyRepeated'
    BY <2>1, <2>3, DueWhenFetched DEF DueInv
  <2>5. PublishedInPassing' /\ AckedIsSent'
    BY <2>1 DEF DueInv, PublishedInPassing, Published, AckedIsSent, WasSent
  <2> QED
    BY <2>4, <2>5 DEF DueInv
<1>2. CASE Redeliver(Metering)
  <2>1. PICK e \in Requests :
          /\ Fetch(Metering, e)
          /\ redelivered'[Metering] = redelivered[Metering] \cup {e}
          /\ UNCHANGED <<stream, sent, inHand, acked>>
    BY <1>2, RedeliverFacts
  <2>2. OneCopy' /\ LateCopyRepeated'
    BY <2>1, DueWhenFetched DEF DueInv
  <2>3. PublishedInPassing' /\ AckedIsSent'
    BY <2>1 DEF DueInv, PublishedInPassing, Published, AckedIsSent, WasSent
  <2> QED
    BY <2>2, <2>3 DEF DueInv
<1>3. CASE Take(Metering)
  <2> DEFINE n == Len(buffer[Metering])
  <2>1. /\ n >= 1 /\ inHand'[Metering] = buffer[Metering][1]
        /\ Len(buffer'[Metering]) = n - 1
        /\ \A i \in 1..(n - 1) : buffer'[Metering][i] = buffer[Metering][i + 1]
        /\ UNCHANGED <<stream, sent, acked, redelivered>>
    BY <1>3, TakeFacts
  <2>2. \A i \in 1..(n - 1) : i + 1 \in 1..n /\ i + 1 # 1
    BY <2>1
  <2>3. 1 \in 1..n
    BY <2>1
  <2>4. OneCopy'
    BY <2>1, <2>2, <2>3 DEF DueInv, OneCopy
  <2>5. LateCopyRepeated'
    BY <2>1, <2>2, <2>3 DEF DueInv, LateCopyRepeated
  <2>6. PublishedInPassing' /\ AckedIsSent'
    BY <2>1 DEF DueInv, PublishedInPassing, Published, AckedIsSent, WasSent
  <2> QED
    BY <2>4, <2>5, <2>6 DEF DueInv
<1> QED
  BY <1>1, <1>2, <1>3

LEMMA DueWhenReleased ==
  ASSUME BusTypeOK, CopiesSent, DueInv, UNCHANGED pc,
         \/ HeldByHandler /\ Ack(Metering)
         \/ Nak(Metering)
         \/ Reconnect(Metering)
  PROVE  DueInv'
<1>1. /\ UNCHANGED <<stream, sent, redelivered>> /\ inHand'[Metering] = NoEvent
      /\ buffer' = buffer \/ Len(buffer'[Metering]) = 0
  BY ReleaseFacts
<1>2. \/ acked' = acked
      \/ /\ HeldByHandler /\ buffer' = buffer
         /\ acked'[Metering] = acked[Metering] \cup {inHand[Metering]}
  <2>1. acked \in [Consumers -> SUBSET Events]
    BY DEF BusTypeOK
  <2> QED
    BY <2>1, Names DEF Ack, Nak, Reconnect, Release
<1>3. AckedIsSent'
  BY <1>1, <1>2 DEF DueInv, AckedIsSent, CopiesSent, WasSent
<1>4. OneCopy'
  BY <1>1 DEF DueInv, OneCopy, HeldByHandler
<1>5. LateCopyRepeated'
  BY <1>1, <1>2 DEF DueInv, OneCopy, LateCopyRepeated, HeldByHandler
<1> QED
  BY <1>1, <1>3, <1>4, <1>5 DEF DueInv, PublishedInPassing, Published

LEMMA DueStep == GatewayInv /\ Rest /\ DueInv /\ [Next]_vars => DueInv'
<1> SUFFICES ASSUME GatewayInv, Rest, DueInv, [Next]_vars PROVE DueInv'
  OBVIOUS
<1> USE DEF GatewayInv, Rest
<1>1. ASSUME UNCHANGED busVars PROVE DueInv'
  BY <1>1, StepsOfTheGateway, GatewayMovesOn, DueWhenGatewayMoves
<1>2. ASSUME NEW q \in Requests, PublishEvent(q) \/ PublishFails(q) PROVE DueInv'
  BY <1>2, DueWhenPublished DEF PublishEvent, PublishFails
<1>3. CASE DeliverEvent
  BY <1>3, DueWhenDelivered DEF DeliverEvent, gatewayVars
<1>4. CASE Settle \/ AckLost \/ MeteringRestarts
  <2>1. /\ UNCHANGED pc
        /\ \/ handled /\ Ack(Metering)
           \/ Nak(Metering)
           \/ Reconnect(Metering)
    BY <1>4 DEF Settle, AckLost, MeteringRestarts, gatewayVars
  <2>2. handled => HeldByHandler
    BY DEF NothingLostYet, HandledIsMetered
  <2> QED
    BY <2>1, <2>2, DueWhenReleased
<1>5. CASE \/ GatewayStep \/ GatewayRestarts \/ HandleEvent \/ InsertFails \/ ApiStep
           \/ UNCHANGED vars
  BY <1>1, <1>5 DEF GatewayStep, GatewayRestarts, HandleEvent, InsertFails, ApiStep, vars
<1> QED
  BY <1>2, <1>3, <1>4, <1>5 DEF Next

\* The rows of an event, and what an insert does to them.
RowsOf(q) == {i \in DOMAIN usage : usage[i].event = q}

LEMMA RowsOfCount ==
  ASSUME RowsTyped, NEW q
  PROVE  /\ IsFiniteSet(RowsOf(q)) /\ Cardinality(RowsOf(q)) \in Nat
         /\ Cardinality(RowsOf(q)) = 0 <=> ~Taken(q)
<1>1. RowsOf(q) \in SUBSET DOMAIN usage
  BY DEF RowsOf
<1>2. IsFiniteSet(RowsOf(q)) /\ Cardinality(RowsOf(q)) \in Nat
  BY <1>1, RowsFinite
<1>3. Cardinality(RowsOf(q)) = 0 <=> RowsOf(q) = {}
  BY <1>2, FS_EmptySet
<1> QED
  BY <1>2, <1>3 DEF RowsOf, Taken

LEMMA RowsOfAdded ==
  ASSUME RowsTyped, NEW row, usage' = Append(usage, row)
  PROVE  \A q : Cardinality(RowsOf(q)')
                  = IF q = row.event THEN Cardinality(RowsOf(q)) + 1
                    ELSE Cardinality(RowsOf(q))
<1> DEFINE n == Len(usage)
<1>1. DOMAIN usage = 1..n /\ n \in Nat
  BY RowsTypedDomain
<1>2. /\ DOMAIN usage' = 1..(n + 1) /\ usage'[n + 1] = row
      /\ \A i \in 1..n : usage'[i] = usage[i]
  <2> HIDE DEF UsageRow
  <2>1. usage \in Seq(UsageRow)
    BY DEF RowsTyped, UsageRow
  <2> QED
    BY <2>1
<1> HIDE DEF n
<1> SUFFICES ASSUME NEW q
             PROVE  Cardinality(RowsOf(q)')
                      = IF q = row.event THEN Cardinality(RowsOf(q)) + 1
                        ELSE Cardinality(RowsOf(q))
  OBVIOUS
<1>3. \A i : i \in 1..(n + 1) <=> i \in 1..n \/ i = n + 1
  BY <1>1
<1>4. n + 1 \notin 1..n
  BY <1>1
<1>5. RowsOf(q)' = IF q = row.event THEN RowsOf(q) \cup {n + 1} ELSE RowsOf(q)
  BY <1>1, <1>2, <1>3 DEF RowsOf
<1>6. n + 1 \notin RowsOf(q)
  BY <1>1, <1>4 DEF RowsOf
<1>7. Cardinality(RowsOf(q) \cup {n + 1}) = Cardinality(RowsOf(q)) + 1
  BY <1>6, RowsOfCount, FS_AddElement
<1> QED
  BY <1>5, <1>7

\* The mapping of ImplementsDelivery.
PublishedEvents == {q \in Requests : Published(q)}
Results == [q \in Requests |-> Cardinality(RowsOf(q))]

\* What the handler runs on is due, or was sent again.
LEMMA HeldIsLive ==
  ASSUME BusTypeOK, CopiesSent, DueInv, HeldByHandler
  PROVE  inHand[Metering] \in Requests /\ Delivery!Live(inHand[Metering])
<1>1. inHand[Metering] \in Requests /\ sent[Metering] \in 0..Len(stream)
  BY BusFacts
<1>2. Published(inHand[Metering])
  BY <1>1 DEF CopiesSent, WasSent, Published
<1> QED
  BY <1>1, <1>2 DEF DueInv, LateCopyRepeated, Delivery!Due, Delivery!Live

\* A row of an event by hand is a row of no request's event.
LEMMA ResultsAfterInsert ==
  ASSUME RowsTyped, NEW row, RecordUsage(row)
  PROVE  /\ Taken(row.event) \/ row.event \notin Requests => Results' = Results
         /\ ~Taken(row.event) /\ row.event \in Requests =>
              /\ Results[row.event] = 0
              /\ Results' = [Results EXCEPT ![row.event] = @ + 1]
<1>1. CASE Taken(row.event)
  BY <1>1 DEF RecordUsage, Results, RowsOf
<1>2. CASE ~Taken(row.event)
  <2>1. \A q : Cardinality(RowsOf(q)')
                  = IF q = row.event THEN Cardinality(RowsOf(q)) + 1
                    ELSE Cardinality(RowsOf(q))
    BY <1>2, RowsOfAdded DEF RecordUsage
  <2>2. Results' = [q \in Requests |-> IF q = row.event THEN Cardinality(RowsOf(q)) + 1
                                       ELSE Cardinality(RowsOf(q))]
    BY <2>1 DEF Results
  <2>3. row.event \in Requests => Results[row.event] = 0
    BY <1>2, RowsOfCount DEF Results
  <2> QED
    BY <1>2, <2>2, <2>3 DEF Results
<1> QED
  BY <1>1, <1>2

LEMMA DeliveryStep ==
  ASSUME GatewayInv, Rest, DueInv, [Next]_vars
  PROVE  [Delivery!DeliveryNext]_(Delivery!deliveryVars)
<1> DEFINE e == inHand[Metering]
<1>1. ASSUME UNCHANGED <<stream, Results, dropped, acked, redelivered>>
      PROVE  UNCHANGED Delivery!deliveryVars
  BY <1>1 DEF Delivery!deliveryVars, Results, RowsOf, Published
<1>2. ASSUME UNCHANGED usage PROVE UNCHANGED Results
  BY <1>2 DEF Results, RowsOf
<1>3. ASSUME NEW q \in Requests, PublishEvent(q) \/ PublishFails(q)
      PROVE  Delivery!Publish(q) \/ UNCHANGED Delivery!deliveryVars
  <2>1. /\ pc[q] = "publishing" /\ UNCHANGED <<usage, dropped>>
        /\ Publish(q) \/ UNCHANGED busVars
    BY <1>3 DEF PublishEvent, PublishFails, PublishEnds, meteringVars
  <2>2. CASE Publish(q)
    <3>1. stream' = Append(stream, q) /\ UNCHANGED <<acked, redelivered>>
      BY <2>2 DEF Publish
    <3>2. /\ Len(stream') = Len(stream) + 1 /\ stream'[Len(stream) + 1] = q
          /\ \A i \in 1..Len(stream) : stream'[i] = stream[i]
      BY <3>1, BusFacts DEF Rest
    <3>3. \A r \in Requests : Published(r)' <=> Published(r) \/ r = q
      <4>1. \A i : i \in 1..Len(stream') <=> i \in 1..Len(stream) \/ i = Len(stream) + 1
        BY <3>2, BusFacts DEF Rest
      <4> QED
        BY <3>2, <4>1 DEF Published
    <3>4. ~Published(q)
      BY <2>1 DEF DueInv, PublishedInPassing
    <3>5. PublishedEvents' = PublishedEvents \cup {q} /\ q \notin PublishedEvents
      BY <3>3, <3>4 DEF PublishedEvents
    <3> QED
      BY <1>2, <2>1, <3>1, <3>5 DEF Delivery!Publish, PublishedEvents, Results, RowsOf
  <2>3. CASE UNCHANGED busVars
    BY <1>1, <1>2, <2>1, <2>3 DEF busVars
  <2> QED
    BY <2>1, <2>2, <2>3
<1>4. CASE HandleEvent
  <2>1. /\ HeldByHandler /\ UNCHANGED <<stream, acked, redelivered, dropped>>
        /\ RecordUsage(Row(e)) /\ Row(e).event = e
    BY <1>4 DEF HandleEvent, HeldByHandler, MeterEvent, busVars, Row
  <2>2. e \in Requests /\ Delivery!Live(e)
    BY <2>1, HeldIsLive DEF Rest
  <2>3. \/ Results' = Results
        \/ Results[e] = 0 /\ Results' = [Results EXCEPT ![e] = @ + 1]
    BY <2>1, <2>2, ResultsAfterInsert DEF Rest
  <2>4. CASE Results' = Results
    BY <1>1, <2>1, <2>4
  <2>5. CASE Results[e] = 0 /\ Results' = [Results EXCEPT ![e] = @ + 1]
    <3>1. Delivery!Store(e)
      BY <2>1, <2>2, <2>5 DEF Delivery!Store, Results, RowsOf, Published
    <3> QED
      BY <2>2, <3>1, Names DEF Delivery!DeliveryNext
  <2> QED
    BY <2>3, <2>4, <2>5
<1>5. CASE InsertFails
  <2>1. /\ HeldByHandler /\ UNCHANGED <<stream, acked, redelivered, usage>>
        /\ dropped' = IF Taken(e) THEN dropped ELSE dropped \cup {e}
    BY <1>5 DEF InsertFails, HeldByHandler, MeterEventFails, busVars, Row
  <2>2. e \in Requests /\ Delivery!Live(e)
    BY <2>1, HeldIsLive DEF Rest
  <2>3. CASE Taken(e)
    BY <1>1, <1>2, <2>1, <2>3
  <2>4. CASE ~Taken(e)
    <3>1. Results[e] = 0 /\ UNCHANGED Results
      BY <1>2, <2>1, <2>2, <2>4, RowsOfCount DEF Results, Rest
    <3>2. Delivery!PassOver(e)
      BY <2>1, <2>2, <2>4, <3>1 DEF Delivery!PassOver, Results, RowsOf, Published
    <3> QED
      BY <2>2, <3>2, Names DEF Delivery!DeliveryNext
  <2> QED
    BY <2>3, <2>4
<1>6. CASE Settle
  <2>1. /\ handled /\ UNCHANGED <<stream, usage, dropped, redelivered>>
        /\ acked' = [acked EXCEPT ![Metering] = @ \cup {e}]
    BY <1>6 DEF Settle, Ack, Release
  <2>2. HeldByHandler /\ (Metered(e) \/ e \in dropped)
    BY <2>1 DEF Rest, NothingLostYet, HandledIsMetered
  <2>3. e \in Requests /\ Published(e)
    <3>1. e \in Requests /\ sent[Metering] \in 0..Len(stream)
      BY <2>2, BusFacts DEF Rest
    <3> QED
      BY <2>2, <3>1 DEF Rest, CopiesSent, WasSent, Published
  <2>4. acked \in [Consumers -> SUBSET Requests] /\ Metering \in Consumers
    BY Names DEF Rest, BusTypeOK
  <2>5. Results[e] > 0 \/ e \in dropped
    BY <2>2, <2>3, RowsOfCount DEF Rest, Results, Metered, Taken
  <2>6. CASE e \in acked[Metering]
    <3>1. acked' = acked
      BY <2>1, <2>4, <2>6
    <3> QED
      BY <1>1, <1>2, <2>1, <3>1
  <2>7. CASE e \notin acked[Metering]
    <3>1. acked'[Metering] = acked[Metering] \cup {e}
      BY <2>1, <2>4
    <3>2. Delivery!Settle(e)
      BY <1>2, <2>1, <2>3, <2>5, <2>7, <3>1
      DEF Delivery!Settle, Delivery!Due, Results, RowsOf, Published
    <3> QED
      BY <2>3, <3>2, Names DEF Delivery!DeliveryNext
  <2> QED
    BY <2>6, <2>7
<1>7. CASE ApiStep
  <2>1. UNCHANGED busVars
    BY <1>7 DEF ApiStep
  <2>2. ASSUME NEW id \in ManualIds, NEW q \in Requests, NEW date \in PostedDates,
               PostUsage(PostedRow(id, q, date))
        PROVE  UNCHANGED <<Results, dropped>>
    <3>1. /\ RecordUsage(PostedRow(id, q, date))
          /\ PostedRow(id, q, date).event = id /\ id \notin Requests
      BY <2>2, Names DEF PostUsage, PostedRow
    <3> QED
      BY <2>2, <3>1, ResultsAfterInsert DEF PostUsage, Rest
  <2>3. ASSUME NEW period \in Periods, ReadUsage(period)
        PROVE  UNCHANGED <<usage, dropped>>
    BY <2>3 DEF ReadUsage
  <2>4. ASSUME NEW i \in DOMAIN statements, StoreStatement(i)
        PROVE  UNCHANGED <<usage, dropped>>
    BY <2>4 DEF StoreStatement
  <2> QED
    BY <1>1, <1>2, <1>7, <2>1, <2>2, <2>3, <2>4 DEF ApiStep, busVars
<1>8. CASE DeliverEvent /\ Redeliver(Metering)
  <2>1. PICK e1 \in Requests :
          /\ WasSent(e1) /\ e1 \notin acked[Metering]
          /\ redelivered'[Metering] = redelivered[Metering] \cup {e1}
          /\ UNCHANGED <<stream, acked>>
    BY <1>8, RedeliverFacts DEF Rest
  <2>2. Published(e1)
    <3>1. sent[Metering] \in 0..Len(stream)
      BY BusFacts DEF Rest
    <3> QED
      BY <2>1, <3>1 DEF WasSent, Published
  <2>3. UNCHANGED <<usage, dropped>>
    BY <1>8 DEF DeliverEvent, meteringVars
  <2>4. Delivery!Repeat(e1)
    BY <1>2, <2>1, <2>2, <2>3 DEF Delivery!Repeat, Delivery!Due, Results, RowsOf, Published
  <2> QED
    BY <2>1, <2>4, Names DEF Delivery!DeliveryNext
<1>9. CASE DeliverEvent /\ ~Redeliver(Metering)
  <2>1. UNCHANGED <<stream, usage, dropped, acked, redelivered>>
    BY <1>9 DEF DeliverEvent, Deliver, Take, meteringVars
  <2> QED
    BY <1>1, <1>2, <2>1
<1>10. CASE AckLost \/ MeteringRestarts
  <2>1. UNCHANGED <<stream, usage, dropped, acked, redelivered>>
    BY <1>10 DEF AckLost, Nak, Release, MeteringRestarts, RestartMetering, Reconnect
  <2> QED
    BY <1>1, <1>2, <2>1
<1>11. CASE GatewayStep \/ GatewayRestarts \/ UNCHANGED vars
  BY <1>1, <1>2, <1>11 DEF GatewayStep, GatewayRestarts, vars, busVars, meteringVars
<1> QED
  BY <1>3, <1>4, <1>5, <1>6, <1>7, <1>8, <1>9, <1>10, <1>11, Names
  DEF Next, Delivery!DeliveryNext

\* Bus and metering service deliver at least once and meter at most once: for any number
\* of requests, restarts, failed publishes and inserts and lost acknowledgements.
THEOREM PipelineImplementsDelivery == Spec => ImplementsDelivery
<1>1. Init => DueInv /\ Delivery!DeliveryInit
  <2> SUFFICES ASSUME Init PROVE DueInv /\ Delivery!DeliveryInit
    OBVIOUS
  <2>1. /\ stream = <<>> /\ Len(stream) = 0 /\ acked[Metering] = {}
        /\ inHand[Metering] = NoEvent /\ usage = <<>> /\ dropped = {}
        /\ redelivered[Metering] = {} /\ Len(buffer[Metering]) = 0
    BY Names DEF Init, BusInit, MeteringInit
  <2>2. \A q \in Requests : ~Published(q) /\ RowsOf(q) = {}
    BY <2>1 DEF Published, RowsOf
  <2>3. DueInv
    BY <2>1, <2>2 DEF DueInv, PublishedInPassing, AckedIsSent, OneCopy, LateCopyRepeated,
                          HeldByHandler
  <2>4. PublishedEvents = {} /\ Results = [q \in Requests |-> 0]
    BY <2>2, FS_EmptySet DEF PublishedEvents, Results
  <2> QED
    BY <2>1, <2>3, <2>4, Names DEF Delivery!DeliveryInit, PublishedEvents, Results, RowsOf
<1> QED
  BY <1>1, DueStep, DeliveryStep, PipelineInvariant, PTL
  DEF Spec, ImplementsDelivery, Delivery!DeliverySpec

=============================================================================
