---------------------------- MODULE PBFTLedgerProofs ----------------------------
(***************************************************************************)
(* PBFT implements the Ledger for as long as nobody leaves view 0, and so  *)
(* inherits that no operation is applied twice.  The Ledger says nothing   *)
(* of messages; the invariant says what they guarantee in view 0: the      *)
(* primary has proposed exactly the numbers up to the one it has issued,   *)
(* each for a request of its own; what a node commits was proposed; and    *)
(* every checkpoint is one of view 0, so that flushing the log up to it    *)
(* clears no later slot.                                                   *)
(*                                                                         *)
(* The same facts say what the first NewView carries on.  A node keeps a   *)
(* slot it has committed to prepared until a checkpoint covers it, commits *)
(* to no more once it has asked for another view, and so proves in its     *)
(* view change all it has committed to; the leader proposes again, with    *)
(* its request, whatever number has a proof and is after the checkpoints.  *)
(***************************************************************************)
EXTENDS PBFTLedger, PBFTViewProofs

LP == INSTANCE LedgerProofs WITH
        chosen   <- Chosen,
        known    <- KnownNumbers,
        executed <- ExecutedNumbers,
        reached  <- sequenceNumber,
        stable   <- LastStable,
        taken    <- SnapshotsTaken,
        halted   <- Halted

ProposalsOfPrimary ==
    \A pp \in sentPrePrepares :
        /\ pp.number.viewNumber = 0 /\ pp.number.seqNumber \in 2..MaxSeq
        /\ pp.request \in requests[FirstPrimary]

AllIssued == \A s \in 2..issuedSequenceNumber[FirstPrimary] : ProposedFor(s) # {}

NumberedOnce ==
    \A pp, qq \in sentPrePrepares : pp.request = qq.request => pp.number = qq.number

CommittedProposed ==
    \A n \in Nodes, s \in 2..MaxSeq : log[n][FirstView(s)].committed => ProposedFor(s) # {}

CheckpointsOfFirstView ==
    /\ \A m \in sentCheckpoints : m.number.viewNumber = 0
    /\ \A n \in Nodes : \A m \in InChannel(snapshots[n]) : m.number.viewNumber = 0

FirstViewFacts ==
    /\ sentNewViews = {}
    /\ ProposalsOfPrimary /\ AllIssued /\ NumberedOnce
    /\ CommittedProposed /\ CheckpointsOfFirstView

ClusterInv == CertificateInv /\ CheckpointInv /\ AgreementInv /\ ViewInv

FirstViewInv == ClusterInv /\ (InFirstView => FirstViewFacts)

-----------------------------------------------------------------------------
\* The slot number of a number of view 0.
LEMMA FirstViewType ==
    ASSUME NEW s \in 2..MaxSeq
    PROVE  /\ s \in Int /\ FirstView(s) \in SlotIds
           /\ FirstView(s).viewNumber = 0 /\ FirstView(s).seqNumber = s
<1>1. 0 \in 0..MaxView /\ s \in 0..MaxSeq
    BY BoundsAssumption
<1>. QED
    BY <1>1, SlotIdType DEF FirstView

\* A slot number of view 0 is that of its number.
LEMMA FirstViewOf ==
    ASSUME NEW id \in SlotIds, id.viewNumber = 0
    PROVE  id = FirstView(id.seqNumber)
BY DEF SlotIds, FirstView, SlotId

\* The primary of view 0 leads every node that has not left it.
LEMMA PrimaryOfFirstView ==
    ASSUME InFirstView, NEW n \in Nodes
    PROVE  IsPrimary(n) <=> n = FirstPrimary
BY DEF InFirstView, IsPrimary, FirstPrimary

\* In a cluster that stays in view 0 no backup enters the view of a NewView,
LEMMA NoBackupEnters ==
    ASSUME ClusterInv, InFirstView', NEW rpc \in rpcs, rpc.kind = "NewView"
    PROVE  ~(AcceptsNewView(rpc.to, rpc.body) /\ enterNewView(rpc.to, rpc.body.viewNumber))
<1>1. TypeOK
    BY DEF ClusterInv, AgreementInv
<1>2. rpc.to \in Nodes /\ rpc.body \in NewView
    BY <1>1, RpcType DEF TypeOK
<1>3. SUFFICES ASSUME AcceptsNewView(rpc.to, rpc.body),
                      viewNumber' = [viewNumber EXCEPT ![rpc.to] = rpc.body.viewNumber]
               PROVE  FALSE
    BY DEF enterNewView
<1>4. rpc.body.viewNumber \in Int /\ CurrentView(rpc.to) \in Nat
    BY <1>1, <1>2, CurrentViewType DEF NewView
<1>5. rpc.body.viewNumber >= 1
    BY <1>2, <1>3, <1>4 DEF AcceptsNewView, ClusterInv, AgreementInv, ChangesLater
<1>6. viewNumber'[rpc.to] = rpc.body.viewNumber
    BY <1>1, <1>2, <1>3 DEF TypeOK, LedgerType
<1>. QED
    BY <1>2, <1>5, <1>6 DEF InFirstView

\* and no primary the one it is asked for.
LEMMA NoPrimaryEnters ==
    ASSUME ClusterInv, InFirstView', NEW packet \in inFlight, handleViewChange(packet)
    PROVE  ~enterNewView(packet.to, packet.message.viewNumber)
<1>1. TypeOK
    BY DEF ClusterInv, AgreementInv
<1>2. packet.to \in Nodes /\ packet.message.viewNumber >= 1
    BY <1>1, PacketType DEF ClusterInv, AgreementInv, PacketsProposed, PacketProposed,
        handleViewChange, Delivered, TypeOK
<1>3. SUFFICES ASSUME viewNumber' = [viewNumber EXCEPT ![packet.to] = packet.message.viewNumber]
               PROVE  FALSE
    BY DEF enterNewView
<1>4. viewNumber'[packet.to] = packet.message.viewNumber
    BY <1>1, <1>2, <1>3 DEF TypeOK, LedgerType
<1>. QED
    BY <1>2, <1>4 DEF InFirstView

\* The steps of a cluster that stays in view 0.
LEMMA FirstViewStep ==
    ASSUME ClusterInv, [Next]_vars, InFirstView, InFirstView'
    PROVE  \/ \E n \in Nodes, r \in Requests : \E done :
                 Running(n) /\ handleClientRequest(n, r, done)
           \/ \E n \in Nodes, pp \in PrePrepare : \E done :
                 /\ Running(n) /\ handlePrePrepare(n, pp, done)
                 /\ pp.number.viewNumber = 0 /\ pp.number.seqNumber # 0 =>
                       pp \in sentPrePrepares
           \/ \E packet \in inFlight :
                 handlePrepare(packet) \/ handleCommit(packet) \/ handleCheckpoint(packet)
           \/ \E n \in Nodes : handleRecvSnapshot(n) \/ SendHeartbeat(n)
           \/ \E rpc \in rpcs : /\ rpc.kind = "CheckpointProof" /\ Running(rpc.to)
                                /\ handleCheckpointProof(rpc.to, rpc.body)
           \/ UNCHANGED <<log, sequenceNumber, issuedSequenceNumber, requests, lastCheckpoint,
                          mainLoop, keyVars, sentPrePrepares, sentCheckpoints, sentNewViews>>
<1>1. TypeOK
    BY DEF ClusterInv, AgreementInv
<1>2. ASSUME NEW packet \in inFlight, ClientRequest(packet)
      PROVE  \E n \in Nodes, r \in Requests : \E done :
                 Running(n) /\ handleClientRequest(n, r, done)
    <2>1. packet.to \in Nodes /\ packet.message.request \in Requests
        BY <1>1, <1>2, PacketType DEF TypeOK, ClientRequest, Delivered, ForwardedRequest
    <2>. QED
        BY <1>2, <2>1 DEF ClientRequest, Delivered
<1>3. ASSUME NEW packet \in inFlight, PrePrepareReceived(packet)
      PROVE  \E n \in Nodes, pp \in PrePrepare : \E done :
                 /\ Running(n) /\ handlePrePrepare(n, pp, done)
                 /\ pp.number.viewNumber = 0 /\ pp.number.seqNumber # 0 =>
                       pp \in sentPrePrepares
    <2>1. packet.to \in Nodes /\ packet.message \in PrePrepare
        BY <1>1, <1>3, PacketType DEF TypeOK, PrePrepareReceived, Delivered
    <2>2. packet.message \in sentPrePrepares
        BY <1>3 DEF PrePrepareReceived, Delivered, ClusterInv, AgreementInv, PacketsProposed,
            PacketProposed
    <2>. QED
        BY <1>3, <2>1, <2>2 DEF PrePrepareReceived, Delivered
<1>4. ASSUME NEW rpc \in rpcs, rpc.kind = "PrePrepare", Running(rpc.to),
             handlePrePrepare(rpc.to, rpc.body, {})
      PROVE  \E n \in Nodes, pp \in PrePrepare : \E done :
                 /\ Running(n) /\ handlePrePrepare(n, pp, done)
                 /\ pp.number.viewNumber = 0 /\ pp.number.seqNumber # 0 =>
                       pp \in sentPrePrepares
    <2>1. rpc.to \in Nodes /\ rpc.body \in PrePrepare
        BY <1>1, <1>4, RpcType DEF TypeOK
    <2>2. rpc.body.number.viewNumber = 0 /\ rpc.body.number.seqNumber # 0 =>
              rpc.body \in sentPrePrepares
        BY <1>4 DEF ClusterInv, AgreementInv, ResentAsProposed
    <2>. QED
        BY <1>4, <2>1, <2>2
<1>. DEFINE Silent == UNCHANGED <<log, sequenceNumber, issuedSequenceNumber, requests,
                          lastCheckpoint, mainLoop, keyVars, sentPrePrepares,
                          sentCheckpoints, sentNewViews>>
<1>5. ASSUME NEW rpc \in rpcs, rpc.kind = "NewView", handleNewView(rpc.to, rpc.body)
      PROVE  Silent
    <2>1. ~(AcceptsNewView(rpc.to, rpc.body) /\ enterNewView(rpc.to, rpc.body.viewNumber))
        BY <1>5, NoBackupEnters
    <2>. QED
        BY <1>5, <2>1 DEF handleNewView, EnterAsBackup, viewChangeFrame, checkpointVars,
            keyVars, changeMessageVars
<1>6. ASSUME NEW packet \in inFlight, handleViewChange(packet)
      PROVE  Silent
    <2>1. ~LeadNewView(packet.to, packet.message.viewNumber,
                       Received(packet.to, packet.message))
        BY <1>6, NoPrimaryEnters DEF LeadNewView, AnnounceView
    <2>. QED
        BY <1>6, <2>1 DEF handleViewChange, viewChangeFrame, checkpointVars, keyVars,
            changeMessageVars
<1>7. ASSUME \/ \E n \in Nodes : Timeout(n) \/ DebugDown(n) \/ DebugUp(n)
             \/ \E rpc \in rpcs : RpcArrives(rpc) \/ RpcReturns(rpc) \/ RpcTimesOut(rpc)
             \/ UNCHANGED vars
      PROVE  Silent
    BY <1>7 DEF Timeout, DebugDown, DebugUp, debugFrame, normalFrame, RpcArrives, RpcReturns,
        RpcTimesOut, rpcFrame, vars, ledgerVars, checkpointVars, keyVars, normalMessages,
        changeMessageVars
<1>. HIDE DEF Silent
<1>8. ASSUME NEW rpc \in rpcs, RpcHandled(rpc)
      PROVE  \/ rpc.kind = "NewView" /\ handleNewView(rpc.to, rpc.body)
             \/ /\ rpc.kind = "PrePrepare" /\ Running(rpc.to)
                /\ handlePrePrepare(rpc.to, rpc.body, {})
             \/ /\ rpc.kind = "CheckpointProof" /\ Running(rpc.to)
                /\ handleCheckpointProof(rpc.to, rpc.body)
    BY <1>8 DEF RpcHandled
<1>9. ASSUME NEW n \in Nodes, NEW r \in Requests, Propose(n, r)
      PROVE  Running(n) /\ handleClientRequest(n, r, {})
    BY <1>9 DEF Propose
<1>10. Next \/ UNCHANGED vars
    OBVIOUS
<1>11. CASE Silent
    BY <1>11 DEF Silent
<1>. QED
    BY <1>2, <1>3, <1>4, <1>5, <1>6, <1>7, <1>8, <1>9, <1>10, <1>11 DEF Next

-----------------------------------------------------------------------------
(* The facts of view 0, step by step. *)

\* What a step must do for the facts about proposals to survive it if it proposes
\* nothing.
LEMMA NothingProposed ==
    ASSUME FirstViewFacts, UNCHANGED <<sentPrePrepares, sentNewViews>>,
           requests[FirstPrimary] \subseteq requests'[FirstPrimary],
           issuedSequenceNumber'[FirstPrimary] = issuedSequenceNumber[FirstPrimary],
           \A n \in Nodes, id \in SlotIds : log'[n][id].committed =>
               log[n][id].committed \/ \E pp \in sentPrePrepares : pp.number = id,
           CheckpointsOfFirstView'
    PROVE  FirstViewFacts'
<1>1. UNCHANGED FirstPrimary
    BY DEF FirstPrimary
<1>2. \A s : ProposedFor(s)' = ProposedFor(s)
    BY DEF ProposedFor, FirstView, SlotId
<1>3. ProposalsOfPrimary' /\ AllIssued' /\ NumberedOnce'
    BY <1>1, <1>2 DEF FirstViewFacts, ProposalsOfPrimary, AllIssued, NumberedOnce
<1>4. CommittedProposed'
    <2>1. SUFFICES ASSUME NEW n \in Nodes, NEW s \in 2..MaxSeq, log'[n][FirstView(s)].committed
                   PROVE  ProposedFor(s)' # {}
        BY DEF CommittedProposed, FirstView, SlotId
    <2>2. FirstView(s) \in SlotIds
        BY FirstViewType
    <2>3. CASE log[n][FirstView(s)].committed
        BY <1>2, <2>3 DEF FirstViewFacts, CommittedProposed
    <2>4. CASE \E pp \in sentPrePrepares : pp.number = FirstView(s)
        BY <1>2, <2>4 DEF ProposedFor
    <2>. QED
        BY <2>1, <2>2, <2>3, <2>4
<1>. QED
    BY <1>3, <1>4 DEF FirstViewFacts

\* Steps that take no checkpoint, and sign none.
LEMMA SameCheckpoints ==
    ASSUME FirstViewFacts, UNCHANGED <<sentCheckpoints, snapshots>>
    PROVE  CheckpointsOfFirstView'
BY DEF FirstViewFacts, CheckpointsOfFirstView, InChannel

\* The primary's next proposal has a number of its own, and no request it has seen.
LEMMA ProposalFacts ==
    ASSUME ClusterInv, FirstViewFacts, InFirstView, NEW n \in Nodes, NEW r \in Requests,
           NEW done, IsNew(n, r), PrimaryProposes(n, r, done)
    PROVE  /\ n = FirstPrimary
           /\ \A qq \in sentPrePrepares : qq.request # r
           /\ \E s \in 2..MaxSeq, pp \in sentPrePrepares' :
                 /\ s = issuedSequenceNumber[FirstPrimary] + 1
                 /\ issuedSequenceNumber' = [issuedSequenceNumber EXCEPT ![n] = s]
                 /\ log' = [log EXCEPT ![n][FirstView(s)] = ProposedSlot(r, r)]
                 /\ sentPrePrepares' = sentPrePrepares \cup {pp}
                 /\ pp.number = FirstView(s) /\ pp.request = r
                 /\ ProposedFor(s) = {}
<1>1. TypeOK /\ n = FirstPrimary /\ viewNumber[n] = 0
    BY PrimaryOfFirstView DEF ClusterInv, AgreementInv, InFirstView, PrimaryProposes
<1>. DEFINE s == issuedSequenceNumber[FirstPrimary] + 1
<1>2. SlotId(viewNumber[n], NextNumber(n)) = FirstView(s)
    BY <1>1 DEF FirstView, NextNumber
<1>3. s \in 2..MaxSeq
    BY <1>1, BoundsAssumption DEF PrimaryProposes, TypeOK, LedgerType
<1>4. FirstView(s).seqNumber = s /\ FirstView(s).viewNumber = 0
    BY <1>3, FirstViewType
<1>5. ProposedFor(s) = {}
    <2>1. ASSUME NEW qq \in sentPrePrepares, qq.number = FirstView(s)
          PROVE  FALSE
        <3>1. qq.number.seqNumber <= issuedSequenceNumber[FirstPrimary]
            BY <1>4, <2>1 DEF ClusterInv, AgreementInv, IssuedByPrimary
        <3>. QED
            BY <1>1, <1>3, <1>4, <2>1, <3>1, BoundsAssumption DEF TypeOK, LedgerType
    <2>. QED
        BY <2>1 DEF ProposedFor
<1>6. \A qq \in sentPrePrepares : qq.request # r
    BY <1>1 DEF FirstViewFacts, ProposalsOfPrimary, IsNew
<1>. DEFINE pp == [number |-> FirstView(s), digest |-> r, request |-> r, signer |-> n]
<1>7. /\ issuedSequenceNumber' = [issuedSequenceNumber EXCEPT ![n] = s]
      /\ log' = [log EXCEPT ![n][FirstView(s)] = ProposedSlot(r, r)]
      /\ sentPrePrepares' = sentPrePrepares \cup {pp}
    BY <1>2, <1>4 DEF PrimaryProposes
<1>8. pp \in sentPrePrepares' /\ pp.number = FirstView(s) /\ pp.request = r
    BY <1>7
<1>9. s = issuedSequenceNumber[FirstPrimary] + 1
    OBVIOUS
<1>. HIDE DEF s, pp
<1>. QED
    BY <1>1, <1>3, <1>5, <1>6, <1>7, <1>8, <1>9

\* The primary takes a request, or a backup forwards it.
LEMMA handleClientRequestFacts ==
    ASSUME ClusterInv, FirstViewFacts, InFirstView, NEW n \in Nodes, NEW r \in Requests,
           NEW done, handleClientRequest(n, r, done)
    PROVE  FirstViewFacts'
<1>1. TypeOK /\ FirstPrimary \in Nodes
    BY FirstPrimaryType DEF ClusterInv, AgreementInv
<1>2. UNCHANGED <<sentNewViews, sentCheckpoints, snapshots>> /\ IsNew(n, r)
    BY DEF handleClientRequest, normalFrame, keyVars
<1>3. requests[FirstPrimary] \subseteq requests'[FirstPrimary]
      /\ (n = FirstPrimary => r \in requests'[FirstPrimary])
    BY <1>1 DEF handleClientRequest, TypeOK, LedgerType
<1>4. CheckpointsOfFirstView'
    BY <1>2, SameCheckpoints
<1>5. CASE BackupForwards(n, r, done)
    <2>1. UNCHANGED <<issuedSequenceNumber, log, sentPrePrepares>>
        BY <1>5 DEF BackupForwards
    <2>. QED
        BY <1>2, <1>3, <1>4, <2>1, NothingProposed
<1>6. CASE PrimaryProposes(n, r, done)
    <2>0. n = FirstPrimary /\ \A qq \in sentPrePrepares : qq.request # r
        BY <1>2, <1>6, ProposalFacts
    <2>1. PICK s \in 2..MaxSeq, pp \in sentPrePrepares' :
             /\ s = issuedSequenceNumber[FirstPrimary] + 1
             /\ issuedSequenceNumber' = [issuedSequenceNumber EXCEPT ![n] = s]
             /\ log' = [log EXCEPT ![n][FirstView(s)] = ProposedSlot(r, r)]
             /\ sentPrePrepares' = sentPrePrepares \cup {pp}
             /\ pp.number = FirstView(s) /\ pp.request = r
             /\ ProposedFor(s) = {}
        BY <1>2, <1>6, ProposalFacts
    <2>2. /\ FirstView(s).viewNumber = 0 /\ FirstView(s).seqNumber = s
          /\ FirstView(s) \in SlotIds
        BY <2>1, FirstViewType
    <2>3. issuedSequenceNumber'[FirstPrimary] = s
        BY <1>1, <2>0, <2>1 DEF TypeOK, LedgerType
    <2>4. issuedSequenceNumber[FirstPrimary] \in Int
        BY <1>1, BoundsAssumption DEF TypeOK, LedgerType
    <2>5. \A t : ProposedFor(t) \subseteq ProposedFor(t)'
        BY <2>1 DEF ProposedFor, FirstView, SlotId
    <2>6. ProposedFor(s)' # {}
        BY <2>1, <2>2 DEF ProposedFor, FirstView, SlotId
    <2>7. ProposalsOfPrimary'
        BY <1>3, <2>0, <2>1, <2>2 DEF FirstViewFacts, ProposalsOfPrimary, FirstPrimary
    <2>8. AllIssued'
        <3>1. ASSUME NEW t \in 2..s
              PROVE  ProposedFor(t)' # {}
            <4>1. t = s \/ t \in 2..issuedSequenceNumber[FirstPrimary]
                BY <2>1, <2>4
            <4>. QED
                BY <2>5, <2>6, <4>1 DEF FirstViewFacts, AllIssued
        <3>. QED
            BY <2>3, <3>1 DEF AllIssued, FirstPrimary
    <2>9. NumberedOnce'
        BY <2>0, <2>1 DEF FirstViewFacts, NumberedOnce
    <2>10. CommittedProposed'
        <3>1. SUFFICES ASSUME NEW p \in Nodes, NEW t \in 2..MaxSeq,
                              log'[p][FirstView(t)].committed
                       PROVE  ProposedFor(t)' # {}
            BY DEF CommittedProposed, FirstView, SlotId
        <3>2. FirstView(t) \in SlotIds
            BY FirstViewType
        <3>3. ~ProposedSlot(r, r).committed
            BY DEF ProposedSlot, EmptySlot
        <3>4. log[p][FirstView(t)].committed
            BY <1>1, <2>1, <2>2, <3>1, <3>2, <3>3 DEF TypeOK, LedgerType
        <3>. QED
            BY <2>5, <3>4 DEF FirstViewFacts, CommittedProposed
    <2>. QED
        BY <1>2, <1>4, <2>7, <2>8, <2>9, <2>10 DEF FirstViewFacts
<1>. QED
    BY <1>5, <1>6 DEF handleClientRequest

\* A backup handles a pre-prepare: it does not commit.
LEMMA handlePrePrepareFacts ==
    ASSUME ClusterInv, FirstViewFacts, InFirstView, NEW n \in Nodes, NEW pp \in PrePrepare,
           NEW done, handlePrePrepare(n, pp, done)
    PROVE  FirstViewFacts'
<1>1. TypeOK /\ pp.number \in SlotIds
    BY DEF ClusterInv, AgreementInv, PrePrepare
<1>2. /\ UNCHANGED <<sentPrePrepares, sentNewViews, requests>>
      /\ UNCHANGED <<sentCheckpoints, snapshots>>
    BY DEF handlePrePrepare, normalFrame, keyVars
<1>3. CASE UNCHANGED <<log, issuedSequenceNumber>>
    BY <1>2, <1>3, SameCheckpoints, NothingProposed
<1>4. CASE /\ HearsHeartbeat(n, pp)
           /\ log' = [log EXCEPT ![n][pp.number] = AcceptedSlot(n, @, pp.request, pp.digest)]
           /\ issuedSequenceNumber' =
                [issuedSequenceNumber EXCEPT ![n] = Larger(@, pp.number.seqNumber)]
    <2>1. n # FirstPrimary
        BY <1>4, PrimaryOfFirstView DEF HearsHeartbeat
    <2>2. issuedSequenceNumber'[FirstPrimary] = issuedSequenceNumber[FirstPrimary]
        BY <1>1, <1>4, <2>1, FirstPrimaryType DEF TypeOK, LedgerType
    <2>3. AcceptedSlot(n, log[n][pp.number], pp.request, pp.digest).committed
            = log[n][pp.number].committed
        BY <1>1 DEF AcceptedSlot, TypeOK, LedgerType, Slot
    <2>4. \A p \in Nodes, id \in SlotIds : log'[p][id].committed => log[p][id].committed
        BY <1>1, <1>4, <2>3 DEF TypeOK, LedgerType
    <2>. QED
        BY <1>2, <2>2, <2>4, SameCheckpoints, NothingProposed
<1>. QED
    BY <1>3, <1>4 DEF handlePrePrepare

\* What votes do to the fields of a slot that say more than who has voted.
LEMMA CountedSlot ==
    ASSUME NEW slot \in Slot, NEW p
    PROVE  /\ CountPrepare(slot, p).request = slot.request
           /\ CountPrepare(slot, p).committed = slot.committed
           /\ CountCommit(slot, p).request = slot.request
           /\ CountCommit(slot, p).committed = slot.committed
           /\ CountCommit(CountPrepare(slot, p), p).request = slot.request
           /\ [CountCommit(slot, p) EXCEPT !.committed = TRUE].request = slot.request
           /\ [CountCommit(slot, p) EXCEPT !.committed = TRUE].committed
           /\ \A q : /\ CountCommit(CountPrepare(slot, p), q).request = slot.request
                     /\ CountCommit(CountPrepare(slot, p), q).committed = slot.committed
BY DEF CountPrepare, CountCommit, Slot

\* A prepare changes no slot but in its votes.
LEMMA PreparedLog ==
    ASSUME TypeOK, NEW packet \in inFlight, handlePrepare(packet)
    PROVE  \A n \in Nodes, id \in SlotIds : /\ log'[n][id].request = log[n][id].request
                                            /\ log'[n][id].committed = log[n][id].committed
<1>. DEFINE n == packet.to
            id == packet.message.number
            slot == CountPrepare(log[n][id], packet.message.node)
<1>1. n \in Nodes /\ id \in SlotIds
    <2>1. packet \in Packet /\ packet.kind = "Prepare"
        BY DEF TypeOK, handlePrepare, Delivered
    <2>. QED
        BY <2>1, PacketType DEF Prepare
<1>2. log[n][id] \in Slot
    BY <1>1 DEF TypeOK, LedgerType
<1>3. \E new : /\ log' = [log EXCEPT ![n][id] = new]
               /\ new.request = log[n][id].request /\ new.committed = log[n][id].committed
    <2>1. \/ log' = [log EXCEPT ![n][id] = slot]
          \/ log' = [log EXCEPT ![n][id] = CountCommit(slot, n)]
        BY DEF handlePrepare
    <2>2. /\ slot.request = log[n][id].request /\ slot.committed = log[n][id].committed
          /\ CountCommit(slot, n).request = log[n][id].request
          /\ CountCommit(slot, n).committed = log[n][id].committed
        BY <1>2, CountedSlot
    <2>. HIDE DEF slot, n, id
    <2>. QED
        BY <2>1, <2>2
<1>. HIDE DEF n, id
<1>. QED
    BY <1>1, <1>3 DEF TypeOK, LedgerType

\* A commit is for a slot that the primary has proposed.
LEMMA CommitOfFirstView ==
    ASSUME ClusterInv, FirstViewFacts, NEW packet \in inFlight, handleCommit(packet)
    PROVE  LET id == packet.message.number IN
           /\ packet.to \in Nodes /\ id \in SlotIds
           /\ id.viewNumber = 0 /\ id.seqNumber \in 2..MaxSeq
           /\ id = FirstView(id.seqNumber)
           /\ \E pp \in sentPrePrepares : pp.number = id
<1>1. TypeOK /\ packet.kind = "Commit" /\ packet \in Packet
    BY DEF ClusterInv, AgreementInv, TypeOK, handleCommit, Delivered
<1>2. packet.to \in Nodes /\ packet.message.number \in SlotIds
    BY <1>1, PacketType DEF Commit
<1>3. packet.message \in sentCommits
    BY <1>1 DEF ClusterInv, CertificateInv, PacketsBacked, PacketBacked
<1>4. PICK pp \in sentPrePrepares : pp.number = packet.message.number
    <2>1. \E pp \in Proposed : pp.number = packet.message.number
        BY <1>3 DEF ClusterInv, CertificateInv, CommitCertificate
    <2>. QED
        BY <2>1 DEF Proposed, FirstViewFacts
<1>5. packet.message.number.viewNumber = 0 /\ packet.message.number.seqNumber \in 2..MaxSeq
    BY <1>4 DEF FirstViewFacts, ProposalsOfPrimary
<1>. QED
    BY <1>2, <1>4, <1>5, FirstViewOf

\* What is in a channel, from the start and to the end.
LEMMA ChannelEnds ==
    ASSUME NEW S, NEW queue \in Seq(S)
    PROVE  /\ \A m \in S : InChannel(Append(queue, m)) = InChannel(queue) \cup {m}
           /\ queue # <<>> =>
                  /\ Head(queue) \in InChannel(queue)
                  /\ InChannel(queue) = InChannel(Tail(queue)) \cup {Head(queue)}
<1>1. Len(queue) \in Nat /\ DOMAIN queue = 1..Len(queue)
    OBVIOUS
<1>2. ASSUME NEW m \in S
      PROVE  InChannel(Append(queue, m)) = InChannel(queue) \cup {m}
    <2>1. /\ DOMAIN Append(queue, m) = 1..(Len(queue) + 1)
          /\ \A i \in 1..(Len(queue) + 1) :
                Append(queue, m)[i] = IF i <= Len(queue) THEN queue[i] ELSE m
        OBVIOUS
    <2>2. /\ \A i \in 1..Len(queue) : i \in 1..(Len(queue) + 1) /\ Append(queue, m)[i] = queue[i]
          /\ Len(queue) + 1 \in 1..(Len(queue) + 1) /\ Append(queue, m)[Len(queue) + 1] = m
          /\ \A i \in 1..(Len(queue) + 1) : i \in 1..Len(queue) \/ Append(queue, m)[i] = m
        BY <1>1, <2>1
    <2>. QED
        BY <1>1, <2>1, <2>2 DEF InChannel
<1>3. ASSUME queue # <<>>
      PROVE  /\ Head(queue) \in InChannel(queue)
             /\ InChannel(queue) = InChannel(Tail(queue)) \cup {Head(queue)}
    <2>1. /\ Head(queue) = queue[1] /\ 1 \in 1..Len(queue)
          /\ DOMAIN Tail(queue) = 1..(Len(queue) - 1)
          /\ \A i \in 1..(Len(queue) - 1) : Tail(queue)[i] = queue[i + 1]
        BY <1>1, <1>3
    <2>2. /\ \A i \in 1..(Len(queue) - 1) : i + 1 \in 1..Len(queue)
          /\ \A i \in 1..Len(queue) : i # 1 => i - 1 \in 1..(Len(queue) - 1)
                                               /\ queue[i] = Tail(queue)[i - 1]
        BY <1>1, <2>1
    <2>3. ASSUME NEW i \in DOMAIN queue
          PROVE  queue[i] \in InChannel(Tail(queue)) \cup {Head(queue)}
        <3>1. CASE i = 1
            BY <2>1, <3>1
        <3>2. CASE i # 1
            BY <1>1, <2>1, <2>2, <3>2 DEF InChannel
        <3>. QED
            BY <3>1, <3>2
    <2>4. ASSUME NEW i \in DOMAIN Tail(queue)
          PROVE  Tail(queue)[i] \in InChannel(queue)
        BY <1>1, <2>1, <2>2 DEF InChannel
    <2>5. Head(queue) \in InChannel(queue)
        BY <1>1, <2>1 DEF InChannel
    <2>6. InChannel(queue) \subseteq InChannel(Tail(queue)) \cup {Head(queue)}
        BY <2>3 DEF InChannel
    <2>7. InChannel(Tail(queue)) \subseteq InChannel(queue)
        BY <2>4 DEF InChannel
    <2>. QED
        BY <2>5, <2>6, <2>7
<1>. QED
    BY <1>2, <1>3

\* A node that executes puts the snapshot of a checkpoint into its channel.
LEMMA ExecutionInChannel ==
    ASSUME TypeOK, NEW n \in Nodes, viewNumber[n] = 0, NEW number \in 0..MaxSeq, NEW request,
           tryCheckpoint(n, number, Applied(store[n], request))
    PROVE  /\ \A p \in Nodes \ {n} : snapshots'[p] = snapshots[p]
           /\ InChannel(snapshots'[n]) = InChannel(snapshots[n]) \cup
                 (IF number % CHECKPOINT = 0
                  THEN {[number |-> SlotId(0, number), snapshot |-> Applied(store[n], request)]}
                  ELSE {})
<1>. DEFINE new == [number |-> SlotId(0, number), snapshot |-> Applied(store[n], request)]
<1>1. new \in CheckpointProof
    <2>1. Applied(store[n], request) \in Snapshot
        BY DEF TypeOK, KeyType, Applied, Snapshot
    <2>. QED
        BY <2>1, SlotIdType, BoundsAssumption DEF CheckpointProof
<1>2. snapshots' = [snapshots EXCEPT ![n] =
                       IF number % CHECKPOINT = 0 THEN Append(@, new) ELSE @]
    BY DEF tryCheckpoint
<1>. HIDE DEF new
<1>3. snapshots[n] \in Seq(CheckpointProof)
    BY DEF TypeOK, KeyType
<1>4. /\ \A p \in Nodes \ {n} : snapshots'[p] = snapshots[p]
      /\ snapshots'[n] = IF number % CHECKPOINT = 0 THEN Append(snapshots[n], new)
                                                    ELSE snapshots[n]
    BY <1>2 DEF TypeOK, KeyType
<1>5. InChannel(snapshots'[n]) = InChannel(snapshots[n]) \cup
          (IF number % CHECKPOINT = 0 THEN {new} ELSE {})
    <2>1. CASE number % CHECKPOINT = 0
        BY <1>1, <1>3, <1>4, <2>1, ChannelEnds
    <2>2. CASE ~(number % CHECKPOINT = 0)
        BY <1>4, <2>2
    <2>. QED
        BY <2>1, <2>2
<1>. QED
    BY <1>4, <1>5 DEF new

\* A snapshot that is signed leaves the channel.
LEMMA SignedFromChannel ==
    ASSUME TypeOK, NEW n \in Nodes, handleRecvSnapshot(n)
    PROVE  \E m \in sentCheckpoints' :
              /\ sentCheckpoints' = sentCheckpoints \cup {m}
              /\ \E head \in InChannel(snapshots[n]) :
                    /\ m.number = head.number /\ m.snapshot = head.snapshot
                    /\ InChannel(snapshots[n]) = InChannel(snapshots'[n]) \cup {head}
              /\ \A p \in Nodes \ {n} : snapshots'[p] = snapshots[p]
<1>. DEFINE m == [number |-> Head(snapshots[n]).number,
                  snapshot |-> Head(snapshots[n]).snapshot, node |-> n]
<1>1. snapshots[n] \in Seq(CheckpointProof) /\ snapshots[n] # <<>>
    BY DEF TypeOK, KeyType, handleRecvSnapshot
<1>2. snapshots'[n] = Tail(snapshots[n]) /\ \A p \in Nodes \ {n} : snapshots'[p] = snapshots[p]
    BY DEF TypeOK, KeyType, handleRecvSnapshot
<1>3. sentCheckpoints' = sentCheckpoints \cup {m}
    BY DEF handleRecvSnapshot
<1>4. m.number = Head(snapshots[n]).number /\ m.snapshot = Head(snapshots[n]).snapshot
    OBVIOUS
<1>. HIDE DEF m
<1>5. /\ Head(snapshots[n]) \in InChannel(snapshots[n])
      /\ InChannel(snapshots[n]) = InChannel(snapshots'[n]) \cup {Head(snapshots[n])}
    BY <1>1, <1>2, ChannelEnds
<1>. QED
    BY <1>2, <1>3, <1>4, <1>5

\* A prepare proposes and commits nothing.
LEMMA handlePrepareFacts ==
    ASSUME ClusterInv, FirstViewFacts, NEW packet \in inFlight, handlePrepare(packet)
    PROVE  FirstViewFacts'
<1>1. TypeOK
    BY DEF ClusterInv, AgreementInv
<1>2. /\ UNCHANGED <<sentPrePrepares, sentNewViews, requests, issuedSequenceNumber>>
      /\ UNCHANGED <<sentCheckpoints, snapshots>>
    BY DEF handlePrepare, normalFrame, keyVars
<1>. QED
    BY <1>1, <1>2, PreparedLog, SameCheckpoints, NothingProposed

\* What a node commits was proposed, and what it makes a checkpoint is of its view.
LEMMA handleCommitFacts ==
    ASSUME ClusterInv, FirstViewFacts, InFirstView, NEW packet \in inFlight,
           handleCommit(packet)
    PROVE  FirstViewFacts'
<1>. DEFINE n == packet.to
            id == packet.message.number
            slot == CountCommit(log[n][id], packet.message.node)
            number == Larger(sequenceNumber[n], id.seqNumber)
<1>1. TypeOK
    BY DEF ClusterInv, AgreementInv
<1>2. /\ n \in Nodes /\ id \in SlotIds /\ id.seqNumber \in 2..MaxSeq
      /\ \E pp \in sentPrePrepares : pp.number = id
    BY CommitOfFirstView
<1>3. UNCHANGED <<sentPrePrepares, sentNewViews, requests, issuedSequenceNumber,
                  sentCheckpoints>>
    BY DEF handleCommit, normalFrame, normalMessages
<1>4. \A p \in Nodes, i \in SlotIds : log'[p][i].committed =>
          log[p][i].committed \/ \E pp \in sentPrePrepares : pp.number = i
    <2>1. \E new : log' = [log EXCEPT ![n][id] = new]
        BY DEF handleCommit
    <2>. HIDE DEF n, id
    <2>. QED
        BY <1>1, <1>2, <2>1, OneSlotUpdated
<1>5. CheckpointsOfFirstView'
    <2>1. CASE UNCHANGED snapshots
        BY <1>3, <2>1, SameCheckpoints
    <2>2. CASE tryCheckpoint(n, number, Applied(store[n], slot.request))
        <3>1. viewNumber[n] = 0 /\ number \in 0..MaxSeq /\ SlotId(0, number).viewNumber = 0
            <4>1. sequenceNumber[n] \in 1..MaxSeq
                BY <1>1, <1>2 DEF TypeOK, LedgerType
            <4>. QED
                BY <1>2, <4>1, BoundsAssumption DEF InFirstView, Larger, SlotId
        <3>. HIDE DEF n, number, slot
        <3>2. /\ \A p \in Nodes \ {n} : snapshots'[p] = snapshots[p]
              /\ \A m \in InChannel(snapshots'[n]) :
                    m \in InChannel(snapshots[n]) \/ m.number = SlotId(0, number)
            BY <1>1, <1>2, <2>2, <3>1, ExecutionInChannel
        <3>3. \A p \in Nodes : \A m \in InChannel(snapshots'[p]) : m.number.viewNumber = 0
            BY <3>1, <3>2 DEF FirstViewFacts, CheckpointsOfFirstView
        <3>. QED
            BY <1>3, <3>3 DEF FirstViewFacts, CheckpointsOfFirstView, InChannel
    <2>. QED
        BY <2>1, <2>2 DEF handleCommit, Execute, keyVars
<1>. QED
    BY <1>3, <1>4, <1>5, NothingProposed

\* Checkpoints clear slots, and a node signs the snapshots of its channel.
LEMMA CheckpointFacts ==
    ASSUME ClusterInv, FirstViewFacts,
           \/ \E packet \in inFlight : handleCheckpoint(packet)
           \/ \E n \in Nodes : handleRecvSnapshot(n)
           \/ \E rpc \in rpcs :
                 rpc.kind = "CheckpointProof" /\ handleCheckpointProof(rpc.to, rpc.body)
    PROVE  FirstViewFacts'
<1>1. TypeOK
    BY DEF ClusterInv, AgreementInv
<1>2. UNCHANGED <<sentPrePrepares, sentNewViews, requests, issuedSequenceNumber>>
    BY DEF handleCheckpoint, handleRecvSnapshot, handleCheckpointProof, checkpointFrame,
        normalMessages, changeMessageVars
<1>3. \A n \in Nodes, id \in SlotIds : log'[n][id] = log[n][id] \/ log'[n][id] = EmptySlot
    <2>1. ASSUME NEW packet \in inFlight, handleCheckpoint(packet)
          PROVE  \A n \in Nodes, id \in SlotIds :
                    log'[n][id] = log[n][id] \/ log'[n][id] = EmptySlot
        BY <1>1, <2>1, PacketType, FlushedLog DEF handleCheckpoint, TypeOK
    <2>2. ASSUME NEW n \in Nodes, handleRecvSnapshot(n)
          PROVE  \A p \in Nodes, id \in SlotIds :
                    log'[p][id] = log[p][id] \/ log'[p][id] = EmptySlot
        BY <1>1, <2>2, FlushedLog DEF handleRecvSnapshot
    <2>3. ASSUME NEW n, NEW proof, handleCheckpointProof(n, proof)
          PROVE  \A p \in Nodes, id \in SlotIds :
                    log'[p][id] = log[p][id] \/ log'[p][id] = EmptySlot
        BY <1>1, <2>3 DEF handleCheckpointProof, Checkpointed, TypeOK, LedgerType
    <2>. QED
        BY <2>1, <2>2, <2>3
<1>4. \A n \in Nodes, id \in SlotIds : log'[n][id].committed => log[n][id].committed
    BY <1>3 DEF EmptySlot
<1>5. CheckpointsOfFirstView'
    <2>1. CASE UNCHANGED <<sentCheckpoints, snapshots>>
        BY <2>1, SameCheckpoints
    <2>2. ASSUME NEW n \in Nodes, handleRecvSnapshot(n)
          PROVE  CheckpointsOfFirstView'
        <3>1. PICK m \in sentCheckpoints' :
                 /\ sentCheckpoints' = sentCheckpoints \cup {m}
                 /\ \E head \in InChannel(snapshots[n]) :
                       /\ m.number = head.number
                       /\ InChannel(snapshots[n]) = InChannel(snapshots'[n]) \cup {head}
                 /\ \A p \in Nodes \ {n} : snapshots'[p] = snapshots[p]
            BY <1>1, <2>2, SignedFromChannel
        <3>2. \A p \in Nodes : InChannel(snapshots'[p]) \subseteq InChannel(snapshots[p])
            BY <3>1
        <3>3. m.number.viewNumber = 0
            BY <3>1 DEF FirstViewFacts, CheckpointsOfFirstView
        <3>4. \A x \in sentCheckpoints' : x.number.viewNumber = 0
            BY <3>1, <3>3 DEF FirstViewFacts, CheckpointsOfFirstView
        <3>5. \A p \in Nodes : \A x \in InChannel(snapshots'[p]) : x.number.viewNumber = 0
            BY <3>2 DEF FirstViewFacts, CheckpointsOfFirstView
        <3>. QED
            BY <3>4, <3>5 DEF CheckpointsOfFirstView, InChannel
    <2>. QED
        BY <2>1, <2>2 DEF handleCheckpoint, handleCheckpointProof
<1>. QED
    BY <1>2, <1>4, <1>5, NothingProposed

\* The invariant, with what only clusters that stay in view 0 have.
LEMMA FirstViewNext == FirstViewInv /\ [Next]_vars => FirstViewInv'
<1>. SUFFICES ASSUME FirstViewInv, [Next]_vars
              PROVE  FirstViewInv'
    OBVIOUS
<1>1. ClusterInv /\ ClusterInv'
    BY CertificateNext, CheckpointNext, AgreementNext, ViewNext DEF FirstViewInv, ClusterInv
<1>2. InFirstView' => InFirstView
    BY <1>1, FirstViewProgress DEF ClusterInv, InFirstView
<1>3. ASSUME InFirstView'
      PROVE  FirstViewFacts'
    <2>1. InFirstView /\ FirstViewFacts
        BY <1>2, <1>3 DEF FirstViewInv
    <2>2. ASSUME NEW n \in Nodes, SendHeartbeat(n)
          PROVE  FirstViewFacts'
        <3>1. UNCHANGED <<log, issuedSequenceNumber, requests, snapshots, sentPrePrepares,
                          sentCheckpoints, sentNewViews>>
            BY <2>2 DEF SendHeartbeat, ledgerVars, keyVars, normalMessages, changeMessageVars
        <3>. QED
            BY <2>1, <3>1, SameCheckpoints, NothingProposed
    <2>3. CASE UNCHANGED <<log, sequenceNumber, issuedSequenceNumber, requests, lastCheckpoint,
                           mainLoop, keyVars, sentPrePrepares, sentCheckpoints, sentNewViews>>
        BY <2>1, <2>3, SameCheckpoints, NothingProposed DEF keyVars
    <2>. QED
        BY <1>1, <1>3, <2>1, <2>2, <2>3, FirstViewStep, handleClientRequestFacts,
            handlePrePrepareFacts, handlePrepareFacts, handleCommitFacts, CheckpointFacts
<1>. QED
    BY <1>1, <1>3 DEF FirstViewInv

\* A cluster that has just started has proposed nothing.
LEMMA FirstViewInit == Init => FirstViewInv
<1>. SUFFICES ASSUME Init
              PROVE  FirstViewInv
    OBVIOUS
<1>1. ClusterInv
    BY CertificateInit, CheckpointInit, AgreementInit, ViewInit DEF ClusterInv
<1>2. AllIssued
    BY FirstPrimaryType DEF Init, AllIssued
<1>3. CommittedProposed
    BY FirstViewType DEF Init, CommittedProposed, EmptySlot
<1>4. CheckpointsOfFirstView
    BY DEF Init, CheckpointsOfFirstView, InChannel
<1>. QED
    BY <1>1, <1>2, <1>3, <1>4 DEF Init, FirstViewInv, FirstViewFacts, ProposalsOfPrimary,
        NumberedOnce

-----------------------------------------------------------------------------
(* Steps of the Ledger. *)

\* The request of a number is the one the primary has proposed for it.
LEMMA ChosenRequest ==
    ASSUME ProposedOnce, NEW s \in 2..MaxSeq
    PROVE  /\ \A pp \in sentPrePrepares : pp.number = FirstView(s) => Chosen[s] = pp.request
           /\ ProposedFor(s) = {} => Chosen[s] = Nil
<1>1. FirstView(s).viewNumber = 0
    BY FirstViewType
<1>2. Chosen[s] = RequestOf(ProposedFor(s))
    BY DEF Chosen
<1>3. ASSUME NEW pp \in sentPrePrepares, pp.number = FirstView(s)
      PROVE  Chosen[s] = pp.request
    <2>1. pp \in ProposedFor(s)
        BY <1>3 DEF ProposedFor
    <2>2. PICK qq \in ProposedFor(s) : RequestOf(ProposedFor(s)) = qq.request
        <3>. DEFINE qq == CHOOSE x \in ProposedFor(s) : TRUE
        <3>1. qq \in ProposedFor(s)
            BY <2>1
        <3>2. RequestOf(ProposedFor(s)) = qq.request
            BY <2>1 DEF RequestOf
        <3>. QED
            BY <3>1, <3>2
    <2>3. qq.request = pp.request
        BY <1>1, <1>3, <2>2 DEF ProposedFor, ProposedOnce
    <2>. QED
        BY <1>2, <2>2, <2>3
<1>4. ProposedFor(s) = {} => Chosen[s] = Nil
    BY <1>2 DEF RequestOf
<1>. QED
    BY <1>3, <1>4

\* Two functions are equal where all their values are.
LEMMA SameFunction ==
    ASSUME NEW S, NEW f, NEW g, f = [x \in S |-> f[x]], g = [x \in S |-> g[x]],
           \A x \in S : g[x] = f[x]
    PROVE  g = f
<1>1. [x \in S |-> g[x]] = [x \in S |-> f[x]]
    OBVIOUS
<1>. QED
    BY <1>1

\* A function that differs from another at one argument.
LEMMA OneValueUpdated ==
    ASSUME NEW S, NEW f, NEW g, f = [x \in S |-> f[x]], g = [x \in S |-> g[x]],
           NEW n \in S, \A x \in S \ {n} : g[x] = f[x]
    PROVE  g = [f EXCEPT ![n] = g[n]]
<1>. DEFINE h == [f EXCEPT ![n] = g[n]]
<1>1. h = [x \in S |-> IF x = n THEN g[n] ELSE f[x]]
    OBVIOUS
<1>2. h = [x \in S |-> h[x]] /\ \A x \in S : h[x] = g[x]
    BY <1>1
<1>. HIDE DEF h
<1>3. g = h
    BY <1>2, SameFunction
<1>. QED
    BY <1>3 DEF h

\* The two mappings that are functions of the log.
LEMMA LogMapping ==
    /\ KnownNumbers = [n \in Nodes |-> KnownNumbers[n]]
    /\ ExecutedNumbers = [n \in Nodes |-> ExecutedNumbers[n]]
    /\ KnownNumbers' = [n \in Nodes |-> KnownNumbers'[n]]
    /\ ExecutedNumbers' = [n \in Nodes |-> ExecutedNumbers'[n]]
    /\ \A n \in Nodes : /\ KnownNumbers[n] \subseteq 2..MaxSeq
                        /\ KnownNumbers'[n] \subseteq 2..MaxSeq
                        /\ ExecutedNumbers[n] \subseteq 2..MaxSeq
                        /\ ExecutedNumbers'[n] \subseteq 2..MaxSeq
    /\ \A n \in Nodes, s \in 2..MaxSeq :
          /\ s \in KnownNumbers[n] <=> log[n][FirstView(s)].request # Nil
          /\ s \in KnownNumbers'[n] <=> log'[n][FirstView(s)].request # Nil
          /\ s \in ExecutedNumbers[n] <=> log[n][FirstView(s)].committed
          /\ s \in ExecutedNumbers'[n] <=> log'[n][FirstView(s)].committed
BY DEF KnownNumbers, ExecutedNumbers, FirstView, SlotId

\* What depends on which variables.
LEMMA SameMapping ==
    /\ UNCHANGED sentPrePrepares => UNCHANGED Chosen
    /\ UNCHANGED lastCheckpoint => UNCHANGED LastStable
    /\ UNCHANGED <<sentCheckpoints, snapshots>> => UNCHANGED SnapshotsTaken
    /\ UNCHANGED mainLoop => UNCHANGED Halted
    /\ (\A n \in Nodes, id \in SlotIds : /\ log'[n][id].request = log[n][id].request
                                         /\ log'[n][id].committed = log[n][id].committed)
          => UNCHANGED <<KnownNumbers, ExecutedNumbers>>
<1>1. UNCHANGED sentPrePrepares => UNCHANGED Chosen
    BY DEF Chosen, RequestOf, ProposedFor, FirstView, SlotId
<1>2. UNCHANGED lastCheckpoint => UNCHANGED LastStable
    BY DEF LastStable
<1>3. UNCHANGED <<sentCheckpoints, snapshots>> => UNCHANGED SnapshotsTaken
    BY DEF SnapshotsTaken, InChannel
<1>4. UNCHANGED mainLoop => UNCHANGED Halted
    BY DEF Halted, Running
<1>5. ASSUME \A n \in Nodes, id \in SlotIds :
                 /\ log'[n][id].request = log[n][id].request
                 /\ log'[n][id].committed = log[n][id].committed
      PROVE  UNCHANGED <<KnownNumbers, ExecutedNumbers>>
    <2>1. \A n \in Nodes, s \in 2..MaxSeq :
             /\ log'[n][FirstView(s)].request = log[n][FirstView(s)].request
             /\ log'[n][FirstView(s)].committed = log[n][FirstView(s)].committed
        BY <1>5, FirstViewType
    <2>2. \A n \in Nodes, s \in 2..MaxSeq :
             /\ s \in KnownNumbers'[n] <=> s \in KnownNumbers[n]
             /\ s \in ExecutedNumbers'[n] <=> s \in ExecutedNumbers[n]
        BY <2>1, LogMapping
    <2>3. \A n \in Nodes : KnownNumbers'[n] = KnownNumbers[n]
                           /\ ExecutedNumbers'[n] = ExecutedNumbers[n]
        BY <2>2, LogMapping
    <2>. QED
        BY <2>3, LogMapping, SameFunction
<1>. QED
    BY <1>1, <1>2, <1>3, <1>4, <1>5

\* What it takes for the Ledger to stutter.
LEMMA LedgerStutters ==
    ASSUME UNCHANGED <<sentPrePrepares, lastCheckpoint, sentCheckpoints, snapshots, mainLoop,
                       sequenceNumber, store>>,
           \A n \in Nodes, id \in SlotIds : /\ log'[n][id].request = log[n][id].request
                                            /\ log'[n][id].committed = log[n][id].committed
    PROVE  UNCHANGED L!ledger
BY SameMapping DEF L!ledger

\* A set that differs from another in one member at most.
LEMMA OneMember ==
    ASSUME NEW A \in SUBSET (2..MaxSeq), NEW B \in SUBSET (2..MaxSeq), NEW s \in 2..MaxSeq,
           \A t \in 2..MaxSeq : t # s => (t \in B <=> t \in A)
    PROVE  /\ s \in B => B = A \cup {s}
           /\ (s \in B <=> s \in A) => B = A
<1>1. \A t : (t \in A \/ t \in B) => t \in 2..MaxSeq
    OBVIOUS
<1>2. ASSUME s \in B
      PROVE  B = A \cup {s}
    BY <1>1, <1>2
<1>3. ASSUME s \in B <=> s \in A
      PROVE  B = A
    BY <1>1, <1>3
<1>. QED
    BY <1>2, <1>3

\* One slot of view 0 that changes.
LEMMA OneNumberUpdated ==
    ASSUME NEW n \in Nodes, NEW s \in 2..MaxSeq, NEW slot, log'[n][FirstView(s)] = slot,
           \A p \in Nodes, i \in SlotIds :
               (p # n \/ i # FirstView(s)) => log'[p][i] = log[p][i]
    PROVE  /\ (slot.request # Nil <=> log[n][FirstView(s)].request # Nil)
                 => UNCHANGED KnownNumbers
           /\ slot.request # Nil => KnownNumbers' = [KnownNumbers EXCEPT ![n] = @ \cup {s}]
           /\ (slot.committed <=> log[n][FirstView(s)].committed) => UNCHANGED ExecutedNumbers
           /\ slot.committed => ExecutedNumbers' = [ExecutedNumbers EXCEPT ![n] = @ \cup {s}]
<1>1. \A t \in 2..MaxSeq : FirstView(t) \in SlotIds /\ FirstView(t).seqNumber = t
    BY FirstViewType
<1>2. /\ log'[n][FirstView(s)] = slot
      /\ \A p \in Nodes, t \in 2..MaxSeq :
            (p # n \/ t # s) => log'[p][FirstView(t)] = log[p][FirstView(t)]
    BY <1>1
<1>3. \A p \in Nodes \ {n} : KnownNumbers'[p] = KnownNumbers[p]
                             /\ ExecutedNumbers'[p] = ExecutedNumbers[p]
    <2>1. \A p \in Nodes \ {n}, t \in 2..MaxSeq :
             /\ t \in KnownNumbers'[p] <=> t \in KnownNumbers[p]
             /\ t \in ExecutedNumbers'[p] <=> t \in ExecutedNumbers[p]
        BY <1>2, LogMapping
    <2>. QED
        BY <2>1, LogMapping
<1>4. /\ slot.request # Nil => KnownNumbers'[n] = KnownNumbers[n] \cup {s}
      /\ (slot.request # Nil <=> log[n][FirstView(s)].request # Nil)
            => KnownNumbers'[n] = KnownNumbers[n]
    <2>1. /\ s \in KnownNumbers'[n] <=> slot.request # Nil
          /\ s \in KnownNumbers[n] <=> log[n][FirstView(s)].request # Nil
          /\ \A t \in 2..MaxSeq : t # s => (t \in KnownNumbers'[n] <=> t \in KnownNumbers[n])
        BY <1>2, LogMapping
    <2>2. KnownNumbers[n] \in SUBSET (2..MaxSeq) /\ KnownNumbers'[n] \in SUBSET (2..MaxSeq)
        BY LogMapping
    <2>3. /\ s \in KnownNumbers'[n] => KnownNumbers'[n] = KnownNumbers[n] \cup {s}
          /\ (s \in KnownNumbers'[n] <=> s \in KnownNumbers[n])
                => KnownNumbers'[n] = KnownNumbers[n]
        BY <2>1, <2>2, OneMember
    <2>. QED
        BY <2>1, <2>3
<1>5. /\ slot.committed => ExecutedNumbers'[n] = ExecutedNumbers[n] \cup {s}
      /\ (slot.committed <=> log[n][FirstView(s)].committed)
            => ExecutedNumbers'[n] = ExecutedNumbers[n]
    <2>1. /\ s \in ExecutedNumbers'[n] <=> slot.committed
          /\ s \in ExecutedNumbers[n] <=> log[n][FirstView(s)].committed
          /\ \A t \in 2..MaxSeq : t # s => (t \in ExecutedNumbers'[n] <=> t \in ExecutedNumbers[n])
        BY <1>2, LogMapping
    <2>2. ExecutedNumbers[n] \in SUBSET (2..MaxSeq) /\ ExecutedNumbers'[n] \in SUBSET (2..MaxSeq)
        BY LogMapping
    <2>3. /\ s \in ExecutedNumbers'[n] => ExecutedNumbers'[n] = ExecutedNumbers[n] \cup {s}
          /\ (s \in ExecutedNumbers'[n] <=> s \in ExecutedNumbers[n])
                => ExecutedNumbers'[n] = ExecutedNumbers[n]
        BY <2>1, <2>2, OneMember
    <2>. QED
        BY <2>1, <2>3
<1>6. /\ KnownNumbers' = [KnownNumbers EXCEPT ![n] = KnownNumbers'[n]]
      /\ ExecutedNumbers' = [ExecutedNumbers EXCEPT ![n] = ExecutedNumbers'[n]]
    BY <1>3, LogMapping, OneValueUpdated
<1>7. /\ KnownNumbers'[n] = KnownNumbers[n] => KnownNumbers' = KnownNumbers
      /\ ExecutedNumbers'[n] = ExecutedNumbers[n] => ExecutedNumbers' = ExecutedNumbers
    BY <1>3, LogMapping, SameFunction
<1>. HIDE DEF KnownNumbers, ExecutedNumbers
<1>. QED
    BY <1>4, <1>5, <1>6, <1>7

\* A main loop that panics, or blocks for good, halts its node.
LEMMA LedgerHalts ==
    ASSUME TypeOK, TypeOK', NEW n \in Nodes, Running(n),
           NEW how, how # "running", mainLoop' = [mainLoop EXCEPT ![n] = how],
           \A p \in Nodes \ {n} : UNCHANGED <<log[p], sequenceNumber[p], lastCheckpoint[p]>>,
           UNCHANGED <<sentPrePrepares, store, SnapshotsTaken>>
    PROVE  L!Halt(n)
<1>1. ~Halted[n] /\ Halted' = [Halted EXCEPT ![n] = TRUE]
    <2>1. /\ Halted = [p \in Nodes |-> mainLoop[p] # "running"]
          /\ Halted' = [p \in Nodes |-> mainLoop'[p] # "running"]
        BY DEF Halted, Running
    <2>2. mainLoop'[n] = how /\ \A p \in Nodes \ {n} : mainLoop'[p] = mainLoop[p]
        BY DEF TypeOK, ProcessType
    <2>3. /\ Halted = [p \in Nodes |-> Halted[p]] /\ Halted' = [p \in Nodes |-> Halted'[p]]
          /\ \A p \in Nodes \ {n} : Halted'[p] = Halted[p]
          /\ Halted'[n] = TRUE
        BY <2>1, <2>2
    <2>4. Halted' = [Halted EXCEPT ![n] = Halted'[n]]
        BY <2>3, OneValueUpdated
    <2>. QED
        BY <2>1, <2>3, <2>4 DEF Running
<1>2. /\ KnownNumbers' \in [Nodes -> SUBSET L!Numbers]
      /\ ExecutedNumbers' \in [Nodes -> SUBSET L!Numbers]
    BY DEF KnownNumbers, ExecutedNumbers, L!Numbers
<1>3. sequenceNumber' \in [Nodes -> Nat] /\ LastStable' \in [Nodes -> Nat]
    <2>1. sequenceNumber' \in [Nodes -> 1..MaxSeq] /\ lastCheckpoint' \in [Nodes -> CheckpointProof]
        BY DEF TypeOK, LedgerType, CheckpointType
    <2>2. \A p \in Nodes : lastCheckpoint'[p].number.seqNumber \in Nat
        BY <2>1, SlotIdsType DEF CheckpointProof
    <2>. QED
        BY <2>1, <2>2, BoundsAssumption DEF LastStable
<1>4. \A p \in Nodes \ {n} : /\ KnownNumbers'[p] = KnownNumbers[p]
                             /\ ExecutedNumbers'[p] = ExecutedNumbers[p]
                             /\ LastStable'[p] = LastStable[p]
    BY DEF KnownNumbers, ExecutedNumbers, LastStable, FirstView, SlotId
<1>5. UNCHANGED Chosen
    BY SameMapping
<1>. QED
    BY <1>1, <1>2, <1>3, <1>4, <1>5 DEF L!Halt


\* A number has a request exactly when the primary has proposed one for it.
LEMMA ChosenType ==
    ASSUME ClusterInv, FirstViewFacts, NEW s \in 2..MaxSeq
    PROVE  /\ ProposedFor(s) = {} <=> Chosen[s] = Nil
           /\ Chosen[s] # Nil =>
                 /\ Chosen[s] \in Requests
                 /\ \E pp \in sentPrePrepares : pp.number = FirstView(s) /\ pp.request = Chosen[s]
<1>1. ProposedOnce /\ FirstPrimary \in Nodes /\ requests[FirstPrimary] \subseteq Requests
    BY FirstPrimaryType DEF ClusterInv, AgreementInv, TypeOK, LedgerType
<1>2. ASSUME NEW pp \in ProposedFor(s)
      PROVE  /\ pp \in sentPrePrepares /\ pp.number = FirstView(s)
             /\ pp.request = Chosen[s] /\ Chosen[s] \in Requests
    <2>1. pp \in sentPrePrepares /\ pp.number = FirstView(s)
        BY DEF ProposedFor
    <2>2. Chosen[s] = pp.request
        BY <1>1, <2>1, ChosenRequest
    <2>. QED
        BY <1>1, <2>1, <2>2 DEF FirstViewFacts, ProposalsOfPrimary
<1>3. ProposedFor(s) = {} => Chosen[s] = Nil
    BY <1>1, ChosenRequest
<1>. QED
    BY <1>2, <1>3, RequestsAssumption

\* The request in a slot is the one chosen for its number; what is committed has one.
LEMMA LoggedRequest ==
    ASSUME ClusterInv, FirstViewFacts, NEW n \in Nodes, NEW s \in 2..MaxSeq
    PROVE  /\ log[n][FirstView(s)].request # Nil => log[n][FirstView(s)].request = Chosen[s]
           /\ log[n][FirstView(s)].committed => Chosen[s] # Nil
<1>1. FirstView(s) \in SlotIds /\ FirstView(s).viewNumber = 0
    BY FirstViewType
<1>2. ProposedOnce /\ LogProposed
    BY DEF ClusterInv, AgreementInv
<1>3. ASSUME log[n][FirstView(s)].request # Nil
      PROVE  log[n][FirstView(s)].request = Chosen[s]
    <2>. DEFINE pp == AsProposed(FirstView(s), log[n][FirstView(s)])
    <2>1. pp \in sentPrePrepares
        BY <1>1, <1>2, <1>3 DEF LogProposed, FromFirstPrimary
    <2>2. pp.number = FirstView(s) /\ pp.request = log[n][FirstView(s)].request
        BY DEF AsProposed
    <2>. QED
        BY <1>2, <2>1, <2>2, ChosenRequest
<1>4. log[n][FirstView(s)].committed => Chosen[s] # Nil
    BY ChosenType DEF FirstViewFacts, CommittedProposed
<1>. QED
    BY <1>3, <1>4

\* A request that the primary takes is chosen; one that a backup forwards is not.
LEMMA handleClientRequestRefines ==
    ASSUME ClusterInv, FirstViewFacts, InFirstView, NEW n \in Nodes, NEW r \in Requests,
           NEW done, Running(n), handleClientRequest(n, r, done)
    PROVE  UNCHANGED L!ledger \/ L!LedgerNext
<1>1. TypeOK
    BY DEF ClusterInv, AgreementInv
<1>2. /\ UNCHANGED <<sequenceNumber, mainLoop, lastCheckpoint, store, snapshots, sentCheckpoints>>
      /\ IsNew(n, r)
    BY DEF handleClientRequest, normalFrame, keyVars, checkpointVars
<1>3. CASE BackupForwards(n, r, done)
    BY <1>2, <1>3, LedgerStutters DEF BackupForwards
<1>4. CASE PrimaryProposes(n, r, done)
    <2>1. n = FirstPrimary /\ \A qq \in sentPrePrepares : qq.request # r
        BY <1>2, <1>4, ProposalFacts
    <2>2. PICK s \in 2..MaxSeq, pp \in sentPrePrepares' :
             /\ s = issuedSequenceNumber[FirstPrimary] + 1
             /\ log' = [log EXCEPT ![n][FirstView(s)] = ProposedSlot(r, r)]
             /\ sentPrePrepares' = sentPrePrepares \cup {pp}
             /\ pp.number = FirstView(s) /\ pp.request = r
             /\ ProposedFor(s) = {}
        BY <1>2, <1>4, ProposalFacts
    <2>3. /\ ProposedSlot(r, r) \in Slot /\ ProposedSlot(r, r).request = r /\ r # Nil
          /\ ~ProposedSlot(r, r).committed
        BY RequestsAssumption DEF ProposedSlot, EmptySlot, Slot, Proposals
    <2>4. ~log[n][FirstView(s)].committed
        BY <2>2 DEF FirstViewFacts, CommittedProposed
    <2>5. KnownNumbers' = [KnownNumbers EXCEPT ![n] = @ \cup {s}] /\ UNCHANGED ExecutedNumbers
        <3>1. /\ log'[n][FirstView(s)] = ProposedSlot(r, r)
              /\ \A p \in Nodes, i \in SlotIds :
                    (p # n \/ i # FirstView(s)) => log'[p][i] = log[p][i]
            BY <1>1, <2>2, FirstViewType DEF TypeOK, LedgerType
        <3>2. /\ ProposedSlot(r, r).request # Nil =>
                    KnownNumbers' = [KnownNumbers EXCEPT ![n] = @ \cup {s}]
              /\ (ProposedSlot(r, r).committed <=> log[n][FirstView(s)].committed) =>
                    UNCHANGED ExecutedNumbers
            BY <3>1, OneNumberUpdated
        <3>. QED
            BY <2>3, <2>4, <3>2
    <2>6. Chosen' = [Chosen EXCEPT ![s] = r]
        <3>1. \A t \in 2..MaxSeq : FirstView(t)' = FirstView(t) /\ FirstView(t).seqNumber = t
            BY FirstViewType DEF FirstView, SlotId
        <3>2. ProposedFor(s)' = {pp}
            BY <2>2, <3>1 DEF ProposedFor
        <3>3. \A t \in (2..MaxSeq) \ {s} : ProposedFor(t)' = ProposedFor(t)
            BY <2>2, <3>1 DEF ProposedFor
        <3>4. RequestOf(ProposedFor(s))' = r
            BY <2>2, <3>2 DEF RequestOf
        <3>5. ASSUME NEW t \in (2..MaxSeq) \ {s}
              PROVE  RequestOf(ProposedFor(t))' = RequestOf(ProposedFor(t))
            <4>1. ProposedFor(t)' = ProposedFor(t)
                BY <3>3
            <4>. QED
                BY <4>1 DEF RequestOf
        <3>6. /\ Chosen = [t \in 2..MaxSeq |-> Chosen[t]]
              /\ Chosen' = [t \in 2..MaxSeq |-> Chosen'[t]]
              /\ Chosen'[s] = r
              /\ \A t \in (2..MaxSeq) \ {s} : Chosen'[t] = Chosen[t]
            BY <3>4, <3>5 DEF Chosen
        <3>7. Chosen' = [Chosen EXCEPT ![s] = Chosen'[s]]
            BY <3>6, OneValueUpdated
        <3>. QED
            BY <3>6, <3>7
    <2>7. UNCHANGED <<LastStable, SnapshotsTaken, Halted>> /\ ~Halted[n]
        BY <1>2, SameMapping DEF Halted
    <2>8. Chosen[s] = Nil
        BY <2>2, ChosenType
    <2>9. ASSUME NEW t \in 2..MaxSeq, t < s
          PROVE  Chosen[t] # Nil
        <3>1. issuedSequenceNumber[FirstPrimary] \in Int
            BY <1>1, FirstPrimaryType DEF TypeOK, LedgerType
        <3>2. t \in 2..issuedSequenceNumber[FirstPrimary]
            BY <2>2, <2>9, <3>1
        <3>. QED
            BY <3>2, ChosenType DEF FirstViewFacts, AllIssued
    <2>10. \A t \in 2..MaxSeq : Chosen[t] # r
        BY <2>1, <2>3, ChosenType
    <2>11. L!Choose(r, s)
        BY <1>2, <2>5, <2>6, <2>7, <2>8, <2>9, <2>10 DEF L!Choose, L!IsChosen, L!Numbers
    <2>12. L!ChooseAt(n, r, s)
        BY <2>5, <2>7, <2>11 DEF L!ChooseAt
    <2>. QED
        BY <2>12 DEF L!LedgerNext, L!Numbers
<1>. QED
    BY <1>3, <1>4 DEF handleClientRequest

\* A backup that accepts a pre-prepare learns the request of its number.
LEMMA handlePrePrepareRefines ==
    ASSUME ClusterInv, FirstViewFacts, InFirstView, NEW n \in Nodes, NEW pp \in PrePrepare,
           NEW done, Running(n), handlePrePrepare(n, pp, done),
           pp.number.viewNumber = 0 /\ pp.number.seqNumber # 0 => pp \in sentPrePrepares
    PROVE  UNCHANGED L!ledger \/ L!LedgerNext
<1>1. TypeOK /\ ProposedOnce /\ pp.number \in SlotIds
    BY DEF ClusterInv, AgreementInv, PrePrepare
<1>2. /\ UNCHANGED <<sequenceNumber, mainLoop, lastCheckpoint, store, snapshots, sentCheckpoints>>
      /\ UNCHANGED sentPrePrepares
    BY DEF handlePrePrepare, normalFrame, keyVars, checkpointVars
<1>3. CASE UNCHANGED log
    BY <1>2, <1>3, LedgerStutters
<1>4. CASE /\ Accepts(n, viewNumber[n], pp)
           /\ log' = [log EXCEPT ![n][pp.number] = AcceptedSlot(n, @, pp.request, pp.digest)]
    <2>. DEFINE last == lastCheckpoint[n].number.seqNumber
                id == pp.number
                slot == AcceptedSlot(n, log[n][id], pp.request, pp.digest)
    <2>1. last \in Nat /\ id.seqNumber \in Nat
        BY <1>1, SlotIdsType DEF TypeOK, CheckpointType, CheckpointProof
    <2>2. id.seqNumber > last /\ id.viewNumber = 0 /\ log[n][id].request = Nil
        BY <1>4 DEF Accepts, WithinWaterMarks, InFirstView
    <2>3. pp \in sentPrePrepares
        BY <2>1, <2>2
    <2>4. PICK s \in 2..MaxSeq : s = id.seqNumber /\ id = FirstView(s)
        BY <1>1, <2>2, <2>3, FirstViewOf DEF FirstViewFacts, ProposalsOfPrimary
    <2>5. Chosen[s] = pp.request /\ Chosen[s] # Nil
        BY <1>1, <2>3, <2>4, ChosenRequest, RequestsAssumption DEF PrePrepare, Proposals
    <2>6. slot \in Slot /\ slot.request = pp.request /\ slot.committed = log[n][id].committed
        <3>1. log[n][id] \in Slot
            BY <1>1 DEF TypeOK, LedgerType
        <3>. QED
            BY <3>1 DEF AcceptedSlot, Slot, PrePrepare
    <2>7. log' = [log EXCEPT ![n][id] = slot]
        BY <1>4
    <2>8. KnownNumbers' = [KnownNumbers EXCEPT ![n] = @ \cup {s}] /\ UNCHANGED ExecutedNumbers
        <3>1. slot.request # Nil /\ (slot.committed <=> log[n][FirstView(s)].committed)
            BY <2>4, <2>5, <2>6
        <3>. HIDE DEF slot, id
        <3>2. /\ log'[n][FirstView(s)] = slot
              /\ \A p \in Nodes, i \in SlotIds :
                    (p # n \/ i # FirstView(s)) => log'[p][i] = log[p][i]
            <4>1. id \in SlotIds
                BY <2>4, FirstViewType
            <4>. QED
                BY <1>1, <2>4, <2>7, <4>1 DEF TypeOK, LedgerType
        <3>3. /\ slot.request # Nil => KnownNumbers' = [KnownNumbers EXCEPT ![n] = @ \cup {s}]
              /\ (slot.committed <=> log[n][FirstView(s)].committed) => UNCHANGED ExecutedNumbers
            BY <3>2, OneNumberUpdated
        <3>. QED
            BY <3>1, <3>3
    <2>9. s \notin KnownNumbers[n]
        BY <2>2, <2>4, LogMapping
    <2>10. UNCHANGED <<Chosen, LastStable, SnapshotsTaken, Halted>> /\ ~Halted[n]
        BY <1>2, SameMapping DEF Halted
    <2>11. LastStable[n] = last
        BY DEF LastStable
    <2>12. L!Learn(n, s)
        BY <1>2, <2>2, <2>4, <2>5, <2>8, <2>9, <2>10, <2>11 DEF L!Learn
    <2>. QED
        BY <2>4, <2>12 DEF L!LedgerNext, L!Numbers
<1>. QED
    BY <1>3, <1>4 DEF handlePrePrepare

\* A prepare is no step of the Ledger.
LEMMA handlePrepareRefines ==
    ASSUME ClusterInv, NEW packet \in inFlight, handlePrepare(packet)
    PROVE  UNCHANGED L!ledger
<1>1. TypeOK
    BY DEF ClusterInv, AgreementInv
<1>2. UNCHANGED <<sentPrePrepares, lastCheckpoint, sentCheckpoints, snapshots, mainLoop,
                  sequenceNumber, store>>
    BY DEF handlePrepare, normalFrame, keyVars, checkpointVars
<1>. QED
    BY <1>1, <1>2, PreparedLog, LedgerStutters

\* The snapshot of a checkpoint, with the number of the checkpoint.
Taken(m) == [number |-> m.number.seqNumber, snapshot |-> m.snapshot]

\* The snapshots that are signed, or on their way to the main loop.
LEMMA TakenMembers ==
    /\ \A x : x \in SnapshotsTaken <=>
          \/ \E m \in sentCheckpoints : x = Taken(m)
          \/ \E p \in Nodes : \E m \in InChannel(snapshots[p]) : x = Taken(m)
    /\ \A x : x \in SnapshotsTaken' <=>
          \/ \E m \in sentCheckpoints' : x = Taken(m)
          \/ \E p \in Nodes : \E m \in InChannel(snapshots'[p]) : x = Taken(m)
<1>. DEFINE all == sentCheckpoints \cup UNION {InChannel(snapshots[p]) : p \in Nodes}
<1>1. SnapshotsTaken = {Taken(m) : m \in all} /\ SnapshotsTaken' = {Taken(m) : m \in all'}
    BY DEF SnapshotsTaken, Taken
<1>2. all' = sentCheckpoints' \cup UNION {InChannel(snapshots'[p]) : p \in Nodes}
    BY DEF InChannel
<1>3. /\ \A m : m \in all <=> m \in sentCheckpoints \/ \E p \in Nodes : m \in InChannel(snapshots[p])
      /\ \A m : m \in all' <=>
            m \in sentCheckpoints' \/ \E p \in Nodes : m \in InChannel(snapshots'[p])
    BY <1>2
<1>. HIDE DEF all
<1>. QED
    BY <1>1, <1>3

\* A node's stable checkpoint is one of view 0.
LEMMA StableOfFirstView ==
    ASSUME ClusterInv, FirstViewFacts, NEW n \in Nodes
    PROVE  lastCheckpoint[n].number.viewNumber = 0
<1>1. CASE lastCheckpoint[n].number = SlotId(0, 0)
    BY <1>1 DEF SlotId
<1>2. CASE lastCheckpoint[n].number # SlotId(0, 0)
    <2>1. \E m \in sentCheckpoints : m.number = lastCheckpoint[n].number
        BY <1>2 DEF ClusterInv, CheckpointInv, NodesSound, Sound, CertifiedBy, Signed
    <2>. QED
        BY <2>1 DEF FirstViewFacts, CheckpointsOfFirstView
<1>. QED
    BY <1>1, <1>2

\* What a node executes is what the Ledger executes: nothing, if its slot is empty.
LEMMA SameExecution ==
    ASSUME ClusterInv, FirstViewFacts, NEW n \in Nodes, NEW s \in 2..MaxSeq
    PROVE  L!Execution(n, s) = Applied(store[n], log[n][FirstView(s)].request)
<1>1. s \in KnownNumbers[n] <=> log[n][FirstView(s)].request # Nil
    BY LogMapping
<1>2. CASE log[n][FirstView(s)].request = Nil
    BY <1>1, <1>2, RequestsAssumption DEF L!Execution, Applied
<1>3. CASE log[n][FirstView(s)].request # Nil
    <2>1. log[n][FirstView(s)].request = Chosen[s] /\ Chosen[s] \in Requests
        BY <1>3, LoggedRequest, ChosenType
    <2>. QED
        BY <1>1, <1>3, <2>1 DEF L!Execution, Applied
<1>. QED
    BY <1>2, <1>3

\* A commit that completes a quorum executes a number, or blocks the node; no other
\* one is a step of the Ledger.
LEMMA handleCommitRefines ==
    ASSUME ClusterInv, TypeOK', FirstViewFacts, InFirstView, NEW packet \in inFlight,
           handleCommit(packet)
    PROVE  UNCHANGED L!ledger \/ L!LedgerNext
<1>. DEFINE n == packet.to
            id == packet.message.number
            slot == CountCommit(log[n][id], packet.message.node)
            new == [slot EXCEPT !.committed = TRUE]
            s == id.seqNumber
            number == Larger(sequenceNumber[n], s)
<1>1. TypeOK
    BY DEF ClusterInv, AgreementInv
<1>2. /\ n \in Nodes /\ id \in SlotIds /\ id.viewNumber = 0 /\ s \in 2..MaxSeq
      /\ id = FirstView(s)
      /\ \E pp \in sentPrePrepares : pp.number = id
    BY CommitOfFirstView
<1>3. /\ log[n][id] \in Slot
      /\ slot.request = log[n][id].request /\ slot.committed = log[n][id].committed
      /\ new.request = log[n][id].request /\ new.committed
    <2>1. log[n][id] \in Slot
        BY <1>1, <1>2 DEF TypeOK, LedgerType
    <2>. QED
        BY <2>1, CountedSlot
<1>4. /\ UNCHANGED <<sentPrePrepares, lastCheckpoint, sentCheckpoints>>
      /\ Running(n) /\ StillCounts(n, id)
    BY DEF handleCommit, normalFrame, normalMessages, checkpointVars, Delivered
<1>5. CASE /\ ~NowCommitted(slot)
           /\ log' = [log EXCEPT ![n][id] = slot]
           /\ UNCHANGED <<sequenceNumber, keyVars, mainLoop>>
    <2>. HIDE DEF slot, id, n
    <2>1. log'[n][id] = slot /\ \A p \in Nodes, i \in SlotIds :
             (p # n \/ i # id) => log'[p][i] = log[p][i]
        BY <1>1, <1>2, <1>5 DEF TypeOK, LedgerType
    <2>2. \A p \in Nodes, i \in SlotIds : /\ log'[p][i].request = log[p][i].request
                                          /\ log'[p][i].committed = log[p][i].committed
        BY <1>3, <2>1
    <2>. QED
        BY <1>4, <1>5, <2>2, LedgerStutters DEF keyVars
<1>6. CASE /\ NowCommitted(slot)
           /\ log' = [log EXCEPT ![n][id] = new]
           /\ sequenceNumber' = [sequenceNumber EXCEPT ![n] = number]
           /\ Execute(n, slot.request, number)
    <2>0. /\ log'[n][id] = new
          /\ \A p \in Nodes, i \in SlotIds : (p # n \/ i # id) => log'[p][i] = log[p][i]
          /\ \A p \in Nodes \ {n} : log'[p] = log[p] /\ sequenceNumber'[p] = sequenceNumber[p]
        <3>1. \E x : log' = [log EXCEPT ![n][id] = x] /\ x = new
            BY <1>6
        <3>. HIDE DEF new, slot, id, n, number
        <3>2. \A p \in Nodes \ {n} : log'[p] = log[p] /\ sequenceNumber'[p] = sequenceNumber[p]
            BY <1>1, <1>6, <3>1 DEF TypeOK, LedgerType
        <3>. QED
            BY <1>1, <1>2, <3>1, <3>2 DEF TypeOK, LedgerType
    <2>1. CASE mainLoop' = [mainLoop EXCEPT ![n] = "blocked"] /\ UNCHANGED keyVars
        <3>1. UNCHANGED <<store, SnapshotsTaken>>
            BY <1>4, <2>1, SameMapping DEF keyVars
        <3>2. \A p \in Nodes \ {n} : UNCHANGED <<log[p], sequenceNumber[p], lastCheckpoint[p]>>
            BY <1>4, <2>0
        <3>. HIDE DEF n
        <3>3. L!Halt(n)
            BY <1>1, <1>2, <1>4, <2>1, <3>1, <3>2, LedgerHalts
        <3>. QED
            BY <1>2, <3>3 DEF L!LedgerNext
    <2>2. CASE /\ store' = [store EXCEPT ![n] = Applied(store[n], slot.request)]
               /\ tryCheckpoint(n, number, Applied(store[n], slot.request))
               /\ UNCHANGED mainLoop
        <3>1. ExecutedNumbers' = [ExecutedNumbers EXCEPT ![n] = @ \cup {s}] /\ UNCHANGED KnownNumbers
            <4>. HIDE DEF new, slot, id, n, s
            <4>1. /\ (new.request # Nil <=> log[n][FirstView(s)].request # Nil)
                        => UNCHANGED KnownNumbers
                  /\ new.committed => ExecutedNumbers' = [ExecutedNumbers EXCEPT ![n] = @ \cup {s}]
                BY <1>2, <2>0, OneNumberUpdated
            <4>. QED
                BY <1>2, <1>3, <4>1
        <3>2. Applied(store[n], slot.request) = L!Execution(n, s)
            BY <1>2, <1>3, SameExecution
        <3>3. UNCHANGED <<Chosen, LastStable, Halted>> /\ ~Halted[n]
            BY <1>2, <1>4, <2>2, SameMapping DEF Halted
        <3>4. Chosen[s] # Nil
            <4>1. ProposedFor(s) # {}
                BY <1>2 DEF ProposedFor
            <4>. QED
                BY <1>2, <4>1, ChosenType
        <3>5. s \notin ExecutedNumbers[n]
            BY <1>2, <1>3, <1>6, LogMapping DEF NowCommitted
        <3>6. L!MayExecute(n, s)
            <4>1. lastCheckpoint[n].number.viewNumber = 0 /\ LastStable[n] \in Nat
                BY <1>1, <1>2, StableOfFirstView, SlotIdsType
                DEF LastStable, TypeOK, CheckpointType, CheckpointProof
            <4>2. s >= LastStable[n]
                BY <1>2, <1>4, <4>1 DEF StillCounts, Before, LastStable
            <4>. QED
                BY <4>2 DEF L!MayExecute
        <3>7. number = L!Later(sequenceNumber[n], s) /\ number \in 0..MaxSeq
            BY <1>1, <1>2, BoundsAssumption DEF Larger, L!Later, TypeOK, LedgerType
        <3>8. SnapshotsTaken' = SnapshotsTaken \cup
                 (IF number % CHECKPOINT = 0
                  THEN {L!SnapshotAt(number, L!Execution(n, s))} ELSE {})
            <4>. DEFINE m == [number |-> SlotId(0, number), snapshot |-> L!Execution(n, s)]
            <4>1. viewNumber[n] = 0
                BY <1>2 DEF InFirstView
            <4>2. /\ \A p \in Nodes \ {n} : snapshots'[p] = snapshots[p]
                  /\ InChannel(snapshots'[n]) = InChannel(snapshots[n]) \cup
                        (IF number % CHECKPOINT = 0 THEN {m} ELSE {})
                <5>. HIDE DEF n, number, slot, s
                <5>1. PICK request : request = slot.request
                    OBVIOUS
                <5>2. tryCheckpoint(n, number, Applied(store[n], request))
                    BY <2>2, <5>1
                <5>3. m = [number |-> SlotId(0, number), snapshot |-> Applied(store[n], request)]
                    BY <3>2, <5>1
                <5>. HIDE DEF m
                <5>. QED
                    BY <1>1, <1>2, <3>7, <4>1, <5>2, <5>3, ExecutionInChannel
            <4>3. Taken(m) = L!SnapshotAt(number, L!Execution(n, s))
                BY DEF Taken, L!SnapshotAt, SlotId
            <4>. HIDE DEF m, n, number, s
            <4>4. ASSUME NEW x
                  PROVE  x \in SnapshotsTaken' <=>
                            x \in SnapshotsTaken \/ (number % CHECKPOINT = 0 /\ x = Taken(m))
                <5>1. (\E y \in InChannel(snapshots'[n]) : x = Taken(y)) <=>
                         \/ \E y \in InChannel(snapshots[n]) : x = Taken(y)
                         \/ number % CHECKPOINT = 0 /\ x = Taken(m)
                    BY <4>2
                <5>. QED
                    BY <1>2, <1>4, <4>2, <5>1, TakenMembers
            <4>. QED
                BY <4>3, <4>4
        <3>9. L!Execute(n, s)
            <4>. HIDE DEF n, number, slot, s, id
            <4>. QED
                BY <1>6, <2>2, <3>1, <3>2, <3>3, <3>4, <3>5, <3>6, <3>7, <3>8 DEF L!Execute
        <3>. QED
            BY <1>2, <3>9 DEF L!LedgerNext, L!Numbers
    <2>. QED
        BY <1>6, <2>1, <2>2 DEF Execute
<1>. QED
    BY <1>5, <1>6 DEF handleCommit

\* A function does not differ from itself.
LEMMA NoValueUpdated ==
    ASSUME NEW S, NEW f, f = [x \in S |-> f[x]], NEW n \in S
    PROVE  f = [f EXCEPT ![n] = f[n]]
BY OneValueUpdated

\* A checkpoint that has been taken, and is not passed, becomes stable; or the node
\* blocks on its KeyNode.
LEMMA CheckpointedRefines ==
    ASSUME ClusterInv, TypeOK', FirstViewFacts, NEW n \in Nodes, Running(n),
           NEW checkpoint \in CheckpointProof, checkpoint.number.viewNumber = 0,
           Taken(checkpoint) \in SnapshotsTaken, NEW pending, NEW queue,
           Checkpointed(n, checkpoint, pending, queue),
           UNCHANGED <<sentPrePrepares, SnapshotsTaken>>
    PROVE  UNCHANGED L!ledger \/ L!LedgerNext
<1>. DEFINE number == checkpoint.number.seqNumber
            flushed == Flushed(pending, checkpoint.number)
            forgotten == {s \in 2..MaxSeq : FirstView(s) \in flushed}
<1>1. /\ TypeOK /\ UNCHANGED Chosen
      /\ Taken(checkpoint).number = number /\ Taken(checkpoint).snapshot = checkpoint.snapshot
    BY SameMapping DEF ClusterInv, AgreementInv, Taken
<1>2. CASE UNCHANGED <<lastCheckpoint, log, sequenceNumber, store, mainLoop>>
    BY <1>1, <1>2, SameMapping DEF L!ledger
<1>3. CASE /\ ~IsPassed(n, checkpoint.number)
           /\ lastCheckpoint' = [lastCheckpoint EXCEPT ![n] = checkpoint]
           /\ log' = [log EXCEPT ![n] =
                        [id \in SlotIds |-> IF id \in flushed THEN EmptySlot ELSE log[n][id]]]
           /\ CatchUpTo(n, checkpoint, queue)
    <2>. HIDE DEF flushed
    <2>1. /\ \A p \in Nodes \ {n} : UNCHANGED <<log[p], lastCheckpoint[p]>>
          /\ lastCheckpoint'[n] = checkpoint
          /\ \A id \in SlotIds : log'[n][id] = IF id \in flushed THEN EmptySlot ELSE log[n][id]
        BY <1>1, <1>3 DEF TypeOK, LedgerType, CheckpointType
    <2>2. /\ number \in Nat /\ LastStable[n] \in Nat
          /\ sequenceNumber[n] \in Nat /\ sequenceNumber \in [Nodes -> 1..MaxSeq]
        BY <1>1, SlotIdsType, BoundsAssumption
        DEF LastStable, TypeOK, LedgerType, CheckpointType, CheckpointProof
    <2>3. CASE mainLoop' = [mainLoop EXCEPT ![n] = "blocked"] /\ UNCHANGED <<sequenceNumber, store>>
        <3>1. L!Halt(n)
            BY <1>1, <2>1, <2>3, LedgerHalts
        <3>. QED
            BY <3>1 DEF L!LedgerNext
    <2>4. CASE /\ UNCHANGED mainLoop
               /\ \/ /\ ~IsBehind(n, checkpoint.number)
                     /\ UNCHANGED <<sequenceNumber, store>>
                  \/ /\ IsBehind(n, checkpoint.number)
                     /\ store' = [store EXCEPT ![n] = checkpoint.snapshot]
                     /\ sequenceNumber' = [sequenceNumber EXCEPT ![n] = number]
        <3>1. UNCHANGED Halted /\ ~Halted[n]
            BY <2>4, SameMapping DEF Halted
        <3>2. number >= LastStable[n]
            <4>1. lastCheckpoint[n].number.viewNumber = 0
                BY StableOfFirstView
            <4>2. LastStable[n] = lastCheckpoint[n].number.seqNumber
                BY DEF LastStable
            <4>. QED
                BY <1>3, <2>2, <4>1, <4>2 DEF IsPassed, Before
        <3>3. LastStable' = [LastStable EXCEPT ![n] = number]
            <4>1. /\ LastStable = [p \in Nodes |-> LastStable[p]]
                  /\ LastStable' = [p \in Nodes |-> LastStable'[p]]
                  /\ LastStable'[n] = number
                  /\ \A p \in Nodes \ {n} : LastStable'[p] = LastStable[p]
                BY <2>1 DEF LastStable
            <4>2. LastStable' = [LastStable EXCEPT ![n] = LastStable'[n]]
                BY <4>1, OneValueUpdated
            <4>. QED
                BY <4>1, <4>2
        <3>4. /\ sequenceNumber' = [sequenceNumber EXCEPT ![n] = L!Later(@, number)]
              /\ store' = [store EXCEPT ![n] = IF sequenceNumber[n] < number
                                               THEN checkpoint.snapshot ELSE @]
            <4>. HIDE DEF number
            <4>1. /\ sequenceNumber = [sequenceNumber EXCEPT ![n] = sequenceNumber[n]]
                  /\ store = [store EXCEPT ![n] = store[n]]
                BY <1>1 DEF TypeOK, LedgerType, KeyType
            <4>2. CASE sequenceNumber[n] < number
                <5>1. L!Later(sequenceNumber[n], number) = number
                    BY <2>2, <4>2 DEF L!Later
                <5>. QED
                    BY <2>4, <4>2, <5>1 DEF IsBehind, number
            <4>3. CASE ~(sequenceNumber[n] < number)
                <5>1. L!Later(sequenceNumber[n], number) = sequenceNumber[n]
                    BY <2>2, <4>3 DEF L!Later
                <5>. QED
                    BY <2>4, <4>1, <4>3, <5>1 DEF IsBehind, number
            <4>. QED
                BY <4>2, <4>3
        <3>5. forgotten \in SUBSET {s \in L!Numbers : s <= number}
            <4>1. ASSUME NEW s \in 2..MaxSeq, FirstView(s) \in flushed
                  PROVE  s <= number
                BY <2>2, <4>1, FirstViewType DEF flushed, Flushed, BeforeOrEqual
            <4>. QED
                BY <4>1 DEF L!Numbers
        <3>6. /\ KnownNumbers' = [KnownNumbers EXCEPT ![n] = @ \ forgotten]
              /\ ExecutedNumbers' = [ExecutedNumbers EXCEPT ![n] = @ \ forgotten]
            <4>1. \A p \in Nodes \ {n} : /\ KnownNumbers'[p] = KnownNumbers[p]
                                         /\ ExecutedNumbers'[p] = ExecutedNumbers[p]
                BY <2>1 DEF KnownNumbers, ExecutedNumbers, FirstView, SlotId
            <4>2. \A s \in 2..MaxSeq :
                     /\ s \in KnownNumbers'[n] <=> s \in KnownNumbers[n] \ forgotten
                     /\ s \in ExecutedNumbers'[n] <=> s \in ExecutedNumbers[n] \ forgotten
                BY <2>1, FirstViewType, LogMapping DEF EmptySlot
            <4>. HIDE DEF forgotten
            <4>3. /\ KnownNumbers'[n] = KnownNumbers[n] \ forgotten
                  /\ ExecutedNumbers'[n] = ExecutedNumbers[n] \ forgotten
                BY <4>2, LogMapping
            <4>4. /\ KnownNumbers' = [KnownNumbers EXCEPT ![n] = KnownNumbers'[n]]
                  /\ ExecutedNumbers' = [ExecutedNumbers EXCEPT ![n] = ExecutedNumbers'[n]]
                BY <4>1, LogMapping, OneValueUpdated
            <4>. QED
                BY <4>3, <4>4
        <3>7. L!Stabilise(n, Taken(checkpoint))
            <4>. HIDE DEF number, forgotten
            <4>. QED
                BY <1>1, <3>1, <3>2, <3>3, <3>4, <3>5, <3>6 DEF L!Stabilise
        <3>. QED
            BY <3>7 DEF L!LedgerNext
    <2>. QED
        BY <1>3, <2>3, <2>4 DEF CatchUpTo
<1>. QED
    BY <1>2, <1>3 DEF Checkpointed

\* A vote for a checkpoint that was taken.
LEMMA VoteRefines ==
    ASSUME ClusterInv, TypeOK', FirstViewFacts, NEW n \in Nodes, Running(n),
           NEW message \in Checkpoint, message.number.viewNumber = 0,
           message \in sentCheckpoints', NEW queue,
           handleCheckpointNoValidation(n, message, queue),
           UNCHANGED <<sentPrePrepares, SnapshotsTaken>>
    PROVE  UNCHANGED L!ledger \/ L!LedgerNext
<1>. DEFINE number == message.number
            old == pendingCheckpoints[n][number]
            pending == Voted(pendingCheckpoints[n], message)
            checkpoint == [number |-> number, snapshot |-> pending[number].snapshot]
<1>1. TypeOK /\ number \in SlotIds /\ message.snapshot \in Snapshot
    BY DEF ClusterInv, AgreementInv, Checkpoint
<1>2. CASE UNCHANGED <<lastCheckpoint, log, sequenceNumber, store, mainLoop>>
    BY <1>2, SameMapping DEF L!ledger
<1>3. CASE Checkpointed(n, checkpoint, pending, queue)
    <2>1. old \in Pending /\ pendingCheckpoints[n] \in [SlotIds -> Pending]
        BY <1>1 DEF TypeOK, CheckpointType
    <2>2. pending[number].snapshot = IF old.proof = {} THEN message.snapshot ELSE old.snapshot
        BY <1>1, <2>1 DEF Voted
    <2>3. \E m \in sentCheckpoints \cup sentCheckpoints' :
             m.number = number /\ m.snapshot = pending[number].snapshot
        <3>1. CASE old.proof = {}
            BY <2>2, <3>1
        <3>2. CASE old.proof # {}
            <4>1. \E m \in sentCheckpoints : m.number = number /\ m.snapshot = old.snapshot
                BY <1>1, <3>2 DEF ClusterInv, CheckpointInv, NodesSound, Sound
            <4>. QED
                BY <2>2, <3>2, <4>1
        <3>. QED
            BY <3>1, <3>2
    <2>4. Taken(checkpoint) \in SnapshotsTaken
        <3>1. PICK m \in sentCheckpoints \cup sentCheckpoints' : Taken(m) = Taken(checkpoint)
            BY <2>3 DEF Taken
        <3>. QED
            BY <3>1, TakenMembers
    <2>5. checkpoint \in CheckpointProof /\ checkpoint.number.viewNumber = 0
        BY <1>1, <2>1, <2>2 DEF CheckpointProof, Pending
    <2>. HIDE DEF checkpoint, pending
    <2>. QED
        BY <1>3, <2>4, <2>5, CheckpointedRefines
<1>. QED
    BY <1>2, <1>3 DEF handleCheckpointNoValidation, checkpointVars

\* A checkpoint of another node.
LEMMA handleCheckpointRefines ==
    ASSUME ClusterInv, TypeOK', FirstViewFacts, NEW packet \in inFlight,
           handleCheckpoint(packet)
    PROVE  UNCHANGED L!ledger \/ L!LedgerNext
<1>1. packet.to \in Nodes /\ packet.message \in Checkpoint /\ packet.message \in sentCheckpoints
    BY PacketType DEF ClusterInv, CheckpointInv, TypeOK, VotesSent, handleCheckpoint, Delivered
<1>2. /\ handleCheckpointNoValidation(packet.to, packet.message, snapshots[packet.to])
      /\ UNCHANGED <<sentPrePrepares, sentCheckpoints, snapshots>> /\ Running(packet.to)
    BY DEF handleCheckpoint, checkpointFrame, normalMessages, Delivered
<1>3. packet.message.number.viewNumber = 0
    BY <1>1 DEF FirstViewFacts, CheckpointsOfFirstView
<1>. QED
    BY <1>1, <1>2, <1>3, SameMapping, VoteRefines

\* A checkpoint of the node's own: the snapshot it signs was in its channel.
LEMMA handleRecvSnapshotRefines ==
    ASSUME ClusterInv, TypeOK', FirstViewFacts, NEW n \in Nodes, handleRecvSnapshot(n)
    PROVE  UNCHANGED L!ledger \/ L!LedgerNext
<1>. DEFINE head == Head(snapshots[n])
            message == [number |-> head.number, snapshot |-> head.snapshot, node |-> n]
<1>1. TypeOK /\ snapshots[n] \in Seq(CheckpointProof) /\ snapshots[n] # <<>>
    BY DEF ClusterInv, CheckpointInv, TypeOK, KeyType, handleRecvSnapshot
<1>2. head \in CheckpointProof /\ head \in InChannel(snapshots[n])
    BY <1>1, ChannelEnds
<1>3. message \in Checkpoint /\ message.number.viewNumber = 0
    BY <1>2 DEF CheckpointProof, Checkpoint, FirstViewFacts, CheckpointsOfFirstView
<1>4. /\ handleCheckpointNoValidation(n, message, Tail(snapshots[n]))
      /\ sentCheckpoints' = sentCheckpoints \cup {message}
      /\ UNCHANGED sentPrePrepares /\ Running(n)
    BY DEF handleRecvSnapshot, checkpointFrame, normalMessages
<1>5. UNCHANGED SnapshotsTaken
    <2>1. PICK m \in sentCheckpoints', first \in InChannel(snapshots[n]) :
             /\ sentCheckpoints' = sentCheckpoints \cup {m}
             /\ m.number = first.number /\ m.snapshot = first.snapshot
             /\ InChannel(snapshots[n]) = InChannel(snapshots'[n]) \cup {first}
             /\ \A p \in Nodes \ {n} : snapshots'[p] = snapshots[p]
        BY <1>1, SignedFromChannel
    <2>2. Taken(m) = Taken(first)
        BY <2>1 DEF Taken
    <2>3. ASSUME NEW x
          PROVE  x \in SnapshotsTaken' <=> x \in SnapshotsTaken
        BY <2>1, <2>2, TakenMembers
    <2>. QED
        BY <2>3
<1>. HIDE DEF message
<1>. QED
    BY <1>3, <1>4, <1>5, VoteRefines

\* A checkpoint that a heartbeat proves.
LEMMA handleCheckpointProofRefines ==
    ASSUME ClusterInv, TypeOK', FirstViewFacts, NEW rpc \in rpcs,
           rpc.kind = "CheckpointProof", Running(rpc.to),
           handleCheckpointProof(rpc.to, rpc.body)
    PROVE  UNCHANGED L!ledger \/ L!LedgerNext
<1>1. /\ Checkpointed(rpc.to, rpc.body, pendingCheckpoints[rpc.to], snapshots[rpc.to])
      /\ UNCHANGED <<sentPrePrepares, sentCheckpoints, snapshots>>
    BY DEF handleCheckpointProof, checkpointFrame, normalMessages
<1>2. rpc.to \in Nodes /\ rpc.body \in CheckpointProof
    BY RpcType DEF ClusterInv, CheckpointInv, TypeOK
<1>3. PICK m \in sentCheckpoints : m.number = rpc.body.number /\ m.snapshot = rpc.body.snapshot
    BY DEF ClusterInv, CheckpointInv, ProofsCertified, Signed
<1>4. rpc.body.number.viewNumber = 0
    BY <1>3 DEF FirstViewFacts, CheckpointsOfFirstView
<1>5. Taken(rpc.body) \in SnapshotsTaken
    <2>1. Taken(rpc.body) = Taken(m)
        BY <1>3 DEF Taken
    <2>. QED
        BY <2>1, TakenMembers
<1>. QED
    BY <1>1, <1>2, <1>4, <1>5, SameMapping, CheckpointedRefines

\* A heartbeat that panics halts the primary; another one is no step of the Ledger.
LEMMA SendHeartbeatRefines ==
    ASSUME ClusterInv, TypeOK', NEW n \in Nodes, SendHeartbeat(n)
    PROVE  UNCHANGED L!ledger \/ L!LedgerNext
<1>1. TypeOK /\ Running(n)
    BY DEF ClusterInv, CheckpointInv, SendHeartbeat
<1>2. UNCHANGED <<log, sentPrePrepares, lastCheckpoint, sentCheckpoints, snapshots,
                  sequenceNumber, store>>
    BY DEF SendHeartbeat, ledgerVars, checkpointVars, keyVars, normalMessages
<1>3. CASE UNCHANGED mainLoop
    BY <1>2, <1>3, LedgerStutters
<1>4. CASE mainLoop' = [mainLoop EXCEPT ![n] = "panicked"]
    <2>1. L!Halt(n)
        BY <1>1, <1>2, <1>4, SameMapping, LedgerHalts
    <2>. QED
        BY <2>1 DEF L!LedgerNext
<1>. QED
    BY <1>3, <1>4 DEF SendHeartbeat

-----------------------------------------------------------------------------
(* The cluster and the Ledger. *)

\* The Ledger of the proofs is the Ledger that the cluster refines.
LEMMA LedgerOfProofs ==
    UNCHANGED L!ledger \/ L!LedgerNext => UNCHANGED LP!ledger \/ LP!LedgerNext
<1>1. UNCHANGED L!ledger => UNCHANGED LP!ledger
    BY DEF L!ledger, LP!ledger
<1>2. \A n, r, s : L!ChooseAt(n, r, s) => LP!ChooseAt(n, r, s)
    BY DEF L!ChooseAt, LP!ChooseAt, L!Choose, LP!Choose, L!IsChosen, LP!IsChosen, L!Numbers,
        LP!Numbers
<1>3. \A n, s : L!Learn(n, s) => LP!Learn(n, s)
    BY DEF L!Learn, LP!Learn
<1>4. \A n, s : L!Execute(n, s) => LP!Execute(n, s)
    BY DEF L!Execute, LP!Execute, L!Execution, LP!Execution, L!MayExecute, LP!MayExecute,
        L!SnapshotAt, LP!SnapshotAt, L!Later, LP!Later
<1>5. \A n, t : L!Stabilise(n, t) => LP!Stabilise(n, t)
    BY DEF L!Stabilise, LP!Stabilise, L!Later, LP!Later, L!Numbers, LP!Numbers
<1>6. \A n : L!Halt(n) => LP!Halt(n)
    BY DEF L!Halt, LP!Halt, L!Numbers, LP!Numbers
<1>. QED
    BY <1>1, <1>2, <1>3, <1>4, <1>5, <1>6 DEF L!LedgerNext, LP!LedgerNext, L!Numbers, LP!Numbers

\* A cluster that has just started is a Ledger that has.
LEMMA LedgerStarts == Init => L!LedgerInit
<1>. SUFFICES ASSUME Init
              PROVE  L!LedgerInit
    OBVIOUS
<1>1. Chosen = [s \in 2..MaxSeq |-> Nil]
    <2>1. \A s : ProposedFor(s) = {}
        BY DEF Init, ProposedFor
    <2>. QED
        BY <2>1 DEF Chosen, RequestOf
<1>2. KnownNumbers = [n \in Nodes |-> {}] /\ ExecutedNumbers = [n \in Nodes |-> {}]
    <2>1. \A n \in Nodes, s \in 2..MaxSeq : /\ log[n][FirstView(s)].request = Nil
                                            /\ ~log[n][FirstView(s)].committed
        BY FirstViewType DEF Init, EmptySlot
    <2>. QED
        BY <2>1 DEF KnownNumbers, ExecutedNumbers
<1>3. LastStable = [n \in Nodes |-> 0] /\ Halted = [n \in Nodes |-> FALSE]
    BY DEF Init, LastStable, SlotId, Halted, Running
<1>4. SnapshotsTaken = {}
    <2>1. \A p \in Nodes : InChannel(snapshots[p]) = {}
        BY DEF Init, InChannel
    <2>. QED
        BY <2>1, TakenMembers DEF Init
<1>. QED
    BY <1>1, <1>2, <1>3, <1>4 DEF Init, L!LedgerInit, L!Numbers

\* Every step that leaves the cluster in view 0 is a step of the Ledger.
LEMMA LedgerSteps ==
    ASSUME FirstViewInv, InFirstView, InFirstView', [Next]_vars
    PROVE  UNCHANGED L!ledger \/ L!LedgerNext
<1>1. ClusterInv /\ FirstViewFacts /\ TypeOK'
    BY FirstViewNext DEF FirstViewInv, ClusterInv, AgreementInv
<1>2. ASSUME UNCHANGED <<log, sequenceNumber, issuedSequenceNumber, requests, lastCheckpoint,
                         mainLoop, keyVars, sentPrePrepares, sentCheckpoints, sentNewViews>>
      PROVE  UNCHANGED L!ledger
    BY <1>2, LedgerStutters DEF keyVars
<1>. QED
    BY <1>1, <1>2, FirstViewStep, handleClientRequestRefines, handlePrePrepareRefines,
        handlePrepareRefines, handleCommitRefines, handleCheckpointRefines,
        handleRecvSnapshotRefines, SendHeartbeatRefines, handleCheckpointProofRefines

\* In a cluster that stays in view 0 every handler of node.go and checkpoint.go is a
\* step of the Ledger, or none.
THEOREM RefinesLedgerHolds == Spec /\ []InFirstView => RefinesLedger
<1>1. FirstViewInv /\ InFirstView /\ InFirstView' /\ [Next]_vars =>
          [UNCHANGED L!ledger \/ L!LedgerNext]_L!ledger
    BY LedgerSteps
<1>. QED
    BY <1>1, FirstViewInit, FirstViewNext, LedgerStarts, PTL DEF Spec, RefinesLedger, L!LedgerSpec

FirstLedgerInv == FirstViewInv /\ (InFirstView => LP!LedgerInv)

\* Until a view change a cluster has the invariant of the Ledger.
LEMMA FirstLedgerInvariant == Spec => []FirstLedgerInv
<1>1. Init => FirstLedgerInv
    <2>1. L!LedgerInit => LP!LedgerInit
        BY DEF L!LedgerInit, LP!LedgerInit, L!Numbers, LP!Numbers
    <2>2. LP!NilAssumption /\ LP!NumbersAssumption
        BY RequestsAssumption, BoundsAssumption, CheckpointAssumption
        DEF LP!NilAssumption, LP!NumbersAssumption
    <2>. QED
        BY <2>1, <2>2, FirstViewInit, LedgerStarts, LP!LedgerInvInit DEF FirstLedgerInv
<1>2. FirstLedgerInv /\ [Next]_vars => FirstLedgerInv'
    <2>. SUFFICES ASSUME FirstLedgerInv, [Next]_vars
                  PROVE  FirstLedgerInv'
        OBVIOUS
    <2>1. FirstViewInv'
        BY FirstViewNext DEF FirstLedgerInv
    <2>2. InFirstView' => InFirstView
        BY <2>1, FirstViewProgress DEF FirstLedgerInv, FirstViewInv, ClusterInv, InFirstView
    <2>3. ASSUME InFirstView'
          PROVE  LP!LedgerInv'
        <3>1. UNCHANGED LP!ledger \/ LP!LedgerNext
            BY <2>2, <2>3, LedgerSteps, LedgerOfProofs DEF FirstLedgerInv
        <3>2. LP!NilAssumption /\ LP!NumbersAssumption
            BY RequestsAssumption, BoundsAssumption, CheckpointAssumption
            DEF LP!NilAssumption, LP!NumbersAssumption
        <3>. QED
            BY <2>2, <2>3, <3>1, <3>2, LP!LedgerInvNext DEF FirstLedgerInv
    <2>. QED
        BY <2>1, <2>3 DEF FirstLedgerInv
<1>. QED
    BY <1>1, <1>2, PTL DEF Spec

-----------------------------------------------------------------------------
(* What the key stores apply. *)

\* A step that takes a node into another view applies nothing.
LEMMA StoreOrView ==
    ASSUME [Next]_vars
    PROVE  UNCHANGED store \/ UNCHANGED viewNumber
<1>1. ASSUME NEW n, NEW r, NEW done, handleClientRequest(n, r, done)
      PROVE  UNCHANGED viewNumber
    BY <1>1 DEF handleClientRequest, normalFrame
<1>2. ASSUME NEW n, NEW pp, NEW done, handlePrePrepare(n, pp, done)
      PROVE  UNCHANGED viewNumber
    BY <1>2 DEF handlePrePrepare, normalFrame
<1>3. ASSUME NEW packet, \/ handlePrepare(packet) \/ handleCommit(packet)
                         \/ handleCheckpoint(packet) \/ handleViewChange(packet)
      PROVE  UNCHANGED store \/ UNCHANGED viewNumber
    BY <1>3 DEF handlePrepare, handleCommit, handleCheckpoint, handleViewChange, normalFrame,
        checkpointFrame, viewChangeFrame, keyVars
<1>4. ASSUME NEW n, \/ handleRecvSnapshot(n) \/ SendHeartbeat(n) \/ Timeout(n)
                    \/ DebugDown(n) \/ DebugUp(n)
      PROVE  UNCHANGED store \/ UNCHANGED viewNumber
    BY <1>4 DEF handleRecvSnapshot, SendHeartbeat, Timeout, DebugDown, DebugUp, debugFrame,
        checkpointFrame, ledgerVars, keyVars
<1>5. ASSUME NEW rpc, RpcArrives(rpc) \/ RpcReturns(rpc) \/ RpcTimesOut(rpc)
      PROVE  UNCHANGED store
    BY <1>5 DEF RpcArrives, RpcReturns, RpcTimesOut, rpcFrame, keyVars
<1>6. ASSUME NEW rpc, RpcHandled(rpc)
      PROVE  UNCHANGED store \/ UNCHANGED viewNumber
    BY <1>2, <1>6 DEF RpcHandled, handleNewView, handleCheckpointProof, checkpointFrame,
        viewChangeFrame, keyVars
<1>7. UNCHANGED vars => UNCHANGED store
    BY DEF vars, keyVars
<1>. QED
    BY <1>1, <1>2, <1>3, <1>4, <1>5, <1>6, <1>7
    DEF Next, Propose, ClientRequest, PrePrepareReceived

\* A node of a cluster in view 0 applies an operation again only as that of the last
\* checkpoint's own number.
LEMMA AppliedOnceStep ==
    ASSUME FirstLedgerInv, [Next]_vars, InFirstView, NEW n \in Nodes,
           store'[n] # store[n], lastCheckpoint'[n] = lastCheckpoint[n],
           NEW i \in 1..Len(store[n]), store[n][i] = store'[n][Len(store'[n])]
    PROVE  \E pp \in sentPrePrepares :
              pp.number = lastCheckpoint[n].number /\ pp.request = store'[n][Len(store'[n])]
<1>. DEFINE r == store'[n][Len(store'[n])]
            s == LastStable[n]
<1>1. TypeOK /\ ClusterInv /\ FirstViewFacts /\ LP!LedgerInv
    BY DEF FirstLedgerInv, FirstViewInv, ClusterInv, AgreementInv
<1>2. InFirstView'
    BY StoreOrView DEF InFirstView
<1>3. UNCHANGED LP!ledger \/ LP!LedgerNext
    BY <1>2, LedgerSteps, LedgerOfProofs DEF FirstLedgerInv
<1>4. LastStable'[n] = LastStable[n] /\ s = lastCheckpoint[n].number.seqNumber
    BY DEF LastStable
<1>5. store[n] \in Seq(Requests)
    BY <1>1 DEF TypeOK, KeyType, Snapshot
<1>6. LP!InStore(n, r) /\ r \in Requests
    BY <1>5 DEF LP!InStore
<1>7. LP!NilAssumption /\ LP!NumbersAssumption
    BY RequestsAssumption, BoundsAssumption, CheckpointAssumption
    DEF LP!NilAssumption, LP!NumbersAssumption
<1>8. s \in 2..MaxSeq /\ Chosen[s] = r
    BY <1>1, <1>3, <1>4, <1>6, <1>7, LP!AppliesOnceStep DEF LP!Numbers
<1>9. lastCheckpoint[n].number = FirstView(s)
    BY <1>1, <1>4, StableOfFirstView, FirstViewOf DEF TypeOK, CheckpointType, CheckpointProof
<1>10. Chosen[s] # Nil
    BY <1>6, <1>8, RequestsAssumption
<1>11. \E pp \in sentPrePrepares : pp.number = FirstView(s) /\ pp.request = Chosen[s]
    BY <1>1, <1>8, <1>10, ChosenType
<1>. QED
    BY <1>8, <1>9, <1>11

\* Until a view change no node executes an operation its key store has applied, but
\* for that of the last checkpoint's own number (handleCommit).
THEOREM AppliedOnceHolds == Spec => AppliedOnce
<1>1. FirstLedgerInv /\ [Next]_vars =>
        [\A n \in Nodes :
            /\ \A m \in Nodes : viewNumber[m] = 0
            /\ store'[n] # store[n] /\ lastCheckpoint'[n] = lastCheckpoint[n]
            => LET r == store'[n][Len(store'[n])] IN
               (\E i \in 1..Len(store[n]) : store[n][i] = r)
               => \E pp \in sentPrePrepares :
                     pp.number = lastCheckpoint[n].number /\ pp.request = r]_vars
    BY AppliedOnceStep DEF InFirstView
<1>. QED
    BY <1>1, FirstLedgerInvariant, PTL DEF Spec, AppliedOnce
-----------------------------------------------------------------------------
(* What a view change says of the commits of view 0. *)

\* A node commits only what it has prepared, and stays prepared until a checkpoint
\* has passed.
CommitsKept ==
    \A c \in sentCommits : \/ c.number.seqNumber <= LastStable[c.node]
                           \/ IsPrepared(log[c.node][c.number])

\* Once it has asked for another view it commits no more in view 0, so that the proofs
\* it has sent are of all it has committed.
ChangesGoOn == \A vc \in sentViewChanges : changing[vc.node]

CommitsProved ==
    \A vc \in sentViewChanges, c \in sentCommits : c.node = vc.node =>
        \/ c.number.seqNumber <= vc.checkpoint.seqNumber
        \/ \E proof \in vc.proofs : proof.number = c.number

ProofsProposed ==
    \A vc \in sentViewChanges : \A proof \in vc.proofs :
        \E pp \in sentPrePrepares : pp.number = proof.number /\ pp.request = proof.request

CarryingFacts == CommitsKept /\ ChangesGoOn /\ CommitsProved /\ ProofsProposed

CarryingInv == FirstViewInv /\ (InFirstView => CarryingFacts)

\* A slot does not stop to be prepared as long as it has a request and loses no votes.
LEMMA PreparedGrows ==
    ASSUME NEW old, NEW new \in Slot, IsPrepared(old), new.request # Nil,
           old.prepares \subseteq new.prepares
    PROVE  IsPrepared(new)
<1>1. new.prepares \subseteq Nodes
    BY DEF Slot
<1>2. IsFiniteSet(new.prepares)
    BY <1>1, FS_Subset, NodesAssumption
<1>3. /\ Cardinality(old.prepares) <= Cardinality(new.prepares)
      /\ Cardinality(old.prepares) \in Nat /\ Cardinality(new.prepares) \in Nat
    BY <1>2, FS_Subset, FS_CardinalityType
<1>. QED
    BY <1>3, QuorumType DEF IsPrepared, IsProposed

\* An update that takes no vote and no request from a slot unprepares none.
LEMMA PreparedAfterUpdate ==
    ASSUME TypeOK, NEW n \in Nodes, NEW id \in SlotIds, NEW slot \in Slot,
           log' = [log EXCEPT ![n][id] = slot],
           log[n][id].request # Nil =>
               slot.request # Nil /\ log[n][id].prepares \subseteq slot.prepares
    PROVE  \A p \in Nodes, i \in SlotIds : IsPrepared(log[p][i]) => IsPrepared(log'[p][i])
<1>1. ASSUME IsPrepared(log[n][id])
      PROVE  IsPrepared(log'[n][id])
    <2>1. log[n][id].request # Nil
        BY <1>1 DEF IsPrepared, IsProposed
    <2>2. slot.request # Nil /\ log[n][id].prepares \subseteq slot.prepares
        BY <2>1
    <2>3. IsPrepared(slot)
        BY <1>1, <2>2, PreparedGrows
    <2>4. log'[n][id] = slot
        BY DEF TypeOK, LedgerType
    <2>. QED
        BY <2>3, <2>4
<1>. QED
    BY <1>1, OneSlotUpdated

\* checkpointed() flushes nothing after the checkpoint it makes the node's last.
LEMMA FlushedUpTo ==
    ASSUME TypeOK, NEW n \in Nodes, NEW checkpoint, NEW pending, NEW queue,
           Checkpointed(n, checkpoint, pending, queue)
    PROVE  \A p \in Nodes, id \in SlotIds :
              log'[p][id] = log[p][id] \/ BeforeOrEqual(id, lastCheckpoint'[p].number)
<1>1. CASE UNCHANGED log
    BY <1>1
<1>2. CASE /\ lastCheckpoint' = [lastCheckpoint EXCEPT ![n] = checkpoint]
           /\ log' = [log EXCEPT ![n] =
                        [id \in SlotIds |-> IF id \in Flushed(pending, checkpoint.number)
                                            THEN EmptySlot ELSE log[n][id]]]
    BY <1>2 DEF TypeOK, LedgerType, CheckpointType, Flushed
<1>. QED
    BY <1>1, <1>2 DEF Checkpointed

\* No step of a checkpoint unprepares a slot after it.
LEMMA CheckpointKeepsPrepared ==
    ASSUME TypeOK,
           \/ \E packet \in inFlight : handleCheckpoint(packet)
           \/ \E n \in Nodes : handleRecvSnapshot(n)
           \/ \E rpc \in rpcs :
                 rpc.kind = "CheckpointProof" /\ handleCheckpointProof(rpc.to, rpc.body)
    PROVE  \A p \in Nodes, id \in SlotIds :
              log'[p][id] = log[p][id] \/ BeforeOrEqual(id, lastCheckpoint'[p].number)
<1>1. ASSUME NEW n \in Nodes, NEW message, NEW queue,
             handleCheckpointNoValidation(n, message, queue)
      PROVE  \A p \in Nodes, id \in SlotIds :
                log'[p][id] = log[p][id] \/ BeforeOrEqual(id, lastCheckpoint'[p].number)
    BY <1>1, FlushedUpTo DEF handleCheckpointNoValidation
<1>2. ASSUME NEW packet \in inFlight, handleCheckpoint(packet)
      PROVE  \A p \in Nodes, id \in SlotIds :
                log'[p][id] = log[p][id] \/ BeforeOrEqual(id, lastCheckpoint'[p].number)
    BY <1>1, <1>2, PacketType DEF handleCheckpoint, TypeOK
<1>3. ASSUME NEW n \in Nodes, handleRecvSnapshot(n)
      PROVE  \A p \in Nodes, id \in SlotIds :
                log'[p][id] = log[p][id] \/ BeforeOrEqual(id, lastCheckpoint'[p].number)
    BY <1>1, <1>3 DEF handleRecvSnapshot
<1>4. ASSUME NEW rpc \in rpcs, rpc.kind = "CheckpointProof",
             handleCheckpointProof(rpc.to, rpc.body)
      PROVE  \A p \in Nodes, id \in SlotIds :
                log'[p][id] = log[p][id] \/ BeforeOrEqual(id, lastCheckpoint'[p].number)
    BY <1>4, FlushedUpTo, RpcType DEF handleCheckpointProof, TypeOK
<1>. QED
    BY <1>2, <1>3, <1>4

\* A step of view 0 unprepares no slot that is proposed and after the checkpoint.
LEMMA PreparedStays ==
    ASSUME ClusterInv, TypeOK', FirstViewFacts, InFirstView, InFirstView', [Next]_vars,
           NEW p \in Nodes, NEW old \in sentPrePrepares, IsPrepared(log[p][old.number])
    PROVE  \/ IsPrepared(log'[p][old.number])
           \/ BeforeOrEqual(old.number, lastCheckpoint'[p].number)
<1>1. TypeOK /\ old.number \in SlotIds
    BY DEF ClusterInv, AgreementInv, TypeOK, SentType, PrePrepare
<1>2. CASE UNCHANGED log
    BY <1>2
<1>3. ASSUME NEW n \in Nodes, NEW r \in Requests, NEW done, handleClientRequest(n, r, done)
      PROVE  IsPrepared(log'[p][old.number])
    <2>1. CASE PrimaryProposes(n, r, done)
        <3>1. PICK s \in 2..MaxSeq : /\ log' = [log EXCEPT ![n][FirstView(s)] = ProposedSlot(r, r)]
                                     /\ ProposedFor(s) = {}
            BY <1>3, <2>1, ProposalFacts DEF handleClientRequest
        <3>2. old.number # FirstView(s) /\ FirstView(s) \in SlotIds
            BY <3>1, FirstViewType DEF ProposedFor
        <3>. QED
            BY <1>1, <3>1, <3>2 DEF TypeOK, LedgerType
    <2>. QED
        BY <1>3, <2>1 DEF handleClientRequest, BackupForwards
<1>4. ASSUME NEW n \in Nodes, NEW pp \in PrePrepare, NEW done, handlePrePrepare(n, pp, done)
      PROVE  IsPrepared(log'[p][old.number])
    <2>1. pp.number \in SlotIds /\ log[n][pp.number] \in Slot
        BY <1>1 DEF PrePrepare, TypeOK, LedgerType
    <2>2. AcceptedSlot(n, log[n][pp.number], pp.request, pp.digest) \in Slot
        BY <2>1, SlotType DEF PrePrepare
    <2>3. CASE /\ log[n][pp.number].request = Nil
               /\ log' = [log EXCEPT ![n][pp.number] =
                            AcceptedSlot(n, @, pp.request, pp.digest)]
        BY <1>1, <2>1, <2>2, <2>3, PreparedAfterUpdate
    <2>. QED
        BY <1>4, <2>3 DEF handlePrePrepare, Accepts
<1>5. ASSUME NEW packet \in inFlight, handlePrepare(packet)
      PROVE  IsPrepared(log'[p][old.number])
    <2>. DEFINE n == packet.to
                id == packet.message.number
                slot == CountPrepare(log[n][id], packet.message.node)
    <2>1. n \in Nodes /\ id \in SlotIds /\ packet.message.node \in Nodes
        <3>1. packet \in Packet /\ packet.kind = "Prepare"
            BY <1>1, <1>5 DEF TypeOK, handlePrepare, Delivered
        <3>. QED
            BY <3>1, PacketType DEF Prepare
    <2>2. log[n][id] \in Slot
        BY <1>1, <2>1 DEF TypeOK, LedgerType
    <2>3. /\ slot \in Slot /\ CountCommit(slot, n) \in Slot
          /\ slot.request = log[n][id].request /\ CountCommit(slot, n).request = slot.request
          /\ log[n][id].prepares \subseteq slot.prepares
          /\ CountCommit(slot, n).prepares = slot.prepares
        <3>1. slot \in Slot /\ CountCommit(slot, n) \in Slot
            BY <2>1, <2>2, SlotType
        <3>. HIDE DEF n, id
        <3>. QED
            BY <2>2, <3>1 DEF CountPrepare, CountCommit, Slot
    <2>4. \/ log' = [log EXCEPT ![n][id] = slot]
          \/ log' = [log EXCEPT ![n][id] = CountCommit(slot, n)]
        BY <1>5 DEF handlePrepare
    <2>. HIDE DEF n, id, slot
    <2>. QED
        BY <1>1, <2>1, <2>3, <2>4, PreparedAfterUpdate
<1>6. ASSUME NEW packet \in inFlight, handleCommit(packet)
      PROVE  IsPrepared(log'[p][old.number])
    <2>. DEFINE n == packet.to
                id == packet.message.number
                slot == CountCommit(log[n][id], packet.message.node)
                last == [slot EXCEPT !.committed = TRUE]
    <2>1. n \in Nodes /\ id \in SlotIds /\ packet.message.node \in Nodes
        <3>1. packet \in Packet /\ packet.kind = "Commit"
            BY <1>1, <1>6 DEF TypeOK, handleCommit, Delivered
        <3>. QED
            BY <3>1, PacketType DEF Commit
    <2>2. log[n][id] \in Slot
        BY <1>1, <2>1 DEF TypeOK, LedgerType
    <2>3. /\ slot \in Slot /\ last \in Slot
          /\ slot.request = log[n][id].request /\ last.request = slot.request
          /\ slot.prepares = log[n][id].prepares /\ last.prepares = slot.prepares
        <3>1. slot \in Slot
            BY <2>1, <2>2, SlotType
        <3>. HIDE DEF n, id
        <3>. QED
            BY <2>2, <3>1 DEF CountCommit, Slot
    <2>4. log' = [log EXCEPT ![n][id] = slot] \/ log' = [log EXCEPT ![n][id] = last]
        BY <1>6 DEF handleCommit
    <2>. HIDE DEF n, id, slot, last
    <2>. QED
        BY <1>1, <2>1, <2>3, <2>4, PreparedAfterUpdate
<1>7. CASE \/ \E packet \in inFlight : handleCheckpoint(packet)
           \/ \E n \in Nodes : handleRecvSnapshot(n)
           \/ \E rpc \in rpcs :
                 rpc.kind = "CheckpointProof" /\ handleCheckpointProof(rpc.to, rpc.body)
    BY <1>1, <1>7, CheckpointKeepsPrepared
<1>8. ASSUME NEW n \in Nodes, SendHeartbeat(n)
      PROVE  UNCHANGED log
    BY <1>8 DEF SendHeartbeat, ledgerVars
<1>. QED
    BY <1>2, <1>3, <1>4, <1>5, <1>6, <1>7, <1>8, FirstViewStep

\* A step that commits is handlePrepare's, of a node that takes part, and the slot it
\* commits is prepared.
LEMMA CommitsOfPrepared ==
    ASSUME TypeOK, [Next]_vars
    PROVE  /\ sentCommits \subseteq sentCommits'
           /\ \A c \in sentCommits' \ sentCommits :
                 /\ c.node \in Nodes /\ ~changing[c.node] /\ UNCHANGED changeMessageVars
                 /\ IsPrepared(log'[c.node][c.number])
<1>1. ASSUME NEW packet \in inFlight, handlePrepare(packet)
      PROVE  /\ sentCommits \subseteq sentCommits'
             /\ \A c \in sentCommits' \ sentCommits :
                   /\ c.node \in Nodes /\ ~changing[c.node] /\ UNCHANGED changeMessageVars
                   /\ IsPrepared(log'[c.node][c.number])
    <2>. DEFINE n == packet.to
                id == packet.message.number
                slot == CountPrepare(log[n][id], packet.message.node)
                commit == [number |-> id, digest |-> packet.message.digest, node |-> n]
    <2>1. n \in Nodes /\ id \in SlotIds /\ packet.message.node \in Nodes
        <3>1. packet \in Packet /\ packet.kind = "Prepare"
            BY <1>1 DEF TypeOK, handlePrepare, Delivered
        <3>. QED
            BY <3>1, PacketType DEF Prepare
    <2>2. ~changing[n] /\ UNCHANGED changeMessageVars
        BY <1>1 DEF handlePrepare, TakesPart, normalFrame, changeMessageVars
    <2>3. CASE UNCHANGED sentCommits
        BY <2>3
    <2>4. CASE /\ IsPrepared(slot)
               /\ log' = [log EXCEPT ![n][id] = CountCommit(slot, n)]
               /\ sentCommits' = sentCommits \cup {commit}
        <3>1. log[n][id] \in Slot
            BY <2>1 DEF TypeOK, LedgerType
        <3>2. slot \in Slot
            BY <2>1, <3>1, SlotType
        <3>. HIDE DEF slot
        <3>3. CountCommit(slot, n) \in Slot /\ CountCommit(slot, n).prepares = slot.prepares
              /\ CountCommit(slot, n).request = slot.request
            BY <2>1, <3>2, SlotType DEF CountCommit, Slot
        <3>4. IsPrepared(CountCommit(slot, n))
            BY <2>4, <3>3 DEF IsPrepared, IsProposed
        <3>5. log'[n][id] = CountCommit(slot, n)
            BY <2>1, <2>4 DEF TypeOK, LedgerType
        <3>. QED
            BY <2>1, <2>2, <2>4, <3>4, <3>5
    <2>. QED
        BY <1>1, <2>3, <2>4 DEF handlePrepare
<1>2. ASSUME NEW packet \in inFlight,
             \/ ClientRequest(packet) \/ PrePrepareReceived(packet) \/ handleCommit(packet)
             \/ handleCheckpoint(packet) \/ handleViewChange(packet)
      PROVE  UNCHANGED sentCommits
    BY <1>2 DEF ClientRequest, handleClientRequest, PrePrepareReceived, handlePrePrepare,
        handleCommit, handleCheckpoint, handleViewChange, checkpointFrame, viewChangeFrame,
        normalMessages
<1>3. ASSUME NEW n \in Nodes,
             \/ \E r \in Requests : Propose(n, r)
             \/ handleRecvSnapshot(n) \/ SendHeartbeat(n) \/ Timeout(n)
             \/ DebugDown(n) \/ DebugUp(n)
      PROVE  UNCHANGED sentCommits
    BY <1>3 DEF Propose, handleClientRequest, handleRecvSnapshot, SendHeartbeat, Timeout,
        DebugDown, DebugUp, debugFrame, checkpointFrame, normalMessages
<1>4. ASSUME NEW rpc \in rpcs,
             RpcArrives(rpc) \/ RpcHandled(rpc) \/ RpcReturns(rpc) \/ RpcTimesOut(rpc)
      PROVE  UNCHANGED sentCommits
    BY <1>4 DEF RpcArrives, RpcHandled, RpcReturns, RpcTimesOut, rpcFrame, handleNewView,
        handlePrePrepare, handleCheckpointProof, checkpointFrame, viewChangeFrame, normalMessages
<1>5. UNCHANGED vars => UNCHANGED sentCommits
    BY DEF vars, normalMessages
<1>. QED
    BY <1>1, <1>2, <1>3, <1>4, <1>5 DEF Next

\* A node that asks for another view sends proofs of all it has prepared, and in a
\* cluster that stays in view 0 it does not stop asking.
LEMMA AsksWithProofs ==
    ASSUME ClusterInv, InFirstView', [Next]_vars
    PROVE  /\ \A n \in Nodes : changing[n] => changing'[n]
           /\ \A vc \in sentViewChanges' \ sentViewChanges :
                 /\ vc.node \in Nodes /\ changing'[vc.node]
                 /\ vc.proofs = PreparedProofs(vc.node)
                 /\ vc.checkpoint = lastCheckpoint[vc.node].number
                 /\ UNCHANGED <<log, lastCheckpoint, sentPrePrepares, sentCommits>>
<1>. DEFINE Asks ==
                /\ \A n \in Nodes : changing[n] => changing'[n]
                /\ \A vc \in sentViewChanges' \ sentViewChanges :
                      /\ vc.node \in Nodes /\ changing'[vc.node]
                      /\ vc.proofs = PreparedProofs(vc.node)
                      /\ vc.checkpoint = lastCheckpoint[vc.node].number
                      /\ UNCHANGED <<log, lastCheckpoint, sentPrePrepares, sentCommits>>
<1>1. TypeOK
    BY DEF ClusterInv, AgreementInv
<1>2. ASSUME NEW n \in Nodes, NEW view, NEW done, startViewChange(n, view, done),
             UNCHANGED <<log, lastCheckpoint, sentPrePrepares, sentCommits>>
      PROVE  Asks
    BY <1>1, <1>2 DEF startViewChange, TypeOK, ChangeType
<1>3. ASSUME UNCHANGED <<changing, sentViewChanges>>
      PROVE  Asks
    BY <1>3
<1>. HIDE DEF Asks
<1>4. ASSUME NEW packet \in inFlight, handleViewChange(packet)
      PROVE  Asks
    <2>1. packet.to \in Nodes
        BY <1>1, PacketType DEF TypeOK
    <2>2. UNCHANGED <<lastCheckpoint, sentPrePrepares, sentCommits>>
        BY <1>4 DEF handleViewChange, viewChangeFrame, checkpointVars
    <2>3. CASE \E view : startViewChange(packet.to, view, {packet}) /\ UNCHANGED log
        BY <1>2, <2>1, <2>2, <2>3
    <2>4. ~LeadNewView(packet.to, packet.message.viewNumber,
                       Received(packet.to, packet.message))
        BY <1>4, NoPrimaryEnters DEF LeadNewView, AnnounceView
    <2>. QED
        BY <1>3, <1>4, <2>3, <2>4 DEF handleViewChange, changeMessageVars
<1>5. ASSUME NEW n \in Nodes, Timeout(n)
      PROVE  Asks
    <2>1. UNCHANGED <<log, lastCheckpoint, sentPrePrepares, sentCommits>>
        BY <1>5 DEF Timeout, ledgerVars, checkpointVars, normalMessages
    <2>. QED
        BY <1>2, <1>3, <1>5, <2>1 DEF Timeout
<1>6. ASSUME NEW packet \in inFlight,
             \/ ClientRequest(packet) \/ PrePrepareReceived(packet) \/ handlePrepare(packet)
             \/ handleCommit(packet) \/ handleCheckpoint(packet)
      PROVE  Asks
    BY <1>3, <1>6 DEF ClientRequest, handleClientRequest, PrePrepareReceived, handlePrePrepare,
        handlePrepare, handleCommit, handleCheckpoint, normalFrame, checkpointFrame,
        changeVars, changeMessageVars
<1>7. ASSUME NEW n \in Nodes,
             \/ \E r \in Requests : Propose(n, r)
             \/ handleRecvSnapshot(n) \/ SendHeartbeat(n) \/ DebugDown(n) \/ DebugUp(n)
      PROVE  Asks
    BY <1>3, <1>7 DEF Propose, handleClientRequest, handleRecvSnapshot, SendHeartbeat,
        DebugDown, DebugUp, debugFrame, normalFrame, checkpointFrame, changeVars,
        changeMessageVars
<1>8. ASSUME NEW rpc \in rpcs, RpcHandled(rpc)
      PROVE  Asks
    <2>1. rpc.kind = "NewView" =>
              ~(AcceptsNewView(rpc.to, rpc.body) /\ enterNewView(rpc.to, rpc.body.viewNumber))
        BY NoBackupEnters
    <2>. QED
        BY <1>3, <1>8, <2>1 DEF RpcHandled, handleNewView, EnterAsBackup, handlePrePrepare,
            handleCheckpointProof, normalFrame, checkpointFrame, changeVars, changeMessageVars
<1>9. ASSUME NEW rpc \in rpcs, RpcArrives(rpc) \/ RpcReturns(rpc) \/ RpcTimesOut(rpc)
      PROVE  Asks
    BY <1>3, <1>9 DEF RpcArrives, RpcReturns, RpcTimesOut, rpcFrame, changeVars,
        changeMessageVars
<1>10. UNCHANGED vars => Asks
    BY <1>3 DEF vars, changeVars, changeMessageVars
<1>11. Asks
    BY <1>4, <1>5, <1>6, <1>7, <1>8, <1>9, <1>10 DEF Next
<1>. QED
    BY <1>11 DEF Asks

\* What is committed in a cluster in view 0 was proposed there, and checkpoints are of
\* that view.
CommitsProposed ==
    \A c \in sentCommits :
        /\ c.node \in Nodes /\ c.number \in SlotIds /\ c.number.viewNumber = 0
        /\ \E pp \in sentPrePrepares : pp.number = c.number

StableInFirstView ==
    \A n \in Nodes : /\ lastCheckpoint[n].number.viewNumber = 0
                     /\ lastCheckpoint[n].number.seqNumber = LastStable[n]
                     /\ LastStable[n] \in Int

LEMMA CommitsInFirstView == ClusterInv /\ FirstViewFacts => CommitsProposed /\ StableInFirstView
<1>. SUFFICES ASSUME ClusterInv, FirstViewFacts
              PROVE  CommitsProposed /\ StableInFirstView
    OBVIOUS
<1>1. TypeOK
    BY DEF ClusterInv, AgreementInv
<1>2. ASSUME NEW c \in sentCommits
      PROVE  /\ c.node \in Nodes /\ c.number \in SlotIds /\ c.number.viewNumber = 0
             /\ \E pp \in sentPrePrepares : pp.number = c.number
    <2>1. c \in Commit
        BY <1>1 DEF TypeOK, SentType
    <2>2. \E pp \in Proposed : pp.number = c.number
        BY DEF ClusterInv, CertificateInv, CommitCertificate
    <2>. QED
        BY <2>1, <2>2 DEF Commit, Proposed, FirstViewFacts, ProposalsOfPrimary
<1>3. ASSUME NEW n \in Nodes
      PROVE  /\ lastCheckpoint[n].number.viewNumber = 0
             /\ lastCheckpoint[n].number.seqNumber = LastStable[n]
             /\ LastStable[n] \in Int
    <2>1. lastCheckpoint[n].number \in SlotIds
        BY <1>1 DEF TypeOK, CheckpointType, CheckpointProof
    <2>. QED
        BY <2>1, StableOfFirstView, SlotIdsType DEF LastStable
<1>. QED
    BY <1>2, <1>3 DEF CommitsProposed, StableInFirstView

\* In view 0 the proofs of a node are of what the primary has proposed.
LEMMA ProofsOfFirstView ==
    ASSUME ClusterInv, FirstViewFacts, NEW n \in Nodes, NEW proof \in PreparedProofs(n)
    PROVE  \E pp \in sentPrePrepares : pp.number = proof.number /\ pp.request = proof.request
<1>1. PICK id \in SlotIds : /\ IsPrepared(log[n][id]) /\ proof.number = id
                            /\ proof.request = log[n][id].request
    BY DEF PreparedProofs
<1>2. log[n][id].request # Nil
    BY <1>1 DEF IsPrepared, IsProposed
<1>3. \E pp \in Proposed : pp.number = id
    BY <1>2 DEF ClusterInv, CertificateInv, LogBacked, Backed, ProposedAs
<1>4. id.viewNumber = 0
    BY <1>3 DEF Proposed, FirstViewFacts, ProposalsOfPrimary
<1>5. AsProposed(id, log[n][id]) \in sentPrePrepares
    BY <1>2, <1>4 DEF ClusterInv, AgreementInv, LogProposed, FromFirstPrimary
<1>. QED
    BY <1>1, <1>5 DEF AsProposed

\* A slot that is prepared, and after the checkpoint, has its proof.
LEMMA PreparedHasProof ==
    ASSUME NEW n \in Nodes, NEW id \in SlotIds, IsPrepared(log[n][id]),
           Before(lastCheckpoint[n].number, id)
    PROVE  \E proof \in PreparedProofs(n) : proof.number = id
<1>. DEFINE proof == [number |-> id, digest |-> log[n][id].requestDigest,
                     request |-> log[n][id].request]
<1>1. proof \in PreparedProofs(n)
    BY DEF PreparedProofs
<1>2. proof.number = id
    OBVIOUS
<1>. HIDE DEF proof
<1>. QED
    BY <1>1, <1>2

\* A step of view 0 and the facts.
LEMMA CarryingStep ==
    ASSUME ClusterInv, ClusterInv', FirstViewFacts, FirstViewFacts', InFirstView, InFirstView',
           CarryingFacts, [Next]_vars
    PROVE  CarryingFacts'
<1>1. /\ TypeOK /\ TypeOK'
      /\ CommitsProposed /\ StableInFirstView /\ CommitsProposed' /\ StableInFirstView'
    BY CommitsInFirstView, PTL DEF ClusterInv, AgreementInv
<1>2. sentPrePrepares \subseteq sentPrePrepares'
    BY SentGrows
<1>3. \A n \in Nodes : LastStable[n] <= LastStable'[n]
    BY <1>1, CheckpointForward DEF StableInFirstView, BeforeOrEqual
<1>4. CommitsKept'
    <2>1. SUFFICES ASSUME NEW c \in sentCommits'
                   PROVE  \/ c.number.seqNumber <= LastStable'[c.node]
                          \/ IsPrepared(log'[c.node][c.number])
        BY DEF CommitsKept
    <2>2. CASE c \notin sentCommits
        BY <1>1, <2>1, <2>2, CommitsOfPrepared
    <2>3. CASE c \in sentCommits
        <3>1. PICK pp \in sentPrePrepares : pp.number = c.number
            BY <1>1, <2>3 DEF CommitsProposed
        <3>2. c.node \in Nodes /\ c.number \in SlotIds /\ c.number.viewNumber = 0
            BY <1>1, <2>3 DEF CommitsProposed
        <3>3. CASE c.number.seqNumber <= LastStable[c.node]
            <4>1. c.number.seqNumber \in Int
                BY <3>2, SlotIdsType
            <4>. QED
                BY <1>1, <1>3, <3>2, <3>3, <4>1 DEF StableInFirstView
        <3>4. CASE IsPrepared(log[c.node][c.number])
            <4>1. \/ IsPrepared(log'[c.node][c.number])
                  \/ BeforeOrEqual(c.number, lastCheckpoint'[c.node].number)
                BY <1>1, <3>1, <3>2, <3>4, PreparedStays
            <4>. QED
                BY <1>1, <3>2, <4>1 DEF BeforeOrEqual, StableInFirstView
        <3>. QED
            BY <2>3, <3>3, <3>4 DEF CarryingFacts, CommitsKept
    <2>. QED
        BY <2>2, <2>3
<1>5. ChangesGoOn'
    BY <1>1, AsksWithProofs DEF CarryingFacts, ChangesGoOn, TypeOK, SentType, ViewChange
<1>6. CommitsProved'
    <2>1. SUFFICES ASSUME NEW vc \in sentViewChanges', NEW c \in sentCommits',
                          c.node = vc.node
                   PROVE  \/ c.number.seqNumber <= vc.checkpoint.seqNumber
                          \/ \E proof \in vc.proofs : proof.number = c.number
        BY DEF CommitsProved
    <2>2. CASE vc \in sentViewChanges /\ c \in sentCommits
        BY <2>1, <2>2 DEF CarryingFacts, CommitsProved
    <2>3. CASE vc \in sentViewChanges /\ c \notin sentCommits
        BY <1>1, <2>1, <2>3, CommitsOfPrepared DEF CarryingFacts, ChangesGoOn
    <2>4. CASE vc \notin sentViewChanges
        <3>1. /\ vc.proofs = PreparedProofs(vc.node) /\ c \in sentCommits
              /\ vc.checkpoint = lastCheckpoint[vc.node].number
            BY <2>1, <2>4, AsksWithProofs
        <3>2. c.node \in Nodes /\ c.number \in SlotIds /\ c.number.viewNumber = 0
            BY <1>1, <3>1 DEF CommitsProposed
        <3>3. vc.checkpoint.seqNumber = LastStable[c.node]
            BY <1>1, <2>1, <3>1, <3>2 DEF StableInFirstView
        <3>4. CASE ~Before(lastCheckpoint[c.node].number, c.number)
            <4>1. c.number.seqNumber \in Int
                BY <3>2, SlotIdsType
            <4>. QED
                BY <1>1, <3>2, <3>3, <3>4, <4>1 DEF Before, StableInFirstView
        <3>5. CASE IsPrepared(log[c.node][c.number]) /\ Before(lastCheckpoint[c.node].number, c.number)
            <4>1. \E proof \in PreparedProofs(c.node) : proof.number = c.number
                BY <3>2, <3>5, PreparedHasProof
            <4>. QED
                BY <2>1, <3>1, <4>1
        <3>. QED
            BY <3>1, <3>3, <2>1, <3>4, <3>5 DEF CarryingFacts, CommitsKept
    <2>. QED
        BY <2>1, <2>2, <2>3, <2>4
<1>7. ProofsProposed'
    <2>1. SUFFICES ASSUME NEW vc \in sentViewChanges', NEW proof \in vc.proofs
                   PROVE  \E pp \in sentPrePrepares :
                             pp.number = proof.number /\ pp.request = proof.request
        BY <1>2 DEF ProofsProposed
    <2>2. CASE vc \in sentViewChanges
        BY <2>1, <2>2 DEF CarryingFacts, ProofsProposed
    <2>3. CASE vc \notin sentViewChanges
        BY <2>1, <2>3, AsksWithProofs, ProofsOfFirstView
    <2>. QED
        BY <2>2, <2>3
<1>. QED
    BY <1>4, <1>5, <1>6, <1>7 DEF CarryingFacts

\* The invariant holds from the start, and for as long as the cluster is in view 0.
LEMMA CarryingInvariant == Spec => []CarryingInv
<1>1. Init => CarryingInv
    BY FirstViewInit DEF Init, CarryingInv, CarryingFacts, CommitsKept, ChangesGoOn,
        CommitsProved, ProofsProposed
<1>2. CarryingInv /\ [Next]_vars => CarryingInv'
    <2>. SUFFICES ASSUME CarryingInv, [Next]_vars
                  PROVE  CarryingInv'
        OBVIOUS
    <2>1. FirstViewInv /\ FirstViewInv' /\ ClusterInv /\ ClusterInv'
        BY FirstViewNext DEF CarryingInv, FirstViewInv
    <2>2. InFirstView' => InFirstView
        BY <2>1, FirstViewProgress DEF ClusterInv, InFirstView
    <2>. QED
        BY <2>1, <2>2, CarryingStep DEF CarryingInv, FirstViewInv
<1>. QED
    BY <1>1, <1>2, PTL DEF Spec

\* A NewView comes from the leader that has counted the view changes for it.
LEMMA FirstNewView ==
    ASSUME ViewInv, [Next]_vars, sentNewViews = {}, NEW nv \in sentNewViews'
    PROVE  /\ nv.node \in Nodes /\ changeMessages'[nv.node] \subseteq sentViewChanges
           /\ LeadNewView(nv.node, nv.viewNumber, changeMessages'[nv.node])
           /\ Votes(nv.viewNumber, changeMessages'[nv.node]) >= ViewChangeQuorum
<1>1. TypeOK
    BY DEF ViewInv
<1>2. PICK packet \in inFlight : handleViewChange(packet)
    <2>1. ~UNCHANGED sentNewViews
        OBVIOUS
    <2>. QED
        BY <2>1, SentGrows DEF Timeout, changeMessageVars
<1>. DEFINE n == packet.to
            vc == packet.message
            messages == Received(n, vc)
<1>3. n \in Nodes
    BY <1>1, PacketType DEF TypeOK
<1>4. changeMessages'[n] = messages
    BY <1>1, <1>2, <1>3 DEF handleViewChange, TypeOK, ChangeType
<1>5. LeadNewView(n, vc.viewNumber, messages) /\ Leads(n, vc, messages)
    BY <1>2 DEF handleViewChange, changeMessageVars
<1>6. messages \subseteq sentViewChanges
    <2>1. vc \in sentViewChanges
        BY <1>2 DEF ViewInv, PacketsAsked, PacketAsked, handleViewChange, Delivered
    <2>2. changeMessages[n] \subseteq sentViewChanges
        BY <1>3 DEF ViewInv, MessagesKept, LastOfPeers
    <2>. QED
        BY <2>1, <2>2 DEF Received
<1>7. nv.node = n /\ nv.viewNumber = vc.viewNumber
    <2>. HIDE DEF n, vc, messages
    <2>1. \E pps : sentNewViews' = sentNewViews \cup
             {[viewNumber |-> vc.viewNumber, prePrepares |-> pps, node |-> n]}
        BY <1>5 DEF LeadNewView, AnnounceView
    <2>. QED
        BY <2>1
<1>8. Votes(vc.viewNumber, messages) >= ViewChangeQuorum
    BY <1>5 DEF Leads
<1>. HIDE DEF n, vc, messages
<1>. QED
    BY <1>3, <1>4, <1>5, <1>6, <1>7, <1>8

\* A number that one of the messages has prepared, and all checkpoints precede, is
\* proposed with the request of a proof for it.
LEMMA ReproposedFromProof ==
    ASSUME NEW n, NEW view, NEW messages, LeadNewView(n, view, messages),
           sentNewViews = {}, NEW nv \in sentNewViews',
           NEW s \in PreparedNumbers(messages) \cap Nat,
           \A stable \in StableNumbers(n, messages) : stable < s
    PROVE  \E proof \in UNION {vc.proofs : vc \in messages}, pp \in nv.prePrepares :
              /\ proof.number.seqNumber = s
              /\ pp.number = SlotId(view, s) /\ pp.request = proof.request
<1>. DEFINE proofs == UNION {vc.proofs : vc \in messages}
<1>1. PICK minS \in 0..MaxSeq, maxS \in 0..MaxSeq : \E chosen :
         /\ minS \in StableNumbers(n, messages)
         /\ s <= maxS
         /\ chosen[s] \in HighestProofs(proofs, s)
         /\ AnnounceView(n, view, NewPrePrepares(n, view, minS, maxS, proofs, chosen), maxS)
    BY DEF LeadNewView, Highest
<1>2. PICK chosen :
         /\ chosen[s] \in HighestProofs(proofs, s)
         /\ AnnounceView(n, view, NewPrePrepares(n, view, minS, maxS, proofs, chosen), maxS)
    BY <1>1
<1>3. minS < s /\ s <= maxS /\ minS \in Int /\ maxS \in Int
    BY <1>1, BoundsAssumption
<1>4. chosen[s] \in proofs /\ chosen[s].number.seqNumber = s /\ HighestProofs(proofs, s) # {}
    BY <1>2 DEF HighestProofs
<1>5. nv.prePrepares = NewPrePrepares(n, view, minS, maxS, proofs, chosen)
    <2>. HIDE DEF proofs
    <2>. QED
        BY <1>2 DEF AnnounceView
<1>6. \E pp \in nv.prePrepares : pp.number = SlotId(view, s) /\ pp.request = chosen[s].request
    <2>. HIDE DEF proofs
    <2>. DEFINE pp == [number |-> SlotId(view, s), digest |-> chosen[s].digest,
                       request |-> chosen[s].request, signer |-> n]
    <2>1. pp \in NewPrePrepares(n, view, minS, maxS, proofs, chosen)
        BY <1>3, <1>4 DEF NewPrePrepares
    <2>. QED
        BY <1>5, <2>1
<1>. HIDE DEF proofs
<1>7. \E proof \in proofs, pp \in nv.prePrepares :
         /\ proof.number.seqNumber = s
         /\ pp.number = SlotId(view, s) /\ pp.request = proof.request
    BY <1>4, <1>6
<1>. QED
    BY <1>7 DEF proofs

\* The first NewView proposes again what a node it has heard of has committed.
LEMMA CarriedOverStep ==
    ASSUME CarryingInv, [Next]_vars, sentNewViews = {}, NEW nv \in sentNewViews',
           NEW vc \in changeMessages'[nv.node], NEW c \in sentCommits, c.node = vc.node,
           \A stable \in StableNumbers(nv.node, changeMessages'[nv.node]) :
               stable < c.number.seqNumber
    PROVE  \E old \in sentPrePrepares, pp \in nv.prePrepares :
              /\ old.number = c.number
              /\ pp.number = SlotId(nv.viewNumber, c.number.seqNumber)
              /\ pp.request = old.request
<1>. DEFINE messages == changeMessages'[nv.node]
            s == c.number.seqNumber
<1>1. ClusterInv /\ ViewInv /\ TypeOK
    BY DEF CarryingInv, FirstViewInv, ClusterInv, ViewInv
<1>2. InFirstView
    BY <1>1 DEF InFirstView, ViewInv, ViewsEntered, Entered
<1>3. FirstViewFacts /\ CarryingFacts
    BY <1>2 DEF CarryingInv, FirstViewInv
<1>4. /\ nv.node \in Nodes /\ messages \subseteq sentViewChanges
      /\ LeadNewView(nv.node, nv.viewNumber, messages)
    BY <1>1, FirstNewView
<1>5. c.number \in SlotIds /\ c.number.viewNumber = 0 /\ s \in Nat
    <2>1. CommitsProposed
        BY <1>1, <1>3, CommitsInFirstView
    <2>. QED
        BY <2>1 DEF CommitsProposed, SlotIds
<1>6. s \in PreparedNumbers(messages)
    <2>1. vc.checkpoint.seqNumber < s /\ vc.checkpoint.seqNumber \in Int
        <3>1. vc.checkpoint.seqNumber \in StableNumbers(nv.node, messages)
            BY DEF StableNumbers
        <3>2. vc.checkpoint \in SlotIds
            BY <1>1, <1>4 DEF TypeOK, SentType, ViewChange
        <3>. QED
            BY <3>1, <3>2, SlotIdsType
    <2>2. \E proof \in vc.proofs : proof.number = c.number
        BY <1>3, <1>4, <1>5, <2>1 DEF CarryingFacts, CommitsProved
    <2>. QED
        BY <2>2 DEF PreparedNumbers
<1>7. PICK proof \in UNION {m.proofs : m \in messages}, pp \in nv.prePrepares :
         /\ proof.number.seqNumber = s
         /\ pp.number = SlotId(nv.viewNumber, s) /\ pp.request = proof.request
    <2>. HIDE DEF messages, s
    <2>1. \A stable \in StableNumbers(nv.node, messages) : stable < s
        BY DEF messages, s
    <2>. QED
        BY <1>4, <1>5, <1>6, <2>1, ReproposedFromProof
<1>8. PICK old \in sentPrePrepares : old.number = proof.number /\ old.request = proof.request
    BY <1>3, <1>4, <1>7 DEF CarryingFacts, ProofsProposed
<1>9. old.number = c.number
    <2>1. old.number \in SlotIds /\ old.number.viewNumber = 0 /\ old.number.seqNumber = s
        BY <1>1, <1>3, <1>7, <1>8 DEF TypeOK, SentType, PrePrepare, FirstViewFacts,
            ProposalsOfPrimary
    <2>. QED
        BY <1>5, <2>1, FirstViewOf
<1>. QED
    BY <1>7, <1>8, <1>9

\* What a node has committed survives the first view change whose leader hears of that
\* node: it is proposed again with its number and request.
THEOREM CommitsCarriedOverHolds == Spec => CommitsCarriedOver
<1>1. CarryingInv /\ [Next]_vars =>
        [\A nv \in sentNewViews' :
           LET heard == changeMessages'[nv.node] IN
           \A vc \in heard, c \in sentCommits :
               /\ sentNewViews = {} /\ c.node = vc.node
               /\ \A stable \in StableNumbers(nv.node, heard) : stable < c.number.seqNumber
               => \E old \in sentPrePrepares, pp \in nv.prePrepares :
                     /\ old.number = c.number
                     /\ pp.number = SlotId(nv.viewNumber, c.number.seqNumber)
                     /\ pp.request = old.request]_vars
    BY CarriedOverStep
<1>. QED
    BY <1>1, CarryingInvariant, PTL DEF Spec, CommitsCarriedOver

\* Two quorums that have more members than there are nodes have one in common.
LEMMA QuorumsIntersect ==
    ASSUME NEW Q \in SUBSET Nodes, NEW R \in SUBSET Nodes,
           Cardinality(Q) + Cardinality(R) > Cardinality(Nodes)
    PROVE  \E n \in Nodes : n \in Q /\ n \in R
<1>1. IsFiniteSet(Q) /\ IsFiniteSet(R) /\ IsFiniteSet(Nodes)
    BY FS_Subset, NodesAssumption
<1>2. /\ Cardinality(Q) \in Nat /\ Cardinality(R) \in Nat /\ Cardinality(Nodes) \in Nat
      /\ Cardinality(Q \cap R) \in Nat /\ Cardinality(Q \cup R) \in Nat
      /\ Cardinality(Q \cup R) = Cardinality(Q) + Cardinality(R) - Cardinality(Q \cap R)
      /\ Cardinality(Q \cup R) <= Cardinality(Nodes)
    <2>1. IsFiniteSet(Q \cap R) /\ IsFiniteSet(Q \cup R) /\ Q \cup R \subseteq Nodes
        BY <1>1, FS_Subset
    <2>. QED
        BY <1>1, <2>1, FS_Union, FS_Subset, FS_CardinalityType
<1>3. Cardinality(Q \cap R) > 0
    BY <1>2
<1>4. Q \cap R # {}
    BY <1>3, FS_EmptySet
<1>. QED
    BY <1>4

\* The committers of a slot and the nodes a new leader has heard of need not meet: the
\* leader does not count itself.  They do in a cluster of 7 nodes, or of 10 or more.
LEMMA QuorumsMeet ==
    CommitQuorum + ViewChangeQuorum > Cardinality(Nodes)
    <=> Cardinality(Nodes) = 7 \/ Cardinality(Nodes) >= 10
<1>1. Cardinality(Nodes) \in Nat
    BY NodesAssumption, FS_CardinalityType
<1>. QED
    BY <1>1 DEF CommitQuorum, ViewChangeQuorum, NPeers

\* What a node has marked committed in view 0 is in the first NewView, unless it is not
\* after the last checkpoint that the leader or a node it has heard of relies on.
CommittedCarriedOver ==
    [][\A nv \in sentNewViews', n \in Nodes, s \in 2..MaxSeq :
          /\ sentNewViews = {} /\ log[n][FirstView(s)].committed
          /\ \A stable \in StableNumbers(nv.node, changeMessages'[nv.node]) : stable < s
          => \E pp \in nv.prePrepares :
                pp.number = SlotId(nv.viewNumber, s) /\ pp.request = Chosen[s]]_vars

\* The leader of the first NewView has heard of a committer of the slot.
LEMMA CommittedCarriedOverStep ==
    ASSUME CommitQuorum + ViewChangeQuorum > Cardinality(Nodes),
           CarryingInv, CarryingInv', [Next]_vars, sentNewViews = {}, NEW nv \in sentNewViews',
           NEW n \in Nodes, NEW s \in 2..MaxSeq, log[n][FirstView(s)].committed,
           \A stable \in StableNumbers(nv.node, changeMessages'[nv.node]) : stable < s
    PROVE  \E pp \in nv.prePrepares :
              pp.number = SlotId(nv.viewNumber, s) /\ pp.request = Chosen[s]
<1>. DEFINE messages == changeMessages'[nv.node]
            voters == Asked(nv.viewNumber, nv.node, messages)
            committers == Committers(FirstView(s))
<1>1. ClusterInv /\ ViewInv /\ ViewInv' /\ TypeOK
    BY DEF CarryingInv, FirstViewInv, ClusterInv, ViewInv
<1>2. FirstView(s) \in SlotIds /\ FirstView(s).seqNumber = s
    BY FirstViewType
<1>3. /\ nv.node \in Nodes /\ messages \subseteq sentViewChanges
      /\ Votes(nv.viewNumber, messages) >= ViewChangeQuorum
    BY <1>1, FirstNewView
<1>4. LastOfPeers(messages, nv.node, messages) /\ \A m \in messages : m.node \in Nodes
    BY <1>1, <1>3 DEF ViewInv, MessagesKept, LastOfPeers, TypeOK, SentType, ViewChange
<1>. HIDE DEF messages
<1>5. voters \in SUBSET Nodes /\ Cardinality(voters) >= ViewChangeQuorum
    <2>1. voters \subseteq Nodes
        BY <1>4 DEF Asked
    <2>2. /\ Votes(nv.viewNumber, messages) \in Int
          /\ Votes(nv.viewNumber, messages) <= Cardinality(voters)
        BY <1>3, <1>4, VotesAsked
    <2>3. Cardinality(voters) \in Int /\ ViewChangeQuorum \in Int
        <3>1. IsFiniteSet(voters)
            BY <2>1, FS_Subset, NodesAssumption
        <3>. QED
            BY <3>1, FS_CardinalityType, NodesAssumption DEF ViewChangeQuorum, NPeers
    <2>. QED
        BY <1>3, <2>1, <2>2, <2>3
<1>6. committers \in SUBSET Nodes /\ Cardinality(committers) >= CommitQuorum
    <2>1. committers \subseteq Nodes
        BY <1>1 DEF Committers, Senders, TypeOK, SentType, Commit
    <2>2. LogBacked
        BY <1>1 DEF ClusterInv, CertificateInv
    <2>3. /\ Cardinality(log[n][FirstView(s)].commits) >= CommitQuorum
          /\ log[n][FirstView(s)].commits \subseteq committers
        BY <1>2, <2>2 DEF LogBacked, Backed, Committers
    <2>4. IsFiniteSet(committers)
        BY <2>1, FS_Subset, NodesAssumption
    <2>. HIDE DEF committers
    <2>5. /\ Cardinality(log[n][FirstView(s)].commits) <= Cardinality(committers)
          /\ Cardinality(log[n][FirstView(s)].commits) \in Nat /\ Cardinality(committers) \in Nat
        BY <2>3, <2>4, FS_Subset, FS_CardinalityType
    <2>. QED
        BY <2>1, <2>3, <2>5, QuorumType
<1>7. PICK p \in Nodes : p \in voters /\ p \in committers
    <2>1. Cardinality(voters) + Cardinality(committers) > Cardinality(Nodes)
        <3>. HIDE DEF voters, committers
        <3>1. IsFiniteSet(voters) /\ IsFiniteSet(committers)
            BY <1>5, <1>6, FS_Subset, NodesAssumption
        <3>2. /\ Cardinality(voters) \in Int /\ Cardinality(committers) \in Int
              /\ Cardinality(Nodes) \in Int
            BY <3>1, FS_CardinalityType, NodesAssumption
        <3>3. ViewChangeQuorum \in Int /\ CommitQuorum \in Int
            BY <3>2 DEF ViewChangeQuorum, CommitQuorum, NPeers
        <3>. QED
            BY <1>5, <1>6, <3>2, <3>3
    <2>. HIDE DEF voters, committers
    <2>. QED
        BY <1>5, <1>6, <2>1, QuorumsIntersect
<1>8. PICK vc \in messages, c \in sentCommits : c.node = vc.node /\ c.number = FirstView(s)
    BY <1>7 DEF Asked, Committers, Senders
<1>9. PICK old \in sentPrePrepares, pp \in nv.prePrepares :
         /\ old.number = FirstView(s)
         /\ pp.number = SlotId(nv.viewNumber, s) /\ pp.request = old.request
    BY <1>2, <1>8, CarriedOverStep DEF messages
<1>10. Chosen[s] = old.request
    BY <1>1, <1>9, ChosenRequest DEF ClusterInv, AgreementInv
<1>. QED
    BY <1>9, <1>10

\* In a cluster whose 2f committers and 2f voters have a node in common, whatever any
\* node has committed in view 0 survives the first view change.
THEOREM CommittedCarriedOverHolds ==
    ASSUME Cardinality(Nodes) = 7 \/ Cardinality(Nodes) >= 10
    PROVE  Spec => CommittedCarriedOver
<1>1. CarryingInv /\ CarryingInv' /\ [Next]_vars =>
        [\A nv \in sentNewViews', n \in Nodes, s \in 2..MaxSeq :
          /\ sentNewViews = {} /\ log[n][FirstView(s)].committed
          /\ \A stable \in StableNumbers(nv.node, changeMessages'[nv.node]) : stable < s
          => \E pp \in nv.prePrepares :
                pp.number = SlotId(nv.viewNumber, s) /\ pp.request = Chosen[s]]_vars
    BY QuorumsMeet, CommittedCarriedOverStep
<1>. QED
    BY <1>1, CarryingInvariant, PTL DEF Spec, CommittedCarriedOver
=============================================================================
